----------------------------- MODULE CommandPort -----------------------------
(***************************************************************************)
(* How a running session is commanded, without threads, locks and events:  *)
(* a command takes effect directly, or it is posted to a slot that holds   *)
(* one command and from which it is taken and executed later.  A post      *)
(* replaces what the slot holds.  Module EngineScheduler implements this;  *)
(* module Schedule uses it as the port its decisions go through.           *)
(***************************************************************************)
CONSTANTS
    Config,     \* the configurations a command may name
    NoConfig    \* Python's None; an IDLE engine has it as its configuration

ASSUME PortAssumption == NoConfig \notin Config

VARIABLES
    running,    \* the engine's _active_config, NoConfig when it is IDLE
    slot,       \* _pending_cmd
    taken       \* the closure _drain_pending returned, while it is not done

port == <<running, slot, taken>>

Command ==
    [op : {"start", "switch"}, cfg : Config] \cup [op : {"stop"}, cfg : {NoConfig}]

NoCommand == [op |-> "none", cfg |-> NoConfig]

StartCommand(c) == [op |-> "start", cfg |-> c]
SwitchCommand(c) == [op |-> "switch", cfg |-> c]
StopCommand == [op |-> "stop", cfg |-> NoConfig]

PortInit ==
    /\ running = NoConfig
    /\ slot = NoCommand
    /\ taken = NoCommand

\* start() unless IDLE and switch_to() unless RUNNING raise EngineError, which
\* cmd_start and cmd_switch log and swallow.
Rejected(c) ==
    \/ c.op = "start" /\ running # NoConfig
    \/ c.op = "switch" /\ running = NoConfig

Apply(c) == running' = IF Rejected(c) THEN running ELSE c.cfg

Direct(c) ==
    /\ Apply(c)
    /\ UNCHANGED <<slot, taken>>

Post(c) ==
    /\ slot' = c
    /\ UNCHANGED <<running, taken>>

Take ==
    /\ taken = NoCommand
    /\ slot # NoCommand
    /\ taken' = slot
    /\ slot' = NoCommand
    /\ UNCHANGED running

Execute ==
    /\ taken # NoCommand
    /\ Apply(taken)
    /\ taken' = NoCommand
    /\ UNCHANGED slot

PortNext ==
    \/ \E c \in Command : Direct(c) \/ Post(c)
    \/ Take
    \/ Execute

PortSpec == PortInit /\ [][PortNext]_port
==============================================================================
