--------------------------- MODULE EngineScheduler ---------------------------
(***************************************************************************)
(* The thread that drives the engine (engine_scheduler.py) and the two     *)
(* kinds of thread that command it: one that blocks (the button thread, in *)
(* cmd_start, cmd_switch and cmd_stop) and one that posts to the           *)
(* single-slot mailbox (the UI thread, in cmd_*_async), which also reads   *)
(* the engine's status without the lock and ends the program.              *)
(*                                                                         *)
(* Of the engine (module Engine) only what the threads can see of each     *)
(* other is kept: which configuration runs, whether its next mark has      *)
(* passed and whether a bracket is under way.                              *)
(***************************************************************************)
CONSTANTS
    Config,     \* the configurations a command may name
    NoConfig    \* Python's None; an IDLE engine has it as its configuration

ASSUME SchedulerAssumption == NoConfig \notin Config

VARIABLES
    running,    \* the engine's _active_config, NoConfig when it is IDLE
    mark,       \* where the next mark of its grid is: "ahead"; "here", due and no
                \* more than the tolerance late; "behind", later than that; or
                \* "first", the t0 of a session that has not fired
    firing,     \* control is inside _fire_bracket
    lock,       \* the holder of _cmd_lock
    wake,       \* the event _wake
    stopping,   \* the event _shutdown
    mailbox,    \* _pending_cmd
    sched,      \* program counter of the scheduler thread
    pending,    \* the closure _drain_pending returned
    aim,        \* the configuration whose next mark the thread looked up last
    button,     \* program counter of the blocking thread
    wanted,     \* the command it is making
    ui,         \* program counter of the UI thread
    seen        \* the engine state its status() has read

engine == <<running, mark, firing>>
events == <<wake, stopping, mailbox>>
schedVars == <<sched, pending, aim>>
buttonVars == <<button, wanted>>
uiVars == <<ui, seen>>
vars == <<engine, lock, events, schedVars, buttonVars, uiVars>>

Port == INSTANCE CommandPort WITH slot <- mailbox, taken <- pending

Command == Port!Command
NoCommand == Port!NoCommand

Init ==
    /\ running = NoConfig
    /\ mark = "ahead"
    /\ firing = FALSE
    /\ lock = "free"
    /\ wake = FALSE
    /\ stopping = FALSE
    /\ mailbox = NoCommand
    /\ sched = "drain"
    /\ pending = NoCommand
    /\ aim = NoConfig
    /\ button = "idle"
    /\ wanted = NoCommand
    /\ ui = "loop"
    /\ seen = FALSE

-------------------------------------------------------------------------------
\* What a command does to the engine.  The first mark of a session is its t0 and
\* is honoured however late, under whatever configuration; the first look at a
\* grid it switches to later always finds the mark, t0 again, in the past.

Apply(c) ==
    /\ Port!Apply(c)
    /\ mark' = CASE running' = running                    -> mark
                 [] running' # running /\ c.op = "start"  -> "first"
                 [] running' # running /\ c.op = "switch" ->
                        IF mark = "first" THEN "first" ELSE "behind"
                 [] running' # running /\ c.op = "stop"   -> "ahead"

\* A rejected cmd_start or cmd_switch returns before it sets the event.
Signals(c) == ~Port!Rejected(c)

-------------------------------------------------------------------------------
\* The scheduler thread: _run.

\* A mistake: the mailbox is read and not emptied.
Drain_LeavesSlot ==
    /\ sched = "drain"
    /\ IF stopping
       THEN /\ sched' = "exited"
            /\ UNCHANGED pending
       ELSE /\ pending' = mailbox
            /\ sched' = IF mailbox = NoCommand THEN "peek" ELSE "apply"
    /\ UNCHANGED <<engine, lock, events, aim, buttonVars, uiVars>>

Drain ==
    /\ sched = "drain"
    /\ IF stopping
       THEN /\ sched' = "exited"
            /\ UNCHANGED <<pending, mailbox>>
       ELSE /\ pending' = mailbox
            /\ mailbox' = NoCommand
            /\ sched' = IF mailbox = NoCommand THEN "peek" ELSE "apply"
    /\ UNCHANGED <<engine, lock, wake, stopping, aim, buttonVars, uiVars>>

ApplyPending ==
    /\ sched = "apply"
    /\ lock = "free"
    /\ Apply(pending)
    /\ pending' = NoCommand
    /\ sched' = IF Signals(pending) THEN "signal" ELSE "peek"
    /\ UNCHANGED <<firing, lock, events, aim, buttonVars, uiVars>>

SignalSelf ==
    /\ sched = "signal"
    /\ wake' = TRUE
    /\ sched' = "peek"
    /\ UNCHANGED <<engine, lock, stopping, mailbox, pending, aim, buttonVars,
                   uiVars>>

\* next_fire_monotonic() under the lock, and the wait or tick it leads to.
Peek ==
    /\ sched = "peek"
    /\ lock = "free"
    /\ aim' = running
    /\ sched' = CASE running = NoConfig                     -> "asleep"
                  [] running # NoConfig /\ mark = "ahead"   -> "asleep"
                  [] running # NoConfig /\ mark # "ahead"   -> "tick"
    /\ UNCHANGED <<engine, lock, events, pending, buttonVars, uiVars>>

\* wake.wait(), with or without a timeout, returns because the event is set.
Woken ==
    /\ sched = "asleep"
    /\ wake
    /\ sched' = "clear"
    /\ UNCHANGED <<engine, lock, events, pending, aim, buttonVars, uiVars>>

\* A mistake: after a wake the loop goes on without a drain.
ClearWake_SkipsDrain ==
    /\ sched = "clear"
    /\ wake' = FALSE
    /\ sched' = "peek"
    /\ UNCHANGED <<engine, lock, stopping, mailbox, pending, aim, buttonVars,
                   uiVars>>

ClearWake ==
    /\ sched = "clear"
    /\ wake' = FALSE
    /\ sched' = "drain"
    /\ UNCHANGED <<engine, lock, stopping, mailbox, pending, aim, buttonVars,
                   uiVars>>

\* wake.wait(timeout) returns because the time it was given has passed, which for
\* a grid that was replaced meanwhile may be at any moment.
TimeOut ==
    /\ sched = "asleep"
    /\ aim # NoConfig
    /\ ~wake
    /\ aim # running \/ mark # "ahead"
    /\ sched' = "tick"
    /\ UNCHANGED <<engine, lock, events, pending, aim, buttonVars, uiVars>>

\* tick() of an engine that a command has made IDLE.
TickIdle ==
    /\ sched = "tick"
    /\ lock = "free"
    /\ running = NoConfig
    /\ sched' = "drain"
    /\ UNCHANGED <<engine, lock, events, pending, aim, buttonVars, uiVars>>

\* tick() of a fresh grid, or of a mark that is too late: the target is still to come.
TickEarly ==
    /\ sched = "tick"
    /\ lock = "free"
    /\ running # NoConfig
    /\ mark \in {"ahead", "behind"}
    /\ mark' = "ahead"
    /\ sched' = "drain"
    /\ UNCHANGED <<running, firing, lock, events, pending, aim, buttonVars, uiVars>>

TickFires ==
    /\ sched = "tick"
    /\ lock = "free"
    /\ running # NoConfig
    /\ mark # "ahead"
    /\ firing' = TRUE
    /\ lock' = "sched"
    /\ sched' = "bracket"
    /\ UNCHANGED <<running, mark, events, pending, aim, buttonVars, uiVars>>

\* Where the next mark is when a bracket ends: before it or after it, or the same
\* mark again where an exception has ended the bracket.
NextMark == {"ahead", "here", "behind"} \cup ({"first"} \cap {mark})

\* A mistake: the lock is not released at the end of a bracket.
BracketEnds_KeepsLock ==
    /\ sched = "bracket"
    /\ firing' = FALSE
    /\ mark' \in NextMark
    /\ sched' = "drain"
    /\ UNCHANGED <<running, lock, events, pending, aim, buttonVars, uiVars>>

\* A mistake: a tick that raises ends the thread.
BracketEnds_ExceptionEscapes ==
    /\ sched = "bracket"
    /\ firing' = FALSE
    /\ mark' \in NextMark
    /\ lock' = "free"
    /\ sched' \in {"drain", "exited"}
    /\ UNCHANGED <<running, events, pending, aim, buttonVars, uiVars>>

\* The end of a bracket, or an exception, which _run logs.
BracketEnds ==
    /\ sched = "bracket"
    /\ firing' = FALSE
    /\ mark' \in NextMark
    /\ lock' = "free"
    /\ sched' = "drain"
    /\ UNCHANGED <<running, events, pending, aim, buttonVars, uiVars>>

\* Time reaches the next mark of the grid, and passes it by.
MarkPasses ==
    /\ running # NoConfig
    /\ ~firing
    /\ \/ mark = "ahead" /\ mark' = "here"
       \/ mark = "here" /\ mark' = "behind"
    /\ UNCHANGED <<running, firing, lock, events, schedVars, buttonVars, uiVars>>

-------------------------------------------------------------------------------
\* The blocking thread.  It holds the app's lock while it is not "idle".

AppLockFree == button = "idle" /\ ui # "status"

Press(c) ==
    /\ button = "idle"
    /\ AppLockFree
    /\ button' = "want"
    /\ wanted' = c
    /\ UNCHANGED <<engine, lock, events, schedVars, uiVars>>

\* A mistake: a command does not wait for the lock.
ButtonApplies_WithoutLock ==
    /\ button = "want"
    /\ Apply(wanted)
    /\ button' = IF Signals(wanted) THEN "signal" ELSE "idle"
    /\ wanted' = NoCommand
    /\ UNCHANGED <<firing, lock, events, schedVars, uiVars>>

ButtonApplies ==
    /\ button = "want"
    /\ lock = "free"
    /\ Apply(wanted)
    /\ button' = IF Signals(wanted) THEN "signal" ELSE "idle"
    /\ wanted' = NoCommand
    /\ UNCHANGED <<firing, lock, events, schedVars, uiVars>>

ButtonSignals ==
    /\ button = "signal"
    /\ wake' = TRUE
    /\ button' = "idle"
    /\ UNCHANGED <<engine, lock, stopping, mailbox, schedVars, wanted, uiVars>>

-------------------------------------------------------------------------------
\* The UI thread: the schedule evaluator posts, render reads the status, and the
\* end of the loop shuts the scheduler down.

Post(c) ==
    /\ ui = "loop"
    /\ mailbox' = c
    /\ ui' = "posted"
    /\ UNCHANGED <<engine, lock, wake, stopping, schedVars, buttonVars, seen>>

\* A mistake: a post does not set the wake event.
PostSignals_Forgets ==
    /\ ui = "posted"
    /\ ui' = "loop"
    /\ UNCHANGED <<engine, lock, events, schedVars, buttonVars, seen>>

PostSignals ==
    /\ ui = "posted"
    /\ wake' = TRUE
    /\ ui' = "loop"
    /\ UNCHANGED <<engine, lock, stopping, mailbox, schedVars, buttonVars, seen>>

\* status() and seconds_to_next_shot(): first the state is read ...
ReadState ==
    /\ ui = "loop"
    /\ AppLockFree
    /\ seen' = (running # NoConfig)
    /\ ui' = "status"
    /\ UNCHANGED <<engine, lock, events, schedVars, buttonVars>>

\* ... then t0 and the configuration, which a RUNNING engine is asserted to have.
\* The AssertionError leaves render() and with it the UI loop.
ReadFields ==
    /\ ui = "status"
    /\ ui' = IF seen /\ running = NoConfig THEN "failed" ELSE "loop"
    /\ seen' = FALSE
    /\ UNCHANGED <<engine, lock, events, schedVars, buttonVars>>

\* SIGTERM, the power-off chord, or a failure of the loop.
Shutdown ==
    /\ ui \in {"loop", "failed"}
    /\ stopping' = TRUE
    /\ ui' = "closing"
    /\ UNCHANGED <<engine, lock, wake, mailbox, schedVars, buttonVars, seen>>

\* A mistake: the end does not set the wake event.
ShutdownSignals_Forgets ==
    /\ ui = "closing"
    /\ ui' = "join"
    /\ UNCHANGED <<engine, lock, events, schedVars, buttonVars, seen>>

ShutdownSignals ==
    /\ ui = "closing"
    /\ wake' = TRUE
    /\ ui' = "join"
    /\ UNCHANGED <<engine, lock, stopping, mailbox, schedVars, buttonVars, seen>>

\* thread.join(timeout) returns: the thread has ended, or a bracket takes longer.
Joined ==
    /\ ui = "join"
    /\ sched = "exited" \/ firing
    /\ ui' = "closed"
    /\ UNCHANGED <<engine, lock, events, schedVars, buttonVars, seen>>

-------------------------------------------------------------------------------
SchedStep ==
    \/ Drain \/ ApplyPending \/ SignalSelf \/ Peek \/ Woken \/ ClearWake
    \/ TimeOut \/ TickIdle \/ TickEarly \/ TickFires \/ BracketEnds

ButtonStep == ButtonApplies \/ ButtonSignals

UiStep ==
    \/ PostSignals \/ ReadFields \/ ShutdownSignals \/ Joined
    \/ ui = "failed" /\ Shutdown

Next ==
    \/ SchedStep
    \/ ButtonStep
    \/ UiStep
    \/ MarkPasses
    \/ \E c \in Command : Press(c) \/ Post(c)
    \/ ReadState
    \/ ui = "loop" /\ Shutdown

\* Every thread that can run does; a bracket ends; time passes.  Python's locks keep
\* no order: a thread that waits for the lock is sure of it only when it stays free.
Fairness ==
    /\ WF_vars(SchedStep)
    /\ WF_vars(MarkPasses)
    /\ WF_vars(ButtonStep)
    /\ WF_vars(UiStep)

Spec == Init /\ [][Next]_vars
FairSpec == Spec /\ Fairness

-------------------------------------------------------------------------------
TypeOK ==
    /\ running \in Config \cup {NoConfig}
    /\ mark \in {"first", "ahead", "here", "behind"}
    /\ firing \in BOOLEAN
    /\ lock = IF firing THEN "sched" ELSE "free"
    /\ wake \in BOOLEAN
    /\ stopping \in BOOLEAN
    /\ mailbox \in Command \cup {NoCommand}
    /\ sched \in {"drain", "apply", "signal", "peek", "asleep", "clear", "tick",
                  "bracket", "exited"}
    /\ pending \in Command \cup {NoCommand}
    /\ aim \in Config \cup {NoConfig}
    /\ button \in {"idle", "want", "signal"}
    /\ wanted \in Command \cup {NoCommand}
    /\ ui \in {"loop", "posted", "status", "failed", "closing", "join", "closed"}
    /\ seen \in BOOLEAN

\* A thread asleep with its event clear has nothing to do: no command is in the
\* mailbox, the grid is the one whose mark it waits for, nobody wants it to end,
\* unless the thread that brought the news is just about to set the event.
NoLostWakeup ==
    sched = "asleep" /\ ~wake =>
        /\ mailbox # NoCommand => ui = "posted"
        /\ running # aim => button = "signal"
        /\ stopping => ui = "closing"

\* To those who command it the scheduler is a CommandPort: locks, wake-ups and
\* brackets only delay the commands, they reorder and duplicate none.
IsCommandPort == Port!PortSpec

\* Captures already begun are finished under the configuration they began with: no
\* command, posted or blocking, reaches the engine inside a bracket.
BracketUninterrupted ==
    [][firing => running' = running]_vars

\* A posted command is picked up from the mailbox, whatever the engine is doing.
MailboxDrained ==
    [](mailbox # NoCommand => <>(mailbox = NoCommand \/ stopping))

\* A button press that commands the engine and never returns has been overtaken for
\* ever: bracket follows bracket, and the scheduler takes the lock again each time
\* before the button thread gets it.  Nothing else, no command, rejection, wake-up
\* or end of the program, keeps a press from returning.
PressReturns == []<>(button # "want") \/ []<>firing

\* A running session that never fires again has a thread that comes too late for one
\* mark after another.  Nothing else, no pattern of commands, wake-ups, overruns and
\* exceptions, keeps the thread from its next bracket.
SessionFires ==
    \A c \in Config :
        <>[](running = c /\ ~firing /\ ~stopping)
            => []<>(mark = "ahead") /\ []<>(mark = "behind")

\* The program ends once it has begun to, even with a bracket under way.
ShutdownEnds == stopping ~> (ui = "closed")

\* Reading the status without the lock is good enough for a display: it never
\* brings the UI loop down.
StatusReadable == ui # "failed"
==============================================================================
