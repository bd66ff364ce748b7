------------------------- MODULE EngineSchedulerProofs -------------------------
(***************************************************************************)
(* Theorems about module EngineScheduler, for every set of configurations. *)
(*                                                                         *)
(* NoLostWakeup is not inductive: what the thread knows when it goes to    *)
(* sleep it learns in the steps before.  AwakeInv follows it from the      *)
(* moment it drains the mailbox, so that SchedInv is preserved by each     *)
(* step of each thread.                                                    *)
(***************************************************************************)
EXTENDS EngineScheduler, TLAPS

\* From the drain of the mailbox to the sleep, whatever came too late for the drain
\* has left the event set or is about to set it.
AwakeInv ==
    sched \in {"apply", "signal", "peek", "asleep"} /\ ~wake =>
        /\ mailbox # NoCommand => ui = "posted"
        /\ stopping => ui = "closing"

\* The grid the sleeping thread waits for is the running one.
AimInv ==
    sched = "asleep" /\ ~wake => (running # aim => button = "signal")

\* A bracket is under way only in the thread's own step, and holds the lock.
LockInv ==
    /\ firing <=> sched = "bracket"
    /\ firing <=> lock = "sched"

\* A closure is held from its drain to its execution; only a command is executed.
PendingInv ==
    /\ pending # NoCommand <=> sched = "apply"
    /\ wanted # NoCommand <=> button = "want"

SchedInv ==
    /\ TypeOK
    /\ AwakeInv
    /\ AimInv
    /\ LockInv
    /\ PendingInv

USE DEF Command, NoCommand

LEMMA NoCommandIsNone ==
    /\ NoCommand \notin Command
    /\ \A c \in Command : c.cfg \in Config \cup {NoConfig}
                          /\ c.op \in {"start", "switch", "stop"}
  BY DEF Port!Command, Port!NoCommand

\* What a command may do to the engine, in every outcome.
LEMMA ApplyType ==
    ASSUME TypeOK, NEW c \in Command, Apply(c)
    PROVE  /\ running' \in Config \cup {NoConfig}
           /\ mark' \in {"first", "ahead", "here", "behind"}
<1>1. c.cfg \in Config \cup {NoConfig} /\ c.op \in {"start", "switch", "stop"}
  BY NoCommandIsNone
<1>2. running' \in Config \cup {NoConfig}
  BY <1>1 DEF Apply, Port!Apply, TypeOK
<1>3. CASE running' = running
  BY <1>2, <1>3 DEF Apply, TypeOK
<1>4. CASE running' # running
  BY <1>1, <1>2, <1>4 DEF Apply
<1> QED
  BY <1>3, <1>4

LEMMA SchedInitInv == Init => SchedInv
  BY DEF Init, SchedInv, TypeOK, AwakeInv, AimInv, LockInv, PendingInv

LEMMA SchedStepInv ==
    ASSUME SchedInv, SchedStep
    PROVE  SchedInv'
<1> USE DEF SchedInv, AwakeInv, AimInv, LockInv, PendingInv, engine, events,
            schedVars, buttonVars, uiVars
<1>1. CASE Drain
  BY <1>1, NoCommandIsNone DEF Drain, TypeOK
<1>2. CASE ApplyPending
  <2>1. pending \in Command
    BY <1>2 DEF ApplyPending, TypeOK
  <2>2. running' \in Config \cup {NoConfig} /\ mark' \in {"first", "ahead", "here", "behind"}
    BY <1>2, <2>1, ApplyType DEF ApplyPending
  <2>3. TypeOK'
    BY <1>2, <2>2, NoCommandIsNone DEF ApplyPending, TypeOK
  <2>4. AwakeInv' /\ AimInv'
    BY <1>2 DEF ApplyPending
  <2>5. ~firing' /\ lock' # "sched" /\ sched' \notin {"apply", "bracket"}
    BY <1>2 DEF ApplyPending
  <2>6. LockInv' /\ PendingInv'
    BY <1>2, <2>5 DEF ApplyPending
  <2> QED
    BY <2>3, <2>4, <2>6
<1>3. CASE SignalSelf
  BY <1>3 DEF SignalSelf, TypeOK
<1>4. CASE Peek
  BY <1>4 DEF Peek, TypeOK
<1>5. CASE Woken
  BY <1>5 DEF Woken, TypeOK
<1>6. CASE ClearWake
  <2>1. wake' \in BOOLEAN /\ sched' = "drain"
    BY <1>6 DEF ClearWake
  <2>2. TypeOK'
    BY <1>6, <2>1, ZenonT(60) DEF ClearWake, TypeOK
  <2>3. AwakeInv' /\ AimInv' /\ LockInv' /\ PendingInv'
    BY <1>6 DEF ClearWake
  <2> QED
    BY <2>2, <2>3
<1>7. CASE TimeOut
  BY <1>7 DEF TimeOut, TypeOK
<1>8. CASE TickIdle
  BY <1>8 DEF TickIdle, TypeOK
<1>9. CASE TickEarly
  BY <1>9 DEF TickEarly, TypeOK
<1>10. CASE TickFires
  BY <1>10 DEF TickFires, TypeOK
<1>11. CASE BracketEnds
  <2>1. /\ firing' \in BOOLEAN /\ ~firing'
        /\ lock' = "free" /\ lock' # "sched"
        /\ sched' = "drain" /\ sched' # "bracket" /\ sched' # "apply"
    BY <1>11 DEF BracketEnds
  <2>2. mark' \in {"first", "ahead", "here", "behind"}
    <3>1. mark \in {"first", "ahead", "here", "behind"} /\ mark' \in NextMark
      BY <1>11 DEF BracketEnds, TypeOK
    <3> QED
      BY <3>1 DEF NextMark
  <2>3. TypeOK'
    BY <1>11, <2>1, <2>2, ZenonT(60) DEF BracketEnds, TypeOK
  <2>4. AwakeInv' /\ AimInv' /\ LockInv' /\ PendingInv'
    BY <1>11, <2>1 DEF BracketEnds
  <2> QED
    BY <2>3, <2>4
<1> QED
  BY <1>1, <1>2, <1>3, <1>4, <1>5, <1>6, <1>7, <1>8, <1>9, <1>10, <1>11
     DEF SchedStep

LEMMA OtherStepInv ==
    ASSUME SchedInv, ButtonStep \/ UiStep \/ MarkPasses \/ ReadState \/ Shutdown
                     \/ (\E c \in Command : Press(c) \/ Post(c))
    PROVE  SchedInv'
<1> USE DEF SchedInv, AwakeInv, AimInv, LockInv, PendingInv, engine, events,
            schedVars, buttonVars, uiVars
<1>1. CASE ButtonApplies
  <2>1. wanted \in Command
    BY <1>1 DEF ButtonApplies, TypeOK
  <2>2. running' \in Config \cup {NoConfig} /\ mark' \in {"first", "ahead", "here", "behind"}
    BY <1>1, <2>1, ApplyType DEF ButtonApplies
  <2>3. ~Signals(wanted) => running' = running
    BY <1>1 DEF ButtonApplies, Apply, Port!Apply, Signals
  <2>4. TypeOK'
    BY <1>1, <2>2, NoCommandIsNone DEF ButtonApplies, TypeOK
  <2>5. AwakeInv' /\ AimInv'
    BY <1>1, <2>3 DEF ButtonApplies
  <2>6. LockInv' /\ PendingInv'
    BY <1>1 DEF ButtonApplies
  <2> QED
    BY <2>4, <2>5, <2>6
<1>2. CASE ButtonSignals
  BY <1>2 DEF ButtonSignals, TypeOK
<1>3. CASE MarkPasses
  BY <1>3 DEF MarkPasses, TypeOK
<1>4. CASE ReadState
  BY <1>4 DEF ReadState, TypeOK
<1>5. CASE PostSignals
  BY <1>5 DEF PostSignals, TypeOK
<1>6. CASE ReadFields
  <2>1. ui' \in {"failed", "loop"} /\ ui = "status"
    BY <1>6 DEF ReadFields
  <2>2. seen' \in BOOLEAN
           /\ ui' \in {"loop", "posted", "status", "failed", "closing", "join",
                       "closed"}
    BY <1>6, <2>1 DEF ReadFields
  <2>3. TypeOK'
    BY <1>6, <2>2, ZenonT(60) DEF ReadFields, TypeOK
  <2>4. AwakeInv' /\ AimInv' /\ LockInv' /\ PendingInv'
    BY <1>6, <2>1 DEF ReadFields
  <2> QED
    BY <2>3, <2>4
<1>7. CASE Shutdown
  BY <1>7 DEF Shutdown, TypeOK
<1>8. CASE ShutdownSignals
  BY <1>8 DEF ShutdownSignals, TypeOK
<1>9. CASE Joined
  BY <1>9 DEF Joined, TypeOK
<1>10. ASSUME NEW c \in Command, Press(c)
       PROVE  SchedInv'
  BY <1>10, NoCommandIsNone DEF Press, TypeOK
<1>11. ASSUME NEW c \in Command, Post(c)
       PROVE  SchedInv'
  BY <1>11, NoCommandIsNone DEF Post, TypeOK
<1> QED
  BY <1>1, <1>2, <1>3, <1>4, <1>5, <1>6, <1>7, <1>8, <1>9, <1>10, <1>11
     DEF ButtonStep, UiStep

LEMMA SchedNextInv == SchedInv /\ [Next]_vars => SchedInv'
<1> SUFFICES ASSUME SchedInv, [Next]_vars PROVE SchedInv'
  OBVIOUS
<1>1. CASE UNCHANGED vars
  BY <1>1 DEF vars, engine, events, schedVars, buttonVars, uiVars, SchedInv,
              TypeOK, AwakeInv, AimInv, LockInv, PendingInv
<1> QED
  BY <1>1, SchedStepInv, OtherStepInv DEF Next

\* The invariant holds in every state of every behaviour of the threads.
THEOREM SchedInvariance == Spec => []SchedInv
  BY SchedInitInv, SchedNextInv, PTL DEF Spec

\* Each variable of the threads has its type, and _cmd_lock is held exactly for as long as
\* a bracket runs: no step of the scheduler forgets to release it.
THEOREM TypeCorrect == Spec => []TypeOK
<1>1. SchedInv => TypeOK
  BY DEF SchedInv
<1> QED
  BY <1>1, SchedInvariance, PTL

\* No wake-up is ever lost: a thread that sleeps with its event clear has nothing
\* to do, for any interleaving of the threads and any set of configurations.
THEOREM WakeupsKept == Spec => []NoLostWakeup
<1>1. SchedInv => NoLostWakeup
  BY DEF SchedInv, AwakeInv, AimInv, NoLostWakeup
<1> QED
  BY <1>1, SchedInvariance, PTL

\* No command reaches the engine inside a bracket.
THEOREM BracketsFinish == Spec => BracketUninterrupted
<1> DEFINE A == firing => running' = running
<1>1. SchedInv /\ [Next]_vars => [A]_vars
  <2> SUFFICES ASSUME SchedInv, Next, firing PROVE running' = running
    OBVIOUS
  <2>1. lock = "sched" /\ sched = "bracket"
    BY DEF SchedInv, LockInv
  <2> QED
    BY <2>1 DEF Next, SchedStep, Drain, ApplyPending, SignalSelf, Peek, Woken,
                ClearWake, TimeOut, TickIdle, TickEarly, TickFires, BracketEnds,
                ButtonStep, ButtonApplies, ButtonSignals, UiStep, PostSignals,
                ReadFields, Shutdown, ShutdownSignals, Joined, MarkPasses, Press,
                Post, ReadState, engine
<1> QED
  BY <1>1, SchedInvariance, PTL DEF Spec, BracketUninterrupted

-------------------------------------------------------------------------------
\* The threads implement the command port: each of their steps posts, takes,
\* executes or applies a command, or is invisible to whoever commands.
THEOREM ImplementsPort == Spec => IsCommandPort
<1>1. Init => Port!PortInit
  BY DEF Init, Port!PortInit
<1>2. SchedInv /\ [Next]_vars => [Port!PortNext]_(Port!port)
  <2> SUFFICES ASSUME SchedInv, [Next]_vars
               PROVE  Port!PortNext \/ UNCHANGED Port!port
    OBVIOUS
  <2> USE DEF Port!port, engine, events, schedVars, buttonVars, uiVars
  <2>1. CASE Drain
    <3>1. pending = NoCommand
      BY <2>1 DEF Drain, SchedInv, PendingInv
    <3> QED
      BY <2>1, <3>1 DEF Drain, Port!PortNext, Port!Take
  <2>2. CASE ApplyPending
    <3>1. pending # NoCommand
      BY <2>2 DEF ApplyPending, SchedInv, PendingInv
    <3> QED
      BY <2>2, <3>1 DEF ApplyPending, Apply, Port!PortNext, Port!Execute
  <2>3. CASE ButtonApplies
    <3>1. wanted \in Command
      BY <2>3 DEF ButtonApplies, SchedInv, TypeOK, PendingInv
    <3> QED
      BY <2>3, <3>1 DEF ButtonApplies, Apply, Port!PortNext, Port!Direct
  <2>4. ASSUME NEW c \in Command, Post(c)
        PROVE  Port!PortNext
    BY <2>4 DEF Post, Port!PortNext, Port!Post
  <2>5. CASE \/ SignalSelf \/ Peek \/ Woken \/ ClearWake \/ TimeOut \/ TickIdle
             \/ TickEarly \/ TickFires \/ BracketEnds
    BY <2>5 DEF SignalSelf, Peek, Woken, ClearWake, TimeOut, TickIdle, TickEarly,
                TickFires, BracketEnds
  <2>6. CASE \/ ButtonSignals \/ MarkPasses \/ UiStep \/ ReadState \/ Shutdown
             \/ \E c \in Command : Press(c)
    BY <2>6 DEF ButtonSignals, MarkPasses, UiStep, PostSignals, ReadFields,
                Shutdown, ShutdownSignals, Joined, ReadState, Press
  <2>7. CASE UNCHANGED vars
    BY <2>7 DEF vars
  <2> QED
    BY <2>1, <2>2, <2>3, <2>4, <2>5, <2>6, <2>7
       DEF Next, SchedStep, ButtonStep
<1> QED
  BY <1>1, <1>2, SchedInvariance, PTL DEF Spec, IsCommandPort, Port!PortSpec
==============================================================================
