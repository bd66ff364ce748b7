------------------------------ MODULE Schedule ------------------------------
(***************************************************************************)
(* The schedule: the trusted clock (trusted_clock.py), the prober that     *)
(* feeds it (time_sync_prober.py), the evaluator that turns crossed start  *)
(* and end moments into commands (schedule_evaluator.py), the on/off flag  *)
(* and its file (store.py), and the parts of the App that re-anchor the    *)
(* clock and reset the evaluator.                                          *)
(*                                                                         *)
(* Two threads: "ui" starts the schedule up, polls and ticks; "op" stands  *)
(* for the operator, who sets the time by hand, forces a sync (a worker),  *)
(* toggles the schedule, commands the engine and restarts the program.     *)
(* Both synchronise on app.lock, but the evaluator's tick holds it only    *)
(* inside its providers.  Commands go through a CommandPort, which module  *)
(* EngineScheduler implements.                                             *)
(***************************************************************************)
EXTENDS CommandPort, Moments, Sequences, FiniteSets

CONSTANTS
    Plan,           \* the start and end moments of the configurations
    Rank,           \* a configuration's place in the user's list
    BaseTolerance,  \* BASE_TOLERANCE_S
    Safety,         \* SAFETY_S
    Drift,          \* seconds of age that widen the envelope by one
    PollInterval,   \* the prober's cadence
    Offsets,        \* what the OS wall clock may be ahead of the monotonic one
    Horizon,        \* bound: the monotonic time at which the behaviour stops
    Interventions   \* bound: how often the operator or the OS clock interferes

None == -1

ScheduleAssumption ==
    /\ Plan \subseteq [kind : {"start", "end"}, cfg : Config, moment : Moment]
    /\ \A p, q \in Plan : p.kind = q.kind /\ p.cfg = q.cfg => p = q
    /\ Rank \in [Config -> Nat]
    /\ \A c, d \in Config : Rank[c] = Rank[d] => c = d
    /\ {BaseTolerance, Safety, Horizon, Interventions} \subseteq Nat
    /\ {Drift, PollInterval} \subseteq Nat \ {0}
    /\ Offsets \subseteq Nat

ASSUME ScheduleAssumption

VARIABLES
    mono,       \* time.monotonic()
    offset,     \* OS wall clock minus mono
    left,       \* interventions left
    baseMono,   \* _baseline_mono
    baseWall,   \* _baseline_wall
    force,      \* _force_pending
    lastPoll,   \* the prober's _last_poll_mono
    lock,       \* the holder of app.lock
    enabled,    \* schedule_enabled
    stored,     \* schedule_state.json
    frontier,   \* the evaluator's _last_evaluated_at
    pc,         \* program counters of the two threads
    obs,        \* the wall_now each has read for its on_sync_observed
    outcome,    \* the SyncOutcome each has got: "first", "forced" or "accepted"
    tnow,       \* tick()'s trusted_now
    active,     \* tick()'s active
    todo,       \* the commands tick() has yet to post
    \* History, read by properties only:
    anchor,     \* the offset the last FIRST_SYNC or FORCED gave the clock, and the
                \* syncs accepted since
    seeded,     \* the instant the frontier was last seeded with
    done,       \* the events evaluated since
    intent,     \* the configuration that schedule and operator want to run
    kept        \* the setting of the schedule that was last saved

clock == <<baseMono, baseWall, force>>
os == <<mono, offset, left>>
local == <<tnow, active, todo>>
sync == <<obs, outcome>>
history == <<seeded, done, intent>>
setting == <<enabled, stored, kept>>
vars == <<port, os, clock, lastPoll, lock, setting, frontier, pc, sync, local,
          anchor, history>>

Thread == {"ui", "op"}
Wall == mono + offset
Abs(x) == IF x < 0 THEN -x ELSE x

Drained == slot = NoCommand /\ taken = NoCommand

Init ==
    /\ PortInit
    /\ mono = 0
    /\ offset \in Offsets
    /\ left = Interventions
    /\ baseMono = None
    /\ baseWall = None
    /\ force = FALSE
    /\ lastPoll = None
    /\ lock = "free"
    /\ enabled = FALSE
    /\ stored \in {"missing", "corrupt", "on", "off"}
    /\ kept = IF stored = "on" THEN "on" ELSE "off"
    /\ frontier = None
    /\ pc = [ui |-> "boot", op |-> "idle"]
    /\ obs = [t \in Thread |-> None]
    /\ outcome = [t \in Thread |-> "none"]
    /\ tnow = None
    /\ active = NoConfig
    /\ todo = <<>>
    /\ anchor = [offset |-> None, accepted |-> 0]
    /\ seeded = None
    /\ done = {}
    /\ intent = NoConfig

Goto(t, label) == pc' = [pc EXCEPT ![t] = label]

\* A return from tick(), where its locals end.
Return ==
    /\ Goto("ui", "wait")
    /\ tnow' = None
    /\ active' = NoConfig
    /\ todo' = <<>>
AppLockFree == lock = "free"

Intervene ==
    /\ left > 0
    /\ left' = left - 1

Flag(b) == IF b THEN "on" ELSE "off"

-------------------------------------------------------------------------------
\* Start-up, in main(): the flag is loaded and the schedule bound to an App whose
\* buttons work already.  A file that is missing or no flag gives way to the default.

LoadFlag ==
    /\ pc["ui"] = "boot"
    /\ stored' = IF stored \in {"on", "off"} THEN stored ELSE "off"
    /\ Goto("ui", "bind")
    /\ UNCHANGED <<port, os, clock, lastPoll, lock, enabled, kept, frontier, sync, local,
                   anchor, history>>

BindSchedule ==
    /\ pc["ui"] = "bind"
    /\ AppLockFree
    /\ enabled' = (stored = "on")
    /\ Goto("ui", "wait")
    /\ UNCHANGED <<port, os, clock, lastPoll, lock, stored, kept, frontier, sync, local,
                   anchor, history>>

Bound == pc["ui"] \notin {"boot", "bind"}

\* The program ends in whatever it is doing and is started again; the file and the
\* clocks of the OS are all that is left.
Restart ==
    /\ Bound
    /\ Intervene
    /\ running' = NoConfig /\ slot' = NoCommand /\ taken' = NoCommand
    /\ baseMono' = None /\ baseWall' = None /\ force' = FALSE
    /\ lastPoll' = None /\ lock' = "free"
    /\ enabled' = FALSE /\ frontier' = None
    /\ pc' = [ui |-> "boot", op |-> "idle"]
    /\ obs' = [t \in Thread |-> None] /\ outcome' = [t \in Thread |-> "none"]
    /\ tnow' = None /\ active' = NoConfig /\ todo' = <<>>
    /\ anchor' = [offset |-> None, accepted |-> 0]
    /\ seeded' = None /\ done' = {} /\ intent' = NoConfig
    /\ UNCHANGED <<mono, offset, stored, kept>>

-------------------------------------------------------------------------------
\* Events: events_in(frontier, now) over all configurations, and what a tick
\* makes of them.

EventsIn(from, to) ==
    UNION {{[kind |-> p.kind, cfg |-> p.cfg, at |-> t] : t \in FiringsIn(p.moment, from, to)} :
               p \in Plan}

StartsOf(events) == {e \in events : e.kind = "start"}

\* _select_start_winner: the most recent instant at which there is a start ...
LatestStart(events) ==
    CHOOSE t \in {e.at : e \in StartsOf(events)} : \A e \in StartsOf(events) : e.at <= t

Contenders(events) == {e \in StartsOf(events) : e.at = LatestStart(events)}

\* ... and of the starts at that instant the first in the user's list.
Winner(events) ==
    CHOOSE e \in Contenders(events) : \A f \in Contenders(events) : Rank[e.cfg] <= Rank[f.cfg]

EndsActive(events, a) == \E e \in events : e.kind = "end" /\ e.cfg = a

\* A mistake: a start is commanded before the stop it follows.
Decide_StartsFirst(events, a) ==
    LET stop  == IF EndsActive(events, a) THEN <<StopCommand>> ELSE <<>>
        after == IF EndsActive(events, a) THEN NoConfig ELSE a
        w     == Winner(events).cfg
        go    == CASE StartsOf(events) = {}                      -> <<>>
                   [] StartsOf(events) # {} /\ after = NoConfig  -> <<StartCommand(w)>>
                   [] StartsOf(events) # {} /\ after = w         -> <<>>
                   [] StartsOf(events) # {} /\ after \notin {w, NoConfig}
                        -> <<SwitchCommand(w)>>
    IN  go \o stop

\* Ends first, and only of the active configuration; then the winning start.
Decide(events, a) ==
    LET stop  == IF EndsActive(events, a) THEN <<StopCommand>> ELSE <<>>
        after == IF EndsActive(events, a) THEN NoConfig ELSE a
        w     == Winner(events).cfg
        go    == CASE StartsOf(events) = {}                      -> <<>>
                   [] StartsOf(events) # {} /\ after = NoConfig  -> <<StartCommand(w)>>
                   [] StartsOf(events) # {} /\ after = w         -> <<>>
                   [] StartsOf(events) # {} /\ after \notin {w, NoConfig}
                        -> <<SwitchCommand(w)>>
    IN  stop \o go

\* What should run when these events are over, wherever the commands travel.
Intended(events, r) ==
    IF StartsOf(events) # {} THEN Winner(events).cfg
    ELSE IF EndsActive(events, r) THEN NoConfig ELSE r

-------------------------------------------------------------------------------
\* on_sync_observed of the App and of the trusted clock.

HasBaseline == baseMono # None /\ baseWall # None
Predicted == baseWall + (mono - baseMono)

Tolerance(age) ==
    IF BaseTolerance >= Safety + age \div Drift
    THEN BaseTolerance ELSE Safety + age \div Drift

\* A mistake: the envelope bounds jumps ahead only.
Adopts_OneSided(w) ==
    \/ force
    \/ ~HasBaseline
    \/ w - Predicted <= Tolerance(mono - baseMono)

Adopts(w) ==
    \/ force
    \/ ~HasBaseline
    \/ Abs(w - Predicted) <= Tolerance(mono - baseMono)

\* A mistake: app.lock is not released.
Synced_KeepsLock(t) ==
    /\ Goto(t, IF t = "ui" THEN "enabled" ELSE "idle")
    /\ obs' = [obs EXCEPT ![t] = None]
    /\ outcome' = [outcome EXCEPT ![t] = "none"]
    /\ UNCHANGED lock

\* A return from on_sync_observed, with app.lock released.
Synced(t) ==
    /\ Goto(t, IF t = "ui" THEN "enabled" ELSE "idle")
    /\ obs' = [obs EXCEPT ![t] = None]
    /\ outcome' = [outcome EXCEPT ![t] = "none"]
    /\ lock' = "free"

\* The outcome is decided and the first field of a new baseline written.
Observe(t) ==
    /\ pc[t] = "observe"
    /\ lock \in {"free", t}
    /\ \/ /\ Adopts(obs[t])
          /\ baseMono' = mono
          /\ outcome' = [outcome EXCEPT ![t] = CASE force                  -> "forced"
                                                [] ~force /\ ~HasBaseline -> "first"
                                                [] ~force /\ HasBaseline  -> "accepted"]
          /\ lock' = t
          /\ Goto(t, "anchor")
          /\ UNCHANGED obs
       \/ /\ ~Adopts(obs[t])
          /\ Synced(t)
          /\ UNCHANGED baseMono
    /\ UNCHANGED <<port, os, baseWall, force, lastPoll, setting, frontier, local, anchor,
                   history>>

\* The second field.  Only a forced sync uses up the flag: one that was armed after
\* the outcome had been decided waits for the next.
Anchor(t) ==
    /\ pc[t] = "anchor"
    /\ baseWall' = obs[t]
    /\ force' = (force /\ outcome[t] # "forced")
    /\ \/ /\ outcome[t] # "accepted"
          /\ anchor' = [offset |-> obs[t] - baseMono, accepted |-> 0]
          /\ Goto(t, "reset")
          /\ UNCHANGED <<sync, lock>>
       \/ /\ outcome[t] = "accepted"
          /\ Synced(t)
          /\ anchor' = [anchor EXCEPT !.accepted = @ + 1]
    /\ UNCHANGED <<port, os, baseMono, lastPoll, setting, frontier, local, history>>

\* reset_frontier(), still under app.lock.
ResetFrontier(t) ==
    /\ pc[t] = "reset"
    /\ frontier' = None
    /\ seeded' = None
    /\ done' = {}
    /\ Synced(t)
    /\ UNCHANGED <<port, os, clock, lastPoll, setting, local, anchor, intent>>

-------------------------------------------------------------------------------
\* The UI loop, before the tick: maybe_poll().  The OS reports a sync or it does not.

PollDue == lastPoll = None \/ mono - lastPoll >= PollInterval

SkipPoll ==
    /\ pc["ui"] = "wait"
    /\ ~PollDue
    /\ Goto("ui", "enabled")
    /\ UNCHANGED <<port, os, clock, lastPoll, lock, setting, frontier, sync, local,
                   anchor, history>>

Poll(synced) ==
    /\ pc["ui"] = "wait"
    /\ PollDue
    /\ lastPoll' = mono
    /\ obs' = [obs EXCEPT !["ui"] = IF synced THEN Wall ELSE @]
    /\ Goto("ui", IF synced THEN "observe" ELSE "enabled")
    /\ UNCHANGED <<port, os, clock, lock, setting, frontier, outcome, local, anchor,
                   history>>

-------------------------------------------------------------------------------
\* The evaluator's tick().

ForgetFrontier ==
    /\ frontier' = None
    /\ seeded' = None
    /\ done' = {}
    /\ Return
    /\ UNCHANGED intent

ReadEnabled ==
    /\ pc["ui"] = "enabled"
    /\ AppLockFree
    /\ \/ ~enabled /\ ForgetFrontier
       \/ enabled /\ Goto("ui", "now") /\ UNCHANGED <<frontier, local, history>>
    /\ UNCHANGED <<port, os, clock, lastPoll, lock, setting, sync, anchor>>

\* TrustedClock.now(): the age of the baseline, from one field ...
ReadBaseMono ==
    /\ pc["ui"] = "now"
    /\ \/ /\ ~HasBaseline
          /\ ForgetFrontier
       \/ /\ HasBaseline
          /\ tnow' = mono - baseMono
          /\ Goto("ui", "add")
          /\ UNCHANGED <<frontier, active, todo, history>>
    /\ UNCHANGED <<port, os, clock, lastPoll, lock, setting, sync, anchor>>

\* ... is added to the other.
ReadBaseWall ==
    /\ pc["ui"] = "add"
    /\ tnow' = baseWall + tnow
    /\ Goto("ui", "active")
    /\ UNCHANGED <<port, os, clock, lastPoll, lock, setting, frontier, sync, active,
                   todo, anchor, history>>

\* The providers of configurations and active configuration take app.lock.
ReadActive ==
    /\ pc["ui"] = "active"
    /\ AppLockFree
    /\ active' = running
    /\ Goto("ui", "frontier")
    /\ UNCHANGED <<port, os, clock, lastPoll, lock, setting, frontier, sync, tnow, todo,
                   anchor, history>>

Seed ==
    /\ pc["ui"] = "frontier"
    /\ frontier = None
    /\ frontier' = tnow
    /\ seeded' = tnow
    /\ done' = {}
    /\ Return
    /\ UNCHANGED <<port, os, clock, lastPoll, lock, setting, sync, anchor, intent>>

Seeded ==
    /\ pc["ui"] = "frontier"
    /\ frontier # None
    /\ Goto("ui", "collect")
    /\ UNCHANGED <<port, os, clock, lastPoll, lock, setting, frontier, sync, local,
                   anchor, history>>

\* A comparison with None raises; the UI loop logs it and goes on.
TickRaises ==
    /\ pc["ui"] \in {"collect", "compare"}
    /\ frontier = None
    /\ Return
    /\ UNCHANGED <<port, os, clock, lastPoll, lock, setting, frontier, sync,
                   anchor, history>>

Collect ==
    /\ pc["ui"] = "collect"
    /\ frontier # None
    /\ LET due == EventsIn(frontier, tnow)
       IN  /\ todo' = Decide(due, active)
           /\ done' = done \cup due
           /\ intent' = Intended(due, intent)
    /\ Goto("ui", IF todo' = <<>> THEN "compare" ELSE "post")
    /\ UNCHANGED <<port, os, clock, lastPoll, lock, setting, frontier, sync, tnow, active,
                   anchor, seeded>>

PostDecision ==
    /\ pc["ui"] = "post"
    /\ Post(Head(todo))
    /\ todo' = Tail(todo)
    /\ Goto("ui", IF todo' = <<>> THEN "compare" ELSE "post")
    /\ UNCHANGED <<os, clock, lastPoll, lock, setting, frontier, sync, tnow, active,
                   anchor, history>>

\* A mistake: the frontier may move back.
Compare_Always ==
    /\ pc["ui"] = "compare"
    /\ frontier # None
    /\ Goto("ui", "advance")
    /\ UNCHANGED <<port, os, clock, lastPoll, lock, setting, frontier, sync, local,
                   anchor, history>>

\* The frontier only moves forward.
Compare ==
    /\ pc["ui"] = "compare"
    /\ frontier # None
    /\ \/ tnow > frontier /\ Goto("ui", "advance") /\ UNCHANGED local
       \/ tnow <= frontier /\ Return
    /\ UNCHANGED <<port, os, clock, lastPoll, lock, setting, frontier, sync, anchor,
                   history>>

\* A mistake: the clock is read once more for the frontier.
Advance_ReadsClockAgain ==
    /\ pc["ui"] = "advance"
    /\ frontier' = IF HasBaseline THEN Predicted ELSE tnow
    /\ seeded' = IF seeded = None THEN frontier' ELSE seeded
    /\ Return
    /\ UNCHANGED <<port, os, clock, lastPoll, lock, setting, sync, anchor, done,
                   intent>>

Advance ==
    /\ pc["ui"] = "advance"
    /\ frontier' = tnow
    /\ seeded' = IF seeded = None THEN tnow ELSE seeded
    /\ Return
    /\ UNCHANGED <<port, os, clock, lastPoll, lock, setting, sync, anchor, done,
                   intent>>

-------------------------------------------------------------------------------
\* The operator.

\* set_manual_time(): the OS clock is set and the trusted clock forced to follow,
\* all under app.lock.
SetManualTime(o) ==
    /\ pc["op"] = "idle"
    /\ AppLockFree /\ Bound
    /\ Intervene
    /\ lock' = "op"
    /\ offset' = o
    /\ force' = TRUE
    /\ obs' = [obs EXCEPT !["op"] = mono + o]
    /\ Goto("op", "observe")
    /\ UNCHANGED <<port, mono, baseMono, baseWall, lastPoll, setting, frontier, outcome,
                   local, anchor, history>>

\* The sync worker arms the flag, then polls whatever the cadence says.
ForceSync ==
    /\ pc["op"] = "idle" /\ Bound
    /\ Intervene
    /\ force' = TRUE
    /\ Goto("op", "armed")
    /\ UNCHANGED <<port, mono, offset, baseMono, baseWall, lastPoll, lock, setting, frontier, sync,
                   local, anchor, history>>

ForcePoll(synced) ==
    /\ pc["op"] = "armed"
    /\ lastPoll' = mono
    /\ obs' = [obs EXCEPT !["op"] = IF synced THEN Wall ELSE @]
    /\ Goto("op", IF synced THEN "observe" ELSE "idle")
    /\ UNCHANGED <<port, os, clock, lock, setting, frontier, outcome, local, anchor,
                   history>>

\* A mistake: the flag is saved before it is flipped.
ToggleSchedule_SavesFirst ==
    /\ pc["op"] = "idle"
    /\ AppLockFree
    /\ Intervene
    /\ enabled' = ~enabled
    /\ \/ Bound /\ stored' = Flag(enabled) /\ kept' = Flag(enabled')
       \/ UNCHANGED <<stored, kept>>
    /\ UNCHANGED <<port, mono, offset, clock, lastPoll, lock, frontier, pc, sync, local,
                   anchor, history>>

\* The flag stays flipped although its save failed, or there is no store yet.
ToggleSchedule ==
    /\ pc["op"] = "idle"
    /\ AppLockFree
    /\ Intervene
    /\ enabled' = ~enabled
    /\ \/ Bound /\ stored' = Flag(enabled') /\ kept' = Flag(enabled')
       \/ UNCHANGED <<stored, kept>>
    /\ UNCHANGED <<port, mono, offset, clock, lastPoll, lock, frontier, pc, sync, local,
                   anchor, history>>

\* A button press: START of an idle engine, a switch or a STOP of a running one.
UserCommand(c) ==
    /\ pc["op"] = "idle"
    /\ AppLockFree
    /\ ~Rejected(c)
    /\ c = StopCommand => running # NoConfig
    /\ Intervene
    /\ Direct(c)
    /\ intent' = running'
    /\ UNCHANGED <<mono, offset, clock, lastPoll, lock, setting, frontier, pc, sync, local, anchor,
                   seeded, done>>

-------------------------------------------------------------------------------
\* The engine's thread, time, and the OS clock.

PortStep ==
    /\ Take \/ Execute
    /\ UNCHANGED <<os, clock, lastPoll, lock, setting, frontier, pc, sync, local, anchor,
                   history>>

\* Time passes while a thread waits for app.lock with what it has observed; the one
\* that holds the lock is done with it within a unit of time.
TimePasses ==
    /\ mono < Horizon
    /\ lock = "free"
    /\ mono' = mono + 1
    /\ UNCHANGED <<port, offset, left, clock, lastPoll, lock, setting, frontier, pc, sync,
                   local, anchor, history>>

\* timesyncd, a bad server or an administrator steps the OS clock.
OsClockSteps(o) ==
    /\ o # offset
    /\ Intervene
    /\ offset' = o
    /\ UNCHANGED <<port, mono, clock, lastPoll, lock, setting, frontier, pc, sync, local,
                   anchor, history>>

UiStep ==
    \/ LoadFlag \/ BindSchedule
    \/ SkipPoll \/ \E synced \in BOOLEAN : Poll(synced)
    \/ ReadEnabled \/ ReadBaseMono \/ ReadBaseWall \/ ReadActive
    \/ Seed \/ Seeded \/ TickRaises \/ Collect \/ PostDecision
    \/ Compare \/ Advance

OpStep ==
    \/ \E o \in Offsets : SetManualTime(o)
    \/ ForceSync \/ \E synced \in BOOLEAN : ForcePoll(synced)
    \/ ToggleSchedule
    \/ \E c \in Command : UserCommand(c)
    \/ Restart

SyncStep(t) == Observe(t) \/ Anchor(t) \/ ResetFrontier(t)

Next ==
    \/ UiStep \/ OpStep \/ PortStep \/ TimePasses
    \/ \E t \in Thread : SyncStep(t)
    \/ \E o \in Offsets : OsClockSteps(o)

Spec == Init /\ [][Next]_vars

-------------------------------------------------------------------------------
TypeOK ==
    /\ running \in Config \cup {NoConfig}
    /\ {slot, taken} \subseteq Command \cup {NoCommand}
    /\ mono \in 0 .. Horizon
    /\ offset \in Offsets
    /\ left \in 0 .. Interventions
    /\ {baseMono, baseWall, lastPoll, frontier, tnow} \subseteq Nat \cup {None}
    /\ {force, enabled} \subseteq BOOLEAN
    /\ stored \in IF Bound THEN {"on", "off"} ELSE {"missing", "corrupt", "on", "off"}
    /\ kept \in {"on", "off"}
    /\ lock \in {"free", "ui", "op"}
    /\ lock # "free" => pc[lock] \in {"observe", "anchor", "reset"}
    /\ \A t \in Thread : pc[t] \in {"anchor", "reset"} => lock = t
    /\ pc["ui"] \in {"boot", "bind", "wait", "observe", "anchor", "reset", "enabled", "now", "add",
                     "active", "frontier", "collect", "post", "compare", "advance"}
    /\ pc["op"] \in {"idle", "armed", "observe", "anchor", "reset"}
    /\ obs \in [Thread -> Nat \cup {None}]
    /\ outcome \in [Thread -> {"none", "first", "forced", "accepted"}]
    /\ active \in Config \cup {NoConfig}
    /\ todo \in Seq(Command) /\ Len(todo) <= 2

\* No event is evaluated twice unless the frontier was given up in between: not when
\* the trusted clock is slewed back, and not when another thread resets the frontier
\* in the middle of a tick.
EvaluatedOnce ==
    [][pc["ui"] = "collect" /\ pc'["ui"] # "wait" /\ pc'["ui"] # "collect"
         => EventsIn(frontier, tnow) \cap done = {}]_vars

\* No event is passed over: everything between the seed and the frontier has been
\* evaluated, however late the UI loop was and wherever time passed inside a tick.
NoneSkipped ==
    frontier # None /\ seeded # None => EventsIn(seeded, frontier) \subseteq done

\* The OS clock can be stepped at will: only a first or a forced sync takes the trusted
\* clock anywhere; without one it is where it was anchored, but for an envelope's width
\* for every sync it has accepted since.
ClockHeld ==
    lock = "free" /\ HasBaseline
      => Abs(baseWall - baseMono - anchor.offset) <= anchor.accepted * Tolerance(Horizon)

\* What runs when an engine that runs r has executed a command, or several in order.
After(r, c) ==
    IF \/ c = NoCommand
       \/ c.op = "start" /\ r # NoConfig
       \/ c.op = "switch" /\ r = NoConfig
    THEN r ELSE c.cfg

AfterAll(r, commands) ==
    IF commands = <<>> THEN r
    ELSE IF Len(commands) = 1 THEN After(r, commands[1])
    ELSE After(After(r, commands[1]), commands[2])

\* A decision is right for the engine the tick has read: its commands, executed in
\* their order and none of them rejected, leave running what the ends and starts of
\* the interval call for, whatever coincides in it.  What becomes of them on the way
\* to the engine is ScheduleObeyed's matter.
DecisionSound ==
    [][pc["ui"] = "collect" /\ pc'["ui"] \in {"post", "compare"}
         => AfterAll(active, todo') = Intended(EventsIn(frontier, tnow), active)]_vars

\* A start brings the schedule up as it was last saved, off where there was nothing to
\* read: a press in the middle of start-up, or one whose save failed, never decides
\* whether it fires.
SwitchKept ==
    [][pc["ui"] = "bind" /\ pc'["ui"] = "wait" => enabled' = (kept = "on")]_vars

\* After a forced re-anchoring the evaluator goes on from the new time: it never
\* waits for the clock to catch up with a frontier of the old one.
NoDeadPeriod ==
    /\ pc["ui"] = "wait" /\ pc["op"] = "idle"
    /\ HasBaseline /\ frontier # None
    => frontier <= Predicted + Tolerance(Horizon)

\* What schedule and operator have asked for is what runs, once the port is drained
\* and the evaluator waits: the stop of a tick reaches the engine before its start.
ScheduleObeyed ==
    pc["ui"] = "wait" /\ Drained => running = intent
===============================================================================
