-------------------------------- MODULE Engine --------------------------------
(***************************************************************************)
(* The interval engine (engine.py): a state machine that fires a bracket   *)
(* of shots at the instants t0 + k*p of the running configuration's grid.  *)
(*                                                                         *)
(* Time is a natural number; the code's floats enter only through sums,    *)
(* comparisons and one ceiling, all of which integers reproduce.  A tick   *)
(* that fires is split where the code calls the camera: Tick decides, one  *)
(* Shot step follows per photograph, BracketDone closes the account.       *)
(* EngineScheduler models the lock under which these steps run.            *)
(***************************************************************************)
EXTENDS Integers, FiniteSets

CONSTANTS
    Config,     \* the configurations a session may run
    NoConfig,   \* Python's None for a configuration
    Interval,   \* interval_s of each configuration
    Shots,      \* shots_per_interval of each configuration
    Tol,        \* TICK_TOLERANCE_S
    ShotTime,   \* how long one capture may take
    Horizon     \* bound: no tick and no idle time from here on

ASSUME EngineAssumption ==
    /\ NoConfig \notin Config
    /\ Interval \in [Config -> Nat \ {0}]
    /\ Shots \in [Config -> Nat \ {0}]
    /\ Tol \in Nat
    /\ ShotTime \subseteq Nat
    /\ Horizon \in Nat

VARIABLES
    now,          \* time.monotonic()
    state,        \* _state
    t0,           \* _t0
    config,       \* _active_config
    shotsTaken,   \* _shots_taken
    skips,        \* _skips
    failures,     \* _consecutive_failures
    nextK,        \* _next_expected_k
    fired,        \* _first_fire_done
    firing,       \* control is inside _fire_bracket
    left,         \* shots of the bracket still to take
    shotsBefore,  \* shots_before, the local of _fire_bracket
    \* History variables: no step reads them.
    base,         \* the first instant decided on the current grid
    captured,     \* instants of the current grid with at least one image
    lost,         \* instants of the current grid counted as skips
    torn,         \* instants photographed by a bracket that an exception ended
    earlier       \* skips counted on earlier grids of this session

engineVars == <<state, t0, config, shotsTaken, skips, failures, nextK, fired,
                firing, left, shotsBefore>>
gridVars == <<base, captured, lost, torn, earlier>>
vars == <<now, engineVars, gridVars>>

\* Python's None for an instant or a grid index, both of which are naturals.
None == -1

CeilDiv(a, b) == -((-a) \div b)

Later(a, b) == IF a >= b THEN a ELSE b

\* The grid has been abandoned or replaced: history starts over.
ForgetGrid(carried) ==
    /\ base' = None
    /\ captured' = {}
    /\ lost' = {}
    /\ torn' = {}
    /\ earlier' = carried

-------------------------------------------------------------------------------
Init ==
    /\ now = 0
    /\ state = "idle"
    /\ t0 = None
    /\ config = NoConfig
    /\ shotsTaken = 0
    /\ skips = 0
    /\ failures = 0
    /\ nextK = None
    /\ fired = FALSE
    /\ firing = FALSE
    /\ left = 0
    /\ shotsBefore = 0
    /\ base = None
    /\ captured = {}
    /\ lost = {}
    /\ torn = {}
    /\ earlier = 0

\* start(): EngineError unless IDLE.
Start(c) ==
    /\ state = "idle"
    /\ state' = "running"
    /\ t0' = now
    /\ config' = c
    /\ shotsTaken' = 0
    /\ skips' = 0
    /\ failures' = 0
    /\ nextK' = None
    /\ fired' = FALSE
    /\ ForgetGrid(0)
    /\ UNCHANGED <<now, firing, left, shotsBefore>>

\* A mistake: the new grid is counted from the last instant of the old one.
SwitchTo_KeepsBaseline(c) ==
    /\ state = "running"
    /\ c # config
    /\ config' = c
    /\ ForgetGrid(skips)
    /\ UNCHANGED <<now, state, t0, shotsTaken, skips, failures, nextK, fired,
                   firing, left, shotsBefore>>

\* switch_to(): EngineError unless RUNNING; the running configuration again
\* changes nothing; t0 and the totals survive, the baseline for skips does not.
SwitchTo(c) ==
    /\ state = "running"
    /\ c # config
    /\ config' = c
    /\ nextK' = None
    /\ ForgetGrid(skips)
    /\ UNCHANGED <<now, state, t0, shotsTaken, skips, failures, fired,
                   firing, left, shotsBefore>>

\* stop(): nothing to do when IDLE.
Stop ==
    /\ state = "running"
    /\ state' = "idle"
    /\ t0' = None
    /\ config' = NoConfig
    /\ shotsTaken' = 0
    /\ skips' = 0
    /\ failures' = 0
    /\ nextK' = None
    /\ fired' = FALSE
    /\ ForgetGrid(0)
    /\ UNCHANGED <<now, firing, left, shotsBefore>>

-------------------------------------------------------------------------------
Target(k) == t0 + k * Interval[config]

\* A mistake: the first instant is not the least.
CatchUp_Unclamped == CeilDiv(now - t0 - Tol, Interval[config])

\* A mistake: the ceiling is a floor.
CatchUp_RoundsDown == Later(0, (now - t0 - Tol) \div Interval[config])

\* A mistake: an instant just missed is given up.
CatchUp_NoTolerance == Later(0, CeilDiv(now - t0, Interval[config]))

\* The smallest k whose instant is no more than Tol in the past.
CatchUp == Later(0, CeilDiv(now - t0 - Tol, Interval[config]))

\* _compute_target_k(): k = 0 is always honoured; then the grid, never backwards.
TargetK ==
    IF ~fired THEN 0
    ELSE IF nextK = None THEN CatchUp
    ELSE Later(nextK, CatchUp)

\* seconds_to_next_shot() while RUNNING: the countdown on the screen.
SecondsToNextShot == Later(0, Target(TargetK) - now)

\* A mistake: the sleep aims at the instant after the next.
NextFire_SleepsPast ==
    IF ~fired THEN now
    ELSE Target(IF nextK = None THEN 0 ELSE nextK + 1)

\* next_fire_monotonic() while RUNNING: how long the scheduler may sleep.
NextFire ==
    IF ~fired THEN now
    ELSE Target(IF nextK = None THEN 0 ELSE nextK)

\* Eager skip accounting: the instants passed over since the baseline are lost.
CountSkips(k) ==
    IF nextK # None /\ k > nextK
    THEN /\ skips' = skips + (k - nextK)
         /\ lost' = lost \cup nextK..(k - 1)
    ELSE UNCHANGED <<skips, lost>>

\* tick(), up to the call of _fire_bracket or the return before it.
Tick ==
    /\ now < Horizon
    /\ state = "running"
    /\ CountSkips(TargetK)
    /\ nextK' = TargetK
    /\ base' = IF nextK = None THEN TargetK ELSE base
    /\ IF now < Target(TargetK)
       THEN UNCHANGED <<firing, left, shotsBefore>>
       ELSE /\ firing' = TRUE
            /\ left' = Shots[config]
            /\ shotsBefore' = shotsTaken
    /\ UNCHANGED <<now, state, t0, config, shotsTaken, failures, fired,
                   captured, torn, earlier>>

\* _fire_shot(): set_params and shoot, d later, succeeded or raised a CameraError.
Shot(d, ok) ==
    /\ firing
    /\ left > 0
    /\ now' = now + d
    /\ left' = left - 1
    /\ shotsTaken' = IF ok THEN shotsTaken + 1 ELSE shotsTaken
    /\ failures' = IF ok THEN 0 ELSE failures + 1
    /\ captured' = IF ok THEN captured \cup {nextK} ELSE captured
    /\ UNCHANGED <<state, t0, config, skips, nextK, fired, firing, shotsBefore,
                   base, lost, torn, earlier>>

\* Any other exception leaves tick(): the instant stays the expected one, with the
\* photographs taken so far; the scheduler logs the error and ticks again.
ShotRaises(d) ==
    /\ firing
    /\ left > 0
    /\ now' = now + d
    /\ firing' = FALSE
    /\ left' = 0
    /\ torn' = torn \cup ({nextK} \cap captured)
    /\ UNCHANGED <<state, t0, config, shotsTaken, skips, failures, nextK, fired,
                   shotsBefore, base, captured, lost, earlier>>

\* A mistake: an instant whose bracket failed throughout is counted and tried again.
BracketDone_RetriesFailed ==
    /\ firing
    /\ left = 0
    /\ IF shotsTaken = shotsBefore
       THEN /\ skips' = skips + 1
            /\ lost' = lost \cup {nextK}
            /\ UNCHANGED nextK
       ELSE /\ nextK' = nextK + 1
            /\ UNCHANGED <<skips, lost>>
    /\ fired' = TRUE
    /\ firing' = FALSE
    /\ UNCHANGED <<now, state, t0, config, shotsTaken, failures, left,
                   shotsBefore, base, captured, torn, earlier>>

\* The end of _fire_bracket: a bracket without one image is a skip.
BracketDone ==
    /\ firing
    /\ left = 0
    /\ IF shotsTaken = shotsBefore
       THEN /\ skips' = skips + 1
            /\ lost' = lost \cup {nextK}
       ELSE UNCHANGED <<skips, lost>>
    /\ nextK' = nextK + 1
    /\ fired' = TRUE
    /\ firing' = FALSE
    /\ UNCHANGED <<now, state, t0, config, shotsTaken, failures, left,
                   shotsBefore, base, captured, torn, earlier>>

\* Time passes between ticks: the scheduler sleeps, or is late.
Elapse ==
    /\ ~firing
    /\ now < Horizon
    /\ now' = now + 1
    /\ UNCHANGED <<engineVars, gridVars>>

\* Commands and ticks exclude each other: they are made under one lock.
Next ==
    \/ ~firing /\ \E c \in Config : Start(c) \/ SwitchTo(c)
    \/ ~firing /\ Stop
    \/ ~firing /\ Tick
    \/ \E d \in ShotTime : ShotRaises(d) \/ \E ok \in BOOLEAN : Shot(d, ok)
    \/ BracketDone
    \/ Elapse

Spec == Init /\ [][Next]_vars

-------------------------------------------------------------------------------
TypeOK ==
    /\ now \in Nat
    /\ state \in {"idle", "running"}
    /\ t0 \in Nat \cup {None}
    /\ config \in Config \cup {NoConfig}
    /\ shotsTaken \in Nat
    /\ skips \in Nat
    /\ failures \in Nat
    /\ nextK \in Nat \cup {None}
    /\ fired \in BOOLEAN
    /\ firing \in BOOLEAN
    /\ left \in Nat
    /\ shotsBefore \in Nat
    /\ base \in Nat \cup {None}
    /\ captured \in SUBSET Nat
    /\ lost \in SUBSET Nat
    /\ torn \in SUBSET Nat
    /\ earlier \in Nat

\* The instants of the current grid that are over.
Decided == IF nextK = None THEN {} ELSE base..(nextK - 1)

\* The instants of a grid are photographed and decided in order, whatever failures,
\* late ticks and hot switches the session has seen.  An instant that is over
\* without an image is always among the counted skips, and the counter the screen
\* shows is their number.  The converse has one exception: an instant that has an
\* image is counted as a skip only if an exception tore its bracket apart after a
\* photograph, when the retry fails throughout or comes too late.
InstantsAccounted ==
    /\ Decided \ captured \subseteq lost
    /\ lost \subseteq Decided
    /\ captured \subseteq Decided \cup {nextK}
    /\ captured \cap lost \subseteq torn
    /\ skips = earlier + Cardinality(lost)

\* A bracket starts on its instant or at most Tol after it, never before, except
\* the first bracket of a session, which is honoured however late it is: a late
\* scheduler can not shift the grid.
BracketsOnGrid ==
    [][~firing /\ firing' =>
         /\ now >= Target(nextK')
         /\ \/ now <= Target(nextK') + Tol
            \/ nextK' = 0 /\ ~fired]_vars

\* An instant is given up for only two reasons: it is more than Tol in the past, or
\* its bracket ran to the end and every shot of it failed.
LostOnlyWhenMissed ==
    [][\A k \in lost' \ lost :
         \/ now > Target(k) + Tol
         \/ firing /\ k = nextK /\ failures >= Shots[config]]_vars

\* The scheduler sleeps until NextFire and may wake up to Tol after it without
\* losing an instant: the next tick still decides the expected one; and the
\* countdown on the screen, computed by other code, counts down to that same moment.
SleepLosesNothing ==
    state = "running" /\ ~firing /\ nextK # None /\ now <= NextFire + Tol =>
        /\ TargetK = nextK
        /\ fired => SecondsToNextShot = Later(0, NextFire - now)

\* The engine keeps the promise of GridSession, in which an instant that has been
\* decided never comes up again on its grid.
Session == INSTANCE GridSession
           WITH phase <- state, first <- base, due <- nextK

KeepsSession == Session!Spec
===============================================================================
