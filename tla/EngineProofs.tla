----------------------------- MODULE EngineProofs -----------------------------
(***************************************************************************)
(* Theorems about module Engine, for every choice of its constants.        *)
(*                                                                         *)
(* Two lemmas bring the integer arithmetic to the form the proofs use: the *)
(* ceiling of _compute_target_k by the inequalities that characterise it,  *)
(* and the instants passed over by a late tick.  The inductive invariant   *)
(* EngineInv adds to the account of the instants what links the engine's   *)
(* fields to one another in each phase.                                    *)
(***************************************************************************)
EXTENDS Engine, FiniteSetTheorems, TLAPS

-------------------------------------------------------------------------------
\* CeilDiv is the ceiling of the quotient: the code's math.ceil.
LEMMA CeilDivBounds ==
    ASSUME NEW a \in Int, NEW b \in Nat \ {0}
    PROVE  /\ CeilDiv(a, b) \in Int
           /\ a <= b * CeilDiv(a, b)
           /\ b * (CeilDiv(a, b) - 1) < a
<1> DEFINE q == (-a) \div b
           r == (-a) % b
<1>1. q \in Int /\ r \in 0..(b - 1) /\ -a = b * q + r
  OBVIOUS
<1>2. b * (-q) = -(b * q)
  BY <1>1
<1>3. b * (-q - 1) = -(b * q) - b
  BY <1>1
<1>4. CeilDiv(a, b) = -q
  BY DEF CeilDiv
<1> QED
  BY <1>1, <1>2, <1>3, <1>4

\* Multiplication by an interval preserves the order of the instants.
LEMMA MultMonotone ==
    ASSUME NEW p \in Nat \ {0}, NEW i \in Int, NEW j \in Int, i <= j
    PROVE  p * i <= p * j
  OBVIOUS

\* CatchUp, in the two forms its users need: the target is not more than Tol in
\* the past, and every earlier instant is.
LEMMA CatchUpBounds ==
    ASSUME TypeOK, config \in Config, t0 \in Nat
    PROVE  /\ CatchUp \in Nat
           /\ now <= Target(CatchUp) + Tol
           /\ \A k \in Nat : k < CatchUp => Target(k) + Tol < now
<1> DEFINE p == Interval[config]
           a == now - t0 - Tol
           c == CeilDiv(a, p)
<1>1. p \in Nat \ {0} /\ a \in Int
  BY EngineAssumption DEF TypeOK
<1>2. c \in Int /\ a <= p * c /\ p * (c - 1) < a
  BY <1>1, CeilDivBounds
<1>3. CatchUp = IF 0 >= c THEN 0 ELSE c
  BY DEF CatchUp, Later
<1>4. CatchUp \in Nat /\ c <= CatchUp
  BY <1>2, <1>3
<1>5. p * c <= p * CatchUp
  BY <1>1, <1>2, <1>4, MultMonotone
<1>6. Target(CatchUp) = t0 + p * CatchUp /\ p * CatchUp \in Nat
  BY <1>1, <1>4 DEF Target
<1>7. now <= Target(CatchUp) + Tol
  BY <1>1, <1>2, <1>5, <1>6, EngineAssumption DEF TypeOK
<1>8. ASSUME NEW k \in Nat, k < CatchUp
      PROVE  Target(k) + Tol < now
  <2>1. CatchUp = c /\ k <= c - 1
    BY <1>2, <1>3, <1>8
  <2>2. p * k <= p * (c - 1)
    BY <1>1, <1>2, <2>1, MultMonotone
  <2>3. Target(k) = t0 + p * k /\ p * k \in Nat /\ p * (c - 1) \in Int
    BY <1>1, <1>2 DEF Target
  <2> QED
    BY <1>1, <1>2, <2>2, <2>3, EngineAssumption DEF TypeOK
<1> QED
  BY <1>4, <1>7, <1>8

-------------------------------------------------------------------------------
\* An idle engine keeps nothing of the last session.
IdleInv ==
    state = "idle" =>
        /\ t0 = None
        /\ config = NoConfig
        /\ nextK = None
        /\ ~firing

\* A running one knows its grid.
RunningInv ==
    state = "running" =>
        /\ t0 \in Nat
        /\ config \in Config

\* Inside a bracket the expected instant is the one being fired, and each shot
\* taken is either counted as taken or among the failures in a row.
FiringInv ==
    firing =>
        /\ state = "running"
        /\ nextK # None
        /\ left <= Shots[config]
        /\ shotsBefore <= shotsTaken
        /\ shotsTaken = shotsBefore => failures + left >= Shots[config]

\* Until the first bracket is done the only instant in question is the first one.
GridInv ==
    /\ base = None <=> nextK = None
    /\ nextK # None => base <= nextK
    /\ ~fired /\ nextK # None => nextK = 0
    /\ IsFiniteSet(lost)

\* The expected instant has an image only if its bracket is under way and has taken
\* one, or an earlier attempt at it was torn apart.
ImageInv ==
    /\ firing /\ shotsTaken # shotsBefore => nextK \in captured
    /\ nextK \in captured =>
          \/ nextK \in torn
          \/ firing /\ shotsTaken # shotsBefore

EngineInv ==
    /\ TypeOK
    /\ IdleInv
    /\ RunningInv
    /\ FiringInv
    /\ GridInv
    /\ ImageInv
    /\ InstantsAccounted

\* What TargetK returns: a natural number that never falls behind the baseline.
LEMMA TargetBounds ==
    ASSUME EngineInv, state = "running"
    PROVE  /\ TargetK \in Nat
           /\ nextK # None => nextK <= TargetK
           /\ now <= Target(TargetK) + Tol \/ (TargetK = 0 /\ ~fired)
           /\ \A k \in Nat : nextK # None /\ nextK <= k /\ k < TargetK
                                 => Target(k) + Tol < now
<1>1. config \in Config /\ t0 \in Nat /\ TypeOK
  BY DEF EngineInv, RunningInv
<1>2. /\ CatchUp \in Nat
      /\ now <= Target(CatchUp) + Tol
      /\ \A k \in Nat : k < CatchUp => Target(k) + Tol < now
  BY <1>1, CatchUpBounds
<1>3. CASE ~fired
  <2>1. TargetK = 0 /\ (nextK # None => nextK = 0)
    BY <1>3 DEF TargetK, EngineInv, GridInv
  <2> QED
    BY <1>3, <2>1
<1>4. CASE fired /\ nextK = None
  <2>1. TargetK = CatchUp
    BY <1>4 DEF TargetK
  <2> QED
    BY <1>2, <1>4, <2>1
<1>5. CASE fired /\ nextK # None /\ nextK <= CatchUp
  <2>1. nextK \in Nat
    BY <1>1, <1>5 DEF TypeOK
  <2>2. TargetK = CatchUp
    BY <1>2, <1>5, <2>1 DEF TargetK, Later
  <2> QED
    BY <1>2, <1>5, <2>1, <2>2
<1>6. CASE fired /\ nextK # None /\ CatchUp < nextK
  <2>1. nextK \in Nat /\ TargetK = nextK
    BY <1>1, <1>2, <1>6 DEF TypeOK, TargetK, Later
  <2>2. Interval[config] \in Nat \ {0}
    BY <1>1, EngineAssumption
  <2>3. Interval[config] * CatchUp <= Interval[config] * nextK
    BY <1>2, <1>6, <2>1, <2>2, MultMonotone
  <2>4. Target(CatchUp) <= Target(nextK) /\ Target(CatchUp) \in Int
        /\ Target(nextK) \in Int
    BY <1>1, <1>2, <2>1, <2>2, <2>3 DEF Target
  <2>5. now <= Target(nextK) + Tol
    BY <1>1, <1>2, <2>4, EngineAssumption DEF TypeOK
  <2> QED
    BY <1>6, <2>1, <2>5
<1>7. nextK # None => nextK <= CatchUp \/ CatchUp < nextK
  BY <1>1, <1>2 DEF TypeOK
<1> QED
  BY <1>3, <1>4, <1>5, <1>6, <1>7

\* How much a tick adds to the account: the instants between the baseline and the
\* target, and nothing on a grid that has no baseline.
LEMMA CountSkipsStep ==
    ASSUME EngineInv, state = "running", ~firing, NEW k \in Nat,
           nextK # None => nextK <= k,
           CountSkips(k), base' = IF nextK = None THEN k ELSE base,
           nextK' = k, UNCHANGED <<captured, torn, earlier>>
    PROVE  /\ skips' \in Nat
           /\ lost' \in SUBSET Nat
           /\ IsFiniteSet(lost')
           /\ base' \in Nat
           /\ base' <= k
           /\ InstantsAccounted'
           /\ k \in captured => k \in torn
<1> USE DEF EngineInv, TypeOK, GridInv, InstantsAccounted, None
<1>1. CASE nextK # None /\ nextK < k
  <2> DEFINE passed == nextK..(k - 1)
  <2>1. /\ skips' = skips + (k - nextK)
        /\ lost' = lost \cup passed
        /\ base' = base
    BY <1>1 DEF CountSkips
  <2>2. IsFiniteSet(passed) /\ Cardinality(passed) = k - nextK
    <3>1. nextK \in Int /\ k - 1 \in Int /\ ~(nextK > k - 1)
          /\ k - 1 - nextK + 1 = k - nextK
      BY <1>1
    <3> QED
      BY <3>1, FS_Interval
  <2>3. nextK \in Nat /\ base \in Nat /\ Decided = base..(nextK - 1)
    BY <1>1 DEF Decided
  <2>4. lost \cap passed = {} /\ captured \cap passed \subseteq {nextK}
    BY <2>3
  <2>5. /\ IsFiniteSet(lost')
        /\ Cardinality(lost') = Cardinality(lost) + (k - nextK)
    <3>1. Cardinality(lost \cap passed) = 0 /\ Cardinality(lost) \in Nat
      BY <2>4, FS_EmptySet, FS_CardinalityType
    <3>2. /\ IsFiniteSet(lost \cup passed)
          /\ Cardinality(lost \cup passed)
                = Cardinality(lost) + Cardinality(passed)
                    - Cardinality(lost \cap passed)
      <4>1. IsFiniteSet(lost)
        OBVIOUS
      <4> QED
        BY <2>2, <4>1, FS_Union
    <3>3. k - nextK \in Nat
      BY <1>1
    <3> QED
      BY <2>1, <2>2, <3>1, <3>2, <3>3
  <2>6. Decided' = Decided \cup passed
    <3>1. Decided' = base..(k - 1)
      BY <2>1 DEF Decided
    <3> QED
      BY <1>1, <2>3, <3>1
  <2>7. captured' \cap lost' \subseteq torn'
    BY <2>1, <2>4 DEF ImageInv
  <2>8. Cardinality(lost) \in Nat
    BY FS_CardinalityType
  <2>9. /\ Decided' \ captured' \subseteq lost'
        /\ lost' \subseteq Decided'
        /\ captured' \subseteq Decided' \cup {nextK'}
    BY <1>1, <2>1, <2>3, <2>6
  <2>10. k \notin captured
    BY <1>1, <2>3
  <2>11. skips' \in Nat /\ skips' = earlier' + Cardinality(lost')
    BY <1>1, <2>1, <2>5, <2>8
  <2>12. lost' \in SUBSET Nat /\ base' \in Nat /\ base' <= k
    BY <1>1, <2>1, <2>3
  <2>13. InstantsAccounted'
    BY <2>7, <2>9, <2>11
  <2> QED
    BY <2>5, <2>10, <2>11, <2>12, <2>13
<1>2. CASE nextK # None /\ nextK = k
  <2>1. UNCHANGED <<skips, lost, base>>
    BY <1>2 DEF CountSkips
  <2>2. Decided' = Decided
    BY <1>2, <2>1 DEF Decided
  <2>3. InstantsAccounted'
    BY <1>2, <2>1, <2>2
  <2> QED
    BY <1>2, <2>1, <2>3 DEF ImageInv
<1>3. CASE nextK = None
  <2>1. UNCHANGED <<skips, lost>> /\ base' = k
    BY <1>3 DEF CountSkips
  <2>2. Decided = {} /\ lost = {} /\ captured = {}
    BY <1>3 DEF Decided
  <2>3. InstantsAccounted'
    <3>1. Decided' = k..(k - 1) /\ k..(k - 1) = {}
      BY <2>1 DEF Decided
    <3> QED
      BY <2>1, <2>2, <3>1
  <2> QED
    BY <2>1, <2>2, <2>3
<1> QED
  BY <1>1, <1>2, <1>3

LEMMA InitInv == Init => EngineInv
<1> SUFFICES ASSUME Init PROVE EngineInv
  OBVIOUS
<1>1. TypeOK
  BY DEF Init, TypeOK, None
<1>2. IdleInv /\ RunningInv /\ FiringInv
  BY DEF Init, IdleInv, RunningInv, FiringInv
<1>3. GridInv /\ ImageInv /\ InstantsAccounted
  BY FS_EmptySet DEF Init, GridInv, ImageInv, InstantsAccounted, Decided, None
<1> QED
  BY <1>1, <1>2, <1>3 DEF EngineInv

\* A command empties the account of the grid it abandons.
LEMMA ForgetGridStep ==
    ASSUME NEW n \in Nat, ForgetGrid(n), nextK' = None, skips' = n
    PROVE  GridInv' /\ InstantsAccounted' /\ captured' = {}
  BY FS_EmptySet DEF ForgetGrid, GridInv, InstantsAccounted, Decided, None

LEMMA CommandStep ==
    ASSUME EngineInv, ~firing,
           Stop \/ \E c \in Config : Start(c) \/ SwitchTo(c)
    PROVE  EngineInv'
<1> USE DEF EngineInv
<1>1. CASE Stop
  <2>1. GridInv' /\ InstantsAccounted' /\ captured' = {}
    BY <1>1, ForgetGridStep DEF Stop
  <2>2. TypeOK'
    BY <1>1 DEF Stop, ForgetGrid, TypeOK, None
  <2> QED
    BY <1>1, <2>1, <2>2 DEF Stop, IdleInv, RunningInv, FiringInv, ImageInv
<1>2. ASSUME NEW c \in Config, Start(c)
      PROVE  EngineInv'
  <2>1. GridInv' /\ InstantsAccounted' /\ captured' = {}
    BY <1>2, ForgetGridStep DEF Start
  <2>2. TypeOK'
    BY <1>2 DEF Start, ForgetGrid, TypeOK, None
  <2> QED
    BY <1>2, <2>1, <2>2 DEF Start, TypeOK, IdleInv, RunningInv, FiringInv, ImageInv
<1>3. ASSUME NEW c \in Config, SwitchTo(c)
      PROVE  EngineInv'
  <2>1. GridInv' /\ InstantsAccounted' /\ captured' = {}
    BY <1>3, ForgetGridStep DEF SwitchTo, TypeOK
  <2>2. TypeOK'
    BY <1>3 DEF SwitchTo, ForgetGrid, TypeOK, None
  <2> QED
    BY <1>3, <2>1, <2>2 DEF SwitchTo, IdleInv, RunningInv, FiringInv, ImageInv
<1> QED
  BY <1>1, <1>2, <1>3

LEMMA TickStep ==
    ASSUME EngineInv, ~firing, Tick
    PROVE  EngineInv'
<1>1. state = "running" /\ config \in Config /\ t0 \in Nat /\ TypeOK
  BY DEF Tick, EngineInv, RunningInv
<1>2. TargetK \in Nat /\ (nextK # None => nextK <= TargetK)
  BY <1>1, TargetBounds
<1>3. Shots[config] \in Nat
  BY <1>1, EngineAssumption
<1>4. /\ skips' \in Nat
      /\ lost' \in SUBSET Nat
      /\ IsFiniteSet(lost')
      /\ base' \in Nat
      /\ base' <= TargetK
      /\ InstantsAccounted'
      /\ TargetK \in captured => TargetK \in torn
  BY <1>1, <1>2, CountSkipsStep DEF Tick
<1>5. TypeOK'
  BY <1>1, <1>2, <1>3, <1>4 DEF Tick, TypeOK
<1>6. FiringInv'
  <2>1. CASE now < Target(TargetK)
    BY <2>1 DEF Tick, FiringInv
  <2>2. CASE ~(now < Target(TargetK))
    <3>1. /\ state' = "running" /\ config' = config /\ nextK' = TargetK
          /\ left' = Shots[config] /\ shotsBefore' = shotsTaken
          /\ shotsTaken' = shotsTaken /\ failures' = failures
      BY <2>2 DEF Tick
    <3>2. shotsTaken \in Nat /\ failures \in Nat
      BY <1>1 DEF TypeOK
    <3> QED
      BY <1>2, <1>3, <3>1, <3>2 DEF FiringInv, None
  <2> QED
    BY <2>1, <2>2
<1>7. GridInv'
  BY <1>1, <1>2, <1>4 DEF Tick, GridInv, TargetK, None
<1>8. ImageInv'
  <2>1. /\ nextK' = TargetK
        /\ UNCHANGED <<captured, torn, shotsTaken>>
        /\ firing' => shotsBefore' = shotsTaken
    BY DEF Tick
  <2> QED
    BY <1>4, <2>1 DEF ImageInv
<1> QED
  BY <1>1, <1>4, <1>5, <1>6, <1>7, <1>8 DEF Tick, EngineInv, IdleInv, RunningInv

LEMMA ShotStep ==
    ASSUME EngineInv, NEW d \in ShotTime,
           ShotRaises(d) \/ \E ok \in BOOLEAN : Shot(d, ok)
    PROVE  EngineInv'
<1> USE DEF EngineInv
<1>1. d \in Nat /\ config \in Config /\ Shots[config] \in Nat
  BY EngineAssumption DEF ShotRaises, Shot, FiringInv, RunningInv
<1>2. /\ firing /\ state = "running" /\ nextK \in Nat /\ base \in Nat
      /\ Decided = base..(nextK - 1)
  BY DEF ShotRaises, Shot, FiringInv, GridInv, TypeOK, None, Decided
<1>3. CASE ShotRaises(d)
  <2>1. /\ UNCHANGED <<state, t0, config, shotsTaken, skips, failures, nextK, fired,
                       shotsBefore, base, captured, lost, earlier>>
        /\ torn' = torn \cup ({nextK} \cap captured)
        /\ firing' = FALSE
        /\ left' = 0
        /\ now' = now + d
    BY <1>3 DEF ShotRaises
  <2>2. TypeOK'
    <3>1. firing' \in BOOLEAN
      BY <2>1
    <3>2. torn' \in SUBSET Nat
      BY <1>2, <2>1 DEF TypeOK
    <3> QED
      BY <1>1, <1>2, <2>1, <3>1, <3>2 DEF TypeOK
  <2>3. GridInv' /\ ImageInv'
    BY <2>1 DEF GridInv, ImageInv
  <2>4. InstantsAccounted'
    BY <2>1 DEF InstantsAccounted, Decided
  <2> QED
    BY <2>1, <2>2, <2>3, <2>4 DEF IdleInv, RunningInv, FiringInv
<1>4. ASSUME NEW ok \in BOOLEAN, Shot(d, ok)
      PROVE  EngineInv'
  <2>1. /\ UNCHANGED <<state, t0, config, skips, nextK, fired, firing, shotsBefore,
                       base, lost, torn, earlier>>
        /\ shotsTaken' = IF ok THEN shotsTaken + 1 ELSE shotsTaken
        /\ captured' = IF ok THEN captured \cup {nextK} ELSE captured
    BY <1>4 DEF Shot
  <2>2. TypeOK'
    BY <1>1, <1>2, <1>4 DEF Shot, TypeOK
  <2>3. FiringInv'
    BY <1>1, <1>4 DEF Shot, TypeOK, FiringInv
  <2>4. GridInv'
    BY <2>1 DEF GridInv
  <2>5. ImageInv'
    <3>1. shotsTaken \in Nat /\ shotsBefore \in Nat /\ shotsBefore <= shotsTaken
      BY <1>2 DEF TypeOK, FiringInv
    <3> QED
      BY <1>2, <2>1, <3>1 DEF ImageInv
  <2>6. InstantsAccounted'
    <3>1. Decided' = Decided
      BY <2>1 DEF Decided
    <3>2. nextK \notin lost
      BY <1>2 DEF InstantsAccounted
    <3> QED
      BY <2>1, <3>1, <3>2 DEF InstantsAccounted
  <2> QED
    BY <2>1, <2>2, <2>3, <2>4, <2>5, <2>6 DEF IdleInv, RunningInv
<1> QED
  BY <1>3, <1>4

LEMMA BracketDoneStep ==
    ASSUME EngineInv, BracketDone
    PROVE  EngineInv'
<1> USE DEF EngineInv
<1>1. /\ state = "running"
      /\ nextK \in Nat
      /\ base \in Nat
      /\ base <= nextK
      /\ Decided = base..(nextK - 1)
      /\ Cardinality(lost) \in Nat
  BY FS_CardinalityType
     DEF BracketDone, FiringInv, TypeOK, GridInv, InstantsAccounted, Decided, None
<1>2. nextK \notin lost /\ captured \subseteq Nat /\ nextK + 1 \notin captured
  BY <1>1 DEF InstantsAccounted, TypeOK
<1>3. nextK' = nextK + 1 /\ Decided' = Decided \cup {nextK}
  <2>1. nextK' = nextK + 1 /\ base' = base
    BY DEF BracketDone
  <2>2. nextK' # None /\ nextK' - 1 = nextK
    BY <1>1, <2>1 DEF None
  <2>3. Decided' = base..nextK
    BY <2>1, <2>2 DEF Decided
  <2> QED
    BY <1>1, <2>1, <2>3
<1>4. TypeOK'
  <2>1. skips' \in Nat /\ lost' \in SUBSET Nat
    <3>1. skips \in Nat /\ lost \in SUBSET Nat
      BY DEF TypeOK
    <3>2. CASE shotsTaken = shotsBefore
      <4>1. skips' = skips + 1 /\ lost' = lost \cup {nextK}
        BY <3>2 DEF BracketDone
      <4>2. lost' \subseteq Nat
        BY <1>1, <3>1, <4>1
      <4> QED
        BY <3>1, <4>1, <4>2
    <3>3. CASE shotsTaken # shotsBefore
      BY <3>1, <3>3 DEF BracketDone
    <3> QED
      BY <3>2, <3>3
  <2>2. firing' \in BOOLEAN /\ fired' \in BOOLEAN
    BY DEF BracketDone
  <2> QED
    BY <1>1, <2>1, <2>2 DEF BracketDone, TypeOK
<1>5. IsFiniteSet(lost') /\ InstantsAccounted'
  <2>1. UNCHANGED <<captured, torn, base, earlier>> /\ firing
    BY DEF BracketDone
  <2>2. CASE shotsTaken = shotsBefore
    <3>1. /\ skips' = skips + 1
          /\ lost' = lost \cup {nextK}
      BY <2>2 DEF BracketDone
    <3>2. IsFiniteSet(lost') /\ Cardinality(lost') = Cardinality(lost) + 1
      BY <1>2, <3>1, FS_AddElement DEF GridInv
    <3>3. nextK \in captured => nextK \in torn
      BY <2>2 DEF ImageInv
    <3>4. /\ Decided' \ captured' \subseteq lost'
          /\ lost' \subseteq Decided'
          /\ captured' \subseteq Decided' \cup {nextK'}
          /\ captured' \cap lost' \subseteq torn'
      BY <1>3, <2>1, <3>1, <3>3 DEF InstantsAccounted
    <3> QED
      BY <1>1, <2>1, <3>1, <3>2, <3>4 DEF InstantsAccounted, TypeOK
  <2>3. CASE shotsTaken # shotsBefore
    <3>1. UNCHANGED <<skips, lost>>
      BY <2>3 DEF BracketDone
    <3>2. nextK \in captured
      BY <2>1, <2>3 DEF ImageInv
    <3> QED
      BY <1>3, <2>1, <3>1, <3>2 DEF InstantsAccounted, GridInv
  <2> QED
    BY <2>2, <2>3
<1>6. GridInv'
  BY <1>1, <1>5 DEF BracketDone, GridInv, None
<1>7. ImageInv'
  <2>1. firing' = FALSE /\ captured' = captured
    BY DEF BracketDone
  <2> QED
    BY <1>2, <1>3, <2>1 DEF ImageInv
<1> QED
  BY <1>1, <1>4, <1>5, <1>6, <1>7
     DEF BracketDone, IdleInv, RunningInv, FiringInv

LEMMA NextInv == EngineInv /\ [Next]_vars => EngineInv'
<1> SUFFICES ASSUME EngineInv, [Next]_vars PROVE EngineInv'
  OBVIOUS
<1>1. CASE Elapse
  BY <1>1 DEF Elapse, engineVars, gridVars, EngineInv, TypeOK, IdleInv,
              RunningInv, FiringInv, GridInv, ImageInv, InstantsAccounted,
              Decided
<1>2. CASE UNCHANGED vars
  BY <1>2 DEF vars, engineVars, gridVars, EngineInv, TypeOK, IdleInv,
              RunningInv, FiringInv, GridInv, ImageInv, InstantsAccounted,
              Decided
<1> QED
  BY <1>1, <1>2, CommandStep, TickStep, ShotStep, BracketDoneStep DEF Next

\* The invariant holds in every state of every behaviour of the engine.
THEOREM Invariance == Spec => []EngineInv
  BY InitInv, NextInv, PTL DEF Spec

\* Type correctness of the engine's fields and locals.
THEOREM TypeCorrect == Spec => []TypeOK
<1>1. EngineInv => TypeOK
  BY DEF EngineInv
<1> QED
  BY <1>1, Invariance, PTL

\* Every instant of a grid is decided exactly once, none without an image goes
\* uncounted and one with an image is counted only after a torn bracket, for every
\* interval, tolerance, bracket and duration of the captures.
THEOREM Accounted == Spec => []InstantsAccounted
<1>1. EngineInv => InstantsAccounted
  BY DEF EngineInv
<1> QED
  BY <1>1, Invariance, PTL

-------------------------------------------------------------------------------
\* A bracket starts on its instant or at most Tol after it, whatever the scheduler
\* and the camera did before, the first bracket of a session excepted.
THEOREM OnGrid == Spec => BracketsOnGrid
<1> DEFINE A == ~firing /\ firing' =>
                  /\ now >= Target(nextK')
                  /\ \/ now <= Target(nextK') + Tol
                     \/ nextK' = 0 /\ ~fired
<1>1. EngineInv /\ [Next]_vars => [A]_vars
  <2> SUFFICES ASSUME EngineInv, Next, ~firing, firing' PROVE A
    OBVIOUS
  <2>1. Tick
    BY DEF Next, Start, SwitchTo, Stop, Shot, ShotRaises, BracketDone, Elapse,
           engineVars
  <2>2. state = "running" /\ nextK' = TargetK /\ ~(now < Target(TargetK))
    BY <2>1 DEF Tick
  <2>3. TargetK \in Nat
        /\ (now <= Target(TargetK) + Tol \/ (TargetK = 0 /\ ~fired))
    BY <2>2, TargetBounds
  <2>4. Target(TargetK) \in Nat /\ now \in Nat
    BY <2>2, <2>3, EngineAssumption DEF Target, EngineInv, RunningInv, TypeOK
  <2> QED
    BY <2>2, <2>3, <2>4
<1> QED
  BY <1>1, Invariance, PTL DEF Spec, BracketsOnGrid

\* No instant is given up early: only a bracket that failed throughout, or a tick
\* that comes more than Tol after the instant, adds to the lost ones.
THEOREM NoneLostEarly == Spec => LostOnlyWhenMissed
<1> DEFINE A == \A k \in lost' \ lost :
                  \/ now > Target(k) + Tol
                  \/ firing /\ k = nextK /\ failures >= Shots[config]
<1>1. EngineInv /\ [Next]_vars => [A]_vars
  <2> SUFFICES ASSUME EngineInv, Next, NEW k \in lost', k \notin lost
               PROVE  \/ now > Target(k) + Tol
                      \/ firing /\ k = nextK /\ failures >= Shots[config]
    OBVIOUS
  <2>1. Tick \/ BracketDone
    BY DEF Next, Start, SwitchTo, Stop, ForgetGrid, Shot, ShotRaises, Elapse,
           gridVars
  <2>2. CASE Tick
    <3>1. state = "running" /\ config \in Config /\ t0 \in Nat /\ TypeOK
      BY <2>2 DEF Tick, EngineInv, RunningInv
    <3>2. nextK # None /\ nextK < TargetK /\ k \in nextK..(TargetK - 1)
      BY <2>2, <3>1, TargetBounds DEF Tick, CountSkips
    <3>3. TargetK \in Nat /\ nextK \in Nat
      BY <3>1, <3>2, TargetBounds DEF TypeOK
    <3>4. k \in Nat /\ nextK <= k /\ k < TargetK
      BY <3>2, <3>3
    <3>5. Target(k) + Tol < now
      BY <3>1, <3>2, <3>4, TargetBounds
    <3>6. Target(k) + Tol \in Int /\ now \in Int
      <4>1. Interval[config] \in Nat
        BY <3>1, EngineAssumption
      <4> QED
        BY <3>1, <3>4, <4>1, EngineAssumption DEF Target, TypeOK
    <3> QED
      BY <3>5, <3>6
  <2>3. CASE BracketDone
    BY <2>3, EngineAssumption
       DEF BracketDone, EngineInv, FiringInv, RunningInv, TypeOK
  <2> QED
    BY <2>1, <2>2, <2>3
<1> QED
  BY <1>1, Invariance, PTL DEF Spec, LostOnlyWhenMissed

\* Sleeping until next_fire_monotonic() never makes the engine lose an instant, and
\* the countdown agrees with it.
THEOREM SleepIsSafe == Spec => []SleepLosesNothing
<1>1. EngineInv => SleepLosesNothing
  <2> SUFFICES ASSUME EngineInv, state = "running", ~firing, nextK # None,
                      now <= NextFire + Tol
               PROVE  /\ TargetK = nextK
                      /\ fired => SecondsToNextShot = Later(0, NextFire - now)
    BY DEF SleepLosesNothing
  <2>1. config \in Config /\ t0 \in Nat /\ TypeOK /\ nextK \in Nat
    BY DEF EngineInv, RunningInv, TypeOK
  <2>2. CASE ~fired
    BY <2>2 DEF TargetK, EngineInv, GridInv
  <2>3. CASE fired
    <3>1. NextFire = Target(nextK)
      BY <2>3 DEF NextFire
    <3>2. CatchUp \in Nat
          /\ \A k \in Nat : k < CatchUp => Target(k) + Tol < now
      BY <2>1, CatchUpBounds
    <3>3. Target(nextK) + Tol \in Int /\ now \in Int
      <4>1. Interval[config] \in Nat
        BY <2>1, EngineAssumption
      <4> QED
        BY <2>1, <4>1, EngineAssumption DEF Target, TypeOK
    <3>4. ~(nextK < CatchUp)
      BY <2>1, <3>1, <3>2, <3>3
    <3>5. TargetK = nextK
      BY <2>1, <2>3, <3>2, <3>4 DEF TargetK, Later
    <3> QED
      BY <3>1, <3>5 DEF SecondsToNextShot
  <2> QED
    BY <2>2, <2>3
<1> QED
  BY <1>1, Invariance, PTL

-------------------------------------------------------------------------------
\* The engine implements the abstract session: every step of it decides instants
\* in order, changes the session, or is invisible to it.
THEOREM Implements == Spec => KeepsSession
<1>1. Init => Session!Init
  BY DEF Init, Session!Init, Session!Unanchored, None
<1>2. EngineInv /\ [Next]_vars => [Session!Next]_(Session!session)
  <2> SUFFICES ASSUME EngineInv, [Next]_vars
               PROVE  Session!Next \/ UNCHANGED Session!session
    OBVIOUS
  <2> USE DEF Session!session, Session!Unanchored, None
  <2>1. CASE Stop
    BY <2>1 DEF Stop, ForgetGrid, Session!Next, Session!End, Session!FreshGrid
  <2>2. ASSUME NEW c \in Config, Start(c)
        PROVE  Session!Next
    BY <2>2 DEF Start, ForgetGrid, Session!Next, Session!Begin,
                Session!FreshGrid
  <2>3. ASSUME NEW c \in Config, SwitchTo(c)
        PROVE  Session!Next
    BY <2>3 DEF SwitchTo, ForgetGrid, Session!Next, Session!Regrid,
                Session!FreshGrid
  <2>4. CASE Tick
    <3>1. state = "running" /\ state' = "running" /\ nextK' = TargetK
          /\ captured' = captured
      BY <2>4 DEF Tick
    <3>2. TargetK \in Nat /\ (nextK # None => nextK <= TargetK)
          /\ (nextK # None => nextK \in Nat)
      BY <3>1, TargetBounds DEF EngineInv, TypeOK
    <3>3. CASE nextK = None
      <4>1. base' = TargetK /\ lost' = lost
        BY <2>4, <3>3 DEF Tick, CountSkips
      <4> QED
        BY <3>1, <3>2, <3>3, <4>1 DEF Session!Next, Session!Anchor
    <3>4. CASE nextK # None /\ nextK < TargetK
      <4>1. base' = base /\ lost' = lost \cup nextK..(TargetK - 1)
        BY <2>4, <3>2, <3>4 DEF Tick, CountSkips
      <4> QED
        BY <3>1, <3>2, <3>4, <4>1 DEF Session!Next, Session!Lose
    <3>5. CASE nextK # None /\ nextK = TargetK
      <4>1. base' = base /\ lost' = lost
        BY <2>4, <3>2, <3>5 DEF Tick, CountSkips
      <4> QED
        BY <3>1, <3>5, <4>1
    <3> QED
      BY <3>2, <3>3, <3>4, <3>5
  <2>5. CASE BracketDone
    <3>1. state = "running" /\ nextK \in Nat
      BY <2>5 DEF BracketDone, EngineInv, FiringInv, TypeOK
    <3>2. nextK..(nextK + 1 - 1) = {nextK}
      BY <3>1
    <3>3. CASE shotsTaken = shotsBefore
      BY <2>5, <3>1, <3>2, <3>3 DEF BracketDone, Session!Next, Session!Lose
    <3>4. CASE shotsTaken # shotsBefore
      <4>1. nextK \in captured
        BY <2>5, <3>4 DEF BracketDone, EngineInv, ImageInv
      <4> QED
        BY <2>5, <3>1, <3>4, <4>1 DEF BracketDone, Session!Next, Session!Pass
    <3> QED
      BY <3>3, <3>4
  <2>6. ASSUME NEW d \in ShotTime,
               ShotRaises(d) \/ \E ok \in BOOLEAN : Shot(d, ok)
        PROVE  Session!Next \/ UNCHANGED Session!session
    <3>1. CASE ShotRaises(d)
      BY <3>1 DEF ShotRaises
    <3>2. ASSUME NEW ok \in BOOLEAN, Shot(d, ok)
          PROVE  Session!Next \/ UNCHANGED Session!session
      <4>1. state = "running" /\ nextK # None
        BY <3>2 DEF Shot, EngineInv, FiringInv
      <4> QED
        BY <3>2, <4>1 DEF Shot, Session!Next, Session!Photograph
    <3> QED
      BY <2>6, <3>1, <3>2
  <2>7. CASE Elapse \/ UNCHANGED vars
    BY <2>7 DEF Elapse, vars, engineVars, gridVars
  <2> QED
    BY <2>1, <2>2, <2>3, <2>4, <2>5, <2>6, <2>7 DEF Next
<1> QED
  BY <1>1, <1>2, Invariance, PTL DEF Spec, KeepsSession, Session!Spec
===============================================================================
