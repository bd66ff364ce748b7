---------------------------- MODULE MomentsProofs ----------------------------
(***************************************************************************)
(* What moment.py computes is what a moment means, for days of any length: *)
(* the evaluator, which asks for one interval after the other, gets every  *)
(* firing, and gets it once.                                               *)
(***************************************************************************)
EXTENDS Moments, TLAPS

\* The date of an instant is the day it falls on.
LEMMA DateOfInstant ==
    ASSUME NEW t \in Nat
    PROVE  /\ DateOf(t) \in Nat
           /\ DateOf(t) * Day <= t
           /\ t < (DateOf(t) + 1) * Day
  BY MomentsAssumption DEF DateOf

\* Days follow each other without overlapping.
LEMMA DayOrder ==
    ASSUME NEW d \in Nat, NEW e \in Nat, d < e
    PROVE  d * Day + Day <= e * Day
<1>1. PICK k \in Nat : e = d + 1 + k
  <2>1. e - d - 1 \in Nat /\ e = d + 1 + (e - d - 1)
    OBVIOUS
  <2> QED  BY <2>1
<1>2. e * Day = d * Day + Day + k * Day
  BY <1>1, MomentsAssumption
<1>3. k * Day \in Nat
  BY MomentsAssumption
<1> QED
  BY <1>2, <1>3, MomentsAssumption

\* A moment's instant on some day has that day as its date.
LEMMA CombineThenDate ==
    ASSUME NEW m \in Moment, NEW d \in Nat
    PROVE  Combine(d, m) \in Nat /\ DateOf(Combine(d, m)) = d
<1> DEFINE t == Combine(d, m)
<1>1. t \in Nat /\ d * Day <= t /\ t < d * Day + Day /\ d * Day \in Nat
  BY MomentsAssumption DEF Combine, Moment
<1>2. DateOf(t) \in Nat /\ DateOf(t) * Day <= t /\ t < DateOf(t) * Day + Day
  <2>1. (DateOf(t) + 1) * Day = DateOf(t) * Day + Day
    BY <1>1, DateOfInstant, MomentsAssumption
  <2> QED  BY <1>1, <2>1, DateOfInstant
<1>3. ~(DateOf(t) < d)
  BY <1>1, <1>2, DayOrder, MomentsAssumption
<1>4. ~(d < DateOf(t))
  BY <1>1, <1>2, DayOrder, MomentsAssumption
<1> QED
  BY <1>1, <1>2, <1>3, <1>4

\* A later instant has no earlier date.
LEMMA DateMonotone ==
    ASSUME NEW s \in Nat, NEW t \in Nat, s <= t
    PROVE  DateOf(s) <= DateOf(t)
<1>1. /\ DateOf(s) \in Nat /\ DateOf(s) * Day <= s
      /\ DateOf(t) \in Nat /\ t < DateOf(t) * Day + Day
  <2>1. (DateOf(t) + 1) * Day = DateOf(t) * Day + Day
    BY DateOfInstant, MomentsAssumption
  <2> QED  BY <2>1, DateOfInstant
<1>2. ~(DateOf(t) < DateOf(s))
  BY <1>1, DayOrder, MomentsAssumption
<1> QED
  BY <1>1, <1>2

\* events_in: the firings that fall into the half-open interval, neither more nor fewer,
\* though only the days that the interval touches are looked at.
THEOREM EventsAreFirings ==
    ASSUME NEW m \in Moment, NEW from \in Nat, NEW to \in Nat
    PROVE  FiringsIn(m, from, to) = Firings(m) \cap (from + 1)..to
<1>1. CASE m.date # Daily
  BY <1>1 DEF FiringsIn, Firings
<1>2. CASE m.date = Daily
  <2>1. ASSUME NEW d \in Nat, Combine(d, m) \in (from + 1)..to
        PROVE  d \in DateOf(from)..DateOf(to)
    <3>1. Combine(d, m) \in Nat /\ DateOf(Combine(d, m)) = d
      BY CombineThenDate
    <3>2. from <= Combine(d, m) /\ Combine(d, m) <= to
      BY <2>1, <3>1
    <3>3. DateOf(from) <= d /\ d <= DateOf(to)
      BY <3>1, <3>2, DateMonotone
    <3> QED
      BY <3>3, DateOfInstant
  <2>2. DateOf(from)..DateOf(to) \subseteq Nat
    BY DateOfInstant
  <2> QED
    BY <1>2, <2>1, <2>2 DEF FiringsIn, Firings
<1> QED
  BY <1>1, <1>2

\* Intervals that meet share no firing and leave none out: a moment on the frontier
\* itself belongs to the earlier tick alone.
THEOREM TicksPartitionFirings ==
    ASSUME NEW m \in Moment, NEW a \in Nat, NEW b \in Nat, NEW c \in Nat,
           a <= b, b <= c
    PROVE  /\ FiringsIn(m, a, c) = FiringsIn(m, a, b) \cup FiringsIn(m, b, c)
           /\ FiringsIn(m, a, b) \cap FiringsIn(m, b, c) = {}
<1>1. (a + 1)..c = ((a + 1)..b) \cup ((b + 1)..c)
  OBVIOUS
<1>2. ((a + 1)..b) \cap ((b + 1)..c) = {}
  OBVIOUS
<1> QED
  BY <1>1, <1>2, EventsAreFirings

\* next_firing: a firing that is not over, and no other comes first; none is found only
\* when there is none.
THEOREM NextFiringIsNext ==
    ASSUME NEW m \in Moment, NEW now \in Nat
    PROVE  IF NextFiring(m, now) = Never
           THEN \A t \in Firings(m) : t < now
           ELSE /\ NextFiring(m, now) \in Firings(m)
                /\ NextFiring(m, now) >= now
                /\ \A t \in Firings(m) : t >= now => NextFiring(m, now) <= t
<1>1. CASE m.date # Daily
  <2>1. m.date \in Nat
    BY <1>1 DEF Moment
  <2>2. Combine(m.date, m) \in Nat
    BY <2>1, CombineThenDate
  <2> QED
    BY <1>1, <2>2 DEF NextFiring, Firings, Never
<1>2. CASE m.date = Daily
  <2> DEFINE d == DateOf(now)
  <2>1. d \in Nat /\ Combine(d, m) \in Nat /\ Combine(d + 1, m) \in Nat
    BY DateOfInstant, CombineThenDate
  <2>2. Combine(d + 1, m) = Combine(d, m) + Day
    BY <2>1, MomentsAssumption DEF Combine, Moment
  <2>3. now < Combine(d + 1, m)
    <3>1. now < (d + 1) * Day
      BY DateOfInstant
    <3> QED
      BY <2>1, <3>1, MomentsAssumption DEF Combine, Moment
  <2>4. NextFiring(m, now) = IF Combine(d, m) >= now THEN Combine(d, m)
                             ELSE Combine(d + 1, m)
    BY <1>2, <2>2 DEF NextFiring
  <2>5. ASSUME NEW e \in Nat, Combine(e, m) >= now
        PROVE  Combine(d, m) >= now => Combine(d, m) <= Combine(e, m)
    <3>1. Combine(e, m) \in Nat /\ DateOf(Combine(e, m)) = e
      BY CombineThenDate
    <3>2. d <= e
      BY <2>5, <3>1, DateMonotone
    <3>3. CASE d = e
      BY <3>3, <2>1
    <3>4. CASE d < e
      BY <3>4, <2>1, <3>1, DayOrder, MomentsAssumption DEF Combine, Moment
    <3> QED
      BY <3>2, <3>3, <3>4, <2>1
  <2>6. ASSUME NEW e \in Nat, Combine(e, m) >= now, ~(Combine(d, m) >= now)
        PROVE  Combine(d + 1, m) <= Combine(e, m)
    <3>1. Combine(e, m) \in Nat /\ DateOf(Combine(e, m)) = e
      BY CombineThenDate
    <3>2. d <= e /\ d # e
      BY <2>6, <3>1, DateMonotone
    <3>3. CASE d + 1 = e
      BY <3>3, <2>1
    <3>4. CASE d + 1 < e
      BY <3>4, <2>1, <3>1, DayOrder, MomentsAssumption DEF Combine, Moment
    <3> QED
      BY <3>2, <3>3, <3>4, <2>1
  <2>7. Firings(m) = {Combine(e, m) : e \in Nat}
    BY <1>2 DEF Firings
  <2> QED
    BY <2>1, <2>3, <2>4, <2>5, <2>6, <2>7 DEF Never
<1> QED
  BY <1>1, <1>2
=============================================================================
