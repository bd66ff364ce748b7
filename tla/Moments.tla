------------------------------ MODULE Moments ------------------------------
(***************************************************************************)
(* Scheduled moments (schedule/moment.py): a time of day that recurs every *)
(* day, or one on a given date.  An instant is a number of seconds, a date *)
(* the number of its day, and a day has as many seconds as the model says. *)
(***************************************************************************)
EXTENDS Integers

CONSTANT Day    \* seconds of a day

ASSUME MomentsAssumption == Day \in Nat \ {0}

Daily == -1     \* the date of a moment that has none
Never == -1     \* no instant

Moment == [date : Nat \cup {Daily}, time : 0..(Day - 1)]

Combine(d, m) == d * Day + m.time
DateOf(t) == t \div Day

\* ScheduledMoment.next_firing
NextFiring(m, now) ==
    LET today == Combine(DateOf(now), m)
    IN IF m.date # Daily
       THEN IF Combine(m.date, m) >= now THEN Combine(m.date, m) ELSE Never
       ELSE IF today >= now THEN today ELSE today + Day

\* ScheduledMoment.events_in: after from and not after to; a daily moment is looked for
\* on each day that the interval touches.
FiringsIn(m, from, to) ==
    IF m.date # Daily
    THEN {Combine(m.date, m)} \cap (from + 1)..to
    ELSE {Combine(d, m) : d \in DateOf(from)..DateOf(to)} \cap (from + 1)..to

-------------------------------------------------------------------------------
\* What a moment means: all the instants at which it fires.
Firings(m) == IF m.date # Daily THEN {Combine(m.date, m)} ELSE {Combine(d, m) : d \in Nat}
=============================================================================
