----------------------------- MODULE GridSession -----------------------------
(***************************************************************************)
(* What a timelapse session promises about the instants of its grid,       *)
(* without clocks, tolerances or cameras: the instants of one grid are     *)
(* decided one after the other, each exactly once; only the one that is    *)
(* due is photographed, one that has no image can only be given up, and a  *)
(* change of grid (a hot switch of configuration) starts a new account.    *)
(* Module Engine implements it.                                            *)
(***************************************************************************)
EXTENDS Integers

VARIABLES
    phase,      \* "idle" or "running"
    first,      \* the first instant of the current grid, Unanchored before it is known
    due,        \* the next instant to decide, Unanchored before the grid is anchored
    captured,   \* the instants of the current grid that have an image
    lost        \* the instants of the current grid that were given up

session == <<phase, first, due, captured, lost>>

Unanchored == -1

Init ==
    /\ phase = "idle"
    /\ first = Unanchored
    /\ due = Unanchored
    /\ captured = {}
    /\ lost = {}

\* A grid nobody has looked at yet.
FreshGrid ==
    /\ first' = Unanchored
    /\ due' = Unanchored
    /\ captured' = {}
    /\ lost' = {}

Begin ==
    /\ phase = "idle"
    /\ phase' = "running"
    /\ FreshGrid

Regrid ==
    /\ phase = "running"
    /\ FreshGrid
    /\ UNCHANGED phase

End ==
    /\ phase = "running"
    /\ phase' = "idle"
    /\ FreshGrid

\* The first instant of a grid is chosen; those before it are nobody's loss.
Anchor ==
    /\ phase = "running"
    /\ due = Unanchored
    /\ due' \in Nat
    /\ first' = due'
    /\ UNCHANGED <<phase, captured, lost>>

Photograph ==
    /\ phase = "running"
    /\ due # Unanchored
    /\ captured' = captured \cup {due}
    /\ UNCHANGED <<phase, first, due, lost>>

\* The due instant has its image: on to the next.
Pass ==
    /\ phase = "running"
    /\ due \in captured
    /\ due' = due + 1
    /\ UNCHANGED <<phase, first, captured, lost>>

\* The instants from due up to the next due one are given up.
Lose ==
    /\ phase = "running"
    /\ due # Unanchored
    /\ due' \in Nat
    /\ due' > due
    /\ lost' = lost \cup due..(due' - 1)
    /\ UNCHANGED <<phase, first, captured>>

Next ==
    \/ Begin
    \/ Regrid
    \/ End
    \/ Anchor
    \/ Photograph
    \/ Pass
    \/ Lose

Spec == Init /\ [][Next]_session
==============================================================================
