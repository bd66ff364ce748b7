------------------------------- MODULE MCEngine -------------------------------
(***************************************************************************)
(* A small instance of Engine: one configuration with a two-shot bracket   *)
(* and an interval longer than the tolerance, one whose interval is        *)
(* shorter than it, so that CatchUp is exercised below zero.               *)
(***************************************************************************)
EXTENDS Engine, TLC

CONSTANTS slow, quick

MCConfig == {slow, quick}
MCInterval == slow :> 4 @@ quick :> 1
MCShots == slow :> 2 @@ quick :> 1
MCShotTime == {1, 3}
===============================================================================
