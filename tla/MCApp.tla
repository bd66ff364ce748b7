------------------------------- MODULE MCApp -------------------------------
(* Two configurations at most and three names for them, all alike.         *)
EXTENDS App, TLC

Names == Permutations(Name)
=============================================================================
