-------------------------- MODULE MCEngineScheduler --------------------------
(***************************************************************************)
(* Two configurations: enough for a switch, a switch to the configuration  *)
(* already running, and a start rejected because another one runs.         *)
(***************************************************************************)
EXTENDS EngineScheduler

CONSTANTS partial, totality

MCConfig == {partial, totality}
==============================================================================
