----------------------------- MODULE MCSchedule -----------------------------
(***************************************************************************)
(* Two configurations whose windows meet: A runs from 1 to 2, and again on *)
(* the next day of four seconds, and B from 2 to 5 on the first alone: the *)
(* back-to-back phases the schedule is made for.  The OS clock is right,   *)
(* one second ahead (within the envelope) or two: a glitch at once, but    *)
(* not after one second.                                                   *)
(***************************************************************************)
EXTENDS Schedule, TLC

CONSTANTS A, B

MCConfig == {A, B}
MCDay == 4
MCPlan ==
    {[kind |-> "start", cfg |-> A, moment |-> [date |-> Daily, time |-> 1]],
     [kind |-> "end", cfg |-> A, moment |-> [date |-> 0, time |-> 2]],
     [kind |-> "start", cfg |-> B, moment |-> [date |-> 0, time |-> 2]],
     [kind |-> "end", cfg |-> B, moment |-> [date |-> 1, time |-> 1]]}
MCRank == A :> 1 @@ B :> 2
MCOffsets == {0, 1, 2}

\* Of the behaviours that break ScheduleObeyed the run looks at those in which a tick
\* reads what is active with no command on its way.
Prompt == pc["ui"] = "frontier" => Drained
=============================================================================
