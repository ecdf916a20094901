----------------------------- MODULE MCBotQueue -----------------------------
(* Instances of BotQueue for TLC: the tasks are numbered, the odd ones     *)
(* belong to one user and the even ones to the other.                      *)
EXTENDS BotQueue

CONSTANTS u1, u2
ThreeTasks == 1 .. 3
(* The constraint of bq_tasks: where midnight strikes no call fails and nothing
   restarts; users submit and cancel on both sides of it. *)
CalmNights == day' = 0 \/ \A what \in {"faults", "bots", "servers"} : used'[what] = 0
OwnerOfThree == [t \in ThreeTasks |-> IF t = 2 THEN u2 ELSE u1]
=============================================================================
