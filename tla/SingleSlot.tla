----------------------------- MODULE SingleSlot -----------------------------
(***************************************************************************)
(* What the job manager promises its callers, whatever happens inside: one *)
(* slot, taken by one fresh run at a time, freed before the next run takes *)
(* it, and never taken twice by the same run ("only one simulation can run *)
(* at a time", src/apps/api/job_manager.py).                               *)
(***************************************************************************)
CONSTANTS Jobs, NoJob

VARIABLES slot,   \* the run that occupies the slot, or NoJob
          used    \* runs that have ever taken it

vars == <<slot, used>>

Init == slot = NoJob /\ used = {}

Acquire(j) == /\ slot = NoJob /\ j \notin used
              /\ slot' = j /\ used' = used \cup {j}

Free == /\ slot # NoJob
        /\ slot' = NoJob /\ UNCHANGED used

Next == Free \/ \E j \in Jobs : Acquire(j)

Spec == Init /\ [][Next]_vars

FairSpec == Spec /\ WF_vars(Free)
=============================================================================
