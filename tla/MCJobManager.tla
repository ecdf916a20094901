---------------------------- MODULE MCJobManager ----------------------------
(***************************************************************************)
(* Three environments of the job manager, in one run; run ids are handed   *)
(* out in one order, since which is which makes no difference.             *)
(*   Race    one job, cancelled twice, deleted, with a failing disk and a  *)
(*           restart; its worker may end while a thread is in _finish      *)
(*   Kills   two jobs, a delete and two restarts, nobody cancels           *)
(*   Benign  three jobs, one of them may be deleted; no fault at all       *)
(* and one for the run jm_v_cancel.                                        *)
(***************************************************************************)
EXTENDS JobManager, TLC

CONSTANTS j1, j2, j3

None   == [cancel |-> 0, delete |-> 0, restart |-> 0, io |-> 0, quick |-> FALSE]
Benign == [None EXCEPT !.delete = 1]
Kills  == [Benign EXCEPT !.restart = 2]
Race   == [cancel |-> 2, delete |-> 1, restart |-> 1, io |-> 1, quick |-> TRUE]

RaceKillsBenign  == {Race, Kills, Benign}
OneCancel        == {[None EXCEPT !.cancel = 1]}

(* The constraint of jm_main: how many ids each environment uses. *)
IssuedIn == Race   :> {{}, {j1}}
         @@ Kills  :> {{}, {j1}, {j1, j2}}
         @@ Benign :> {{}, {j1}, {j1, j2}, {j1, j2, j3}}
InOrder == issued' \in IssuedIn[budget.given]
=============================================================================
