------------------------------- MODULE MCLive -------------------------------
(***************************************************************************)
(* The two promises of the application that something happens in the end:  *)
(* a created run ends (JobManager), a task of the bot is settled           *)
(* (BotQueue).  They share no state: `part' is the one that runs, the      *)
(* other stays in its initial state, where no fair action of it is enabled.*)
(***************************************************************************)
EXTENDS Naturals

CONSTANTS Clients, Jobs, NoJob, NoFile, Limits,                             \* JobManager
          Tasks, Users, Owner, NoTask, NoUser, MaxQueue, Limit, MaxTries,   \* BotQueue
          MaxCancels, MaxFaults, MaxBotRestarts, MaxServerRestarts, MaxDays,
          user

VARIABLES
  part,
  mem, issued, status, result, parent, gpu, done, log, proc, events, disk, tmp, lock, th,
  budget, delivered,
  queue, pending, file, worker, marked, call, charge, spool, run, busy, day, used, ticket,
  outcome, refunded

JM == INSTANCE JobManager
BQ == INSTANCE BotQueue

jobs == <<mem, issued, status, result, parent, gpu, done, log, proc, events, disk, tmp, lock, th,
          budget, delivered>>
tasks == <<queue, pending, file, worker, marked, call, charge, spool, run, busy, day, used,
           ticket, outcome, refunded>>

(* A job that is cancelled twice, with a restart; two tasks of one user. *)
CancelsAndCrash == {[cancel |-> 2, delete |-> 0, restart |-> 1, io |-> 0, quick |-> FALSE]}
TwoTasks == 1 .. 2
OwnerOfTwo == [t \in TwoTasks |-> user]

LiveInit == part \in {"jobs", "tasks"} /\ JM!Init /\ BQ!Init
LiveNext ==
  /\ part' = part
  /\ \/ part = "jobs" /\ JM!Next /\ UNCHANGED tasks
     \/ part = "tasks" /\ BQ!Next /\ UNCHANGED jobs

LiveSpec ==
  /\ LiveInit /\ [][LiveNext]_<<part, jobs, tasks>>
  /\ JM!Fairness /\ BQ!Fairness

-----------------------------------------------------------------------------
(* JobManager: a created job ends and whoever waits for it is woken. *)
EveryJobSettles == JM!EveryJobSettles
(* BotQueue: an accepted task is shown, spooled, withdrawn or reported. *)
EveryTaskSettled == BQ!EveryTaskSettled
=============================================================================
