----------------------------- MODULE JobManager -----------------------------
(***************************************************************************)
(* The job manager of the analysis API (src/apps/api/job_manager.py).      *)
(*                                                                         *)
(* Threads that share one JobManager object:                               *)
(*   - request threads c \in Clients: FastAPI runs the sync endpoints of   *)
(*     apps/api/main.py in a thread pool, so create, create_extension,     *)
(*     cancel and delete of different requests interleave;                 *)
(*   - one monitor thread per job, named by the job itself: j \in Jobs;    *)
(*   - one worker process per job, seen through proc and events.           *)
(* Only _create_job and get take the manager's lock.  _finish, _persist,   *)
(* cancel and delete run without it, so their steps are actions of their   *)
(* own here, and every step may be separated from the next one by steps of *)
(* other threads, by the death of the worker or by a crash of the process. *)
(*                                                                         *)
(* A result is the set of operations whose samples it holds: {j} for a     *)
(* plain run j, and merge_results(parent, e) adds e.  {} is None.          *)
(***************************************************************************)
EXTENDS Naturals, FiniteSets, Sequences

CONSTANTS Clients,          \* request threads of the API process
          Jobs,             \* run ids uuid4 can return
          NoJob, NoFile,    \* absent job, absent file
          Limits            \* what an environment may do, see BoundAssumption

Threads == Clients \cup Jobs

ASSUME ThreadAssumption == /\ Clients \cap Jobs = {}
                           /\ NoJob \notin Jobs /\ "free" \notin Clients
(* How many cancels, deletes, restarts and write errors an environment has, and
   whether it lets a worker end while a thread is inside _finish. *)
ASSUME BoundAssumption ==
  Limits \subseteq [cancel : Nat, delete : Nat, restart : Nat, io : Nat,
                   quick : BOOLEAN]

VARIABLES
  mem,       \* ids in the dictionary self.jobs
  issued,    \* ids already handed out
  status, result, parent, gpu, done, log,     \* attributes of the Job objects
  proc,      \* the worker process of each job
  events,    \* terminal event waiting in job.process_events
  disk, tmp, \* runs/<id>.json and runs/<id>.json.tmp
  lock,      \* holder of self.lock
  th,        \* program counter and locals of each thread
  budget,    \* the limits given, and how often the environment may still act
  delivered  \* history: jobs whose worker reported a result

objects == <<status, result, parent, gpu, done, log>>
files   == <<disk, tmp>>
worker  == <<proc, events>>
vars == <<mem, issued, objects, worker, files, lock, th, budget, delivered>>

Active   == {"queued", "running"}
Terminal == {"completed", "failed", "cancelled", "interrupted"}
Status   == Active \cup Terminal \cup {"none"}
Payload  == [status : Status, result : SUBSET Jobs]
ASSUME FileAssumption == NoFile \notin Payload

Rest == [pc |-> "idle", job |-> NoJob, want |-> "none", res |-> {},
         tgt |-> NoJob, snap |-> NoFile]

(* Mutant: the job counts while its process lives, not by its status. *)
ActiveJobsByProcess == {j \in mem : proc[j] \in {"alive", "reported", "stopping"}}

ActiveJobs == {j \in mem : status[j] \in Active}

-----------------------------------------------------------------------------
InitWith(l) ==
  /\ mem = {} /\ issued = {}
  /\ status = [j \in Jobs |-> "none"]
  /\ result = [j \in Jobs |-> {}]
  /\ parent = [j \in Jobs |-> NoJob]
  /\ gpu = [j \in Jobs |-> FALSE]
  /\ done = [j \in Jobs |-> FALSE]
  /\ log = [j \in Jobs |-> <<>>]
  /\ proc = [j \in Jobs |-> "none"]
  /\ events = [j \in Jobs |-> "empty"]
  /\ disk = [j \in Jobs |-> NoFile]
  /\ tmp = [j \in Jobs |-> NoFile]
  /\ lock = "free"
  /\ th = [t \in Threads |-> Rest]
  /\ budget = [cancel |-> l.cancel, delete |-> l.delete,
               restart |-> l.restart, io |-> l.io, given |-> l]
  /\ delivered = {}
Init == \E l \in Limits : InitWith(l)

(***************************************************************************)
(* Locals.                                                                 *)
(***************************************************************************)
At(t, pc)  == th[t].pc = pc
Become(t, r) == th' = [th EXCEPT ![t] = r]
Goto(t, pc)  == th' = [th EXCEPT ![t].pc = pc]
CanLock(t) == lock \in {"free", t}
Spend(what) == /\ budget[what] > 0
               /\ budget' = [budget EXCEPT ![what] = @ - 1]
Release(t) == lock' = IF lock = t THEN "free" ELSE lock

(* The payload _persist(j) writes while the result of j is res. *)
SnapshotOldResult(j, res) ==   \* mutant: taken before the assignment of result
  [status |-> status[j], result |-> result[j]]
Snapshot(j, res) == [status |-> status[j], result |-> res]

(* Entering _finish(job, want, result). *)
Finishing(t, j, want, res) ==
  [th[t] EXCEPT !.pc = "gpu", !.job = j, !.want = want, !.res = res,
                !.tgt = NoJob, !.snap = NoFile]

(* An exception leaves _finish or _persist.  _handle_event turns the one of
   a completed event into a second _finish("failed"); any other ends the
   monitor thread before done.set().  A request thread answers with an HTTP
   error, and `with self.lock' releases the lock. *)
Raise(t) ==
  /\ Become(t, IF t \in Clients THEN Rest
               ELSE IF th[t].want = "completed"
                    THEN Finishing(t, th[t].job, "failed", {})
               ELSE [Rest EXCEPT !.pc = "dead"])
  /\ Release(t)

-----------------------------------------------------------------------------
(***************************************************************************)
(* Requests.                                                               *)
(***************************************************************************)

(* create_extension up to the call of _create_job: all it checks, it checks
   without the lock. *)
ExtensionCheck(c, p) ==
  /\ At(c, "idle") /\ CanLock(c)
  /\ p \in mem /\ status[p] = "completed" /\ result[p] # {}
  /\ ~ \E e \in ActiveJobs : parent[e] = p
  /\ Become(c, [Rest EXCEPT !.pc = "create", !.tgt = p])
  /\ UNCHANGED <<delivered, mem, issued, objects, worker, files, lock, budget>>

Refuse(c) ==   \* only one simulation can run at a time
  /\ At(c, "create") /\ CanLock(c) /\ ActiveJobs # {}
  /\ Become(c, Rest)
  /\ UNCHANGED <<delivered, mem, issued, objects, worker, files, lock, budget>>

(* _create_job takes the lock, finds no active job, inserts the queued job
   and persists it.  No other thread can reach the new job before the lock
   is released, so these steps are one.  An OSError of _persist
   leaves the queued job behind in memory, without a worker. *)
Create(c, j) ==
  /\ th[c].pc \in {"idle", "create"} /\ lock = "free"
  /\ ActiveJobs = {} /\ j \notin issued
  /\ issued' = issued \cup {j} /\ mem' = mem \cup {j}
  /\ status' = [status EXCEPT ![j] = "queued"]
  /\ parent' = [parent EXCEPT ![j] = th[c].tgt]
  /\ \/ /\ disk' = [disk EXCEPT ![j] = [status |-> "queued", result |-> {}]]
        /\ lock' = c
        /\ Become(c, [Rest EXCEPT !.pc = "start", !.job = j])
        /\ UNCHANGED budget
     \/ /\ Spend("io")
        /\ Become(c, Rest)
        /\ UNCHANGED <<disk, lock>>
  /\ UNCHANGED <<delivered, result, gpu, done, log, worker, tmp>>

(* GPU telemetry on, status running, worker and monitor thread started; or
   process.start() fails and the request thread itself runs _finish. *)
Start(c) ==
  LET j == th[c].job IN
  /\ At(c, "start")
  /\ gpu' = [gpu EXCEPT ![j] = TRUE]
  /\ status' = [status EXCEPT ![j] = "running"]
  /\ \/ /\ proc' = [proc EXCEPT ![j] = "alive"]
        /\ th' = [th EXCEPT ![c].pc = "created",
                            ![j] = [Rest EXCEPT !.pc = "wait", !.job = j]]
     \/ /\ Become(c, Finishing(c, j, "failed", {}))
        /\ UNCHANGED proc
  /\ UNCHANGED <<delivered, mem, issued, result, parent, done, log, events, files, lock,
                 budget>>

(* The last statement of _create_job persists again, while the monitor
   thread it has just started may do the same. *)
PersistCreated(c) ==
  LET j == th[c].job IN
  /\ At(c, "created")
  /\ Become(c, [th[c] EXCEPT !.pc = "write", !.tgt = j,
                  !.snap = Snapshot(j, result[j])])
  /\ UNCHANGED <<delivered, mem, issued, objects, worker, files, lock, budget>>

(* cancel looks at the status once and acts on it after up to three seconds
   of joining the worker. *)
Cancel(c, j) ==
  /\ At(c, "idle") /\ CanLock(c) /\ Spend("cancel")
  /\ j \in mem /\ status[j] \in Active
  /\ Become(c, [Rest EXCEPT !.pc = "kill", !.job = j])
  /\ UNCHANGED <<delivered, mem, issued, objects, worker, files, lock>>

Kill(c) ==
  LET j == th[c].job IN
  /\ At(c, "kill")
  /\ IF proc[j] \in {"none", "dead"}
     THEN Become(c, Finishing(c, j, "cancelled", {})) /\ UNCHANGED proc
     ELSE Goto(c, "join") /\ proc' = [proc EXCEPT ![j] = "stopping"]
  /\ UNCHANGED <<delivered, mem, issued, objects, events, files, lock, budget>>

Join(c) ==   \* returns when the worker is dead, or after three seconds
  /\ At(c, "join")
  /\ Become(c, Finishing(c, th[c].job, "cancelled", {}))
  /\ UNCHANGED <<delivered, mem, issued, objects, worker, files, lock, budget>>

(* delete: the check, the pop and the unlink are three steps. *)
Delete(c, j) ==
  /\ At(c, "idle") /\ CanLock(c) /\ Spend("delete")
  /\ j \in mem /\ status[j] \notin Active
  /\ Become(c, [Rest EXCEPT !.pc = "pop", !.job = j])
  /\ UNCHANGED <<delivered, mem, issued, objects, worker, files, lock>>

Pop(c) ==
  /\ At(c, "pop")
  /\ mem' = mem \ {th[c].job}
  /\ Goto(c, "unlink")
  /\ UNCHANGED <<delivered, issued, objects, worker, files, lock, budget>>

Unlink(c) ==
  /\ At(c, "unlink")
  /\ disk' = [disk EXCEPT ![th[c].job] = NoFile]
  /\ Become(c, Rest)
  /\ UNCHANGED <<delivered, mem, issued, objects, worker, tmp, lock, budget>>

-----------------------------------------------------------------------------
(***************************************************************************)
(* The monitor thread of job j.                                            *)
(***************************************************************************)
(* The result in the event of the worker of j. *)
SamplesOfFailed(j) == {j}     \* mutant: a failed event carries partial samples
Samples(j) == IF events[j] = "completed" THEN {j} ELSE {}

TakeEvent(j) ==
  /\ At(j, "wait") /\ events[j] # "empty"
  /\ Become(j, Finishing(j, j, events[j], Samples(j)))
  /\ events' = [events EXCEPT ![j] = "empty"]
  /\ UNCHANGED <<delivered, mem, issued, objects, proc, files, lock, budget>>

GetTimesOut(j) ==   \* queue.Empty after 0.2 s; is_alive() is asked later
  /\ At(j, "wait") /\ events[j] = "empty"
  /\ Goto(j, "check")
  /\ UNCHANGED <<delivered, mem, issued, objects, worker, files, lock, budget>>

(* The worker is dead and left no result. *)
AbandonedQueued(j) == status[j] = "queued"   \* mutant: the wrong status
Abandoned(j) == status[j] = "running"

CheckWorker(j) ==
  /\ At(j, "check")
  /\ Become(j, IF proc[j] # "dead" THEN [th[j] EXCEPT !.pc = "wait"]
               ELSE IF Abandoned(j)
                    THEN Finishing(j, j, "failed", {})
               ELSE [Rest EXCEPT !.pc = "ended"])
  /\ UNCHANGED <<delivered, mem, issued, objects, worker, files, lock, budget>>

-----------------------------------------------------------------------------
(***************************************************************************)
(* _finish, run by the monitor of the job, by a cancelling request or by a *)
(* creating request whose worker could not start.                          *)
(***************************************************************************)
NeedsMerge(t) == th[t].res # {} /\ parent[th[t].job] # NoJob
AfterGpu(t) == IF NeedsMerge(t) THEN "merge" ELSE "set"

CheckGpu(t) ==   \* if job.gpu_monitor is not None
  /\ At(t, "gpu")
  /\ Goto(t, IF gpu[th[t].job] THEN "stop" ELSE AfterGpu(t))
  /\ UNCHANGED <<delivered, mem, issued, objects, worker, files, lock, budget>>

(* stop() joins for up to three seconds; if another _finish has cleared
   job.gpu_monitor meanwhile, .summary() of None raises. *)
StopGpu(t) ==
  /\ At(t, "stop")
  /\ IF gpu[th[t].job]
     THEN /\ gpu' = [gpu EXCEPT ![th[t].job] = FALSE]
          /\ Goto(t, AfterGpu(t)) /\ UNCHANGED lock
     ELSE Raise(t) /\ UNCHANGED gpu
  /\ UNCHANGED <<delivered, mem, issued, status, result, parent, done, log, worker,
                 files, budget>>

(* merge_results(parent, e). *)
MergedOver(p, e) == {e}   \* mutant: the extension replaces the parent's samples
Merged(p, e) == result[p] \cup {e}

(* get(extension_of) and merge_results: a missing parent, a parent without
   a result and an identity mismatch raise. *)
Merge(t) ==
  LET p == parent[th[t].job] IN
  /\ At(t, "merge") /\ CanLock(t)
  /\ \/ /\ p \in mem /\ result[p] # {}
        /\ Become(t, [th[t] EXCEPT !.pc = "graft", !.tgt = p,
                        !.res = Merged(p, th[t].job)])
        /\ UNCHANGED lock
     \/ Raise(t)
  /\ UNCHANGED <<delivered, mem, issued, objects, worker, files, budget>>

Graft(t) ==   \* parent.result = merged, then _persist(parent) begins
  LET p == th[t].tgt IN
  /\ At(t, "graft")
  /\ result' = [result EXCEPT ![p] = th[t].res]
  /\ Become(t, [th[t] EXCEPT !.pc = "write",
                  !.snap = Snapshot(p, th[t].res)])
  /\ UNCHANGED <<delivered, mem, issued, status, parent, gpu, done, log, worker, files,
                 lock, budget>>

SetStatus(t) ==
  /\ At(t, "set")
  /\ status' = [status EXCEPT ![th[t].job] = th[t].want]
  /\ Goto(t, "setresult")
  /\ UNCHANGED <<delivered, mem, issued, result, parent, gpu, done, log, worker, files,
                 lock, budget>>

SetResult(t) ==   \* job.result = result, then _persist(job) begins
  LET j == th[t].job IN
  /\ At(t, "setresult")
  /\ result' = [result EXCEPT ![j] = th[t].res]
  /\ Become(t, [th[t] EXCEPT !.pc = "write", !.tgt = j,
                  !.snap = Snapshot(j, th[t].res)])
  /\ UNCHANGED <<delivered, mem, issued, status, parent, gpu, done, log, worker, files,
                 lock, budget>>

(* _persist: the payload is in th[t].snap; write the temporary file ... *)
Write(t) ==
  /\ At(t, "write")
  /\ \/ /\ tmp' = [tmp EXCEPT ![th[t].tgt] = th[t].snap]
        /\ Become(t, [th[t] EXCEPT !.pc = "replace", !.snap = NoFile])
        /\ UNCHANGED <<lock, budget>>
     \/ Spend("io") /\ Raise(t) /\ UNCHANGED tmp
  /\ UNCHANGED <<delivered, mem, issued, objects, worker, disk>>

(* ... and rename it over the record.  Two writers of one record share one
   temporary name: the second rename finds it gone and raises. *)
Replace(t) ==
  LET x == th[t].tgt IN
  /\ At(t, "replace")
  /\ IF tmp[x] = NoFile
     THEN Raise(t) /\ UNCHANGED files
     ELSE /\ disk' = [disk EXCEPT ![x] = tmp[x]]
          /\ tmp' = [tmp EXCEPT ![x] = NoFile]
          /\ CASE th[t].want = "none" ->     \* end of _create_job
                    Become(t, Rest) /\ Release(t)
               [] th[t].want # "none" /\ x # th[t].job ->  \* result = parent.result
                    /\ Become(t, [th[t] EXCEPT !.pc = "set", !.tgt = NoJob,
                                                       !.res = result[x]])
                    /\ UNCHANGED lock
               [] OTHER ->
                    /\ Become(t, [th[t] EXCEPT !.pc = "announce", !.tgt = NoJob,
                                    !.res = {}])
                    /\ UNCHANGED lock
  /\ UNCHANGED <<delivered, mem, issued, objects, worker, budget>>

Announce(t) ==   \* job.publish(event); job.done.set()
  LET j == th[t].job IN
  /\ At(t, "announce")
  /\ log' = [log EXCEPT ![j] = Append(@, th[t].want)]
  /\ done' = [done EXCEPT ![j] = TRUE]
  /\ Become(t, IF t \in Clients THEN Rest ELSE [Rest EXCEPT !.pc = "ended"])
  /\ Release(t)
  /\ UNCHANGED <<delivered, mem, issued, status, result, parent, gpu, worker, files,
                 budget>>

-----------------------------------------------------------------------------
(***************************************************************************)
(* The worker process: worker_entry puts at most one terminal event.  It   *)
(* needs seconds to load the model and to simulate, the code between two   *)
(* waits of the other threads milliseconds: where "quick" is not granted, *)
(* no worker ends while another thread is in the middle of such code.      *)
(***************************************************************************)
Running(j) == proc[j] \in {"alive", "reported", "stopping"}
Busy(t) == th[t].pc \in {"start", "created", "gpu", "stop", "merge", "graft",
                        "set", "setresult", "write", "replace", "announce"}
MayReport == budget.given.quick \/ \A t \in Threads : ~ Busy(t)

Report(j) ==
  /\ proc[j] = "alive" /\ MayReport
  /\ \/ /\ events' = [events EXCEPT ![j] = "completed"]
        /\ delivered' = delivered \cup {j}
     \/ /\ events' = [events EXCEPT ![j] = "failed"]
        /\ UNCHANGED delivered
  /\ proc' = [proc EXCEPT ![j] = "reported"]
  /\ UNCHANGED <<mem, issued, objects, files, lock, th, budget>>

Exit(j) ==   \* after a report, by a signal, or killed without a report
  /\ Running(j) /\ (proc[j] = "alive" => MayReport)
  /\ proc' = [proc EXCEPT ![j] = "dead"]
  /\ UNCHANGED <<delivered, mem, issued, objects, events, files, lock, th, budget>>

(***************************************************************************)
(* The process ends, at any moment, and _load_existing reads the records   *)
(* in the next one.  multiprocessing ends daemon workers with theirs;      *)
(* one that survives a kill has nobody left to report to.                  *)
(***************************************************************************)
RecoveredRetried(s) ==   \* mutant: failed runs are queued again
  IF s \in Active THEN "interrupted" ELSE IF s = "failed" THEN "queued" ELSE s
Recovered(s) == IF s \in Active THEN "interrupted" ELSE s

Restart ==
  LET found == {j \in Jobs : disk[j] # NoFile} IN
  /\ Spend("restart")
  /\ mem' = found
  /\ status' = [j \in Jobs |-> IF j \in found THEN Recovered(disk[j].status)
                               ELSE "none"]
  /\ result' = [j \in Jobs |-> IF j \in found THEN disk[j].result ELSE {}]
  /\ gpu' = [j \in Jobs |-> FALSE]
  /\ done' = [j \in Jobs |-> j \in found]
  /\ log' = [j \in Jobs |-> <<>>]
  /\ proc' = [j \in Jobs |-> IF proc[j] = "none" THEN "none" ELSE "dead"]
  /\ events' = [j \in Jobs |-> "empty"]
  /\ lock' = "free"
  /\ th' = [t \in Threads |-> Rest]
  /\ UNCHANGED <<delivered, issued, parent, files>>

-----------------------------------------------------------------------------
Request(c) ==
  \/ Refuse(c)
  \/ \E j \in Jobs : ExtensionCheck(c, j) \/ Create(c, j) \/ Cancel(c, j)
                        \/ Delete(c, j)

Serve(c) == Start(c) \/ PersistCreated(c) \/ Kill(c) \/ Join(c) \/ Pop(c)
              \/ Unlink(c)
Monitor(j) == TakeEvent(j) \/ GetTimesOut(j) \/ CheckWorker(j)
Finish(t) == \/ CheckGpu(t) \/ StopGpu(t) \/ Merge(t) \/ Graft(t)
             \/ SetStatus(t) \/ SetResult(t) \/ Write(t) \/ Replace(t)
             \/ Announce(t)

Next ==
  \/ \E c \in Clients : Request(c) \/ Serve(c)
  \/ \E j \in Jobs : Monitor(j) \/ Report(j) \/ Exit(j)
  \/ \E t \in Threads : Finish(t)
  \/ Restart

Spec == Init /\ [][Next]_vars

(* Threads are scheduled, the simulation ends, a killed process dies. *)
Fairness ==
  /\ \A c \in Clients : WF_vars(Serve(c))
  /\ \A j \in Jobs : WF_vars(Monitor(j)) /\ WF_vars(Exit(j))
  /\ \A t \in Threads : WF_vars(Finish(t))

FairSpec == Spec /\ Fairness

-----------------------------------------------------------------------------
PCs == {"idle", "create", "start", "created", "kill", "join", "pop", "unlink",
        "wait", "check", "gpu", "stop", "merge", "graft", "set", "setresult",
        "write", "replace", "announce", "ended", "dead"}

ThreadState ==
  [pc : PCs, job : Jobs \cup {NoJob},
   want : {"none", "completed", "failed", "cancelled"}, res : SUBSET Jobs,
   tgt : Jobs \cup {NoJob}, snap : Payload \cup {NoFile}]

Budgets == [cancel : Nat, delete : Nat, restart : Nat, io : Nat, given : Limits]

(* Types of all variables. *)
TypeOK ==
  /\ mem \subseteq Jobs /\ issued \subseteq Jobs
  /\ status \in [Jobs -> Status]
  /\ result \in [Jobs -> SUBSET Jobs]
  /\ parent \in [Jobs -> Jobs \cup {NoJob}]
  /\ gpu \in [Jobs -> BOOLEAN] /\ done \in [Jobs -> BOOLEAN]
  /\ log \in [Jobs -> Seq(Terminal)]
  /\ proc \in [Jobs -> {"none", "alive", "reported", "stopping", "dead"}]
  /\ events \in [Jobs -> {"empty", "completed", "failed"}]
  /\ disk \in [Jobs -> Payload \cup {NoFile}]
  /\ tmp \in [Jobs -> Payload \cup {NoFile}]
  /\ lock \in Clients \cup {"free"}
  /\ th \in [Threads -> ThreadState]
  /\ budget \in Budgets
  /\ delivered \subseteq Jobs

(***************************************************************************)
(* Safety.                                                                 *)
(***************************************************************************)

(* At most one simulation is active, whatever the requests, the workers, a
   crash and failing writes do (the check of _create_job). *)
AtMostOneActive ==
  \A i, j \in Jobs : status[i] \in Active /\ status[j] \in Active => i = j

(* No result, in memory, in a thread or on disk, holds samples of an
   operation whose worker did not report a result: a failed, killed or
   crashed worker contributes nothing. *)
OnlyDeliveredSamples ==
  /\ \A j \in Jobs : result[j] \subseteq delivered
  /\ \A t \in Threads : th[t].res \subseteq delivered
  /\ \A j \in Jobs : \A f \in {disk[j], tmp[j]} :
       f # NoFile => f.result \subseteq delivered

(* Once a job has ended, no late event, second _finish or restart makes it
   active again. *)
NeverReactivated ==
  [][\A j \in Jobs : status[j] \in Terminal => status'[j] \notin Active]_vars

(* A thread that may still change the record of j. *)
Touches(t, j) == /\ th[t].pc \notin {"idle", "create", "wait", "check", "ended", "dead"}
                 /\ j \in {th[t].job, th[t].tgt}
Settled(j) == j \in mem /\ \A t \in Threads : ~ Touches(t, j)

(* When nobody works on a job, its record on disk is what memory says. *)
DiskAgrees ==
  \A j \in Jobs : Settled(j) /\ status[j] \notin Active =>
     /\ disk[j] # NoFile
     /\ disk[j].result = result[j]
     /\ status[j] = Recovered(disk[j].status)

(* When nobody works on an ended job, a completed one has a result with its
   own samples in it and any other one has none. *)
ResultMatchesStatus ==
  \A j \in Jobs : Settled(j) /\ status[j] \in Terminal =>
     IF status[j] = "completed" THEN j \in result[j] ELSE result[j] = {}

(* A failed, cancelled or interrupted extension leaves its parent's result
   as it was: "failures and cancellations never modify the parent result". *)
ExtensionIsAtomic ==
  \A e \in mem : status[e] \in {"failed", "cancelled", "interrupted"} =>
     \A p \in mem : p # e => e \notin result[p]

(* Nobody cancels, no write fails, and a worker ends while no thread is between
   two waits; the process may be killed at any moment all the same. *)
Calm == budget.given.cancel = 0 /\ budget.given.io = 0 /\ ~ budget.given.quick

(* In a calm environment the record of a job on disk is what memory says and
   its result goes with its status, through deletions and crashes: `_finish'
   and `_persist' set and save the two one after the other. *)
RecordsAgree == Calm => DiskAgrees /\ ResultMatchesStatus

(* A step that loses no operation merged into an analysis (merge_results). *)
KeepsSamples ==
  \A p \in mem \cap mem' : status[p] = "completed" => result[p] \subseteq result'[p]

(* A step after which every analysis that was announced as completed is still
   completed and has its result, though it be a restart (_load_existing). *)
KeepsCompleted ==
  \A j \in mem \cap mem' : status[j] = "completed" /\ done[j] =>
     status'[j] = "completed" /\ result'[j] # {}

(* In a calm environment an analysis that was announced as completed stays so,
   and samples merged into one are not lost again unless the process is killed
   (merge_results, `_load_existing'). *)
SamplesSurvive ==
  [][Calm => /\ KeepsCompleted
             /\ budget.given.restart = 0 => KeepsSamples]_vars

(* The manager implements the one-slot abstraction. *)
CurrentJob == IF \E j \in Jobs : status[j] \in Active
              THEN CHOOSE j \in Jobs : status[j] \in Active ELSE NoJob
Slot == INSTANCE SingleSlot WITH slot <- CurrentJob, used <- issued

(* Every step takes the free slot for a fresh run, frees it, or leaves it. *)
ImplementsSlot == Slot!Spec

(***************************************************************************)
(* Liveness under FairSpec.                                                *)
(***************************************************************************)

(* A created job ends, and the manager is free for the next one. *)
EveryJobEnds == \A j \in Jobs :
  (status[j] \in Active) ~> (status[j] \notin Active)

(* Whoever waits for a job is woken. *)
EveryJobIsAnnounced == \A j \in Jobs : (status[j] = "running") ~> done[j]

(* Both: no event of a worker, and no thread that is late, leaves a job active
   or a request waiting for it (_monitor, _finish). *)
EveryJobSettles == EveryJobEnds /\ EveryJobIsAnnounced
=============================================================================
