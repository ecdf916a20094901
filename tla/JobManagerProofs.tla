-------------------------- MODULE JobManagerProofs --------------------------
(***************************************************************************)
(* Theorems about JobManager for every number of request threads and runs  *)
(* and every set of environments: cancels, deletions, restarts, failing    *)
(* writes, and workers that end at any moment or not.                      *)
(***************************************************************************)
EXTENDS JobManager, TLAPS

(* Locals that a program counter promises: the job a thread works on, the
   record it persists and the status it will set. *)
Working == PCs \ {"idle", "create", "ended", "dead"}
ThreadOK ==
  \A t \in Threads :
    /\ th[t].pc \in Working => th[t].job \in Jobs
    /\ th[t].pc \in {"graft", "write", "replace"} => th[t].tgt \in Jobs
    /\ th[t].pc \in {"gpu", "stop", "merge", "graft", "set", "setresult",
                     "announce"} => th[t].want # "none"

TypeInv == TypeOK /\ ThreadOK

-----------------------------------------------------------------------------
(* Entering _finish keeps the locals well typed. *)
LEMMA FinishingType ==
  ASSUME TypeInv, NEW t \in Threads, NEW j \in Jobs,
         NEW want \in {"completed", "failed", "cancelled"},
         NEW res \in SUBSET Jobs
  PROVE  /\ Finishing(t, j, want, res) \in ThreadState
         /\ Finishing(t, j, want, res).job = j
         /\ Finishing(t, j, want, res).want = want
         /\ Finishing(t, j, want, res).pc = "gpu"
         /\ Finishing(t, j, want, res).res = res
         /\ Finishing(t, j, want, res).tgt = NoJob
         /\ Finishing(t, j, want, res).snap = NoFile
<1>1. th[t] \in ThreadState
  BY DEF TypeInv, TypeOK
<1>2. NoJob \in Jobs \cup {NoJob} /\ NoFile \in Payload \cup {NoFile}
  OBVIOUS
<1>3. QED
  BY <1>1, <1>2 DEF Finishing, ThreadState, PCs

(* The idle locals are well typed. *)
LEMMA RestType == /\ Rest \in ThreadState
                  /\ \A pc \in PCs : [Rest EXCEPT !.pc = pc] \in ThreadState
BY DEF Rest, ThreadState, PCs

(* A thread whose new locals are well typed leaves all locals well typed. *)
LEMMA BecomeType ==
  ASSUME TypeInv, NEW t \in Threads, NEW r \in ThreadState, Become(t, r),
         r.pc \in Working => r.job \in Jobs,
         r.pc \in {"graft", "write", "replace"} => r.tgt \in Jobs,
         r.pc \in {"gpu", "stop", "merge", "graft", "set", "setresult",
                   "announce"} => r.want # "none"
  PROVE  th' \in [Threads -> ThreadState] /\ ThreadOK'
BY DEF TypeInv, TypeOK, ThreadOK, Become

(* The same for a thread that only moves its program counter. *)
LEMMA GotoType ==
  ASSUME TypeInv, NEW t \in Threads, th[t].job \in Jobs,
         NEW pc \in PCs \ {"graft", "write", "replace"}, Goto(t, pc),
         pc \in {"stop", "merge", "set", "setresult"} => th[t].want # "none",
         pc \notin {"gpu", "announce"}
  PROVE  th' \in [Threads -> ThreadState] /\ ThreadOK'
<1> DEFINE r == [th[t] EXCEPT !.pc = pc]
<1>1. /\ r \in ThreadState
      /\ r.pc = pc /\ r.job = th[t].job /\ r.want = th[t].want
  <2>1. th[t] \in ThreadState
    BY DEF TypeInv, TypeOK
  <2>2. QED
    BY <2>1 DEF ThreadState
<1>2. Become(t, r)
  BY DEF Goto, Become
<1>3. QED
  BY <1>1, <1>2, BecomeType

(* The bounded environment spends what it has, and keeps its limits. *)
LEMMA SpendType ==
  ASSUME TypeInv, NEW what \in {"cancel", "delete", "restart", "io"}, Spend(what)
  PROVE  budget' \in Budgets
<1>1. budget \in Budgets
  BY DEF TypeInv, TypeOK
<1>2. budget[what] \in Nat /\ budget[what] > 0
  BY <1>1 DEF Budgets, Spend
<1>3. budget[what] - 1 \in Nat
  BY <1>2
<1>4. budget' = [budget EXCEPT ![what] = budget[what] - 1]
  BY DEF Spend
<1> DEFINE n == budget[what] - 1
<1> HIDE DEF n
<1>5. budget' = [budget EXCEPT ![what] = n] /\ n \in Nat
  BY <1>3, <1>4 DEF n
<1>6. QED
  BY <1>1, <1>5 DEF Budgets

(* An exception keeps the locals and the lock well typed. *)
LEMMA RaiseType ==
  ASSUME TypeInv, NEW t \in Threads, th[t].job \in Jobs, Raise(t)
  PROVE  /\ th' \in [Threads -> ThreadState] /\ ThreadOK'
         /\ lock' \in Clients \cup {"free"}
<1>1. lock' \in Clients \cup {"free"}
  BY DEF Raise, Release, TypeInv, TypeOK
<1>2. CASE t \in Clients
  BY <1>1, <1>2, RestType, BecomeType DEF Raise, Rest, Working, PCs
<1>3. CASE t \notin Clients /\ th[t].want = "completed"
  <2>1. Become(t, Finishing(t, th[t].job, "failed", {}))
    BY <1>3 DEF Raise
  <2>2. QED
    BY <1>1, <2>1, FinishingType, BecomeType DEF Working, PCs
<1>4. CASE t \notin Clients /\ th[t].want # "completed"
  BY <1>1, <1>4, RestType, BecomeType DEF Raise, Rest, Working, PCs
<1>5. QED
  BY <1>2, <1>3, <1>4

(* Every step keeps the types. *)
LEMMA TypeStep == TypeInv /\ [Next]_vars => TypeInv'
<1> SUFFICES ASSUME TypeInv, [Next]_vars PROVE TypeInv'
  OBVIOUS
<1> USE DEF objects, files, worker
<1>1. ASSUME NEW c \in Clients, NEW p \in Jobs, ExtensionCheck(c, p)
      PROVE  TypeInv'
  <2>1. Become(c, [Rest EXCEPT !.pc = "create", !.tgt = p])
    BY <1>1 DEF ExtensionCheck
  <2>2. th' \in [Threads -> ThreadState] /\ ThreadOK'
    BY <2>1, BecomeType DEF Threads, Rest, ThreadState, PCs, Working
  <2>3. QED
    BY <1>1, <2>2 DEF ExtensionCheck, TypeInv, TypeOK
<1>2. ASSUME NEW c \in Clients, Refuse(c) PROVE TypeInv'
  <2>1. th' \in [Threads -> ThreadState] /\ ThreadOK'
    BY <1>2, RestType, BecomeType DEF Refuse, Threads, Rest, PCs, Working
  <2>2. QED
    BY <1>2, <2>1 DEF Refuse, TypeInv, TypeOK
<1>3. ASSUME NEW c \in Clients, NEW j \in Jobs, Create(c, j) PROVE TypeInv'
  <2>1. th' \in [Threads -> ThreadState] /\ ThreadOK'
    <3>1. CASE Become(c, [Rest EXCEPT !.pc = "start", !.job = j])
      BY <3>1, BecomeType DEF Threads, Rest, ThreadState, PCs, Working
    <3>2. CASE Become(c, Rest)
      BY <3>2, RestType, BecomeType DEF Threads, Rest, PCs, Working
    <3>3. QED
      BY <1>3, <3>1, <3>2 DEF Create
  <2>2. th[c].tgt \in Jobs \cup {NoJob}
    BY DEF TypeInv, TypeOK, ThreadState, Threads
  <2>3. /\ mem' \subseteq Jobs /\ issued' \subseteq Jobs
        /\ status' \in [Jobs -> Status]
        /\ parent' \in [Jobs -> Jobs \cup {NoJob}]
    BY <1>3, <2>2 DEF Create, TypeInv, TypeOK, Status, Active
  <2>4. [status |-> "queued", result |-> {}] \in Payload
    BY DEF Payload, Status, Active
  <2>5. /\ disk' \in [Jobs -> Payload \cup {NoFile}]
        /\ lock' \in Clients \cup {"free"}
        /\ budget' \in Budgets
    BY <1>3, <2>4, SpendType DEF Create, TypeInv, TypeOK
  <2>6. QED
    BY <1>3, <2>1, <2>3, <2>5 DEF Create, TypeInv, TypeOK
<1>4. ASSUME NEW c \in Clients, Start(c) PROVE TypeInv'
  <2> DEFINE j == th[c].job
  <2>0. c \in Threads /\ j \in Jobs /\ j \in Threads /\ c # j
    BY <1>4, ThreadAssumption
    DEF Start, At, TypeInv, ThreadOK, Threads, Working, PCs
  <2>1. th' \in [Threads -> ThreadState] /\ ThreadOK'
    <3>1. CASE th' = [th EXCEPT ![c].pc = "created",
                          ![j] = [Rest EXCEPT !.pc = "wait", !.job = j]]
      <4>1. [Rest EXCEPT !.pc = "wait", !.job = j] \in ThreadState
        BY <2>0 DEF Rest, ThreadState, PCs
      <4> DEFINE r == [th[c] EXCEPT !.pc = "created"]
      <4>0. r \in ThreadState /\ r.pc = "created" /\ r.job = j
        <5>1. th[c] \in ThreadState
          BY <2>0 DEF TypeInv, TypeOK
        <5>2. QED
          BY <5>1 DEF ThreadState, PCs
      <4>2. th' \in [Threads -> ThreadState]
        BY <2>0, <3>1, <4>0, <4>1 DEF TypeInv, TypeOK
      <4>3. \A t \in Threads :
              th'[t] = IF t = c THEN r
                       ELSE IF t = j THEN [Rest EXCEPT !.pc = "wait", !.job = j]
                       ELSE th[t]
        BY <2>0, <3>1 DEF TypeInv, TypeOK
      <4>5. ThreadOK'
        <5>1. th'[c].pc = "created" /\ th'[c].job \in Jobs
          BY <2>0, <4>0, <4>3
        <5>2. th'[j].pc = "wait" /\ th'[j].job \in Jobs
          BY <2>0, <4>3 DEF Rest
        <5>3. \A t \in Threads \ {c, j} : th'[t] = th[t]
          BY <4>3
        <5>4. QED
          BY <2>0, <5>1, <5>2, <5>3 DEF TypeInv, ThreadOK
      <4>6. QED
        BY <4>2, <4>5
    <3>2. CASE Become(c, Finishing(c, j, "failed", {}))
      BY <2>0, <3>2, FinishingType, BecomeType DEF Working, PCs
    <3>3. QED
      BY <1>4, <3>1, <3>2 DEF Start
  <2>2. /\ status' \in [Jobs -> Status] /\ gpu' \in [Jobs -> BOOLEAN]
        /\ proc' \in [Jobs -> {"none", "alive", "reported", "stopping", "dead"}]
    <3>1. "running" \in Status
      BY DEF Status, Active
    <3>2. status' \in [Jobs -> Status] /\ gpu' \in [Jobs -> BOOLEAN]
      BY <1>4, <3>1 DEF Start, TypeInv, TypeOK
    <3>3. proc' = [proc EXCEPT ![j] = "alive"] \/ UNCHANGED proc
      BY <1>4 DEF Start
    <3>4. proc \in [Jobs -> {"none", "alive", "reported", "stopping", "dead"}]
      BY DEF TypeInv, TypeOK
    <3>5. QED
      BY <3>2, <3>3, <3>4
  <2>3. QED
    BY <1>4, <2>1, <2>2 DEF Start, TypeInv, TypeOK
<1>5. ASSUME NEW c \in Clients, PersistCreated(c) PROVE TypeInv'
  <2> DEFINE r == [th[c] EXCEPT !.pc = "write", !.tgt = th[c].job,
                     !.snap = [status |-> status[th[c].job],
                               result |-> result[th[c].job]]]
  <2>0. c \in Threads /\ th[c].job \in Jobs
    BY <1>5 DEF PersistCreated, At, TypeInv, ThreadOK, Threads, Working, PCs
  <2>1. r \in ThreadState
    <3>1. th[c] \in ThreadState
      BY <2>0 DEF TypeInv, TypeOK
    <3>2. [status |-> status[th[c].job], result |-> result[th[c].job]] \in Payload
      BY <2>0 DEF TypeInv, TypeOK, Payload
    <3>3. QED
      BY <2>0, <3>1, <3>2 DEF ThreadState, PCs
  <2>2. th' \in [Threads -> ThreadState] /\ ThreadOK'
    BY <1>5, <2>0, <2>1, BecomeType
    DEF PersistCreated, Snapshot, TypeInv, TypeOK, ThreadState
  <2>3. QED
    BY <1>5, <2>2 DEF PersistCreated, TypeInv, TypeOK
<1>6. ASSUME NEW c \in Clients, NEW j \in Jobs, Cancel(c, j) \/ Delete(c, j)
      PROVE  TypeInv'
  <2>1. \E pc \in {"kill", "pop"} : Become(c, [Rest EXCEPT !.pc = pc, !.job = j])
    BY <1>6 DEF Cancel, Delete
  <2>2. th' \in [Threads -> ThreadState] /\ ThreadOK'
    BY <2>1, BecomeType DEF Threads, Rest, ThreadState, PCs, Working
  <2>3. budget' \in Budgets
    BY <1>6, SpendType DEF Cancel, Delete
  <2>4. QED
    BY <1>6, <2>2, <2>3 DEF Cancel, Delete, TypeInv, TypeOK
<1>7. ASSUME NEW c \in Clients, Kill(c) PROVE TypeInv'
  <2>0. c \in Threads /\ th[c].job \in Jobs /\ th[c] \in ThreadState
    BY <1>7 DEF Kill, At, TypeInv, TypeOK, ThreadOK, Threads, Working, PCs
  <2>1. th' \in [Threads -> ThreadState] /\ ThreadOK'
    <3>1. CASE Become(c, Finishing(c, th[c].job, "cancelled", {}))
      BY <2>0, <3>1, FinishingType, BecomeType DEF Working, PCs
    <3>2. CASE Goto(c, "join")
      BY <2>0, <3>2, GotoType DEF PCs
    <3>3. QED
      BY <1>7, <3>1, <3>2 DEF Kill
  <2>2. QED
    BY <1>7, <2>1 DEF Kill, TypeInv, TypeOK
<1>8. ASSUME NEW c \in Clients, Join(c) PROVE TypeInv'
  <2>0. c \in Threads /\ th[c].job \in Jobs
    BY <1>8 DEF Join, At, TypeInv, ThreadOK, Threads, Working, PCs
  <2>1. th' \in [Threads -> ThreadState] /\ ThreadOK'
    BY <1>8, <2>0, FinishingType, BecomeType DEF Join, Working, PCs
  <2>2. QED
    BY <1>8, <2>1 DEF Join, TypeInv, TypeOK
<1>9. ASSUME NEW c \in Clients, Pop(c) \/ Unlink(c) PROVE TypeInv'
  <2>0. c \in Threads /\ th[c].job \in Jobs
    BY <1>9 DEF Pop, Unlink, At, TypeInv, ThreadOK, Threads, Working, PCs
  <2>1. th' \in [Threads -> ThreadState] /\ ThreadOK'
    <3>1. CASE Become(c, Rest)
      BY <2>0, <3>1, RestType, BecomeType DEF Rest, PCs, Working
    <3>2. CASE Goto(c, "unlink")
      BY <2>0, <3>2, GotoType DEF PCs
    <3>3. QED
      BY <1>9, <3>1, <3>2 DEF Pop, Unlink
  <2>2. QED
    BY <1>9, <2>1 DEF Pop, Unlink, TypeInv, TypeOK
<1>10. ASSUME NEW j \in Jobs, TakeEvent(j) PROVE TypeInv'
  <2>0. j \in Threads /\ events[j] \in {"completed", "failed"}
    BY <1>10 DEF TakeEvent, TypeInv, TypeOK, Threads
  <2>1. (IF events[j] = "completed" THEN {j} ELSE {}) \in SUBSET Jobs
    OBVIOUS
  <2>2. th' \in [Threads -> ThreadState] /\ ThreadOK'
    BY <1>10, <2>0, <2>1, FinishingType, BecomeType
    DEF TakeEvent, Samples, Working, PCs
  <2>3. QED
    BY <1>10, <2>2 DEF TakeEvent, TypeInv, TypeOK
<1>11. ASSUME NEW j \in Jobs, GetTimesOut(j) PROVE TypeInv'
  <2>1. th' \in [Threads -> ThreadState] /\ ThreadOK'
    BY <1>11, GotoType DEF GetTimesOut, At, Threads, TypeInv, ThreadOK, PCs,
       Working
  <2>2. QED
    BY <1>11, <2>1 DEF GetTimesOut, TypeInv, TypeOK
<1>12. ASSUME NEW j \in Jobs, CheckWorker(j) PROVE TypeInv'
  <2>0. j \in Threads /\ th[j].job \in Jobs /\ th[j] \in ThreadState
    BY <1>12 DEF CheckWorker, At, TypeInv, TypeOK, ThreadOK, Threads, Working, PCs
  <2>1. th' \in [Threads -> ThreadState] /\ ThreadOK'
    <3>1. CASE Become(j, [th[j] EXCEPT !.pc = "wait"])
      BY <2>0, <3>1, BecomeType DEF ThreadState, PCs, Working
    <3>2. CASE Become(j, Finishing(j, j, "failed", {}))
      BY <2>0, <3>2, FinishingType, BecomeType DEF PCs, Working
    <3>3. CASE Become(j, [Rest EXCEPT !.pc = "ended"])
      BY <2>0, <3>3, RestType, BecomeType DEF Rest, PCs, Working
    <3>4. QED
      BY <1>12, <3>1, <3>2, <3>3 DEF CheckWorker
  <2>2. QED
    BY <1>12, <2>1 DEF CheckWorker, TypeInv, TypeOK
<1>13. ASSUME NEW t \in Threads, Finish(t) PROVE TypeInv'
  <2>0. th[t] \in ThreadState /\ th[t].job \in Jobs
    BY <1>13 DEF Finish, CheckGpu, StopGpu, Merge, Graft, SetStatus, SetResult,
       Write, Replace, Announce, At, TypeInv, TypeOK, ThreadOK, Working, PCs
  <2>1. CASE CheckGpu(t)
    <3>1. th' \in [Threads -> ThreadState] /\ ThreadOK'
      BY <2>0, <2>1, GotoType DEF CheckGpu, At, AfterGpu, TypeInv, ThreadOK, PCs
    <3>2. QED
      BY <2>1, <3>1 DEF CheckGpu, TypeInv, TypeOK
  <2>2. CASE StopGpu(t)
    <3>1. /\ th' \in [Threads -> ThreadState] /\ ThreadOK'
          /\ lock' \in Clients \cup {"free"}
      <4>1. CASE Raise(t)
        BY <2>0, <4>1, RaiseType
      <4>2. CASE Goto(t, AfterGpu(t)) /\ UNCHANGED lock
        BY <2>0, <2>2, <4>2, GotoType
        DEF StopGpu, At, AfterGpu, TypeInv, TypeOK, ThreadOK, PCs
      <4>3. QED
        BY <2>2, <4>1, <4>2 DEF StopGpu
    <3>2. gpu' \in [Jobs -> BOOLEAN]
      BY <2>0, <2>2 DEF StopGpu, TypeInv, TypeOK
    <3>3. QED
      BY <2>2, <3>1, <3>2 DEF StopGpu, TypeInv, TypeOK
  <2>3. CASE Merge(t)
    <3>1. /\ th' \in [Threads -> ThreadState] /\ ThreadOK'
          /\ lock' \in Clients \cup {"free"}
      <4> DEFINE p == parent[th[t].job]
                 r == [th[t] EXCEPT !.pc = "graft", !.tgt = p,
                         !.res = result[p] \cup {th[t].job}]
      <4>1. CASE Raise(t)
        BY <2>0, <4>1, RaiseType
      <4>2. CASE p \in mem /\ Become(t, r) /\ UNCHANGED lock
        <5>1. p \in Jobs
          BY <4>2 DEF TypeInv, TypeOK
        <5>2. r \in ThreadState
          BY <2>0, <5>1 DEF TypeInv, TypeOK, ThreadState, PCs
        <5>3. th[t].want # "none"
          BY <2>3 DEF Merge, At, TypeInv, ThreadOK
        <5>4. /\ r.pc = "graft" /\ r.job = th[t].job /\ r.tgt = p
              /\ r.want = th[t].want
          BY <2>0 DEF ThreadState
        <5>5. th' \in [Threads -> ThreadState] /\ ThreadOK'
          BY <2>0, <4>2, <5>1, <5>2, <5>3, <5>4, BecomeType
        <5>6. QED
          BY <4>2, <5>5 DEF TypeInv, TypeOK
      <4>3. QED
        BY <2>3, <4>1, <4>2 DEF Merge, Merged
    <3>2. QED
      BY <2>3, <3>1 DEF Merge, TypeInv, TypeOK
  <2>4. CASE Graft(t)
    <3> DEFINE p == th[t].tgt
               r == [th[t] EXCEPT !.pc = "write",
                       !.snap = [status |-> status[p], result |-> th[t].res]]
    <3>1. p \in Jobs
      BY <2>4 DEF Graft, At, TypeInv, ThreadOK
    <3>2. r \in ThreadState
      BY <2>0, <3>1 DEF TypeInv, TypeOK, ThreadState, PCs, Payload
    <3>3. r.pc = "write" /\ r.job = th[t].job /\ r.tgt = p
      BY <2>0 DEF ThreadState
    <3>4. th' \in [Threads -> ThreadState] /\ ThreadOK'
      BY <2>0, <2>4, <3>1, <3>2, <3>3, BecomeType DEF Graft, Snapshot
    <3>5. result' \in [Jobs -> SUBSET Jobs]
      BY <2>0, <2>4 DEF Graft, TypeInv, TypeOK, ThreadState
    <3>6. QED
      BY <2>4, <3>4, <3>5 DEF Graft, TypeInv, TypeOK
  <2>5. CASE SetStatus(t)
    <3>1. th' \in [Threads -> ThreadState] /\ ThreadOK'
      BY <2>0, <2>5, GotoType DEF SetStatus, At, TypeInv, ThreadOK, PCs
    <3>2. status' \in [Jobs -> Status]
      BY <2>0, <2>5 DEF SetStatus, TypeInv, TypeOK, ThreadState, Status, Terminal
    <3>3. QED
      BY <2>5, <3>1, <3>2 DEF SetStatus, TypeInv, TypeOK
  <2>6. CASE SetResult(t)
    <3> DEFINE j == th[t].job
               r == [th[t] EXCEPT !.pc = "write", !.tgt = j,
                       !.snap = [status |-> status[j], result |-> th[t].res]]
    <3>2. r \in ThreadState
      BY <2>0 DEF TypeInv, TypeOK, ThreadState, PCs, Payload
    <3>3. r.pc = "write" /\ r.job = j /\ r.tgt = j
      BY <2>0 DEF ThreadState
    <3>4. th' \in [Threads -> ThreadState] /\ ThreadOK'
      BY <2>0, <2>6, <3>2, <3>3, BecomeType DEF SetResult, Snapshot
    <3>5. result' \in [Jobs -> SUBSET Jobs]
      BY <2>0, <2>6 DEF SetResult, TypeInv, TypeOK, ThreadState
    <3>6. QED
      BY <2>6, <3>4, <3>5 DEF SetResult, TypeInv, TypeOK
  <2>7. CASE Write(t)
    <3> DEFINE r == [th[t] EXCEPT !.pc = "replace", !.snap = NoFile]
    <3>0. r.pc = "replace" /\ r.job = th[t].job /\ r.tgt = th[t].tgt
      BY <2>0 DEF ThreadState
    <3>1. th[t].tgt \in Jobs /\ r \in ThreadState
      BY <2>0, <2>7 DEF Write, At, TypeInv, ThreadOK, ThreadState, PCs
    <3>2. /\ th' \in [Threads -> ThreadState] /\ ThreadOK'
          /\ lock' \in Clients \cup {"free"}
      <4>1. CASE Raise(t)
        BY <2>0, <4>1, RaiseType
      <4>2. CASE Become(t, r) /\ UNCHANGED lock
        BY <2>0, <3>0, <3>1, <4>2, BecomeType DEF TypeInv, TypeOK
      <4>3. QED
        BY <2>7, <4>1, <4>2 DEF Write
    <3>3. /\ tmp' \in [Jobs -> Payload \cup {NoFile}]
          /\ budget' \in Budgets
      BY <2>0, <2>7, SpendType DEF Write, TypeInv, TypeOK, ThreadState
    <3>4. QED
      BY <2>7, <3>2, <3>3 DEF Write, TypeInv, TypeOK
  <2>8. CASE Replace(t)
    <3> DEFINE x == th[t].tgt
               r1 == [th[t] EXCEPT !.pc = "set", !.tgt = NoJob,
                                   !.res = result[x]]
               r2 == [th[t] EXCEPT !.pc = "announce", !.tgt = NoJob,
                                   !.res = {}]
    <3>0. x \in Jobs
      BY <2>8 DEF Replace, At, TypeInv, ThreadOK
    <3>1. /\ r1 \in ThreadState /\ r1.pc = "set" /\ r1.job = th[t].job
          /\ r1.want = th[t].want
      BY <2>0, <3>0 DEF TypeInv, TypeOK, ThreadState, PCs
    <3>2. /\ r2 \in ThreadState /\ r2.pc = "announce" /\ r2.job = th[t].job
          /\ r2.want = th[t].want
      BY <2>0 DEF ThreadState, PCs
    <3>3. /\ th' \in [Threads -> ThreadState] /\ ThreadOK'
          /\ lock' \in Clients \cup {"free"}
      <4>1. CASE Raise(t)
        BY <2>0, <4>1, RaiseType
      <4>2. CASE Become(t, Rest) /\ Release(t)
        BY <4>2, RestType, BecomeType
        DEF Rest, PCs, Working, Release, TypeInv, TypeOK
      <4>3. CASE th[t].want # "none" /\ Become(t, r1) /\ UNCHANGED lock
        BY <2>0, <3>1, <4>3, BecomeType DEF TypeInv, TypeOK
      <4>4. CASE th[t].want # "none" /\ Become(t, r2) /\ UNCHANGED lock
        BY <2>0, <3>2, <4>4, BecomeType DEF TypeInv, TypeOK
      <4>5. QED
        BY <2>8, <4>1, <4>2, <4>3, <4>4 DEF Replace
    <3>4. /\ disk' \in [Jobs -> Payload \cup {NoFile}]
          /\ tmp' \in [Jobs -> Payload \cup {NoFile}]
      BY <2>8, <3>0 DEF Replace, TypeInv, TypeOK
    <3>5. QED
      BY <2>8, <3>3, <3>4 DEF Replace, TypeInv, TypeOK
  <2>9. CASE Announce(t)
    <3>1. th' \in [Threads -> ThreadState] /\ ThreadOK'
      BY <2>9, RestType, BecomeType DEF Announce, Rest, PCs, Working
    <3>2. lock' \in Clients \cup {"free"}
      BY <2>9 DEF Announce, Release, TypeInv, TypeOK
    <3>3. th[t].want \in Terminal
      BY <2>0, <2>9 DEF Announce, At, TypeInv, ThreadOK, ThreadState, Terminal
    <3>4. log' \in [Jobs -> Seq(Terminal)] /\ done' \in [Jobs -> BOOLEAN]
      BY <2>0, <2>9, <3>3 DEF Announce, TypeInv, TypeOK
    <3>5. QED
      BY <2>9, <3>1, <3>2, <3>4 DEF Announce, TypeInv, TypeOK
  <2>10. QED
    BY <1>13, <2>1, <2>2, <2>3, <2>4, <2>5, <2>6, <2>7, <2>8, <2>9 DEF Finish
<1>14. ASSUME NEW j \in Jobs, Report(j) \/ Exit(j) PROVE TypeInv'
  BY <1>14 DEF Report, Exit, TypeInv, TypeOK, ThreadOK
<1>15. ASSUME Restart PROVE TypeInv'
  <2>1. th' \in [Threads -> ThreadState] /\ ThreadOK'
    BY <1>15, RestType DEF Restart, ThreadOK, Rest, Working, PCs
  <2>2. /\ status' \in [Jobs -> Status]
        /\ result' \in [Jobs -> SUBSET Jobs]
        /\ mem' \subseteq Jobs
    BY <1>15 DEF Restart, Recovered, TypeInv, TypeOK, Payload, Status, Terminal
  <2>3. /\ proc' \in [Jobs -> {"none", "alive", "reported", "stopping", "dead"}]
        /\ events' \in [Jobs -> {"empty", "completed", "failed"}]
        /\ gpu' \in [Jobs -> BOOLEAN] /\ done' \in [Jobs -> BOOLEAN]
        /\ lock' \in Clients \cup {"free"}
    BY <1>15 DEF Restart, TypeInv, TypeOK
  <2>4. log' \in [Jobs -> Seq(Terminal)]
    BY <1>15 DEF Restart
  <2>5. budget' \in Budgets
    BY <1>15, SpendType DEF Restart
  <2>6. QED
    BY <1>15, <2>1, <2>2, <2>3, <2>4, <2>5 DEF Restart, TypeInv, TypeOK
<1>16. ASSUME UNCHANGED vars PROVE TypeInv'
  BY <1>16 DEF vars, TypeInv, TypeOK, ThreadOK
<1>17. QED
  BY <1>1, <1>2, <1>3, <1>4, <1>5, <1>6, <1>7, <1>8, <1>9, <1>10, <1>11, <1>12,
     <1>13, <1>14, <1>15, <1>16 DEF Next, Request, Serve, Monitor

(* The initial states have the types. *)
LEMMA TypeInit == Init => TypeInv
<1> SUFFICES ASSUME NEW l \in Limits, InitWith(l) PROVE TypeInv
  BY DEF Init
<1>1. l \in [cancel : Nat, delete : Nat, restart : Nat, io : Nat, quick : BOOLEAN]
  BY BoundAssumption
<1>2. budget \in Budgets
  BY <1>1 DEF InitWith, Budgets
<1>3. th \in [Threads -> ThreadState] /\ ThreadOK
  BY RestType DEF InitWith, ThreadOK, Rest, Working, PCs
<1>4. QED
  BY <1>2, <1>3 DEF InitWith, TypeInv, TypeOK, Status

(* Type correctness of every reachable state. *)
THEOREM TypeCorrect == Spec => []TypeOK
<1>1. Init => TypeInv
  BY TypeInit
<1>2. TypeInv => TypeOK
  BY DEF TypeInv
<1>3. QED
  BY <1>1, <1>2, TypeStep, PTL DEF Spec

-----------------------------------------------------------------------------
(***************************************************************************)
(* Mutual exclusion.  AtMostOneActive alone is not inductive: between the  *)
(* insertion of a queued job and its start the lock must keep every other  *)
(* thread away from it, a request about to pop a job must still see it     *)
(* ended, and no record on disk may belong to an id not yet handed out.    *)
(***************************************************************************)
Known(j) == j \in issued \cup {NoJob}

Bookkeeping ==
  /\ mem \subseteq issued
  /\ \A j \in Jobs : /\ status[j] \in Active => j \in mem
                     /\ status[j] # "none" => j \in issued
                     /\ Known(parent[j])
                     /\ disk[j] # NoFile => j \in issued
                     /\ tmp[j] # NoFile => j \in issued
                     /\ th[j].job \in {j, NoJob}
  /\ \A t \in Threads : Known(th[t].job) /\ Known(th[t].tgt)

CreatorExclusive ==
  \A c \in Clients : th[c].pc = "start" =>
    /\ lock = c /\ status[th[c].job] = "queued" /\ th[c].job \in mem
    /\ \A t \in Threads \ {c} : th[t].job # th[c].job

PopsEndedJob ==
  \A t \in Threads : th[t].pc = "pop" => status[th[t].job] \notin Active

SlotInv == AtMostOneActive /\ Bookkeeping /\ CreatorExclusive /\ PopsEndedJob

(* How the helpers that move one thread change the locals. *)
LEMMA Moves ==
  ASSUME TypeInv, NEW t \in Threads
  PROVE  /\ \A r : Become(t, r) =>
               /\ th'[t] = r
               /\ \A u \in Threads \ {t} : th'[u] = th[u]
         /\ \A pc : Goto(t, pc) =>
               /\ th'[t].pc = pc /\ th'[t].job = th[t].job
               /\ th'[t].tgt = th[t].tgt
               /\ \A u \in Threads \ {t} : th'[u] = th[u]
<1>1. \A r : Become(t, r) =>
        th'[t] = r /\ \A u \in Threads \ {t} : th'[u] = th[u]
  BY DEF Become, TypeInv, TypeOK
<1>2. th[t] \in ThreadState
  BY DEF TypeInv, TypeOK
<1>3. ASSUME NEW pc, Goto(t, pc)
      PROVE  /\ th'[t].pc = pc /\ th'[t].job = th[t].job
             /\ th'[t].tgt = th[t].tgt
             /\ \A u \in Threads \ {t} : th'[u] = th[u]
  BY <1>2, <1>3 DEF Goto, TypeInv, TypeOK, ThreadState
<1>4. QED
  BY <1>1, <1>3

(* A step in which thread t moves, and ends at most the job it works on,
   keeps the mutual exclusion invariant, provided t picks up a job only
   while no other thread holds the lock. *)
LEMMA MoveKeepsSlotInv ==
  ASSUME TypeInv, TypeInv', SlotInv, NEW t \in Threads,
         \A u \in Threads \ {t} : th'[u] = th[u],
         th'[t].pc # "start",
         \/ th'[t].job \in {th[t].job, NoJob}
         \/ t \in Clients /\ th'[t].job \in mem /\ CanLock(t),
         Known(th'[t].tgt),
         th'[t].pc = "pop" => status[th'[t].job] \notin Active,
         lock' = lock \/ Release(t),
         UNCHANGED <<mem, issued, parent>>,
         \A j \in Jobs : /\ j # th[t].job => status'[j] = status[j]
                         /\ status'[j] # status[j] => status'[j] \in Terminal,
         \A j \in Jobs : /\ disk'[j] # NoFile => j \in issued
                         /\ tmp'[j] # NoFile => j \in issued
  PROVE  SlotInv'
<1>1. \A j \in Jobs : status'[j] \in Active => status'[j] = status[j]
  BY DEF Active, Terminal
<1>2. AtMostOneActive'
  BY <1>1 DEF SlotInv, AtMostOneActive
<1>3. Bookkeeping'
  <2>1. mem' \subseteq issued'
    BY DEF SlotInv, Bookkeeping
  <2>2. ASSUME NEW j \in Jobs, status'[j] # "none" PROVE j \in issued
    <3>1. CASE j # th[t].job
      BY <2>2, <3>1 DEF SlotInv, Bookkeeping
    <3>2. CASE j = th[t].job
      BY <3>2, ThreadAssumption DEF SlotInv, Bookkeeping, Known
    <3>3. QED
      BY <3>1, <3>2
  <2>3. ASSUME NEW j \in Jobs
        PROVE  /\ status'[j] \in Active => j \in mem'
               /\ Known(parent[j])' /\ th'[j].job \in {j, NoJob}
    <3>1. status'[j] \in Active => j \in mem'
      BY <1>1, <2>3 DEF SlotInv, Bookkeeping
    <3>2. Known(parent[j])'
      BY <2>3 DEF SlotInv, Bookkeeping, Known
    <3>3. j \in Threads /\ j \notin Clients
      BY ThreadAssumption DEF Threads
    <3>4. th'[j].job \in {j, NoJob}
      BY <3>3 DEF SlotInv, Bookkeeping
    <3>5. QED
      BY <3>1, <3>2, <3>4
  <2>4. ASSUME NEW u \in Threads PROVE Known(th[u].job)' /\ Known(th[u].tgt)'
    BY <2>4 DEF SlotInv, Bookkeeping, Known
  <2>5. QED
    BY <2>1, <2>2, <2>3, <2>4 DEF Bookkeeping
<1>4. CreatorExclusive'
  <2> SUFFICES ASSUME NEW c \in Clients, th'[c].pc = "start"
               PROVE  /\ lock' = c /\ status'[th'[c].job] = "queued"
                      /\ th'[c].job \in mem'
                      /\ \A u \in Threads \ {c} : th'[u].job # th'[c].job
    BY DEF CreatorExclusive
  <2>1. c \in Threads /\ c # t /\ th'[c] = th[c] /\ c # "free"
    BY ThreadAssumption DEF Threads
  <2>2. /\ lock = c /\ status[th[c].job] = "queued" /\ th[c].job \in mem
        /\ \A u \in Threads \ {c} : th[u].job # th[c].job
    BY <2>1 DEF SlotInv, CreatorExclusive
  <2>3. th[c].job \in Jobs /\ th[c].job # NoJob
    BY <2>2, ThreadAssumption DEF TypeInv, TypeOK
  <2>4. lock' = c
    BY <2>1, <2>2 DEF Release
  <2>5. th'[t].job # th[c].job
    BY <2>1, <2>2, <2>3 DEF CanLock
  <2>6. status'[th[c].job] = "queued"
    BY <2>1, <2>2, <2>3
  <2>7. QED
    BY <2>1, <2>2, <2>4, <2>5, <2>6
<1>5. PopsEndedJob'
  <2> SUFFICES ASSUME NEW u \in Threads, th'[u].pc = "pop"
               PROVE  status'[th'[u].job] \notin Active
    BY DEF PopsEndedJob
  <2>1. status[th'[u].job] \notin Active
    BY DEF SlotInv, PopsEndedJob
  <2>2. th'[u].job \in Jobs
    BY DEF TypeInv, ThreadOK, Working, PCs
  <2>3. QED
    BY <1>1, <2>1, <2>2
<1>6. QED
  BY <1>2, <1>3, <1>4, <1>5 DEF SlotInv

(* Every step keeps mutual exclusion. *)
LEMMA SlotStep == TypeInv /\ SlotInv /\ [Next]_vars => SlotInv'
<1> SUFFICES ASSUME TypeInv, SlotInv, [Next]_vars PROVE SlotInv'
  OBVIOUS
<1>0. TypeInv'
  BY TypeStep
<1> USE DEF objects, files, worker
<1>1. ASSUME NEW c \in Clients, NEW p \in Jobs,
             ExtensionCheck(c, p) \/ Cancel(c, p) \/ Delete(c, p)
      PROVE  SlotInv'
  <2>1. \/ p \in mem /\ th'[c] = [Rest EXCEPT !.pc = "create", !.tgt = p]
        \/ p \in mem /\ th'[c] = [Rest EXCEPT !.pc = "kill", !.job = p]
        \/ /\ p \in mem /\ th'[c] = [Rest EXCEPT !.pc = "pop", !.job = p]
           /\ status[p] \notin Active
    BY <1>1, Moves DEF ExtensionCheck, Cancel, Delete, Threads
  <2>2. \A u \in Threads \ {c} : th'[u] = th[u]
    BY <1>1, Moves DEF ExtensionCheck, Cancel, Delete, Threads
  <2>3. /\ CanLock(c) /\ lock' = lock
        /\ UNCHANGED <<mem, issued, parent, status, disk, tmp>>
    BY <1>1 DEF ExtensionCheck, Cancel, Delete
  <2>4. c \in Threads /\ mem \subseteq issued
    BY DEF Threads, SlotInv, Bookkeeping
  <2>5. /\ th'[c].pc # "start" /\ Known(th'[c].tgt)
        /\ th'[c].job = NoJob \/ th'[c].job \in mem
        /\ th'[c].pc = "pop" => status[th'[c].job] \notin Active
    <3>1. CASE p \in mem /\ th'[c] = [Rest EXCEPT !.pc = "create", !.tgt = p]
      BY <2>4, <3>1 DEF Rest, Known
    <3>2. CASE p \in mem /\ th'[c] = [Rest EXCEPT !.pc = "kill", !.job = p]
      BY <3>2 DEF Rest, Known
    <3>3. CASE /\ p \in mem /\ th'[c] = [Rest EXCEPT !.pc = "pop", !.job = p]
               /\ status[p] \notin Active
      BY <3>3 DEF Rest, Known
    <3>4. QED
      BY <2>1, <3>1, <3>2, <3>3
  <2>6. QED
    BY <1>0, <2>2, <2>3, <2>4, <2>5, MoveKeepsSlotInv
    DEF SlotInv, Bookkeeping
<1>2. ASSUME NEW c \in Clients,
             PersistCreated(c) \/ Kill(c) \/ Join(c) \/ Unlink(c) \/ Refuse(c)
      PROVE  SlotInv'
  <2>0. c \in Threads /\ th[c] \in ThreadState
    BY DEF Threads, TypeInv, TypeOK
  <2>1. /\ \A u \in Threads \ {c} : th'[u] = th[u]
        /\ th'[c].pc \notin {"start", "pop"}
        /\ th'[c].job \in {th[c].job, NoJob}
        /\ th'[c].tgt \in {th[c].tgt, th[c].job, NoJob}
    <3>0. ASSUME Kill(c) \/ Join(c) PROVE th[c].job \in Jobs
      BY <2>0, <3>0 DEF Kill, Join, At, TypeInv, ThreadOK, Working, PCs
    <3>1. CASE PersistCreated(c)
      <4> DEFINE r == [th[c] EXCEPT !.pc = "write", !.tgt = th[c].job,
                         !.snap = [status |-> status[th[c].job],
                                   result |-> result[th[c].job]]]
      <4>1. r.pc = "write" /\ r.job = th[c].job /\ r.tgt = th[c].job
        BY <2>0 DEF ThreadState
      <4>2. Become(c, r)
        BY <3>1 DEF PersistCreated, Snapshot
      <4>3. QED
        BY <2>0, <4>1, <4>2, Moves
    <3>2. CASE Kill(c) \/ Join(c)
      <4>1. \/ Become(c, Finishing(c, th[c].job, "cancelled", {}))
            \/ Goto(c, "join")
        BY <3>2 DEF Kill, Join
      <4>2. QED
        BY <2>0, <3>0, <3>2, <4>1, FinishingType, Moves
    <3>3. CASE Unlink(c) \/ Refuse(c)
      <4>1. th'[c] = Rest /\ \A u \in Threads \ {c} : th'[u] = th[u]
        BY <2>0, <3>3, Moves DEF Unlink, Refuse
      <4>2. QED
        BY <4>1 DEF Rest
    <3>4. QED
      BY <1>2, <3>1, <3>2, <3>3
  <2>2. Known(th'[c].tgt)
    BY <2>0, <2>1 DEF SlotInv, Bookkeeping, Known
  <2>3. /\ lock' = lock /\ UNCHANGED <<mem, issued, parent, status, tmp>>
        /\ \A j \in Jobs : disk'[j] # NoFile => disk[j] # NoFile
    BY <1>2 DEF PersistCreated, Kill, Join, Unlink, Refuse, TypeInv, TypeOK
  <2>4. QED
    BY <1>0, <2>0, <2>1, <2>2, <2>3, MoveKeepsSlotInv DEF SlotInv, Bookkeeping
<1>3. ASSUME NEW j \in Jobs, Monitor(j) PROVE SlotInv'
  <2>0. j \in Threads /\ th[j] \in ThreadState
    BY DEF Threads, TypeInv, TypeOK
  <2>1. th[j].job = j
    <3>1. th[j].job \in Jobs
      BY <1>3, <2>0 DEF Monitor, TakeEvent, GetTimesOut, CheckWorker, At, TypeInv,
         ThreadOK, Working, PCs
    <3>2. QED
      BY <3>1, ThreadAssumption DEF SlotInv, Bookkeeping
  <2>2. /\ \A u \in Threads \ {j} : th'[u] = th[u]
        /\ th'[j].pc \notin {"start", "pop"}
        /\ th'[j].job \in {th[j].job, NoJob}
        /\ th'[j].tgt \in {th[j].tgt, NoJob}
    <3>1. \/ \E want \in {"completed", "failed"}, res \in SUBSET Jobs :
               Become(j, Finishing(j, j, want, res))
          \/ Goto(j, "check")
          \/ Become(j, [th[j] EXCEPT !.pc = "wait"])
          \/ Become(j, [Rest EXCEPT !.pc = "ended"])
      <4>1. CASE TakeEvent(j)
        <5>1. events[j] \in {"completed", "failed"}
          BY <4>1 DEF TakeEvent, TypeInv, TypeOK
        <5>2. (IF events[j] = "completed" THEN {j} ELSE {}) \in SUBSET Jobs
          OBVIOUS
        <5>3. QED
          BY <4>1, <5>1, <5>2 DEF TakeEvent, Samples
      <4>2. CASE GetTimesOut(j) \/ CheckWorker(j)
        BY <4>2 DEF GetTimesOut, CheckWorker
      <4>3. QED
        BY <1>3, <4>1, <4>2 DEF Monitor
    <3>2. LET r == [th[j] EXCEPT !.pc = "wait"]
          IN  r.pc = "wait" /\ r.job = th[j].job /\ r.tgt = th[j].tgt
      BY <2>0 DEF ThreadState
    <3>3. CASE \E want \in {"completed", "failed"}, res \in SUBSET Jobs :
                 Become(j, Finishing(j, j, want, res))
      BY <2>0, <2>1, <3>3, FinishingType, Moves
    <3>4. CASE Become(j, [th[j] EXCEPT !.pc = "wait"])
      <4>1. th'[j] = [th[j] EXCEPT !.pc = "wait"]
        BY <2>0, <3>4, Moves
      <4>2. QED
        BY <2>0, <3>2, <3>4, <4>1, Moves
    <3>5. CASE Goto(j, "check")
      BY <2>0, <3>5, Moves
    <3>6. CASE Become(j, [Rest EXCEPT !.pc = "ended"])
      <4>1. th'[j] = [Rest EXCEPT !.pc = "ended"]
        BY <2>0, <3>6, Moves
      <4>2. th'[j].pc = "ended" /\ th'[j].job = NoJob /\ th'[j].tgt = NoJob
        BY <4>1 DEF Rest
      <4>3. QED
        BY <2>0, <3>6, <4>2, Moves
    <3>7. QED
      BY <3>1, <3>3, <3>4, <3>5, <3>6
  <2>3. Known(th'[j].tgt)
    BY <2>0, <2>2 DEF SlotInv, Bookkeeping, Known
  <2>4. lock' = lock /\ UNCHANGED <<mem, issued, parent, status, disk, tmp>>
    BY <1>3 DEF Monitor, TakeEvent, GetTimesOut, CheckWorker
  <2>5. QED
    BY <1>0, <2>0, <2>2, <2>3, <2>4, MoveKeepsSlotInv DEF SlotInv, Bookkeeping
<1>4. ASSUME NEW t \in Threads, Finish(t) PROVE SlotInv'
  <2>0. th[t] \in ThreadState /\ th[t].job \in Jobs
    BY <1>4 DEF Finish, CheckGpu, StopGpu, Merge, Graft, SetStatus, SetResult,
       Write, Replace, Announce, At, TypeInv, TypeOK, ThreadOK, Working, PCs
  <2>1. ASSUME Raise(t)
        PROVE  /\ \A u \in Threads \ {t} : th'[u] = th[u]
               /\ th'[t].pc \notin {"start", "pop"}
               /\ th'[t].job \in {th[t].job, NoJob} /\ th'[t].tgt = NoJob
               /\ Release(t)
    <3>1. \/ Become(t, Rest)
          \/ Become(t, Finishing(t, th[t].job, "failed", {}))
          \/ Become(t, [Rest EXCEPT !.pc = "dead"])
      BY <2>1 DEF Raise
    <3>2. Release(t)
      BY <2>1 DEF Raise
    <3>3. CASE Become(t, Rest)
      <4>1. th'[t] = Rest
        BY <3>3, Moves
      <4>2. QED
        BY <3>2, <3>3, <4>1, Moves DEF Rest
    <3>4. CASE Become(t, Finishing(t, th[t].job, "failed", {}))
      BY <2>0, <3>2, <3>4, FinishingType, Moves
    <3>5. CASE Become(t, [Rest EXCEPT !.pc = "dead"])
      <4>1. th'[t] = [Rest EXCEPT !.pc = "dead"]
        BY <3>5, Moves
      <4>2. QED
        BY <3>2, <3>5, <4>1, Moves DEF Rest
    <3>6. QED
      BY <3>1, <3>3, <3>4, <3>5
  <2>2. /\ UNCHANGED <<mem, issued, parent>>
        /\ \A j \in Jobs : j # th[t].job => status'[j] = status[j]
        /\ \A j \in Jobs : status'[j] # status[j] => status'[j] \in Terminal
    <3>1. CASE SetStatus(t)
      <4>1. th[t].want \in Terminal
        BY <2>0, <3>1 DEF SetStatus, At, TypeInv, ThreadOK, ThreadState, Terminal
      <4>2. QED
        BY <3>1, <4>1 DEF SetStatus, TypeInv, TypeOK
    <3>2. CASE ~ SetStatus(t)
      BY <1>4, <3>2 DEF Finish, CheckGpu, StopGpu, Merge, Graft, SetResult, Write,
         Replace, Announce
    <3>3. QED
      BY <3>1, <3>2, <1>4 DEF Finish, CheckGpu, StopGpu, Merge, Graft, SetStatus,
         SetResult, Write, Replace, Announce
  <2>3. /\ \A u \in Threads \ {t} : th'[u] = th[u]
        /\ th'[t].pc \notin {"start", "pop"}
        /\ th'[t].job \in {th[t].job, NoJob}
        /\ Known(th'[t].tgt)
        /\ lock' = lock \/ Release(t)
    <3>0. Known(th[t].tgt) /\ Known(th[t].job) /\ Known(NoJob)
      BY DEF SlotInv, Bookkeeping, Known
    <3>1. CASE CheckGpu(t) \/ StopGpu(t)
      BY <2>0, <2>1, <3>0, <3>1, Moves DEF CheckGpu, StopGpu, AfterGpu
    <3>2. CASE Merge(t)
      <4>1. CASE Raise(t)
        BY <2>1, <3>0, <4>1
      <4>2. ASSUME parent[th[t].job] \in mem, UNCHANGED lock,
                   Become(t, [th[t] EXCEPT !.pc = "graft", !.tgt = parent[th[t].job],
                        !.res = result[parent[th[t].job]] \cup {th[t].job}])
            PROVE <2>3!1 /\ <2>3!2 /\ <2>3!3 /\ <2>3!4 /\ <2>3!5
        <5> DEFINE r == [th[t] EXCEPT !.pc = "graft", !.tgt = parent[th[t].job],
                        !.res = result[parent[th[t].job]] \cup {th[t].job}]
        <5>1. r.pc = "graft" /\ r.job = th[t].job /\ r.tgt = parent[th[t].job]
          BY <2>0 DEF ThreadState
        <5>2. Known(parent[th[t].job])
          BY <2>0 DEF SlotInv, Bookkeeping
        <5>3. th'[t] = r /\ \A u \in Threads \ {t} : th'[u] = th[u]
          BY <4>2, Moves
        <5>4. QED
          BY <4>2, <5>1, <5>2, <5>3 DEF Known
      <4>3. QED
        BY <3>2, <4>1, <4>2 DEF Merge, Merged
    <3>3. CASE Graft(t) \/ SetStatus(t) \/ SetResult(t)
      <4>1. CASE SetStatus(t)
        BY <2>0, <3>0, <4>1, Moves DEF SetStatus
      <4>2. CASE Graft(t)
        <5> DEFINE r == [th[t] EXCEPT !.pc = "write",
                           !.snap = [status |-> status[th[t].tgt],
                                     result |-> th[t].res]]
        <5>1. th'[t] = r
          BY <4>2, Moves DEF Graft, Snapshot
        <5>2. r.pc = "write" /\ r.job = th[t].job /\ r.tgt = th[t].tgt
          BY <2>0 DEF ThreadState
        <5>3. lock' = lock /\ \A u \in Threads \ {t} : th'[u] = th[u]
          BY <4>2, Moves DEF Graft
        <5>4. QED
          BY <3>0, <5>1, <5>2, <5>3
      <4>3. CASE SetResult(t)
        <5> DEFINE r == [th[t] EXCEPT !.pc = "write", !.tgt = th[t].job,
                           !.snap = [status |-> status[th[t].job],
                                     result |-> th[t].res]]
        <5>1. th'[t] = r
          BY <4>3, Moves DEF SetResult, Snapshot
        <5>2. r.pc = "write" /\ r.job = th[t].job /\ r.tgt = th[t].job
          BY <2>0 DEF ThreadState
        <5>3. lock' = lock /\ \A u \in Threads \ {t} : th'[u] = th[u]
          BY <4>3, Moves DEF SetResult
        <5>4. QED
          BY <3>0, <5>1, <5>2, <5>3
      <4>6. QED
        BY <3>3, <4>1, <4>2, <4>3
    <3>4. CASE Write(t) \/ Replace(t) \/ Announce(t)
      <4> DEFINE r0 == [th[t] EXCEPT !.pc = "replace", !.snap = NoFile]
                 r1 == [th[t] EXCEPT !.pc = "set", !.tgt = NoJob,
                                     !.res = result[th[t].tgt]]
                 r2 == [th[t] EXCEPT !.pc = "announce", !.tgt = NoJob,
                                     !.res = {}]
                 r3 == [Rest EXCEPT !.pc = "ended"]
      <4>1. \/ Raise(t)
            \/ lock' = lock /\ (Become(t, r0) \/ Become(t, r1) \/ Become(t, r2))
            \/ Release(t) /\ (Become(t, Rest) \/ Become(t, r3))
        BY <3>4 DEF Write, Replace, Announce
      <4>2. /\ r0.pc = "replace" /\ r0.job = th[t].job /\ r0.tgt = th[t].tgt
            /\ r1.pc = "set" /\ r1.job = th[t].job /\ r1.tgt = NoJob
            /\ r2.pc = "announce" /\ r2.job = th[t].job /\ r2.tgt = NoJob
        BY <2>0 DEF ThreadState
      <4>3. CASE Raise(t)
        BY <2>1, <3>0, <4>3
      <4>4. CASE lock' = lock /\ (Become(t, r0) \/ Become(t, r1) \/ Become(t, r2))
        <5>1. \/ th'[t] = r0 \/ th'[t] = r1 \/ th'[t] = r2
          BY <4>4, Moves
        <5>2. \A u \in Threads \ {t} : th'[u] = th[u]
          BY <4>4, Moves
        <5>3. QED
          BY <3>0, <4>2, <4>4, <5>1, <5>2
      <4>5. CASE Release(t) /\ (Become(t, Rest) \/ Become(t, r3))
        <5>1. th'[t] = Rest \/ th'[t] = r3
          BY <4>5, Moves
        <5>2. \A u \in Threads \ {t} : th'[u] = th[u]
          BY <4>5, Moves
        <5>3. QED
          BY <3>0, <4>5, <5>1, <5>2 DEF Rest
      <4>6. QED
        BY <4>1, <4>3, <4>4, <4>5
    <3>5. QED
      BY <1>4, <3>1, <3>2, <3>3, <3>4 DEF Finish
  <2>4. \A j \in Jobs : /\ disk'[j] # NoFile => j \in issued
                        /\ tmp'[j] # NoFile => j \in issued
    <3>1. CASE Write(t) \/ Replace(t)
      <4>1. th[t].tgt \in issued
        BY <3>1, ThreadAssumption DEF Write, Replace, At, TypeInv, ThreadOK,
           SlotInv, Bookkeeping, Known
      <4>2. \A j \in Jobs : j # th[t].tgt => disk'[j] = disk[j] /\ tmp'[j] = tmp[j]
        BY <3>1 DEF Write, Replace, TypeInv, TypeOK
      <4>3. QED
        BY <4>1, <4>2 DEF SlotInv, Bookkeeping
    <3>2. CASE ~ (Write(t) \/ Replace(t))
      BY <1>4, <3>2 DEF Finish, CheckGpu, StopGpu, Merge, Graft, SetStatus,
         SetResult, Announce, SlotInv, Bookkeeping
    <3>3. QED
      BY <3>1, <3>2
  <2>5. th'[t].pc # "start" /\ th'[t].pc # "pop"
    BY <2>3
  <2>6. QED
    BY <1>0, <2>2, <2>3, <2>4, <2>5, MoveKeepsSlotInv
<1>5. ASSUME NEW c \in Clients, NEW j \in Jobs, Create(c, j) PROVE SlotInv'
  <2>0. c \in Threads /\ th[c] \in ThreadState
    BY DEF Threads, TypeInv, TypeOK
  <2>1. /\ \A u \in Threads \ {c} : th'[u] = th[u]
        /\ \/ /\ th'[c] = [Rest EXCEPT !.pc = "start", !.job = j]
              /\ lock' = c
           \/ th'[c] = Rest
    BY <1>5, <2>0, Moves DEF Create
  <2>2. /\ j \notin issued /\ lock = "free" /\ ActiveJobs = {}
        /\ issued' = issued \cup {j} /\ mem' = mem \cup {j}
        /\ status' = [status EXCEPT ![j] = "queued"]
        /\ parent' = [parent EXCEPT ![j] = th[c].tgt]
        /\ tmp' = tmp
        /\ \A k \in Jobs : k # j => disk'[k] = disk[k]
    BY <1>5 DEF Create, TypeInv, TypeOK
  <2>3. \A k \in Jobs : status[k] \notin Active
    BY <2>2 DEF SlotInv, Bookkeeping, ActiveJobs
  <2>4. \A k \in Jobs : status'[k] \in Active => k = j
    BY <2>2, <2>3 DEF TypeInv, TypeOK
  <2>5. \A u \in Threads : th[u].job # j
    BY <2>2, ThreadAssumption DEF SlotInv, Bookkeeping, Known
  <2>6. AtMostOneActive'
    BY <2>4 DEF AtMostOneActive
  <2>7. Bookkeeping'
    <3>1. \A k \in Jobs : /\ status'[k] \in Active => k \in mem'
                          /\ status'[k] # "none" => k \in issued'
                          /\ disk'[k] # NoFile => k \in issued'
                          /\ tmp'[k] # NoFile => k \in issued'
      BY <2>2, <2>4 DEF SlotInv, Bookkeeping, TypeInv, TypeOK
    <3>2. \A k \in Jobs : Known(parent[k])'
      BY <2>0, <2>2 DEF SlotInv, Bookkeeping, Known, TypeInv, TypeOK
    <3>3. \A k \in Jobs : th'[k].job \in {k, NoJob}
      <4> SUFFICES ASSUME NEW k \in Jobs PROVE th'[k].job \in {k, NoJob}
        OBVIOUS
      <4>1. k \in Threads \ {c}
        BY ThreadAssumption DEF Threads
      <4>2. QED
        BY <2>1, <4>1 DEF SlotInv, Bookkeeping
    <3>4. \A u \in Threads : Known(th[u].job)' /\ Known(th[u].tgt)'
      <4>1. Known(th[c].job)' /\ Known(th[c].tgt)'
        <5>1. CASE th'[c] = Rest
          BY <5>1 DEF Rest, Known
        <5>2. CASE th'[c] = [Rest EXCEPT !.pc = "start", !.job = j]
          BY <2>2, <5>2 DEF Rest, Known
        <5>3. QED
          BY <2>1, <5>1, <5>2
      <4>2. \A u \in Threads \ {c} : Known(th[u].job)' /\ Known(th[u].tgt)'
        BY <2>1, <2>2 DEF SlotInv, Bookkeeping, Known
      <4>3. QED
        BY <4>1, <4>2
    <3>5. mem' \subseteq issued'
      BY <2>2 DEF SlotInv, Bookkeeping
    <3>6. ASSUME NEW k \in Jobs
          PROVE  /\ status'[k] \in Active => k \in mem'
                 /\ status'[k] # "none" => k \in issued'
                 /\ Known(parent[k])'
                 /\ disk'[k] # NoFile => k \in issued'
                 /\ tmp'[k] # NoFile => k \in issued'
                 /\ th'[k].job \in {k, NoJob}
      BY <3>1, <3>2, <3>3
    <3>7. QED
      BY <3>4, <3>5, <3>6 DEF Bookkeeping
  <2>8. CreatorExclusive'
    <3> SUFFICES ASSUME NEW d \in Clients, th'[d].pc = "start"
                 PROVE  /\ lock' = d /\ status'[th'[d].job] = "queued"
                        /\ th'[d].job \in mem'
                        /\ \A u \in Threads \ {d} : th'[u].job # th'[d].job
      BY DEF CreatorExclusive
    <3>1. d = c
      BY <2>1, <2>2, ThreadAssumption DEF SlotInv, CreatorExclusive, Threads
    <3>2. th'[c].job = j /\ lock' = c
      <4>1. th'[c] # Rest
        BY <3>1 DEF Rest
      <4>2. QED
        BY <2>1, <4>1 DEF Rest
    <3>3. QED
      BY <2>1, <2>2, <2>5, <3>1, <3>2 DEF TypeInv, TypeOK
  <2>9. PopsEndedJob'
    <3> SUFFICES ASSUME NEW u \in Threads, th'[u].pc = "pop"
                 PROVE  status'[th'[u].job] \notin Active
      BY DEF PopsEndedJob
    <3>1. u # c /\ th'[u] = th[u]
      <4>1. th'[c].pc # "pop"
        <5>1. CASE th'[c] = Rest
          BY <5>1 DEF Rest
        <5>2. CASE th'[c] = [Rest EXCEPT !.pc = "start", !.job = j]
          BY <5>2 DEF Rest
        <5>3. QED
          BY <2>1, <5>1, <5>2
      <4>2. QED
        BY <2>1, <4>1
    <3>2. th[u].job \in Jobs
      BY <3>1 DEF TypeInv, ThreadOK, Working, PCs
    <3>3. QED
      BY <2>4, <2>5, <3>1, <3>2
  <2>10. QED
    BY <2>6, <2>7, <2>8, <2>9 DEF SlotInv
<1>6. ASSUME NEW c \in Clients, Start(c) PROVE SlotInv'
  <2> DEFINE j == th[c].job
  <2>0. /\ c \in Threads /\ th[c] \in ThreadState /\ j \in Jobs
        /\ j \in Threads /\ c # j /\ At(c, "start")
    BY <1>6, ThreadAssumption
    DEF Start, At, TypeInv, TypeOK, ThreadOK, Threads, Working, PCs
  <2>1. /\ lock = c /\ status[j] = "queued" /\ j \in mem
        /\ \A u \in Threads \ {c} : th[u].job # j
    BY <2>0 DEF At, SlotInv, CreatorExclusive
  <2>2. /\ \A u \in Threads \ {c, j} : th'[u] = th[u]
        /\ th'[c].pc \notin {"start", "pop"} /\ th'[c].job = j
        /\ th'[c].tgt \in {th[c].tgt, NoJob}
        /\ \/ th'[j] = th[j]
           \/ th'[j].pc = "wait" /\ th'[j].job = j /\ th'[j].tgt = NoJob
    <3>1. CASE th' = [th EXCEPT ![c].pc = "created",
                          ![j] = [Rest EXCEPT !.pc = "wait", !.job = j]]
      <4> DEFINE r == [th[c] EXCEPT !.pc = "created"]
                 w == [Rest EXCEPT !.pc = "wait", !.job = j]
      <4>1. /\ th'[c] = r /\ th'[j] = w
            /\ \A u \in Threads \ {c, j} : th'[u] = th[u]
        BY <2>0, <3>1 DEF TypeInv, TypeOK
      <4>2. r.pc = "created" /\ r.job = j /\ r.tgt = th[c].tgt
        BY <2>0 DEF ThreadState
      <4>3. w.pc = "wait" /\ w.job = j /\ w.tgt = NoJob
        BY DEF Rest
      <4>4. QED
        BY <4>1, <4>2, <4>3
    <3>2. CASE Become(c, Finishing(c, j, "failed", {}))
      BY <2>0, <3>2, FinishingType, Moves
    <3>3. QED
      BY <1>6, <3>1, <3>2 DEF Start
  <2>3. /\ UNCHANGED <<mem, issued, parent, lock, disk, tmp>>
        /\ status' = [status EXCEPT ![j] = "running"]
    BY <1>6 DEF Start
  <2>4. AtMostOneActive'
    BY <2>0, <2>1, <2>3 DEF SlotInv, AtMostOneActive, TypeInv, TypeOK, Active
  <2>5. Bookkeeping'
    <3>1. j \in issued
      BY <2>1 DEF SlotInv, Bookkeeping
    <3>2. \A k \in Jobs : /\ status'[k] \in Active => k \in mem'
                          /\ status'[k] # "none" => k \in issued'
                          /\ Known(parent[k])'
                          /\ disk'[k] # NoFile => k \in issued'
                          /\ tmp'[k] # NoFile => k \in issued'
      BY <2>0, <2>1, <2>3, <3>1 DEF SlotInv, Bookkeeping, Known, TypeInv, TypeOK
    <3>3. \A k \in Jobs : th'[k].job \in {k, NoJob}
      <4>1. \A k \in Jobs : k \in Threads /\ k # c
        BY ThreadAssumption DEF Threads
      <4>2. QED
        BY <2>2, <4>1 DEF SlotInv, Bookkeeping
    <3>4. \A u \in Threads : Known(th[u].job)' /\ Known(th[u].tgt)'
      BY <2>2, <2>3, <3>1 DEF SlotInv, Bookkeeping, Known
    <3>5. QED
      <4>1. mem' \subseteq issued'
        BY <2>3 DEF SlotInv, Bookkeeping
      <4>2. QED
        BY <3>2, <3>3, <3>4, <4>1 DEF Bookkeeping, Known
  <2>6. CreatorExclusive'
    <3>1. ASSUME NEW d \in Clients, th'[d].pc = "start" PROVE FALSE
      <4>1. d \in Threads \ {c, j}
        BY <2>0, <2>2, <3>1, ThreadAssumption DEF Threads
      <4>2. lock = d
        BY <2>2, <3>1, <4>1 DEF SlotInv, CreatorExclusive
      <4>3. QED
        BY <2>1, <4>1, <4>2
    <3>2. QED
      BY <3>1 DEF CreatorExclusive
  <2>7. PopsEndedJob'
    <3> SUFFICES ASSUME NEW u \in Threads, th'[u].pc = "pop"
                 PROVE  status'[th'[u].job] \notin Active
      BY DEF PopsEndedJob
    <3>1. u # c /\ th'[u] = th[u]
      BY <2>2
    <3>2. th[u].job \in Jobs /\ th[u].job # j /\ status[th[u].job] \notin Active
      BY <2>1, <3>1 DEF SlotInv, PopsEndedJob, TypeInv, ThreadOK, Working, PCs
    <3>3. QED
      BY <2>3, <3>1, <3>2 DEF TypeInv, TypeOK
  <2>8. QED
    BY <2>4, <2>5, <2>6, <2>7 DEF SlotInv
<1>7. ASSUME NEW c \in Clients, Pop(c) PROVE SlotInv'
  <2>0. c \in Threads /\ th[c] \in ThreadState /\ th[c].job \in Jobs
    BY <1>7 DEF Pop, At, TypeInv, TypeOK, ThreadOK, Threads, Working, PCs
  <2>1. /\ th'[c].pc = "unlink" /\ th'[c].job = th[c].job
        /\ th'[c].tgt = th[c].tgt
        /\ \A u \in Threads \ {c} : th'[u] = th[u]
    BY <1>7, <2>0, Moves DEF Pop
  <2>2. /\ mem' = mem \ {th[c].job} /\ status[th[c].job] \notin Active
        /\ UNCHANGED <<issued, status, parent, lock, disk, tmp>>
    BY <1>7, <2>0 DEF Pop, At, SlotInv, PopsEndedJob
  <2>3. AtMostOneActive'
    BY <2>2 DEF SlotInv, AtMostOneActive
  <2>4. Bookkeeping'
    <3>1. \A k \in Jobs : /\ status'[k] \in Active => k \in mem'
                          /\ status'[k] # "none" => k \in issued'
                          /\ Known(parent[k])'
                          /\ disk'[k] # NoFile => k \in issued'
                          /\ tmp'[k] # NoFile => k \in issued'
      BY <2>2 DEF SlotInv, Bookkeeping, Known
    <3>2. \A u \in Threads : th'[u].job = th[u].job /\ th'[u].tgt = th[u].tgt
      BY <2>1
    <3>3. \A u \in Threads : Known(th[u].job)' /\ Known(th[u].tgt)'
      BY <2>2, <3>2 DEF SlotInv, Bookkeeping, Known
    <3>4. \A k \in Jobs : th'[k].job \in {k, NoJob}
      BY <3>2 DEF SlotInv, Bookkeeping, Threads
    <3>5. QED
      <4>1. mem' \subseteq issued'
        BY <2>2 DEF SlotInv, Bookkeeping
      <4>2. QED
        BY <3>1, <3>3, <3>4, <4>1 DEF Bookkeeping, Known
  <2>5. CreatorExclusive'
    <3> SUFFICES ASSUME NEW d \in Clients, th'[d].pc = "start"
                 PROVE  /\ lock' = d /\ status'[th'[d].job] = "queued"
                        /\ th'[d].job \in mem'
                        /\ \A u \in Threads \ {d} : th'[u].job # th'[d].job
      BY DEF CreatorExclusive
    <3>1. d # c /\ d \in Threads /\ th'[d] = th[d]
      BY <2>1 DEF Threads
    <3>2. /\ lock = d /\ status[th[d].job] = "queued" /\ th[d].job \in mem
          /\ \A u \in Threads \ {d} : th[u].job # th[d].job
      BY <3>1 DEF SlotInv, CreatorExclusive
    <3>3. QED
      BY <2>0, <2>1, <2>2, <3>1, <3>2
  <2>6. PopsEndedJob'
    BY <2>1, <2>2 DEF SlotInv, PopsEndedJob
  <2>7. QED
    BY <2>3, <2>4, <2>5, <2>6 DEF SlotInv
<1>8. ASSUME NEW j \in Jobs, Report(j) \/ Exit(j) PROVE SlotInv'
  BY <1>8 DEF Report, Exit, SlotInv, AtMostOneActive, Bookkeeping, Known,
     CreatorExclusive, PopsEndedJob
<1>9. ASSUME Restart PROVE SlotInv'
  <2>1. \A j \in Jobs : status'[j] \notin Active
    BY <1>9 DEF Restart, Recovered, Active
  <2>2. \A u \in Threads : th'[u] = Rest
    BY <1>9 DEF Restart
  <2>3. AtMostOneActive'
    BY <2>1 DEF AtMostOneActive
  <2>4. Bookkeeping'
    <3>1. mem' \subseteq issued' /\ UNCHANGED <<issued, parent, disk, tmp>>
      BY <1>9 DEF Restart, SlotInv, Bookkeeping
    <3>2. \A k \in Jobs : status'[k] # "none" => k \in issued'
      BY <1>9 DEF Restart, SlotInv, Bookkeeping
    <3>3. \A k \in Jobs : /\ Known(parent[k])'
                          /\ disk'[k] # NoFile => k \in issued'
                          /\ tmp'[k] # NoFile => k \in issued'
      BY <3>1 DEF SlotInv, Bookkeeping, Known
    <3>4. \A u \in Threads : th'[u].job = NoJob /\ th'[u].tgt = NoJob
      BY <2>2 DEF Rest
    <3>5. QED
      <4>1. \A k \in Jobs : k \in Threads
        BY DEF Threads
      <4>2. \A u \in Threads : Known(th[u].job)' /\ Known(th[u].tgt)'
        BY <3>4 DEF Known
      <4>3. QED
        BY <2>1, <3>1, <3>2, <3>3, <3>4, <4>1, <4>2 DEF Bookkeeping, Known
  <2>5. CreatorExclusive' /\ PopsEndedJob'
    BY <2>2 DEF CreatorExclusive, PopsEndedJob, Rest, Threads
  <2>6. QED
    BY <2>3, <2>4, <2>5 DEF SlotInv
<1>10. ASSUME UNCHANGED vars PROVE SlotInv'
  BY <1>10 DEF vars, SlotInv, AtMostOneActive, Bookkeeping, Known,
     CreatorExclusive, PopsEndedJob
<1>11. QED
  BY <1>1, <1>2, <1>3, <1>4, <1>5, <1>6, <1>7, <1>8, <1>9, <1>10
  DEF Next, Request, Serve

(* The inductive invariant holds in every reachable state. *)
LEMMA SlotInvariant == Spec => [](TypeInv /\ SlotInv)
<1>1. Init => TypeInv /\ SlotInv
  <2>1. Init => TypeInv
    BY TypeInit
  <2>2. Init => SlotInv
    BY DEF Init, InitWith, SlotInv, AtMostOneActive, Bookkeeping, Known, CreatorExclusive,
       PopsEndedJob, Rest, Active, Threads
  <2>3. QED
    BY <2>1, <2>2
<1>2. QED
  BY <1>1, TypeStep, SlotStep, PTL DEF Spec

(* One GPU task at a time: never two active jobs, for any number of request
   threads, jobs, crashes, failed writes and cancellations. *)
THEOREM MutualExclusion == Spec => []AtMostOneActive
<1>1. SlotInv => AtMostOneActive
  BY DEF SlotInv
<1>2. QED
  BY <1>1, SlotInvariant, PTL

-----------------------------------------------------------------------------
(***************************************************************************)
(* What a step does to the active jobs, and the refinement of SingleSlot.  *)
(***************************************************************************)

(* Only the creation of a job that was never issued activates a job. *)
LEMMA ActivationStep ==
  ASSUME TypeInv, SlotInv, [Next]_vars
  PROVE  \/ \E c \in Clients, j \in Jobs : Create(c, j)
         \/ /\ UNCHANGED issued
            /\ \A j \in Jobs : status'[j] \in Active => status[j] \in Active
<1> USE DEF objects, files, worker
<1>1. ASSUME NEW c \in Clients, Start(c)
      PROVE  /\ UNCHANGED issued
             /\ \A j \in Jobs : status'[j] \in Active => status[j] \in Active
  <2>1. status[th[c].job] = "queued" /\ UNCHANGED issued
    BY <1>1 DEF Start, At, SlotInv, CreatorExclusive
  <2>2. \A j \in Jobs : j # th[c].job => status'[j] = status[j]
    BY <1>1 DEF Start, TypeInv, TypeOK
  <2>3. QED
    BY <2>1, <2>2 DEF Active
<1>2. ASSUME NEW t \in Threads, SetStatus(t)
      PROVE  /\ UNCHANGED issued
             /\ \A j \in Jobs : status'[j] \in Active => status[j] \in Active
  <2>1. th[t].want \in {"completed", "failed", "cancelled"}
    BY <1>2 DEF SetStatus, At, TypeInv, TypeOK, ThreadOK, ThreadState
  <2>2. \A j \in Jobs : status'[j] = status[j] \/ status'[j] = th[t].want
    BY <1>2 DEF SetStatus, TypeInv, TypeOK
  <2>3. UNCHANGED issued
    BY <1>2 DEF SetStatus
  <2>4. QED
    BY <2>1, <2>2, <2>3 DEF Active
<1>3. ASSUME Restart
      PROVE  /\ UNCHANGED issued
             /\ \A j \in Jobs : status'[j] \notin Active
  BY <1>3 DEF Restart, Recovered, Active
<1>4. ASSUME NEW c \in Clients, NEW p \in Jobs,
             ExtensionCheck(c, p) \/ Cancel(c, p) \/ Delete(c, p)
      PROVE  UNCHANGED <<issued, status>>
  BY <1>4 DEF ExtensionCheck, Cancel, Delete
<1>5. ASSUME NEW c \in Clients, \/ Refuse(c) \/ PersistCreated(c) \/ Kill(c)
                                \/ Join(c) \/ Pop(c) \/ Unlink(c)
      PROVE  UNCHANGED <<issued, status>>
  BY <1>5 DEF Refuse, PersistCreated, Kill, Join, Pop, Unlink
<1>6. ASSUME NEW j \in Jobs, Monitor(j) \/ Report(j) \/ Exit(j)
      PROVE  UNCHANGED <<issued, status>>
  BY <1>6 DEF Monitor, TakeEvent, GetTimesOut, CheckWorker, Report, Exit
<1>7. ASSUME NEW t \in Threads, Finish(t), ~ SetStatus(t)
      PROVE  UNCHANGED <<issued, status>>
  BY <1>7 DEF Finish, CheckGpu, StopGpu, Merge, Graft, SetResult, Write, Replace,
     Announce
<1>8. ASSUME UNCHANGED vars PROVE UNCHANGED <<issued, status>>
  BY <1>8 DEF vars
<1>9. QED
  BY <1>1, <1>2, <1>3, <1>4, <1>5, <1>6, <1>7, <1>8
  DEF Next, Request, Serve

(* A created job was inactive, as all the others are. *)
LEMMA CreateStep ==
  ASSUME TypeInv, SlotInv, NEW c \in Clients, NEW j \in Jobs, Create(c, j)
  PROVE  /\ \A k \in Jobs : status[k] \notin Active
         /\ \A k \in Jobs : status'[k] \in Active <=> k = j
         /\ status[j] = "none" /\ \A k \in Jobs : k # j => status'[k] = status[k]
         /\ j \notin issued /\ issued' = issued \cup {j}
<1>1. /\ ActiveJobs = {} /\ j \notin issued /\ issued' = issued \cup {j}
      /\ status' = [status EXCEPT ![j] = "queued"]
  BY DEF Create
<1>2. \A k \in Jobs : status[k] \notin Active
  BY <1>1 DEF ActiveJobs, SlotInv, Bookkeeping
<1>3. status[j] = "none"
  BY <1>1 DEF SlotInv, Bookkeeping
<1>4. QED
  BY <1>1, <1>2, <1>3 DEF TypeInv, TypeOK, Active

(* No step of any thread, and no restart, makes an ended job active again. *)
THEOREM EndedForGood == Spec => NeverReactivated
<1>1. ASSUME TypeInv, SlotInv, [Next]_vars
      PROVE  \A j \in Jobs : status[j] \in Terminal => status'[j] \notin Active
  <2>1. CASE \E c \in Clients, j \in Jobs : Create(c, j)
    <3>1. PICK c \in Clients, j \in Jobs : Create(c, j)
      BY <2>1
    <3>2. QED
      BY <1>1, <3>1, CreateStep DEF Terminal
  <2>2. CASE \A j \in Jobs : status'[j] \in Active => status[j] \in Active
    BY <2>2 DEF Active, Terminal
  <2>3. QED
    BY <1>1, <2>1, <2>2, ActivationStep
<1>2. TypeInv /\ SlotInv /\ [Next]_vars
        => [\A j \in Jobs : status[j] \in Terminal => status'[j] \notin Active]_vars
  BY <1>1
<1>3. QED
  BY <1>2, SlotInvariant, PTL DEF Spec, NeverReactivated

(* The refinement mapping, unfolded: the slot holds the active job. *)
LEMMA SlotValue ==
  /\ (\A j \in Jobs : status[j] \notin Active) => CurrentJob = NoJob
  /\ \A j \in Jobs :
       AtMostOneActive /\ status[j] \in Active => CurrentJob = j
BY DEF CurrentJob, AtMostOneActive

(* The manager refines SingleSlot: a step of it takes the free slot for a run
   that never had it, frees the slot, or leaves it alone. *)
THEOREM Refinement == Spec => ImplementsSlot
<1>1. Init => Slot!Init
  BY SlotValue DEF Init, InitWith, Slot!Init, Active
<1>2. ASSUME TypeInv, SlotInv, SlotInv', [Next]_vars
      PROVE  [Slot!Next]_(Slot!vars)
  <2>0. AtMostOneActive /\ AtMostOneActive'
    BY <1>2 DEF SlotInv
  <2>1. CASE \E c \in Clients, j \in Jobs : Create(c, j)
    <3>1. PICK c \in Clients, j \in Jobs : Create(c, j)
      BY <2>1
    <3>2. /\ \A k \in Jobs : status[k] \notin Active
          /\ status'[j] \in Active
          /\ j \notin issued /\ issued' = issued \cup {j}
      BY <1>2, <3>1, CreateStep
    <3>3. CurrentJob = NoJob
      BY <3>2, SlotValue
    <3>4. CurrentJob' = j
      BY <2>0, <3>2 DEF CurrentJob, AtMostOneActive
    <3>5. Slot!Acquire(j)
      BY <3>2, <3>3, <3>4 DEF Slot!Acquire
    <3>6. QED
      BY <3>5 DEF Slot!Next
  <2>2. CASE /\ UNCHANGED issued
             /\ \A j \in Jobs : status'[j] \in Active => status[j] \in Active
    <3>1. CASE \E j \in Jobs : status'[j] \in Active
      <4>1. PICK j \in Jobs : status'[j] \in Active
        BY <3>1
      <4>2. CurrentJob = j
        BY <2>0, <2>2, <4>1, SlotValue
      <4>3. CurrentJob' = j
        BY <2>0, <4>1 DEF CurrentJob, AtMostOneActive
      <4>4. QED
        BY <2>2, <4>2, <4>3 DEF Slot!vars
    <3>2. CASE \A j \in Jobs : status'[j] \notin Active
      <4>1. CurrentJob' = NoJob
        BY <3>2 DEF CurrentJob
      <4>2. CurrentJob # NoJob => Slot!Free
        BY <2>2, <4>1 DEF Slot!Free
      <4>3. QED
        BY <2>2, <4>1, <4>2 DEF Slot!Next, Slot!vars
    <3>3. QED
      BY <3>1, <3>2
  <2>3. QED
    BY <1>2, <2>1, <2>2, ActivationStep
<1>3. TypeInv /\ SlotInv /\ [Next]_vars => SlotInv'
  BY SlotStep
<1>4. QED
  BY <1>1, <1>2, <1>3, SlotInvariant, PTL DEF Spec, ImplementsSlot, Slot!Spec

-----------------------------------------------------------------------------
(***************************************************************************)
(* Samples.  OnlyDeliveredSamples says nothing of the events in flight, of *)
(* the payload a thread is about to write, or of the moment between the    *)
(* event and the merge, when the thread knows it has samples of its own    *)
(* job only: the inductive invariant does.                                 *)
(***************************************************************************)
Clean(f) == f # NoFile => f.result \subseteq delivered

CleanLocals(r) ==
  /\ r.res \subseteq delivered
  /\ r.snap # NoFile => r.snap.result \subseteq delivered
  /\ r.pc \in {"gpu", "stop", "merge"} => r.res \subseteq {r.job}
  /\ r.pc = "merge" => r.res # {}

CleanJob(j) ==
  /\ result[j] \subseteq delivered
  /\ events[j] = "completed" => j \in delivered
  /\ Clean(disk[j]) /\ Clean(tmp[j])

DeliveryInv == /\ \A j \in Jobs : CleanJob(j)
               /\ \A t \in Threads : CleanLocals(th[t])

(* A thread that moves to clean locals and leaves clean jobs behind. *)
LEMMA CleanMove ==
  ASSUME TypeInv, DeliveryInv, NEW t \in Threads, NEW r, Become(t, r),
         delivered' = delivered, CleanLocals(r), \A j \in Jobs : CleanJob(j)'
  PROVE  DeliveryInv'
<1>1. \A u \in Threads : th'[u] = r \/ th'[u] = th[u]
  BY Moves
<1>2. \A u \in Threads : CleanLocals(th[u])'
  BY <1>1 DEF DeliveryInv, CleanLocals
<1>3. QED
  BY <1>2 DEF DeliveryInv

(* The idle locals are clean. *)
LEMMA CleanRest ==
  /\ CleanLocals(Rest)
  /\ \A pc \in PCs \ {"merge"} :
       /\ CleanLocals([Rest EXCEPT !.pc = pc])
       /\ \A x : /\ CleanLocals([Rest EXCEPT !.pc = pc, !.job = x])
                 /\ CleanLocals([Rest EXCEPT !.pc = pc, !.tgt = x])
BY DEF Rest, CleanLocals

(* Entering _finish without samples, or with those of a reported job. *)
LEMMA CleanFinishing ==
  ASSUME TypeInv, NEW t \in Threads, NEW j \in Jobs,
         NEW want \in {"completed", "failed", "cancelled"},
         NEW res \in SUBSET {j}, res \subseteq delivered
  PROVE  CleanLocals(Finishing(t, j, want, res))
<1>1. res \in SUBSET Jobs
  OBVIOUS
<1>2. QED
  BY <1>1, FinishingType DEF CleanLocals

(* An exception drops the samples a thread holds. *)
LEMMA CleanRaise ==
  ASSUME TypeInv, DeliveryInv, NEW t \in Threads, th[t].job \in Jobs, Raise(t)
  PROVE  \E r : Become(t, r) /\ CleanLocals(r)
<1>1. \/ Become(t, Rest)
      \/ Become(t, Finishing(t, th[t].job, "failed", {}))
      \/ Become(t, [Rest EXCEPT !.pc = "dead"])
  BY DEF Raise
<1>2. CleanLocals(Finishing(t, th[t].job, "failed", {}))
  BY CleanFinishing
<1>3. CleanLocals([Rest EXCEPT !.pc = "dead"])
  BY DEF Rest, CleanLocals
<1>4. QED
  BY <1>1, <1>2, <1>3, CleanRest

(* Every step keeps undelivered samples out. *)
LEMMA DeliveryStep == TypeInv /\ DeliveryInv /\ [Next]_vars => DeliveryInv'
<1> SUFFICES ASSUME TypeInv, DeliveryInv, [Next]_vars PROVE DeliveryInv'
  OBVIOUS
<1> USE DEF objects, files, worker
<1>0. /\ \A t \in Threads : th[t] \in ThreadState /\ CleanLocals(th[t])
      /\ \A j \in Jobs : CleanJob(j)
  BY DEF TypeInv, TypeOK, DeliveryInv
<1>1. ASSUME UNCHANGED <<delivered, result, events, disk, tmp>>
      PROVE  \A j \in Jobs : CleanJob(j)'
  BY <1>0, <1>1 DEF CleanJob, Clean
<1>2. ASSUME NEW c \in Clients, NEW p \in Jobs,
             \/ ExtensionCheck(c, p) \/ Cancel(c, p) \/ Delete(c, p)
      PROVE  DeliveryInv'
  <2>1. \/ Become(c, [Rest EXCEPT !.pc = "create", !.tgt = p])
        \/ Become(c, [Rest EXCEPT !.pc = "kill", !.job = p])
        \/ Become(c, [Rest EXCEPT !.pc = "pop", !.job = p])
    BY <1>2 DEF ExtensionCheck, Cancel, Delete
  <2>2. UNCHANGED <<delivered, result, events, disk, tmp>>
    BY <1>2 DEF ExtensionCheck, Cancel, Delete
  <2>3. /\ CleanLocals([Rest EXCEPT !.pc = "create", !.tgt = p])
        /\ CleanLocals([Rest EXCEPT !.pc = "kill", !.job = p])
        /\ CleanLocals([Rest EXCEPT !.pc = "pop", !.job = p])
    BY DEF Rest, CleanLocals
  <2>4. QED
    BY <1>1, <2>1, <2>2, <2>3, CleanMove DEF Threads
<1>3. ASSUME NEW c \in Clients, Refuse(c) PROVE DeliveryInv'
  BY <1>1, <1>3, CleanMove, CleanRest DEF Refuse, Threads
<1>4. ASSUME NEW c \in Clients, Unlink(c) PROVE DeliveryInv'
  <2>1. \A j \in Jobs : disk'[j] \in {disk[j], NoFile}
    BY <1>4 DEF Unlink, TypeInv, TypeOK
  <2>2. \A j \in Jobs : CleanJob(j)'
    BY <1>0, <1>4, <2>1 DEF Unlink, CleanJob, Clean
  <2>3. QED
    BY <1>4, <2>2, CleanMove, CleanRest DEF Unlink, Threads
<1>5. ASSUME NEW c \in Clients, NEW j \in Jobs, Create(c, j) PROVE DeliveryInv'
  <2>1. Become(c, Rest) \/ Become(c, [Rest EXCEPT !.pc = "start", !.job = j])
    BY <1>5 DEF Create
  <2>2. CleanLocals([Rest EXCEPT !.pc = "start", !.job = j])
    BY DEF Rest, CleanLocals
  <2>3. /\ UNCHANGED <<delivered, result, events, tmp>>
        /\ \A k \in Jobs : disk'[k] \in {disk[k], [status |-> "queued", result |-> {}]}
    BY <1>5 DEF Create, TypeInv, TypeOK
  <2>4. \A k \in Jobs : CleanJob(k)'
    BY <1>0, <2>3 DEF CleanJob, Clean
  <2>5. QED
    BY <2>1, <2>2, <2>3, <2>4, CleanMove, CleanRest DEF Threads
<1>6. ASSUME NEW c \in Clients, Start(c) PROVE DeliveryInv'
  <2> DEFINE j == th[c].job
  <2>0. /\ c \in Threads /\ j \in Jobs /\ j \in Threads /\ c # j
        /\ At(c, "start")
    BY <1>6, ThreadAssumption
    DEF Start, At, TypeInv, ThreadOK, Threads, Working, PCs
  <2>1. UNCHANGED <<delivered, result, events, disk, tmp>>
    BY <1>6 DEF Start
  <2>2. CASE th' = [th EXCEPT ![c].pc = "created",
                        ![j] = [Rest EXCEPT !.pc = "wait", !.job = j]]
    <3> DEFINE r == [th[c] EXCEPT !.pc = "created"]
               w == [Rest EXCEPT !.pc = "wait", !.job = j]
    <3>1. /\ r.pc = "created" /\ r.res = th[c].res /\ r.snap = th[c].snap
      BY <1>0, <2>0 DEF ThreadState
    <3>2. CleanLocals(r)
      BY <1>0, <2>0, <3>1 DEF CleanLocals
    <3>3. CleanLocals(w)
      BY DEF Rest, CleanLocals
    <3>4. \A u \in Threads : th'[u] \in {r, w, th[u]}
      BY <2>0, <2>2 DEF TypeInv, TypeOK
    <3>5. \A u \in Threads : CleanLocals(th[u])'
      BY <1>0, <2>1, <3>2, <3>3, <3>4 DEF CleanLocals
    <3>6. QED
      BY <1>1, <2>1, <3>5 DEF DeliveryInv
  <2>3. CASE Become(c, Finishing(c, j, "failed", {}))
    BY <1>1, <2>0, <2>1, <2>3, CleanFinishing, CleanMove
  <2>4. QED
    BY <1>6, <2>2, <2>3 DEF Start
<1>7. ASSUME NEW c \in Clients, PersistCreated(c) PROVE DeliveryInv'
  <2> DEFINE r == [th[c] EXCEPT !.pc = "write", !.tgt = th[c].job,
                     !.snap = [status |-> status[th[c].job],
                               result |-> result[th[c].job]]]
  <2>0. c \in Threads /\ th[c].job \in Jobs
    BY <1>7 DEF PersistCreated, At, TypeInv, ThreadOK, Threads, Working, PCs
  <2>1. /\ r.pc = "write" /\ r.res = th[c].res
        /\ r.snap.result = result[th[c].job]
    BY <1>0, <2>0 DEF ThreadState
  <2>2. CleanLocals(r)
    BY <1>0, <2>0, <2>1 DEF CleanLocals, CleanJob
  <2>3. Become(c, r) /\ UNCHANGED <<delivered, result, events, disk, tmp>>
    BY <1>7 DEF PersistCreated, Snapshot
  <2>4. QED
    BY <1>1, <2>0, <2>2, <2>3, CleanMove
<1>8. ASSUME NEW t \in Threads, NEW pc \in PCs, Goto(t, pc),
             pc \in {"stop", "merge"} => At(t, "gpu") \/ At(t, "stop"),
             pc = "merge" => th[t].res # {}, pc # "gpu",
             UNCHANGED <<delivered, result, events, disk, tmp>>
      PROVE  DeliveryInv'
  <2> DEFINE r == [th[t] EXCEPT !.pc = pc]
  <2>1. /\ r.pc = pc /\ r.res = th[t].res /\ r.snap = th[t].snap
        /\ r.job = th[t].job
    BY <1>0 DEF ThreadState
  <2>2. CleanLocals(r)
    BY <1>0, <1>8, <2>1 DEF CleanLocals, At
  <2>3. Become(t, r)
    BY <1>8 DEF Goto, Become
  <2>4. QED
    BY <1>1, <1>8, <2>2, <2>3, CleanMove
<1>9. ASSUME NEW c \in Clients, Kill(c) \/ Join(c) \/ Pop(c) PROVE DeliveryInv'
  <2>0. c \in Threads /\ th[c].job \in Jobs
    BY <1>9 DEF Kill, Join, Pop, At, TypeInv, ThreadOK, Threads, Working, PCs
  <2>1. UNCHANGED <<delivered, result, events, disk, tmp>>
    BY <1>9 DEF Kill, Join, Pop
  <2>2. CASE Goto(c, "join") \/ Goto(c, "unlink")
    BY <1>8, <2>0, <2>1, <2>2 DEF PCs
  <2>3. CASE Become(c, Finishing(c, th[c].job, "cancelled", {}))
    BY <1>1, <2>0, <2>1, <2>3, CleanFinishing, CleanMove
  <2>4. QED
    BY <1>9, <2>2, <2>3 DEF Kill, Join, Pop
<1>10. ASSUME NEW j \in Jobs, Monitor(j) PROVE DeliveryInv'
  <2>0. j \in Threads
    BY DEF Threads
  <2>1. CASE TakeEvent(j)
    <3> DEFINE res == IF events[j] = "completed" THEN {j} ELSE {}
    <3>1. /\ events[j] \in {"completed", "failed"}
          /\ res \in SUBSET {j} /\ res \subseteq delivered
      BY <1>0, <2>1 DEF TakeEvent, TypeInv, TypeOK, CleanJob
    <3>2. \A k \in Jobs : events'[k] \in {events[k], "empty"}
      BY <2>1 DEF TakeEvent, TypeInv, TypeOK
    <3>3. \A k \in Jobs : CleanJob(k)'
      BY <1>0, <2>1, <3>2 DEF TakeEvent, CleanJob, Clean
    <3>4. Become(j, Finishing(j, j, events[j], res)) /\ delivered' = delivered
      BY <2>1 DEF TakeEvent, Samples
    <3>5. CleanLocals(Finishing(j, j, events[j], res))
      BY <2>0, <3>1, CleanFinishing
    <3>6. QED
      BY <2>0, <3>3, <3>4, <3>5, CleanMove
  <2>2. CASE GetTimesOut(j)
    BY <1>8, <2>0, <2>2 DEF GetTimesOut, PCs
  <2>3. CASE CheckWorker(j)
    <3> DEFINE r == [th[j] EXCEPT !.pc = "wait"]
    <3>1. /\ UNCHANGED <<delivered, result, events, disk, tmp>>
          /\ \/ Become(j, r)
             \/ Become(j, Finishing(j, j, "failed", {}))
             \/ Become(j, [Rest EXCEPT !.pc = "ended"])
      BY <2>3 DEF CheckWorker
    <3>2. /\ r.pc = "wait" /\ r.res = th[j].res /\ r.snap = th[j].snap
      BY <1>0, <2>0 DEF ThreadState
    <3>3. CleanLocals(r)
      BY <1>0, <2>0, <3>2 DEF CleanLocals
    <3>4. CleanLocals(Finishing(j, j, "failed", {}))
      BY <2>0, CleanFinishing
    <3>5. CleanLocals([Rest EXCEPT !.pc = "ended"])
      BY DEF Rest, CleanLocals
    <3>6. QED
      BY <1>1, <2>0, <3>1, <3>3, <3>4, <3>5, CleanMove
  <2>4. QED
    BY <1>10, <2>1, <2>2, <2>3 DEF Monitor
<1>11. ASSUME NEW j \in Jobs, Report(j) PROVE DeliveryInv'
  <2>1. /\ delivered \subseteq delivered' /\ UNCHANGED <<result, disk, tmp, th>>
        /\ \A k \in Jobs : events'[k] = "completed"
                             => events[k] = "completed" \/ k \in delivered'
    BY <1>11 DEF Report, TypeInv, TypeOK
  <2>2. \A k \in Jobs : CleanJob(k)'
    BY <1>0, <2>1 DEF CleanJob, Clean
  <2>3. \A t \in Threads : CleanLocals(th[t])'
    BY <1>0, <2>1 DEF CleanLocals
  <2>4. QED
    BY <2>2, <2>3 DEF DeliveryInv
<1>12. ASSUME NEW t \in Threads, Finish(t) PROVE DeliveryInv'
  <2>0. th[t] \in ThreadState /\ th[t].job \in Jobs
    BY <1>0, <1>12 DEF Finish, CheckGpu, StopGpu, Merge, Graft, SetStatus, SetResult,
       Write, Replace, Announce, At, TypeInv, ThreadOK, Working, PCs
  <2>1. ASSUME Raise(t), UNCHANGED <<delivered, result, events, disk, tmp>>
        PROVE  DeliveryInv'
    BY <1>1, <2>0, <2>1, CleanRaise, CleanMove
  <2>2. CASE CheckGpu(t) \/ StopGpu(t)
    <3>1. UNCHANGED <<delivered, result, events, disk, tmp>>
      BY <2>2 DEF CheckGpu, StopGpu
    <3>2. CASE Raise(t)
      BY <2>1, <3>1, <3>2
    <3>3. CASE ~ Raise(t)
      <4>1. \E pc \in {"stop", "merge", "set"} :
              /\ Goto(t, pc) /\ (At(t, "gpu") \/ At(t, "stop"))
              /\ pc = "merge" => th[t].res # {}
        BY <2>2, <3>3 DEF CheckGpu, StopGpu, AfterGpu, NeedsMerge
      <4>2. QED
        BY <1>8, <3>1, <4>1 DEF PCs
    <3>4. QED
      BY <3>2, <3>3
  <2>3. CASE Merge(t)
    <3>1. UNCHANGED <<delivered, result, events, disk, tmp>>
      BY <2>3 DEF Merge
    <3> DEFINE p == parent[th[t].job]
               r == [th[t] EXCEPT !.pc = "graft", !.tgt = p,
                       !.res = result[p] \cup {th[t].job}]
    <3>2. CASE Raise(t)
      BY <2>1, <3>1, <3>2
    <3>3. CASE ~ Raise(t)
      <4>1. Become(t, r) /\ p \in Jobs /\ At(t, "merge")
        BY <2>3, <3>3 DEF Merge, Merged, TypeInv, TypeOK
      <4>2. th[t].job \in delivered
        BY <1>0, <4>1 DEF CleanLocals, At
      <4>3. /\ r.pc = "graft" /\ r.res = result[p] \cup {th[t].job}
            /\ r.snap = th[t].snap
        BY <2>0 DEF ThreadState
      <4>4. CleanLocals(r)
        BY <1>0, <4>1, <4>2, <4>3 DEF CleanLocals, CleanJob
      <4>5. QED
        BY <1>1, <3>1, <4>1, <4>4, CleanMove
    <3>4. QED
      BY <3>2, <3>3
  <2>4. CASE Graft(t) \/ SetResult(t)
    <3> DEFINE g == [th[t] EXCEPT !.pc = "write",
                       !.snap = [status |-> status[th[t].tgt],
                                 result |-> th[t].res]]
               s == [th[t] EXCEPT !.pc = "write", !.tgt = th[t].job,
                       !.snap = [status |-> status[th[t].job],
                                 result |-> th[t].res]]
    <3>1. /\ Become(t, g) \/ Become(t, s)
          /\ UNCHANGED <<delivered, events, disk, tmp>>
          /\ \A j \in Jobs : result'[j] \in {result[j], th[t].res}
      BY <2>4 DEF Graft, SetResult, Snapshot, TypeInv, TypeOK
    <3>2. /\ g.pc = "write" /\ g.res = th[t].res /\ g.snap.result = th[t].res
          /\ s.pc = "write" /\ s.res = th[t].res /\ s.snap.result = th[t].res
      BY <2>0 DEF ThreadState
    <3>3. CleanLocals(g) /\ CleanLocals(s)
      BY <1>0, <3>2 DEF CleanLocals
    <3>4. \A j \in Jobs : CleanJob(j)'
      BY <1>0, <3>1 DEF CleanJob, Clean, CleanLocals
    <3>5. QED
      BY <3>1, <3>3, <3>4, CleanMove
  <2>5. CASE SetStatus(t)
    BY <1>8, <2>5 DEF SetStatus, PCs
  <2>6. CASE Write(t)
    <3> DEFINE r == [th[t] EXCEPT !.pc = "replace", !.snap = NoFile]
    <3>1. r.pc = "replace" /\ r.res = th[t].res /\ r.snap = NoFile
      BY <2>0 DEF ThreadState
    <3>2. CleanLocals(r)
      BY <1>0, <3>1 DEF CleanLocals
    <3>3. CASE Raise(t) /\ UNCHANGED tmp
      BY <2>1, <2>6, <3>3 DEF Write
    <3>4. CASE Become(t, r) /\ tmp' = [tmp EXCEPT ![th[t].tgt] = th[t].snap]
      <4>1. /\ UNCHANGED <<delivered, result, events, disk>>
            /\ \A j \in Jobs : tmp'[j] \in {tmp[j], th[t].snap}
        BY <2>6, <3>4 DEF Write, TypeInv, TypeOK
      <4>2. \A j \in Jobs : CleanJob(j)'
        BY <1>0, <4>1 DEF CleanJob, Clean, CleanLocals
      <4>3. QED
        BY <3>2, <3>4, <4>1, <4>2, CleanMove
    <3>5. QED
      BY <2>6, <3>3, <3>4 DEF Write
  <2>7. CASE Replace(t)
    <3> DEFINE x == th[t].tgt
               r1 == [th[t] EXCEPT !.pc = "set", !.tgt = NoJob,
                                   !.res = result[x]]
               r2 == [th[t] EXCEPT !.pc = "announce", !.tgt = NoJob,
                                   !.res = {}]
    <3>0. x \in Jobs /\ UNCHANGED <<delivered, result, events>>
      BY <2>7 DEF Replace, At, TypeInv, ThreadOK
    <3>1. /\ r1.pc = "set" /\ r1.res = result[x] /\ r1.snap = th[t].snap
          /\ r2.pc = "announce" /\ r2.res = {} /\ r2.snap = th[t].snap
      BY <2>0 DEF ThreadState
    <3>2. CleanLocals(r1) /\ CleanLocals(r2)
      BY <1>0, <3>0, <3>1 DEF CleanLocals, CleanJob
    <3>3. CASE Raise(t) /\ UNCHANGED files
      BY <2>1, <3>0, <3>3
    <3>4. CASE /\ Become(t, Rest) \/ Become(t, r1) \/ Become(t, r2)
               /\ disk' = [disk EXCEPT ![x] = tmp[x]]
               /\ tmp' = [tmp EXCEPT ![x] = NoFile]
      <4>1. \A j \in Jobs : /\ disk'[j] \in {disk[j], tmp[j]}
                            /\ tmp'[j] \in {tmp[j], NoFile}
        BY <3>4 DEF TypeInv, TypeOK
      <4>2. \A j \in Jobs : CleanJob(j)'
        BY <1>0, <3>0, <4>1 DEF CleanJob, Clean
      <4>3. QED
        BY <3>0, <3>2, <3>4, <4>2, CleanRest, CleanMove
    <3>5. QED
      BY <2>7, <3>3, <3>4 DEF Replace
  <2>8. CASE Announce(t)
    <3>1. /\ UNCHANGED <<delivered, result, events, disk, tmp>>
          /\ Become(t, Rest) \/ Become(t, [Rest EXCEPT !.pc = "ended"])
      BY <2>8 DEF Announce
    <3>2. CleanLocals([Rest EXCEPT !.pc = "ended"])
      BY DEF Rest, CleanLocals
    <3>3. QED
      BY <1>1, <3>1, <3>2, CleanRest, CleanMove
  <2>9. QED
    BY <1>12, <2>2, <2>3, <2>4, <2>5, <2>6, <2>7, <2>8 DEF Finish
<1>13. ASSUME Restart PROVE DeliveryInv'
  <2>1. /\ UNCHANGED <<delivered, disk, tmp>>
        /\ \A j \in Jobs : /\ events'[j] = "empty"
                           /\ result'[j] = IF disk[j] # NoFile
                                           THEN disk[j].result ELSE {}
        /\ \A t \in Threads : th'[t] = Rest
    BY <1>13 DEF Restart
  <2>2. \A j \in Jobs : CleanJob(j)'
    BY <1>0, <2>1 DEF CleanJob, Clean
  <2>3. \A t \in Threads : CleanLocals(th[t])'
    BY <2>1 DEF CleanLocals, Rest
  <2>4. QED
    BY <2>2, <2>3 DEF DeliveryInv
<1>14. ASSUME NEW j \in Jobs, Exit(j) PROVE DeliveryInv'
  BY <1>0, <1>1, <1>14 DEF Exit, DeliveryInv, CleanLocals
<1>15. ASSUME UNCHANGED vars PROVE DeliveryInv'
  BY <1>0, <1>1, <1>15 DEF vars, DeliveryInv, CleanLocals
<1>16. QED
  BY <1>2, <1>3, <1>4, <1>5, <1>6, <1>7, <1>9, <1>10, <1>11, <1>12, <1>13,
     <1>14, <1>15 DEF Next, Request, Serve

(* No result, in memory or on disk, ever holds samples of an operation whose
   worker did not report one. *)
THEOREM SamplesAreDelivered == Spec => []OnlyDeliveredSamples
<1>1. Init => DeliveryInv
  BY DEF Init, InitWith, DeliveryInv, CleanJob, Clean, CleanLocals, Rest
<1>2. DeliveryInv => OnlyDeliveredSamples
  BY DEF DeliveryInv, CleanJob, Clean, CleanLocals, OnlyDeliveredSamples
<1>3. QED
  BY <1>1, <1>2, DeliveryStep, SlotInvariant, PTL DEF Spec

-----------------------------------------------------------------------------
(***************************************************************************)
(* Calm environments: nobody cancels, no write fails and no worker ends    *)
(* while a thread is between two waits, but runs are deleted, fail to      *)
(* start and are merged, workers die and the process is killed at any      *)
(* moment. RecordsAgree is not inductive: it says nothing while a thread   *)
(* is at work. CalmInv says who may work on a run at the same time (only   *)
(* its creator, saving it for the first time, beside the monitor that      *)
(* waits), what each thread holds, and that a record on disk that differs  *)
(* from memory has a thread about to save it.                              *)
(***************************************************************************)

(* Where a thread is: starting a run and saving it for the first time, waiting
   for its worker, in _finish before the status is set (saving the parent
   included), or about to save, or saving, the record of x. *)
Creating(t) == \/ th[t].pc \in {"start", "created"}
               \/ th[t].pc \in {"write", "replace"} /\ th[t].want = "none"
Waiting(t)  == th[t].pc \in {"wait", "check"}
Grafting(t) == /\ th[t].pc \in {"write", "replace"}
               /\ th[t].want # "none" /\ th[t].tgt # th[t].job
Ending(t)   == th[t].pc \in {"gpu", "stop", "merge", "graft", "set"} \/ Grafting(t)
Saves(t, x) == \/ th[t].pc = "setresult" /\ th[t].job = x
               \/ th[t].pc \in {"write", "replace"} /\ th[t].tgt = x
On(t)       == Busy(t) \/ Waiting(t)
Alone(t)    == \A u \in Threads \ {t} : ~ Busy(u)
Hands(t, u) == Creating(t) /\ th[t].pc # "start" /\ Waiting(u)

(* What an environment is not given it does not have. *)
Spent == \A what \in {"cancel", "io", "restart"} :
           budget.given[what] = 0 => budget[what] = 0

(* Who works on a job. *)
WaitInv == \A t \in Threads : Waiting(t) =>
  /\ t \in Jobs /\ status[th[t].job] = "running"
  /\ proc[th[t].job] # "alive" => Alone(t)
EndInv == \A t \in Threads : Ending(t) =>
  /\ status[th[t].job] = "running"
  /\ IF t \in Jobs THEN Alone(t) ELSE th[t].res = {}
CreateInv == \A t \in Threads : Creating(t) =>
  /\ t \in Clients /\ th[t].want = "none"
  /\ th[t].pc \in {"write", "replace"} => th[t].tgt = th[t].job
  /\ IF th[t].pc = "start" THEN proc[th[t].job] = "none"
     ELSE status[th[t].job] = "running" /\ proc[th[t].job] = "alive"
HandsInv == \A t, u \in Threads :
  t # u /\ On(t) /\ On(u) /\ th[t].job = th[u].job => Hands(t, u) \/ Hands(u, t)
ControlInv ==
  /\ \A t \in Threads : /\ th[t].pc \notin {"kill", "join"}
                        /\ On(t) => ~ done[th[t].job]
                        /\ th[t].pc = "stop" => gpu[th[t].job]
                        /\ th[t].pc = "unlink" => th[t].job \notin mem
  /\ \A j \in Jobs : /\ done[j] => j \in issued
                     /\ proc[j] # "none" => j \in issued
                     /\ events[j] # "empty" => proc[j] \notin {"none", "alive"}
                     /\ parent[j] # j

(* What a thread has in its hands. *)
Fits(j, s, r) == IF s = "completed" THEN j \in r ELSE r = {}
LocalOK(t) ==
  /\ Ending(t) \/ th[t].pc = "setresult" => Fits(th[t].job, th[t].want, th[t].res)
  /\ th[t].pc = "setresult" => status[th[t].job] = th[t].want
  /\ th[t].pc = "merge" => th[t].res # {}
  /\ th[t].pc = "graft" => /\ th[t].res = Merged(th[t].tgt, th[t].job)
                           /\ th[t].tgt # th[t].job /\ result[th[t].tgt] # {}
  /\ Grafting(t) => th[t].res = result[th[t].tgt] /\ th[t].job \in th[t].res
LocalInv == \A t \in Threads : LocalOK(t)
SaverInv ==
  /\ \A t, u \in Threads, x \in Jobs : Saves(t, x) /\ Saves(u, x) => t = u
  /\ \A t, u \in Threads : 
       Ending(t) \/ th[t].pc \in {"start", "created"} => ~ Saves(u, th[t].job)
Now(x) == [status |-> status[x], result |-> result[x]]
PayloadInv == \A t \in Threads :
  /\ th[t].pc = "write" => th[t].snap = Now(th[t].tgt)
  /\ th[t].pc = "replace" => tmp[th[t].tgt] = Now(th[t].tgt)

(* Memory and disk. *)
MemoryInv == \A j \in Jobs :
  Fits(j, IF \E t \in Threads : th[t].pc = "setresult" /\ th[t].job = j
          THEN "none" ELSE status[j], result[j])
Agrees(j) == /\ disk[j] # NoFile
             /\ disk[j].result = result[j]
             /\ status[j] = Recovered(disk[j].status)
DiskInv == \A j \in Jobs :
  /\ disk[j] # NoFile => Fits(j, disk[j].status, disk[j].result)
  /\ j \in mem /\ status[j] \in Terminal => Agrees(j) \/ \E t \in Threads : Saves(t, j)
  /\ j \in mem /\ status[j] = "completed" /\ done[j] =>
       disk[j] # NoFile /\ disk[j].status = "completed"

CalmInv == /\ WaitInv /\ EndInv /\ CreateInv /\ HandsInv /\ ControlInv
           /\ LocalInv /\ SaverInv /\ PayloadInv /\ MemoryInv /\ DiskInv
CalmOK == Spent /\ (Calm => CalmInv)

-----------------------------------------------------------------------------
(***************************************************************************)
(* What a step of one thread keeps: who works on what (ControlKept), and   *)
(* memory and disk (DataKept).                                             *)
(***************************************************************************)

Others(t) == \A u \in Threads \ {t} : th'[u] = th[u]

(* A thread that does not move stays where it is. *)
LEMMA SameThread ==
  ASSUME NEW u, th'[u] = th[u]
  PROVE  /\ Creating(u)' <=> Creating(u)
         /\ Waiting(u)' <=> Waiting(u)
         /\ Ending(u)' <=> Ending(u)
         /\ Busy(u)' <=> Busy(u)
         /\ On(u)' <=> On(u)
         /\ Grafting(u)' <=> Grafting(u)
         /\ \A x : Saves(u, x)' <=> Saves(u, x)
BY DEF Creating, Waiting, Ending, Grafting, Busy, On, Saves

(* The places of a thread. *)
LEMMA Places ==
  ASSUME NEW u
  PROVE  /\ On(u) <=> Busy(u) \/ Waiting(u)
         /\ Creating(u) \/ Ending(u) => Busy(u)
         /\ ~ (Busy(u) /\ Waiting(u)) /\ ~ (Creating(u) /\ Ending(u))
         /\ \A x : Saves(u, x) => Busy(u)
         /\ th[u].pc \in {"start", "created"} => Creating(u)
BY DEF Creating, Waiting, Ending, Grafting, Busy, On, Saves

(* The job of a thread that is on is a run. *)
LEMMA OnJob ==
  ASSUME TypeInv, NEW t \in Threads, On(t)
  PROVE  th[t].job \in Jobs
BY DEF TypeInv, ThreadOK, On, Busy, Waiting, Working, PCs

(* A step of t that brings it to no new place keeps who works on what. *)
LEMMA ControlKept ==
  ASSUME TypeInv, SlotInv, CalmInv, TypeInv', NEW t \in Threads, Others(t),
         th[t].pc # "start", th'[t].pc \notin {"kill", "join", "start"},
         th'[t].pc = "unlink" => th'[t].job \notin mem',
         On(t)' => /\ On(t) /\ th'[t].job = th[t].job
                   /\ Waiting(t) <=> Waiting(t)'
                   /\ Creating(t) <=> Creating(t)',
         Creating(t)' =>
           /\ th'[t].want = "none"
           /\ th'[t].pc \in {"write", "replace"} => th'[t].tgt = th'[t].job,
         Ending(t)' => Ending(t) /\ (t \in Clients => th'[t].res = {}),
         \A u \in Threads : Waiting(u)' \/ Ending(u)' \/ Creating(u)' =>
           status'[th'[u].job] = status[th'[u].job],
         \A u \in Threads : On(u)' => (done'[th'[u].job] => done[th'[u].job]),
         \A j \in Jobs : done'[j] => j \in issued,
         \A u \in Threads : th'[u].pc = "stop" => gpu'[th'[u].job],
         \A j \in Jobs : events'[j] # "empty" => events[j] # "empty",
         UNCHANGED <<proc, parent, issued>>, mem' \subseteq mem
  PROVE  WaitInv' /\ EndInv' /\ CreateInv' /\ HandsInv' /\ ControlInv'
<1>1. \A u \in Threads \ {t} :
        /\ th'[u] = th[u]
        /\ Creating(u)' <=> Creating(u)
        /\ Waiting(u)' <=> Waiting(u)
        /\ Ending(u)' <=> Ending(u)
        /\ Busy(u)' <=> Busy(u)
        /\ On(u)' <=> On(u)
  BY SameThread DEF Others
<1>2. /\ Busy(t)' => Busy(t)
      /\ Creating(t)' => Creating(t) /\ On(t)' 
      /\ Waiting(t)' => Waiting(t) /\ On(t)'
      /\ Ending(t)' => On(t)'
  BY DEF Creating, Waiting, Ending, Grafting, Busy, On
<1>3. \A u \in Threads : Alone(u) => Alone(u)'
  BY <1>1, <1>2 DEF Alone
<1>4. \A u \in Threads : On(u)' => On(u) /\ th'[u].job = th[u].job
  BY <1>1
<1>5. \A u \in Threads : /\ Creating(u)' => Creating(u) /\ On(u)'
                         /\ Waiting(u)' => Waiting(u) /\ On(u)'
                         /\ Ending(u)' => Ending(u) /\ On(u)'
  BY <1>1, <1>2, Places
<1>6. WaitInv'
  BY <1>3, <1>4, <1>5 DEF CalmInv, WaitInv
<1>7. EndInv'
  <2> SUFFICES ASSUME NEW u \in Threads, Ending(u)'
               PROVE  /\ status'[th'[u].job] = "running"
                      /\ u \in Jobs => Alone(u)'
                      /\ u \notin Jobs => th'[u].res = {}
    BY DEF EndInv
  <2>1. Ending(u) /\ th'[u].job = th[u].job
    BY <1>4, <1>5
  <2>2. /\ status[th[u].job] = "running"
        /\ u \in Jobs => Alone(u)
        /\ u \notin Jobs => th[u].res = {}
    BY <2>1 DEF CalmInv, EndInv
  <2>3. u \notin Jobs => th'[u].res = {}
    BY <1>1, <2>2 DEF Threads
  <2>4. QED
    BY <1>3, <2>1, <2>2, <2>3
<1>8. CreateInv'
  <2> SUFFICES ASSUME NEW u \in Threads, Creating(u)'
               PROVE  /\ u \in Clients /\ th'[u].want = "none"
                      /\ th'[u].pc \in {"write", "replace"} => th'[u].tgt = th'[u].job
                      /\ IF th'[u].pc = "start" THEN proc'[th'[u].job] = "none"
                         ELSE /\ status'[th'[u].job] = "running"
                              /\ proc'[th'[u].job] = "alive"
    BY DEF CreateInv
  <2>1. Creating(u) /\ th'[u].job = th[u].job
    BY <1>4, <1>5
  <2>2. /\ u \in Clients /\ th[u].want = "none"
        /\ th[u].pc \in {"write", "replace"} => th[u].tgt = th[u].job
        /\ IF th[u].pc = "start" THEN proc[th[u].job] = "none"
           ELSE status[th[u].job] = "running" /\ proc[th[u].job] = "alive"
    BY <2>1 DEF CalmInv, CreateInv
  <2>3. th'[u].pc = "start" <=> th[u].pc = "start"
    BY <1>1
  <2>4. /\ th'[u].want = "none"
        /\ th'[u].pc \in {"write", "replace"} => th'[u].tgt = th'[u].job
    BY <1>1, <2>2
  <2>5. QED
    BY <2>1, <2>2, <2>3, <2>4
<1>9. HandsInv'
  <2>1. \A u \in Threads : On(u)' =>
          (Waiting(u) <=> Waiting(u)') /\ (Creating(u) <=> Creating(u)')
    BY <1>1
  <2>2. \A u \in Threads : th'[u].pc = "start" => th[u].pc = "start"
    BY <1>1
  <2>3. \A u, v \in Threads : On(u)' /\ On(v)' /\ Hands(u, v) => Hands(u, v)'
    BY <2>1, <2>2 DEF Hands
  <2>4. QED
    BY <1>4, <2>3 DEF CalmInv, HandsInv
<1>10. ControlInv'
  <2>1. \A u \in Threads : /\ th'[u].pc \notin {"kill", "join"}
                           /\ On(u)' => ~ done'[th'[u].job]
    BY <1>1, <1>4 DEF CalmInv, ControlInv
  <2>2. \A u \in Threads : th'[u].pc = "unlink" => th'[u].job \notin mem'
    BY <1>1 DEF CalmInv, ControlInv
  <2>3. QED
    BY <2>1, <2>2 DEF CalmInv, ControlInv
<1>11. QED
  BY <1>6, <1>7, <1>8, <1>9, <1>10

(* A step of t that is no save, before or after, and leaves memory and disk
   alone keeps the data, but for what done says. *)
LEMMA DataKept ==
  ASSUME TypeInv, CalmInv, TypeInv', NEW t \in Threads, Others(t),
         \A x \in Jobs : ~ Saves(t, x) /\ ~ Saves(t, x)',
         th[t].pc # "setresult", th'[t].pc # "setresult",
         LocalOK(t)',
         Ending(t)' \/ th'[t].pc \in {"start", "created"} =>
            \A u \in Threads \ {t} : ~ Saves(u, th'[t].job),
         UNCHANGED <<status, result, tmp>>, mem' \subseteq mem,
         \A j \in Jobs : disk'[j] = disk[j] \/ (disk'[j] = NoFile /\ j \notin mem'),
         \A j \in Jobs : j \in mem' /\ status[j] = "completed" /\ done'[j] /\ ~ done[j] =>
            disk[j] # NoFile /\ disk[j].status = "completed"
  PROVE  LocalInv' /\ SaverInv' /\ PayloadInv' /\ MemoryInv' /\ DiskInv'
<1>1. \A u \in Threads \ {t} :
        /\ th'[u] = th[u]
        /\ Ending(u)' <=> Ending(u)
        /\ Grafting(u)' <=> Grafting(u)
        /\ \A x : Saves(u, x)' <=> Saves(u, x)
  BY SameThread DEF Others
<1>2. LocalInv'
  <2>1. \A u \in Threads \ {t} : LocalOK(u)
    BY DEF CalmInv, LocalInv, LocalOK
  <2>2. \A u \in Threads \ {t} : LocalOK(u)'
    BY <1>1, <2>1 DEF LocalOK, Merged
  <2>3. QED
    BY <2>2 DEF LocalInv, LocalOK
<1>3. \A u \in Threads, x \in Jobs : Saves(u, x)' <=> Saves(u, x)
  BY <1>1
<1>4. SaverInv'
  <2>1. \A u, v \in Threads, x \in Jobs : Saves(u, x)' /\ Saves(v, x)' => u = v
    BY <1>3 DEF CalmInv, SaverInv
  <2>2. ASSUME NEW u \in Threads, NEW v \in Threads, 
               Ending(u)' \/ th'[u].pc \in {"start", "created"}
        PROVE  ~ Saves(v, th'[u].job)
    <3>0. th'[u].job \in Jobs
      BY <2>2 DEF TypeInv, ThreadOK, Ending, Grafting, Working, PCs
    <3>1. CASE u # t
      BY <1>1, <2>2, <3>1 DEF CalmInv, SaverInv
    <3>2. CASE u = t
      BY <2>2, <3>0, <3>2
    <3>3. QED
      BY <3>1, <3>2
  <2>3. ASSUME NEW u \in Threads, NEW v \in Threads, 
               Ending(u)' \/ th'[u].pc \in {"start", "created"}
        PROVE  ~ Saves(v, th[u].job)'
    <3>1. th'[u].job \in Jobs
      BY <2>3 DEF TypeInv, ThreadOK, Ending, Grafting, Working, PCs
    <3>2. \A x \in Jobs : Saves(v, x)' <=> Saves(v, x)
      BY <1>3
    <3>3. ~ Saves(v, th'[u].job)
      BY <2>2, <2>3
    <3>4. QED
      BY <3>1, <3>2, <3>3 DEF Saves
  <2>4. QED
    BY <2>1, <2>3 DEF SaverInv
<1>5. PayloadInv'
  <2>1. \A u \in Threads \ {t} :
          /\ th[u].pc = "write" => th[u].snap = Now(th[u].tgt)
          /\ th[u].pc = "replace" => tmp[th[u].tgt] = Now(th[u].tgt)
    BY DEF CalmInv, PayloadInv
  <2>2. th'[t].pc \notin {"write", "replace"}
    BY DEF Saves, TypeInv, ThreadOK
  <2>3. QED
    BY <1>1, <2>1, <2>2 DEF PayloadInv, Now
<1>6. MemoryInv'
  <2>1. \A u \in Threads : th'[u].pc = "setresult" <=> th[u].pc = "setresult"
    BY <1>1
  <2>2. \A u \in Threads : th[u].pc = "setresult" => th'[u].job = th[u].job
    BY <1>1
  <2>3. QED
    BY <2>1, <2>2 DEF CalmInv, MemoryInv, Fits
<1>7. DiskInv'
  <2> SUFFICES ASSUME NEW j \in Jobs
               PROVE  /\ disk'[j] # NoFile => Fits(j, disk'[j].status, disk'[j].result)
                      /\ j \in mem' /\ status'[j] \in Terminal =>
                            Agrees(j)' \/ \E u \in Threads : Saves(u, j)'
                      /\ j \in mem' /\ status'[j] = "completed" /\ done'[j] =>
                            disk'[j] # NoFile /\ disk'[j].status = "completed"
    BY DEF DiskInv
  <2>1. /\ disk[j] # NoFile => Fits(j, disk[j].status, disk[j].result)
        /\ j \in mem /\ status[j] \in Terminal =>
              Agrees(j) \/ \E u \in Threads : Saves(u, j)
        /\ j \in mem /\ status[j] = "completed" /\ done[j] =>
              disk[j] # NoFile /\ disk[j].status = "completed"
    BY DEF CalmInv, DiskInv
  <2>2. disk'[j] # NoFile => Fits(j, disk'[j].status, disk'[j].result)
    BY <2>1
  <2>3. ASSUME j \in mem', status'[j] \in Terminal
        PROVE  Agrees(j)' \/ \E u \in Threads : Saves(u, j)'
    <3>1. Agrees(j) => Agrees(j)'
      BY <2>3 DEF Agrees
    <3>2. QED
      BY <1>3, <2>1, <2>3, <3>1
  <2>4. QED
    BY <2>1, <2>2, <2>3
<1>8. QED
  BY <1>2, <1>4, <1>5, <1>6, <1>7

(* Where no job is being worked on. *)
Outside == PCs \ {"start", "created", "wait", "check", "gpu", "stop", "merge", "graft",
                  "set", "setresult", "write", "replace", "announce"}
(* A thread outside works on nothing. *)
LEMMA OutsideOff ==
  ASSUME NEW u
  PROVE  /\ th[u].pc \in Outside =>
              /\ ~ On(u) /\ ~ Busy(u) /\ ~ Waiting(u) /\ ~ Creating(u) /\ ~ Ending(u)
              /\ ~ Grafting(u) /\ \A x : ~ Saves(u, x)
         /\ th'[u].pc \in Outside =>
              /\ ~ On(u)' /\ ~ Busy(u)' /\ ~ Waiting(u)' /\ ~ Creating(u)' /\ ~ Ending(u)'
              /\ ~ Grafting(u)' /\ \A x : ~ Saves(u, x)'
BY DEF Outside, On, Busy, Waiting, Creating, Ending, Grafting, Saves

(* A thread that is not saving steps outside, or stays there. *)
LEMMA StepOutside ==
  ASSUME TypeInv, SlotInv, CalmInv, TypeInv', NEW t \in Threads, Others(t),
         th[t].pc \notin {"start", "setresult", "write", "replace"},
         th'[t].pc \in Outside \ {"kill", "join"},
         th'[t].pc = "unlink" => th'[t].job \notin mem',
         UNCHANGED <<status, result, tmp, gpu, proc, parent, issued, done>>,
         \A j \in Jobs : events'[j] # "empty" => events[j] # "empty",
         mem' \subseteq mem,
         \A j \in Jobs : disk'[j] = disk[j] \/ (disk'[j] = NoFile /\ j \notin mem')
  PROVE  CalmInv'
<1>1. /\ ~ On(t)' /\ ~ Busy(t)' /\ ~ Waiting(t)' /\ ~ Creating(t)' /\ ~ Ending(t)'
      /\ ~ Grafting(t)' /\ \A x : ~ Saves(t, x)'
  BY OutsideOff
<1>2. \A x \in Jobs : ~ Saves(t, x)
  BY DEF Saves
<1>3. \A u \in Threads : th'[u].pc = "stop" => gpu'[th'[u].job]
  BY DEF Outside, Others, CalmInv, ControlInv
<1>4. \A j \in Jobs : done'[j] => j \in issued
  BY DEF CalmInv, ControlInv
<1>5. WaitInv' /\ EndInv' /\ CreateInv' /\ HandsInv' /\ ControlInv'
  BY <1>1, <1>3, <1>4, ControlKept DEF Outside
<1>6. th'[t].pc \notin {"setresult", "merge", "graft", "start", "created"}
  BY DEF Outside
<1>7. LocalOK(t)'
  BY <1>1, <1>6 DEF LocalOK
<1>8. LocalInv' /\ SaverInv' /\ PayloadInv' /\ MemoryInv' /\ DiskInv'
  BY <1>1, <1>2, <1>6, <1>7, DataKept
<1>9. QED
  BY <1>5, <1>8 DEF CalmInv

(* Two threads that wait, or are in _finish before the status is set, for jobs
   that run, are one: at most one job runs. *)
LEMMA OneRuns ==
  ASSUME SlotInv, CalmInv, TypeInv, NEW t \in Threads, NEW u \in Threads,
         Waiting(t) \/ Ending(t), Waiting(u) \/ Ending(u)
  PROVE  t = u
<1>1. status[th[t].job] = "running" /\ status[th[u].job] = "running"
  BY DEF CalmInv, WaitInv, EndInv
<1>2. On(t) /\ On(u) /\ ~ Creating(t) /\ ~ Creating(u)
  BY Places DEF Waiting, Creating
<1>3. th[t].job \in Jobs /\ th[u].job \in Jobs
  BY <1>2, OnJob
<1>4. th[t].job = th[u].job
  BY <1>1, <1>3 DEF SlotInv, AtMostOneActive, Active
<1>5. QED
  BY <1>2, <1>4 DEF CalmInv, HandsInv, Hands

(* The steps of _finish before the graft, and the entry of a monitor into it. *)
LEMMA StepEnding ==
  ASSUME TypeInv, SlotInv, CalmInv, TypeInv', NEW t \in Threads, Others(t),
         th[t].pc \in {"wait", "check", "gpu", "stop", "merge"},
         Waiting(t) => proc[th[t].job] # "alive",
         th'[t].pc \in {"gpu", "stop", "merge", "graft", "set"},
         th'[t].job = th[t].job,
         th'[t].pc = "stop" => gpu'[th[t].job],
         t \in Clients => th'[t].res = {},
         LocalOK(t)',
         UNCHANGED <<status, result, files, proc, parent, issued, done, mem>>,
         \A j \in Jobs : j # th[t].job => gpu'[j] = gpu[j],
         \A j \in Jobs : events'[j] # "empty" => events[j] # "empty"
  PROVE  CalmInv'
<1> USE DEF files
<1>1. /\ On(t) /\ On(t)' /\ ~ Creating(t) /\ ~ Creating(t)' /\ Ending(t)' /\ Busy(t)'
      /\ Waiting(t) \/ Ending(t)
      /\ ~ Waiting(t)' /\ ~ Grafting(t)
      /\ \A x : ~ Saves(t, x) /\ ~ Saves(t, x)'
  BY DEF On, Busy, Waiting, Creating, Ending, Grafting, Saves
<1>2. th[t].job \in Jobs
  BY <1>1, OnJob
<1>3. \A u \in Threads : th'[u].pc = "stop" => gpu'[th'[u].job]
  <2> SUFFICES ASSUME NEW u \in Threads \ {t}, th[u].pc = "stop"
               PROVE  gpu'[th[u].job]
    BY DEF Others
  <2>1. On(u) /\ ~ Creating(u) /\ ~ Waiting(u)
    BY DEF On, Busy, Creating, Waiting
  <2>2. th[u].job \in Jobs /\ th[u].job # th[t].job
    BY <1>1, <2>1, OnJob DEF CalmInv, HandsInv, Hands
  <2>3. QED
    BY <2>2 DEF CalmInv, ControlInv
<1>4. \A u \in Threads \ {t} : ~ Waiting(u) /\ ~ Ending(u)
  BY <1>1, OneRuns
<1>5. \A u \in Threads \ {t} : ~ Saves(u, th[t].job)
  <2>1. CASE Ending(t)
    BY <2>1 DEF CalmInv, SaverInv
  <2>2. CASE Waiting(t)
    BY <2>2, Places DEF CalmInv, WaitInv, Alone
  <2>3. QED
    BY <1>1, <2>1, <2>2
<1>6. LocalInv' /\ SaverInv' /\ PayloadInv' /\ MemoryInv' /\ DiskInv'
  BY <1>1, <1>5, DataKept
<1>7. CASE Ending(t)
  <2>1. ~ Waiting(t)
    BY <1>7, Places
  <2>2. \A j \in Jobs : done'[j] => j \in issued
    BY DEF CalmInv, ControlInv
  <2>3. WaitInv' /\ EndInv' /\ CreateInv' /\ HandsInv' /\ ControlInv'
    BY <1>1, <1>3, <1>7, <2>1, <2>2, ControlKept
  <2>4. QED
    BY <1>6, <2>3 DEF CalmInv
<1>8. CASE Waiting(t)
  <2>1. t \in Jobs /\ status[th[t].job] = "running" /\ Alone(t)
    BY <1>8 DEF CalmInv, WaitInv
  <2>2. \A u \in Threads \ {t} : ~ On(u) /\ ~ On(u)' /\ ~ Busy(u)'
    BY <1>4, <2>1, SameThread DEF Alone, Others, On
  <2>3. \A u \in Threads \ {t} : ~ Waiting(u)' /\ ~ Ending(u)' /\ ~ Creating(u)'
    BY <2>2, Places, SameThread DEF Others
  <2>4. WaitInv' /\ CreateInv'
    BY <1>1, <2>3 DEF WaitInv, CreateInv
  <2>5. EndInv'
    BY <2>1, <2>2, <2>3 DEF EndInv, Alone
  <2>6. HandsInv'
    BY <2>2 DEF HandsInv
  <2>7. ControlInv'
    <3>1. \A u \in Threads : /\ th'[u].pc \notin {"kill", "join"}
                             /\ th'[u].pc = "unlink" => th'[u].job \notin mem'
      BY DEF Others, CalmInv, ControlInv
    <3>2. \A u \in Threads : On(u)' => ~ done'[th'[u].job]
      BY <1>1, <2>2 DEF CalmInv, ControlInv
    <3>3. QED
      BY <1>3, <3>1, <3>2 DEF CalmInv, ControlInv
  <2>8. QED
    BY <1>6, <2>4, <2>5, <2>6, <2>7 DEF CalmInv
<1>9. QED
  BY <1>1, <1>7, <1>8

-----------------------------------------------------------------------------
(***************************************************************************)
(* The steps of the environment, of the requests and of the monitors.      *)
(***************************************************************************)

(* A killed process leaves every thread at rest and the records to agree. *)
LEMMA CalmRestart ==
  ASSUME TypeInv, SlotInv, CalmInv, Restart
  PROVE  CalmInv'
<1> USE DEF files
<1>1. \A u \in Threads : th'[u] = Rest
  BY DEF Restart
<1>2. \A u \in Threads : th'[u].pc \in Outside /\ th'[u].pc = "idle"
  BY <1>1 DEF Rest, Outside, PCs
<1>3. \A u \in Threads : /\ ~ On(u)' /\ ~ Waiting(u)' /\ ~ Creating(u)' /\ ~ Ending(u)'
                         /\ ~ Grafting(u)' /\ \A x : ~ Saves(u, x)'
  BY <1>2, OutsideOff
<1>4. WaitInv' /\ EndInv' /\ CreateInv' /\ HandsInv'
  BY <1>3 DEF WaitInv, EndInv, CreateInv, HandsInv
<1>5. ControlInv'
  <2>1. /\ \A j \in Jobs : events'[j] = "empty" /\ (done'[j] => disk[j] # NoFile)
        /\ UNCHANGED <<parent, issued>>
    BY DEF Restart
  <2>2. \A j \in Jobs : /\ done'[j] => j \in issued
                        /\ proc'[j] # "none" => proc[j] # "none"
    BY <2>1 DEF Restart, SlotInv, Bookkeeping
  <2>3. QED
    BY <1>2, <1>3, <2>1, <2>2 DEF CalmInv, ControlInv
<1>6. LocalInv' /\ SaverInv' /\ PayloadInv'
  BY <1>2, <1>3 DEF LocalInv, LocalOK, SaverInv, PayloadInv
<1>7. \A j \in Jobs : \/ /\ disk[j] = NoFile /\ status'[j] = "none" /\ result'[j] = {}
                         /\ j \notin mem'
                      \/ /\ disk[j] # NoFile /\ status'[j] = Recovered(disk[j].status)
                         /\ result'[j] = disk[j].result
  BY DEF Restart
<1>8. UNCHANGED disk
  BY DEF Restart
<1>9. \A j \in Jobs : disk[j] # NoFile => Fits(j, disk[j].status, disk[j].result)
  BY DEF CalmInv, DiskInv
<1>10. MemoryInv'
  BY <1>2, <1>7, <1>9 DEF MemoryInv, Fits, Recovered, Active
<1>11. DiskInv'
  <2> SUFFICES ASSUME NEW j \in Jobs
               PROVE  /\ disk'[j] # NoFile => Fits(j, disk'[j].status, disk'[j].result)
                      /\ j \in mem' /\ status'[j] \in Terminal => Agrees(j)'
                      /\ j \in mem' /\ status'[j] = "completed" /\ done'[j] =>
                            disk'[j] # NoFile /\ disk'[j].status = "completed"
    BY DEF DiskInv
  <2>1. disk'[j] # NoFile => Fits(j, disk'[j].status, disk'[j].result)
    BY <1>8, <1>9
  <2>2. j \in mem' => Agrees(j)'
    BY <1>7, <1>8 DEF Agrees
  <2>3. j \in mem' /\ status'[j] = "completed" =>
          disk'[j] # NoFile /\ disk'[j].status = "completed"
    BY <1>7, <1>8 DEF Recovered, Active
  <2>4. QED
    BY <2>1, <2>2, <2>3
<1>12. QED
  BY <1>4, <1>5, <1>6, <1>10, <1>11 DEF CalmInv

(* A worker that ends finds no thread between two waits. *)
LEMMA CalmWorker ==
  ASSUME TypeInv, SlotInv, Calm, CalmInv, NEW j \in Jobs, Report(j) \/ Exit(j)
  PROVE  CalmInv'
<1> USE DEF files, objects
<1>0. proc[j] # "none"
  BY DEF Report, Exit, Running
<1>1. /\ UNCHANGED <<mem, issued, objects, files, th>>
      /\ \A k \in Jobs \ {j} : proc'[k] = proc[k]
      /\ proc'[j] \notin {"none", "alive"}
      /\ \A k \in Jobs \ {j} : events'[k] = events[k]
      /\ events'[j] = events[j] \/ proc[j] = "alive"
  BY DEF Report, Exit, TypeInv, TypeOK
<1>2. proc[j] = "alive" => \A u \in Threads : ~ Busy(u)
  BY DEF Report, Exit, MayReport, Calm
<1>3. \A u \in Threads : /\ Waiting(u)' <=> Waiting(u)
                         /\ Creating(u)' <=> Creating(u)
                         /\ Ending(u)' <=> Ending(u)
                         /\ Grafting(u)' <=> Grafting(u)
                         /\ On(u)' <=> On(u)
                         /\ Busy(u)' <=> Busy(u)
                         /\ \A x : Saves(u, x)' <=> Saves(u, x)
  BY <1>1, SameThread
<1>4. \A u \in Threads : Alone(u) => Alone(u)'
  BY <1>3 DEF Alone
<1>5. WaitInv'
  <2> SUFFICES ASSUME NEW t \in Threads, Waiting(t)
               PROVE  /\ t \in Jobs /\ status[th[t].job] = "running"
                      /\ proc'[th[t].job] # "alive" => Alone(t)
    BY <1>1, <1>3, <1>4 DEF WaitInv
  <2>1. /\ t \in Jobs /\ status[th[t].job] = "running"
        /\ proc[th[t].job] # "alive" => Alone(t)
    BY DEF CalmInv, WaitInv
  <2>2. th[t].job \in Jobs
    BY OnJob DEF On
  <2>3. proc[j] = "alive" => Alone(t)
    BY <1>2 DEF Alone
  <2>4. QED
    BY <1>1, <2>1, <2>2, <2>3
<1>6. EndInv' /\ HandsInv'
  BY <1>1, <1>3, <1>4 DEF CalmInv, EndInv, HandsInv, Hands
<1>7. CreateInv'
  <2> SUFFICES ASSUME NEW t \in Threads, Creating(t)
               PROVE  /\ t \in Clients /\ th[t].want = "none"
                      /\ th[t].pc \in {"write", "replace"} => th[t].tgt = th[t].job
                      /\ IF th[t].pc = "start" THEN proc'[th[t].job] = "none"
                         ELSE /\ status[th[t].job] = "running"
                              /\ proc'[th[t].job] = "alive"
    BY <1>1, <1>3 DEF CreateInv
  <2>1. /\ t \in Clients /\ th[t].want = "none"
        /\ th[t].pc \in {"write", "replace"} => th[t].tgt = th[t].job
        /\ IF th[t].pc = "start" THEN proc[th[t].job] = "none"
           ELSE status[th[t].job] = "running" /\ proc[th[t].job] = "alive"
    BY DEF CalmInv, CreateInv
  <2>2. Busy(t) /\ th[t].job \in Jobs
    BY Places, OnJob
  <2>3. th[t].job # j
    BY <1>0, <1>2, <2>1, <2>2
  <2>4. QED
    BY <1>1, <2>1, <2>2, <2>3
<1>8. ControlInv'
  BY <1>0, <1>1, <1>3 DEF CalmInv, ControlInv
<1>9. LocalInv' /\ SaverInv' /\ PayloadInv'
  BY <1>1, <1>3 DEF CalmInv, LocalInv, LocalOK, SaverInv, PayloadInv, Now, Merged
<1>10. MemoryInv' /\ DiskInv'
  BY <1>1, <1>3 DEF CalmInv, MemoryInv, DiskInv, Agrees
<1>11. QED
  BY <1>5, <1>6, <1>7, <1>8, <1>9, <1>10 DEF CalmInv

(* A thread about to set a result has a run. *)
LEMMA LocalJob ==
  ASSUME TypeInv
  PROVE  \A t \in Threads : th[t].pc = "setresult" => th[t].job \in Jobs
BY DEF TypeInv, ThreadOK, Working, PCs

(* A fresh run meets no other that is active, and nobody knows it. *)
LEMMA CalmCreate ==
  ASSUME TypeInv, SlotInv, Calm, Spent, CalmInv, TypeInv',
         NEW c \in Clients, NEW j \in Jobs, Create(c, j)
  PROVE  CalmInv'
<1> USE DEF files, objects, worker
<1> DEFINE r == [Rest EXCEPT !.pc = "start", !.job = j]
<1>0. c \in Threads
  BY DEF Threads
<1>1. /\ lock = "free" /\ ActiveJobs = {} /\ j \notin issued
      /\ issued' = issued \cup {j} /\ mem' = mem \cup {j}
      /\ status' = [status EXCEPT ![j] = "queued"]
      /\ parent' = [parent EXCEPT ![j] = th[c].tgt]
      /\ UNCHANGED <<result, gpu, done, proc, events, tmp>>
      /\ th[c].pc \in {"idle", "create"}
  BY DEF Create
<1>2. /\ disk' = [disk EXCEPT ![j] = [status |-> "queued", result |-> {}]]
      /\ Become(c, r)
  <2>1. ~ Spend("io")
    BY DEF Spend, Spent, Calm
  <2>2. QED
    BY <2>1 DEF Create
<1>3. /\ Others(c) /\ th'[c] = r /\ r.pc = "start" /\ r.job = j /\ r.tgt = NoJob
      /\ r.want = "none"
  BY <1>0, <1>2, Moves DEF Others, Rest
<1> HIDE DEF r
<1>4. \A u \in Threads : th[u].job # j /\ th[u].tgt # j
  BY <1>1, ThreadAssumption DEF SlotInv, Bookkeeping, Known
<1>5. \A k \in Jobs : status[k] \notin Active
  BY <1>1 DEF ActiveJobs, SlotInv, Bookkeeping
<1>6. \A u \in Threads : ~ Waiting(u) /\ ~ Ending(u) /\ ~ Creating(u)
  <2> SUFFICES ASSUME NEW u \in Threads, Waiting(u) \/ Ending(u) \/ Creating(u)
               PROVE  FALSE
    OBVIOUS
  <2>1. th[u].job \in Jobs
    BY Places, OnJob
  <2>2. CASE th[u].pc = "start"
    <3>1. u \in Clients
      BY <2>2, Places DEF CalmInv, CreateInv
    <3>2. lock = u
      BY <2>2, <3>1 DEF SlotInv, CreatorExclusive
    <3>3. QED
      BY <1>1, <3>1, <3>2, ThreadAssumption
  <2>3. CASE th[u].pc # "start"
    <3>1. status[th[u].job] = "running"
      BY <2>3 DEF CalmInv, WaitInv, EndInv, CreateInv
    <3>2. QED
      BY <1>5, <2>1, <3>1 DEF Active
  <2>4. QED
    BY <2>2, <2>3
<1>7. /\ Creating(c)' /\ ~ Ending(c)' /\ ~ Waiting(c)' /\ ~ Grafting(c)'
      /\ \A x : ~ Saves(c, x)'
  BY <1>3 DEF Creating, Ending, Waiting, Grafting, Saves
<1>8. \A u \in Threads \ {c} :
        /\ th'[u] = th[u]
        /\ On(u)' <=> On(u)
        /\ ~ Waiting(u)' /\ ~ Ending(u)' /\ ~ Creating(u)' /\ ~ Grafting(u)'
        /\ \A x : Saves(u, x)' <=> Saves(u, x)
  BY <1>3, <1>6, SameThread DEF Others, Ending
<1>9. WaitInv' /\ EndInv'
  BY <1>3, <1>7, <1>8 DEF WaitInv, EndInv
<1>9a. CreateInv'
  <2>1. proc'[j] = "none"
    BY <1>1 DEF CalmInv, ControlInv
  <2>2. QED
    BY <1>3, <1>7, <1>8, <2>1 DEF CreateInv
<1>10. HandsInv'
  <2>1. \A u, v \in Threads : u # v /\ On(u)' /\ On(v)' => th'[u].job # th'[v].job
    BY <1>3, <1>4, <1>6, <1>8 DEF CalmInv, HandsInv, Hands
  <2>2. QED
    BY <2>1 DEF HandsInv
<1>11. ControlInv'
  <2>1. \A u \in Threads : /\ th'[u].pc \notin {"kill", "join"}
                           /\ th'[u].pc = "stop" => gpu'[th'[u].job]
    BY <1>1, <1>3, <1>8 DEF CalmInv, ControlInv
  <2>2. \A u \in Threads : On(u)' => ~ done'[th'[u].job]
    BY <1>1, <1>3, <1>8 DEF CalmInv, ControlInv
  <2>3. \A u \in Threads : th'[u].pc = "unlink" => th'[u].job \notin mem'
    BY <1>1, <1>3, <1>4, <1>8 DEF CalmInv, ControlInv
  <2>4. \A k \in Jobs : /\ done'[k] => k \in issued'
                        /\ proc'[k] # "none" => k \in issued'
                        /\ events'[k] # "empty" => proc'[k] \notin {"none", "alive"}
    BY <1>1 DEF CalmInv, ControlInv
  <2>5. \A k \in Jobs : parent'[k] # k
    BY <1>0, <1>1, <1>4 DEF CalmInv, ControlInv, TypeInv, TypeOK
  <2>6. QED
    BY <2>1, <2>2, <2>3, <2>4, <2>5 DEF ControlInv
<1>12. \A u \in Threads : th'[u].pc = "setresult" <=> th[u].pc = "setresult"
  BY <1>1, <1>3, <1>8
<1>13. LocalInv'
  <2>1. \A u \in Threads : /\ ~ Ending(u)' /\ ~ Grafting(u)'
                           /\ th'[u].pc \notin {"merge", "graft"}
    BY <1>7, <1>8 DEF Ending
  <2>2. \A u \in Threads : th'[u].pc = "setresult" => th'[u] = th[u]
    BY <1>3, <1>8
  <2>3. QED
    BY <1>1, <1>4, <1>12, <2>1, <2>2, LocalJob DEF CalmInv, LocalInv, LocalOK
<1>14. SaverInv'
  <2>0. \A u \in Threads, x \in Jobs : Saves(u, x)' => Saves(u, x)
    BY <1>7, <1>8
  <2>1. \A u, v \in Threads, x \in Jobs : Saves(u, x)' /\ Saves(v, x)' => u = v
    BY <2>0 DEF CalmInv, SaverInv
  <2>2. \A u \in Threads : ~ Saves(u, j)'
    BY <1>4, <2>0 DEF Saves
  <2>3. \A u \in Threads : Ending(u)' \/ th'[u].pc \in {"start", "created"} =>
          th'[u].job = j
    BY <1>3, <1>7, <1>8 DEF Creating
  <2>4. \A u, v \in Threads :
          Ending(u)' \/ th'[u].pc \in {"start", "created"} => ~ Saves(v, th[u].job)'
    BY <2>2, <2>3 DEF Saves
  <2>5. QED
    BY <2>1, <2>4 DEF SaverInv
<1>15. PayloadInv'
  <2>1. \A u \in Threads : th'[u].pc \in {"write", "replace"} =>
          th'[u] = th[u] /\ th[u].tgt \in Jobs /\ th[u].tgt # j
    BY <1>3, <1>4, <1>8 DEF TypeInv, ThreadOK
  <2>2. QED
    BY <1>1, <2>1 DEF CalmInv, PayloadInv, Now
<1>16. MemoryInv'
  <2>1. status[j] = "none"
    BY <1>1 DEF SlotInv, Bookkeeping
  <2>2. \A k \in Jobs : status'[k] = IF k = j THEN "queued" ELSE status[k]
    BY <1>1 DEF TypeInv, TypeOK
  <2>3. \A u \in Threads : th'[u].pc = "setresult" => th'[u].job = th[u].job
    BY <1>3, <1>8
  <2>4. \A k \in Jobs : (\E u \in Threads : th'[u].pc = "setresult" /\ th'[u].job = k)
                          <=> \E u \in Threads : th[u].pc = "setresult" /\ th[u].job = k
    BY <1>12, <2>3
  <2>5. QED
    BY <1>1, <2>1, <2>2, <2>4 DEF CalmInv, MemoryInv, Fits
<1>17. DiskInv'
  <2> SUFFICES ASSUME NEW k \in Jobs
               PROVE  /\ disk'[k] # NoFile => Fits(k, disk'[k].status, disk'[k].result)
                      /\ k \in mem' /\ status'[k] \in Terminal =>
                            Agrees(k)' \/ \E u \in Threads : Saves(u, k)'
                      /\ k \in mem' /\ status'[k] = "completed" /\ done'[k] =>
                            disk'[k] # NoFile /\ disk'[k].status = "completed"
    BY DEF DiskInv
  <2>1. CASE k = j
    <3>1. disk'[k] = [status |-> "queued", result |-> {}] /\ status'[k] = "queued"
      BY <1>1, <1>2, <2>1 DEF TypeInv, TypeOK
    <3>2. QED
      BY <3>1 DEF Fits, Terminal
  <2>2. CASE k # j
    <3>1. /\ disk'[k] = disk[k] /\ status'[k] = status[k]
          /\ k \in mem' => k \in mem
          /\ result'[k] = result[k] /\ done'[k] = done[k]
      BY <1>1, <1>2, <2>2 DEF TypeInv, TypeOK
    <3>2. \A u \in Threads : Saves(u, k) => Saves(u, k)'
      BY <1>1, <1>8 DEF Saves
    <3>3. Agrees(k) => Agrees(k)'
      BY <3>1 DEF Agrees
    <3>4. QED
      BY <3>1, <3>2, <3>3 DEF CalmInv, DiskInv
  <2>3. QED
    BY <2>1, <2>2
<1>18. QED
  BY <1>9, <1>9a, <1>10, <1>11, <1>13, <1>14, <1>15, <1>16, <1>17 DEF CalmInv

(* A creator between the insertion of its run and the start is alone with it. *)
LEMMA StarterAlone ==
  ASSUME TypeInv, SlotInv, CalmInv, NEW c \in Clients, th[c].pc = "start"
  PROVE  /\ c \in Threads /\ th[c].job \in Jobs /\ status[th[c].job] = "queued"
         /\ proc[th[c].job] = "none"
         /\ \A u \in Threads \ {c} :
              /\ ~ Waiting(u) /\ ~ Ending(u) /\ ~ Creating(u)
              /\ th[u].job # th[c].job
         /\ \A u \in Threads : ~ Saves(u, th[c].job)
<1>1. c \in Threads
  BY DEF Threads
<1>2. /\ lock = c /\ status[th[c].job] = "queued"
      /\ \A u \in Threads \ {c} : th[u].job # th[c].job
  BY DEF SlotInv, CreatorExclusive
<1>3. th[c].job \in Jobs
  BY <1>1, Places, OnJob
<1>4. \A u \in Threads : ~ Saves(u, th[c].job)
  BY <1>1 DEF CalmInv, SaverInv
<1>5. ASSUME NEW u \in Threads \ {c}, Waiting(u) \/ Ending(u) \/ Creating(u) PROVE FALSE
  <2>1. th[u].job \in Jobs
    BY <1>5, Places, OnJob
  <2>2. CASE th[u].pc = "start"
    <3>1. u \in Clients
      BY <2>2, Places DEF CalmInv, CreateInv
    <3>2. QED
      BY <1>2, <2>2, <3>1 DEF SlotInv, CreatorExclusive
  <2>3. CASE th[u].pc # "start"
    <3>1. status[th[u].job] = "running"
      BY <1>5, <2>3 DEF CalmInv, WaitInv, EndInv, CreateInv
    <3>2. QED
      BY <1>2, <1>3, <2>1, <3>1 DEF SlotInv, AtMostOneActive, Active
  <2>4. QED
    BY <2>2, <2>3
<1>6. proc[th[c].job] = "none"
  BY <1>1, Places DEF CalmInv, CreateInv
<1>7. QED
  BY <1>1, <1>2, <1>3, <1>4, <1>5, <1>6

(* A started run gets its monitor; one that cannot start is ended by its creator. *)
LEMMA CalmStart ==
  ASSUME TypeInv, SlotInv, CalmInv, TypeInv', NEW c \in Clients, Start(c)
  PROVE  CalmInv'
<1> USE DEF files, objects, worker
<1> DEFINE j == th[c].job
           m == [Rest EXCEPT !.pc = "wait", !.job = j]
<1>1. /\ th[c].pc = "start"
      /\ gpu' = [gpu EXCEPT ![j] = TRUE] /\ status' = [status EXCEPT ![j] = "running"]
      /\ UNCHANGED <<mem, issued, result, parent, done, events, disk, tmp>>
  BY DEF Start, At
<1>2. /\ c \in Threads /\ j \in Jobs /\ status[j] = "queued" /\ proc[j] = "none"
      /\ \A u \in Threads \ {c} :
           /\ ~ Waiting(u) /\ ~ Ending(u) /\ ~ Creating(u)
           /\ th[u].job # j
      /\ \A u \in Threads : ~ Saves(u, j)
  BY <1>1, StarterAlone
<1>3. j \in Threads /\ j # c
  BY <1>2, ThreadAssumption DEF Threads
<1>4. \/ /\ proc' = [proc EXCEPT ![j] = "alive"]
         /\ th'[c].pc = "created" /\ th'[c].job = j /\ th'[c].want = "none"
         /\ th'[j].pc = "wait" /\ th'[j].job = j
         /\ \A u \in Threads \ {c, j} : th'[u] = th[u]
      \/ /\ proc' = proc /\ Others(c)
         /\ th'[c].pc = "gpu" /\ th'[c].job = j /\ th'[c].want = "failed"
         /\ th'[c].res = {}
  <2>1. CASE /\ proc' = [proc EXCEPT ![j] = "alive"]
             /\ th' = [th EXCEPT ![c].pc = "created", ![j] = m]
    <3>1. th[c] \in ThreadState
      BY <1>2 DEF TypeInv, TypeOK
    <3>2. m.pc = "wait" /\ m.job = j
      BY DEF Rest
    <3> HIDE DEF m
    <3> DEFINE a == [th[c] EXCEPT !.pc = "created"]
    <3>3. a.pc = "created" /\ a.job = j /\ a.want = th[c].want
      BY <3>1 DEF ThreadState
    <3>4. th' = [th EXCEPT ![c] = a, ![j] = m]
      BY <2>1
    <3> HIDE DEF a
    <3>5. /\ th'[c] = a /\ th'[j] = m
          /\ \A u \in Threads \ {c, j} : th'[u] = th[u]
      BY <1>2, <1>3, <3>4 DEF TypeInv, TypeOK
    <3>6. th[c].want = "none"
      BY <1>1, <1>2, Places DEF CalmInv, CreateInv
    <3>7. QED
      BY <2>1, <3>2, <3>3, <3>5, <3>6
  <2>2. CASE proc' = proc /\ Become(c, Finishing(c, j, "failed", {}))
    <3>1. Others(c) /\ th'[c] = Finishing(c, j, "failed", {})
      BY <1>2, <2>2, Moves DEF Others
    <3>2. QED
      BY <1>2, <2>2, <3>1, FinishingType
  <2>3. QED
    BY <2>1, <2>2 DEF Start
<1> HIDE DEF m
<1>5. \A k \in Jobs : status'[k] = IF k = j THEN "running" ELSE status[k]
  BY <1>1 DEF TypeInv, TypeOK
<1>6. ~ On(j)
  <2>1. th[j].job \notin Jobs
    BY <1>2, <1>3, ThreadAssumption DEF SlotInv, Bookkeeping
  <2>2. QED
    BY <1>3, <2>1, OnJob
<1>7. ~ done[j] /\ result[j] = {}
  <2>1. ~ done[j]
    BY <1>1, <1>2, Places DEF CalmInv, ControlInv
  <2>2. result[j] = {}
    BY <1>2 DEF CalmInv, MemoryInv, Fits
  <2>3. QED
    BY <2>1, <2>2
<1> DEFINE M == {c} \cup (IF th'[c].pc = "created" THEN {j} ELSE {})
<1>8. \A u \in Threads \ M :
        /\ th'[u] = th[u] /\ th[u].job # j
        /\ On(u)' <=> On(u)
        /\ ~ Waiting(u)' /\ ~ Ending(u)' /\ ~ Creating(u)' /\ ~ Grafting(u)'
        /\ \A x : Saves(u, x)' <=> Saves(u, x)
  <2>1. \A u \in Threads \ M : th'[u] = th[u] /\ u # c
    BY <1>4 DEF Others
  <2>2. QED
    BY <1>2, <2>1, SameThread DEF Ending
<1>9. \A u \in M :
        /\ u \in Threads /\ th'[u].job = j /\ On(u)' /\ ~ Grafting(u)'
        /\ \A x : ~ Saves(u, x)'
        /\ th'[u].pc \in {"created", "wait", "gpu"}
        /\ Creating(u)' => /\ u \in Clients /\ proc'[j] = "alive"
                           /\ th'[u].want = "none"
        /\ Waiting(u)' => u \in Jobs /\ proc'[j] = "alive"
        /\ Ending(u)' => u \in Clients /\ th'[u].res = {} /\ th'[u].want = "failed"
  BY <1>2, <1>3, <1>4
  DEF On, Busy, Grafting, Saves, Creating, Waiting, Ending, TypeInv, TypeOK
<1>10. \A u, v \in M : u # v => Hands(u, v)' \/ Hands(v, u)'
  BY <1>3, <1>4 DEF Hands, Creating, Waiting
<1>10a. \A u \in M : th[u].pc # "setresult" /\ \A x : ~ Saves(u, x)
  BY <1>1, <1>6, Places DEF On, Busy, Saves
<1> HIDE DEF M, j
<1>11. WaitInv'
  BY <1>2, <1>5, <1>8, <1>9 DEF WaitInv
<1>12. EndInv'
  BY <1>2, <1>5, <1>8, <1>9, ThreadAssumption DEF EndInv
<1>13. CreateInv'
  BY <1>2, <1>5, <1>8, <1>9 DEF CreateInv
<1>14. HandsInv'
  <2>1. \A u, v \in Threads \ M : u # v /\ On(u)' /\ On(v)' => th'[u].job # th'[v].job
    <3>1. \A u, v \in Threads \ M : ~ Hands(u, v)
      BY <1>2, <1>8, SameThread DEF Hands
    <3>2. QED
      BY <1>8, <3>1 DEF CalmInv, HandsInv
  <2>2. \A u \in Threads \ M, v \in M : th'[u].job # th'[v].job
    BY <1>8, <1>9
  <2>3. QED
    BY <1>10, <2>1, <2>2 DEF HandsInv
<1>15. ControlInv'
  <2>1. \A u \in Threads : /\ th'[u].pc \notin {"kill", "join"}
                           /\ th'[u].pc = "unlink" => th'[u].job \notin mem'
    BY <1>1, <1>8, <1>9 DEF CalmInv, ControlInv
  <2>2. \A u \in Threads : th'[u].pc = "stop" => gpu'[th'[u].job]
    <3>1. ASSUME NEW u \in Threads, th'[u].pc = "stop" PROVE gpu'[th'[u].job]
      <4>1. th'[u] = th[u] /\ u \in Threads \ M
        BY <1>8, <1>9, <3>1
      <4>2. Ending(u)
        BY <3>1, <4>1 DEF Ending
      <4>3. QED
        BY <1>8, <4>1, <4>2, SameThread
    <3>2. QED
      BY <3>1
  <2>3. \A u \in Threads : On(u)' => ~ done'[th'[u].job]
    BY <1>1, <1>7, <1>8, <1>9 DEF CalmInv, ControlInv
  <2>4. \A k \in Jobs : /\ done'[k] => k \in issued'
                        /\ parent'[k] # k
    BY <1>1 DEF CalmInv, ControlInv
  <2>5. \A k \in Jobs : /\ proc'[k] # "none" => k \in issued'
                        /\ events'[k] # "empty" => proc'[k] \notin {"none", "alive"}
    <3>1. j \in issued
      BY <1>2 DEF SlotInv, Bookkeeping
    <3>2. \A k \in Jobs \ {j} : proc'[k] = proc[k]
      BY <1>4 DEF TypeInv, TypeOK
    <3>3. events[j] = "empty"
      BY <1>2 DEF CalmInv, ControlInv
    <3>4. QED
      BY <1>1, <3>1, <3>2, <3>3 DEF CalmInv, ControlInv
  <2>6. QED
    BY <2>1, <2>2, <2>3, <2>4, <2>5 DEF ControlInv
<1>16. LocalInv'
  <2>1. \A u \in Threads \ M : th'[u].pc \notin {"merge", "graft"}
    BY <1>8 DEF Ending
  <2>2. \A u \in Threads : th'[u].pc \notin {"merge", "graft"} /\ ~ Grafting(u)'
    BY <1>8, <1>9, <2>1
  <2>3. \A u \in Threads : Ending(u)' => Fits(th'[u].job, th'[u].want, th'[u].res)
    BY <1>8, <1>9 DEF Fits
  <2>4. \A u \in Threads : th'[u].pc = "setresult" =>
          /\ Fits(th'[u].job, th'[u].want, th'[u].res)
          /\ status'[th'[u].job] = th'[u].want
    BY <1>5, <1>8, <1>9, LocalJob DEF CalmInv, LocalInv, LocalOK
  <2>5. QED
    BY <2>2, <2>3, <2>4 DEF LocalInv, LocalOK
<1>17. SaverInv'
  <2>0. \A u \in Threads, x \in Jobs : Saves(u, x)' => Saves(u, x)
    BY <1>8, <1>9
  <2>1. \A u, v \in Threads, x \in Jobs : Saves(u, x)' /\ Saves(v, x)' => u = v
    BY <2>0 DEF CalmInv, SaverInv
  <2>2. \A u \in Threads : Ending(u)' \/ th'[u].pc \in {"start", "created"} =>
          th'[u].job = j
    BY <1>8, <1>9 DEF Creating
  <2>3. \A u, v \in Threads :
          Ending(u)' \/ th'[u].pc \in {"start", "created"} => ~ Saves(v, th[u].job)'
    BY <1>2, <2>0, <2>2 DEF Saves
  <2>4. QED
    BY <2>1, <2>3 DEF SaverInv
<1>18. PayloadInv'
  <2>1. \A u \in Threads : th'[u].pc \in {"write", "replace"} =>
          th'[u] = th[u] /\ th[u].tgt \in Jobs /\ th[u].tgt # j
    BY <1>2, <1>8, <1>9 DEF TypeInv, ThreadOK, Saves
  <2>2. QED
    BY <1>1, <1>5, <2>1 DEF CalmInv, PayloadInv, Now
<1>19. MemoryInv'
  <2>1. \A k \in Jobs : (\E u \in Threads : th'[u].pc = "setresult" /\ th'[u].job = k)
                          <=> \E u \in Threads : th[u].pc = "setresult" /\ th[u].job = k
    BY <1>8, <1>9, <1>10a
  <2>2. QED
    BY <1>1, <1>5, <1>7, <2>1 DEF CalmInv, MemoryInv, Fits
<1>20. DiskInv'
  <2> SUFFICES ASSUME NEW k \in Jobs
               PROVE  /\ disk'[k] # NoFile => Fits(k, disk'[k].status, disk'[k].result)
                      /\ k \in mem' /\ status'[k] \in Terminal =>
                            Agrees(k)' \/ \E u \in Threads : Saves(u, k)'
                      /\ k \in mem' /\ status'[k] = "completed" /\ done'[k] =>
                            disk'[k] # NoFile /\ disk'[k].status = "completed"
    BY DEF DiskInv
  <2>1. disk'[k] # NoFile => Fits(k, disk'[k].status, disk'[k].result)
    BY <1>1 DEF CalmInv, DiskInv
  <2>2. CASE k = j
    BY <1>2, <1>5, <2>1, <2>2 DEF Terminal
  <2>3. CASE k # j
    <3>1. status'[k] = status[k]
      BY <1>5, <2>3
    <3>2. \A u \in Threads : Saves(u, k) => Saves(u, k)'
      BY <1>8, <1>10a
    <3>3. Agrees(k) => Agrees(k)'
      BY <1>1, <3>1 DEF Agrees
    <3>4. QED
      BY <1>1, <3>1, <3>2, <3>3 DEF CalmInv, DiskInv
  <2>4. QED
    BY <2>2, <2>3
<1>21. QED
  BY <1>11, <1>12, <1>13, <1>14, <1>15, <1>16, <1>17, <1>18, <1>19, <1>20 DEF CalmInv

(* Requests that touch no run: the check of an extension, a refusal, and the
   three steps of a deletion. *)
LEMMA CalmRequest ==
  ASSUME TypeInv, SlotInv, CalmInv, TypeInv', NEW c \in Clients,
         \/ Refuse(c) \/ Pop(c) \/ Unlink(c)
         \/ \E j \in Jobs : ExtensionCheck(c, j) \/ Delete(c, j)
  PROVE  CalmInv'
<1> USE DEF files, objects, worker
<1>0. c \in Threads
  BY DEF Threads
<1>1. CASE Refuse(c) \/ \E j \in Jobs : ExtensionCheck(c, j) \/ Delete(c, j)
  <2>1. /\ UNCHANGED <<mem, issued, objects, worker, files>>
        /\ th[c].pc \in {"idle", "create"}
        /\ \E r : Become(c, r) /\ r.pc \in {"idle", "create", "pop"}
    <3>1. /\ Rest.pc = "idle"
          /\ \A j : [Rest EXCEPT !.pc = "create", !.tgt = j].pc = "create"
          /\ \A j : [Rest EXCEPT !.pc = "pop", !.job = j].pc = "pop"
      BY DEF Rest
    <3>2. QED
      BY <1>1, <3>1 DEF Refuse, ExtensionCheck, Delete, At
  <2>2. Others(c) /\ th'[c].pc \in {"idle", "create", "pop"}
    BY <1>0, <2>1, Moves DEF Others
  <2>3. QED
    BY <1>0, <2>1, <2>2, StepOutside DEF Outside, PCs
<1>2. CASE Pop(c)
  <2>1. Others(c) /\ th'[c].pc = "unlink" /\ th'[c].job = th[c].job
    BY <1>0, <1>2, Moves DEF Pop, Others
  <2>2. /\ mem' = mem \ {th[c].job}
        /\ UNCHANGED <<issued, objects, worker, files>> /\ th[c].pc = "pop"
    BY <1>2 DEF Pop, At
  <2>3. QED
    BY <1>0, <2>1, <2>2, StepOutside DEF Outside, PCs
<1>3. CASE Unlink(c)
  <2>1. Others(c) /\ th'[c].pc = "idle"
    BY <1>0, <1>3, Moves DEF Unlink, Others, Rest
  <2>2. /\ th[c].pc = "unlink" /\ UNCHANGED <<issued, mem, objects, worker, tmp>>
        /\ disk' = [disk EXCEPT ![th[c].job] = NoFile]
    BY <1>3 DEF Unlink, At
  <2>3. th[c].job \notin mem
    BY <1>0, <2>2 DEF CalmInv, ControlInv
  <2>4. \A j \in Jobs : disk'[j] = disk[j] \/ (disk'[j] = NoFile /\ j \notin mem')
    BY <2>2, <2>3 DEF TypeInv, TypeOK
  <2>5. QED
    BY <1>0, <2>1, <2>2, <2>4, StepOutside DEF Outside, PCs
<1>4. QED
  BY <1>1, <1>2, <1>3

(* The locals after entering _finish. *)
LEMMA FinishingOK ==
  ASSUME TypeInv, NEW t \in Threads, NEW j \in Jobs,
         NEW want \in {"completed", "failed", "cancelled"}, NEW res \in SUBSET Jobs,
         Become(t, Finishing(t, j, want, res)), Fits(j, want, res)
  PROVE  /\ Others(t) /\ th'[t].pc = "gpu" /\ th'[t].job = j
         /\ th'[t].want = want /\ th'[t].res = res /\ LocalOK(t)'
<1>1. /\ Others(t) /\ th'[t].pc = "gpu" /\ th'[t].job = j
      /\ th'[t].want = want /\ th'[t].res = res
  BY Moves, FinishingType DEF Others
<1>2. LocalOK(t)'
  BY <1>1 DEF LocalOK, Grafting
<1>3. QED
  BY <1>1, <1>2

(* The monitor thread: an event, or a dead worker without one, brings it into
   _finish; otherwise it waits on. *)
LEMMA CalmMonitor ==
  ASSUME TypeInv, SlotInv, CalmInv, TypeInv', NEW j \in Jobs, Monitor(j)
  PROVE  CalmInv'
<1> USE DEF files, objects, worker
<1>0. j \in Threads
  BY DEF Threads
<1>1. /\ th[j].pc \in {"wait", "check"} /\ Waiting(j)
      /\ UNCHANGED <<mem, issued, objects, proc, files>>
      /\ \A k \in Jobs : events'[k] # "empty" => events[k] # "empty"
  BY DEF Monitor, TakeEvent, GetTimesOut, CheckWorker, At, Waiting, TypeInv, TypeOK
<1>2. th[j].job = j
  BY <1>0, <1>1, OnJob, ThreadAssumption DEF On, SlotInv, Bookkeeping
<1>3. j \notin Clients
  BY ThreadAssumption
<1>4. ASSUME NEW want \in {"completed", "failed"}, NEW res \in SUBSET Jobs,
             Become(j, Finishing(j, j, want, res)), Fits(j, want, res),
             proc[j] # "alive"
      PROVE  CalmInv'
  <2>1. /\ Others(j) /\ th'[j].pc = "gpu" /\ th'[j].job = j /\ LocalOK(j)'
    BY <1>0, <1>4, FinishingOK
  <2>2. QED
    BY <1>0, <1>1, <1>2, <1>3, <1>4, <2>1, StepEnding
<1>5. CASE TakeEvent(j)
  <2>1. events[j] \in {"completed", "failed"} /\ proc[j] # "alive"
    BY <1>5 DEF TakeEvent, TypeInv, TypeOK, CalmInv, ControlInv
  <2>2. Become(j, Finishing(j, j, events[j], Samples(j)))
    BY <1>5 DEF TakeEvent
  <2>3. Samples(j) \in SUBSET Jobs /\ Fits(j, events[j], Samples(j))
    BY <2>1 DEF Samples, Fits
  <2>4. QED
    BY <1>4, <2>1, <2>2, <2>3
<1>6. ASSUME th'[j].pc \in {"wait", "check"}, th'[j].job = j, Others(j)
      PROVE  CalmInv'
  <2>1. /\ Waiting(j)' /\ On(j) /\ On(j)' /\ ~ Creating(j) /\ ~ Creating(j)'
        /\ ~ Ending(j)' /\ ~ Grafting(j)' /\ \A x : ~ Saves(j, x) /\ ~ Saves(j, x)'
    BY <1>1, <1>6 DEF Waiting, On, Creating, Ending, Grafting, Saves
  <2>2. \A u \in Threads : th'[u].pc = "stop" => gpu'[th'[u].job]
    BY <1>1, <1>6 DEF Others, CalmInv, ControlInv
  <2>3. \A k \in Jobs : done'[k] => k \in issued
    BY <1>1 DEF CalmInv, ControlInv
  <2>4. WaitInv' /\ EndInv' /\ CreateInv' /\ HandsInv' /\ ControlInv'
    BY <1>0, <1>1, <1>2, <1>6, <2>1, <2>2, <2>3, ControlKept
  <2>5. LocalOK(j)'
    BY <1>6, <2>1 DEF LocalOK
  <2>6. LocalInv' /\ SaverInv' /\ PayloadInv' /\ MemoryInv' /\ DiskInv'
    BY <1>0, <1>1, <1>6, <2>1, <2>5, DataKept
  <2>7. QED
    BY <2>4, <2>6 DEF CalmInv
<1>7. CASE GetTimesOut(j)
  BY <1>0, <1>2, <1>6, <1>7, Moves DEF GetTimesOut, Others
<1>8. CASE CheckWorker(j)
  <2>1. CASE proc[j] # "dead"
    <3>1. Become(j, [th[j] EXCEPT !.pc = "wait"])
      BY <1>8, <2>1 DEF CheckWorker
    <3>2. Goto(j, "wait")
      BY <3>1 DEF Become, Goto
    <3>3. QED
      BY <1>0, <1>2, <1>6, <3>2, Moves DEF Others
  <2>2. CASE proc[j] = "dead" /\ Abandoned(j)
    <3>1. Become(j, Finishing(j, j, "failed", {}))
      BY <1>8, <2>2 DEF CheckWorker
    <3>2. QED
      BY <1>4, <2>2, <3>1 DEF Fits
  <2>3. CASE proc[j] = "dead" /\ ~ Abandoned(j)
    <3>1. Become(j, [Rest EXCEPT !.pc = "ended"])
      BY <1>8, <2>3 DEF CheckWorker
    <3>2. Others(j) /\ th'[j].pc = "ended"
      BY <1>0, <3>1, Moves DEF Others, Rest
    <3>3. QED
      BY <1>0, <1>1, <3>2, StepOutside DEF Outside, PCs
  <2>4. QED
    BY <2>1, <2>2, <2>3
<1>9. QED
  BY <1>5, <1>7, <1>8 DEF Monitor

-----------------------------------------------------------------------------
(***************************************************************************)
(* _finish and _persist.                                                   *)
(***************************************************************************)

(* A thread that only moves its program counter keeps its locals. *)
LEMMA GotoKeeps ==
  ASSUME TypeInv, NEW t \in Threads, NEW pc, Goto(t, pc)
  PROVE  /\ Others(t) /\ th'[t].pc = pc /\ th'[t].job = th[t].job
         /\ th'[t].want = th[t].want /\ th'[t].res = th[t].res
         /\ th'[t].tgt = th[t].tgt /\ th'[t].snap = th[t].snap
<1>1. th[t] \in ThreadState
  BY DEF TypeInv, TypeOK
<1>2. QED
  BY <1>1, Moves DEF Goto, Others, TypeInv, TypeOK, ThreadState

(* The telemetry of the job, and the merge with its parent. *)
LEMMA CalmFinish ==
  ASSUME TypeInv, SlotInv, CalmInv, TypeInv', NEW t \in Threads,
         CheckGpu(t) \/ StopGpu(t) \/ Merge(t)
  PROVE  CalmInv'
<1> USE DEF files, objects, worker
<1>1. /\ th[t].pc \in {"gpu", "stop", "merge"} /\ Ending(t) /\ ~ Waiting(t)
      /\ UNCHANGED <<mem, issued, proc, events, files, status, result, parent, done>>
  BY DEF CheckGpu, StopGpu, Merge, At, Ending, Waiting
<1>2. /\ t \in Clients => th[t].res = {} /\ t \notin Jobs
      /\ Fits(th[t].job, th[t].want, th[t].res)
      /\ th[t].want # "none" /\ th[t].job \in Jobs
      /\ parent[th[t].job] # th[t].job
  <2>1. th[t].job \in Jobs
    BY <1>1, OnJob, Places
  <2>2. th[t].want # "none"
    BY <1>1 DEF TypeInv, ThreadOK
  <2>3. t \in Clients => th[t].res = {} /\ t \notin Jobs
    BY <1>1, ThreadAssumption DEF CalmInv, EndInv
  <2>4. Fits(th[t].job, th[t].want, th[t].res)
    BY <1>1 DEF CalmInv, LocalInv, LocalOK
  <2>5. QED
    BY <2>1, <2>2, <2>3, <2>4 DEF CalmInv, ControlInv
<1>3. ASSUME NEW pc \in {"stop", "merge", "set"}, Goto(t, pc),
             pc = "stop" => gpu'[th[t].job], pc = "merge" => th[t].res # {},
             \A j \in Jobs : j # th[t].job => gpu'[j] = gpu[j]
      PROVE  CalmInv'
  <2>1. /\ Others(t) /\ th'[t].pc = pc /\ th'[t].job = th[t].job
        /\ th'[t].want = th[t].want /\ th'[t].res = th[t].res
    BY <1>3, GotoKeeps
  <2>2. LocalOK(t)'
    BY <1>2, <1>3, <2>1 DEF LocalOK, Grafting
  <2>3. QED
    BY <1>1, <1>2, <1>3, <2>1, <2>2, StepEnding
<1>4. CASE CheckGpu(t)
  <2>1. Goto(t, IF gpu[th[t].job] THEN "stop" ELSE AfterGpu(t)) /\ gpu' = gpu
    BY <1>4 DEF CheckGpu
  <2>2. AfterGpu(t) \in {"merge", "set"} /\ (AfterGpu(t) = "merge" => th[t].res # {})
    BY DEF AfterGpu, NeedsMerge
  <2>3. QED
    BY <1>3, <2>1, <2>2
<1>5. CASE StopGpu(t)
  <2>1. gpu[th[t].job]
    BY <1>5 DEF StopGpu, At, CalmInv, ControlInv
  <2>2. Goto(t, AfterGpu(t)) /\ gpu' = [gpu EXCEPT ![th[t].job] = FALSE]
    BY <1>5, <2>1 DEF StopGpu
  <2>3. AfterGpu(t) \in {"merge", "set"} /\ (AfterGpu(t) = "merge" => th[t].res # {})
    BY DEF AfterGpu, NeedsMerge
  <2>4. \A j \in Jobs : j # th[t].job => gpu'[j] = gpu[j]
    BY <2>2 DEF TypeInv, TypeOK
  <2>5. QED
    BY <1>3, <2>2, <2>3, <2>4
<1>6. CASE Merge(t)
  <2> DEFINE p == parent[th[t].job]
  <2>1. gpu' = gpu /\ th[t].pc = "merge"
    BY <1>6 DEF Merge, At
  <2>2. CASE Raise(t)
    <3>1. t \notin Clients /\ th[t].want = "completed"
      <4>1. th[t].res # {}
        BY <2>1 DEF CalmInv, LocalInv, LocalOK
      <4>2. QED
        BY <1>2, <4>1 DEF Fits
    <3>2. Become(t, Finishing(t, th[t].job, "failed", {}))
      BY <2>2, <3>1 DEF Raise
    <3>3. /\ Others(t) /\ th'[t].pc = "gpu" /\ th'[t].job = th[t].job /\ LocalOK(t)'
      BY <1>2, <3>2, FinishingOK DEF Fits
    <3>4. QED
      BY <1>1, <1>2, <2>1, <3>1, <3>3, StepEnding
  <2>3. CASE ~ Raise(t)
    <3>1. /\ p \in mem /\ result[p] # {}
          /\ Become(t, [th[t] EXCEPT !.pc = "graft", !.tgt = p,
                          !.res = Merged(p, th[t].job)])
      BY <1>6, <2>3 DEF Merge
    <3>2. th[t] \in ThreadState
      BY DEF TypeInv, TypeOK
    <3>3. /\ Others(t) /\ th'[t].pc = "graft" /\ th'[t].job = th[t].job
          /\ th'[t].want = th[t].want /\ th'[t].tgt = p
          /\ th'[t].res = Merged(p, th[t].job)
      <4> DEFINE r == [th[t] EXCEPT !.pc = "graft", !.tgt = p, !.res = Merged(p, th[t].job)]
      <4>1. Others(t) /\ th'[t] = r
        BY <3>1, Moves DEF Others
      <4>2. /\ r.pc = "graft" /\ r.job = th[t].job /\ r.want = th[t].want /\ r.tgt = p
            /\ r.res = Merged(p, th[t].job)
        BY <3>2 DEF ThreadState
      <4>3. QED
        BY <4>1, <4>2
    <3>4. th[t].want = "completed" /\ t \notin Clients
      BY <1>2, <2>1 DEF Fits, CalmInv, LocalInv, LocalOK
    <3>5. /\ th'[t].res = Merged(th'[t].tgt, th'[t].job) /\ th[t].job \in th'[t].res
          /\ th'[t].tgt # th'[t].job /\ result[th'[t].tgt] # {}
      BY <1>2, <3>1, <3>3 DEF Merged
    <3>6. LocalOK(t)'
      BY <1>1, <3>3, <3>4, <3>5 DEF LocalOK, Grafting, Fits, Merged
    <3>7. QED
      BY <1>1, <1>2, <2>1, <3>3, <3>4, <3>6, StepEnding
  <2>4. QED
    BY <2>2, <2>3
<1>7. QED
  BY <1>4, <1>5, <1>6

(* A step after which t saves the record x, and nobody else does, whose result
   and status may have changed. *)
LEMMA DataSaved ==
  ASSUME TypeInv, CalmInv, TypeInv', NEW t \in Threads, Others(t), NEW x \in Jobs,
         \A k \in Jobs \ {x} :
           status'[k] = status[k] /\ result'[k] = result[k] /\ tmp'[k] = tmp[k],
         UNCHANGED <<disk, done, mem>>,
         \A u \in Threads \ {t} : ~ Saves(u, x),
         \A k \in Jobs : /\ Saves(t, k) => k = x
                         /\ Saves(t, k)' <=> k = x,
         th'[t].pc \in {"write", "replace"} => th'[t].tgt = x,
         th'[t].pc = "write" =>
           th'[t].snap = [status |-> status'[x], result |-> result'[x]],
         th'[t].pc = "replace" => tmp'[x] = [status |-> status'[x], result |-> result'[x]],
         LocalOK(t)', ~ Ending(t)' \/ th'[t].job # x,
         Ending(t)' => \A u \in Threads \ {t} : ~ Saves(u, th'[t].job),
         th'[t].pc \notin {"start", "created"},
         \A u \in Threads \ {t} :
           /\ Grafting(u) \/ th[u].pc = "graft" => th[u].tgt # x
           /\ Ending(u) \/ th[u].pc \in {"start", "created"} => th[u].job # x,
         Fits(x, IF th'[t].pc = "setresult" THEN "none" ELSE status'[x], result'[x]),
         done[x] /\ status'[x] = "completed" => status[x] = "completed"
  PROVE  LocalInv' /\ SaverInv' /\ PayloadInv' /\ MemoryInv' /\ DiskInv'
<1>1. \A u \in Threads \ {t} :
        /\ th'[u] = th[u]
        /\ Ending(u)' <=> Ending(u)
        /\ Grafting(u)' <=> Grafting(u)
        /\ \A k : Saves(u, k)' <=> Saves(u, k)
  BY SameThread DEF Others
<1>2. ASSUME NEW u \in Threads \ {t} PROVE LocalOK(u)'
  <2>1. LocalOK(u)
    BY DEF CalmInv, LocalInv
  <2>2. th[u].pc = "setresult" => th[u].job # x /\ th[u].job \in Jobs
    BY LocalJob DEF Saves
  <2>3. Grafting(u) \/ th[u].pc = "graft" => th[u].tgt \in Jobs \ {x}
    BY DEF Grafting, TypeInv, ThreadOK
  <2>4. QED
    BY <1>1, <2>1, <2>2, <2>3 DEF LocalOK, Merged
<1>3. LocalInv'
  BY <1>2 DEF LocalInv
<1>4. SaverInv'
  <2>1. \A u, v \in Threads, k \in Jobs : Saves(u, k)' /\ Saves(v, k)' => u = v
    <3>1. ASSUME NEW u \in Threads, NEW v \in Threads, NEW k \in Jobs,
                 Saves(u, k)', Saves(v, k)'
          PROVE  u = v
      <4>1. CASE u # t /\ v # t
        BY <1>1, <3>1, <4>1 DEF CalmInv, SaverInv
      <4>2. CASE u = t \/ v = t
        BY <1>1, <3>1, <4>2
      <4>3. QED
        BY <4>1, <4>2
    <3>2. QED
      BY <3>1
  <2>2. ASSUME NEW u \in Threads, NEW v \in Threads,
               Ending(u)' \/ th'[u].pc \in {"start", "created"}
        PROVE  ~ Saves(v, th[u].job)'
    <3>0. th'[u].job \in Jobs
      BY <2>2 DEF TypeInv, ThreadOK, Ending, Grafting, Working, PCs
    <3>1. \A k \in Jobs : k = th'[u].job => ~ Saves(v, k)'
      <4>1. CASE v = t
        BY <1>1, <2>2, <4>1
      <4>2. CASE v # t /\ u = t
        BY <1>1, <2>2, <4>2
      <4>3. CASE v # t /\ u # t
        BY <1>1, <2>2, <4>3 DEF CalmInv, SaverInv
      <4>4. QED
        BY <4>1, <4>2, <4>3
    <3>2. QED
      BY <3>0, <3>1 DEF Saves
  <2>3. QED
    BY <2>1, <2>2 DEF SaverInv
<1>5. PayloadInv'
  <2>1. ASSUME NEW u \in Threads \ {t}
        PROVE  /\ th'[u].pc = "write" => th'[u].snap = Now(th[u].tgt)'
               /\ th'[u].pc = "replace" => tmp'[th'[u].tgt] = Now(th[u].tgt)'
    <3>1. th[u].pc \in {"write", "replace"} => th[u].tgt \in Jobs \ {x}
      BY DEF TypeInv, ThreadOK, Saves
    <3>2. /\ th[u].pc = "write" => th[u].snap = Now(th[u].tgt)
          /\ th[u].pc = "replace" => tmp[th[u].tgt] = Now(th[u].tgt)
      BY DEF CalmInv, PayloadInv
    <3>3. QED
      BY <1>1, <3>1, <3>2 DEF Now
  <2>2. QED
    BY <2>1 DEF PayloadInv, Now
<1>6. MemoryInv'
  <2> SUFFICES ASSUME NEW k \in Jobs
               PROVE  Fits(k, IF \E u \in Threads :
                                    th'[u].pc = "setresult" /\ th'[u].job = k
                              THEN "none" ELSE status'[k], result'[k])
    BY DEF MemoryInv
  <2>1. CASE k = x
    <3>1. (\E u \in Threads : th'[u].pc = "setresult" /\ th'[u].job = k)
             => th'[t].pc = "setresult"
      BY <1>1, <2>1 DEF Saves
    <3>2. th'[t].pc = "setresult" => th'[t].job = k
      <4>1. th'[t].pc = "setresult" => th'[t].job \in Jobs
        BY LocalJob DEF TypeInv, ThreadOK, Working, PCs
      <4>2. th'[t].pc = "setresult" => \A i \in Jobs : i = th'[t].job => Saves(t, i)'
        BY DEF Saves
      <4>3. QED
        BY <2>1, <4>1, <4>2
    <3>3. QED
      BY <2>1, <3>1, <3>2
  <2>2. CASE k # x
    <3>1. (\E u \in Threads : th'[u].pc = "setresult" /\ th'[u].job = k)
             <=> \E u \in Threads : th[u].pc = "setresult" /\ th[u].job = k
      <4>1. th[t].pc = "setresult" => th[t].job # k
        BY <2>2 DEF Saves
      <4>2. th'[t].pc = "setresult" => th'[t].job # k
        <5>1. th'[t].pc = "setresult" /\ th'[t].job = k => Saves(t, k)'
          BY DEF Saves
        <5>2. QED
          BY <2>2, <5>1
      <4>3. QED
        BY <1>1, <4>1, <4>2
    <3>2. QED
      BY <2>2, <3>1 DEF CalmInv, MemoryInv
  <2>3. QED
    BY <2>1, <2>2
<1>7. DiskInv'
  <2> SUFFICES ASSUME NEW k \in Jobs
               PROVE  /\ disk'[k] # NoFile => Fits(k, disk'[k].status, disk'[k].result)
                      /\ k \in mem' /\ status'[k] \in Terminal =>
                            Agrees(k)' \/ \E u \in Threads : Saves(u, k)'
                      /\ k \in mem' /\ status'[k] = "completed" /\ done'[k] =>
                            disk'[k] # NoFile /\ disk'[k].status = "completed"
    BY DEF DiskInv
  <2>1. /\ disk[k] # NoFile => Fits(k, disk[k].status, disk[k].result)
        /\ k \in mem /\ status[k] \in Terminal =>
              Agrees(k) \/ \E u \in Threads : Saves(u, k)
        /\ k \in mem /\ status[k] = "completed" /\ done[k] =>
              disk[k] # NoFile /\ disk[k].status = "completed"
    BY DEF CalmInv, DiskInv
  <2>2. CASE k = x
    BY <2>1, <2>2
  <2>3. CASE k # x
    <3>1. Agrees(k) => Agrees(k)'
      BY <2>3 DEF Agrees
    <3>2. \A u \in Threads : Saves(u, k) => Saves(u, k)'
      BY <1>1, <2>3
    <3>3. QED
      BY <2>1, <2>3, <3>1, <3>2
  <2>4. QED
    BY <2>2, <2>3
<1>8. QED
  BY <1>3, <1>4, <1>5, <1>6, <1>7

(* The kinds of savers: for the run of the thread, or for the parent of it. *)
LEMMA SaverKinds ==
  ASSUME TypeInv, CalmInv, NEW u \in Threads
  PROVE  /\ \A x \in Jobs : Saves(u, x) => th[u].job = x \/ Grafting(u)
         /\ Grafting(u) \/ th[u].pc = "graft" => u \in Jobs /\ Alone(u) /\ Ending(u)
<1>1. ASSUME NEW x \in Jobs, Saves(u, x) PROVE th[u].job = x \/ Grafting(u)
  <2>1. CASE th[u].want = "none"
    BY <1>1, <2>1 DEF CalmInv, CreateInv, Creating, Saves
  <2>2. CASE th[u].want # "none"
    BY <1>1, <2>2 DEF Grafting, Saves
  <2>3. QED
    BY <2>1, <2>2
<1>2. ASSUME Grafting(u) \/ th[u].pc = "graft" PROVE u \in Jobs /\ Alone(u) /\ Ending(u)
  <2>1. Ending(u) /\ th[u].res # {}
    BY <1>2 DEF CalmInv, LocalInv, LocalOK, Ending, Merged
  <2>2. QED
    BY <2>1 DEF CalmInv, EndInv
<1>3. QED
  BY <1>1, <1>2

(* Nobody else saves a run that a thread works on. *)
LEMMA OwnRecord ==
  ASSUME TypeInv, CalmInv, NEW t \in Threads, Busy(t)
  PROVE  \A u \in Threads \ {t} :
           ~ Saves(u, th[t].job) /\ ~ Grafting(u) /\ th[u].pc # "graft"
<1>1. ASSUME NEW u \in Threads \ {t} PROVE ~ Grafting(u) /\ th[u].pc # "graft"
  BY <1>1, SaverKinds DEF Alone
<1>2. ASSUME NEW u \in Threads \ {t}, Saves(u, th[t].job) PROVE FALSE
  <2>1. On(t) /\ th[t].job \in Jobs
    BY OnJob DEF On
  <2>2. On(u) /\ th[u].job = th[t].job /\ ~ Waiting(u)
    BY <1>1, <1>2, <2>1, SaverKinds, Places
  <2>3. ~ Waiting(t)
    BY Places
  <2>4. QED
    BY <2>1, <2>2, <2>3 DEF CalmInv, HandsInv, Hands
<1>3. QED
  BY <1>1, <1>2

(* A step by which t comes to save the record of x, or goes on saving it: for
   its own run, or for the parent while it is in _finish. *)
LEMMA StepSaving ==
  ASSUME TypeInv, SlotInv, CalmInv, TypeInv', NEW t \in Threads, Others(t), NEW x \in Jobs,
         th[t].pc \in {"created", "graft", "set", "setresult", "write"},
         th'[t].pc \in {"setresult", "write", "replace"},
         th[t].pc \in {"created", "write"} => th'[t].pc \in {"write", "replace"},
         th'[t].job = th[t].job, th'[t].want = th[t].want,
         UNCHANGED <<gpu, done, events, proc, parent, issued, mem, disk>>,
         th'[t].pc = "setresult" => x = th[t].job,
         th'[t].pc \in {"write", "replace"} => th'[t].tgt = x,
         \A k \in Jobs : Saves(t, k) => k = x,
         x = th[t].job \/ ((Grafting(t) \/ th[t].pc = "graft") /\ Grafting(t)'),
         th'[t].pc = "write" =>
           th'[t].snap = [status |-> status'[x], result |-> result'[x]],
         th'[t].pc = "replace" => tmp'[x] = [status |-> status'[x], result |-> result'[x]],
         \A k \in Jobs \ {x} :
           status'[k] = status[k] /\ result'[k] = result[k] /\ tmp'[k] = tmp[k],
         status'[x] = status[x] \/ (th[t].pc = "set" /\ x = th[t].job),
         LocalOK(t)',
         Fits(x, IF th'[t].pc = "setresult" THEN "none" ELSE status'[x], result'[x])
  PROVE  CalmInv'
<1>1. /\ Busy(t) /\ On(t) /\ Busy(t)' /\ On(t)' /\ ~ Waiting(t) /\ ~ Waiting(t)'
      /\ th[t].pc # "created" => th[t].pc # "start"
      /\ Ending(t)' => Grafting(t)'
  BY DEF Busy, On, Waiting, Ending
<1>2. th[t].job \in Jobs
  BY <1>1, OnJob
<1>3. Grafting(t)' => th'[t].tgt # th'[t].job /\ th'[t].want # "none" /\ x # th[t].job
  BY DEF Grafting
<1>4. Grafting(t)' => /\ Grafting(t) \/ th[t].pc = "graft"
                      /\ t \in Jobs /\ Alone(t) /\ Ending(t) /\ t \notin Clients
  BY <1>3, SaverKinds, ThreadAssumption
<1>5. Creating(t) <=> Creating(t)'
  <2>1. th[t].pc \in {"graft", "set", "setresult"} => th[t].want # "none"
    BY DEF TypeInv, ThreadOK
  <2>2. Creating(t) => th[t].want = "none"
    BY DEF CalmInv, CreateInv
  <2>3. QED
    BY <2>1, <2>2 DEF Creating
<1>6. Creating(t)' => th'[t].want = "none" /\ x = th[t].job
  <2>1. Creating(t)' => th[t].want = "none"
    BY <1>5 DEF CalmInv, CreateInv
  <2>2. QED
    BY <1>3, <2>1
<1>7. ASSUME NEW u \in Threads \ {t}, On(u)
      PROVE  /\ x # th[t].job => ~ Busy(u)
             /\ th[u].job = th[t].job => Waiting(u) /\ Creating(t)
  <2>1. x # th[t].job => ~ Busy(u)
    BY <1>4, <1>7 DEF Alone
  <2>2. th[u].job = th[t].job => Waiting(u) /\ Creating(t)
    BY <1>1, <1>7 DEF CalmInv, HandsInv, Hands
  <2>3. QED
    BY <2>1, <2>2
<1>8. \A u \in Threads : Waiting(u)' \/ Ending(u)' \/ Creating(u)' =>
        status'[th'[u].job] = status[th'[u].job]
  <2>1. CASE status'[x] = status[x]
    <3>1. \A k \in Jobs : status'[k] = status[k]
      BY <2>1
    <3>2. \A u \in Threads : Waiting(u)' \/ Ending(u)' \/ Creating(u)' =>
            th'[u].job \in Jobs
      BY DEF Waiting, Ending, Creating, Grafting, TypeInv, ThreadOK, Working, PCs
    <3>3. QED
      BY <3>1, <3>2
  <2>2. CASE th[t].pc = "set" /\ x = th[t].job
    <3>1. ~ Creating(t) /\ ~ Creating(t)' /\ ~ Ending(t)' /\ ~ Waiting(t)'
      BY <1>1, <1>3, <1>5, <2>2 DEF Creating, TypeInv, ThreadOK
    <3>2. ASSUME NEW u \in Threads \ {t}, Waiting(u)' \/ Ending(u)' \/ Creating(u)'
          PROVE  status'[th'[u].job] = status[th'[u].job]
      <4>1. th'[u] = th[u] /\ On(u)
        BY <3>2, SameThread, Places DEF Others
      <4>2. th[u].job \in Jobs /\ th[u].job # x
        BY <1>7, <2>2, <3>1, <4>1, OnJob
      <4>3. QED
        BY <4>1, <4>2
    <3>3. QED
      BY <3>1, <3>2
  <2>3. QED
    BY <2>1, <2>2
<1>9. \A u \in Threads : th'[u].pc = "stop" => gpu'[th'[u].job]
  BY DEF Others, CalmInv, ControlInv
<1>10. \A j \in Jobs : done'[j] => j \in issued
  BY DEF CalmInv, ControlInv
<1>11. WaitInv' /\ EndInv' /\ CreateInv' /\ HandsInv' /\ ControlInv'
  BY <1>1, <1>3, <1>4, <1>5, <1>6, <1>8, <1>9, <1>10, ControlKept
<1>12. \A u \in Threads \ {t} :
         ~ Saves(u, th[t].job) /\ ~ Grafting(u) /\ th[u].pc # "graft"
  BY <1>1, OwnRecord
<1>13. \A u \in Threads \ {t} : ~ Saves(u, x)
  BY <1>4, <1>12, Places DEF Alone
<1>14. \A u \in Threads \ {t} :
         Ending(u) \/ th[u].pc \in {"start", "created"} => th[u].job # x
  <2> SUFFICES ASSUME NEW u \in Threads \ {t},
                      Ending(u) \/ th[u].pc \in {"start", "created"}
               PROVE  th[u].job # x
    OBVIOUS
  <2>1. On(u) /\ Busy(u) /\ ~ Waiting(u)
    BY Places
  <2>2. QED
    BY <1>7, <2>1
<1>15. \A k \in Jobs : Saves(t, k)' <=> k = x
  BY DEF Saves
<1>16. done[x] /\ status'[x] = "completed" => status[x] = "completed"
  BY <1>1 DEF CalmInv, ControlInv
<1>17. ~ Ending(t)' \/ th'[t].job # x
  BY <1>1, <1>3
<1>18. LocalInv' /\ SaverInv' /\ PayloadInv' /\ MemoryInv' /\ DiskInv'
  BY <1>12, <1>13, <1>14, <1>15, <1>16, <1>17, DataSaved
<1>19. QED
  BY <1>11, <1>18 DEF CalmInv

(* While t saves the record of x, its result in memory fits its status unless
   t itself is about to set it. *)
LEMMA SavedFits ==
  ASSUME TypeInv, CalmInv, NEW t \in Threads, NEW x \in Jobs,
         th[t].pc # "setresult",
         Saves(t, x) \/ (th[t].pc = "created" /\ th[t].job = x)
  PROVE  Fits(x, status[x], result[x])
<1>1. \A u \in Threads \ {t} : ~ Saves(u, x)
  <2>1. CASE Saves(t, x)
    BY <2>1 DEF CalmInv, SaverInv
  <2>2. CASE th[t].pc = "created" /\ th[t].job = x
    BY <2>2 DEF CalmInv, SaverInv
  <2>3. QED
    BY <2>1, <2>2
<1>2. ~ \E u \in Threads : th[u].pc = "setresult" /\ th[u].job = x
  BY <1>1 DEF Saves
<1>3. QED
  BY <1>2 DEF CalmInv, MemoryInv

(* The steps from the end of the merge, or of a creation, to the rename. *)
LEMMA CalmSaving ==
  ASSUME TypeInv, SlotInv, Calm, Spent, CalmInv, TypeInv', NEW t \in Threads,
         \/ PersistCreated(t) \/ Graft(t) \/ SetStatus(t) \/ SetResult(t) \/ Write(t)
  PROVE  CalmInv'
<1> USE DEF files, objects, worker
<1>0. th[t] \in ThreadState
  BY DEF TypeInv, TypeOK
<1>1. CASE PersistCreated(t)
  <2> DEFINE j == th[t].job
             s == Snapshot(j, result[j])
             r == [th[t] EXCEPT !.pc = "write", !.tgt = j, !.snap = s]
  <2>1. /\ th[t].pc = "created" /\ Others(t) /\ th'[t] = r
        /\ UNCHANGED <<mem, issued, objects, worker, files>>
    BY <1>1, Moves DEF PersistCreated, At, Others
  <2>2. /\ r.pc = "write" /\ r.tgt = j /\ r.snap = s /\ r.job = th[t].job
        /\ r.want = th[t].want
    BY <1>0 DEF ThreadState
  <2>3. j \in Jobs /\ s = [status |-> status[j], result |-> result[j]]
    BY <2>1 DEF Snapshot, TypeInv, ThreadOK, Working, PCs
  <2> HIDE DEF r, s
  <2>4. th[t].want = "none"
    BY <2>1, Places DEF CalmInv, CreateInv
  <2>5. LocalOK(t)'
    BY <2>1, <2>2, <2>4 DEF LocalOK, Ending, Grafting
  <2>6. Fits(j, status[j], result[j])
    BY <2>1, <2>3, SavedFits
  <2>7. \A k \in Jobs : ~ Saves(t, k)
    BY <2>1 DEF Saves
  <2>8. QED
    BY <2>1, <2>2, <2>3, <2>5, <2>6, <2>7, StepSaving
<1>2. CASE Graft(t)
  <2> DEFINE p == th[t].tgt
             s == Snapshot(p, th[t].res)
             r == [th[t] EXCEPT !.pc = "write", !.snap = s]
  <2>1. /\ th[t].pc = "graft" /\ Others(t) /\ th'[t] = r
        /\ result' = [result EXCEPT ![p] = th[t].res]
        /\ UNCHANGED <<mem, issued, status, parent, gpu, done, worker, files>>
    BY <1>2, Moves DEF Graft, At, Others
  <2>2. /\ r.pc = "write" /\ r.tgt = p /\ r.snap = s /\ r.job = th[t].job
        /\ r.want = th[t].want /\ r.res = th[t].res
    BY <1>0 DEF ThreadState
  <2>3. /\ p \in Jobs /\ th[t].want # "none"
        /\ s = [status |-> status[p], result |-> th[t].res]
    BY <2>1 DEF Snapshot, TypeInv, ThreadOK
  <2> HIDE DEF r, s
  <2>4. /\ th[t].res = Merged(p, th[t].job) /\ p # th[t].job /\ result[p] # {}
        /\ Fits(th[t].job, th[t].want, th[t].res)
    BY <2>1 DEF CalmInv, LocalInv, LocalOK, Ending
  <2>5. result'[p] = th[t].res /\ \A k \in Jobs \ {p} : result'[k] = result[k]
    BY <2>1, <2>3 DEF TypeInv, TypeOK
  <2>6. Fits(p, status[p], th[t].res)
    <3>1. status[p] = "completed" /\ p \in result[p]
      BY <2>3, <2>4 DEF CalmInv, MemoryInv, Fits
    <3>2. QED
      BY <2>4, <3>1 DEF Fits, Merged
  <2>7. Grafting(t)'
    BY <2>1, <2>2, <2>3, <2>4 DEF Grafting
  <2>8. LocalOK(t)'
    BY <2>1, <2>2, <2>4, <2>5 DEF LocalOK, Merged
  <2>9. \A k \in Jobs : ~ Saves(t, k)
    BY <2>1 DEF Saves
  <2>10. QED
    BY <2>1, <2>2, <2>3, <2>5, <2>6, <2>7, <2>8, <2>9, StepSaving
<1>3. CASE SetStatus(t)
  <2> DEFINE j == th[t].job
  <2>1. /\ th[t].pc = "set" /\ Goto(t, "setresult")
        /\ status' = [status EXCEPT ![j] = th[t].want]
        /\ UNCHANGED <<mem, issued, result, parent, gpu, done, worker, files>>
    BY <1>3 DEF SetStatus, At
  <2>2. /\ Others(t) /\ th'[t].pc = "setresult" /\ th'[t].job = j
        /\ th'[t].want = th[t].want /\ th'[t].res = th[t].res
    BY <2>1, GotoKeeps
  <2>3. Ending(t) /\ j \in Jobs
    BY <2>1, OnJob, Places DEF Ending
  <2>4. status'[j] = th[t].want /\ \A k \in Jobs \ {j} : status'[k] = status[k]
    BY <2>1, <2>3 DEF TypeInv, TypeOK
  <2>5. LocalOK(t)'
    BY <2>2, <2>3, <2>4 DEF CalmInv, LocalInv, LocalOK, Grafting, Ending
  <2>6. Fits(j, "none", result[j])
    BY <2>3 DEF CalmInv, EndInv, MemoryInv, Fits
  <2>7. \A k \in Jobs : ~ Saves(t, k)
    BY <2>1 DEF Saves
  <2>8. QED
    BY <2>1, <2>2, <2>3, <2>4, <2>5, <2>6, <2>7, StepSaving
<1>4. CASE SetResult(t)
  <2> DEFINE j == th[t].job
             s == Snapshot(j, th[t].res)
             r == [th[t] EXCEPT !.pc = "write", !.tgt = j, !.snap = s]
  <2>1. /\ th[t].pc = "setresult" /\ Others(t) /\ th'[t] = r
        /\ result' = [result EXCEPT ![j] = th[t].res]
        /\ UNCHANGED <<mem, issued, status, parent, gpu, done, worker, files>>
    BY <1>4, Moves DEF SetResult, At, Others
  <2>2. /\ r.pc = "write" /\ r.tgt = j /\ r.snap = s /\ r.job = j
        /\ r.want = th[t].want /\ r.res = th[t].res
    BY <1>0 DEF ThreadState
  <2>3. j \in Jobs /\ s = [status |-> status[j], result |-> th[t].res]
    BY <2>1, LocalJob DEF Snapshot
  <2> HIDE DEF r, s
  <2>4. result'[j] = th[t].res /\ \A k \in Jobs \ {j} : result'[k] = result[k]
    BY <2>1, <2>3 DEF TypeInv, TypeOK
  <2>5. Fits(j, status[j], th[t].res)
    BY <2>1 DEF CalmInv, LocalInv, LocalOK
  <2>6. LocalOK(t)'
    BY <2>1, <2>2 DEF LocalOK, Grafting, Ending
  <2>7. \A k \in Jobs : Saves(t, k) => k = j
    BY <2>1 DEF Saves
  <2>8. QED
    BY <2>1, <2>2, <2>3, <2>4, <2>5, <2>6, <2>7, StepSaving
<1>5. CASE Write(t)
  <2> DEFINE x == th[t].tgt
             r == [th[t] EXCEPT !.pc = "replace", !.snap = NoFile]
  <2>1. ~ Spend("io")
    BY DEF Spend, Spent, Calm
  <2>2. /\ th[t].pc = "write" /\ Others(t) /\ th'[t] = r
        /\ tmp' = [tmp EXCEPT ![x] = th[t].snap]
        /\ UNCHANGED <<mem, issued, objects, worker, disk>>
    BY <1>5, <2>1, Moves DEF Write, At, Others
  <2>3. /\ r.pc = "replace" /\ r.tgt = x /\ r.job = th[t].job
        /\ r.want = th[t].want /\ r.res = th[t].res
    BY <1>0 DEF ThreadState
  <2> HIDE DEF r
  <2>4. x \in Jobs /\ Saves(t, x)
    BY <2>2 DEF TypeInv, ThreadOK, Saves
  <2>5. tmp'[x] = [status |-> status[x], result |-> result[x]]
    BY <2>2, <2>4 DEF TypeInv, TypeOK, CalmInv, PayloadInv, Now
  <2>6. \A k \in Jobs \ {x} : tmp'[k] = tmp[k]
    BY <2>2 DEF TypeInv, TypeOK
  <2>7. Fits(x, status[x], result[x])
    BY <2>2, <2>4, SavedFits
  <2>8. /\ Grafting(t) <=> Grafting(t)'
        /\ x = th[t].job \/ Grafting(t)
    BY <2>2, <2>3, <2>4, SaverKinds DEF Grafting
  <2>9. LocalOK(t)'
    BY <2>2, <2>3, <2>8 DEF CalmInv, LocalInv, LocalOK, Ending
  <2>10. \A k \in Jobs : Saves(t, k) => k = x
    BY <2>2 DEF Saves
  <2>11. QED
    BY <2>2, <2>3, <2>4, <2>5, <2>6, <2>7, <2>8, <2>9, <2>10, StepSaving
<1>6. QED
  BY <1>1, <1>2, <1>3, <1>4, <1>5

(* The rename brings the record of x up to date, and the thread saves no more. *)
LEMMA DataReplaced ==
  ASSUME TypeInv, CalmInv, TypeInv', NEW t \in Threads, Others(t), NEW x \in Jobs,
         th[t].pc = "replace", th[t].tgt = x,
         disk'[x] = Now(x), disk'[x] # NoFile,
         \A k \in Jobs \ {x} : disk'[k] = disk[k] /\ tmp'[k] = tmp[k],
         UNCHANGED <<status, result, mem, done>>,
         th'[t].pc \notin {"start", "created", "setresult", "write", "replace"},
         LocalOK(t)', Ending(t)' => Ending(t) /\ th'[t].job = th[t].job
  PROVE  LocalInv' /\ SaverInv' /\ PayloadInv' /\ MemoryInv' /\ DiskInv'
<1>1. \A u \in Threads \ {t} :
        /\ th'[u] = th[u]
        /\ Ending(u)' <=> Ending(u)
        /\ Grafting(u)' <=> Grafting(u)
        /\ \A k : Saves(u, k)' <=> Saves(u, k)
  BY SameThread DEF Others
<1>2. /\ Saves(t, x)
      /\ \A k : ~ Saves(t, k)'
      /\ \A k : Saves(t, k) => k = x
  BY DEF Saves
<1>3. \A u \in Threads, k \in Jobs : Saves(u, k)' => Saves(u, k)
  BY <1>1, <1>2
<1>4. \A u \in Threads \ {t} : ~ Saves(u, x)
  BY <1>2 DEF CalmInv, SaverInv
<1>5. LocalInv'
  <2>1. \A u \in Threads \ {t} : LocalOK(u)
    BY DEF CalmInv, LocalInv
  <2>2. \A u \in Threads \ {t} : LocalOK(u)'
    BY <1>1, <2>1 DEF LocalOK, Merged
  <2>3. QED
    BY <2>2 DEF LocalInv
<1>6. SaverInv'
  <2>1. \A u, v \in Threads, k \in Jobs : Saves(u, k)' /\ Saves(v, k)' => u = v
    BY <1>3 DEF CalmInv, SaverInv
  <2>2. ASSUME NEW u \in Threads, NEW v \in Threads,
               Ending(u)' \/ th'[u].pc \in {"start", "created"}
        PROVE  ~ Saves(v, th[u].job)'
    <3>1. Ending(u) \/ th[u].pc \in {"start", "created"}
      BY <1>1, <2>2
    <3>2. th'[u].job = th[u].job
      BY <1>1, <2>2
    <3>3. ~ Saves(v, th[u].job) /\ th[u].job \in Jobs
      BY <3>1, OnJob, Places DEF CalmInv, SaverInv
    <3>4. \A k \in Jobs : k = th'[u].job => ~ Saves(v, k)'
      BY <1>3, <3>2, <3>3
    <3>5. QED
      BY <3>2, <3>3, <3>4 DEF Saves
  <2>3. QED
    BY <2>1, <2>2 DEF SaverInv
<1>7. PayloadInv'
  <2>1. ASSUME NEW u \in Threads \ {t}
        PROVE  /\ th'[u].pc = "write" => th'[u].snap = Now(th[u].tgt)'
               /\ th'[u].pc = "replace" => tmp'[th'[u].tgt] = Now(th[u].tgt)'
    <3>1. th[u].pc \in {"write", "replace"} => th[u].tgt \in Jobs \ {x}
      BY <1>4 DEF TypeInv, ThreadOK, Saves
    <3>2. /\ th[u].pc = "write" => th[u].snap = Now(th[u].tgt)
          /\ th[u].pc = "replace" => tmp[th[u].tgt] = Now(th[u].tgt)
      BY DEF CalmInv, PayloadInv
    <3>3. QED
      BY <1>1, <3>1, <3>2 DEF Now
  <2>2. QED
    BY <2>1 DEF PayloadInv, Now
<1>8. MemoryInv'
  <2>1. \A u \in Threads : th'[u].pc = "setresult" <=> th[u].pc = "setresult"
    BY <1>1
  <2>2. \A u \in Threads : th[u].pc = "setresult" => th'[u].job = th[u].job
    BY <1>1
  <2>3. QED
    BY <2>1, <2>2 DEF CalmInv, MemoryInv, Fits
<1>9. DiskInv'
  <2> SUFFICES ASSUME NEW k \in Jobs
               PROVE  /\ disk'[k] # NoFile => Fits(k, disk'[k].status, disk'[k].result)
                      /\ k \in mem' /\ status'[k] \in Terminal =>
                            Agrees(k)' \/ \E u \in Threads : Saves(u, k)'
                      /\ k \in mem' /\ status'[k] = "completed" /\ done'[k] =>
                            disk'[k] # NoFile /\ disk'[k].status = "completed"
    BY DEF DiskInv
  <2>1. CASE k = x
    <3>1. disk'[k].status = status[k] /\ disk'[k].result = result[k]
      BY <2>1 DEF Now
    <3>2. Fits(k, status[k], result[k])
      BY <1>2, <2>1, SavedFits
    <3>3. status[k] \in Terminal => status[k] = Recovered(status[k])
      BY DEF Terminal, Recovered, Active
    <3>4. status'[k] \in Terminal => Agrees(k)'
      BY <2>1, <3>1, <3>3 DEF Agrees
    <3>5. QED
      BY <2>1, <3>1, <3>2, <3>4
  <2>2. CASE k # x
    <3>1. /\ disk[k] # NoFile => Fits(k, disk[k].status, disk[k].result)
          /\ k \in mem /\ status[k] \in Terminal =>
                Agrees(k) \/ \E u \in Threads : Saves(u, k)
          /\ k \in mem /\ status[k] = "completed" /\ done[k] =>
                disk[k] # NoFile /\ disk[k].status = "completed"
      BY DEF CalmInv, DiskInv
    <3>2. \A u \in Threads : Saves(u, k) => Saves(u, k)'
      BY <1>1, <1>2, <2>2
    <3>3. Agrees(k) => Agrees(k)'
      BY <2>2 DEF Agrees
    <3>4. QED
      BY <2>2, <3>1, <3>2, <3>3
  <2>3. QED
    BY <2>1, <2>2
<1>10. QED
  BY <1>5, <1>6, <1>7, <1>8, <1>9

(* The rename finds the temporary file of its own write. *)
LEMMA CalmReplace ==
  ASSUME TypeInv, SlotInv, CalmInv, TypeInv', NEW t \in Threads, Replace(t)
  PROVE  CalmInv'
<1> USE DEF files, objects, worker
<1> DEFINE x == th[t].tgt
<1>1. /\ th[t].pc = "replace" /\ x \in Jobs /\ th[t].job \in Jobs /\ Saves(t, x)
      /\ UNCHANGED <<mem, issued, objects, worker>>
  BY DEF Replace, At, TypeInv, ThreadOK, Working, PCs, Saves
<1>2. tmp[x] = Now(x) /\ tmp[x] # NoFile
  <2>1. tmp[x] = Now(x)
    BY <1>1 DEF CalmInv, PayloadInv
  <2>2. Now(x) \in Payload
    BY <1>1 DEF Now, Payload, TypeInv, TypeOK
  <2>3. QED
    BY <2>1, <2>2, FileAssumption
<1>3. /\ disk' = [disk EXCEPT ![x] = tmp[x]]
      /\ tmp' = [tmp EXCEPT ![x] = NoFile]
  BY <1>2 DEF Replace
<1>4. /\ disk'[x] = Now(x) /\ disk'[x] # NoFile
      /\ \A k \in Jobs \ {x} : disk'[k] = disk[k] /\ tmp'[k] = tmp[k]
  BY <1>1, <1>2, <1>3 DEF TypeInv, TypeOK
<1>5. /\ Busy(t) /\ On(t) /\ ~ Waiting(t)
      /\ Creating(t) <=> th[t].want = "none"
      /\ Ending(t) <=> Grafting(t)
      /\ Grafting(t) <=> (th[t].want # "none" /\ x # th[t].job)
  BY <1>1 DEF Busy, On, Waiting, Creating, Ending, Grafting
<1>6. ASSUME Others(t), th'[t].pc \in {"idle", "set", "announce"},
             th'[t].pc = "idle" \/ (th'[t].job = th[t].job /\ th[t].want # "none"),
             th'[t].pc = "set" => Grafting(t),
             LocalOK(t)'
      PROVE  CalmInv'
  <2>1. /\ ~ Waiting(t)' /\ ~ Creating(t)' /\ (On(t)' => th'[t].pc # "idle")
        /\ Ending(t)' => th'[t].pc = "set"
    BY <1>6 DEF Waiting, Creating, Ending, Grafting, On, Busy
  <2>2. On(t)' => th'[t].job = th[t].job /\ ~ Creating(t)
    BY <1>5, <1>6, <2>1
  <2>3. Ending(t)' => Ending(t) /\ t \notin Clients /\ th'[t].job = th[t].job
    BY <1>5, <1>6, <2>1, SaverKinds, ThreadAssumption
  <2>4. \A u \in Threads : th'[u].pc = "stop" => gpu'[th'[u].job]
    BY <1>1, <1>6 DEF Others, CalmInv, ControlInv
  <2>5. \A k \in Jobs : done'[k] => k \in issued
    BY <1>1 DEF CalmInv, ControlInv
  <2>6. WaitInv' /\ EndInv' /\ CreateInv' /\ HandsInv' /\ ControlInv'
    BY <1>1, <1>5, <1>6, <2>1, <2>2, <2>3, <2>4, <2>5, ControlKept
  <2> HIDE DEF x
  <2>7. LocalInv' /\ SaverInv' /\ PayloadInv' /\ MemoryInv' /\ DiskInv'
    <3>1. th[t].tgt = x
      BY DEF x
    <3>2. QED
      BY <1>1, <1>4, <1>6, <2>3, <3>1, DataReplaced
  <2>8. QED
    BY <2>6, <2>7 DEF CalmInv
<1>7. th[t] \in ThreadState
  BY DEF TypeInv, TypeOK
<1>8. CASE th[t].want = "none"
  <2>1. Become(t, Rest)
    BY <1>2, <1>8 DEF Replace
  <2>2. Others(t) /\ th'[t].pc = "idle"
    BY <2>1, Moves DEF Others, Rest
  <2>3. LocalOK(t)'
    BY <2>2 DEF LocalOK, Ending, Grafting
  <2>4. QED
    BY <1>6, <2>2, <2>3
<1>9. CASE th[t].want # "none" /\ x # th[t].job
  <2> DEFINE r == [th[t] EXCEPT !.pc = "set", !.tgt = NoJob, !.res = result[x]]
  <2>1. Become(t, r)
    BY <1>2, <1>9 DEF Replace
  <2>2. /\ r.pc = "set" /\ r.job = th[t].job /\ r.want = th[t].want /\ r.res = result[x]
    BY <1>7 DEF ThreadState
  <2>3. Others(t) /\ th'[t] = r
    BY <2>1, Moves DEF Others
  <2> HIDE DEF r
  <2>4. Grafting(t) /\ Fits(th[t].job, th[t].want, th[t].res) /\ th[t].res = result[x]
    BY <1>5, <1>9 DEF CalmInv, LocalInv, LocalOK
  <2>5. LocalOK(t)'
    BY <2>2, <2>3, <2>4 DEF LocalOK, Grafting
  <2>6. QED
    BY <1>6, <1>9, <2>2, <2>3, <2>4, <2>5
<1>10. CASE th[t].want # "none" /\ x = th[t].job
  <2> DEFINE r == [th[t] EXCEPT !.pc = "announce", !.tgt = NoJob, !.res = {}]
  <2>1. Become(t, r)
    BY <1>2, <1>10 DEF Replace
  <2>2. r.pc = "announce" /\ r.job = th[t].job
    BY <1>7 DEF ThreadState
  <2>3. Others(t) /\ th'[t] = r
    BY <2>1, Moves DEF Others
  <2> HIDE DEF r
  <2>4. LocalOK(t)'
    BY <2>2, <2>3 DEF LocalOK, Ending, Grafting
  <2>5. QED
    BY <1>6, <1>10, <2>2, <2>3, <2>4
<1>11. QED
  BY <1>8, <1>9, <1>10

(* A run is announced when its record has been saved, by the one thread that
   works on it. *)
LEMMA CalmAnnounce ==
  ASSUME TypeInv, SlotInv, CalmInv, TypeInv', NEW t \in Threads, Announce(t)
  PROVE  CalmInv'
<1> USE DEF files, objects, worker
<1> DEFINE j == th[t].job
<1>1. /\ th[t].pc = "announce" /\ j \in Jobs /\ j \in issued
      /\ done' = [done EXCEPT ![j] = TRUE]
      /\ UNCHANGED <<mem, issued, status, result, parent, gpu, worker, files>>
  BY ThreadAssumption
  DEF Announce, At, TypeInv, ThreadOK, Working, PCs, SlotInv, Bookkeeping, Known
<1>2. \A k \in Jobs \ {j} : done'[k] = done[k]
  BY <1>1 DEF TypeInv, TypeOK
<1>3. Others(t) /\ th'[t].pc \in {"idle", "ended"}
  BY Moves DEF Announce, Others, Rest
<1>4. /\ ~ On(t)' /\ ~ Waiting(t)' /\ ~ Creating(t)' /\ ~ Ending(t)'
      /\ ~ Grafting(t)' /\ \A x : ~ Saves(t, x)'
  BY <1>3 DEF On, Busy, Waiting, Creating, Ending, Grafting, Saves
<1>5. /\ Busy(t) /\ On(t) /\ ~ Waiting(t) /\ ~ Creating(t)
      /\ \A x : ~ Saves(t, x)
  BY <1>1 DEF On, Busy, Waiting, Creating, Saves
<1>6. ASSUME NEW u \in Threads, On(u)', done'[th'[u].job]
      PROVE  done[th'[u].job]
  <2>1. u # t /\ th'[u] = th[u] /\ On(u)
    BY <1>3, <1>4, <1>6, SameThread DEF Others
  <2>2. th[u].job # j
    BY <1>5, <2>1 DEF CalmInv, HandsInv, Hands
  <2>3. th[u].job \in Jobs
    BY <2>1, OnJob
  <2>4. QED
    BY <1>2, <1>6, <2>1, <2>2, <2>3
<1>7. \A u \in Threads : th'[u].pc = "stop" => gpu'[th'[u].job]
  BY <1>1, <1>3 DEF Others, CalmInv, ControlInv
<1>8. \A k \in Jobs : done'[k] => k \in issued
  BY <1>1, <1>2 DEF CalmInv, ControlInv
<1>9. WaitInv' /\ EndInv' /\ CreateInv' /\ HandsInv' /\ ControlInv'
  BY <1>1, <1>3, <1>4, <1>6, <1>7, <1>8, ControlKept
<1>10. ASSUME NEW k \in Jobs, k \in mem, status[k] = "completed", done'[k], ~ done[k]
       PROVE  disk[k] # NoFile /\ disk[k].status = "completed"
  <2>1. k = j
    BY <1>2, <1>10
  <2>2. \A u \in Threads : ~ Saves(u, k)
    BY <1>5, <2>1, OwnRecord
  <2>3. Agrees(k)
    BY <1>10, <2>2 DEF CalmInv, DiskInv, Terminal
  <2>4. QED
    BY <1>10, <2>3 DEF Agrees, Recovered
<1>11. LocalOK(t)'
  BY <1>3, <1>4 DEF LocalOK
<1>12. LocalInv' /\ SaverInv' /\ PayloadInv' /\ MemoryInv' /\ DiskInv'
  BY <1>1, <1>3, <1>4, <1>5, <1>10, <1>11, DataKept
<1>13. QED
  BY <1>9, <1>12 DEF CalmInv

-----------------------------------------------------------------------------
(***************************************************************************)
(* Whatever is in memory has a status, in every environment.               *)
(***************************************************************************)

(* Whatever is in memory, in a thread's hands or on disk has a status. *)
KnownLocals(t) == /\ th[t].pc \in Working => status[th[t].job] # "none"
                  /\ th[t].pc = "graft" => status[th[t].tgt] # "none"
                  /\ th[t].snap # NoFile => th[t].snap.status # "none"
KnownInv ==
  /\ \A t \in Threads : KnownLocals(t)
  /\ \A j \in Jobs : /\ j \in mem => status[j] # "none"
                     /\ disk[j] # NoFile => disk[j].status # "none"
                     /\ tmp[j] # NoFile => tmp[j].status # "none"

(* A step of one thread that takes no status away and saves what has one. *)
LEMMA KnownMove ==
  ASSUME TypeInv, TypeInv', KnownInv, NEW t \in Threads, Others(t), KnownLocals(t)',
         \A j \in Jobs : status'[j] # status[j] => status'[j] # "none",
         \A j \in Jobs : j \in mem' => j \in mem \/ status'[j] # "none",
         \A j \in Jobs : \/ disk'[j] \in {disk[j], tmp[j], NoFile}
                         \/ disk'[j].status # "none",
         \A j \in Jobs : tmp'[j] \in {tmp[j], th[t].snap, NoFile}
  PROVE  KnownInv'
<1>1. ASSUME NEW u \in Threads \ {t} PROVE KnownLocals(u)'
  <2>1. th'[u] = th[u] /\ KnownLocals(u)
    BY DEF Others, KnownInv
  <2>2. /\ th[u].pc \in Working => th[u].job \in Jobs
        /\ th[u].pc = "graft" => th[u].tgt \in Jobs
    BY DEF TypeInv, ThreadOK
  <2>3. QED
    BY <2>1, <2>2 DEF KnownLocals
<1>2. th[t].snap # NoFile => th[t].snap.status # "none"
  BY DEF KnownInv, KnownLocals
<1>3. ASSUME NEW j \in Jobs
      PROVE  /\ j \in mem' => status'[j] # "none"
             /\ disk'[j] # NoFile => disk'[j].status # "none"
             /\ tmp'[j] # NoFile => tmp'[j].status # "none"
  BY <1>2 DEF KnownInv
<1>4. QED
  BY <1>1, <1>3 DEF KnownInv

(* The shapes of the new locals of a thread: at rest, or still on a run. *)
LEMMA KnownThread ==
  ASSUME TypeInv, TypeInv', KnownInv, NEW t \in Threads, Others(t),
         \/ th'[t].pc \notin Working
         \/ /\ th'[t].job \in Jobs /\ th'[t].pc # "graft"
            /\ status[th'[t].job] # "none" \/ status'[th'[t].job] # "none",
         th'[t].snap \in {NoFile, th[t].snap},
         UNCHANGED tmp, \A j \in Jobs : disk'[j] \in {disk[j], NoFile},
         mem' \subseteq mem,
         \A j \in Jobs : status'[j] # status[j] => status'[j] # "none"
  PROVE  KnownInv'
<1>1. th[t].snap # NoFile => th[t].snap.status # "none"
  BY DEF KnownInv, KnownLocals
<1>2. KnownLocals(t)'
  BY <1>1 DEF KnownLocals, Working, PCs
<1>3. QED
  BY <1>2, KnownMove

(* An exception leaves the thread at rest, or in _finish for its run. *)
LEMMA KnownRaise ==
  ASSUME TypeInv, NEW t \in Threads, Raise(t), th[t].job \in Jobs
  PROVE  /\ Others(t) /\ th'[t].snap = NoFile
         /\ th'[t].pc \notin Working \/ (th'[t].pc = "gpu" /\ th'[t].job = th[t].job)
<1>1. CASE Become(t, Finishing(t, th[t].job, "failed", {}))
  <2>1. Others(t) /\ th'[t] = Finishing(t, th[t].job, "failed", {})
    BY <1>1, Moves DEF Others
  <2>2. QED
    BY <2>1, FinishingType
<1>2. CASE Become(t, Rest) \/ Become(t, [Rest EXCEPT !.pc = "dead"])
  BY <1>2, Moves DEF Others, Rest, Working, PCs
<1>3. QED
  BY <1>1, <1>2 DEF Raise

(* Every step keeps a status where there is one. *)
LEMMA KnownStep == TypeInv /\ SlotInv /\ KnownInv /\ [Next]_vars => KnownInv'
<1> SUFFICES ASSUME TypeInv, SlotInv, KnownInv, [Next]_vars PROVE KnownInv'
  OBVIOUS
<1>0. TypeInv'
  BY TypeStep
<1> USE DEF objects, files, worker
<1>a. \A t \in Threads : th[t] \in ThreadState
  BY DEF TypeInv, TypeOK
<1>b. \A t \in Threads : th[t].pc \in Working =>
        th[t].job \in Jobs /\ status[th[t].job] # "none"
  BY DEF TypeInv, ThreadOK, KnownInv, KnownLocals
<1>1. ASSUME NEW c \in Clients,
             \/ Refuse(c) \/ Unlink(c)
             \/ \E j \in Jobs : ExtensionCheck(c, j) \/ Cancel(c, j) \/ Delete(c, j)
      PROVE  KnownInv'
  <2>1. /\ \/ Become(c, Rest)
           \/ \E j \in mem : \/ Become(c, [Rest EXCEPT !.pc = "create", !.tgt = j])
                             \/ Become(c, [Rest EXCEPT !.pc = "kill", !.job = j])
                             \/ Become(c, [Rest EXCEPT !.pc = "pop", !.job = j])
        /\ UNCHANGED <<status, mem, tmp>>
        /\ \A j \in Jobs : disk'[j] \in {disk[j], NoFile}
    BY <1>1 DEF Refuse, Unlink, ExtensionCheck, Cancel, Delete, TypeInv, TypeOK
  <2>2. c \in Threads
    BY DEF Threads
  <2>3. /\ Others(c) /\ th'[c].snap = NoFile
        /\ th'[c].pc \in {"idle", "create"} \/ (th'[c].pc # "graft" /\ th'[c].job \in mem)
    <3>1. /\ Others(c)
          /\ \/ th'[c] = Rest
             \/ \E j \in mem : \/ th'[c] = [Rest EXCEPT !.pc = "create", !.tgt = j]
                               \/ th'[c] = [Rest EXCEPT !.pc = "kill", !.job = j]
                               \/ th'[c] = [Rest EXCEPT !.pc = "pop", !.job = j]
      BY <2>1, <2>2, Moves DEF Others
    <3>2. /\ Rest.pc = "idle" /\ Rest.snap = NoFile
      BY DEF Rest
    <3>3. ASSUME NEW j \in mem,
                 \/ th'[c] = [Rest EXCEPT !.pc = "create", !.tgt = j]
                 \/ th'[c] = [Rest EXCEPT !.pc = "kill", !.job = j]
                 \/ th'[c] = [Rest EXCEPT !.pc = "pop", !.job = j]
          PROVE  /\ th'[c].snap = NoFile
                 /\ th'[c].pc = "create" \/ (th'[c].pc # "graft" /\ th'[c].job = j)
      BY <3>3 DEF Rest
    <3>4. QED
      BY <3>1, <3>2, <3>3
  <2>4. mem \subseteq Jobs /\ \A j \in mem : status[j] # "none"
    BY DEF TypeInv, TypeOK, KnownInv
  <2>5. QED
    BY <1>0, <2>1, <2>2, <2>3, <2>4, KnownThread DEF Working, PCs
<1>2. ASSUME NEW t \in Threads, NEW pc \in PCs \ {"graft"}, Goto(t, pc),
             th[t].pc \in Working, mem' \subseteq mem, UNCHANGED <<disk, tmp>>,
             \A j \in Jobs : status'[j] # status[j] => status'[j] # "none"
      PROVE  KnownInv'
  <2>1. /\ Others(t) /\ th'[t].pc = pc /\ th'[t].job = th[t].job /\ th'[t].snap = th[t].snap
    BY <1>2, GotoKeeps
  <2>2. QED
    BY <1>0, <1>2, <1>b, <2>1, KnownThread
<1>3. ASSUME NEW t \in Threads, NEW want \in {"completed", "failed", "cancelled"},
             NEW res \in SUBSET Jobs, Become(t, Finishing(t, th[t].job, want, res)),
             th[t].pc \in Working, UNCHANGED <<mem, disk, tmp>>,
             \A j \in Jobs : status'[j] # status[j] => status'[j] # "none"
      PROVE  KnownInv'
  <2>1. Others(t) /\ th'[t] = Finishing(t, th[t].job, want, res)
    BY <1>3, Moves DEF Others
  <2>2. th'[t].pc = "gpu" /\ th'[t].job = th[t].job /\ th'[t].snap = NoFile
    BY <1>3, <1>b, <2>1, FinishingType
  <2>3. QED
    BY <1>0, <1>3, <1>b, <2>1, <2>2, KnownThread
<1>4. ASSUME NEW t \in Threads, Raise(t), th[t].pc \in Working,
             UNCHANGED <<status, mem, disk, tmp>>
      PROVE  KnownInv'
  BY <1>0, <1>4, <1>b, KnownRaise, KnownThread
<1>5. ASSUME NEW c \in Clients, NEW j \in Jobs, Create(c, j) PROVE KnownInv'
  <2>1. c \in Threads
    BY DEF Threads
  <2>2. /\ status' = [status EXCEPT ![j] = "queued"] /\ mem' = mem \cup {j}
        /\ disk' = disk \/ disk' = [disk EXCEPT ![j] = [status |-> "queued", result |-> {}]]
        /\ tmp' = tmp
        /\ Become(c, Rest) \/ Become(c, [Rest EXCEPT !.pc = "start", !.job = j])
    BY <1>5 DEF Create
  <2>3. /\ Others(c) /\ th'[c].snap = NoFile
        /\ th'[c].pc = "idle" \/ (th'[c].pc = "start" /\ th'[c].job = j)
    <3>1. Others(c) /\ (th'[c] = Rest \/ th'[c] = [Rest EXCEPT !.pc = "start", !.job = j])
      BY <2>1, <2>2, Moves DEF Others
    <3>2. /\ Rest.pc = "idle" /\ Rest.snap = NoFile
          /\ \A k : LET r == [Rest EXCEPT !.pc = "start", !.job = k] IN
                     r.pc = "start" /\ r.job = k /\ r.snap = NoFile
      BY DEF Rest
    <3>3. QED
      BY <3>1, <3>2
  <2>4. /\ status'[j] = "queued" /\ \A k \in Jobs \ {j} : status'[k] = status[k]
        /\ \A k \in Jobs : \/ disk'[k] = disk[k]
                           \/ disk'[k] = [status |-> "queued", result |-> {}]
    BY <2>2 DEF TypeInv, TypeOK
  <2>5. KnownLocals(c)'
    BY <2>3, <2>4 DEF KnownLocals, Working, PCs
  <2>6. QED
    BY <1>0, <2>1, <2>2, <2>3, <2>4, <2>5, KnownMove
<1>6. ASSUME NEW c \in Clients, Start(c) PROVE KnownInv'
  <2> DEFINE j == th[c].job
             m == [Rest EXCEPT !.pc = "wait", !.job = j]
             a == [th[c] EXCEPT !.pc = "created"]
  <2>1. c \in Threads /\ th[c].pc = "start" /\ j \in Jobs
    BY <1>6, <1>b DEF Threads, Start, At, Working, PCs
  <2>2. /\ status' = [status EXCEPT ![j] = "running"]
        /\ UNCHANGED <<mem, disk, tmp>>
        /\ \/ th' = [th EXCEPT ![c].pc = "created", ![j] = m]
           \/ Become(c, Finishing(c, j, "failed", {}))
    BY <1>6 DEF Start
  <2>3. status'[j] = "running" /\ \A k \in Jobs \ {j} : status'[k] = status[k]
    BY <2>1, <2>2 DEF TypeInv, TypeOK
  <2>4. CASE Become(c, Finishing(c, j, "failed", {}))
    BY <1>3, <2>1, <2>2, <2>3, <2>4 DEF Working, PCs
  <2>5. CASE th' = [th EXCEPT ![c].pc = "created", ![j] = m]
    <3>1. c # j /\ j \in Threads
      BY <2>1, ThreadAssumption DEF Threads
    <3>2. /\ a.pc = "created" /\ a.job = j /\ a.snap = th[c].snap
      BY <1>a, <2>1 DEF ThreadState
    <3>3. m.pc = "wait" /\ m.job = j /\ m.snap = NoFile
      BY DEF Rest
    <3>4. th' = [th EXCEPT ![c] = a, ![j] = m]
      BY <2>5
    <3> HIDE DEF a, m
    <3>5. /\ th'[c] = a /\ th'[j] = m
          /\ \A u \in Threads \ {c, j} : th'[u] = th[u]
      BY <2>1, <3>1, <3>4 DEF TypeInv, TypeOK
    <3>6. th[c].snap # NoFile => th[c].snap.status # "none"
      BY <2>1 DEF KnownInv, KnownLocals
    <3>7. KnownLocals(c)' /\ KnownLocals(j)'
      BY <2>3, <3>2, <3>3, <3>5, <3>6 DEF KnownLocals
    <3>8. ASSUME NEW u \in Threads \ {c, j} PROVE KnownLocals(u)'
      <4>1. th'[u] = th[u] /\ KnownLocals(u)
        BY <3>5 DEF KnownInv
      <4>2. /\ th[u].pc \in Working => th[u].job \in Jobs
            /\ th[u].pc = "graft" => th[u].tgt \in Jobs
        BY DEF TypeInv, ThreadOK
      <4>3. QED
        BY <2>3, <4>1, <4>2 DEF KnownLocals
    <3>9. \A u \in Threads : KnownLocals(u)'
      <4> TAKE u \in Threads
      <4>1. CASE u = c
        BY <3>7, <4>1 DEF KnownLocals
      <4>2. CASE u = j
        BY <3>2, <3>5, <3>7, <4>2 DEF KnownLocals
      <4>3. CASE u # c /\ u # j
        BY <3>8, <4>3
      <4>4. QED
        BY <4>1, <4>2, <4>3
    <3>10. \A k \in Jobs : /\ k \in mem' => status'[k] # "none"
                           /\ disk'[k] # NoFile => disk'[k].status # "none"
                           /\ tmp'[k] # NoFile => tmp'[k].status # "none"
      BY <2>2, <2>3 DEF KnownInv
    <3>11. QED
      BY <3>9, <3>10 DEF KnownInv
  <2>6. QED
    BY <2>2, <2>4, <2>5
<1>7. ASSUME NEW t \in Threads, NEW x \in Jobs, NEW res, status[x] # "none",
             th'[t].pc = "write", Others(t), th'[t].snap = Snapshot(x, res), th'[t].job = th[t].job,
             th[t].pc \in Working, UNCHANGED <<status, mem, disk, tmp>>
      PROVE  KnownInv'
  <2>1. KnownLocals(t)'
    BY <1>7, <1>b DEF KnownLocals, Snapshot
  <2>2. QED
    BY <1>0, <1>7, <2>1, KnownMove
<1>8. ASSUME NEW c \in Clients, PersistCreated(c) PROVE KnownInv'
  <2>1. c \in Threads /\ th[c].pc = "created" /\ th[c].pc \in Working
    BY <1>8 DEF Threads, PersistCreated, At, Working, PCs
  <2>2. /\ Become(c, [th[c] EXCEPT !.pc = "write", !.tgt = th[c].job,
                        !.snap = Snapshot(th[c].job, result[th[c].job])])
        /\ UNCHANGED <<status, mem, disk, tmp>>
    BY <1>8 DEF PersistCreated
  <2>3. /\ Others(c) /\ th'[c].pc = "write" /\ th'[c].job = th[c].job
        /\ th'[c].snap = Snapshot(th[c].job, result[th[c].job])
    <3> DEFINE s == Snapshot(th[c].job, result[th[c].job])
    <3> HIDE DEF s
    <3>1. Others(c) /\ th'[c] = [th[c] EXCEPT !.pc = "write", !.tgt = th[c].job, !.snap = s]
      BY <2>1, <2>2, Moves DEF Others, s
    <3>2. th'[c].pc = "write" /\ th'[c].job = th[c].job /\ th'[c].snap = s
      BY <1>a, <2>1, <3>1 DEF ThreadState
    <3>3. QED
      BY <3>1, <3>2 DEF s
  <2>4. QED
    BY <1>7, <1>b, <2>1, <2>2, <2>3
<1>9. ASSUME NEW c \in Clients, Kill(c) \/ Join(c) \/ Pop(c) PROVE KnownInv'
  <2>1. /\ c \in Threads /\ th[c].pc \in Working /\ mem' \subseteq mem
        /\ UNCHANGED <<status, disk, tmp>>
    BY <1>9 DEF Threads, Kill, Join, Pop, At, Working, PCs
  <2>2. \/ Become(c, Finishing(c, th[c].job, "cancelled", {})) /\ UNCHANGED mem
        \/ Goto(c, "join") \/ Goto(c, "unlink")
    BY <1>9 DEF Kill, Join, Pop
  <2>3. QED
    BY <1>2, <1>3, <2>1, <2>2 DEF PCs
<1>10. ASSUME NEW j \in Jobs, Monitor(j) PROVE KnownInv'
  <2>1. /\ j \in Threads /\ th[j].pc \in Working /\ th[j].job \in Jobs
        /\ UNCHANGED <<status, mem, disk, tmp>>
    BY <1>10, <1>b
    DEF Threads, Monitor, TakeEvent, GetTimesOut, CheckWorker, At, Working, PCs
  <2>2. th[j].job = j
    BY <2>1, ThreadAssumption DEF SlotInv, Bookkeeping
  <2>3. CASE TakeEvent(j)
    <3>1. events[j] \in {"completed", "failed"} /\ Samples(j) \in SUBSET Jobs
      BY <2>3 DEF TakeEvent, Samples, TypeInv, TypeOK
    <3>2. Become(j, Finishing(j, j, events[j], Samples(j)))
      BY <2>3 DEF TakeEvent
    <3>3. QED
      BY <1>3, <2>1, <2>2, <3>1, <3>2
  <2>4. CASE GetTimesOut(j)
    BY <1>2, <2>1, <2>4 DEF GetTimesOut, PCs
  <2>5. CASE CheckWorker(j)
    <3>1. \/ Become(j, [th[j] EXCEPT !.pc = "wait"])
          \/ Become(j, Finishing(j, j, "failed", {}))
          \/ Become(j, [Rest EXCEPT !.pc = "ended"])
      BY <2>5 DEF CheckWorker
    <3>2. CASE Become(j, [th[j] EXCEPT !.pc = "wait"])
      <4>1. Goto(j, "wait")
        BY <3>2 DEF Become, Goto
      <4>2. QED
        BY <1>2, <2>1, <4>1 DEF PCs
    <3>3. CASE Become(j, Finishing(j, j, "failed", {}))
      BY <1>3, <2>1, <2>2, <3>3
    <3>4. CASE Become(j, [Rest EXCEPT !.pc = "ended"])
      <4>1. Others(j) /\ th'[j].pc \notin Working /\ th'[j].snap = NoFile
        BY <2>1, <3>4, Moves DEF Others, Rest, Working, PCs
      <4>2. QED
        BY <1>0, <2>1, <4>1, KnownThread
    <3>5. QED
      BY <3>1, <3>2, <3>3, <3>4
  <2>6. QED
    BY <1>10, <2>3, <2>4, <2>5 DEF Monitor
<1>11. ASSUME NEW t \in Threads, CheckGpu(t) \/ StopGpu(t) \/ SetStatus(t) PROVE KnownInv'
  <2>1. /\ th[t].pc \in Working /\ UNCHANGED <<mem, disk, tmp>>
        /\ th[t].want # "none"
    BY <1>11 DEF CheckGpu, StopGpu, SetStatus, At, Working, PCs, TypeInv, ThreadOK
  <2>2. \A j \in Jobs : status'[j] # status[j] => status'[j] # "none"
    BY <1>11, <2>1 DEF CheckGpu, StopGpu, SetStatus, TypeInv, TypeOK
  <2>3. \/ \E pc \in PCs \ {"graft"} : Goto(t, pc)
        \/ Raise(t) /\ UNCHANGED status
    BY <1>11 DEF CheckGpu, StopGpu, SetStatus, AfterGpu, PCs
  <2>4. QED
    BY <1>2, <1>4, <2>1, <2>2, <2>3
<1>12. ASSUME NEW t \in Threads, Merge(t) PROVE KnownInv'
  <2> DEFINE p == parent[th[t].job]
  <2>1. th[t].pc \in Working /\ UNCHANGED <<status, mem, disk, tmp>>
    BY <1>12 DEF Merge, At, Working, PCs
  <2>2. CASE Raise(t)
    BY <1>4, <2>1, <2>2
  <2>3. CASE p \in mem /\ Become(t, [th[t] EXCEPT !.pc = "graft", !.tgt = p,
                                       !.res = Merged(p, th[t].job)])
    <3>1. /\ Others(t) /\ th'[t].pc = "graft" /\ th'[t].job = th[t].job
          /\ th'[t].tgt = p /\ th'[t].snap = th[t].snap
      <4> DEFINE m == Merged(p, th[t].job)
      <4> HIDE DEF m, p
      <4>1. Others(t) /\ th'[t] = [th[t] EXCEPT !.pc = "graft", !.tgt = p, !.res = m]
        BY <2>3, Moves DEF Others, m
      <4>2. QED
        BY <1>a, <4>1 DEF ThreadState
    <3>2. p \in Jobs /\ status[p] # "none"
      BY <2>3 DEF TypeInv, TypeOK, KnownInv
    <3>3. th[t].snap # NoFile => th[t].snap.status # "none"
      BY DEF KnownInv, KnownLocals
    <3>4. KnownLocals(t)'
      BY <1>b, <2>1, <3>1, <3>2, <3>3 DEF KnownLocals
    <3>5. QED
      BY <1>0, <2>1, <3>1, <3>4, KnownMove
  <2>4. QED
    BY <1>12, <2>2, <2>3 DEF Merge
<1>13. ASSUME NEW t \in Threads, Graft(t) \/ SetResult(t) PROVE KnownInv'
  <2> DEFINE x == IF th[t].pc = "graft" THEN th[t].tgt ELSE th[t].job
  <2>1. th[t].pc \in {"graft", "setresult"} /\ UNCHANGED <<status, mem, disk, tmp>>
    BY <1>13 DEF Graft, SetResult, At
  <2>2. x \in Jobs /\ status[x] # "none" /\ th[t].pc \in Working
    BY <2>1 DEF KnownInv, KnownLocals, TypeInv, ThreadOK, Working, PCs
  <2>3. \/ Become(t, [th[t] EXCEPT !.pc = "write", !.snap = Snapshot(x, th[t].res)])
        \/ Become(t, [th[t] EXCEPT !.pc = "write", !.tgt = x,
                        !.snap = Snapshot(x, th[t].res)])
    BY <1>13 DEF Graft, SetResult, At
  <2> HIDE DEF x
  <2>4. /\ Others(t) /\ th'[t].pc = "write" /\ th'[t].job = th[t].job
        /\ th'[t].snap = Snapshot(x, th[t].res)
    <3> DEFINE s == Snapshot(x, th[t].res)
    <3> HIDE DEF s
    <3>1. /\ Others(t)
          /\ \/ th'[t] = [th[t] EXCEPT !.pc = "write", !.snap = s]
             \/ th'[t] = [th[t] EXCEPT !.pc = "write", !.tgt = x, !.snap = s]
      BY <2>3, Moves DEF Others, s
    <3>2. th'[t].pc = "write" /\ th'[t].job = th[t].job /\ th'[t].snap = s
      BY <1>a, <3>1 DEF ThreadState
    <3>3. QED
      BY <3>1, <3>2 DEF s
  <2>5. QED
    BY <1>7, <2>1, <2>2, <2>4
<1>14. ASSUME NEW t \in Threads, Write(t) PROVE KnownInv'
  <2>1. th[t].pc \in Working /\ UNCHANGED <<status, mem, disk>>
    BY <1>14 DEF Write, At, Working, PCs
  <2>2. CASE Raise(t) /\ UNCHANGED tmp
    BY <1>4, <2>1, <2>2
  <2>3. CASE /\ tmp' = [tmp EXCEPT ![th[t].tgt] = th[t].snap]
             /\ Become(t, [th[t] EXCEPT !.pc = "replace", !.snap = NoFile])
    <3>1. /\ Others(t) /\ th'[t].pc = "replace" /\ th'[t].job = th[t].job
          /\ th'[t].snap = NoFile
      <4>1. Others(t) /\ th'[t] = [th[t] EXCEPT !.pc = "replace", !.snap = NoFile]
        BY <2>3, Moves DEF Others
      <4>2. QED
        BY <1>a, <4>1 DEF ThreadState
    <3>2. KnownLocals(t)'
      BY <1>b, <2>1, <3>1 DEF KnownLocals
    <3>3. \A j \in Jobs : tmp'[j] \in {tmp[j], th[t].snap}
      BY <2>3 DEF TypeInv, TypeOK
    <3>4. QED
      BY <1>0, <2>1, <3>1, <3>2, <3>3, KnownMove
  <2>4. QED
    BY <1>14, <2>2, <2>3 DEF Write
<1>15. ASSUME NEW t \in Threads, Replace(t) PROVE KnownInv'
  <2> DEFINE x == th[t].tgt
  <2>1. th[t].pc = "replace" /\ th[t].pc \in Working /\ UNCHANGED <<status, mem>>
    BY <1>15 DEF Replace, At, Working, PCs
  <2>2. CASE tmp[x] = NoFile
    BY <1>4, <1>15, <2>1, <2>2 DEF Replace
  <2>3. CASE tmp[x] # NoFile
    <3>1. /\ \A j \in Jobs : disk'[j] \in {disk[j], tmp[j]}
          /\ \A j \in Jobs : tmp'[j] \in {tmp[j], NoFile}
      BY <1>15, <2>3 DEF Replace, TypeInv, TypeOK
    <3>2. \/ Become(t, Rest)
          \/ Become(t, [th[t] EXCEPT !.pc = "set", !.tgt = NoJob, !.res = result[x]])
          \/ Become(t, [th[t] EXCEPT !.pc = "announce", !.tgt = NoJob, !.res = {}])
      BY <1>15, <2>3 DEF Replace
    <3>3. /\ Others(t) /\ th'[t].snap \in {NoFile, th[t].snap}
          /\ \/ th'[t].pc = "idle"
             \/ th'[t].pc \in {"set", "announce"} /\ th'[t].job = th[t].job
      <4> DEFINE q == result[x]
      <4> HIDE DEF q
      <4>1. /\ Others(t)
            /\ \/ th'[t] = Rest
               \/ th'[t] = [th[t] EXCEPT !.pc = "set", !.tgt = NoJob, !.res = q]
               \/ th'[t] = [th[t] EXCEPT !.pc = "announce", !.tgt = NoJob, !.res = {}]
        BY <3>2, Moves DEF Others, q
      <4>2. CASE th'[t] = Rest
        BY <4>1, <4>2 DEF Rest
      <4>3. CASE th'[t] = [th[t] EXCEPT !.pc = "set", !.tgt = NoJob, !.res = q]
        BY <1>a, <4>1, <4>3 DEF ThreadState
      <4>4. CASE th'[t] = [th[t] EXCEPT !.pc = "announce", !.tgt = NoJob, !.res = {}]
        BY <1>a, <4>1, <4>4 DEF ThreadState
      <4>5. QED
        BY <4>1, <4>2, <4>3, <4>4
    <3>4. KnownLocals(t)'
      <4>1. th[t].snap # NoFile => th[t].snap.status # "none"
        BY DEF KnownInv, KnownLocals
      <4>2. QED
        BY <1>b, <2>1, <3>3, <4>1 DEF KnownLocals, Working, PCs
    <3>5. QED
      BY <1>0, <2>1, <3>1, <3>3, <3>4, KnownMove
  <2>4. QED
    BY <2>2, <2>3
<1>16. ASSUME NEW t \in Threads, Announce(t) PROVE KnownInv'
  <2>1. Become(t, Rest) \/ Become(t, [Rest EXCEPT !.pc = "ended"])
    BY <1>16 DEF Announce
  <2>2. Others(t) /\ th'[t].pc \notin Working /\ th'[t].snap = NoFile
    BY <2>1, Moves DEF Others, Rest, Working, PCs
  <2>3. QED
    BY <1>0, <1>16, <2>2, KnownThread DEF Announce
<1>17. ASSUME NEW j \in Jobs, Report(j) \/ Exit(j) PROVE KnownInv'
  BY <1>17 DEF Report, Exit, KnownInv, KnownLocals
<1>18. CASE Restart
  <2>1. \A t \in Threads : KnownLocals(t)'
    BY <1>18 DEF Restart, KnownLocals, Rest, Working, PCs
  <2>2. \A j \in Jobs : disk[j] # NoFile => Recovered(disk[j].status) # "none"
    BY DEF KnownInv, Recovered
  <2>3. \A j \in Jobs : j \in mem' => status'[j] # "none"
    BY <1>18, <2>2 DEF Restart
  <2>4. UNCHANGED <<disk, tmp>>
    BY <1>18 DEF Restart
  <2>5. QED
    BY <2>1, <2>3, <2>4 DEF KnownInv
<1>19. CASE UNCHANGED vars
  BY <1>19 DEF vars, KnownInv, KnownLocals
<1>20. QED
  BY <1>1, <1>5, <1>6, <1>8, <1>9, <1>10, <1>11, <1>12, <1>13, <1>14, <1>15, <1>16,
     <1>17, <1>18, <1>19
  DEF Next, Request, Serve, Finish

(* In every reachable state what is known has a status. *)
LEMMA KnownInvariant == Spec => [](TypeInv /\ SlotInv /\ KnownInv)
<1>1. Init => KnownInv
  BY DEF Init, InitWith, KnownInv, KnownLocals, Rest, Working, PCs
<1>2. QED
  BY <1>1, KnownStep, SlotInvariant, PTL DEF Spec

-----------------------------------------------------------------------------
(***************************************************************************)
(* The calm invariant holds, and what follows from it.                     *)
(***************************************************************************)

(* The environment only spends, and keeps its limits. *)
LEMMA SpentStep ==
  ASSUME TypeInv, Spent, [Next]_vars
  PROVE  Spent' /\ budget'.given = budget.given
<1>1. \/ budget' = budget
      \/ \E what \in {"cancel", "delete", "restart", "io"} : Spend(what)
  BY DEF Next, Request, Serve, Monitor, Finish, Refuse, ExtensionCheck, Create, Cancel,
     Delete, Start, PersistCreated, Kill, Join, Pop, Unlink, TakeEvent, GetTimesOut,
     CheckWorker, CheckGpu, StopGpu, Merge, Graft, SetStatus, SetResult, Write, Replace,
     Announce, Report, Exit, Restart, vars
<1>2. ASSUME NEW what \in {"cancel", "delete", "restart", "io"}, Spend(what)
      PROVE  Spent' /\ budget'.given = budget.given
  <2>1. budget \in Budgets
    BY DEF TypeInv, TypeOK
  <2>2. /\ budget[what] # 0
        /\ budget' = [budget EXCEPT ![what] = budget[what] - 1]
    BY <1>2 DEF Spend
  <2>3. /\ budget'.given = budget.given
        /\ \A w \in {"cancel", "io", "restart"} : w # what => budget'[w] = budget[w]
    BY <2>1, <2>2 DEF Budgets
  <2>4. QED
    BY <2>2, <2>3 DEF Spent
<1>3. QED
  BY <1>1, <1>2 DEF Spent

(* Where nothing happens, nothing changes. *)
LEMMA CalmStutter == CalmInv /\ UNCHANGED vars => CalmInv'
<1> SUFFICES ASSUME CalmInv, UNCHANGED vars PROVE CalmInv'
  OBVIOUS
<1> USE DEF vars, objects, files, worker
<1>1. \A u \in Threads : /\ Waiting(u)' <=> Waiting(u)
                         /\ Creating(u)' <=> Creating(u)
                         /\ Ending(u)' <=> Ending(u)
                         /\ Grafting(u)' <=> Grafting(u)
                         /\ On(u)' <=> On(u)
                         /\ Busy(u)' <=> Busy(u)
                         /\ \A x : Saves(u, x)' <=> Saves(u, x)
  BY SameThread
<1>2. WaitInv' /\ EndInv' /\ CreateInv' /\ HandsInv' /\ ControlInv'
  BY <1>1 DEF CalmInv, WaitInv, EndInv, CreateInv, HandsInv, Hands, ControlInv, Alone
<1>3. LocalInv' /\ SaverInv' /\ PayloadInv'
  BY <1>1 DEF CalmInv, LocalInv, LocalOK, SaverInv, PayloadInv, Now, Merged
<1>4. MemoryInv' /\ DiskInv'
  BY <1>1 DEF CalmInv, MemoryInv, DiskInv, Agrees
<1>5. QED
  BY <1>2, <1>3, <1>4 DEF CalmInv

(* Every step keeps the calm invariant in a calm environment. *)
LEMMA CalmStep ==
  ASSUME TypeInv, SlotInv, TypeInv', Calm, Spent, CalmInv, [Next]_vars
  PROVE  CalmInv'
<1>1. ASSUME NEW c \in Clients, NEW j \in Jobs, Cancel(c, j) PROVE FALSE
  BY <1>1 DEF Cancel, Spend, Spent, Calm
<1>2. ASSUME NEW c \in Clients, Kill(c) \/ Join(c) PROVE FALSE
  BY <1>2 DEF Kill, Join, At, CalmInv, ControlInv, Threads
<1>3. ASSUME NEW c \in Clients, Request(c) PROVE CalmInv'
  BY <1>1, <1>3, CalmRequest, CalmCreate DEF Request
<1>4. ASSUME NEW c \in Clients, Serve(c) PROVE CalmInv'
  <2>1. c \in Threads
    BY DEF Threads
  <2>2. CASE PersistCreated(c)
    BY <2>1, <2>2, CalmSaving
  <2>3. CASE Start(c)
    BY <2>3, CalmStart
  <2>4. CASE Pop(c) \/ Unlink(c)
    BY <2>4, CalmRequest
  <2>5. QED
    BY <1>2, <1>4, <2>2, <2>3, <2>4 DEF Serve
<1>5. ASSUME NEW j \in Jobs, Monitor(j) \/ Report(j) \/ Exit(j) PROVE CalmInv'
  BY <1>5, CalmMonitor, CalmWorker
<1>6. ASSUME NEW t \in Threads, Finish(t) PROVE CalmInv'
  <2>1. CASE CheckGpu(t) \/ StopGpu(t) \/ Merge(t)
    BY <2>1, CalmFinish
  <2>2. CASE Graft(t) \/ SetStatus(t) \/ SetResult(t) \/ Write(t)
    BY <2>2, CalmSaving
  <2>3. CASE Replace(t)
    BY <2>3, CalmReplace
  <2>4. CASE Announce(t)
    BY <2>4, CalmAnnounce
  <2>5. QED
    BY <1>6, <2>1, <2>2, <2>3, <2>4 DEF Finish
<1>7. CASE Restart
  BY <1>7, CalmRestart
<1>8. CASE UNCHANGED vars
  BY <1>8, CalmStutter
<1>9. QED
  BY <1>3, <1>4, <1>5, <1>6, <1>7, <1>8 DEF Next

(* The invariants of a calm environment hold in every reachable state. *)
LEMMA CalmInvariant == Spec => [](TypeInv /\ SlotInv /\ CalmOK)
<1>1. Init => CalmOK
  <2> SUFFICES ASSUME NEW l \in Limits, InitWith(l) PROVE CalmOK
    BY DEF Init
  <2>1. \A t \in Threads : th[t].pc = "idle"
    BY DEF InitWith, Rest
  <2>2. \A t \in Threads : /\ ~ Waiting(t) /\ ~ Creating(t) /\ ~ Ending(t) /\ ~ Grafting(t)
                           /\ ~ On(t) /\ \A x : ~ Saves(t, x)
    BY <2>1 DEF Waiting, Creating, Ending, Grafting, On, Busy, Saves
  <2>3. WaitInv /\ EndInv /\ CreateInv /\ HandsInv /\ SaverInv
    BY <2>1, <2>2 DEF WaitInv, EndInv, CreateInv, HandsInv, SaverInv
  <2>4. ControlInv
    BY <2>1, <2>2, ThreadAssumption DEF InitWith, ControlInv
  <2>5. LocalInv /\ PayloadInv
    BY <2>1, <2>2 DEF LocalInv, LocalOK, PayloadInv
  <2>6. MemoryInv /\ DiskInv
    BY <2>1 DEF InitWith, MemoryInv, DiskInv, Fits, Agrees
  <2>7. Spent
    BY DEF InitWith, Spent
  <2>8. QED
    BY <2>3, <2>4, <2>5, <2>6, <2>7 DEF CalmOK, CalmInv
<1>2. TypeInv /\ SlotInv /\ TypeInv' /\ CalmOK /\ [Next]_vars => CalmOK'
  <2> SUFFICES ASSUME TypeInv, SlotInv, TypeInv', CalmOK, [Next]_vars PROVE CalmOK'
    OBVIOUS
  <2>1. Spent' /\ budget'.given = budget.given
    BY SpentStep DEF CalmOK
  <2>2. Calm' <=> Calm
    BY <2>1 DEF Calm
  <2>3. Calm => CalmInv'
    BY CalmStep DEF CalmOK
  <2>4. QED
    BY <2>1, <2>2, <2>3 DEF CalmOK
<1>3. QED
  BY <1>1, <1>2, SlotInvariant, PTL DEF Spec

(* While nobody cancels and no write fails, every ended analysis nobody works on
   has the result its status promises, and its record on disk says the same,
   after any deletions and crashes, for any number of requests and runs. *)
THEOREM RecordsStayTrue == Spec => []RecordsAgree
<1>1. TypeInv /\ KnownInv /\ CalmOK => RecordsAgree
  <2> SUFFICES ASSUME TypeInv, KnownInv, CalmInv PROVE DiskAgrees /\ ResultMatchesStatus
    BY DEF CalmOK, RecordsAgree
  <2>1. ASSUME NEW j \in Jobs, Settled(j), NEW t \in Threads, Saves(t, j) PROVE FALSE
    BY <2>1 DEF Settled, Touches, Saves
  <2>2. ASSUME NEW j \in Jobs, Settled(j), NEW t \in Threads, th[t].pc = "setresult"
        PROVE  th[t].job # j
    BY <2>2 DEF Settled, Touches
  <2>3. ASSUME NEW j \in Jobs, Settled(j)
        PROVE  Fits(j, status[j], result[j])
    BY <2>2, <2>3 DEF CalmInv, MemoryInv
  <2>4. ASSUME NEW j \in Jobs, Settled(j), status[j] \in Terminal
        PROVE  Agrees(j)
    BY <2>1, <2>4 DEF CalmInv, DiskInv, Settled
  <2>5. \A j \in Jobs : Settled(j) /\ status[j] \notin Active => status[j] \in Terminal
    BY DEF KnownInv, Settled, TypeInv, TypeOK, Status
  <2>6. QED
    BY <2>3, <2>4, <2>5 DEF DiskAgrees, ResultMatchesStatus, Agrees, Fits
<1>2. QED
  BY <1>1, CalmInvariant, KnownInvariant, PTL

(* The steps that change the status or the result of a run. *)
LEMMA MemoryStep ==
  ASSUME TypeInv, [Next]_vars
  PROVE  \/ UNCHANGED <<status, result>>
         \/ Restart
         \/ \E c \in Clients, j \in Jobs : Create(c, j)
         \/ \E c \in Clients : Start(c)
         \/ \E t \in Threads : Graft(t) \/ SetStatus(t) \/ SetResult(t)
BY DEF Next, Request, Serve, Monitor, Finish, Refuse, ExtensionCheck, Cancel, Delete,
   PersistCreated, Kill, Join, Pop, Unlink, TakeEvent, GetTimesOut, CheckWorker, CheckGpu,
   StopGpu, Merge, Write, Replace, Announce, Report, Exit, vars, objects

(* The result of a completed run that has been announced is there, and only a
   restart, or the merge of an extension, touches either. *)
LEMMA SurvivalStep ==
  ASSUME TypeInv, SlotInv, Calm, Spent, CalmInv, [Next]_vars
  PROVE  /\ KeepsCompleted
         /\ budget.given.restart = 0 => KeepsSamples
<1> USE DEF objects, files, worker
<1>1. ASSUME NEW j \in Jobs, status[j] = "completed", done[j]
      PROVE  /\ j \in result[j]
             /\ \A t \in Threads : On(t) => th[t].job # j
  <2>1. \A t \in Threads : On(t) => th[t].job # j
    BY <1>1 DEF CalmInv, ControlInv
  <2>2. \A t \in Threads : th[t].pc = "setresult" => th[t].job # j
    BY <2>1 DEF On, Busy
  <2>3. QED
    BY <1>1, <2>1, <2>2 DEF CalmInv, MemoryInv, Fits
<1>2. mem \subseteq Jobs
  BY DEF TypeInv, TypeOK
<1>3. CASE UNCHANGED <<status, result>>
  BY <1>1, <1>2, <1>3 DEF KeepsCompleted, KeepsSamples
<1>4. CASE Restart
  <2>1. budget.given.restart # 0
    BY <1>4 DEF Restart, Spend, Spent
  <2>2. ASSUME NEW j \in Jobs, j \in mem, status[j] = "completed", done[j]
        PROVE  status'[j] = "completed" /\ result'[j] # {}
    <3>1. disk[j] # NoFile /\ disk[j].status = "completed" /\ j \in disk[j].result
      BY <2>2 DEF CalmInv, DiskInv, Fits
    <3>2. QED
      BY <1>4, <3>1 DEF Restart, Recovered, Active
  <2>3. QED
    BY <1>2, <2>1, <2>2 DEF KeepsCompleted
<1>5. ASSUME NEW c \in Clients, NEW k \in Jobs, Create(c, k)
      PROVE  KeepsCompleted /\ KeepsSamples
  <2>1. /\ result' = result /\ status' = [status EXCEPT ![k] = "queued"] /\ k \notin issued
    BY <1>5 DEF Create
  <2>2. ~ done[k]
    BY <2>1 DEF CalmInv, ControlInv
  <2>3. QED
    BY <1>1, <1>2, <2>1, <2>2 DEF KeepsCompleted, KeepsSamples, TypeInv, TypeOK
<1>6. ASSUME NEW c \in Clients, Start(c) PROVE KeepsCompleted /\ KeepsSamples
  <2> DEFINE k == th[c].job
  <2>1. result' = result /\ status' = [status EXCEPT ![k] = "running"] /\ th[c].pc = "start"
    BY <1>6 DEF Start, At
  <2>2. k \in Jobs /\ status[k] = "queued"
    BY <2>1, StarterAlone
  <2>3. QED
    BY <1>1, <1>2, <2>1, <2>2 DEF KeepsCompleted, KeepsSamples, TypeInv, TypeOK
<1>7. ASSUME NEW t \in Threads, Graft(t) PROVE KeepsCompleted /\ KeepsSamples
  <2> DEFINE p == th[t].tgt
  <2>1. /\ status' = status /\ result' = [result EXCEPT ![p] = th[t].res]
        /\ th[t].pc = "graft"
    BY <1>7 DEF Graft, At
  <2>2. th[t].res = result[p] \cup {th[t].job}
    BY <2>1 DEF CalmInv, LocalInv, LocalOK, Merged
  <2>3. \A j \in Jobs : result[j] \subseteq result'[j]
    BY <2>1, <2>2 DEF TypeInv, TypeOK
  <2>4. QED
    BY <1>1, <1>2, <2>1, <2>3 DEF KeepsCompleted, KeepsSamples
<1>8. ASSUME NEW t \in Threads, SetStatus(t) PROVE KeepsCompleted /\ KeepsSamples
  <2>1. /\ status' = [status EXCEPT ![th[t].job] = th[t].want] /\ result' = result
        /\ On(t)
    BY <1>8 DEF SetStatus, At, On, Busy
  <2>2. QED
    BY <1>1, <1>2, <2>1 DEF KeepsCompleted, KeepsSamples, TypeInv, TypeOK
<1>9. ASSUME NEW t \in Threads, SetResult(t) PROVE KeepsCompleted /\ KeepsSamples
  <2>1. /\ result' = [result EXCEPT ![th[t].job] = th[t].res] /\ status' = status
        /\ On(t) /\ th[t].pc = "setresult" /\ th[t].job \in Jobs
    BY <1>9, LocalJob DEF SetResult, At, On, Busy
  <2>2. result[th[t].job] = {}
    BY <2>1 DEF CalmInv, MemoryInv, Fits
  <2>3. \A j \in Jobs : j # th[t].job => result'[j] = result[j]
    BY <2>1 DEF TypeInv, TypeOK
  <2>4. KeepsCompleted
    BY <1>1, <1>2, <2>1, <2>3 DEF KeepsCompleted
  <2>5. KeepsSamples
    BY <1>2, <2>2, <2>3 DEF KeepsSamples
  <2>6. QED
    BY <2>4, <2>5
<1>10. QED
  BY <1>3, <1>4, <1>5, <1>6, <1>7, <1>8, <1>9, MemoryStep

(* While nobody cancels and no write fails, an analysis announced as completed
   stays completed with its result, over crashes too, and unless the process is
   killed no step loses a sample of it. *)
THEOREM MergedSamplesSurvive == Spec => SamplesSurvive
<1>1. TypeInv /\ SlotInv /\ CalmOK /\ [Next]_vars =>
        [Calm => KeepsCompleted /\ (budget.given.restart = 0 => KeepsSamples)]_vars
  BY SurvivalStep DEF CalmOK
<1>2. QED
  BY <1>1, CalmInvariant, PTL DEF Spec, SamplesSurvive
=============================================================================
