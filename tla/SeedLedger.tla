----------------------------- MODULE SeedLedger -----------------------------
(***************************************************************************)
(* Seeds and samples of one decision point: the history store              *)
(* (src/mortal_app/history_store.py), the reservation of seeds in          *)
(* _create_job (src/apps/api/job_manager.py), the reduction at the end of  *)
(* run_analysis and the merging of extensions (src/mortal_app/service.py). *)
(*                                                                         *)
(* The API process keeps an LRU cache over the SQLite table; the worker    *)
(* process of each run has a HistoryStore of its own over the same table.  *)
(* A worker process started by "spawn" begins with an empty cache, one     *)
(* started by "fork" with a copy of the cache of the API process.          *)
(*                                                                         *)
(* A worker reads the row of its position, reduces its games into what it  *)
(* has read, and saves: two transactions, between which another process    *)
(* may write.  One operation is active at a time (AtMostOneActive of       *)
(* JobManager), but a worker need not end with its operation: cancel does  *)
(* not look whether join(timeout=3) succeeded, and when the API process    *)
(* dies nobody ends its workers.  Every simulated game completes.          *)
(***************************************************************************)
EXTENDS Naturals, FiniteSets, FiniteSetsExt

CONSTANTS Cands,        \* first actions that can be compared
          Tile,         \* the tile a candidate discards, named by its plain discard
          Analyses,     \* ids of analyses
          NoOne, NoRow, \* no analysis or operation, no record
          SeedChoices, RunChoices,   \* what requests may ask for
          MaxOps,       \* bound on the operations started
          StartMethod,  \* of multiprocessing: "spawn" or "fork"
          Outlive       \* what a worker may survive: "cancel", "crash"

ASSUME CandAssumption ==
  /\ IsFiniteSet(Cands) /\ Tile \in [Cands -> Cands]
  /\ NoOne \notin Analyses
ASSUME NumberAssumption ==
  /\ SeedChoices \subseteq Nat /\ RunChoices \subseteq Nat \ {0} /\ MaxOps \in Nat
ASSUME StartAssumption ==
  StartMethod \in {"spawn", "fork"} /\ Outlive \subseteq {"cancel", "crash"}

VARIABLES rows,     \* canonical_history: one row per fingerprint
          lru,      \* the cache of the API process
          op,       \* the active operation, or NoOne
          workers,  \* worker processes: their task and cache, the row they have
                    \* read or saved, and whether a monitor listens to them
          results,  \* result of each analysis
          started,  \* number of operations started
          paid      \* history: the games saved for each row and candidate

vars == <<rows, lru, op, workers, results, started, paid>>

(***************************************************************************)
(* Fingerprints.  Everything but the names of the candidates is fixed: a   *)
(* new request names a candidate by its identity, the request an extension *)
(* is built from by its tile only.                                         *)
(***************************************************************************)
Named(cs, explicit) ==
  [name \in Cands |->
     Cardinality({c \in cs : (IF explicit THEN c ELSE Tile[c]) = name})]
Fingerprints == {Named(cs, e) : cs \in SUBSET Cands, e \in BOOLEAN}

(***************************************************************************)
(* Accumulators.  n is the count of games; seen, which the code does not   *)
(* keep, their seeds: the seed and the candidate determine a game.         *)
(***************************************************************************)
NoGames == [n |-> 0, seen |-> {}, last |-> 0]
EmptyAcc == [c \in Cands |-> NoGames]
SeedRange(seed, runs) == seed .. (seed + runs - 1)
Games(o) == SeedRange(o.seed, o.runs)

EndSeedUnmoved(o) == o.seed   \* mutant: the runs are not added
EndSeed(o) == o.seed + o.runs

Reduced(a, o) ==              \* CandidateAccumulator.reduce_with
  [n |-> a.n + o.runs, seen |-> a.seen \cup Games(o),
   last |-> IF a.n = 0 \/ a.last < EndSeed(o) THEN EndSeed(o) ELSE a.last]

Row(acc) ==                   \* the record save_reduction builds
  [acc |-> acc, total |-> Max({acc[c].n : c \in Cands}),
   last |-> Max({acc[c].last : c \in Cands})]

-----------------------------------------------------------------------------
Init ==
  /\ rows = [f \in Fingerprints |-> NoRow]
  /\ lru = [f \in Fingerprints |-> NoRow]
  /\ op = NoOne
  /\ workers = {}
  /\ results = [a \in Analyses |-> NoRow]
  /\ started = 0
  /\ paid = [f \in Fingerprints |-> [c \in Cands |-> [n |-> 0, seen |-> {}]]]

(* HistoryStore.get: the cache first, then the table; a miss is not cached. *)
Get(cache, f) == IF cache # NoRow THEN cache ELSE rows[f]

(* The seed reservation of _create_job. *)
ReservedNever(rec, seed) == seed     \* mutant: no reservation
Reserved(rec, seed) ==
  IF rec # NoRow /\ rec.last > 0 /\ seed <= rec.last THEN rec.last + 1 ELSE seed

Begin(a, mode, cs, ref, f, seed, runs) ==
  LET rec == Get(lru[f], f) IN
  /\ op = NoOne /\ started < MaxOps /\ started' = started + 1
  /\ lru' = [lru EXCEPT ![f] = rec]
  /\ op' = [id |-> started + 1, analysis |-> a, mode |-> mode, cands |-> cs,
            ref |-> ref, fp |-> f, seed |-> Reserved(rec, seed), runs |-> runs]
  /\ workers' = workers \cup
       {[task |-> op', cache |-> IF StartMethod = "fork" THEN rec ELSE NoRow,
         phase |-> "simulates", row |-> NoRow, heard |-> TRUE]}
  /\ UNCHANGED <<rows, results, paid>>

(* create: a new analysis, of which no worker is left. *)
Create(a, cs, ref, seed, runs) ==
  /\ results[a] = NoRow /\ ref \in cs
  /\ \A w \in workers : w.heard => w.task.analysis # a
  /\ Begin(a, "new", cs, ref, Named(cs, TRUE), seed, runs)

(* create_extension with additional_runs ... *)
ExtendRuns(a, runs) ==
  LET r == results[a] IN
  /\ r # NoRow
  /\ Begin(a, "runs", r.cands, r.ref, Named(r.cands, FALSE),
           r.seed + r.total, runs)

(* ... and with new candidates: the reference runs again with them. *)
ExtendCandidates(a, new) ==
  LET r == results[a]
      cs == {r.ref} \cup new
  IN
  /\ r # NoRow /\ new # {} /\ new \cap r.cands = {}
  /\ Begin(a, "candidates", cs, r.ref, Named(cs, FALSE), r.seed, r.total)

(* A worker that has simulated its games reads the row of the position ... *)
ReadRow(w) ==
  /\ w.phase = "simulates"
  /\ workers' = (workers \ {w}) \cup
       {[w EXCEPT !.phase = "reduces", !.row = Get(w.cache, w.task.fp)]}
  /\ UNCHANGED <<rows, lru, op, results, started, paid>>

(* ... reduces its games into what it has read, and saves that. *)
AccOf(r) == IF r = NoRow THEN EmptyAcc ELSE r.acc
Extended(acc, o) ==
  [c \in Cands |-> IF c \in o.cands THEN Reduced(acc[c], o) ELSE acc[c]]
SavedBy(w) == Row(Extended(AccOf(w.row), w.task))

PaidWith(p, o) ==
  [c \in Cands |-> IF c \in o.cands
                   THEN [n |-> p[c].n + o.runs, seen |-> p[c].seen \cup Games(o)]
                   ELSE p[c]]

SaveRow(w) ==
  /\ w.phase = "reduces"
  /\ rows' = [rows EXCEPT ![w.task.fp] = SavedBy(w)]
  /\ paid' = [paid EXCEPT ![w.task.fp] = PaidWith(@, w.task)]
  /\ workers' = (workers \ {w}) \cup
       (IF w.heard THEN {[w EXCEPT !.phase = "saved", !.row = SavedBy(w)]} ELSE {})
  /\ UNCHANGED <<lru, op, results, started>>

(***************************************************************************)
(* Results.  For each candidate: n, the games the displayed mean claims;   *)
(* sum, the games in its persisted sum; seeds, the seeds of those games.   *)
(* The worker overwrites value and n with those of the history, not the    *)
(* sums.                                                                   *)
(***************************************************************************)
NoStat == [n |-> 0, sum |-> 0, seeds |-> {}]

Outcome(o, row) ==    \* the result of run_analysis
  [seed |-> o.seed, runs |-> o.runs, total |-> row.total, cands |-> o.cands,
   ref |-> o.ref,
   ranges |-> {<<o.seed, o.seed + o.runs - 1>>},
   stat |-> [c \in Cands |->
      IF c \in o.cands
      THEN [n |-> row.acc[c].n, sum |-> o.runs,
            seeds |-> SeedRange(o.seed, o.runs)]
      ELSE NoStat]]

MergedMean(x, y) ==        \* _merge_mean
  [n |-> x.n + y.n, sum |-> x.sum + y.sum, seeds |-> x.seeds \cup y.seeds]

MergeRuns(base, extra) ==
  [base EXCEPT !.runs = @ + extra.runs, !.total = base.runs + extra.runs,
     !.ranges = @ \cup extra.ranges,
     !.stat = [c \in Cands |-> IF c \in base.cands
                               THEN MergedMean(base.stat[c], extra.stat[c])
                               ELSE NoStat]]

CanMergeRuns(base, extra) ==   \* a missing candidate is a KeyError
  base.cands \subseteq extra.cands

(* "must use the original seed range and run count", nothing "already analyzed" *)
CanMergeCandidates(base, extra) ==
  /\ extra.runs = base.total /\ extra.seed = base.seed
  /\ extra.cands \cap base.cands \subseteq {base.ref}

MergeCandidates(base, extra) ==
  [base EXCEPT !.runs = base.total, !.cands = @ \cup extra.cands,
     !.stat = [c \in Cands |-> IF c \in extra.cands \ {base.ref}
                               THEN extra.stat[c] ELSE base.stat[c]]]

(* An operation ends with its worker. *)
Leaves(w) ==
  /\ workers' = workers \ {w}
  /\ op' = IF op = w.task THEN NoOne ELSE op

(***************************************************************************)
(* The monitor receives the result: it is stored, merged or refused.  A    *)
(* monitor does not ask whether its job has been cancelled meanwhile.      *)
(***************************************************************************)
Deliver(w) ==
  /\ w.phase = "saved"
  /\ LET a == w.task.analysis
         extra == Outcome(w.task, w.row)
     IN  results' = [results EXCEPT ![a] =
           CASE w.task.mode = "new" -> extra
             [] w.task.mode = "runs" ->
                  IF CanMergeRuns(@, extra) THEN MergeRuns(@, extra) ELSE @
             [] w.task.mode = "candidates" ->
                  IF CanMergeCandidates(@, extra) THEN MergeCandidates(@, extra) ELSE @]
  /\ Leaves(w)
  /\ UNCHANGED <<rows, lru, started, paid>>

(* A worker raises or dies, or the monitor misses or cannot store its result. *)
Fail(w) ==
  /\ Leaves(w)
  /\ UNCHANGED <<rows, lru, results, started, paid>>

(* cancel: the worker is gone, or survives; a result in its queue always does. *)
CancelAlone ==       \* mutant: nobody terminates the worker
  /\ op # NoOne /\ op' = NoOne
  /\ UNCHANGED <<rows, lru, workers, results, started, paid>>
Cancel ==
  /\ op # NoOne /\ op' = NoOne
  /\ \/ workers' = {w \in workers : w.task # op}
     \/ /\ \A w \in workers : w.task = op => w.phase = "saved" \/ "cancel" \in Outlive
        /\ workers' = workers
  /\ UNCHANGED <<rows, lru, results, started, paid>>

(* The application restarts, with or without an active operation.  Nobody
   listens to a worker that is still alive. *)
Restart ==
  /\ op' = NoOne
  /\ lru' = [f \in Fingerprints |-> NoRow]
  /\ \E alive \in SUBSET {w \in workers : w.phase # "saved"} :
       /\ "crash" \in Outlive \/ alive = {}
       /\ workers' = {[w EXCEPT !.heard = FALSE] : w \in alive}
  /\ UNCHANGED <<rows, results, started, paid>>

Next ==
  \/ \E a \in Analyses, cs \in SUBSET Cands, seed \in SeedChoices,
        runs \in RunChoices : \E ref \in cs : Create(a, cs, ref, seed, runs)
  \/ \E a \in Analyses, runs \in RunChoices : ExtendRuns(a, runs)
  \/ \E a \in Analyses, new \in SUBSET Cands : ExtendCandidates(a, new)
  \/ \E w \in workers : ReadRow(w) \/ SaveRow(w) \/ Deliver(w) \/ Fail(w)
  \/ Cancel \/ Restart

Spec == Init /\ [][Next]_vars

-----------------------------------------------------------------------------
AccType == [n : Nat, seen : SUBSET Nat, last : Nat]
RowType == [acc : [Cands -> AccType], total : Nat \ {0}, last : Nat \ {0}]
StatType == [n : Nat, sum : Nat, seeds : SUBSET Nat]
OpType == [id : Nat, analysis : Analyses, mode : {"new", "runs", "candidates"},
           cands : SUBSET Cands, ref : Cands, fp : Fingerprints, seed : Nat,
           runs : Nat \ {0}]
WorkerType == [task : OpType, cache : RowType \cup {NoRow},
               phase : {"simulates", "reduces", "saved"},
               row : RowType \cup {NoRow}, heard : BOOLEAN]
PaidType == [n : Nat, seen : SUBSET Nat]
ResultType == [seed : Nat, runs : Nat \ {0}, total : Nat \ {0},
               cands : SUBSET Cands, ref : Cands,
               ranges : SUBSET (Nat \X Nat), stat : [Cands -> StatType]]

(* What stands for nothing is nothing else. *)
ASSUME NothingAssumption ==
  NoRow \notin RowType /\ NoRow \notin ResultType /\ NoOne \notin OpType

(* Types of all variables. *)
TypeOK ==
  /\ rows \in [Fingerprints -> RowType \cup {NoRow}]
  /\ lru \in [Fingerprints -> RowType \cup {NoRow}]
  /\ op \in OpType \cup {NoOne}
  /\ workers \subseteq WorkerType
  /\ results \in [Analyses -> ResultType \cup {NoRow}]
  /\ started \in Nat
  /\ paid \in [Fingerprints -> [Cands -> PaidType]]

(***************************************************************************)
(* What holds.                                                             *)
(***************************************************************************)

(* The last seed of a row lies beyond every game the row counts, and beyond
   every game of every analysis whose worker saved into it. *)
RowCoversItsGames ==
  \A f \in Fingerprints : rows[f] # NoRow =>
    \A c \in Cands : \A g \in rows[f].acc[c].seen : g < rows[f].last

(* The history holds exactly the games that were saved into it, of whatever
   operation, whoever was cancelled, failed or restarted between the read and
   the save of another: none lost, none added by a second reduction of the same
   games ("Atomically reduce and save accumulators", save_reduction). *)
HistoryIsExact ==
  \A f \in Fingerprints, c \in Cands :
    /\ AccOf(rows[f])[c].n = paid[f][c].n
    /\ AccOf(rows[f])[c].seen = paid[f][c].seen

(* As long as the cached record is not older than the table, a new operation
   is given seeds that its history has never counted. *)
Fresh(f) == lru[f] \in {NoRow, rows[f]}
FreshCacheMeansFreshSeeds ==
  [][(op = NoOne /\ op' # NoOne /\ Fresh(op'.fp) /\ rows[op'.fp] # NoRow) =>
       \A c \in Cands : \A g \in rows[op'.fp].acc[c].seen :
          g \notin SeedRange(op'.seed, op'.runs)]_vars

(* An extension never takes a candidate, a game or a seed away from the
   analysis it extends. *)
AnalysesOnlyGrow ==
  [][\A a \in Analyses : results[a] # NoRow =>
       /\ results[a].cands \subseteq results'[a].cands
       /\ \A c \in results[a].cands :
            /\ results[a].stat[c].sum <= results'[a].stat[c].sum
            /\ results[a].stat[c].seeds \subseteq results'[a].stat[c].seeds]_vars

(***************************************************************************)
(* What the documents and comments say.                                    *)
(***************************************************************************)

(* No game is counted twice in the history: "ensure continuous non-colliding
   seeds for incremental rollouts" (_create_job). *)
NoGameTwice ==
  \A f \in Fingerprints : rows[f] # NoRow =>
    \A c \in Cands : rows[f].acc[c].n = Cardinality(rows[f].acc[c].seen)
=============================================================================
