-------------------------- MODULE SeedLedgerProofs --------------------------
(***************************************************************************)
(* What the ledger of seeds and samples promises, for any candidates,      *)
(* analyses, seeds, sizes of runs and number of operations.                *)
(***************************************************************************)
EXTENDS SeedLedger, SetInduction, TLAPS

(* The games of an accumulator end before its last seed, and those of a     *)
(* record before the last seed of the record.                               *)
Covered(acc) == /\ acc.n = 0 => acc.seen = {}
                /\ \A g \in acc.seen : g < acc.last
RowCovered(row) == \A c \in Cands : Covered(row.acc[c]) /\ row.acc[c].last <= row.last

(* The rows, and the copies of them that caches hold. *)
Records == RowType \cup {NoRow}
RecordOK(r) == r \in Records /\ (r # NoRow => RowCovered(r))
RowsInv == /\ rows \in [Fingerprints -> Records]
           /\ lru \in [Fingerprints -> Records]
           /\ \A f \in Fingerprints : RecordOK(rows[f]) /\ RecordOK(lru[f])

(* A worker runs its reference, works on records in order, and has a row when
   it has saved. *)
WorkerOK(w) == /\ w \in WorkerType /\ w.task.ref \in w.task.cands
               /\ RecordOK(w.cache) /\ RecordOK(w.row)
               /\ w.phase = "saved" => w.row # NoRow /\ w.heard
WorkersInv == \A w \in workers : WorkerOK(w)

(* A new analysis has no result yet, and one worker a monitor listens to; an
   extension has a result to extend. *)
ModeInv ==
  /\ \A w \in workers : w.heard =>
       /\ w.task.mode = "new" => results[w.task.analysis] = NoRow
       /\ w.task.mode # "new" => results[w.task.analysis] # NoRow
  /\ \A v, w \in workers :
       (v.heard /\ w.heard /\ v.task.mode = "new" /\ w.task.analysis = v.task.analysis)
         => v = w

ResultsInv == /\ results \in [Analyses -> ResultType \cup {NoRow}]
              /\ \A a \in Analyses : results[a] # NoRow => results[a].ref \in results[a].cands

PaidInv == paid \in [Fingerprints -> [Cands -> PaidType]]

LedgerInv == /\ RowsInv /\ WorkersInv /\ ModeInv /\ ResultsInv /\ PaidInv
             /\ op \in OpType \cup {NoOne} /\ started \in Nat

-----------------------------------------------------------------------------
(* Operators.                                                              *)

(* A maximum is the value of one candidate and bounds those of all. *)
LEMMA MaxOfCands ==
  ASSUME NEW h \in [Cands -> Nat], Cands # {}
  PROVE  /\ Max({h[c] : c \in Cands}) \in Nat
         /\ \A c \in Cands : h[c] <= Max({h[d] : d \in Cands})
<1> DEFINE S == {h[c] : c \in Cands}
<1>1. PICK c \in Cands : \A d \in Cands : h[d] <= h[c]
  BY CandAssumption, GreatestValue
<1>2. h[c] \in S /\ \A y \in S : h[c] >= y
  BY <1>1
<1>3. S \subseteq Nat
  OBVIOUS
<1> HIDE DEF S
<1>4. Max(S) \in S /\ \A y \in S : Max(S) >= y
  BY <1>2 DEF Max
<1> QED BY <1>3, <1>4 DEF S

(* A record of well-typed accumulators, one of them with games, is a row that
   reaches as far as each of them. *)
LEMMA RowOfAccs ==
  ASSUME NEW acc \in [Cands -> AccType], NEW r \in Cands, acc[r].n > 0, acc[r].last > 0,
         \A c \in Cands : Covered(acc[c])
  PROVE  Row(acc) \in RowType /\ RowCovered(Row(acc)) /\ Row(acc).acc = acc
<1> DEFINE N == [c \in Cands |-> acc[c].n]
           L == [c \in Cands |-> acc[c].last]
<1>1. N \in [Cands -> Nat] /\ L \in [Cands -> Nat]
  BY DEF AccType
<1>2. {acc[c].n : c \in Cands} = {N[c] : c \in Cands}
  OBVIOUS
<1>3. {acc[c].last : c \in Cands} = {L[c] : c \in Cands}
  OBVIOUS
<1>4. N[r] > 0 /\ L[r] > 0 /\ N[r] \in Nat /\ L[r] \in Nat
  BY <1>1
<1>5. \A c \in Cands : L[c] = acc[c].last
  OBVIOUS
<1> HIDE DEF N, L
<1>6. Max({N[c] : c \in Cands}) \in Nat \ {0}
  BY <1>1, <1>4, MaxOfCands
<1>7. Max({L[c] : c \in Cands}) \in Nat \ {0}
  BY <1>1, <1>4, MaxOfCands
<1>8. \A c \in Cands : acc[c].last <= Max({L[d] : d \in Cands})
  BY <1>1, <1>5, MaxOfCands
<1>9. Row(acc) = [acc |-> acc, total |-> Max({N[c] : c \in Cands}),
                  last |-> Max({L[c] : c \in Cands})]
  BY <1>2, <1>3 DEF Row
<1> HIDE DEF Row
<1> QED BY <1>6, <1>7, <1>8, <1>9 DEF RowType, RowCovered

(* Reducing the games of an operation adds them, loses none, and moves the
   last seed behind them. *)
LEMMA ReducedAcc ==
  ASSUME NEW a \in AccType, Covered(a), NEW o \in OpType
  PROVE  /\ Reduced(a, o) \in AccType /\ Covered(Reduced(a, o))
         /\ Reduced(a, o).n > 0 /\ Reduced(a, o).last > 0
         /\ a.n <= Reduced(a, o).n /\ a.seen \subseteq Reduced(a, o).seen
<1>1. o.seed \in Nat /\ o.runs \in Nat \ {0} /\ a.n \in Nat /\ a.last \in Nat
      /\ a.seen \in SUBSET Nat
  BY DEF OpType, AccType
<1>2. EndSeed(o) \in Nat /\ EndSeed(o) > 0 /\ Games(o) \subseteq Nat
      /\ \A g \in Games(o) : g < EndSeed(o)
  BY <1>1 DEF EndSeed, Games, SeedRange
<1>3. Reduced(a, o).n \in Nat /\ Reduced(a, o).n > 0 /\ a.n <= Reduced(a, o).n
  BY <1>1 DEF Reduced
<1>4. Reduced(a, o).seen = a.seen \cup Games(o)
  BY DEF Reduced
<1>5. Reduced(a, o).last = IF a.n = 0 \/ a.last < EndSeed(o) THEN EndSeed(o) ELSE a.last
  BY DEF Reduced
<1>6. Reduced(a, o).last \in Nat /\ Reduced(a, o).last >= EndSeed(o)
  BY <1>1, <1>2, <1>5
<1>7. \A g \in Reduced(a, o).seen : g < Reduced(a, o).last
  <2> SUFFICES ASSUME NEW g \in Reduced(a, o).seen PROVE g < Reduced(a, o).last
    OBVIOUS
  <2>1. CASE g \in Games(o)
    BY <1>1, <1>2, <1>6, <2>1
  <2>2. CASE g \in a.seen
    <3>1. a.n # 0 /\ g < a.last /\ g \in Nat
      BY <1>1, <2>2 DEF Covered
    <3> QED BY <1>1, <1>2, <1>5, <3>1
  <2> QED BY <1>4, <2>1, <2>2
<1>8. Reduced(a, o) \in AccType
  BY <1>1, <1>2, <1>3, <1>4, <1>6 DEF AccType, Reduced
<1> QED BY <1>1, <1>2, <1>3, <1>4, <1>6, <1>7, <1>8 DEF Covered

(* What a worker or the API process reads is a record in order. *)
LEMMA GetRecord ==
  ASSUME RowsInv, NEW f \in Fingerprints, NEW r, RecordOK(r)
  PROVE  RecordOK(Get(r, f))
BY DEF RowsInv, Get

(* A reserved seed is a seed, and never before the last one of the record. *)
LEMMA ReservedSeed ==
  ASSUME NEW r, RecordOK(r), NEW seed \in Nat
  PROVE  Reserved(r, seed) \in Nat /\ (r # NoRow => Reserved(r, seed) > r.last)
<1>1. CASE r = NoRow
  BY <1>1 DEF Reserved
<1>2. CASE r # NoRow
  <2>1. r.last \in Nat \ {0}
    BY <1>2 DEF RecordOK, Records, RowType
  <2> QED BY <1>2, <2>1 DEF Reserved
<1> QED BY <1>1, <1>2

-----------------------------------------------------------------------------
(* The steps.                                                              *)

(* A worker that goes on with the same task. *)
LEMMA ReplacedWorker ==
  ASSUME LedgerInv, NEW w \in workers, NEW v, WorkerOK(v),
         v.task = w.task, v.heard = w.heard,
         workers' = (workers \ {w}) \cup {v}, results' = results
  PROVE  WorkersInv' /\ ModeInv'
<1>1. WorkersInv'
  BY DEF LedgerInv, WorkersInv
<1>2. ASSUME NEW x \in workers', x.heard
      PROVE  /\ x.task.mode = "new" => results[x.task.analysis] = NoRow
             /\ x.task.mode # "new" => results[x.task.analysis] # NoRow
  BY <1>2 DEF LedgerInv, ModeInv
<1>3. ASSUME NEW x \in workers', NEW y \in workers', x.heard, y.heard,
             x.task.mode = "new", y.task.analysis = x.task.analysis
      PROVE  x = y
  <2> DEFINE Old(z) == IF z \in workers \ {w} THEN z ELSE w
  <2>1. \A z \in workers' : Old(z) \in workers /\ Old(z).task = z.task /\ Old(z).heard = z.heard
    OBVIOUS
  <2>2. Old(x) = Old(y)
    BY <1>3, <2>1 DEF LedgerInv, ModeInv
  <2> QED BY <2>2
<1> QED BY <1>1, <1>2, <1>3 DEF ModeInv

(* Workers that end leave the others as they are. *)
LEMMA FewerWorkers ==
  ASSUME LedgerInv, workers' \subseteq workers, results' = results
  PROVE  WorkersInv' /\ ModeInv'
BY DEF LedgerInv, WorkersInv, ModeInv

(* An operation that begins: its request is typed, its worker has no row. *)
LEMMA BeginOK ==
  ASSUME LedgerInv, NEW a \in Analyses, NEW mode \in {"new", "runs", "candidates"},
         NEW cs \in SUBSET Cands, NEW ref \in cs, NEW f \in Fingerprints,
         NEW seed \in Nat, NEW runs \in Nat \ {0}, Begin(a, mode, cs, ref, f, seed, runs),
         mode = "new" => /\ results[a] = NoRow
                         /\ \A w \in workers : w.heard => w.task.analysis # a,
         mode # "new" => results[a] # NoRow
  PROVE  LedgerInv'
<1> DEFINE rec == Get(lru[f], f)
           cache == IF StartMethod = "fork" THEN rec ELSE NoRow
           new == [task |-> op', cache |-> cache, phase |-> "simulates", row |-> NoRow,
                   heard |-> TRUE]
<1>1. RecordOK(lru[f]) /\ RecordOK(rec)
  BY GetRecord DEF LedgerInv, RowsInv
<1>2. lru' = [lru EXCEPT ![f] = rec] /\ rows' = rows /\ results' = results
      /\ started' = started + 1 /\ paid' = paid /\ workers' = workers \cup {new}
  BY DEF Begin
<1>3. op' = [id |-> started + 1, analysis |-> a, mode |-> mode, cands |-> cs, ref |-> ref,
            fp |-> f, seed |-> Reserved(rec, seed), runs |-> runs]
  BY DEF Begin
<1>4. Reserved(rec, seed) \in Nat
  BY <1>1, ReservedSeed
<1>5. RecordOK(NoRow)
  BY DEF RecordOK, Records
<1> HIDE DEF rec
<1>6. RecordOK(cache)
  BY <1>1, <1>5
<1> HIDE DEF cache
<1>7. op' \in OpType /\ started' \in Nat
  BY <1>2, <1>3, <1>4 DEF OpType, LedgerInv
<1>8. op'.analysis = a /\ op'.mode = mode /\ op'.ref = ref /\ op'.cands = cs
  BY <1>3
<1>9. RowsInv'
  BY <1>1, <1>2 DEF LedgerInv, RowsInv, RecordOK, Records
<1>10. WorkerOK(new)
  <2>1. cache \in RowType \cup {NoRow}
    BY <1>6 DEF RecordOK, Records
  <2>2. new \in WorkerType
    BY <1>7, <2>1 DEF WorkerType
  <2> QED BY <1>5, <1>6, <1>8, <2>2 DEF WorkerOK
<1>11. new.task = op' /\ new.heard
  OBVIOUS
<1> HIDE DEF new
<1>12. WorkersInv'
  BY <1>2, <1>10 DEF LedgerInv, WorkersInv
<1>13. ModeInv'
  <2>1. \A w \in workers : w.heard =>
          /\ w.task.mode = "new" => results[w.task.analysis] = NoRow
          /\ w.task.mode # "new" => results[w.task.analysis] # NoRow
          /\ w.task.mode = "new" => w.task.analysis # a \/ mode = "new"
          /\ mode = "new" => w.task.analysis # a
    BY DEF LedgerInv, ModeInv
  <2>2. new.task.analysis = a /\ new.task.mode = mode
    BY <1>8, <1>11
  <2>3. ASSUME NEW v \in workers', NEW w \in workers', v.heard, w.heard,
               v.task.mode = "new", w.task.analysis = v.task.analysis
        PROVE  v = w
    <3>1. CASE v \in workers /\ w \in workers
      BY <2>3, <3>1 DEF LedgerInv, ModeInv
    <3>2. CASE v = new \/ w = new
      BY <1>2, <2>1, <2>2, <2>3, <3>2
    <3> QED BY <1>2, <3>1, <3>2
  <2>4. ASSUME NEW w \in workers', w.heard
        PROVE  /\ w.task.mode = "new" => results'[w.task.analysis] = NoRow
               /\ w.task.mode # "new" => results'[w.task.analysis] # NoRow
    BY <1>2, <2>1, <2>2, <2>4
  <2> QED BY <2>3, <2>4 DEF ModeInv
<1> QED BY <1>2, <1>7, <1>9, <1>12, <1>13 DEF LedgerInv, ResultsInv, PaidInv

(* Names of candidates make a fingerprint. *)
LEMMA NamedFingerprint ==
  ASSUME NEW cs \in SUBSET Cands, NEW e \in BOOLEAN
  PROVE  Named(cs, e) \in Fingerprints
BY DEF Fingerprints

LEMMA CreateOK ==
  ASSUME LedgerInv, NEW a \in Analyses, NEW cs \in SUBSET Cands, NEW seed \in SeedChoices,
         NEW runs \in RunChoices, NEW ref \in cs, Create(a, cs, ref, seed, runs)
  PROVE  LedgerInv'
<1>1. Begin(a, "new", cs, ref, Named(cs, TRUE), seed, runs) /\ results[a] = NoRow
      /\ \A w \in workers : w.heard => w.task.analysis # a
  BY DEF Create
<1>2. Named(cs, TRUE) \in Fingerprints /\ seed \in Nat /\ runs \in Nat \ {0}
  BY NamedFingerprint, NumberAssumption
<1> QED BY <1>1, <1>2, BeginOK

(* A result names its seed, total, candidates and reference. *)
LEMMA ResultFields ==
  ASSUME LedgerInv, NEW a \in Analyses, results[a] # NoRow
  PROVE  /\ results[a] \in ResultType
         /\ results[a].seed \in Nat /\ results[a].total \in Nat \ {0}
         /\ results[a].cands \in SUBSET Cands /\ results[a].ref \in results[a].cands
BY DEF LedgerInv, ResultsInv, ResultType

LEMMA ExtendRunsOK ==
  ASSUME LedgerInv, NEW a \in Analyses, NEW runs \in RunChoices, ExtendRuns(a, runs)
  PROVE  LedgerInv'
<1> DEFINE r == results[a]
<1>1. r # NoRow
      /\ Begin(a, "runs", r.cands, r.ref, Named(r.cands, FALSE), r.seed + r.total, runs)
  BY DEF ExtendRuns
<1>2. r.cands \in SUBSET Cands /\ r.ref \in r.cands /\ r.seed + r.total \in Nat
  BY <1>1, ResultFields
<1> HIDE DEF r
<1>3. Named(r.cands, FALSE) \in Fingerprints /\ runs \in Nat \ {0}
  BY <1>2, NamedFingerprint, NumberAssumption
<1>4. results[a] # NoRow
  BY <1>1 DEF r
<1> QED BY <1>1, <1>2, <1>3, <1>4, BeginOK

LEMMA ExtendCandidatesOK ==
  ASSUME LedgerInv, NEW a \in Analyses, NEW new \in SUBSET Cands, ExtendCandidates(a, new)
  PROVE  LedgerInv'
<1> DEFINE r == results[a]
           cs == {r.ref} \cup new
<1>1. r # NoRow
      /\ Begin(a, "candidates", cs, r.ref, Named(cs, FALSE), r.seed, r.total)
  BY DEF ExtendCandidates
<1>2. cs \in SUBSET Cands /\ r.ref \in cs /\ r.seed \in Nat /\ r.total \in Nat \ {0}
  BY <1>1, ResultFields
<1> HIDE DEF r, cs
<1>3. Named(cs, FALSE) \in Fingerprints
  BY <1>2, NamedFingerprint
<1>4. results[a] # NoRow
  BY <1>1 DEF r
<1> QED BY <1>1, <1>2, <1>3, <1>4, BeginOK

(* A worker saves a row in order that has at least the games it has read. *)
LEMMA SavedRow ==
  ASSUME NEW r, RecordOK(r), NEW o \in OpType, o.ref \in o.cands
  PROVE  /\ AccOf(r) \in [Cands -> AccType]
         /\ Row(Extended(AccOf(r), o)) \in RowType /\ RowCovered(Row(Extended(AccOf(r), o)))
         /\ \A c \in Cands :
              /\ AccOf(r)[c].n <= Row(Extended(AccOf(r), o)).acc[c].n
              /\ AccOf(r)[c].seen \subseteq Row(Extended(AccOf(r), o)).acc[c].seen
<1> DEFINE acc == AccOf(r)
           next == Extended(acc, o)
<1>1. acc \in [Cands -> AccType] /\ \A c \in Cands : Covered(acc[c])
  <2>1. CASE r = NoRow
    BY <2>1 DEF AccOf, EmptyAcc, NoGames, AccType, Covered
  <2>2. CASE r # NoRow
    BY <2>2 DEF AccOf, RecordOK, Records, RowType, RowCovered
  <2> QED BY <2>1, <2>2
<1> HIDE DEF acc
<1>2. ASSUME NEW c \in Cands
      PROVE  /\ next[c] \in AccType /\ Covered(next[c])
             /\ acc[c].n <= next[c].n /\ acc[c].seen \subseteq next[c].seen
             /\ c \in o.cands => next[c].n > 0 /\ next[c].last > 0
  <2>1. CASE c \in o.cands
    <3>1. next[c] = Reduced(acc[c], o)
      BY <2>1 DEF Extended
    <3> QED BY <1>1, <3>1, ReducedAcc
  <2>2. CASE c \notin o.cands
    <3>1. next[c] = acc[c]
      BY <2>2 DEF Extended
    <3>2. acc[c].n \in Nat
      BY <1>1 DEF AccType
    <3> QED BY <1>1, <2>2, <3>1, <3>2
  <2> QED BY <2>1, <2>2
<1>3. next = [c \in Cands |-> next[c]]
  BY DEF Extended
<1>4. o.ref \in Cands
  BY DEF OpType
<1> HIDE DEF next
<1>5. next \in [Cands -> AccType]
  BY <1>2, <1>3
<1>6. Row(next) \in RowType /\ RowCovered(Row(next)) /\ Row(next).acc = next
  BY <1>2, <1>4, <1>5, RowOfAccs
<1> QED BY <1>1, <1>2, <1>6 DEF acc, next

(* A worker reads a record in order. *)
LEMMA ReadRowOK ==
  ASSUME LedgerInv, NEW w \in workers, ReadRow(w)
  PROVE  LedgerInv'
<1> DEFINE rec == Get(w.cache, w.task.fp)
           v == [w EXCEPT !.phase = "reduces", !.row = rec]
<1>1. WorkerOK(w) /\ w \in WorkerType /\ w.task.fp \in Fingerprints
  BY DEF LedgerInv, WorkersInv, WorkerOK, WorkerType, OpType
<1>2. RecordOK(rec) /\ rec \in Records
  BY <1>1, GetRecord DEF LedgerInv, WorkerOK, RecordOK
<1>3. workers' = (workers \ {w}) \cup {v} /\ rows' = rows /\ lru' = lru /\ op' = op
      /\ results' = results /\ started' = started /\ paid' = paid
  BY DEF ReadRow
<1> HIDE DEF rec
<1>4. /\ v \in WorkerType /\ v.task = w.task /\ v.cache = w.cache /\ v.heard = w.heard
      /\ v.phase = "reduces" /\ v.row = rec
  BY <1>1, <1>2 DEF WorkerType, Records
<1>5. WorkerOK(v)
  BY <1>1, <1>2, <1>4 DEF WorkerOK
<1> HIDE DEF v
<1>6. WorkersInv' /\ ModeInv'
  BY <1>3, <1>4, <1>5, ReplacedWorker
<1> QED BY <1>3, <1>6 DEF LedgerInv, RowsInv, ResultsInv, PaidInv

(* What a worker saves. *)
LEMMA SavedByOK ==
  ASSUME LedgerInv, NEW w \in workers
  PROVE  /\ w \in WorkerType /\ w.task \in OpType /\ w.task.fp \in Fingerprints
         /\ w.task.ref \in w.task.cands /\ RecordOK(w.row)
         /\ SavedBy(w) \in RowType /\ RowCovered(SavedBy(w))
<1>1. w \in WorkerType /\ w.task.ref \in w.task.cands /\ RecordOK(w.row)
  BY DEF LedgerInv, WorkersInv, WorkerOK
<1>2. w.task \in OpType /\ w.task.fp \in Fingerprints
  BY <1>1 DEF WorkerType, OpType
<1> QED BY <1>1, <1>2, SavedRow DEF SavedBy

(* Saved games are counted. *)
LEMMA PaidWithOK ==
  ASSUME NEW p \in [Cands -> PaidType], NEW o \in OpType
  PROVE  PaidWith(p, o) \in [Cands -> PaidType]
<1>1. o.seed \in Nat /\ o.runs \in Nat
  BY DEF OpType
<1>2. Games(o) \in SUBSET Nat
  BY <1>1 DEF Games, SeedRange
<1>3. ASSUME NEW c \in Cands
      PROVE  [n |-> p[c].n + o.runs, seen |-> p[c].seen \cup Games(o)] \in PaidType
  BY <1>1, <1>2 DEF PaidType
<1> QED BY <1>3 DEF PaidWith

LEMMA SaveRowOK ==
  ASSUME LedgerInv, NEW w \in workers, SaveRow(w)
  PROVE  LedgerInv'
<1> DEFINE f == w.task.fp
           row == SavedBy(w)
           v == [w EXCEPT !.phase = "saved", !.row = row]
<1>1. /\ w \in WorkerType /\ w.task \in OpType /\ f \in Fingerprints
      /\ w.task.ref \in w.task.cands /\ row \in RowType /\ RowCovered(row)
  BY SavedByOK
<1>2. /\ rows' = [rows EXCEPT ![f] = row] /\ paid' = [paid EXCEPT ![f] = PaidWith(@, w.task)]
      /\ workers' = (workers \ {w}) \cup (IF w.heard THEN {v} ELSE {})
      /\ lru' = lru /\ op' = op /\ results' = results /\ started' = started
  BY DEF SaveRow
<1> HIDE DEF row
<1>3. RecordOK(row) /\ row \in Records /\ row # NoRow
  BY <1>1, NothingAssumption DEF RecordOK, Records
<1>4. /\ v \in WorkerType /\ v.task = w.task /\ v.cache = w.cache /\ v.heard = w.heard
      /\ v.phase = "saved" /\ v.row = row
  BY <1>1, <1>3 DEF WorkerType, Records
<1> HIDE DEF v, f
<1>5. RowsInv'
  BY <1>1, <1>2, <1>3 DEF LedgerInv, RowsInv, Records
<1>6. PaidInv'
  <2>1. PaidWith(paid[f], w.task) \in [Cands -> PaidType]
    BY <1>1, PaidWithOK DEF LedgerInv, PaidInv
  <2> QED BY <1>1, <1>2, <2>1 DEF LedgerInv, PaidInv
<1>7. WorkersInv' /\ ModeInv'
  <2>1. CASE w.heard
    <3>1. WorkerOK(v)
      BY <1>3, <1>4, <2>1 DEF LedgerInv, WorkersInv, WorkerOK
    <3> QED BY <1>2, <1>4, <2>1, <3>1, ReplacedWorker
  <2>2. CASE ~ w.heard
    BY <1>2, <2>2, FewerWorkers
  <2> QED BY <2>1, <2>2
<1> QED BY <1>2, <1>5, <1>6, <1>7 DEF LedgerInv, ResultsInv

(* The result of a worker is one, of the candidates it ran. *)
LEMMA OutcomeType ==
  ASSUME NEW o \in OpType, NEW row \in RowType
  PROVE  /\ Outcome(o, row) \in ResultType
         /\ Outcome(o, row).cands = o.cands /\ Outcome(o, row).ref = o.ref
<1> DEFINE stat == [c \in Cands |->
              IF c \in o.cands
              THEN [n |-> row.acc[c].n, sum |-> o.runs,
                    seeds |-> SeedRange(o.seed, o.runs)]
              ELSE NoStat]
<1>1. o.seed \in Nat /\ o.runs \in Nat \ {0} /\ o.cands \in SUBSET Cands /\ o.ref \in Cands
  BY DEF OpType
<1>2. row.total \in Nat \ {0} /\ \A c \in Cands : row.acc[c].n \in Nat
  BY DEF RowType, AccType
<1>3. SeedRange(o.seed, o.runs) \in SUBSET Nat
  BY <1>1 DEF SeedRange
<1>4. stat \in [Cands -> StatType]
  BY <1>1, <1>2, <1>3 DEF StatType, NoStat
<1>5. {<<o.seed, o.seed + o.runs - 1>>} \in SUBSET (Nat \X Nat)
  BY <1>1
<1>6. Outcome(o, row) =
        [seed |-> o.seed, runs |-> o.runs, total |-> row.total, cands |-> o.cands,
         ref |-> o.ref, ranges |-> {<<o.seed, o.seed + o.runs - 1>>}, stat |-> stat]
  BY DEF Outcome
<1> HIDE DEF stat
<1> QED BY <1>1, <1>2, <1>4, <1>5, <1>6 DEF ResultType

(* Means are merged by adding their games. *)
LEMMA MergedMeanType ==
  ASSUME NEW x \in StatType, NEW y \in StatType
  PROVE  /\ MergedMean(x, y) \in StatType
         /\ x.sum <= MergedMean(x, y).sum /\ x.seeds \subseteq MergedMean(x, y).seeds
BY DEF StatType, MergedMean

(* What a result becomes when it grows: it keeps its candidates, and each of
   them its games. *)
GrowsTo(x, y) ==
  /\ x.cands \subseteq y.cands
  /\ \A c \in x.cands : /\ x.stat[c].sum <= y.stat[c].sum
                        /\ x.stat[c].seeds \subseteq y.stat[c].seeds

LEMMA MergeRunsOK ==
  ASSUME NEW base \in ResultType, NEW extra \in ResultType, base.ref \in base.cands
  PROVE  /\ MergeRuns(base, extra) \in ResultType
         /\ MergeRuns(base, extra).ref \in MergeRuns(base, extra).cands
         /\ GrowsTo(base, MergeRuns(base, extra))
<1> DEFINE m == MergeRuns(base, extra)
           stat == [c \in Cands |-> IF c \in base.cands
                                    THEN MergedMean(base.stat[c], extra.stat[c])
                                    ELSE NoStat]
<1>1. /\ base.stat \in [Cands -> StatType] /\ extra.stat \in [Cands -> StatType]
      /\ base.cands \in SUBSET Cands /\ base.runs \in Nat \ {0} /\ extra.runs \in Nat \ {0}
      /\ base.ranges \in SUBSET (Nat \X Nat) /\ extra.ranges \in SUBSET (Nat \X Nat)
  BY DEF ResultType
<1>2. NoStat \in StatType
  BY DEF NoStat, StatType
<1>3. ASSUME NEW c \in Cands
      PROVE  /\ stat[c] \in StatType
             /\ c \in base.cands => /\ base.stat[c].sum <= stat[c].sum
                                    /\ base.stat[c].seeds \subseteq stat[c].seeds
  BY <1>1, <1>2, MergedMeanType
<1>4. m = [base EXCEPT !.runs = base.runs + extra.runs, !.total = base.runs + extra.runs,
             !.ranges = base.ranges \cup extra.ranges, !.stat = stat]
  BY DEF MergeRuns
<1>5. stat \in [Cands -> StatType]
  BY <1>3
<1> HIDE DEF stat, m
<1>6. m.stat = stat /\ m.cands = base.cands /\ m.ref = base.ref
  BY <1>4 DEF ResultType
<1>7. m \in ResultType
  <2>1. base.runs + extra.runs \in Nat \ {0}
        /\ base.ranges \cup extra.ranges \in SUBSET (Nat \X Nat)
    BY <1>1
  <2> QED BY <1>4, <1>5, <2>1 DEF ResultType
<1> QED BY <1>1, <1>3, <1>6, <1>7 DEF GrowsTo, m

LEMMA MergeCandidatesOK ==
  ASSUME NEW base \in ResultType, NEW extra \in ResultType, base.ref \in base.cands,
         extra.cands \cap base.cands \subseteq {base.ref}
  PROVE  /\ MergeCandidates(base, extra) \in ResultType
         /\ MergeCandidates(base, extra).ref \in MergeCandidates(base, extra).cands
         /\ GrowsTo(base, MergeCandidates(base, extra))
<1> DEFINE m == MergeCandidates(base, extra)
           stat == [c \in Cands |-> IF c \in extra.cands \ {base.ref}
                                    THEN extra.stat[c] ELSE base.stat[c]]
<1>1. /\ base.stat \in [Cands -> StatType] /\ extra.stat \in [Cands -> StatType]
      /\ base.cands \in SUBSET Cands /\ extra.cands \in SUBSET Cands
      /\ base.total \in Nat \ {0}
  BY DEF ResultType
<1>2. stat \in [Cands -> StatType]
  BY <1>1
<1>3. \A c \in base.cands : stat[c] = base.stat[c]
  BY <1>1
<1>4. m = [base EXCEPT !.runs = base.total, !.cands = base.cands \cup extra.cands,
                       !.stat = stat]
  BY DEF MergeCandidates
<1> HIDE DEF stat, m
<1>5. m.stat = stat /\ m.cands = base.cands \cup extra.cands /\ m.ref = base.ref
  BY <1>4 DEF ResultType
<1>6. m \in ResultType
  BY <1>1, <1>2, <1>4 DEF ResultType
<1>7. \A c \in base.cands : base.stat[c].sum <= m.stat[c].sum
  BY <1>1, <1>3, <1>5 DEF StatType
<1> QED BY <1>3, <1>5, <1>6, <1>7 DEF GrowsTo, m

(* The delivery of a result stores it or lets the analysis grow. *)
LEMMA DeliverResult ==
  ASSUME LedgerInv, NEW w \in workers, Deliver(w)
  PROVE  /\ w.task \in OpType /\ w.task.analysis \in Analyses /\ w.heard
         /\ \E new \in ResultType :
              /\ results' = [results EXCEPT ![w.task.analysis] = new]
              /\ new.ref \in new.cands
              /\ results[w.task.analysis] # NoRow =>
                   GrowsTo(results[w.task.analysis], new)
<1> DEFINE o == w.task
           a == o.analysis
           base == results[a]
           extra == Outcome(o, w.row)
<1>1. /\ w \in WorkerType /\ o \in OpType /\ o.ref \in o.cands
      /\ w.row \in RowType /\ w.heard
  BY SavedByOK DEF Deliver, LedgerInv, WorkersInv, WorkerOK, RecordOK, Records
<1>2. a \in Analyses /\ o.mode \in {"new", "runs", "candidates"}
  BY <1>1 DEF OpType
<1>3. extra \in ResultType /\ extra.cands = o.cands /\ extra.ref = o.ref
  BY <1>1, OutcomeType
<1>4. base # NoRow => base \in ResultType /\ base.ref \in base.cands
  BY <1>2 DEF LedgerInv, ResultsInv
<1>5. /\ o.mode = "new" => base = NoRow
      /\ o.mode # "new" => base # NoRow
  BY <1>1 DEF LedgerInv, ModeInv
<1>6. results' = [results EXCEPT ![a] =
           CASE o.mode = "new" -> extra
             [] o.mode = "runs" ->
                  IF CanMergeRuns(base, extra) THEN MergeRuns(base, extra) ELSE base
             [] o.mode = "candidates" ->
                  IF CanMergeCandidates(base, extra) THEN MergeCandidates(base, extra)
                  ELSE base]
  BY <1>2 DEF Deliver, LedgerInv, ResultsInv
<1>7. base # NoRow => GrowsTo(base, base)
  BY <1>4 DEF GrowsTo, ResultType, StatType
<1> HIDE DEF base, extra
<1>8. ASSUME NEW new \in ResultType, new.ref \in new.cands,
             base # NoRow => GrowsTo(base, new), results' = [results EXCEPT ![a] = new]
      PROVE  \E r \in ResultType :
              /\ results' = [results EXCEPT ![a] = r]
              /\ r.ref \in r.cands
              /\ results[a] # NoRow => GrowsTo(results[a], r)
  BY <1>8 DEF base
<1> HIDE DEF a, o
<1>9. CASE o.mode = "new"
  <2>1. results' = [results EXCEPT ![a] = extra] /\ base = NoRow
    BY <1>5, <1>6, <1>9
  <2> QED BY <1>1, <1>2, <1>3, <1>8, <2>1 DEF a, o
<1>10. CASE o.mode = "runs"
  <2> DEFINE new == IF CanMergeRuns(base, extra) THEN MergeRuns(base, extra) ELSE base
  <2>1. results' = [results EXCEPT ![a] = new] /\ base # NoRow
    BY <1>5, <1>6, <1>10
  <2>2. new \in ResultType /\ new.ref \in new.cands /\ GrowsTo(base, new)
    BY <1>3, <1>4, <1>7, <2>1, MergeRunsOK
  <2> HIDE DEF new
  <2> QED BY <1>1, <1>2, <1>8, <2>1, <2>2 DEF a, o
<1>11. CASE o.mode = "candidates"
  <2> DEFINE new == IF CanMergeCandidates(base, extra) THEN MergeCandidates(base, extra)
                    ELSE base
  <2>1. results' = [results EXCEPT ![a] = new] /\ base # NoRow
    BY <1>5, <1>6, <1>11
  <2>2. new \in ResultType /\ new.ref \in new.cands /\ GrowsTo(base, new)
    BY <1>3, <1>4, <1>7, <2>1, MergeCandidatesOK DEF CanMergeCandidates
  <2> HIDE DEF new
  <2> QED BY <1>1, <1>2, <1>8, <2>1, <2>2 DEF a, o
<1> QED BY <1>2, <1>9, <1>10, <1>11

LEMMA DeliverOK ==
  ASSUME LedgerInv, NEW w \in workers, Deliver(w)
  PROVE  LedgerInv'
<1> DEFINE a == w.task.analysis
<1>1. PICK new \in ResultType : results' = [results EXCEPT ![a] = new] /\ new.ref \in new.cands
  BY DeliverResult
<1>2. a \in Analyses /\ w.heard /\ w.task \in OpType
  BY DeliverResult
<1>3. workers' = workers \ {w} /\ op' = (IF op = w.task THEN NoOne ELSE op)
      /\ rows' = rows /\ lru' = lru /\ started' = started /\ paid' = paid
  BY DEF Deliver, Leaves
<1>4. ResultsInv'
  BY <1>1, <1>2 DEF LedgerInv, ResultsInv
<1>5. results'[a] # NoRow /\ \A b : b # a => results'[b] = results[b]
  BY <1>1, <1>2, NothingAssumption DEF LedgerInv, ResultsInv
<1> HIDE DEF a
<1>6. ModeInv'
  <2>1. \A v \in workers' : v \in workers /\ v # w
    BY <1>3
  <2>2. ASSUME NEW v \in workers', v.heard
        PROVE  /\ v.task.mode = "new" => results'[v.task.analysis] = NoRow
               /\ v.task.mode # "new" => results'[v.task.analysis] # NoRow
    <3>1. CASE v.task.analysis = a
      <4>1. v.task.mode # "new"
        BY <1>2, <2>1, <2>2, <3>1 DEF LedgerInv, ModeInv, a
      <4> QED BY <1>5, <3>1, <4>1
    <3>2. CASE v.task.analysis # a
      BY <1>5, <2>1, <2>2, <3>2 DEF LedgerInv, ModeInv
    <3> QED BY <3>1, <3>2
  <2>3. \A u, v \in workers' :
          (u.heard /\ v.heard /\ u.task.mode = "new" /\ v.task.analysis = u.task.analysis)
            => u = v
    BY <2>1 DEF LedgerInv, ModeInv
  <2> QED BY <2>2, <2>3 DEF ModeInv
<1> QED BY <1>3, <1>4, <1>6 DEF LedgerInv, RowsInv, WorkersInv, PaidInv

LEMMA FailOK ==
  ASSUME LedgerInv, NEW w \in workers, Fail(w)
  PROVE  LedgerInv'
<1>1. WorkersInv' /\ ModeInv'
  BY FewerWorkers DEF Fail, Leaves
<1> QED BY <1>1 DEF Fail, Leaves, LedgerInv, RowsInv, ResultsInv, PaidInv

LEMMA CancelOK ==
  ASSUME LedgerInv, Cancel
  PROVE  LedgerInv'
<1>1. workers' \subseteq workers /\ results' = results
  BY DEF Cancel
<1>2. WorkersInv' /\ ModeInv'
  BY <1>1, FewerWorkers
<1> QED BY <1>2 DEF Cancel, LedgerInv, RowsInv, ResultsInv, PaidInv

LEMMA RestartOK ==
  ASSUME LedgerInv, Restart
  PROVE  LedgerInv'
<1>1. PICK alive \in SUBSET {w \in workers : w.phase # "saved"} :
        workers' = {[w EXCEPT !.heard = FALSE] : w \in alive}
  BY DEF Restart
<1>2. ASSUME NEW w \in alive
      PROVE  WorkerOK([w EXCEPT !.heard = FALSE]) /\ ~ [w EXCEPT !.heard = FALSE].heard
  <2> DEFINE v == [w EXCEPT !.heard = FALSE]
  <2>1. WorkerOK(w) /\ w \in WorkerType /\ w.phase # "saved"
    BY <1>2 DEF LedgerInv, WorkersInv, WorkerOK
  <2>2. v \in WorkerType /\ v.task = w.task /\ v.cache = w.cache /\ v.row = w.row
        /\ v.phase = w.phase /\ v.heard = FALSE
    BY <2>1 DEF WorkerType
  <2> HIDE DEF v
  <2>3. WorkerOK(v) /\ ~ v.heard
    BY <2>1, <2>2 DEF WorkerOK
  <2> QED BY <2>3 DEF v
<1>3. \A v \in workers' : WorkerOK(v) /\ ~ v.heard
  BY <1>1, <1>2
<1>4. WorkersInv' /\ ModeInv'
  BY <1>3 DEF WorkersInv, ModeInv
<1>5. RowsInv'
  BY DEF Restart, LedgerInv, RowsInv, RecordOK, Records
<1> QED BY <1>4, <1>5 DEF Restart, LedgerInv, ResultsInv, PaidInv

(* What every step keeps. *)
LEMMA LedgerStep ==
  ASSUME LedgerInv, [Next]_vars
  PROVE  LedgerInv'
<1>1. CASE UNCHANGED vars
  BY <1>1 DEF LedgerInv, RowsInv, WorkersInv, ModeInv, ResultsInv, PaidInv, vars
<1>2. CASE \E a \in Analyses, cs \in SUBSET Cands, seed \in SeedChoices,
              runs \in RunChoices : \E ref \in cs : Create(a, cs, ref, seed, runs)
  BY <1>2, CreateOK
<1>3. CASE \E a \in Analyses, runs \in RunChoices : ExtendRuns(a, runs)
  BY <1>3, ExtendRunsOK
<1>4. CASE \E a \in Analyses, new \in SUBSET Cands : ExtendCandidates(a, new)
  BY <1>4, ExtendCandidatesOK
<1>5. CASE \E w \in workers : ReadRow(w) \/ SaveRow(w) \/ Deliver(w) \/ Fail(w)
  BY <1>5, ReadRowOK, SaveRowOK, DeliverOK, FailOK
<1>6. CASE Cancel \/ Restart
  BY <1>6, CancelOK, RestartOK
<1> QED BY <1>1, <1>2, <1>3, <1>4, <1>5, <1>6 DEF Next

LEMMA LedgerInit == Init => LedgerInv
BY DEF Init, LedgerInv, RowsInv, WorkersInv, ModeInv, ResultsInv, PaidInv, PaidType, RecordOK,
       Records

LEMMA LedgerAlways == Spec => []LedgerInv
<1>1. LedgerInv /\ [Next]_vars => LedgerInv'
  BY LedgerStep
<1> QED BY <1>1, LedgerInit, PTL DEF Spec

-----------------------------------------------------------------------------
(* The theorems.                                                           *)

(* Rows, caches, workers and results are well typed whatever is extended,  *)
(* cancelled and restarted, and whichever worker survives that: none runs  *)
(* without its reference, and every row has games (save_reduction,         *)
(* _create_job).                                                           *)
THEOREM TypeCorrect == Spec => []TypeOK
<1>1. LedgerInv => TypeOK
  BY DEF LedgerInv, RowsInv, Records, WorkersInv, WorkerOK, ResultsInv, PaidInv, TypeOK
<1> QED BY <1>1, LedgerAlways, PTL

(* The last seed of a saved row lies beyond every game the row counts      *)
(* (save_reduction takes the maximum over the candidates, reduce_with      *)
(* keeps that of each).                                                    *)
THEOREM LastSeedCovers == Spec => []RowCoversItsGames
<1>1. LedgerInv => RowCoversItsGames
  <2> SUFFICES ASSUME LedgerInv, NEW f \in Fingerprints, rows[f] # NoRow, NEW c \in Cands,
                      NEW g \in rows[f].acc[c].seen
               PROVE  g < rows[f].last
    BY DEF RowCoversItsGames
  <2>1. rows[f] \in RowType /\ RowCovered(rows[f])
    BY DEF LedgerInv, RowsInv, RecordOK, Records
  <2>2. g \in Nat /\ rows[f].last \in Nat /\ rows[f].acc[c].last \in Nat
    BY <2>1 DEF RowType, AccType
  <2> QED BY <2>1, <2>2 DEF RowCovered, Covered
<1> QED BY <1>1, LedgerAlways, PTL

(* Seeds are reserved from the cached record: while that is not older than *)
(* the table, no operation is given a seed its history has counted         *)
(* (_create_job).                                                          *)
THEOREM ReservedSeedsAreFresh == Spec => FreshCacheMeansFreshSeeds
<1> DEFINE Reserves == (op = NoOne /\ op' # NoOne /\ Fresh(op'.fp) /\ rows[op'.fp] # NoRow) =>
       \A c \in Cands : \A g \in rows[op'.fp].acc[c].seen :
          g \notin SeedRange(op'.seed, op'.runs)
<1>1. ASSUME LedgerInv, NEW a \in Analyses, NEW mode \in {"new", "runs", "candidates"},
             NEW cs \in SUBSET Cands, NEW ref \in cs, NEW f \in Fingerprints,
             NEW seed \in Nat, NEW runs \in Nat \ {0}, Begin(a, mode, cs, ref, f, seed, runs)
      PROVE  Reserves
  <2> USE <1>1
  <2>1. /\ op'.fp = f /\ op'.seed = Reserved(Get(lru[f], f), seed) /\ op'.runs = runs
    BY DEF Begin
  <2> SUFFICES ASSUME Fresh(f), rows[f] # NoRow, NEW c \in Cands,
                      NEW g \in rows[f].acc[c].seen
               PROVE  g \notin SeedRange(op'.seed, op'.runs)
    BY <2>1
  <2>2. Get(lru[f], f) = rows[f]
    BY DEF Fresh, Get
  <2>3. RecordOK(rows[f]) /\ rows[f] \in RowType /\ RowCovered(rows[f])
    BY DEF LedgerInv, RowsInv, RecordOK, Records
  <2>4. op'.seed \in Nat /\ op'.seed > rows[f].last
    BY <2>1, <2>2, <2>3, ReservedSeed
  <2>5. g \in Nat /\ rows[f].last \in Nat /\ rows[f].acc[c].last \in Nat
    BY <2>3 DEF RowType, AccType
  <2>6. g < rows[f].last
    BY <2>3, <2>5 DEF RowCovered, Covered
  <2> QED BY <2>1, <2>4, <2>5, <2>6 DEF SeedRange
<1>2. ASSUME LedgerInv, [Next]_vars PROVE Reserves
  <2> USE <1>2
  <2>1. ASSUME NEW a \in Analyses, NEW cs \in SUBSET Cands, NEW seed \in SeedChoices,
               NEW runs \in RunChoices, NEW ref \in cs, Create(a, cs, ref, seed, runs)
        PROVE  Reserves
    <3>1. Begin(a, "new", cs, ref, Named(cs, TRUE), seed, runs)
      BY <2>1 DEF Create
    <3>2. Named(cs, TRUE) \in Fingerprints /\ seed \in Nat /\ runs \in Nat \ {0}
      BY NamedFingerprint, NumberAssumption
    <3> HIDE DEF Reserves
    <3> QED BY <1>1, <3>1, <3>2
  <2>2. ASSUME NEW a \in Analyses, NEW runs \in RunChoices, ExtendRuns(a, runs)
        PROVE  Reserves
    <3> DEFINE r == results[a]
    <3>1. r # NoRow
          /\ Begin(a, "runs", r.cands, r.ref, Named(r.cands, FALSE), r.seed + r.total, runs)
      BY <2>2 DEF ExtendRuns
    <3>2. r.cands \in SUBSET Cands /\ r.ref \in r.cands /\ r.seed + r.total \in Nat
      BY <3>1, ResultFields
    <3> HIDE DEF Reserves, r
    <3>3. Named(r.cands, FALSE) \in Fingerprints /\ runs \in Nat \ {0}
      BY <3>2, NamedFingerprint, NumberAssumption
    <3> QED BY <1>1, <3>1, <3>2, <3>3
  <2>3. ASSUME NEW a \in Analyses, NEW new \in SUBSET Cands, ExtendCandidates(a, new)
        PROVE  Reserves
    <3> DEFINE r == results[a]
               cs == {r.ref} \cup new
    <3>1. r # NoRow /\ Begin(a, "candidates", cs, r.ref, Named(cs, FALSE), r.seed, r.total)
      BY <2>3 DEF ExtendCandidates
    <3>2. cs \in SUBSET Cands /\ r.ref \in cs /\ r.seed \in Nat /\ r.total \in Nat \ {0}
      BY <3>1, ResultFields
    <3> HIDE DEF Reserves, r, cs
    <3>3. Named(cs, FALSE) \in Fingerprints
      BY <3>2, NamedFingerprint
    <3> QED BY <1>1, <3>1, <3>2, <3>3
  <2>4. CASE \/ UNCHANGED vars \/ Cancel \/ Restart
             \/ \E w \in workers : ReadRow(w) \/ SaveRow(w) \/ Deliver(w) \/ Fail(w)
    BY <2>4 DEF vars, ReadRow, SaveRow, Deliver, Fail, Leaves, Cancel, Restart
  <2> HIDE DEF Reserves
  <2> QED BY <2>1, <2>2, <2>3, <2>4 DEF Next
<1>3. LedgerInv /\ [Next]_vars => [Reserves]_vars
  BY <1>2
<1> QED BY <1>3, LedgerAlways, PTL DEF Spec, FreshCacheMeansFreshSeeds

(* An extension never takes a candidate, a game or a seed away from the    *)
(* analysis it extends, and nothing else touches a result (merge_results,  *)
(* _finish).                                                               *)
THEOREM AnalysesGrow == Spec => AnalysesOnlyGrow
<1> DEFINE Grow == \A a \in Analyses : results[a] # NoRow =>
       /\ results[a].cands \subseteq results'[a].cands
       /\ \A c \in results[a].cands :
            /\ results[a].stat[c].sum <= results'[a].stat[c].sum
            /\ results[a].stat[c].seeds \subseteq results'[a].stat[c].seeds
<1>1. ASSUME LedgerInv, [Next]_vars PROVE Grow
  <2> SUFFICES ASSUME NEW a \in Analyses, results[a] # NoRow
               PROVE  GrowsTo(results[a], results'[a])
    BY DEF GrowsTo
  <2>1. results[a] \in ResultType
    BY <1>1, ResultFields
  <2>2. GrowsTo(results[a], results[a])
    BY <2>1 DEF GrowsTo, ResultType, StatType
  <2>3. CASE results' = results
    BY <2>2, <2>3
  <2>4. CASE \E w \in workers : Deliver(w)
    <3>1. PICK w \in workers : Deliver(w)
      BY <2>4
    <3>2. PICK new \in ResultType :
            /\ results' = [results EXCEPT ![w.task.analysis] = new]
            /\ results[w.task.analysis] # NoRow => GrowsTo(results[w.task.analysis], new)
      BY <1>1, <3>1, DeliverResult
    <3>3. results'[a] = IF a = w.task.analysis THEN new ELSE results[a]
      BY <1>1, <3>2 DEF LedgerInv, ResultsInv
    <3> QED BY <2>2, <3>2, <3>3
  <2>5. results' = results \/ \E w \in workers : Deliver(w)
    BY <1>1 DEF Next, vars, Create, ExtendRuns, ExtendCandidates, Begin, ReadRow, SaveRow, Fail,
                Cancel, Restart
  <2> QED BY <2>3, <2>4, <2>5
<1>2. LedgerInv /\ [Next]_vars => [Grow]_vars
  BY <1>1
<1> QED BY <1>2, LedgerAlways, PTL DEF Spec, AnalysesOnlyGrow

(* Why nothing is lost when workers end with their operations and begin     *)
(* without a cache.  A task belongs to one worker (TasksInv); a worker that *)
(* has not saved works for the active operation, so there is one of them at *)
(* most, and the row it has read is still the one in the table (AloneInv).  *)
TasksInv == /\ \A w \in workers : w.task.id <= started
            /\ \A v, w \in workers : v.task = w.task => v = w
            /\ op # NoOne => op.id <= started
AloneInv == \A w \in workers :
  /\ w.cache = NoRow
  /\ w.phase # "saved" => w.task = op
  /\ w.phase = "reduces" => w.row = rows[w.task.fp]

ExactInv == TasksInv /\ AloneInv /\ HistoryIsExact

(* A worker that begins finds no other that has not saved. *)
LEMMA BeginExact ==
  ASSUME StartMethod = "spawn", LedgerInv, ExactInv,
         NEW a, NEW mode, NEW cs, NEW ref, NEW f, NEW seed, NEW runs,
         Begin(a, mode, cs, ref, f, seed, runs)
  PROVE  ExactInv'
<1> DEFINE new == [task |-> op', cache |-> NoRow, phase |-> "simulates", row |-> NoRow,
                   heard |-> TRUE]
<1>1. /\ op = NoOne /\ started' = started + 1 /\ rows' = rows /\ paid' = paid
      /\ workers' = workers \cup {new} /\ op'.id = started + 1
  BY DEF Begin
<1>2. /\ new.task = op' /\ new.cache = NoRow /\ new.phase = "simulates"
  OBVIOUS
<1> HIDE DEF new
<1>3. started \in Nat /\ \A w \in workers : w.task \in OpType /\ w.task.id \in Nat
                                          /\ w.task.id <= started
  BY DEF LedgerInv, WorkersInv, WorkerOK, WorkerType, OpType, ExactInv, TasksInv
<1>4. \A w \in workers : w.task # op' /\ w.phase = "saved"
  <2> SUFFICES ASSUME NEW w \in workers PROVE w.task # op' /\ w.phase = "saved"
    OBVIOUS
  <2>1. w.task.id # op'.id
    BY <1>1, <1>3
  <2>2. w.task # NoOne
    BY <1>3, NothingAssumption
  <2> QED BY <1>1, <2>1, <2>2 DEF ExactInv, AloneInv
<1>5. TasksInv'
  <2>1. \A w \in workers' : w.task.id <= started'
    BY <1>1, <1>2, <1>3
  <2>2. \A v, w \in workers' : v.task = w.task => v = w
    BY <1>1, <1>2, <1>4 DEF ExactInv, TasksInv
  <2>3. op'.id <= started'
    BY <1>1, <1>3
  <2> QED BY <2>1, <2>2, <2>3 DEF TasksInv
<1>6. AloneInv'
  BY <1>1, <1>2, <1>4 DEF ExactInv, AloneInv
<1>7. HistoryIsExact'
  BY <1>1 DEF ExactInv, HistoryIsExact
<1> QED BY <1>5, <1>6, <1>7 DEF ExactInv

(* The row it reads is the one in the table. *)
LEMMA ReadExact ==
  ASSUME LedgerInv, ExactInv, NEW w \in workers, ReadRow(w)
  PROVE  ExactInv'
<1> DEFINE rec == Get(w.cache, w.task.fp)
           v == [w EXCEPT !.phase = "reduces", !.row = rec]
<1>1. w \in WorkerType /\ w.cache = NoRow /\ w.task.fp \in Fingerprints /\ w.phase = "simulates"
  BY DEF LedgerInv, WorkersInv, WorkerOK, WorkerType, OpType, ExactInv, AloneInv, ReadRow
<1>2. rec = rows[w.task.fp] /\ rec \in Records
  BY <1>1 DEF Get, LedgerInv, RowsInv
<1>3. workers' = (workers \ {w}) \cup {v} /\ rows' = rows /\ op' = op
      /\ started' = started /\ paid' = paid
  BY DEF ReadRow
<1> HIDE DEF rec
<1>4. v.task = w.task /\ v.cache = w.cache /\ v.phase = "reduces" /\ v.row = rec
  BY <1>1, <1>2 DEF WorkerType, Records
<1> HIDE DEF v
<1>5. TasksInv'
  BY <1>3, <1>4 DEF ExactInv, TasksInv
<1>6. AloneInv'
  BY <1>1, <1>2, <1>3, <1>4 DEF ExactInv, AloneInv
<1>7. HistoryIsExact'
  BY <1>3 DEF ExactInv, HistoryIsExact
<1> QED BY <1>5, <1>6, <1>7 DEF ExactInv

(* It is alone when it saves, so its games are added to all that were saved. *)
LEMMA SaveExact ==
  ASSUME LedgerInv, ExactInv, NEW w \in workers, SaveRow(w)
  PROVE  ExactInv'
<1> DEFINE f == w.task.fp
           row == SavedBy(w)
           v == [w EXCEPT !.phase = "saved", !.row = row]
<1>1. /\ w \in WorkerType /\ w.task \in OpType /\ f \in Fingerprints
      /\ w.task.ref \in w.task.cands /\ RecordOK(w.row) /\ row \in RowType
  BY SavedByOK
<1>2. w.phase = "reduces" /\ w.task = op /\ w.row = rows[f] /\ w.cache = NoRow
  BY DEF SaveRow, ExactInv, AloneInv
<1>3. /\ rows' = [rows EXCEPT ![f] = row] /\ paid' = [paid EXCEPT ![f] = PaidWith(@, w.task)]
      /\ workers' = (workers \ {w}) \cup (IF w.heard THEN {v} ELSE {})
      /\ op' = op /\ started' = started
  BY DEF SaveRow
<1>4. row # NoRow /\ row \in Records
  BY <1>1, NothingAssumption DEF Records
<1>5. row.acc = Extended(AccOf(rows[f]), w.task)
  BY <1>2 DEF SavedBy, Row
<1> HIDE DEF row
<1>6. v.task = w.task /\ v.cache = w.cache /\ v.phase = "saved"
  BY <1>1, <1>4 DEF WorkerType, Records
<1> HIDE DEF v, f
<1>7. TasksInv'
  BY <1>3, <1>6 DEF ExactInv, TasksInv
<1>8. \A u \in workers \ {w} : u.phase = "saved"
  BY <1>2 DEF ExactInv, AloneInv, TasksInv
<1>9. AloneInv'
  BY <1>2, <1>3, <1>6, <1>8 DEF ExactInv, AloneInv
<1>10. HistoryIsExact'
  <2> SUFFICES ASSUME NEW g \in Fingerprints, NEW c \in Cands
               PROVE  /\ AccOf(rows'[g])[c].n = paid'[g][c].n
                      /\ AccOf(rows'[g])[c].seen = paid'[g][c].seen
    BY DEF HistoryIsExact
  <2>1. /\ AccOf(rows[g])[c].n = paid[g][c].n /\ AccOf(rows[g])[c].seen = paid[g][c].seen
    BY DEF ExactInv, HistoryIsExact
  <2>2. CASE g # f
    BY <1>3, <2>1, <2>2 DEF LedgerInv, RowsInv, PaidInv
  <2>3. CASE g = f
    <3>1. rows'[g] = row /\ paid'[g] = PaidWith(paid[g], w.task)
      BY <1>1, <1>3, <2>3 DEF LedgerInv, RowsInv, PaidInv
    <3>2. AccOf(rows'[g])[c] = IF c \in w.task.cands THEN Reduced(AccOf(rows[g])[c], w.task)
                               ELSE AccOf(rows[g])[c]
      BY <1>4, <1>5, <2>3, <3>1 DEF AccOf, Extended
    <3>3. CASE c \in w.task.cands
      <4>1. paid'[g][c] = [n |-> paid[g][c].n + w.task.runs,
                           seen |-> paid[g][c].seen \cup Games(w.task)]
        BY <3>1, <3>3 DEF PaidWith
      <4>2. /\ Reduced(AccOf(rows[g])[c], w.task).n = AccOf(rows[g])[c].n + w.task.runs
            /\ Reduced(AccOf(rows[g])[c], w.task).seen = AccOf(rows[g])[c].seen \cup Games(w.task)
        BY DEF Reduced
      <4> QED BY <2>1, <3>2, <3>3, <4>1, <4>2
    <3>4. CASE c \notin w.task.cands
      <4>1. paid'[g][c] = paid[g][c]
        BY <3>1, <3>4 DEF PaidWith
      <4> QED BY <2>1, <3>2, <3>4, <4>1
    <3> QED BY <3>3, <3>4
  <2> QED BY <2>2, <2>3
<1> QED BY <1>7, <1>9, <1>10 DEF ExactInv

(* An operation that ends takes with it the worker that has not saved. *)
LEMMA EndExact ==
  ASSUME Outlive = {}, LedgerInv, ExactInv,
         Cancel \/ Restart \/ \E w \in workers : Deliver(w) \/ Fail(w)
  PROVE  ExactInv'
<1>1. rows' = rows /\ paid' = paid /\ started' = started /\ (op' = op \/ op' = NoOne)
  BY DEF Cancel, Restart, Deliver, Fail, Leaves
<1>2. workers' \subseteq workers
  <2>1. CASE Restart
    <3>1. PICK alive \in SUBSET {w \in workers : w.phase # "saved"} :
            alive = {} /\ workers' = {[w EXCEPT !.heard = FALSE] : w \in alive}
      BY <2>1 DEF Restart
    <3> QED BY <3>1
  <2> QED BY <2>1 DEF Cancel, Deliver, Fail, Leaves
<1>3. \A v \in workers' : v.phase # "saved" => v.task = op'
  <2> SUFFICES ASSUME NEW v \in workers', v.phase # "saved" PROVE v.task = op'
    OBVIOUS
  <2>1. v \in workers /\ v.task = op
    BY <1>2 DEF ExactInv, AloneInv
  <2>2. CASE Cancel
    BY <2>1, <2>2 DEF Cancel
  <2>3. CASE Restart
    <3>1. PICK alive \in SUBSET {w \in workers : w.phase # "saved"} :
            alive = {} /\ workers' = {[w EXCEPT !.heard = FALSE] : w \in alive}
      BY <2>3 DEF Restart
    <3> QED BY <3>1
  <2>4. CASE \E w \in workers : Deliver(w) \/ Fail(w)
    <3>1. PICK w \in workers : workers' = workers \ {w} /\ op' = IF op = w.task THEN NoOne ELSE op
      BY <2>4 DEF Deliver, Fail, Leaves
    <3>2. v.task # w.task
      BY <2>1, <3>1 DEF ExactInv, TasksInv
    <3> QED BY <2>1, <3>1, <3>2
  <2> QED BY <2>2, <2>3, <2>4
<1>4. TasksInv'
  BY <1>1, <1>2 DEF ExactInv, TasksInv
<1>5. AloneInv'
  BY <1>1, <1>2, <1>3 DEF ExactInv, AloneInv
<1>6. HistoryIsExact'
  BY <1>1 DEF ExactInv, HistoryIsExact
<1> QED BY <1>4, <1>5, <1>6 DEF ExactInv

LEMMA ExactStep ==
  ASSUME StartMethod = "spawn", Outlive = {}, LedgerInv, ExactInv, [Next]_vars
  PROVE  ExactInv'
<1>1. CASE UNCHANGED vars
  BY <1>1 DEF ExactInv, TasksInv, AloneInv, HistoryIsExact, vars
<1>2. CASE \E a \in Analyses, cs \in SUBSET Cands, seed \in SeedChoices,
              runs \in RunChoices : \E ref \in cs : Create(a, cs, ref, seed, runs)
  BY <1>2, BeginExact DEF Create
<1>3. CASE \E a \in Analyses, runs \in RunChoices : ExtendRuns(a, runs)
  BY <1>3, BeginExact DEF ExtendRuns
<1>4. CASE \E a \in Analyses, new \in SUBSET Cands : ExtendCandidates(a, new)
  BY <1>4, BeginExact DEF ExtendCandidates
<1>5. CASE \E w \in workers : ReadRow(w) \/ SaveRow(w)
  BY <1>5, ReadExact, SaveExact
<1>6. CASE Cancel \/ Restart \/ \E w \in workers : Deliver(w) \/ Fail(w)
  BY <1>6, EndExact
<1> QED BY <1>1, <1>2, <1>3, <1>4, <1>5, <1>6 DEF Next

(* The history holds exactly the games saved into it, whatever is cancelled *)
(* or restarted between the read of a row and its save (run_analysis,       *)
(* save_reduction).  It needs what the code does not ensure by itself: that *)
(* no worker outlives its operation, and that none begins with a copy of    *)
(* the cache of the API process.                                            *)
THEOREM HistoryExact ==
  ASSUME StartMethod = "spawn", Outlive = {}
  PROVE  Spec => []HistoryIsExact
<1>1. Init => ExactInv
  <2> SUFFICES ASSUME Init PROVE ExactInv
    OBVIOUS
  <2>1. HistoryIsExact
    BY DEF Init, HistoryIsExact, AccOf, EmptyAcc, NoGames
  <2> QED BY <2>1 DEF Init, ExactInv, TasksInv, AloneInv
<1>2. LedgerInv /\ ExactInv /\ [Next]_vars => ExactInv'
  BY ExactStep
<1>3. ExactInv => HistoryIsExact
  BY DEF ExactInv
<1> QED BY <1>1, <1>2, <1>3, LedgerAlways, PTL DEF Spec

=============================================================================
