------------------------- MODULE MortalBatchProofs -------------------------
(***************************************************************************)
(* What a batch of games promises, for any number of games, any scenes,    *)
(* any order of the encodings and any answers of the network.              *)
(***************************************************************************)
EXTENDS MortalBatch, SequenceTheorems, FiniteSetTheorems, SetInduction

-----------------------------------------------------------------------------
(* The invariant.                                                          *)

Distinct(v) == \A i, j \in 1 .. Len(v) : v[i] = v[j] => i = j
Held(v) == {v[i] : i \in 1 .. Len(v)}

(* The vector, and the position the loop has reached in it. *)
VectorOK == /\ games \in Seq(Games) /\ Distinct(games)
            /\ stage \in {"poll", "commit"} /\ cursor \in 1 .. Len(games) + 1
            /\ cycle \in Nat /\ over \subseteq Games
            /\ stage = "poll" =>
                 \A i \in 1 .. Len(games) : games[i] \in over => i < cursor

(* A game has its own result when its end has been committed, and then its
   position is among those to remove, in rising order. *)
Finished(i) == stage = "commit" /\ i < cursor /\ games[i] \in over
ResultsOK == /\ result \in [Games -> Games \cup {None}]
             /\ \A g \in Games : result[g] \in {g, None}
             /\ \A g \in Games : result[g] = None <=>
                  \E i \in 1 .. Len(games) : games[i] = g /\ ~ Finished(i)
RemovalOK == /\ to_remove \in Seq(Nat)
             /\ \A a, b \in 1 .. Len(to_remove) : a < b => to_remove[a] < to_remove[b]
             /\ {to_remove[a] : a \in 1 .. Len(to_remove)} =
                  {i \in 1 .. Len(games) : Finished(i)}

(* A game has a scene from its poll to the end of the cycle, unless it is over,
   and a reaction from its commit on, which its scene allows. *)
SceneInv == /\ scene \in [Games -> Scenes \cup {None}]
            /\ \A g \in Games : scene[g] # None =>
                 /\ g \notin over
                 /\ \E i \in 1 .. Len(games) : games[i] = g /\ (stage = "poll" => i < cursor)
            /\ \A i \in 1 .. Len(games) :
                 (stage = "commit" \/ i < cursor) /\ games[i] \notin over => scene[games[i]] # None
ReactionInv == /\ DOMAIN reaction = Games
               /\ \A g \in Games : reaction[g] # None =>
                    scene[g] # None /\ reaction[g] \in Legal(scene[g])
               /\ stage = "poll" => \A g \in Games : reaction[g] = None
               /\ stage = "commit" =>
                    \A i \in 1 .. Len(games) : games[i] \notin over =>
                      (reaction[games[i]] # None <=> i < cursor)

(* Who answers without the network, and who waits for it. *)
Alone(g) == g \in Single \/ IsQuick(scene[g])
QuickInv == /\ DOMAIN quick = Games
            /\ \A g \in Games : quick[g] # None =>
                 scene[g] # None /\ quick[g] \in Legal(scene[g])
            /\ \A g \in Games : scene[g] # None =>
                 (quick[g] # None <=> Alone(g) /\ reaction[g] = None)
Awaits(g) == scene[g] # None /\ ~Alone(g) /\ reaction[g] = None

(* The rows of a game that waits stand where its indices say, in the batch or,
   once the network has answered, in the batch it answered. *)
Buffer == IF evaluated THEN answered ELSE rows
RowAt(i, g, atKan) == i \in DOMAIN Buffer /\ Buffer[i] = Row(g, atKan)
HasRows(g) ==
  /\ RowAt(action_idxs[g], g, FALSE)
  /\ kan_action_idxs[g] # None <=> NeedKanSelect(scene[g])
  /\ kan_action_idxs[g] # None => RowAt(kan_action_idxs[g], g, TRUE)
RowSet == [game : Games, at : Nat, kan : BOOLEAN,
           mask : {Mask(s, k) : s \in Scenes, k \in BOOLEAN}]
BatchInv == /\ rows \in Seq(RowSet) /\ evaluated \in BOOLEAN /\ spawned \subseteq Games
            /\ action_idxs \in [Games -> Nat] /\ kan_action_idxs \in [Games -> Nat \cup {None}]
            /\ \A i \in DOMAIN answered : actions[i] \in answered[i].mask
            /\ \A g \in spawned : Awaits(g) /\ kan_action_idxs[g] = None /\ ~evaluated
            /\ \A g \in Games \ spawned : Awaits(g) => HasRows(g)
            /\ \A g \in Games : kan_action_idxs[g] # None => Awaits(g)
            /\ stage = "poll" /\ evaluated => \A g \in Games : scene[g] # None => g \in Single

LoopInv == VectorOK /\ ResultsOK /\ RemovalOK
CycleInv == SceneInv /\ ReactionInv /\ QuickInv
MortalInv == LoopInv /\ CycleInv /\ BatchInv

-----------------------------------------------------------------------------
(* Taking games out.                                                       *)

LEMMA SwapRemoveOK ==
  ASSUME NEW S, NEW v \in Seq(S), NEW i \in 1 .. Len(v), Distinct(v),
         NEW r, r = SwapRemove(v, i)
  PROVE  /\ r \in Seq(S) /\ Len(r) = Len(v) - 1 /\ Distinct(r)
         /\ Held(r) = Held(v) \ {v[i]}
         /\ \A j \in 1 .. Len(r) : j # i => r[j] = v[j]
<1>1. Len(v) \in Nat /\ Len(v) - 1 \in Nat /\ \A j \in 1 .. Len(v) : v[j] \in S
  BY LenProperties, ElementOfSeq
<1>2. r = [j \in 1 .. Len(v) - 1 |-> IF j = i THEN v[Len(v)] ELSE v[j]]
  BY DEF SwapRemove
<1>3. r \in [1 .. Len(v) - 1 -> S]
  BY <1>1, <1>2
<1>4. r \in Seq(S) /\ Len(r) = Len(v) - 1
  <2>1. r \in Seq(S)
    BY <1>1, <1>3, SeqDef
  <2>2. DOMAIN r = 1 .. Len(v) - 1
    BY <1>2
  <2>3. DOMAIN r = 1 .. Len(r) /\ Len(r) \in Nat
    BY <2>1, LenProperties
  <2> QED BY <1>1, <2>1, <2>2, <2>3
<1>5. \A j \in 1 .. Len(v) - 1 : r[j] = IF j = i THEN v[Len(v)] ELSE v[j]
  BY <1>2
<1>6. Distinct(r)
  <2> SUFFICES ASSUME NEW j \in 1 .. Len(v) - 1, NEW k \in 1 .. Len(v) - 1, r[j] = r[k]
               PROVE  j = k
    BY <1>4 DEF Distinct
  <2>1. j \in 1 .. Len(v) /\ k \in 1 .. Len(v) /\ Len(v) \in 1 .. Len(v)
    BY <1>1
  <2>2. CASE j = i /\ k # i
    <3>1. v[Len(v)] = v[k]
      BY <1>5, <2>2
    <3> QED BY <1>1, <2>1, <3>1 DEF Distinct
  <2>3. CASE j # i /\ k = i
    <3>1. v[Len(v)] = v[j]
      BY <1>5, <2>3
    <3> QED BY <1>1, <2>1, <3>1 DEF Distinct
  <2>4. CASE j # i /\ k # i
    <3>1. v[j] = v[k]
      BY <1>5, <2>4
    <3> QED BY <2>1, <3>1 DEF Distinct
  <2> QED BY <2>2, <2>3, <2>4
<1>7. Held(r) = Held(v) \ {v[i]}
  <2>1. ASSUME NEW j \in 1 .. Len(v) - 1 PROVE r[j] \in Held(v) /\ r[j] # v[i]
    <3>1. j \in 1 .. Len(v) /\ Len(v) \in 1 .. Len(v) /\ Len(v) # j
      BY <1>1
    <3>2. CASE j = i
      BY <1>5, <3>1, <3>2 DEF Held, Distinct
    <3>3. CASE j # i
      BY <1>5, <3>1, <3>3 DEF Held, Distinct
    <3> QED BY <3>2, <3>3
  <2>2. ASSUME NEW j \in 1 .. Len(v), v[j] # v[i] PROVE v[j] \in Held(r)
    <3>1. CASE j = Len(v)
      <4>1. i \in 1 .. Len(r) /\ r[i] = v[j]
        BY <1>1, <1>4, <1>5, <2>2, <3>1
      <4> QED BY <4>1 DEF Held
    <3>2. CASE j # Len(v)
      <4>1. j \in 1 .. Len(r) /\ r[j] = v[j]
        BY <1>1, <1>4, <1>5, <2>2, <3>2
      <4> QED BY <4>1 DEF Held
    <3> QED BY <3>1, <3>2
  <2> QED BY <1>4, <2>1, <2>2 DEF Held
<1> QED BY <1>4, <1>5, <1>6, <1>7

(* The recursion of Removed has a solution. *)
Leaves(f, v, s, n, N) ==
  f = [k \in 0 .. N |-> IF k = 0 THEN v ELSE SwapRemove(f[k - 1], s[n - k + 1])]

LEMMA LeavesExists ==
  ASSUME NEW v, NEW s, NEW n, NEW L \in Nat
  PROVE  \E f : Leaves(f, v, s, n, L)
<1> DEFINE Good == {N \in Nat : \E f : Leaves(f, v, s, n, N)}
<1>1. 0 \in Good
  <2> DEFINE f == [k \in 0 .. 0 |-> v]
  <2>1. Leaves(f, v, s, n, 0)
    BY DEF Leaves
  <2> QED BY <2>1
<1>2. ASSUME NEW N \in Good PROVE N + 1 \in Good
  <2>1. PICK f : Leaves(f, v, s, n, N)
    BY <1>2
  <2> DEFINE g == [k \in 0 .. N + 1 |->
                     IF k = N + 1 THEN SwapRemove(f[N], s[n - (N + 1) + 1]) ELSE f[k]]
  <2>2. ASSUME NEW k \in 0 .. N + 1
        PROVE  g[k] = IF k = 0 THEN v ELSE SwapRemove(g[k - 1], s[n - k + 1])
    <3>1. CASE k = N + 1
      <4>1. g[k] = SwapRemove(f[N], s[n - k + 1]) /\ g[k - 1] = f[N] /\ k # 0
        BY <3>1
      <4> QED BY <4>1
    <3>2. CASE k # N + 1
      <4>1. k \in 0 .. N /\ g[k] = f[k] /\ (k # 0 => g[k - 1] = f[k - 1])
        BY <3>2
      <4>2. f[k] = IF k = 0 THEN v ELSE SwapRemove(f[k - 1], s[n - k + 1])
        BY <2>1, <4>1 DEF Leaves
      <4> QED BY <4>1, <4>2
    <3> QED BY <3>1, <3>2
  <2>3. g = [k \in 0 .. N + 1 |-> g[k]]
    OBVIOUS
  <2> HIDE DEF g
  <2>4. Leaves(g, v, s, n, N + 1)
    BY <2>2, <2>3 DEF Leaves
  <2> QED BY <2>4
<1> HIDE DEF Good
<1>3. Good = Nat
  <2>1. Good \subseteq Nat
    BY DEF Good
  <2> QED BY <1>1, <1>2, <2>1, NatSetInduction
<1> QED BY <1>3 DEF Good

LEMMA RemovedLeaves ==
  ASSUME Len(to_remove) \in Nat
  PROVE  \E f : /\ Removed = f[Len(to_remove)] /\ f[0] = games
                /\ \A k \in 1 .. Len(to_remove) :
                     f[k] = SwapRemove(f[k - 1], to_remove[Len(to_remove) - k + 1])
<1> DEFINE n == Len(to_remove)
           f == CHOOSE g : g = [k \in 0 .. n |-> IF k = 0 THEN games
                                  ELSE SwapRemove(g[k - 1], to_remove[n - k + 1])]
<1>1. Removed = f[n]
  BY DEF Removed
<1>2. Leaves(f, games, to_remove, n, n)
  <2>1. \E g : Leaves(g, games, to_remove, n, n)
    BY LeavesExists
  <2>2. f = CHOOSE g : Leaves(g, games, to_remove, n, n)
    BY DEF Leaves
  <2> HIDE DEF f
  <2> QED BY <2>1, <2>2
<1> HIDE DEF f
<1>3. f[0] = games
  BY <1>2 DEF Leaves
<1>4. ASSUME NEW k \in 1 .. n PROVE f[k] = SwapRemove(f[k - 1], to_remove[n - k + 1])
  <2>1. k \in 0 .. n /\ k # 0
    OBVIOUS
  <2> QED BY <1>2, <2>1 DEF Leaves
<1> QED BY <1>1, <1>3, <1>4

LEMMA IntervalSplit ==
  ASSUME NEW a \in Int, NEW b \in Int, a <= b
  PROVE  a .. b = {a} \cup (a + 1 .. b)
OBVIOUS

(* After the sweep the vector holds the games it held, but those at the
   positions to remove. *)
LEMMA RemovedOK ==
  ASSUME games \in Seq(Games), Distinct(games), to_remove \in Seq(Nat),
         \A a, b \in 1 .. Len(to_remove) : a < b => to_remove[a] < to_remove[b],
         \A a \in 1 .. Len(to_remove) : to_remove[a] \in 1 .. Len(games)
  PROVE  /\ Removed \in Seq(Games) /\ Distinct(Removed)
         /\ Held(Removed) = Held(games) \ {games[to_remove[a]] : a \in 1 .. Len(to_remove)}
<1> DEFINE n == Len(to_remove)
           N == Len(games)
<1>1. n \in Nat /\ N \in Nat
  BY LenProperties
<1>2. PICK f : /\ Removed = f[n] /\ f[0] = games
               /\ \A k \in 1 .. n : f[k] = SwapRemove(f[k - 1], to_remove[n - k + 1])
  BY <1>1, RemovedLeaves
<1>3. \A a \in 1 .. n : to_remove[a] \in 1 .. N
  OBVIOUS
<1>4. \A a, b \in 1 .. n : a < b => to_remove[a] < to_remove[b]
  OBVIOUS
<1> HIDE DEF n, N
<1> DEFINE Out(k) == {games[to_remove[a]] : a \in n - k + 1 .. n}
           Left(k) ==
             /\ f[k] \in Seq(Games) /\ Len(f[k]) = N - k /\ Distinct(f[k])
             /\ Held(f[k]) = Held(games) \ Out(k)
             /\ k < n => to_remove[n - k] <= N - k
             /\ \A j \in 1 .. N - k :
                  (\A a \in n - k + 1 .. n : j < to_remove[a]) => f[k][j] = games[j]
           Good == {k \in 0 .. n : Left(k)}
<1>5. 0 \in Good
  <2>1. Out(0) = {}
    BY <1>1
  <2>2. 0 < n => to_remove[n - 0] <= N - 0
    BY <1>1, <1>3
  <2>3. f[0] \in Seq(Games) /\ Len(f[0]) = N - 0 /\ Distinct(f[0])
        /\ \A j \in 1 .. N - 0 : f[0][j] = games[j]
    BY <1>1, <1>2 DEF N
  <2>4. Held(f[0]) = Held(games) \ Out(0)
    BY <1>2, <2>1
  <2> QED BY <1>1, <2>2, <2>3, <2>4
<1>6. ASSUME NEW k \in Good \cap (0 .. n - 1) PROVE k + 1 \in Good
  <2> DEFINE v == f[k]
             p == to_remove[n - k]
             r == f[k + 1]
  <2>0. k \in Nat /\ k < n /\ Left(k)
    <3>1. k \in 0 .. n - 1 /\ Left(k)
      <4> HIDE DEF Left
      <4> QED OBVIOUS
    <3> HIDE DEF Left
    <3> QED BY <1>1, <3>1
  <2>1. /\ k \in Nat /\ k < n /\ v \in Seq(Games) /\ Len(v) = N - k /\ Distinct(v)
        /\ Held(v) = Held(games) \ Out(k) /\ p <= N - k
        /\ \A j \in 1 .. N - k :
             (\A a \in n - k + 1 .. n : j < to_remove[a]) => v[j] = games[j]
    BY <2>0, Zenon
  <2>2. n - k \in 1 .. n /\ p \in 1 .. N
    BY <1>1, <1>3, <2>1
  <2>3. p \in 1 .. Len(v)
    BY <1>1, <2>1, <2>2
  <2>4. r = SwapRemove(v, p)
    <3>1. k + 1 \in 1 .. n /\ k + 1 - 1 = k /\ n - (k + 1) + 1 = n - k
      BY <1>1, <2>1
    <3> QED BY <1>2, <3>1
  <2>5. v[p] = games[p]
    <3>1. ASSUME NEW a \in n - k + 1 .. n PROVE p < to_remove[a]
      <4>1. a \in 1 .. n /\ n - k < a
        BY <1>1, <2>0
      <4> QED BY <1>4, <2>2, <4>1
    <3> QED BY <2>1, <2>3, <3>1
  <2>6. \A a \in n - k .. n : a \in 1 .. n
    BY <1>1, <2>1
  <2>7. Out(k + 1) = Out(k) \cup {games[p]}
    <3>1. n - (k + 1) + 1 = n - k
      BY <1>1, <2>1
    <3>2. n - k .. n = {n - k} \cup (n - k + 1 .. n)
      <4>1. n - k \in Int /\ n \in Int /\ n - k <= n
        BY <1>1, <2>1
      <4> HIDE DEF Out, Left, Good, v, p, r
      <4> QED BY <4>1, IntervalSplit
    <3> QED BY <3>1, <3>2
  <2> HIDE DEF v, r, Out, Left, Good
  <2>8. /\ r \in Seq(Games) /\ Len(r) = Len(v) - 1 /\ Distinct(r)
        /\ Held(r) = Held(v) \ {v[p]}
        /\ \A j \in 1 .. Len(r) : j # p => r[j] = v[j]
    <3> HIDE DEF p
    <3>1. v \in Seq(Games) /\ Distinct(v)
      BY <2>1
    <3> QED BY <2>3, <2>4, <3>1, SwapRemoveOK
  <2>9. Held(r) = Held(games) \ Out(k + 1)
    BY <2>1, <2>5, <2>7, <2>8
  <2>10. k + 1 < n => to_remove[n - (k + 1)] <= N - (k + 1)
    <3> SUFFICES ASSUME k + 1 < n PROVE to_remove[n - (k + 1)] <= N - (k + 1)
      OBVIOUS
    <3>1. n - (k + 1) \in 1 .. n /\ n - (k + 1) < n - k
      BY <1>1, <2>1
    <3>2. to_remove[n - (k + 1)] < p /\ to_remove[n - (k + 1)] \in 1 .. N
      BY <1>3, <1>4, <2>2, <3>1
    <3> QED BY <1>1, <2>1, <2>2, <3>2
  <2>11. ASSUME NEW j \in 1 .. N - (k + 1), \A a \in n - (k + 1) + 1 .. n : j < to_remove[a]
         PROVE  r[j] = games[j]
    <3>1. n - (k + 1) + 1 = n - k /\ n - k \in n - k .. n
      BY <1>1, <2>1
    <3>2. j < p
      BY <2>11, <3>1
    <3>3. \A a \in n - k + 1 .. n : a \in n - (k + 1) + 1 .. n
      BY <1>1, <2>1
    <3>4. j \in 1 .. N - k /\ j \in 1 .. Len(r)
      BY <1>1, <2>1, <2>8
    <3>5. v[j] = games[j]
      BY <2>1, <2>11, <3>3, <3>4
    <3>6. j # p
      BY <2>2, <3>2
    <3> QED BY <2>8, <3>4, <3>5, <3>6
  <2>12. Len(r) = N - (k + 1) /\ k + 1 \in 0 .. n
    BY <1>1, <2>1, <2>8
  <2>13. Left(k + 1)
    BY <2>8, <2>9, <2>10, <2>11, <2>12 DEF r, Left
  <2> QED BY <2>12, <2>13 DEF Good
<1> HIDE DEF Good
<1>7. 0 .. n \subseteq Good
  BY <1>1, <1>5, <1>6, IntervalInduction
<1>8. n \in Good
  BY <1>1, <1>7
<1>9. n - n + 1 = 1
  BY <1>1
<1>10. Out(n) = {games[to_remove[a]] : a \in 1 .. n}
  BY <1>9
<1> HIDE DEF Out
<1>11. f[n] \in Seq(Games) /\ Distinct(f[n]) /\ Held(f[n]) = Held(games) \ Out(n)
  BY <1>8 DEF Good
<1> QED BY <1>2, <1>10, <1>11 DEF n

-----------------------------------------------------------------------------
(* The loop of run: the vector, the results and the positions to remove.   *)

LEMMA LoopInit ==
  ASSUME BatchInit
  PROVE  LoopInv
<1>1. PICK n \in Nat : Games = 1 .. n
  BY FS_CardinalityType, BatchAssumption
<1>2. /\ games = [g \in Games |-> g] /\ cursor = 1 /\ stage = "poll" /\ cycle = 1 /\ over = {}
      /\ result = [g \in Games |-> None] /\ to_remove = <<>>
  BY DEF BatchInit
<1>3. games \in Seq(Games) /\ Len(games) = n
  <2>1. games \in [1 .. n -> Games]
    BY <1>1, <1>2
  <2>2. games \in Seq(Games)
    BY <2>1, SeqDef
  <2>3. DOMAIN games = 1 .. n /\ DOMAIN games = 1 .. Len(games) /\ Len(games) \in Nat
    BY <2>1, <2>2, LenProperties
  <2> QED BY <2>2, <2>3
<1>4. \A i \in 1 .. Len(games) : games[i] = i
  BY <1>1, <1>2, <1>3
<1>5. VectorOK
  BY <1>2, <1>3, <1>4 DEF VectorOK, Distinct
<1>6. ResultsOK
  BY <1>1, <1>2, <1>3, <1>4 DEF ResultsOK, Finished
<1>7. RemovalOK
  <2>1. to_remove \in Seq(Nat) /\ Len(to_remove) = 0
    BY <1>2
  <2> QED BY <1>2, <2>1 DEF RemovalOK, Finished
<1> QED BY <1>5, <1>6, <1>7 DEF LoopInv

(* The parts of the invariant that a step leaves alone. *)
LEMMA LoopSame ==
  ASSUME LoopInv, UNCHANGED loop
  PROVE  LoopInv'
BY DEF LoopInv, VectorOK, ResultsOK, RemovalOK, Finished, Distinct, loop

(* A step after which the same games are finished. *)
LEMMA LoopMoves ==
  ASSUME LoopInv, UNCHANGED <<games, cycle, result, to_remove>>,
         stage' \in {"poll", "commit"}, cursor' \in 1 .. Len(games) + 1, over' \subseteq Games,
         stage' = "poll" => \A i \in 1 .. Len(games) : games[i] \in over' => i < cursor',
         \A i \in 1 .. Len(games) : Finished(i)' <=> Finished(i)
  PROVE  LoopInv'
<1>1. VectorOK'
  BY DEF LoopInv, VectorOK, Distinct
<1>2. ResultsOK'
  BY DEF LoopInv, ResultsOK
<1>3. RemovalOK'
  BY DEF LoopInv, RemovalOK
<1> QED BY <1>1, <1>2, <1>3 DEF LoopInv

LEMMA LoopPoll ==
  ASSUME LoopInv, Poll
  PROVE  LoopInv'
<1>1. /\ stage = "poll" /\ cursor <= Len(games) /\ cursor' = cursor + 1
      /\ UNCHANGED <<games, stage, cycle, result, to_remove>>
      /\ over' = over \/ over' = over \cup {games[cursor]}
  BY DEF Poll
<1>2. /\ games \in Seq(Games) /\ Distinct(games) /\ cursor \in 1 .. Len(games) + 1
      /\ over \subseteq Games /\ \A i \in 1 .. Len(games) : games[i] \in over => i < cursor
  BY <1>1 DEF LoopInv, VectorOK
<1>3. Len(games) \in Nat /\ \A i \in 1 .. Len(games) : games[i] \in Games
  BY <1>2, LenProperties, ElementOfSeq
<1>4. cursor \in 1 .. Len(games) /\ cursor' \in 1 .. Len(games) + 1
  BY <1>1, <1>2, <1>3
<1>5. ASSUME NEW i \in 1 .. Len(games), games[i] \in over' PROVE i < cursor'
  <2>1. games[i] \in over \/ games[i] = games[cursor]
    BY <1>1, <1>5
  <2>2. i < cursor \/ i = cursor
    BY <1>2, <1>4, <2>1 DEF Distinct
  <2> QED BY <1>1, <1>3, <1>4, <2>2
<1>6. \A i \in 1 .. Len(games) : Finished(i)' <=> Finished(i)
  BY <1>1 DEF Finished
<1>7. over' \subseteq Games
  BY <1>1, <1>2, <1>3, <1>4
<1> QED BY <1>1, <1>4, <1>5, <1>6, <1>7, LoopMoves

LEMMA LoopPolled ==
  ASSUME LoopInv, Polled
  PROVE  LoopInv'
<1>1. /\ stage = "poll" /\ stage' = "commit" /\ cursor' = 1
      /\ UNCHANGED <<games, cycle, over, result, to_remove>>
  BY DEF Polled
<1>2. games \in Seq(Games) /\ over \subseteq Games
  BY DEF LoopInv, VectorOK
<1>3. Len(games) \in Nat
  BY <1>2, LenProperties
<1>4. \A i \in 1 .. Len(games) : Finished(i)' <=> Finished(i)
  BY <1>1, <1>3 DEF Finished
<1> QED BY <1>1, <1>2, <1>3, <1>4, LoopMoves

(* The commit of a game that goes on. *)
Commits == /\ Asks /\ cursor' = cursor + 1
           /\ UNCHANGED <<games, stage, cycle, over, result, to_remove>>

LEMMA LoopCommits ==
  ASSUME LoopInv, Commits
  PROVE  LoopInv'
<1>1. /\ stage = "commit" /\ cursor <= Len(games) /\ cursor' = cursor + 1
      /\ games[cursor] \notin over
      /\ UNCHANGED <<games, stage, cycle, over, result, to_remove>>
  BY DEF Commits, Asks, Committing
<1>2. games \in Seq(Games) /\ over \subseteq Games /\ cursor \in 1 .. Len(games) + 1
  BY DEF LoopInv, VectorOK
<1>3. Len(games) \in Nat
  BY <1>2, LenProperties
<1>4. ASSUME NEW i \in 1 .. Len(games) PROVE Finished(i)' <=> Finished(i)
  <2>1. CASE i = cursor
    BY <1>1, <2>1 DEF Finished
  <2>2. CASE i # cursor
    <3>1. i < cursor + 1 <=> i < cursor
      BY <1>2, <1>3, <2>2
    <3> QED BY <1>1, <3>1 DEF Finished
  <2> QED BY <2>1, <2>2
<1>5. cursor' \in 1 .. Len(games) + 1
  BY <1>1, <1>2, <1>3
<1> QED BY <1>1, <1>2, <1>4, <1>5, LoopMoves

LEMMA LoopFinish ==
  ASSUME None \notin Games, LoopInv, Finish
  PROVE  LoopInv'
<1>1. /\ stage = "commit" /\ cursor <= Len(games) /\ games[cursor] \in over
      /\ result' = [result EXCEPT ![games[cursor]] = games[cursor]]
      /\ to_remove' = Append(to_remove, cursor) /\ cursor' = cursor + 1
      /\ UNCHANGED <<games, stage, cycle, over>>
  BY DEF Finish, Committing
<1>2. /\ games \in Seq(Games) /\ Distinct(games) /\ cursor \in 1 .. Len(games) + 1
      /\ over \subseteq Games /\ cycle \in Nat
  BY DEF LoopInv, VectorOK
<1>3. Len(games) \in Nat /\ \A i \in 1 .. Len(games) : games[i] \in Games
  BY <1>2, LenProperties, ElementOfSeq
<1>4. cursor \in 1 .. Len(games) /\ cursor' \in 1 .. Len(games) + 1 /\ cursor \in Nat
  BY <1>1, <1>2, <1>3
<1>5. ASSUME NEW i \in 1 .. Len(games) PROVE Finished(i)' <=> Finished(i) \/ i = cursor
  <2>1. CASE i = cursor
    BY <1>1, <1>4, <2>1 DEF Finished
  <2>2. CASE i # cursor
    <3>1. i < cursor + 1 <=> i < cursor
      BY <1>2, <1>3, <2>2
    <3> QED BY <1>1, <2>2, <3>1 DEF Finished
  <2> QED BY <2>1, <2>2
<1>6. VectorOK'
  BY <1>1, <1>2, <1>4 DEF VectorOK, Distinct
<1>7. ResultsOK'
  <2>1. /\ result \in [Games -> Games \cup {None}]
        /\ \A g \in Games : result[g] \in {g, None}
        /\ \A g \in Games : result[g] = None <=>
             \E i \in 1 .. Len(games) : games[i] = g /\ ~ Finished(i)
    BY DEF LoopInv, ResultsOK
  <2>2. games[cursor] \in Games
    BY <1>3, <1>4
  <2>3. result' \in [Games -> Games \cup {None}]
    BY <1>1, <2>1, <2>2
  <2>4. ASSUME NEW g \in Games PROVE result'[g] \in {g, None}
    BY <1>1, <2>1, <2>2
  <2>5. ASSUME NEW g \in Games
        PROVE  result'[g] = None <=> \E i \in 1 .. Len(games) : games[i] = g /\ ~ Finished(i)'
    <3>1. CASE g = games[cursor]
      <4>1. result'[g] = g
        BY <1>1, <2>1, <2>2, <3>1
      <4>2. ~ \E i \in 1 .. Len(games) : games[i] = g /\ ~ Finished(i)'
        BY <1>2, <1>4, <1>5, <3>1 DEF Distinct
      <4>3. g # None
        BY <1>3, <1>4, <3>1
      <4> QED BY <4>1, <4>2, <4>3
    <3>2. CASE g # games[cursor]
      <4>1. result'[g] = result[g]
        BY <1>1, <2>1, <2>2, <3>2
      <4>2. \A i \in 1 .. Len(games) : games[i] = g => (Finished(i)' <=> Finished(i))
        BY <1>5, <3>2
      <4> QED BY <2>1, <4>1, <4>2
    <3> QED BY <3>1, <3>2
  <2> QED BY <1>1, <2>3, <2>4, <2>5 DEF ResultsOK
<1>8. RemovalOK'
  <2>1. /\ to_remove \in Seq(Nat)
        /\ \A a, b \in 1 .. Len(to_remove) : a < b => to_remove[a] < to_remove[b]
        /\ {to_remove[a] : a \in 1 .. Len(to_remove)} = {i \in 1 .. Len(games) : Finished(i)}
    BY DEF LoopInv, RemovalOK
  <2>2. /\ to_remove' \in Seq(Nat) /\ Len(to_remove') = Len(to_remove) + 1
        /\ \A a \in 1 .. Len(to_remove) : to_remove'[a] = to_remove[a]
        /\ to_remove'[Len(to_remove) + 1] = cursor /\ Len(to_remove) \in Nat
    BY <1>1, <1>4, <2>1, AppendProperties, LenProperties
  <2>3. \A a \in 1 .. Len(to_remove) : to_remove[a] < cursor
    BY <2>1 DEF Finished
  <2>4. ASSUME NEW a \in 1 .. Len(to_remove'), NEW b \in 1 .. Len(to_remove'), a < b
        PROVE  to_remove'[a] < to_remove'[b]
    <3>1. a \in 1 .. Len(to_remove) /\ (b \in 1 .. Len(to_remove) \/ b = Len(to_remove) + 1)
      BY <2>2, <2>4
    <3> QED BY <2>1, <2>2, <2>3, <2>4, <3>1
  <2>5. 1 .. Len(to_remove') = 1 .. Len(to_remove) \cup {Len(to_remove) + 1}
    BY <2>2
  <2>6. {to_remove'[a] : a \in 1 .. Len(to_remove')} =
          {to_remove[a] : a \in 1 .. Len(to_remove)} \cup {cursor}
    BY <2>2, <2>5
  <2>7. {i \in 1 .. Len(games) : Finished(i)'} =
          {i \in 1 .. Len(games) : Finished(i)} \cup {cursor}
    BY <1>4, <1>5
  <2>8. {to_remove'[a] : a \in 1 .. Len(to_remove')} = {i \in 1 .. Len(games') : Finished(i)'}
    BY <1>1, <2>1, <2>6, <2>7
  <2> QED BY <2>2, <2>4, <2>8 DEF RemovalOK
<1> QED BY <1>6, <1>7, <1>8 DEF LoopInv

LEMMA LoopSweep ==
  ASSUME LoopInv, Sweep
  PROVE  LoopInv' /\ \A g \in Games : g \in Held(games') => g \notin over
<1>1. /\ stage = "commit" /\ cursor = Len(games) + 1 /\ games' = Removed /\ to_remove' = <<>>
      /\ stage' = "poll" /\ cursor' = 1 /\ cycle' = cycle + 1 /\ UNCHANGED <<over, result>>
  BY DEF Sweep
<1>2. /\ games \in Seq(Games) /\ Distinct(games) /\ over \subseteq Games /\ cycle \in Nat
  BY DEF LoopInv, VectorOK
<1>3. /\ to_remove \in Seq(Nat)
      /\ \A a, b \in 1 .. Len(to_remove) : a < b => to_remove[a] < to_remove[b]
      /\ {to_remove[a] : a \in 1 .. Len(to_remove)} = {i \in 1 .. Len(games) : Finished(i)}
  BY DEF LoopInv, RemovalOK
<1>4. Len(games) \in Nat /\ \A i \in 1 .. Len(games) : games[i] \in Games
  BY <1>2, LenProperties, ElementOfSeq
<1>5. \A i \in 1 .. Len(games) : Finished(i) <=> games[i] \in over
  BY <1>1, <1>4 DEF Finished
<1>6. \A a \in 1 .. Len(to_remove) : to_remove[a] \in 1 .. Len(games)
  BY <1>3
<1>7. /\ games' \in Seq(Games) /\ Distinct(games)'
      /\ Held(games') = Held(games) \ {games[to_remove[a]] : a \in 1 .. Len(to_remove)}
  <2>1. Distinct(Removed)
    BY <1>2, <1>3, <1>6, RemovedOK
  <2> QED BY <1>1, <1>2, <1>3, <1>6, <2>1, RemovedOK DEF Distinct
<1>8. {games[to_remove[a]] : a \in 1 .. Len(to_remove)} =
        {games[i] : i \in {j \in 1 .. Len(games) : games[j] \in over}}
  <2> DEFINE R == {to_remove[a] : a \in 1 .. Len(to_remove)}
             T == {j \in 1 .. Len(games) : games[j] \in over}
  <2>1. R = T
    BY <1>3, <1>5
  <2>2. {games[to_remove[a]] : a \in 1 .. Len(to_remove)} = {games[i] : i \in R}
    OBVIOUS
  <2> HIDE DEF R
  <2> QED BY <2>1, <2>2
<1>9. Held(games') = Held(games) \ over
  BY <1>7, <1>8 DEF Held
<1>10. Len(games') \in Nat
  BY <1>7, LenProperties
<1>11. VectorOK'
  <2>1. \A i \in 1 .. Len(games') : games'[i] \notin over
    BY <1>9 DEF Held
  <2> QED BY <1>1, <1>2, <1>7, <1>10, <2>1 DEF VectorOK
<1>12. ResultsOK'
  <2>1. /\ result \in [Games -> Games \cup {None}]
        /\ \A g \in Games : result[g] \in {g, None}
        /\ \A g \in Games : result[g] = None <=>
             \E i \in 1 .. Len(games) : games[i] = g /\ ~ Finished(i)
    BY DEF LoopInv, ResultsOK
  <2>2. ASSUME NEW g \in Games
        PROVE  result[g] = None <=> \E i \in 1 .. Len(games') : games'[i] = g
    <3>1. result[g] = None <=> \E i \in 1 .. Len(games) : games[i] = g /\ g \notin over
      BY <1>5, <2>1
    <3> QED BY <1>9, <3>1 DEF Held
  <2>3. \A i \in 1 .. Len(games') : ~ Finished(i)'
    BY <1>1 DEF Finished
  <2> QED BY <1>1, <2>1, <2>2, <2>3 DEF ResultsOK
<1>13. RemovalOK'
  <2>1. to_remove' \in Seq(Nat) /\ Len(to_remove') = 0
    BY <1>1
  <2>2. \A i \in 1 .. Len(games') : ~ Finished(i)'
    BY <1>1 DEF Finished
  <2> QED BY <2>1, <2>2 DEF RemovalOK
<1> QED BY <1>9, <1>11, <1>12, <1>13 DEF LoopInv

LEMMA NoneIsNoGame == None \notin Games
BY FS_CardinalityType, BatchAssumption

LEMMA LoopNext ==
  ASSUME LoopInv, [BatchNext]_batchVars
  PROVE  LoopInv'
<1>1. CASE Poll
  BY <1>1, LoopPoll
<1>2. CASE Polled
  BY <1>2, LoopPolled
<1>3. CASE Evaluate
  <2>1. UNCHANGED loop
    BY <1>3 DEF Evaluate
  <2> QED BY <2>1, LoopSame
<1>4. CASE TakeQuick
  <2>1. Commits
    BY <1>4 DEF TakeQuick, Commits
  <2> QED BY <2>1, LoopCommits
<1>5. CASE Answer
  <2>1. Commits
    BY <1>5 DEF Answer, Commits
  <2> QED BY <2>1, LoopCommits
<1>6. CASE Finish
  BY <1>6, LoopFinish, NoneIsNoGame
<1>7. CASE Sweep
  BY <1>7, LoopSweep
<1>8. ASSUME NEW g \in Games, Encode(g) PROVE LoopInv'
  <2>1. UNCHANGED loop
    BY <1>8 DEF Encode
  <2> QED BY <2>1, LoopSame
<1>9. CASE UNCHANGED batchVars
  <2>1. UNCHANGED loop
    BY <1>9 DEF batchVars
  <2> QED BY <2>1, LoopSame
<1> QED BY <1>1, <1>2, <1>3, <1>4, <1>5, <1>6, <1>7, <1>8, <1>9 DEF BatchNext

LEMMA LoopCounts ==
  ASSUME LoopInv
  PROVE  EveryGameCounted
<1>1. /\ games \in Seq(Games) /\ Distinct(games)
      /\ result \in [Games -> Games \cup {None}]
      /\ \A g \in Games : result[g] \in {g, None}
      /\ \A g \in Games : result[g] = None <=>
           \E i \in 1 .. Len(games) : games[i] = g /\ ~ Finished(i)
  BY DEF LoopInv, VectorOK, ResultsOK
<1>2. DOMAIN games = 1 .. Len(games) /\ \A i \in 1 .. Len(games) : games[i] \in Games
  BY <1>1, LenProperties, ElementOfSeq
<1>3. stage = "poll" => {games[i] : i \in DOMAIN games} = {g \in Games : result[g] = None}
  <2> SUFFICES ASSUME stage = "poll"
               PROVE  {games[i] : i \in DOMAIN games} = {g \in Games : result[g] = None}
    OBVIOUS
  <2>1. \A i \in 1 .. Len(games) : ~ Finished(i)
    BY DEF Finished
  <2>2. \A g \in Games : result[g] = None <=> \E i \in 1 .. Len(games) : games[i] = g
    BY <1>1, <2>1
  <2> QED BY <1>2, <2>2
<1> QED BY <1>1, <1>2, <1>3 DEF EveryGameCounted, Distinct

(* No game is lost or played twice (the vector of run in arena/game.rs): however
   many games a call runs and in whatever cycles they end, a game is in the vector,
   once, until its own result stands at its own position. *)
THEOREM GamesAreCounted == BatchSpec => []EveryGameCounted
<1>1. BatchInit => LoopInv
  BY LoopInit
<1>2. LoopInv /\ [BatchNext]_batchVars => LoopInv'
  BY LoopNext
<1>3. LoopInv => EveryGameCounted
  BY LoopCounts
<1> QED BY <1>1, <1>2, <1>3, PTL DEF BatchSpec

-----------------------------------------------------------------------------
(* What an action of the network's mask stands for is allowed.             *)

LEMMA KanLegal ==
  ASSUME NEW s, SceneOK(s), MayKan(s), NEW choice,
         choice # None => NeedKanSelect(s) /\ choice \in Mask(s, TRUE)
  PROVE  KanOf(s, choice) \in Legal(s)
<1>1. CASE choice # None
  <2>1. s.kans # {} /\ choice \in Mask(s, TRUE)
    BY <1>1 DEF NeedKanSelect
  <2>2. "daiminkan" \notin s.others
    BY <2>1 DEF SceneOK
  <2>3. choice \in s.kans
    BY <2>1, <2>2 DEF Mask
  <2>4. KanOf(s, choice) = <<"kan", choice>>
    BY <1>1, <2>2, <2>3 DEF KanOf
  <2> QED BY <2>3, <2>4 DEF Legal
<1>2. CASE choice = None /\ "daiminkan" \in s.others
  <2>1. KanOf(s, choice) = <<"daiminkan", s.called>>
    BY <1>2 DEF KanOf
  <2> QED BY <1>2, <2>1 DEF Legal
<1>3. CASE choice = None /\ "daiminkan" \notin s.others
  <2>1. s.kans # {}
    BY <1>3 DEF MayKan
  <2> DEFINE t == CHOOSE x \in s.kans : TRUE
  <2>2. t \in s.kans
    BY <2>1
  <2>3. KanOf(s, choice) = <<"kan", t>>
    BY <1>3 DEF KanOf
  <2> HIDE DEF t
  <2> QED BY <2>2, <2>3 DEF Legal
<1> QED BY <1>1, <1>2, <1>3

LEMMA DecodeLegal ==
  ASSUME NEW s, SceneOK(s), NEW a \in Mask(s, FALSE), NEW choice,
         choice # None => NeedKanSelect(s) /\ choice \in Mask(s, TRUE)
  PROVE  Decode(s, a, choice) \in Legal(s)
<1> DEFINE Plain == {"riichi", "chi_low", "chi_mid", "chi_high", "pon", "ryukyoku"}
<1>0. /\ s.others \subseteq Others
      /\ s.discards \cap (Others \cup {"pass", "kan", "agari"}) = {}
  BY DEF SceneOK
<1>1. \/ a \in s.discards \/ a \in s.others \cap Plain
      \/ (a = "pass" /\ MayPass(s)) \/ (a = "kan" /\ MayKan(s)) \/ (a = "agari" /\ MayAgari(s))
  <2>1. Mask(s, FALSE) = s.discards \cup (s.others \cap Plain)
          \cup (IF MayPass(s) THEN {"pass"} ELSE {})
          \cup (IF MayKan(s) THEN {"kan"} ELSE {}) \cup (IF MayAgari(s) THEN {"agari"} ELSE {})
    BY DEF Mask
  <2> HIDE DEF Plain
  <2> QED BY <2>1
<1>2. CASE a \in s.discards
  <2>1. a \notin s.others /\ a # "kan" /\ a # "agari" /\ a # "pass"
    BY <1>0, <1>2
  <2>2. Decode(s, a, choice) = <<"dahai", a>>
    BY <1>2, <2>1 DEF Decode
  <2> QED BY <1>2, <2>2 DEF Legal
<1>3. CASE a \in s.others \cap Plain
  <2>1. a \notin s.discards /\ a # "kan" /\ a # "agari" /\ a # "pass"
    BY <1>0, <1>3
  <2>2. Decode(s, a, choice) = <<a, None>>
    BY <1>3, <2>1 DEF Decode
  <2> QED BY <1>3, <2>2 DEF Legal
<1>4. CASE a = "pass" /\ MayPass(s)
  <2>1. a \notin s.discards /\ a \notin s.others
    BY <1>0, <1>4 DEF Others, Calls
  <2>2. Decode(s, a, choice) = <<"none", None>>
    BY <1>4, <2>1 DEF Decode
  <2> QED BY <1>4, <2>2 DEF Legal
<1>5. CASE a = "kan" /\ MayKan(s)
  <2>1. a \notin s.discards /\ a \notin s.others
    BY <1>0, <1>5 DEF Others, Calls
  <2>2. Decode(s, a, choice) = KanOf(s, choice)
    BY <1>5, <2>1 DEF Decode
  <2> QED BY <1>5, <2>2, KanLegal
<1>6. CASE a = "agari" /\ MayAgari(s)
  <2>1. a \notin s.discards /\ a \notin s.others
    BY <1>0, <1>6 DEF Others, Calls
  <2>2. Decode(s, a, choice) = <<"hora", None>>
    BY <1>6, <2>1 DEF Decode
  <2> QED BY <1>6, <2>2 DEF Legal
<1> QED BY <1>1, <1>2, <1>3, <1>4, <1>5, <1>6

(* A scene with one discard and nothing else is decided by that discard. *)
LEMMA QuickLegal ==
  ASSUME NEW s, IsQuick(s)
  PROVE  <<"dahai", CHOOSE t \in s.discards : TRUE>> \in Legal(s)
<1>1. s.discards # {}
  BY FS_EmptySet DEF IsQuick
<1> DEFINE t == CHOOSE x \in s.discards : TRUE
<1>2. t \in s.discards
  BY <1>1
<1> HIDE DEF t
<1>3. <<"dahai", t>> \in Legal(s)
  BY <1>2 DEF Legal
<1> QED BY <1>3 DEF t

-----------------------------------------------------------------------------
(* Where the loop is.                                                      *)

LEMMA AtCursor ==
  ASSUME LoopInv, cursor <= Len(games)
  PROVE  /\ cursor \in 1 .. Len(games) /\ games[cursor] \in Games /\ Len(games) \in Nat
         /\ \A i \in 1 .. Len(games) : i # cursor => games[i] # games[cursor]
         /\ \A i \in 1 .. Len(games) : i < cursor + 1 <=> i < cursor \/ i = cursor
<1>1. games \in Seq(Games) /\ Distinct(games) /\ cursor \in 1 .. Len(games) + 1
  BY DEF LoopInv, VectorOK
<1>2. Len(games) \in Nat /\ \A i \in 1 .. Len(games) : games[i] \in Games
  BY <1>1, LenProperties, ElementOfSeq
<1>3. cursor \in 1 .. Len(games)
  BY <1>1, <1>2
<1> QED BY <1>1, <1>2, <1>3 DEF Distinct

(* A game that is polled has no scene yet. *)
LEMMA AtPoll ==
  ASSUME LoopInv, CycleInv, BatchInv, Poll
  PROVE  /\ scene[games[cursor]] = None /\ games[cursor] \notin over
         /\ quick[games[cursor]] = None /\ reaction[games[cursor]] = None
         /\ kan_action_idxs[games[cursor]] = None
<1>1. stage = "poll" /\ cursor <= Len(games)
  BY DEF Poll
<1>2. /\ cursor \in 1 .. Len(games) /\ games[cursor] \in Games /\ Len(games) \in Nat
      /\ \A i \in 1 .. Len(games) : i # cursor => games[i] # games[cursor]
  BY <1>1, AtCursor
<1>3. scene[games[cursor]] = None
  BY <1>1, <1>2 DEF CycleInv, SceneInv
<1>4. games[cursor] \notin over
  BY <1>1, <1>2 DEF LoopInv, VectorOK
<1>5. quick[games[cursor]] = None
  BY <1>2, <1>3 DEF CycleInv, QuickInv
<1>6. reaction[games[cursor]] = None
  BY <1>1, <1>2 DEF CycleInv, ReactionInv
<1>7. kan_action_idxs[games[cursor]] = None
  BY <1>2, <1>3 DEF BatchInv, Awaits
<1> QED BY <1>3, <1>4, <1>5, <1>6, <1>7

(* A game that is asked has a scene, and no reaction yet. *)
LEMMA AtCommit ==
  ASSUME LoopInv, CycleInv, Asks
  PROVE  /\ games[cursor] \in Games /\ stage = "commit"
         /\ scene[games[cursor]] # None /\ scene[games[cursor]] \in Scenes
         /\ reaction[games[cursor]] = None
<1>1. stage = "commit" /\ cursor <= Len(games) /\ games[cursor] \notin over
  BY DEF Asks, Committing
<1>2. cursor \in 1 .. Len(games) /\ games[cursor] \in Games /\ Len(games) \in Nat
  BY <1>1, AtCursor
<1>3. scene[games[cursor]] # None /\ scene[games[cursor]] \in Scenes
  BY <1>1, <1>2 DEF CycleInv, SceneInv
<1>4. reaction[games[cursor]] = None
  BY <1>1, <1>2 DEF CycleInv, ReactionInv
<1> QED BY <1>1, <1>2, <1>3, <1>4

(* At the end of a cycle every game that had a scene has reacted. *)
LEMMA AtSweep ==
  ASSUME LoopInv, CycleInv, Sweep, NEW g \in Games, scene[g] # None
  PROVE  reaction[g] # None
<1>1. stage = "commit" /\ cursor = Len(games) + 1
  BY DEF Sweep
<1>2. PICK i \in 1 .. Len(games) : games[i] = g /\ g \notin over
  BY DEF CycleInv, SceneInv
<1>3. Len(games) \in Nat
  BY LenProperties DEF LoopInv, VectorOK
<1>4. i < cursor
  BY <1>1, <1>3
<1> QED BY <1>1, <1>2, <1>4 DEF CycleInv, ReactionInv

-----------------------------------------------------------------------------
(* Scenes, quick reactions and reactions along a cycle.                    *)

LEMMA CycleInit ==
  ASSUME LoopInv, BatchInit
  PROVE  CycleInv
<1>1. /\ scene = [g \in Games |-> None] /\ quick = [g \in Games |-> None]
      /\ reaction = [g \in Games |-> None] /\ stage = "poll" /\ cursor = 1
  BY DEF BatchInit
<1>2. Len(games) \in Nat
  BY LenProperties DEF LoopInv, VectorOK
<1>3. SceneInv
  BY <1>1, <1>2 DEF SceneInv
<1>4. ReactionInv
  BY <1>1 DEF ReactionInv
<1>5. QuickInv
  BY <1>1 DEF QuickInv
<1> QED BY <1>3, <1>4, <1>5 DEF CycleInv

LEMMA CycleSame ==
  ASSUME CycleInv, UNCHANGED <<games, cursor, stage, over, scene, quick, reaction>>
  PROVE  CycleInv'
<1>1. SceneInv'
  BY DEF CycleInv, SceneInv
<1>2. ReactionInv'
  BY DEF CycleInv, ReactionInv
<1>3. QuickInv'
  BY DEF CycleInv, QuickInv, Alone
<1> QED BY <1>1, <1>2, <1>3 DEF CycleInv

(* What a poll may do: it finds an end, or shows a scene. *)
LEMMA PollCases ==
  ASSUME Poll
  PROVE  \/ /\ over' = over \cup {games[cursor]} /\ UNCHANGED <<scene, spawned, evaluated, quick>>
         \/ \E s \in Scenes : /\ scene' = [scene EXCEPT ![games[cursor]] = s]
                              /\ SetScene(games[cursor], s) /\ UNCHANGED over
BY DEF Poll

LEMMA ScenePoll ==
  ASSUME LoopInv, CycleInv, BatchInv, Poll
  PROVE  SceneInv'
<1> DEFINE g == games[cursor]
<1>1. /\ stage = "poll" /\ cursor <= Len(games) /\ cursor' = cursor + 1
      /\ UNCHANGED <<games, stage>>
  BY DEF Poll
<1>2. /\ cursor \in 1 .. Len(games) /\ g \in Games /\ Len(games) \in Nat
      /\ \A i \in 1 .. Len(games) : i # cursor => games[i] # g
      /\ \A i \in 1 .. Len(games) : i < cursor + 1 <=> i < cursor \/ i = cursor
  BY <1>1, AtCursor
<1>3. scene[g] = None /\ g \notin over
  BY AtPoll
<1>4. /\ scene \in [Games -> Scenes \cup {None}]
      /\ \A h \in Games : scene[h] # None =>
           /\ h \notin over
           /\ \E i \in 1 .. Len(games) : games[i] = h /\ i < cursor
      /\ \A i \in 1 .. Len(games) : i < cursor /\ games[i] \notin over => scene[games[i]] # None
  BY <1>1 DEF CycleInv, SceneInv
<1>5. None \notin Scenes
  BY BatchAssumption
<1>6. CASE over' = over \cup {g} /\ scene' = scene
  <2>1. ASSUME NEW h \in Games, scene[h] # None
        PROVE  /\ h \notin over'
               /\ \E i \in 1 .. Len(games) : games[i] = h /\ i < cursor'
    BY <1>1, <1>2, <1>3, <1>4, <1>6, <2>1
  <2>2. ASSUME NEW i \in 1 .. Len(games), i < cursor', games[i] \notin over'
        PROVE  scene[games[i]] # None
    BY <1>1, <1>2, <1>4, <1>6, <2>2
  <2> HIDE DEF g
  <2> QED BY <1>1, <1>4, <1>6, <2>1, <2>2 DEF SceneInv
<1>7. CASE \E s \in Scenes : scene' = [scene EXCEPT ![g] = s] /\ UNCHANGED over
  <2>1. PICK s \in Scenes : scene' = [scene EXCEPT ![g] = s] /\ over' = over
    BY <1>7
  <2>2. /\ scene' \in [Games -> Scenes \cup {None}] /\ scene'[g] = s /\ s # None
        /\ \A h \in Games : h # g => scene'[h] = scene[h]
    BY <1>2, <1>4, <1>5, <2>1
  <2>3. ASSUME NEW h \in Games, scene'[h] # None
        PROVE  /\ h \notin over
               /\ \E i \in 1 .. Len(games) : games[i] = h /\ i < cursor'
    BY <1>1, <1>2, <1>3, <1>4, <2>2, <2>3
  <2>4. ASSUME NEW i \in 1 .. Len(games), i < cursor', games[i] \notin over
        PROVE  scene'[games[i]] # None
    <3>1. games[i] \in Games
      BY ElementOfSeq DEF LoopInv, VectorOK
    <3> QED BY <1>1, <1>2, <1>4, <2>2, <2>4, <3>1
  <2> HIDE DEF g
  <2> QED BY <1>1, <2>1, <2>2, <2>3, <2>4 DEF SceneInv
<1> HIDE DEF g
<1> QED BY <1>6, <1>7, PollCases DEF g

(* What showing a scene does to the quick reactions. *)
LEMMA QuickSet ==
  ASSUME NEW g \in Games, NEW s, SceneOK(s), DOMAIN quick = Games, quick[g] = None,
         SetScene(g, s)
  PROVE  /\ DOMAIN quick' = Games /\ \A h \in Games : h # g => quick'[h] = quick[h]
         /\ quick'[g] # None => quick'[g] \in Legal(s)
         /\ quick'[g] # None <=> g \in Single \/ IsQuick(s)
<1>0. None \notin Legal(s)
  BY DEF SceneOK
<1>1. CASE g \in Single
  <2>1. PICK r \in Legal(s) : quick' = [quick EXCEPT ![g] = r]
    BY <1>1 DEF SetScene
  <2> QED BY <1>0, <1>1, <2>1
<1>2. CASE g \notin Single /\ IsQuick(s)
  <2> DEFINE r == <<"dahai", CHOOSE t \in s.discards : TRUE>>
  <2>1. quick' = [quick EXCEPT ![g] = r]
    BY <1>2 DEF SetScene
  <2>2. r \in Legal(s)
    BY <1>2, QuickLegal
  <2> HIDE DEF r
  <2> QED BY <1>0, <1>2, <2>1, <2>2
<1>3. CASE g \notin Single /\ ~ IsQuick(s)
  <2>1. quick' = quick
    BY <1>3 DEF SetScene
  <2> QED BY <1>3, <2>1
<1> QED BY <1>1, <1>2, <1>3

LEMMA QuickPoll ==
  ASSUME LoopInv, CycleInv, BatchInv, Poll
  PROVE  QuickInv'
<1> DEFINE g == games[cursor]
<1>1. cursor <= Len(games) /\ UNCHANGED reaction
  BY DEF Poll
<1>2. g \in Games
  BY <1>1, AtCursor
<1>3. scene[g] = None /\ quick[g] = None /\ reaction[g] = None
  BY AtPoll
<1>4. /\ DOMAIN quick = Games /\ DOMAIN scene = Games
      /\ \A h \in Games : quick[h] # None => scene[h] # None /\ quick[h] \in Legal(scene[h])
      /\ \A h \in Games : scene[h] # None => (quick[h] # None <=> Alone(h) /\ reaction[h] = None)
  BY DEF CycleInv, SceneInv, QuickInv
<1>5. CASE UNCHANGED <<scene, quick>>
  BY <1>1, <1>4, <1>5 DEF QuickInv, Alone
<1>6. CASE \E s \in Scenes : scene' = [scene EXCEPT ![g] = s] /\ SetScene(g, s)
  <2>1. PICK s \in Scenes : scene' = [scene EXCEPT ![g] = s] /\ SetScene(g, s)
    BY <1>6
  <2>2. SceneOK(s) /\ s # None
    BY BatchAssumption
  <2>3. /\ DOMAIN quick' = Games /\ \A h \in Games : h # g => quick'[h] = quick[h]
        /\ quick'[g] # None => quick'[g] \in Legal(s)
        /\ quick'[g] # None <=> g \in Single \/ IsQuick(s)
    BY <1>2, <1>3, <1>4, <2>1, <2>2, QuickSet
  <2>4. scene'[g] = s /\ \A h \in Games : h # g => scene'[h] = scene[h]
    BY <1>2, <1>4, <2>1
  <2> HIDE DEF g
  <2>5. \A h \in Games : quick'[h] # None => scene'[h] # None /\ quick'[h] \in Legal(scene'[h])
    BY <1>2, <1>4, <2>2, <2>3, <2>4
  <2>6. ASSUME NEW h \in Games, scene'[h] # None
        PROVE  quick'[h] # None <=> (h \in Single \/ IsQuick(scene'[h])) /\ reaction[h] = None
    <3>1. CASE h = g
      BY <1>3, <2>3, <2>4, <3>1
    <3>2. CASE h # g
      BY <1>4, <2>3, <2>4, <2>6, <3>2 DEF Alone
    <3> QED BY <3>1, <3>2
  <2>7. \A h \in Games : Alone(h)' <=> h \in Single \/ IsQuick(scene'[h])
    BY DEF Alone, IsQuick
  <2> QED BY <1>1, <2>3, <2>5, <2>6, <2>7 DEF QuickInv
<1> HIDE DEF g
<1> QED BY <1>5, <1>6, PollCases DEF g

LEMMA CyclePoll ==
  ASSUME LoopInv, CycleInv, BatchInv, Poll
  PROVE  CycleInv'
<1>1. stage = "poll" /\ UNCHANGED <<stage, reaction>>
  BY DEF Poll
<1>2. DOMAIN reaction = Games /\ \A g \in Games : reaction[g] = None
  BY <1>1 DEF CycleInv, ReactionInv
<1>3. ReactionInv'
  BY <1>1, <1>2 DEF ReactionInv
<1> QED BY <1>3, ScenePoll, QuickPoll DEF CycleInv

LEMMA CyclePolled ==
  ASSUME LoopInv, CycleInv, Polled
  PROVE  CycleInv'
<1>1. /\ stage = "poll" /\ stage' = "commit" /\ cursor = Len(games) + 1 /\ cursor' = 1
      /\ UNCHANGED <<games, over, scene, quick, reaction>>
  BY DEF Polled
<1>2. games \in Seq(Games) /\ Len(games) \in Nat /\ \A i \in 1 .. Len(games) : games[i] \in Games
  BY LenProperties, ElementOfSeq DEF LoopInv, VectorOK
<1>3. \A i \in 1 .. Len(games) : i < cursor /\ ~ i < 1
  BY <1>1, <1>2
<1>4. SceneInv'
  BY <1>1, <1>3 DEF CycleInv, SceneInv
<1>5. ReactionInv'
  <2>1. DOMAIN reaction = Games /\ \A g \in Games : reaction[g] = None
    BY <1>1 DEF CycleInv, ReactionInv
  <2> QED BY <1>1, <1>2, <1>3, <2>1 DEF ReactionInv
<1>6. QuickInv'
  BY <1>1 DEF CycleInv, QuickInv, Alone
<1> QED BY <1>4, <1>5, <1>6 DEF CycleInv

LEMMA CycleFinish ==
  ASSUME LoopInv, CycleInv, Finish
  PROVE  CycleInv'
<1>1. /\ stage = "commit" /\ cursor <= Len(games) /\ games[cursor] \in over /\ cursor' = cursor + 1
      /\ UNCHANGED <<games, stage, over, scene, quick, reaction>>
  BY DEF Finish, Committing
<1>2. \A i \in 1 .. Len(games) : i < cursor + 1 <=> i < cursor \/ i = cursor
  BY <1>1, AtCursor
<1>3. SceneInv'
  BY <1>1 DEF CycleInv, SceneInv
<1>4. ReactionInv'
  BY <1>1, <1>2 DEF CycleInv, ReactionInv
<1>5. QuickInv'
  BY <1>1 DEF CycleInv, QuickInv, Alone
<1> QED BY <1>3, <1>4, <1>5 DEF CycleInv

(* A commit that gives the game a reaction its scene allows. *)
LEMMA CycleCommits ==
  ASSUME LoopInv, CycleInv, Commits, UNCHANGED scene,
         NEW r, r # None, r \in Legal(scene[games[cursor]]),
         reaction' = [reaction EXCEPT ![games[cursor]] = r],
         DOMAIN quick' = Games, quick'[games[cursor]] = None,
         \A h \in Games : h # games[cursor] => quick'[h] = quick[h]
  PROVE  CycleInv'
<1> DEFINE g == games[cursor]
<1>1. /\ stage = "commit" /\ cursor <= Len(games) /\ cursor' = cursor + 1 /\ g \in Games
      /\ scene[g] # None /\ UNCHANGED <<games, stage, over, scene>>
  BY AtCommit DEF Commits, Asks
<1>2. /\ \A i \in 1 .. Len(games) : i # cursor => games[i] # g
      /\ \A i \in 1 .. Len(games) : i < cursor + 1 <=> i < cursor \/ i = cursor
      /\ \A i \in 1 .. Len(games) : games[i] \in Games
  BY <1>1, AtCursor, ElementOfSeq DEF LoopInv, VectorOK
<1>3. /\ DOMAIN reaction' = Games /\ reaction'[g] = r
      /\ \A h \in Games : h # g => reaction'[h] = reaction[h]
  BY <1>1 DEF CycleInv, ReactionInv
<1>4. /\ DOMAIN quick' = Games /\ quick'[g] = None
      /\ \A h \in Games : h # g => quick'[h] = quick[h]
  OBVIOUS
<1>5. SceneInv'
  BY <1>1 DEF CycleInv, SceneInv
<1>6. ReactionInv'
  <2>1. \A h \in Games : reaction'[h] # None => scene[h] # None /\ reaction'[h] \in Legal(scene[h])
    BY <1>1, <1>3 DEF CycleInv, ReactionInv
  <2>2. ASSUME NEW i \in 1 .. Len(games), games[i] \notin over
        PROVE  reaction'[games[i]] # None <=> i < cursor'
    <3>1. CASE i = cursor
      BY <1>1, <1>2, <1>3, <3>1
    <3>2. CASE i # cursor
      <4>1. reaction'[games[i]] = reaction[games[i]] /\ (i < cursor' <=> i < cursor)
        BY <1>1, <1>2, <1>3, <3>2
      <4>2. reaction[games[i]] # None <=> i < cursor
        BY <1>1, <2>2 DEF CycleInv, ReactionInv
      <4> QED BY <4>1, <4>2
    <3> QED BY <3>1, <3>2
  <2> HIDE DEF g
  <2> QED BY <1>1, <1>3, <2>1, <2>2 DEF ReactionInv
<1>7. QuickInv'
  <2>1. \A h \in Games : Alone(h)' <=> Alone(h)
    BY <1>1 DEF Alone
  <2> QED BY <1>1, <1>3, <1>4, <2>1 DEF CycleInv, QuickInv
<1> QED BY <1>5, <1>6, <1>7 DEF CycleInv

LEMMA CycleTakeQuick ==
  ASSUME LoopInv, CycleInv, TakeQuick
  PROVE  CycleInv'
<1>1. Commits /\ UNCHANGED scene
  BY DEF TakeQuick, Commits
<1>2. games[cursor] \in Games
  BY AtCommit DEF TakeQuick
<1>3. /\ quick[games[cursor]] # None /\ quick[games[cursor]] \in Legal(scene[games[cursor]])
      /\ reaction' = [reaction EXCEPT ![games[cursor]] = quick[games[cursor]]]
      /\ DOMAIN quick' = Games /\ quick'[games[cursor]] = None
      /\ \A h \in Games : h # games[cursor] => quick'[h] = quick[h]
  BY <1>2 DEF TakeQuick, Committing, CycleInv, QuickInv
<1>4. PICK r : r = quick[games[cursor]]
  OBVIOUS
<1> QED BY <1>1, <1>3, <1>4, CycleCommits

LEMMA CycleSweep ==
  ASSUME LoopInv, CycleInv, LoopInv', Sweep
  PROVE  CycleInv'
<1>1. /\ scene' = [g \in Games |-> None] /\ reaction' = [g \in Games |-> None]
      /\ stage' = "poll" /\ cursor' = 1 /\ UNCHANGED quick
  BY DEF Sweep
<1>2. \A i \in 1 .. Len(games') : ~ i < 1
  BY LenProperties DEF LoopInv, VectorOK
<1>3. SceneInv'
  BY <1>1, <1>2 DEF SceneInv
<1>4. ReactionInv'
  BY <1>1 DEF ReactionInv
<1>5. ASSUME NEW g \in Games PROVE quick[g] = None
  BY AtSweep DEF CycleInv, QuickInv
<1>6. QuickInv'
  BY <1>1, <1>5 DEF CycleInv, QuickInv
<1> QED BY <1>3, <1>4, <1>6 DEF CycleInv

-----------------------------------------------------------------------------
(* The batch.                                                              *)

LEMMA BatchInvInit ==
  ASSUME BatchInit
  PROVE  BatchInv
<1>1. /\ stage = "poll" /\ scene = [g \in Games |-> None] /\ spawned = {} /\ rows = <<>>
      /\ answered = <<>> /\ evaluated = FALSE /\ action_idxs = [g \in Games |-> 1]
      /\ kan_action_idxs = [g \in Games |-> None]
  BY DEF BatchInit
<1>2. rows \in Seq(RowSet) /\ DOMAIN answered = {}
  BY <1>1
<1>3. \A g \in Games : scene[g] = None /\ kan_action_idxs[g] = None
  BY <1>1
<1>4. action_idxs \in [Games -> Nat] /\ kan_action_idxs \in [Games -> Nat \cup {None}]
  BY <1>1
<1> QED BY <1>1, <1>2, <1>3, <1>4 DEF BatchInv, Awaits

(* A step that leaves the batch alone, and after which the games that wait are
   games that waited, with the scenes they had. *)
LEMMA BatchSame ==
  ASSUME BatchInv, UNCHANGED <<batch, cycle>>,
         \A g \in Games : Awaits(g)' => Awaits(g) /\ scene'[g] = scene[g],
         \A g \in Games : g \in spawned \/ kan_action_idxs[g] # None => Awaits(g)',
         stage' = "poll" /\ evaluated => \A g \in Games : scene'[g] # None => g \in Single
  PROVE  BatchInv'
<1>1. UNCHANGED <<spawned, rows, action_idxs, kan_action_idxs, answered, actions, evaluated, cycle>>
  BY DEF batch
<1>2. ASSUME NEW g \in Games \ spawned, Awaits(g)' PROVE HasRows(g)'
  <2>1. HasRows(g) /\ scene'[g] = scene[g]
    BY <1>2 DEF BatchInv
  <2> QED BY <1>1, <2>1 DEF HasRows, RowAt, Row, Buffer, NeedKanSelect
<1> QED BY <1>1, <1>2 DEF BatchInv

LEMMA BatchPoll ==
  ASSUME LoopInv, CycleInv, BatchInv, Poll
  PROVE  BatchInv'
<1>0. PICK g : g = games[cursor]
  OBVIOUS
<1>1. /\ stage = "poll" /\ stage' = "poll" /\ cursor <= Len(games)
      /\ UNCHANGED <<cycle, rows, action_idxs, kan_action_idxs, answered, actions, reaction>>
  BY DEF Poll
<1>2. g \in Games
  BY <1>0, <1>1, AtCursor
<1>3. scene[g] = None /\ reaction[g] = None /\ kan_action_idxs[g] = None
  BY <1>0, AtPoll
<1>4. ~ Awaits(g) /\ g \notin spawned
  BY <1>2, <1>3 DEF Awaits, BatchInv
<1>5. CASE UNCHANGED <<scene, spawned, evaluated>>
  <2>1. \A h \in Games : Awaits(h)' <=> Awaits(h)
    BY <1>1, <1>5 DEF Awaits, Alone
  <2> QED BY <1>1, <1>5, <2>1, BatchSame DEF BatchInv, batch
<1>6. CASE \E s \in Scenes : scene' = [scene EXCEPT ![g] = s] /\ SetScene(g, s)
  <2>1. PICK s \in Scenes : scene' = [scene EXCEPT ![g] = s] /\ SetScene(g, s)
    BY <1>6
  <2>2. s # None
    BY BatchAssumption
  <2>3. scene'[g] = s /\ \A h \in Games : h # g => scene'[h] = scene[h]
    BY <1>2, <2>1 DEF CycleInv, SceneInv
  <2>4. \A h \in Games : h # g => (Awaits(h)' <=> Awaits(h))
    BY <1>1, <2>3 DEF Awaits, Alone
  <2>5. Awaits(g)' <=> g \notin Single /\ ~ IsQuick(s)
    BY <1>1, <1>2, <1>3, <2>2, <2>3 DEF Awaits, Alone
  <2>6. CASE g \in Single
    <3>1. UNCHANGED <<spawned, evaluated>>
      BY <2>1, <2>6 DEF SetScene
    <3>2. \A h \in Games : Awaits(h)' => Awaits(h) /\ scene'[h] = scene[h]
      BY <2>3, <2>4, <2>5, <2>6
    <3>3. \A h \in Games : h \in spawned \/ kan_action_idxs[h] # None => Awaits(h)'
      BY <1>3, <1>4, <2>4 DEF BatchInv
    <3>4. evaluated => \A h \in Games : scene'[h] # None => h \in Single
      BY <1>1, <2>3, <2>6 DEF BatchInv
    <3> QED BY <1>1, <3>1, <3>2, <3>3, <3>4, BatchSame DEF batch
  <2>7. CASE g \notin Single
    <3>1. evaluated' = FALSE
      BY <2>1, <2>7 DEF SetScene
    <3>2. spawned' = IF IsQuick(s) THEN spawned ELSE spawned \cup {g}
      BY <2>1, <2>7 DEF SetScene
    <3>3. evaluated => \A h \in Games : ~ Awaits(h)
      BY <1>1 DEF BatchInv, Awaits, Alone
    <3>4. \A h \in spawned' : h \in Games /\ Awaits(h)' /\ kan_action_idxs[h] = None
      BY <1>2, <1>3, <1>4, <2>4, <2>5, <2>7, <3>2 DEF BatchInv
    <3>5. ASSUME NEW h \in Games \ spawned', Awaits(h)' PROVE HasRows(h)'
      <4>1. h # g
        BY <2>5, <3>2, <3>5
      <4>2. Awaits(h) /\ h \notin spawned /\ scene'[h] = scene[h]
        BY <2>3, <2>4, <3>2, <3>5, <4>1
      <4>3. HasRows(h) /\ ~ evaluated
        BY <3>3, <4>2 DEF BatchInv
      <4> QED BY <1>1, <3>1, <4>2, <4>3 DEF HasRows, RowAt, Row, Buffer, NeedKanSelect, BatchInv
    <3>6. \A h \in Games : kan_action_idxs[h] # None => Awaits(h)'
      BY <1>3, <2>4 DEF BatchInv
    <3>7. \A h \in spawned' :
            h \in Games /\ Awaits(h)' /\ kan_action_idxs'[h] = None /\ ~ evaluated'
      BY <1>1, <3>1, <3>4
    <3>8. /\ rows' \in Seq(RowSet) /\ action_idxs' \in [Games -> Nat]
          /\ kan_action_idxs' \in [Games -> Nat \cup {None}]
          /\ \A i \in DOMAIN answered' : actions'[i] \in answered'[i].mask
      BY <1>1 DEF BatchInv
    <3> QED BY <1>1, <3>1, <3>5, <3>6, <3>7, <3>8 DEF BatchInv
  <2> QED BY <2>6, <2>7
<1> QED BY <1>0, <1>5, <1>6, PollCases

LEMMA BatchPolled ==
  ASSUME BatchInv, Polled
  PROVE  BatchInv'
<1>1. stage' = "commit" /\ UNCHANGED <<batch, cycle, scene, reaction>>
  BY DEF Polled
<1>2. \A g \in Games : Awaits(g)' <=> Awaits(g)
  BY <1>1 DEF Awaits, Alone
<1> QED BY <1>1, <1>2, BatchSame DEF BatchInv

LEMMA BatchFinish ==
  ASSUME BatchInv, Finish
  PROVE  BatchInv'
<1>1. stage' = "commit" /\ UNCHANGED <<batch, cycle, scene, reaction>>
  BY DEF Finish
<1>2. \A g \in Games : Awaits(g)' <=> Awaits(g)
  BY <1>1 DEF Awaits, Alone
<1> QED BY <1>1, <1>2, BatchSame DEF BatchInv

LEMMA BatchTakeQuick ==
  ASSUME LoopInv, CycleInv, BatchInv, TakeQuick
  PROVE  BatchInv'
<1> DEFINE g == games[cursor]
<1>1. /\ Asks /\ quick[g] # None /\ reaction' = [reaction EXCEPT ![g] = quick[g]]
      /\ UNCHANGED <<batch, cycle, scene, stage>>
  BY DEF TakeQuick, Committing
<1>2. g \in Games /\ stage = "commit" /\ scene[g] # None
  BY <1>1, AtCommit
<1>3. ~ Awaits(g)
  BY <1>1, <1>2 DEF CycleInv, QuickInv, Awaits
<1>4. reaction'[g] # None /\ \A h \in Games : h # g => reaction'[h] = reaction[h]
  BY <1>1, <1>2 DEF CycleInv, ReactionInv
<1>5. \A h \in Games : Awaits(h)' <=> Awaits(h)
  BY <1>1, <1>3, <1>4 DEF Awaits, Alone
<1> QED BY <1>1, <1>2, <1>5, BatchSame DEF BatchInv

LEMMA BatchSweep ==
  ASSUME LoopInv, CycleInv, BatchInv, Sweep
  PROVE  BatchInv'
<1>1. scene' = [g \in Games |-> None] /\ UNCHANGED batch /\ cycle' = cycle + 1
  BY DEF Sweep
<1>2. \A g \in Games : ~ Awaits(g)
  BY AtSweep DEF Awaits
<1>3. spawned = {} /\ \A g \in Games : kan_action_idxs[g] = None
  BY <1>2 DEF BatchInv
<1>4. \A g \in Games : ~ Awaits(g)'
  BY <1>1 DEF Awaits
<1> QED BY <1>1, <1>3, <1>4 DEF BatchInv, batch

(* A row at the end of the batch. *)
LEMMA Pushed ==
  ASSUME NEW S, NEW v \in Seq(S), NEW e \in S, NEW w, w = v \o <<e>>
  PROVE  /\ w \in Seq(S) /\ Len(w) = Len(v) + 1 /\ w[Len(v) + 1] = e
         /\ Len(v) \in Nat /\ DOMAIN v = 1 .. Len(v) /\ DOMAIN w = 1 .. Len(v) + 1
         /\ \A i \in DOMAIN v : i \in DOMAIN w /\ w[i] = v[i]
<1>1. <<e>> \in Seq(S) /\ Len(<<e>>) = 1 /\ <<e>>[1] = e
  OBVIOUS
<1>2. Len(v) \in Nat /\ DOMAIN v = 1 .. Len(v)
  BY LenProperties
<1> DEFINE x == <<e>>
<1> HIDE DEF x
<1>3. /\ w \in Seq(S) /\ Len(w) = Len(v) + Len(x)
      /\ \A i \in 1 .. Len(v) + Len(x) : w[i] = IF i <= Len(v) THEN v[i] ELSE x[i - Len(v)]
  BY <1>1, ConcatProperties DEF x
<1>4. Len(x) = 1 /\ x[1] = e
  BY <1>1 DEF x
<1>5. DOMAIN w = 1 .. Len(v) + 1
  BY <1>3, <1>4, LenProperties
<1>6. Len(v) + 1 - Len(v) = 1 /\ ~ (Len(v) + 1 <= Len(v)) /\ Len(v) + 1 \in 1 .. Len(v) + 1
  BY <1>2
<1>7. w[Len(v) + 1] = e
  BY <1>3, <1>4, <1>6
<1>8. \A i \in 1 .. Len(v) : i \in 1 .. Len(v) + 1 /\ i <= Len(v)
  BY <1>2
<1> QED BY <1>2, <1>3, <1>4, <1>5, <1>7, <1>8

(* What the encoding of a scene adds to the batch. *)
LEMMA EncodeRows ==
  ASSUME LoopInv, CycleInv, BatchInv, NEW g \in Games, Encode(g)
  PROVE  /\ rows' \in Seq(RowSet) /\ \A i \in DOMAIN rows : i \in DOMAIN rows' /\ rows'[i] = rows[i]
         /\ action_idxs' \in [Games -> Nat] /\ kan_action_idxs' \in [Games -> Nat \cup {None}]
         /\ \A h \in Games : h # g => /\ action_idxs'[h] = action_idxs[h]
                                      /\ kan_action_idxs'[h] = kan_action_idxs[h]
         /\ action_idxs'[g] \in DOMAIN rows' /\ rows'[action_idxs'[g]] = Row(g, FALSE)
         /\ kan_action_idxs'[g] # None <=> NeedKanSelect(scene[g])
         /\ kan_action_idxs'[g] # None => /\ kan_action_idxs'[g] \in DOMAIN rows'
                                          /\ rows'[kan_action_idxs'[g]] = Row(g, TRUE)
<1>1. /\ rows \in Seq(RowSet) /\ action_idxs \in [Games -> Nat]
      /\ kan_action_idxs \in [Games -> Nat \cup {None}]
  BY DEF BatchInv
<1>2. g \in spawned /\ kan_action_idxs[g] = None /\ scene[g] \in Scenes /\ None \notin Nat
  BY BatchAssumption DEF Encode, BatchInv, Awaits, CycleInv, SceneInv
<1>3. PICK x : x = Row(g, TRUE)
  OBVIOUS
<1>4. PICK y : y = Row(g, FALSE)
  OBVIOUS
<1>5. x \in RowSet /\ y \in RowSet
  <2>1. cycle \in Nat
    BY DEF LoopInv, VectorOK
  <2> DEFINE Masks == {Mask(s, k) : s \in Scenes, k \in BOOLEAN}
  <2>2. Mask(scene[g], TRUE) \in Masks /\ Mask(scene[g], FALSE) \in Masks
    <3>1. ASSUME NEW k \in BOOLEAN PROVE Mask(scene[g], k) \in Masks
      BY <1>2
    <3> HIDE DEF Masks
    <3>2. TRUE \in BOOLEAN /\ FALSE \in BOOLEAN
      OBVIOUS
    <3> QED BY <3>1, <3>2, Zenon
  <2>3. RowSet = [game : Games, at : Nat, kan : BOOLEAN, mask : Masks]
    BY DEF RowSet
  <2> HIDE DEF Masks
  <2> QED BY <1>2, <1>3, <1>4, <2>1, <2>2, <2>3 DEF Row
<1>6. CASE NeedKanSelect(scene[g])
  <2>1. PICK v : v = rows \o <<x>>
    OBVIOUS
  <2>2. /\ rows' = v \o <<y>> /\ action_idxs' = [action_idxs EXCEPT ![g] = Len(rows) + 2]
        /\ kan_action_idxs' = [kan_action_idxs EXCEPT ![g] = Len(rows) + 1]
    BY <1>3, <1>4, <1>6, <2>1 DEF Encode
  <2>3. /\ v \in Seq(RowSet) /\ Len(v) = Len(rows) + 1 /\ v[Len(rows) + 1] = x /\ Len(rows) \in Nat
        /\ DOMAIN v = 1 .. Len(rows) + 1 /\ \A i \in DOMAIN rows : i \in DOMAIN v /\ v[i] = rows[i]
    BY <1>1, <1>5, <2>1, Pushed
  <2>4. PICK w : w = v \o <<y>>
    OBVIOUS
  <2>5. /\ w \in Seq(RowSet) /\ w[Len(v) + 1] = y /\ DOMAIN w = 1 .. Len(v) + 1
        /\ \A i \in DOMAIN v : i \in DOMAIN w /\ w[i] = v[i]
    BY <1>5, <2>3, <2>4, Pushed
  <2>6. Len(v) + 1 = Len(rows) + 2 /\ Len(rows) + 2 \in DOMAIN w /\ Len(rows) + 1 \in DOMAIN v
    BY <2>3, <2>5
  <2>7. /\ action_idxs' \in [Games -> Nat] /\ action_idxs'[g] = Len(rows) + 2
        /\ \A h \in Games : h # g => action_idxs'[h] = action_idxs[h]
    BY <1>1, <2>2, <2>3
  <2>8. /\ kan_action_idxs' \in [Games -> Nat \cup {None}] /\ kan_action_idxs'[g] = Len(rows) + 1
        /\ \A h \in Games : h # g => kan_action_idxs'[h] = kan_action_idxs[h]
    BY <1>1, <2>2, <2>3
  <2>9. Len(rows) + 1 # None
    BY <1>2, <2>3
  <2>10. rows' = w
    BY <2>2, <2>4
  <2> QED BY <1>3, <1>4, <1>6, <2>3, <2>5, <2>6, <2>7, <2>8, <2>9, <2>10
<1>7. CASE ~ NeedKanSelect(scene[g])
  <2>1. /\ rows' = (rows \o <<>>) \o <<y>> /\ kan_action_idxs' = kan_action_idxs
        /\ action_idxs' = [action_idxs EXCEPT ![g] = Len(rows) + 1]
    BY <1>4, <1>7 DEF Encode
  <2>2. rows \o <<>> = rows
    BY <1>1, ConcatEmptySeq
  <2>3. PICK w : w = rows \o <<y>>
    OBVIOUS
  <2>4. /\ w \in Seq(RowSet) /\ w[Len(rows) + 1] = y /\ DOMAIN w = 1 .. Len(rows) + 1
        /\ Len(rows) \in Nat /\ \A i \in DOMAIN rows : i \in DOMAIN w /\ w[i] = rows[i]
    BY <1>1, <1>5, <2>3, Pushed
  <2>5. /\ action_idxs' \in [Games -> Nat] /\ action_idxs'[g] = Len(rows) + 1
        /\ \A h \in Games : h # g => action_idxs'[h] = action_idxs[h]
    BY <1>1, <2>1, <2>4
  <2>6. rows' = w /\ Len(rows) + 1 \in DOMAIN w
    BY <2>1, <2>2, <2>3, <2>4
  <2> QED BY <1>1, <1>2, <1>4, <1>7, <2>1, <2>4, <2>5, <2>6
<1> QED BY <1>6, <1>7

LEMMA BatchEncode ==
  ASSUME LoopInv, CycleInv, BatchInv, NEW g \in Games, Encode(g)
  PROVE  BatchInv'
<1>1. /\ g \in spawned /\ spawned' = spawned \ {g}
      /\ UNCHANGED <<loop, scene, answered, actions, evaluated, quick, reaction>>
  BY DEF Encode
<1>2. /\ rows' \in Seq(RowSet) /\ \A i \in DOMAIN rows : i \in DOMAIN rows' /\ rows'[i] = rows[i]
      /\ action_idxs' \in [Games -> Nat] /\ kan_action_idxs' \in [Games -> Nat \cup {None}]
      /\ \A h \in Games : h # g => /\ action_idxs'[h] = action_idxs[h]
                                   /\ kan_action_idxs'[h] = kan_action_idxs[h]
      /\ action_idxs'[g] \in DOMAIN rows' /\ rows'[action_idxs'[g]] = Row(g, FALSE)
      /\ kan_action_idxs'[g] # None <=> NeedKanSelect(scene[g])
      /\ kan_action_idxs'[g] # None => /\ kan_action_idxs'[g] \in DOMAIN rows'
                                       /\ rows'[kan_action_idxs'[g]] = Row(g, TRUE)
  BY EncodeRows
<1>3. Awaits(g) /\ ~ evaluated
  BY <1>1 DEF BatchInv
<1>4. stage' = stage /\ cycle' = cycle /\ \A h \in Games : Awaits(h)' <=> Awaits(h)
  BY <1>1 DEF loop, Awaits, Alone
<1>5. \A h \in Games, k \in BOOLEAN : Row(h, k)' = Row(h, k)
  BY <1>1, <1>4 DEF Row
<1>6. Buffer = rows /\ Buffer' = rows'
  BY <1>1, <1>3 DEF Buffer
<1>7. ASSUME NEW h \in Games \ spawned', Awaits(h)' PROVE HasRows(h)'
  <2>1. CASE h = g
    <3>1. RowAt(action_idxs[h], h, FALSE)'
      BY <1>2, <1>5, <1>6, <2>1 DEF RowAt
    <3>2. kan_action_idxs'[h] # None => RowAt(kan_action_idxs[h], h, TRUE)'
      BY <1>2, <1>5, <1>6, <2>1 DEF RowAt
    <3>3. NeedKanSelect(scene[h])' <=> NeedKanSelect(scene[h])
      BY <1>1 DEF NeedKanSelect
    <3> QED BY <1>2, <2>1, <3>1, <3>2, <3>3 DEF HasRows
  <2>2. CASE h # g
    <3>1. HasRows(h)
      BY <1>1, <1>4, <1>7, <2>2 DEF BatchInv
    <3>2. RowAt(action_idxs[h], h, FALSE)'
      BY <1>2, <1>5, <1>6, <2>2, <3>1 DEF RowAt, HasRows
    <3>3. kan_action_idxs'[h] # None => RowAt(kan_action_idxs[h], h, TRUE)'
      BY <1>2, <1>5, <1>6, <2>2, <3>1 DEF RowAt, HasRows
    <3>4. kan_action_idxs'[h] # None <=> NeedKanSelect(scene[h])'
      BY <1>1, <1>2, <2>2, <3>1 DEF HasRows, NeedKanSelect
    <3> QED BY <3>2, <3>3, <3>4 DEF HasRows
  <2> QED BY <2>1, <2>2
<1>8. \A h \in spawned' : h \in Games /\ Awaits(h)' /\ kan_action_idxs'[h] = None /\ ~ evaluated'
  BY <1>1, <1>2, <1>4 DEF BatchInv
<1>9. \A h \in Games : kan_action_idxs'[h] # None => Awaits(h)'
  BY <1>2, <1>3, <1>4 DEF BatchInv
<1>10. evaluated' = FALSE /\ \A i \in DOMAIN answered' : actions'[i] \in answered'[i].mask
  BY <1>1, <1>3 DEF BatchInv
<1> QED BY <1>2, <1>7, <1>8, <1>9, <1>10 DEF BatchInv

LEMMA BatchEvaluate ==
  ASSUME BatchInv, Evaluate
  PROVE  BatchInv'
<1>1. /\ stage = "commit" /\ ~ evaluated /\ spawned = {} /\ evaluated' = TRUE
      /\ UNCHANGED <<loop, scene, spawned, action_idxs, kan_action_idxs, quick, reaction>>
  BY DEF Evaluate, Asks
<1>2. stage' = stage /\ cycle' = cycle /\ \A h \in Games : Awaits(h)' <=> Awaits(h)
  BY <1>1 DEF loop, Awaits, Alone
<1>3. Buffer = rows /\ Buffer' = answered'
  BY <1>1 DEF Buffer
<1>4. CASE rows = <<>>
  <2>1. UNCHANGED <<rows, answered, actions>>
    BY <1>4 DEF Evaluate
  <2>2. \A h \in Games : ~ Awaits(h)
    BY <1>1, <1>3, <1>4 DEF BatchInv, HasRows, RowAt
  <2> QED BY <1>1, <1>2, <2>1, <2>2 DEF BatchInv
<1>5. CASE rows # <<>>
  <2>1. /\ answered' = rows /\ rows' = <<>>
        /\ \A i \in DOMAIN rows : actions'[i] \in rows[i].mask
    BY <1>5 DEF Evaluate
  <2>2. rows' \in Seq(RowSet)
    BY <2>1
  <2>3. ASSUME NEW h \in Games, Awaits(h)' PROVE HasRows(h)'
    <3>1. HasRows(h)
      BY <1>1, <1>2, <2>3 DEF BatchInv
    <3> QED BY <1>1, <1>2, <1>3, <2>1, <3>1 DEF HasRows, RowAt, Row, NeedKanSelect
  <2> QED BY <1>1, <1>2, <2>1, <2>2, <2>3 DEF BatchInv
<1> QED BY <1>4, <1>5

(* The reaction a game takes from the network's answer. *)
LEMMA AnswerLegal ==
  ASSUME LoopInv, CycleInv, BatchInv, Answer
  PROVE  /\ Awaits(games[cursor])
         /\ \E r \in Legal(scene[games[cursor]]) :
              r # None /\ reaction' = [reaction EXCEPT ![games[cursor]] = r]
<1>0. PICK g : g = games[cursor]
  OBVIOUS
<1>1. Asks /\ quick[g] = None /\ evaluated
  BY <1>0 DEF Answer, Committing
<1>2. g \in Games /\ scene[g] # None /\ scene[g] \in Scenes /\ reaction[g] = None
  BY <1>0, <1>1, AtCommit
<1>3. Awaits(g)
  BY <1>1, <1>2 DEF CycleInv, QuickInv, Awaits
<1>4. HasRows(g) /\ \A i \in DOMAIN answered : actions[i] \in answered[i].mask
  BY <1>1, <1>2, <1>3 DEF BatchInv
<1> DEFINE s == scene[g]
           i == action_idxs[g]
           k == kan_action_idxs[g]
<1>5. i \in DOMAIN answered /\ answered[i].mask = Mask(s, FALSE)
  <2>1. i \in DOMAIN answered /\ answered[i] = Row(g, FALSE)
    BY <1>1, <1>4 DEF HasRows, RowAt, Buffer
  <2>2. Row(g, FALSE).mask = Mask(s, FALSE)
    BY DEF Row
  <2> QED BY <2>1, <2>2
<1>6. ASSUME k # None
      PROVE  NeedKanSelect(s) /\ actions[k] \in Mask(s, TRUE)
  <2>1. k \in DOMAIN answered /\ answered[k].mask = Mask(s, TRUE)
    <3>1. k \in DOMAIN answered /\ answered[k] = Row(g, TRUE)
      BY <1>1, <1>4, <1>6 DEF HasRows, RowAt, Buffer
    <3>2. Row(g, TRUE).mask = Mask(s, TRUE)
      BY DEF Row
    <3> QED BY <3>1, <3>2
  <2> QED BY <1>4, <1>6, <2>1 DEF HasRows
<1>7. Guarded(s, i) \subseteq Mask(s, FALSE)
  BY <1>4, <1>5 DEF Guarded
<1>8. PICK choice : choice = IF k = None THEN None ELSE actions[k]
  OBVIOUS
<1>9. choice # None => NeedKanSelect(s) /\ choice \in Mask(s, TRUE)
  BY <1>6, <1>8
<1>10. PICK a \in Guarded(s, i) : reaction' = [reaction EXCEPT ![g] = Decode(s, a, choice)]
  BY <1>0, <1>8 DEF Answer, Committing
<1>11. SceneOK(s)
  BY <1>2, BatchAssumption
<1> HIDE DEF s, i, k
<1>12. Decode(s, a, choice) \in Legal(s)
  BY <1>7, <1>9, <1>11, DecodeLegal
<1>13. None \notin Legal(s)
  BY <1>11 DEF SceneOK
<1>14. \E r \in Legal(s) : r # None /\ reaction' = [reaction EXCEPT ![g] = r]
  BY <1>10, <1>12, <1>13
<1> QED BY <1>0, <1>3, <1>14 DEF s

LEMMA CycleAnswer ==
  ASSUME LoopInv, CycleInv, BatchInv, Answer
  PROVE  CycleInv'
<1>1. Commits /\ UNCHANGED <<scene, quick>> /\ quick[games[cursor]] = None
  BY DEF Answer, Commits, Committing
<1>2. PICK r \in Legal(scene[games[cursor]]) :
        r # None /\ reaction' = [reaction EXCEPT ![games[cursor]] = r]
  BY AnswerLegal
<1>3. /\ DOMAIN quick' = Games /\ quick'[games[cursor]] = None
      /\ \A h \in Games : h # games[cursor] => quick'[h] = quick[h]
  BY <1>1 DEF CycleInv, QuickInv
<1> QED BY <1>1, <1>2, <1>3, CycleCommits

LEMMA BatchAnswer ==
  ASSUME LoopInv, CycleInv, BatchInv, Answer
  PROVE  BatchInv'
<1>0. PICK g : g = games[cursor]
  OBVIOUS
<1>1. /\ Asks /\ evaluated /\ kan_action_idxs' = [kan_action_idxs EXCEPT ![g] = None]
      /\ UNCHANGED <<stage, cycle, scene, spawned, rows, action_idxs, answered, actions, evaluated>>
  BY <1>0 DEF Answer, Committing
<1>2. PICK r : r # None /\ reaction' = [reaction EXCEPT ![g] = r]
  BY <1>0, AnswerLegal
<1>3. g \in Games /\ stage = "commit"
  BY <1>0, <1>1, AtCommit
<1>4. reaction'[g] # None /\ \A h \in Games : h # g => reaction'[h] = reaction[h]
  BY <1>2, <1>3 DEF CycleInv, ReactionInv
<1>5. ~ Awaits(g)' /\ \A h \in Games : h # g => (Awaits(h)' <=> Awaits(h))
  BY <1>1, <1>4 DEF Awaits, Alone
<1>6. /\ kan_action_idxs' \in [Games -> Nat \cup {None}] /\ kan_action_idxs'[g] = None
      /\ \A h \in Games : h # g => kan_action_idxs'[h] = kan_action_idxs[h]
  BY <1>1, <1>3 DEF BatchInv
<1>7. spawned = {}
  BY <1>1 DEF BatchInv
<1>8. ASSUME NEW h \in Games, Awaits(h)' PROVE HasRows(h)'
  <2>1. h # g /\ Awaits(h)
    BY <1>5, <1>8
  <2>2. HasRows(h) /\ kan_action_idxs'[h] = kan_action_idxs[h]
    BY <1>6, <1>7, <2>1 DEF BatchInv
  <2> QED BY <1>1, <2>2 DEF HasRows, RowAt, Row, Buffer, NeedKanSelect
<1>9. \A h \in Games : kan_action_idxs'[h] # None => Awaits(h)'
  BY <1>5, <1>6 DEF BatchInv
<1> QED BY <1>1, <1>3, <1>6, <1>7, <1>8, <1>9 DEF BatchInv

-----------------------------------------------------------------------------
(* The invariant of the whole, and what it says of the reactions.          *)

LEMMA MortalInit ==
  ASSUME BatchInit
  PROVE  MortalInv
BY LoopInit, CycleInit, BatchInvInit DEF MortalInv

LEMMA MortalNext ==
  ASSUME MortalInv, [BatchNext]_batchVars
  PROVE  MortalInv'
<1>0. LoopInv /\ CycleInv /\ BatchInv
  BY DEF MortalInv
<1>1. LoopInv'
  BY <1>0, LoopNext
<1>2. CASE Poll
  BY <1>0, <1>1, <1>2, CyclePoll, BatchPoll DEF MortalInv
<1>3. CASE Polled
  BY <1>0, <1>1, <1>3, CyclePolled, BatchPolled DEF MortalInv
<1>4. CASE Evaluate
  <2>1. CycleInv'
    BY <1>0, <1>4, CycleSame DEF Evaluate, loop
  <2> QED BY <1>0, <1>1, <1>4, <2>1, BatchEvaluate DEF MortalInv
<1>5. CASE TakeQuick
  BY <1>0, <1>1, <1>5, CycleTakeQuick, BatchTakeQuick DEF MortalInv
<1>6. CASE Answer
  BY <1>0, <1>1, <1>6, CycleAnswer, BatchAnswer DEF MortalInv
<1>7. CASE Finish
  BY <1>0, <1>1, <1>7, CycleFinish, BatchFinish DEF MortalInv
<1>8. CASE Sweep
  BY <1>0, <1>1, <1>8, CycleSweep, BatchSweep DEF MortalInv
<1>9. ASSUME NEW g \in Games, Encode(g) PROVE MortalInv'
  <2>1. CycleInv'
    BY <1>0, <1>9, CycleSame DEF Encode, loop
  <2> QED BY <1>0, <1>1, <1>9, <2>1, BatchEncode DEF MortalInv
<1>10. CASE UNCHANGED batchVars
  <2>1. CycleInv'
    BY <1>0, <1>10, CycleSame DEF batchVars, loop
  <2>2. UNCHANGED <<batch, cycle, scene, reaction, stage>>
    BY <1>10 DEF batchVars, loop
  <2>3. \A g \in Games : Awaits(g)' <=> Awaits(g)
    BY <2>2 DEF Awaits, Alone
  <2>4. BatchInv'
    BY <1>0, <2>2, <2>3, BatchSame DEF BatchInv
  <2> QED BY <1>1, <2>1, <2>4 DEF MortalInv
<1> QED BY <1>2, <1>3, <1>4, <1>5, <1>6, <1>7, <1>8, <1>9, <1>10 DEF BatchNext

LEMMA MortalOwns ==
  ASSUME MortalInv
  PROVE  OwnAnswers
<1> SUFFICES ASSUME NEW g \in Games
             PROVE  /\ reaction[g] # None => reaction[g] \in Legal(scene[g])
                    /\ (stage = "commit" /\ evaluated /\ scene[g] # None /\ g \notin Single
                          /\ ~IsQuick(scene[g]) /\ reaction[g] = None) =>
                         /\ answered[action_idxs[g]].game = g
                         /\ answered[action_idxs[g]].at = cycle
                         /\ ~answered[action_idxs[g]].kan
                         /\ (kan_action_idxs[g] # None) = NeedKanSelect(scene[g])
                         /\ kan_action_idxs[g] # None =>
                              /\ answered[kan_action_idxs[g]].game = g
                              /\ answered[kan_action_idxs[g]].at = cycle
                              /\ answered[kan_action_idxs[g]].kan
  BY Zenon DEF OwnAnswers
<1>1. reaction[g] # None => reaction[g] \in Legal(scene[g])
  BY DEF MortalInv, CycleInv, ReactionInv
<1>2. ASSUME evaluated, scene[g] # None, g \notin Single, ~IsQuick(scene[g]), reaction[g] = None
      PROVE  HasRows(g) /\ Buffer = answered
  BY <1>2 DEF MortalInv, BatchInv, Awaits, Alone, Buffer
<1>3. ASSUME HasRows(g), Buffer = answered
      PROVE  /\ answered[action_idxs[g]] = Row(g, FALSE)
             /\ kan_action_idxs[g] # None <=> NeedKanSelect(scene[g])
             /\ kan_action_idxs[g] # None => answered[kan_action_idxs[g]] = Row(g, TRUE)
  BY <1>3 DEF HasRows, RowAt
<1>4. \A k \in BOOLEAN : Row(g, k).game = g /\ Row(g, k).at = cycle /\ Row(g, k).kan = k
  BY DEF Row
<1> QED BY <1>1, <1>2, <1>3, <1>4 DEF NeedKanSelect

(* A game acts on the network's answer to its own scene of this cycle, whatever
   the order in which the thread pool encoded the batch (MortalBatchAgent's
   set_scene, evaluate and get_reaction): the reaction is allowed in the scene,
   and no check of get_reaction fails. *)
THEOREM AnswersAreOwn == BatchSpec => []OwnAnswers
<1>1. BatchInit => MortalInv
  BY MortalInit
<1>2. MortalInv /\ [BatchNext]_batchVars => MortalInv'
  BY MortalNext
<1>3. MortalInv => OwnAnswers
  BY MortalOwns
<1> QED BY <1>1, <1>2, <1>3, PTL DEF BatchSpec

=============================================================================
