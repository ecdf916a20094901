--------------------------- MODULE BotQueueProofs ---------------------------
(***************************************************************************)
(* What the queue of the bot promises, for any tasks, users and limits and *)
(* any number of cancels, failing calls, restarts and midnights.           *)
(***************************************************************************)
EXTENDS BotQueue, SequenceTheorems, SetInduction

(* The recursion of Without, and that it has a solution. *)
Keeps(f, s, T, N) ==
  f = [n \in 0 .. N |-> IF n = 0 THEN <<>>
                        ELSE IF s[n] \in T THEN f[n - 1] ELSE Append(f[n - 1], s[n])]

LEMMA KeepsExists ==
  ASSUME NEW s, NEW T, NEW L \in Nat
  PROVE  \E f : Keeps(f, s, T, L)
<1> DEFINE Good == {N \in Nat : \E f : Keeps(f, s, T, N)}
<1>1. 0 \in Good
  <2> DEFINE f == [n \in 0..0 |-> <<>>]
  <2>1. Keeps(f, s, T, 0)
    BY DEF Keeps
  <2> QED BY <2>1
<1>2. ASSUME NEW N \in Good PROVE N + 1 \in Good
  <2>1. PICK f : Keeps(f, s, T, N)
    BY <1>2
  <2> DEFINE last == IF s[N + 1] \in T THEN f[N] ELSE Append(f[N], s[N + 1])
             g == [n \in 0 .. N + 1 |-> IF n = N + 1 THEN last ELSE f[n]]
  <2>2. ASSUME NEW n \in 0 .. N + 1
        PROVE  g[n] = IF n = 0 THEN <<>>
                      ELSE IF s[n] \in T THEN g[n - 1] ELSE Append(g[n - 1], s[n])
    <3>1. CASE n = N + 1
      BY <3>1
    <3>2. CASE n # N + 1
      <4>1. n \in 0 .. N /\ g[n] = f[n] /\ (n # 0 => g[n - 1] = f[n - 1])
        BY <3>2
      <4>2. f[n] = IF n = 0 THEN <<>>
                   ELSE IF s[n] \in T THEN f[n - 1] ELSE Append(f[n - 1], s[n])
        BY <2>1, <4>1 DEF Keeps
      <4> QED BY <4>1, <4>2
    <3> QED BY <3>1, <3>2
  <2>3. g = [n \in 0 .. N + 1 |-> g[n]]
    OBVIOUS
  <2> HIDE DEF g
  <2>4. Keeps(g, s, T, N + 1)
    BY <2>2, <2>3 DEF Keeps
  <2> QED BY <2>4
<1> HIDE DEF Good
<1>3. Good = Nat
  <2>1. Good \subseteq Nat
    BY DEF Good
  <2> QED BY <1>1, <1>2, <2>1, NatSetInduction
<1> QED BY <1>3 DEF Good

(* f is what Without has kept of each beginning of s. *)
KeptBy(f, s, T) ==
  /\ Without(s, T) = f[Len(s)]
  /\ f[0] = <<>>
  /\ \A n \in 1 .. Len(s) :
       f[n] = IF s[n] \in T THEN f[n - 1] ELSE Append(f[n - 1], s[n])

LEMMA WithoutKeeps ==
  ASSUME NEW s, NEW T, Len(s) \in Nat
  PROVE  \E f : KeptBy(f, s, T)
<1> DEFINE f == CHOOSE g : g = [n \in 0 .. Len(s) |-> IF n = 0 THEN <<>>
                        ELSE IF s[n] \in T THEN g[n - 1] ELSE Append(g[n - 1], s[n])]
<1>1. Without(s, T) = f[Len(s)]
  BY DEF Without
<1>2. Keeps(f, s, T, Len(s))
  <2>1. \E g : Keeps(g, s, T, Len(s))
    BY KeepsExists
  <2>2. f = CHOOSE g : Keeps(g, s, T, Len(s))
    BY DEF Keeps
  <2> HIDE DEF f
  <2> QED BY <2>1, <2>2
<1> HIDE DEF f
<1>3. f[0] = <<>>
  BY <1>2 DEF Keeps
<1>4. ASSUME NEW n \in 1 .. Len(s)
      PROVE  f[n] = IF s[n] \in T THEN f[n - 1] ELSE Append(f[n - 1], s[n])
  <2>1. n \in 0 .. Len(s) /\ n # 0
    OBVIOUS
  <2> QED BY <1>2, <2>1 DEF Keeps
<1> QED BY <1>1, <1>3, <1>4 DEF KeptBy

(* What is left of a sequence: no longer, without T and with all the rest, and
   rising in what the sequence rises in. *)
Rises(h, s) == \A i, j \in 1 .. Len(s) : i < j => h[s[i]] < h[s[j]]
Sifted(w, s, T, n) ==
  /\ Len(w) <= n
  /\ \A i \in 1 .. Len(w) : w[i] \notin T /\ \E j \in 1 .. n : s[j] = w[i]
  /\ \A j \in 1 .. n : s[j] \notin T => \E i \in 1 .. Len(w) : w[i] = s[j]

LEMMA SiftedAppend ==
  ASSUME NEW S, NEW s \in Seq(S), NEW T, NEW w \in Seq(S), NEW n \in Nat,
         n + 1 <= Len(s), Sifted(w, s, T, n)
  PROVE  LET v == IF s[n + 1] \in T THEN w ELSE Append(w, s[n + 1])
         IN  v \in Seq(S) /\ Sifted(v, s, T, n + 1)
<1> DEFINE x == s[n + 1]
           v == IF x \in T THEN w ELSE Append(w, x)
<1>1. x \in S /\ Len(w) \in Nat
  BY ElementOfSeq, LenProperties
<1> HIDE DEF x
<1>2. CASE x \in T
  <2>1. v = w
    BY <1>2
  <2> HIDE DEF v
  <2>2. Sifted(w, s, T, n + 1)
    <3>1. Len(w) <= n + 1
      BY <1>1 DEF Sifted
    <3>2. ASSUME NEW i \in 1 .. Len(w) PROVE w[i] \notin T /\ \E j \in 1 .. n + 1 : s[j] = w[i]
      BY DEF Sifted
    <3>3. ASSUME NEW j \in 1 .. n + 1, s[j] \notin T PROVE \E i \in 1 .. Len(w) : w[i] = s[j]
      <4>1. j \in 1 .. n
        BY <1>2, <3>3 DEF x
      <4> QED BY <3>3, <4>1 DEF Sifted
    <3> QED BY <3>1, <3>2, <3>3 DEF Sifted
  <2> QED BY <2>1, <2>2 DEF v, x
<1>3. CASE x \notin T
  <2>1. v = Append(w, x)
    BY <1>3
  <2>2. /\ v \in Seq(S) /\ Len(v) = Len(w) + 1 /\ v[Len(w) + 1] = x
        /\ \A i \in 1 .. Len(w) : v[i] = w[i]
    BY <1>1, <2>1, AppendProperties
  <2> HIDE DEF v
  <2>3. Sifted(v, s, T, n + 1)
    <3>1. Len(v) <= n + 1
      BY <1>1, <2>2 DEF Sifted
    <3>2. ASSUME NEW i \in 1 .. Len(v) PROVE v[i] \notin T /\ \E j \in 1 .. n + 1 : s[j] = v[i]
      <4>1. CASE i = Len(w) + 1
        BY <1>3, <2>2, <4>1 DEF x
      <4>2. CASE i # Len(w) + 1
        <5>1. i \in 1 .. Len(w) /\ v[i] = w[i]
          BY <1>1, <2>2, <4>2
        <5> QED BY <5>1 DEF Sifted
      <4> QED BY <4>1, <4>2
    <3>3. ASSUME NEW j \in 1 .. n + 1, s[j] \notin T PROVE \E i \in 1 .. Len(v) : v[i] = s[j]
      <4>1. CASE j = n + 1
        BY <1>1, <2>2, <4>1 DEF x
      <4>2. CASE j # n + 1
        <5>1. PICK i \in 1 .. Len(w) : w[i] = s[j]
          BY <3>3, <4>2 DEF Sifted
        <5> QED BY <1>1, <2>2, <5>1
      <4> QED BY <4>1, <4>2
    <3> QED BY <3>1, <3>2, <3>3 DEF Sifted
  <2> QED BY <2>2, <2>3 DEF v, x
<1> QED BY <1>2, <1>3

LEMMA WithoutSifts ==
  ASSUME NEW S, NEW s \in Seq(S), NEW T
  PROVE  Without(s, T) \in Seq(S) /\ Sifted(Without(s, T), s, T, Len(s))
<1>1. Len(s) \in Nat
  BY LenProperties
<1>2. PICK f : KeptBy(f, s, T)
  BY <1>1, WithoutKeeps
<1> DEFINE Good == {n \in 0 .. Len(s) : f[n] \in Seq(S) /\ Sifted(f[n], s, T, n)}
<1>3. 0 \in Good
  <2>1. f[0] \in Seq(S) /\ Len(f[0]) = 0
    BY <1>2 DEF KeptBy
  <2>2. Sifted(f[0], s, T, 0)
    BY <2>1 DEF Sifted
  <2> QED BY <1>1, <2>1, <2>2
<1>4. ASSUME NEW n \in Good \cap (0 .. Len(s) - 1) PROVE n + 1 \in Good
  <2>1. n \in Nat /\ n + 1 <= Len(s) /\ f[n] \in Seq(S) /\ Sifted(f[n], s, T, n)
    BY <1>1
  <2>2. f[n + 1] = IF s[n + 1] \in T THEN f[n] ELSE Append(f[n], s[n + 1])
    <3>1. n + 1 \in 1 .. Len(s) /\ n + 1 - 1 = n
      BY <1>1, <2>1
    <3> QED BY <1>2, <3>1 DEF KeptBy
  <2>3. f[n + 1] \in Seq(S) /\ Sifted(f[n + 1], s, T, n + 1)
    BY <2>1, <2>2, SiftedAppend
  <2> QED BY <1>1, <2>1, <2>3
<1> HIDE DEF Good
<1>5. 0 .. Len(s) \subseteq Good
  BY <1>1, <1>3, <1>4, IntervalInduction
<1>6. Len(s) \in Good
  BY <1>1, <1>5
<1> QED BY <1>2, <1>6 DEF Good, KeptBy

LEMMA WithoutRises ==
  ASSUME NEW S, NEW s \in Seq(S), NEW T, NEW h \in [S -> Nat], Rises(h, s)
  PROVE  Rises(h, Without(s, T))
<1>1. Len(s) \in Nat
  BY LenProperties
<1>2. PICK f : KeptBy(f, s, T)
  BY <1>1, WithoutKeeps
<1> DEFINE Good == {n \in 0 .. Len(s) : f[n] \in Seq(S) /\ Sifted(f[n], s, T, n) /\ Rises(h, f[n])}
<1>3. 0 \in Good
  <2>1. f[0] \in Seq(S) /\ Len(f[0]) = 0
    BY <1>2 DEF KeptBy
  <2>2. Sifted(f[0], s, T, 0) /\ Rises(h, f[0])
    BY <2>1 DEF Sifted, Rises
  <2> QED BY <1>1, <2>1, <2>2
<1>4. ASSUME NEW n \in Good \cap (0 .. Len(s) - 1) PROVE n + 1 \in Good
  <2> DEFINE w == f[n]
             v == f[n + 1]
             x == s[n + 1]
  <2>1. n \in Nat /\ n + 1 <= Len(s) /\ w \in Seq(S) /\ Sifted(w, s, T, n) /\ Rises(h, w)
    BY <1>1
  <2>2. v = IF x \in T THEN w ELSE Append(w, x)
    <3>1. n + 1 \in 1 .. Len(s) /\ n + 1 - 1 = n
      BY <1>1, <2>1
    <3> QED BY <1>2, <3>1 DEF KeptBy
  <2>3. v \in Seq(S) /\ Sifted(v, s, T, n + 1)
    BY <2>1, <2>2, SiftedAppend
  <2>4. x \in S /\ Len(w) \in Nat
    BY <2>1, ElementOfSeq, LenProperties
  <2> HIDE DEF w, v
  <2>5. Rises(h, v)
    <3>1. CASE x \in T
      BY <2>1, <2>2, <3>1
    <3>2. CASE x \notin T
      <4>1. /\ Len(v) = Len(w) + 1 /\ v[Len(w) + 1] = x
            /\ \A i \in 1 .. Len(w) : v[i] = w[i]
        BY <2>1, <2>2, <2>4, <3>2, AppendProperties
      <4>2. ASSUME NEW i \in 1 .. Len(v), NEW j \in 1 .. Len(v), i < j
            PROVE  h[v[i]] < h[v[j]]
        <5>1. i \in 1 .. Len(w) /\ v[i] = w[i]
          BY <2>4, <4>1, <4>2
        <5>2. CASE j = Len(w) + 1
          <6>1. PICK k \in 1 .. n : s[k] = w[i]
            BY <2>1, <5>1 DEF Sifted
          <6>2. k \in 1 .. Len(s) /\ n + 1 \in 1 .. Len(s) /\ k < n + 1
            BY <1>1, <2>1
          <6>3. h[s[k]] < h[s[n + 1]]
            BY <6>2 DEF Rises
          <6> QED BY <4>1, <5>1, <5>2, <6>1, <6>3
        <5>3. CASE j # Len(w) + 1
          <6>1. j \in 1 .. Len(w) /\ v[j] = w[j]
            BY <2>4, <4>1, <5>3
          <6> QED BY <2>1, <4>2, <5>1, <6>1 DEF Rises
        <5> QED BY <5>2, <5>3
      <4> QED BY <4>2 DEF Rises
    <3> QED BY <3>1, <3>2
  <2>6. n + 1 \in 0 .. Len(s)
    BY <1>1, <2>1
  <2> QED BY <2>3, <2>5, <2>6 DEF v
<1> HIDE DEF Good
<1>5. 0 .. Len(s) \subseteq Good
  BY <1>1, <1>3, <1>4, IntervalInduction
<1>6. Len(s) \in Good
  BY <1>1, <1>5
<1> QED BY <1>2, <1>6 DEF Good, KeptBy

(* What is dropped depends only on what of T is in the sequence. *)
LEMMA WithoutSame ==
  ASSUME NEW S, NEW s \in Seq(S), NEW T, NEW U,
         \A i \in 1 .. Len(s) : s[i] \in T <=> s[i] \in U
  PROVE  Without(s, T) = Without(s, U)
<1>1. Len(s) \in Nat
  BY LenProperties
<1>2. PICK f : KeptBy(f, s, T)
  BY <1>1, WithoutKeeps
<1>3. PICK g : KeptBy(g, s, U)
  BY <1>1, WithoutKeeps
<1> DEFINE Good == {n \in 0 .. Len(s) : f[n] = g[n]}
<1>4. 0 \in Good
  BY <1>1, <1>2, <1>3 DEF KeptBy
<1>5. ASSUME NEW n \in Good \cap (0 .. Len(s) - 1) PROVE n + 1 \in Good
  <2>1. n + 1 \in 1 .. Len(s) /\ n + 1 - 1 = n /\ f[n] = g[n] /\ n + 1 \in 0 .. Len(s)
    BY <1>1
  <2>2. s[n + 1] \in T <=> s[n + 1] \in U
    BY <2>1
  <2>3. f[n + 1] = IF s[n + 1] \in T THEN f[n] ELSE Append(f[n], s[n + 1])
    BY <1>2, <2>1 DEF KeptBy
  <2>4. g[n + 1] = IF s[n + 1] \in U THEN g[n] ELSE Append(g[n], s[n + 1])
    BY <1>3, <2>1 DEF KeptBy
  <2>5. f[n + 1] = g[n + 1]
    BY <2>1, <2>2, <2>3, <2>4
  <2> QED BY <2>1, <2>5
<1> HIDE DEF Good
<1>6. 0 .. Len(s) \subseteq Good
  BY <1>1, <1>4, <1>5, IntervalInduction
<1>7. Len(s) \in Good
  BY <1>1, <1>6
<1> QED BY <1>2, <1>3, <1>7 DEF Good, KeptBy

(* Nothing is dropped when nothing of T is there. *)
LEMMA WithoutNone ==
  ASSUME NEW S, NEW s \in Seq(S), NEW T, \A i \in 1 .. Len(s) : s[i] \notin T
  PROVE  Without(s, T) = s
<1>1. Len(s) \in Nat
  BY LenProperties
<1>2. PICK f : KeptBy(f, s, T)
  BY <1>1, WithoutKeeps
<1> DEFINE Good == {n \in 0 .. Len(s) :
                      f[n] \in Seq(S) /\ Len(f[n]) = n /\ \A i \in 1 .. n : f[n][i] = s[i]}
<1>3. 0 \in Good
  <2>1. f[0] \in Seq(S) /\ Len(f[0]) = 0
    BY <1>2 DEF KeptBy
  <2>2. \A i \in 1 .. 0 : f[0][i] = s[i]
    OBVIOUS
  <2> QED BY <1>1, <2>1, <2>2
<1>4. ASSUME NEW n \in Good \cap (0 .. Len(s) - 1) PROVE n + 1 \in Good
  <2> DEFINE w == f[n]
             v == f[n + 1]
             x == s[n + 1]
  <2>1. n \in Nat /\ n + 1 \in 1 .. Len(s) /\ n + 1 - 1 = n /\ n + 1 \in 0 .. Len(s)
        /\ w \in Seq(S) /\ Len(w) = n /\ \A i \in 1 .. n : w[i] = s[i]
    BY <1>1
  <2>2. x \in S
    BY <2>1, ElementOfSeq
  <2>3. v = Append(w, x)
    <3>1. x \notin T
      BY <2>1
    <3>2. v = IF x \in T THEN w ELSE Append(w, x)
      BY <1>2, <2>1 DEF KeptBy
    <3> QED BY <3>1, <3>2
  <2> HIDE DEF w, v, x
  <2>4. v \in Seq(S) /\ Len(v) = n + 1 /\ v[n + 1] = x /\ \A i \in 1 .. n : v[i] = w[i]
    BY <2>1, <2>2, <2>3, AppendProperties
  <2>5. \A i \in 1 .. n + 1 : v[i] = s[i]
    BY <2>1, <2>4 DEF x
  <2> QED BY <2>1, <2>4, <2>5 DEF v
<1> HIDE DEF Good
<1>5. 0 .. Len(s) \subseteq Good
  BY <1>1, <1>3, <1>4, IntervalInduction
<1>6. Len(s) \in Good
  BY <1>1, <1>5
<1>7. f[Len(s)] \in Seq(S) /\ Len(f[Len(s)]) = Len(s)
      /\ \A i \in 1 .. Len(s) : f[Len(s)][i] = s[i]
  BY <1>6 DEF Good
<1> QED BY <1>2, <1>7, SeqEqual DEF KeptBy

(* Dropping the first of distinct elements leaves the others. *)
LEMMA WithoutHead ==
  ASSUME NEW S, NEW s \in Seq(S), s # <<>>,
         \A i \in 1 .. Len(s) : i # 1 => s[i] # s[1]
  PROVE  Without(s, {Head(s)}) = Tail(s)
<1>1. /\ Len(s) \in Nat /\ 1 \in 1 .. Len(s) /\ Head(s) = s[1]
      /\ Tail(s) \in Seq(S) /\ Len(Tail(s)) = Len(s) - 1
      /\ \A i \in 1 .. Len(s) - 1 : Tail(s)[i] = s[i + 1]
  BY HeadTailProperties, LenProperties, EmptySeq
<1>2. PICK f : KeptBy(f, s, {Head(s)})
  BY <1>1, WithoutKeeps
<1> DEFINE Good == {n \in 0 .. Len(s) :
                      n # 0 => /\ f[n] \in Seq(S) /\ Len(f[n]) = n - 1
                               /\ \A i \in 1 .. n - 1 : f[n][i] = s[i + 1]}
<1>3. 0 \in Good
  BY <1>1
<1>4. ASSUME NEW n \in Good \cap (0 .. Len(s) - 1) PROVE n + 1 \in Good
  <2> DEFINE w == f[n]
             v == f[n + 1]
             x == s[n + 1]
  <2>1. n \in Nat /\ n + 1 \in 1 .. Len(s) /\ n + 1 - 1 = n /\ n + 1 \in 0 .. Len(s)
    BY <1>1
  <2>2. x \in S
    BY <2>1, ElementOfSeq
  <2>3. v = IF x \in {Head(s)} THEN w ELSE Append(w, x)
    BY <1>2, <2>1 DEF KeptBy
  <2>4. CASE n = 0
    <3>1. v = <<>>
      BY <1>1, <1>2, <2>3, <2>4 DEF KeptBy
    <3>2. v \in Seq(S) /\ Len(v) = 0
      BY <3>1
    <3> QED BY <2>1, <2>4, <3>2
  <2>5. CASE n # 0
    <3>1. w \in Seq(S) /\ Len(w) = n - 1 /\ \A i \in 1 .. n - 1 : w[i] = s[i + 1]
      BY <2>5
    <3>2. x # s[1]
      BY <2>1, <2>5
    <3>3. v = Append(w, x)
      BY <1>1, <2>3, <3>2
    <3> HIDE DEF w, v, x
    <3>4. v \in Seq(S) /\ Len(v) = n /\ v[n] = x /\ \A i \in 1 .. n - 1 : v[i] = w[i]
      <4>1. Len(w) + 1 = n
        BY <2>1, <3>1
      <4> QED BY <2>2, <3>1, <3>3, <4>1, AppendProperties
    <3>5. \A i \in 1 .. n : v[i] = s[i + 1]
      BY <2>1, <3>1, <3>4 DEF x
    <3> QED BY <2>1, <3>4, <3>5 DEF v
  <2> QED BY <2>4, <2>5
<1> HIDE DEF Good
<1>5. 0 .. Len(s) \subseteq Good
  BY <1>1, <1>3, <1>4, IntervalInduction
<1>6. Len(s) \in Good /\ Len(s) # 0
  BY <1>1, <1>5
<1>7. f[Len(s)] \in Seq(S) /\ Len(f[Len(s)]) = Len(s) - 1
      /\ \A i \in 1 .. Len(s) - 1 : f[Len(s)][i] = s[i + 1]
  BY <1>6 DEF Good
<1>8. f[Len(s)] = Tail(s)
  <2> DEFINE t == f[Len(s)]
  <2>1. t \in Seq(S) /\ Len(t) = Len(Tail(s)) /\ \A i \in 1 .. Len(t) : t[i] = Tail(s)[i]
    BY <1>1, <1>7
  <2> HIDE DEF t
  <2>2. t = Tail(s)
    BY <1>1, <2>1, SeqEqual
  <2> QED BY <2>2 DEF t
<1> QED BY <1>2, <1>8 DEF KeptBy

-----------------------------------------------------------------------------
(* What is true of the queue at every await.                                *)

WorkerType == [at : {"idle", "post", "refused", "posted", "wait", "deliver", "report"},
               item : Tasks \cup {NoTask}, tries : 0 .. MaxTries - 1,
               run : Tasks \cup {NoTask}]
RunType == {"none", "running", "interrupted", "completed"} \cup Failures
OutcomeType == {"open", "shown", "failed", "cancelled", "withdrawn", "lost"}
CallType == [at : {"none", "sent", "answered"}, run : Tasks \cup {NoTask}]

QueueOK == queue \in Seq(Tasks) /\ Len(queue) <= MaxQueue
WorkerOK == /\ worker \in WorkerType /\ worker.run \in {worker.item, NoTask}
            /\ worker.item = NoTask => worker.at = "idle"
            /\ worker.at = "idle" => worker.item = NoTask
CallOK == /\ marked \in Users \cup {NoUser} /\ call \in [Users -> CallType]
          /\ \A u \in Users : call[u].at # "none" => call[u].run \in Tasks
ChargeOK == /\ charge \in [Users -> 0 .. Limit] /\ day \in 0 .. MaxDays
            /\ spool \subseteq Tasks /\ refunded \subseteq Tasks
ServerOK == run \in [Tasks -> RunType] /\ busy \in BOOLEAN
HistoryOK == ticket \in [Tasks -> Nat] /\ outcome \in [Tasks -> OutcomeType]

(* Tickets count the accepted tasks, and the queue holds accepted ones. *)
TicketsInv == /\ \A t \in Tasks : ticket[t] <= Cardinality(Accepted)
              /\ \A i \in 1 .. Len(queue) : queue[i] \in Accepted
              /\ worker.item # NoTask => worker.item \in Accepted
OrderInv == /\ Rises(ticket, queue)
            /\ worker.item # NoTask =>
                 \A i \in 1 .. Len(queue) : ticket[worker.item] < ticket[queue[i]]

(* A waiting task has no run and no refund yet, nor has one that the worker
   has only asked for; a withdrawn task never has a run. *)
Waits(t) == (\E i \in 1 .. Len(queue) : queue[i] = t)
            \/ (worker.item = t /\ worker.at \in {"post", "refused"})
RunInv == \A t \in Tasks :
            /\ Waits(t) \/ t \notin Accepted => run[t] = "none"
            /\ outcome[t] = "withdrawn" => run[t] = "none" /\ t \in Accepted /\ ~Waits(t)

(* Who is charged: the tasks that are accepted and not refunded. *)
Paying(u) == (Owned(u) \cap Accepted) \ refunded
Unpaid(t) == (\E i \in 1 .. Len(queue) : queue[i] = t)
             \/ (worker.item = t /\ worker.at \in {"post", "refused", "posted", "wait"})
ChargeInv == /\ refunded \subseteq Accepted
             /\ \A t \in refunded : ~Unpaid(t)
             /\ day = 0 => \A u \in Users : charge[u] = Cardinality(Paying(u))

TypesInv == QueueOK /\ WorkerOK /\ CallOK /\ ChargeOK /\ ServerOK /\ HistoryOK
QueueInv == /\ TypesInv /\ QueueMirrored
            /\ TicketsInv /\ OrderInv /\ RunInv /\ ChargeInv

-----------------------------------------------------------------------------
(* Queue, mirror and file.                                                 *)
LEMMA QueueDomain ==
  ASSUME QueueInv
  PROVE  /\ queue \in Seq(Tasks) /\ Len(queue) \in Nat /\ DOMAIN queue = 1 .. Len(queue)
         /\ \A i \in 1 .. Len(queue) : queue[i] \in Tasks
         /\ pending = queue /\ file = queue /\ Rises(ticket, queue)
         /\ ticket \in [Tasks -> Nat]
<1>1. queue \in Seq(Tasks)
  BY DEF QueueInv, TypesInv, QueueOK
<1>2. Len(queue) \in Nat /\ DOMAIN queue = 1 .. Len(queue)
  BY <1>1, LenProperties
<1>3. \A i \in 1 .. Len(queue) : queue[i] \in Tasks
  BY <1>1, ElementOfSeq
<1> QED BY <1>1, <1>2, <1>3 DEF QueueInv, QueueMirrored, OrderInv, TypesInv, HistoryOK

LEMMA WaitingTasks ==
  ASSUME QueueInv, NEW u \in Users
  PROVE  /\ Waiting(u) \subseteq Tasks
         /\ \A i \in 1 .. Len(queue) : queue[i] \in Waiting(u) <=> Owner[queue[i]] = u
         /\ \A t \in Waiting(u) : Owner[t] = u /\ \E i \in 1 .. Len(queue) : queue[i] = t
<1>1. Waiting(u) = {t \in {queue[i] : i \in 1 .. Len(queue)} : Owner[t] = u}
  BY QueueDomain DEF Waiting, ToSet
<1> QED BY <1>1, QueueDomain

LEMMA CancelQueue ==
  ASSUME QueueInv, NEW u \in Users, Cancel(u)
  PROVE  /\ queue' \in Seq(Tasks) /\ Sifted(queue', queue, Waiting(u), Len(queue))
         /\ Rises(ticket, queue') /\ pending' = queue' /\ file' = queue'
<1>1. queue' = Without(queue, Waiting(u))
  BY DEF Cancel, Retained
<1>2. queue' \in Seq(Tasks) /\ Sifted(queue', queue, Waiting(u), Len(queue))
  BY <1>1, QueueDomain, WithoutSifts
<1>3. Rises(ticket, queue')
  BY <1>1, QueueDomain, WithoutRises
<1>4. CASE Waiting(u) = {}
  <2>1. pending' = pending /\ file' = file
    BY <1>4 DEF Cancel
  <2>2. Without(queue, Waiting(u)) = queue
    BY <1>4, QueueDomain, WithoutNone
  <2> QED BY <1>1, <1>2, <1>3, <2>1, <2>2, QueueDomain
<1>5. CASE Waiting(u) # {}
  <2>1. pending' = Without(queue, Owned(u)) /\ file' = pending'
    BY <1>5, QueueDomain DEF Cancel, StillPending
  <2>2. \A i \in 1 .. Len(queue) : queue[i] \in Waiting(u) <=> queue[i] \in Owned(u)
    BY QueueDomain, WaitingTasks DEF Owned
  <2>3. Without(queue, Waiting(u)) = Without(queue, Owned(u))
    BY <2>2, QueueDomain, WithoutSame
  <2> QED BY <1>1, <1>2, <1>3, <2>1, <2>3
<1> QED BY <1>4, <1>5

LEMMA TakeQueue ==
  ASSUME QueueInv, Take
  PROVE  /\ queue' = Tail(queue) /\ pending' = queue' /\ file' = queue'
         /\ queue' \in Seq(Tasks) /\ Len(queue') = Len(queue) - 1 /\ 1 <= Len(queue)
         /\ \A i \in 1 .. Len(queue') : queue'[i] = queue[i + 1]
         /\ Head(queue) = queue[1] /\ queue[1] \in Tasks
<1>1. queue # <<>> /\ queue' = Tail(queue)
  BY DEF Take
<1>2. /\ Head(queue) = queue[1] /\ Tail(queue) \in Seq(Tasks) /\ Head(queue) \in Tasks
      /\ Len(Tail(queue)) = Len(queue) - 1 /\ 1 <= Len(queue)
      /\ \A i \in 1 .. Len(Tail(queue)) : Tail(queue)[i] = queue[i + 1]
  <2>1. Len(queue) # 0
    BY <1>1, QueueDomain, EmptySeq
  <2>2. Head(queue) = queue[1]
    BY QueueDomain
  <2> QED BY <1>1, <2>1, <2>2, QueueDomain, HeadTailProperties
<1>3. \A i \in 1 .. Len(queue) : i # 1 => queue[i] # queue[1]
  <2> SUFFICES ASSUME NEW i \in 1 .. Len(queue), i # 1 PROVE queue[i] # queue[1]
    OBVIOUS
  <2>1. 1 \in 1 .. Len(queue) /\ 1 < i
    BY <1>2, QueueDomain
  <2>2. ticket[queue[1]] < ticket[queue[i]]
    BY <2>1, QueueDomain DEF Rises
  <2>3. ticket[queue[1]] \in Nat /\ ticket[queue[i]] \in Nat
    BY <2>1, QueueDomain
  <2> QED BY <2>2, <2>3
<1>4. Without(pending, {Head(queue)}) = Tail(queue)
  BY <1>1, <1>3, QueueDomain, WithoutHead
<1>5. pending' = Tail(queue) /\ file' = pending'
  BY <1>4 DEF Take
<1> QED BY <1>1, <1>2, <1>5

LEMMA SubmitQueue ==
  ASSUME QueueInv, NEW t \in Tasks, Submit(t)
  PROVE  /\ queue' \in Seq(Tasks) /\ pending' = queue' /\ file' = queue'
         /\ Len(queue') = Len(queue) + 1 /\ Len(queue') <= MaxQueue
         /\ queue'[Len(queue) + 1] = t
         /\ \A i \in 1 .. Len(queue) : queue'[i] = queue[i]
<1>1. /\ queue' = Append(queue, t) /\ pending' = queue' /\ file' = pending'
      /\ ~(Len(queue) >= MaxQueue)
  BY QueueDomain DEF Submit, Full
<1>2. /\ queue' \in Seq(Tasks) /\ Len(queue') = Len(queue) + 1 /\ queue'[Len(queue) + 1] = t
      /\ \A i \in 1 .. Len(queue) : queue'[i] = queue[i]
  BY <1>1, QueueDomain, AppendProperties
<1>3. Len(queue') <= MaxQueue
  <2>1. MaxQueue \in Nat
    BY BoundAssumption
  <2> QED BY <1>1, <1>2, <2>1, QueueDomain
<1> QED BY <1>1, <1>2, <1>3

(* Everything else leaves the queue alone. *)
LEMMA OtherQueue ==
  ASSUME QueueInv, [Next]_vars,
         ~ \E t \in Tasks : Submit(t), ~ \E u \in Users : Cancel(u), ~ Take
  PROVE  queue' = queue /\ pending' = queue /\ file' = queue /\ ticket' = ticket
<1>1. pending = queue /\ file = queue
  BY QueueDomain
<1>2. CASE UNCHANGED vars
  BY <1>1, <1>2 DEF vars
<1>3. CASE \E t \in Tasks : Flush(t) \/ RunEnds(t)
  BY <1>1, <1>3 DEF Flush, RunEnds, history
<1>4. CASE \E u \in Users : CancelArrives(u) \/ CancelAnswered(u) \/ CancelFails(u)
  BY <1>1, <1>4 DEF CancelArrives, CancelAnswered, CancelFails, history
<1>5. CASE Create \/ Await \/ Breaks
  BY <1>1, <1>5 DEF Create, Post, Refused, Answer, GiveUp, Await, Completed, RunFailed, Breaks,
                    Fail, Step, Quiet
<1>6. CASE Send \/ Report
  BY <1>1, <1>6 DEF Send, Deliver, Undelivered, Report, Quiet, history
<1>7. CASE Others \/ ServerRestart \/ Midnight
  BY <1>1, <1>7 DEF Others, ServerRestart, Midnight, history
<1>8. CASE BotRestart
  BY <1>1, <1>8 DEF BotRestart
<1> QED BY <1>2, <1>3, <1>4, <1>5, <1>6, <1>7, <1>8 DEF Next, Message, Work

LEMMA QueueStep ==
  ASSUME QueueInv, [Next]_vars
  PROVE  QueueOK' /\ QueueMirrored'
<1>1. Len(queue) <= MaxQueue /\ MaxQueue \in Nat
  BY BoundAssumption DEF QueueInv, TypesInv, QueueOK
<1>2. ASSUME NEW t \in Tasks, Submit(t) PROVE QueueOK' /\ QueueMirrored'
  BY <1>2, SubmitQueue DEF QueueOK, QueueMirrored
<1>3. ASSUME NEW u \in Users, Cancel(u) PROVE QueueOK' /\ QueueMirrored'
  <2>1. Len(queue') \in Nat
    BY <1>3, CancelQueue, LenProperties
  <2> QED BY <1>1, <1>3, <2>1, QueueDomain, CancelQueue DEF QueueOK, QueueMirrored, Sifted
<1>4. CASE Take
  BY <1>1, <1>4, QueueDomain, TakeQueue DEF QueueOK, QueueMirrored
<1>5. CASE ~(\E t \in Tasks : Submit(t)) /\ ~(\E u \in Users : Cancel(u)) /\ ~ Take
  BY <1>1, <1>5, QueueDomain, OtherQueue DEF QueueOK, QueueMirrored
<1> QED BY <1>2, <1>3, <1>4, <1>5

(* The other variables keep their types. *)
LEMMA WorkerFields ==
  ASSUME QueueInv
  PROVE  /\ worker \in WorkerType
         /\ worker.item \in Tasks \cup {NoTask} /\ worker.tries \in 0 .. MaxTries - 1
         /\ worker.run \in {worker.item, NoTask}
         /\ worker.at # "idle" => worker.item \in Tasks
         /\ worker.at = "idle" => worker.item = NoTask
BY DEF QueueInv, TypesInv, WorkerOK, WorkerType

LEMMA IdleOK == Idle \in WorkerType
BY BoundAssumption DEF Idle, WorkerType

LEMMA WorkerStep ==
  ASSUME QueueInv, [Next]_vars
  PROVE  WorkerOK'
<1> DEFINE OK(w) == /\ w \in WorkerType /\ w.run \in {w.item, NoTask}
                    /\ w.item = NoTask => w.at = "idle"
                    /\ w.at = "idle" => w.item = NoTask
<1>1. OK(worker) /\ NoTask \notin Tasks
  BY TaskAssumption DEF QueueInv, TypesInv, WorkerOK
<1>2. OK(Idle)
  BY IdleOK DEF Idle
<1>3. CASE worker' = worker
  BY <1>1, <1>3 DEF WorkerOK
<1>4. CASE worker' = Idle
  BY <1>2, <1>4 DEF WorkerOK
<1>5. CASE Take
  <2>1. worker' = [at |-> "post", item |-> Head(queue), tries |-> 0, run |-> NoTask]
    BY <1>5 DEF Take, Idle
  <2>2. Head(queue) \in Tasks
    BY <1>5, TakeQueue
  <2>3. 0 \in 0 .. MaxTries - 1
    BY BoundAssumption
  <2> QED BY <1>1, <2>1, <2>2, <2>3 DEF WorkerOK, WorkerType
<1>6. CASE Post \/ Refused
  <2>1. \E to \in {"posted", "refused"} : worker' = [worker EXCEPT !.at = to]
    BY <1>6 DEF Post, Refused, Step
  <2>2. worker.at # "idle"
    BY <1>6 DEF Post, Refused
  <2> QED BY <1>1, <2>1, <2>2 DEF WorkerOK, WorkerType
<1>7. CASE Answer
  <2>1. worker' = [worker EXCEPT !.at = "wait", !.run = worker.item] /\ worker.at = "posted"
    BY <1>7 DEF Answer, Step
  <2> QED BY <1>1, <2>1 DEF WorkerOK, WorkerType
<1>8. CASE Completed
  <2>1. worker' = [worker EXCEPT !.at = "deliver"] /\ worker.at = "wait"
    BY <1>8 DEF Completed, Step
  <2> QED BY <1>1, <2>1 DEF WorkerOK, WorkerType
<1>9. CASE GiveUp \/ Breaks \/ RunFailed
  <2>1. worker' = [worker EXCEPT !.at = "report"]
    BY <1>9 DEF GiveUp, Breaks, RunFailed, Fail
  <2>2. worker.at # "idle"
    BY <1>9 DEF GiveUp, Breaks, RunFailed
  <2> QED BY <1>1, <2>1, <2>2 DEF WorkerOK, WorkerType
<1>10. CASE Undelivered
  <2>1. CASE worker.tries + 1 < MaxTries
    <3>1. worker' = [worker EXCEPT !.tries = worker.tries + 1]
      BY <1>10, <2>1 DEF Undelivered
    <3>2. worker.tries + 1 \in 0 .. MaxTries - 1
      BY <2>1, BoundAssumption, WorkerFields
    <3> QED BY <1>1, <3>1, <3>2 DEF WorkerOK, WorkerType
  <2>2. CASE ~(worker.tries + 1 < MaxTries)
    BY <1>4, <1>10, <2>2 DEF Undelivered, Finally
  <2> QED BY <2>1, <2>2
<1>11. CASE Deliver \/ Report \/ BotRestart
  BY <1>4, <1>11 DEF Deliver, Report, BotRestart, Finally
<1>12. CASE UNCHANGED vars \/ \E t \in Tasks : Submit(t) \/ Flush(t) \/ RunEnds(t)
  BY <1>3, <1>12 DEF vars, Submit, Flush, RunEnds
<1>13. CASE \E u \in Users : Message(u)
  BY <1>3, <1>13 DEF Message, Cancel, CancelArrives, CancelAnswered, CancelFails
<1>14. CASE Others \/ ServerRestart \/ Midnight
  BY <1>3, <1>14 DEF Others, ServerRestart, Midnight
<1> HIDE DEF OK
<1> QED BY <1>5, <1>6, <1>7, <1>8, <1>9, <1>10, <1>11, <1>12, <1>13, <1>14
        DEF Next, Work, Create, Await, Send

LEMMA CallStep ==
  ASSUME QueueInv, [Next]_vars
  PROVE  CallOK'
<1>1. /\ marked \in Users \cup {NoUser} /\ call \in [Users -> CallType]
      /\ \A u \in Users : call[u].at # "none" => call[u].run \in Tasks
  BY DEF QueueInv, TypesInv, CallOK
<1>2. NoCall \in CallType /\ NoCall.at = "none"
  BY DEF NoCall, CallType
<1>3. CASE marked' \in Users \cup {NoUser} /\ call' = call
  BY <1>1, <1>3 DEF CallOK
<1>4. ASSUME NEW u \in Users, marked' \in Users \cup {NoUser},
             NEW c \in CallType, c.at # "none" => c.run \in Tasks,
             call' = [call EXCEPT ![u] = c]
      PROVE  CallOK'
  <2>1. call' \in [Users -> CallType]
    BY <1>1, <1>4
  <2>2. \A v \in Users : call'[v] = IF v = u THEN c ELSE call[v]
    BY <1>1, <1>4
  <2> QED BY <1>1, <1>4, <2>1, <2>2 DEF CallOK
<1>5. ASSUME NEW u \in Users, Cancel(u) PROVE CallOK'
  <2> DEFINE c == IF worker.run \in Owned(u) THEN [at |-> "sent", run |-> worker.run] ELSE NoCall
  <2>1. call' = [call EXCEPT ![u] = c] /\ marked' = marked
    BY <1>5 DEF Cancel
  <2>2. c \in CallType /\ (c.at # "none" => c.run \in Tasks)
    BY <1>2 DEF Owned, CallType
  <2> HIDE DEF c
  <2> QED BY <1>1, <1>4, <2>1, <2>2
<1>6. ASSUME NEW u \in Users, CancelArrives(u) PROVE CallOK'
  <2> DEFINE c == [call[u] EXCEPT !.at = "answered"]
  <2>1. call' = [call EXCEPT ![u] = c] /\ marked' = marked /\ call[u].at = "sent"
    BY <1>6 DEF CancelArrives
  <2>2. c \in CallType /\ c.run \in Tasks
    BY <1>1, <2>1 DEF CallType
  <2> HIDE DEF c
  <2> QED BY <1>1, <1>4, <2>1, <2>2
<1>7. ASSUME NEW u \in Users, CancelAnswered(u) \/ CancelFails(u) PROVE CallOK'
  <2>1. call' = [call EXCEPT ![u] = NoCall] /\ marked' \in {marked, u}
    BY <1>7 DEF CancelAnswered, CancelFails
  <2> QED BY <1>1, <1>2, <1>4, <2>1
<1>8. CASE BotRestart
  BY <1>2, <1>8 DEF BotRestart, CallOK
<1>9. CASE Take \/ Create \/ Await \/ Send \/ Report \/ Breaks
  <2>1. marked' \in {marked, NoUser} /\ call' = call
    BY <1>9 DEF Take, Create, Post, Refused, Answer, GiveUp, Await, Completed, RunFailed, Send,
                Deliver, Undelivered, Report, Breaks, Fail, Step, Quiet, Finally
  <2> QED BY <1>1, <1>3, <2>1
<1>10. CASE UNCHANGED vars \/ Others \/ ServerRestart \/ Midnight
            \/ \E t \in Tasks : Submit(t) \/ Flush(t) \/ RunEnds(t)
  BY <1>1, <1>3, <1>10 DEF vars, Others, ServerRestart, Midnight, Submit, Flush, RunEnds
<1> QED BY <1>5, <1>6, <1>7, <1>8, <1>9, <1>10 DEF Next, Message, Work

LEMMA ServerStep ==
  ASSUME QueueInv, [Next]_vars
  PROVE  ServerOK'
<1>1. run \in [Tasks -> RunType] /\ busy \in BOOLEAN
  BY DEF QueueInv, TypesInv, ServerOK
<1>2. {"none", "running", "interrupted", "completed", "failed", "cancelled"} \subseteq RunType
  BY DEF RunType, Failures
<1> USE DEF ServerOK
<1>3. ASSUME NEW u \in Users, CancelArrives(u) PROVE ServerOK'
  BY <1>1, <1>2, <1>3 DEF CancelArrives
<1>4. CASE Post
  BY <1>1, <1>2, <1>4 DEF Post
<1>5. ASSUME NEW t \in Tasks, RunEnds(t) PROVE ServerOK'
  BY <1>1, <1>2, <1>5 DEF RunEnds
<1>6. CASE Others \/ ServerRestart
  BY <1>1, <1>2, <1>6 DEF Others, ServerRestart
<1>7. CASE UNCHANGED vars \/ Midnight \/ BotRestart
           \/ \E t \in Tasks : Submit(t) \/ Flush(t)
  BY <1>1, <1>7 DEF vars, server, Midnight, BotRestart, Submit, Flush
<1>8. ASSUME NEW u \in Users, Cancel(u) \/ CancelAnswered(u) \/ CancelFails(u) PROVE ServerOK'
  BY <1>1, <1>8 DEF server, Cancel, CancelAnswered, CancelFails
<1>9. CASE Take \/ Refused \/ Answer \/ GiveUp \/ Await \/ Breaks
  BY <1>1, <1>9 DEF server, Take, Refused, Answer, GiveUp, Await, Completed, RunFailed, Breaks
<1>10. CASE Send \/ Report
  BY <1>1, <1>10 DEF server, Send, Deliver, Undelivered, Report
<1> QED BY <1>3, <1>4, <1>5, <1>6, <1>7, <1>8, <1>9, <1>10
        DEF Next, Message, Work, Create

(* What Fail does to outcomes and charges. *)
LEMMA FailStep ==
  ASSUME QueueInv, Fail, worker.at # "idle"
  PROVE  /\ worker.item \in Tasks /\ worker' = [worker EXCEPT !.at = "report"]
         /\ \E o \in {"cancelled", "failed"} : outcome' = [outcome EXCEPT ![worker.item] = o]
         /\ \/ charge' = charge /\ refunded' = refunded
            \/ LET u == Owner[worker.item] IN
               /\ charge' = [charge EXCEPT ![u] = Release(u, {worker.item})]
               /\ refunded' = refunded \cup {worker.item}
<1>1. worker.item \in Tasks
  BY WorkerFields
<1>2. worker' = [worker EXCEPT !.at = "report"]
  BY DEF Fail
<1>3. \E o \in {"cancelled", "failed"} : outcome' = [outcome EXCEPT ![worker.item] = o]
  BY DEF Fail
<1>4. \/ charge' = charge /\ refunded' = refunded
      \/ LET u == Owner[worker.item] IN
         /\ charge' = [charge EXCEPT ![u] = Release(u, {worker.item})]
         /\ refunded' = refunded \cup {worker.item}
  BY DEF Fail
<1> QED BY <1>1, <1>2, <1>3, <1>4

LEMMA HistoryStep ==
  ASSUME QueueInv, [Next]_vars
  PROVE  HistoryOK'
<1>1. ticket \in [Tasks -> Nat] /\ outcome \in [Tasks -> OutcomeType]
  BY DEF QueueInv, TypesInv, HistoryOK
<1>2. {"open", "shown", "failed", "cancelled", "withdrawn", "lost"} \subseteq OutcomeType
  BY DEF OutcomeType
<1> USE DEF HistoryOK
<1>3. ASSUME NEW t \in Tasks, Submit(t) PROVE HistoryOK'
  <2>1. IsFiniteSet(Accepted)
    BY TaskAssumption, FS_Subset DEF Accepted
  <2>2. Cardinality(Accepted) \in Nat
    BY <2>1, FS_CardinalityType
  <2> QED BY <1>1, <1>3, <2>2 DEF Submit
<1>4. ASSUME NEW u \in Users, Cancel(u) PROVE HistoryOK'
  BY <1>1, <1>2, <1>4 DEF Cancel
<1>5. CASE BotRestart
  BY <1>1, <1>2, <1>5 DEF BotRestart
<1>6. CASE GiveUp \/ Breaks \/ RunFailed
  <2>1. Fail /\ worker.at # "idle" /\ ticket' = ticket
    BY <1>6 DEF GiveUp, Breaks, RunFailed, Fail, Quiet
  <2> QED BY <1>1, <1>2, <2>1, FailStep
<1>7. CASE Deliver
  BY <1>1, <1>2, <1>7 DEF Deliver, Quiet
<1>8. ASSUME NEW t \in Tasks, Flush(t) \/ RunEnds(t) PROVE HistoryOK'
  BY <1>1, <1>2, <1>8 DEF Flush, RunEnds, history
<1>9. CASE Take \/ Post \/ Refused \/ Answer \/ Completed \/ Undelivered \/ Report
  BY <1>1, <1>9 DEF Take, Post, Refused, Answer, Completed, Undelivered, Report, Step, Quiet,
                    history
<1>10. CASE UNCHANGED vars \/ Others \/ ServerRestart \/ Midnight
  BY <1>1, <1>10 DEF vars, Others, ServerRestart, Midnight, history
<1>11. ASSUME NEW u \in Users, CancelArrives(u) \/ CancelAnswered(u) \/ CancelFails(u)
       PROVE  HistoryOK'
  BY <1>1, <1>11 DEF CancelArrives, CancelAnswered, CancelFails, history
<1> QED BY <1>3, <1>4, <1>5, <1>6, <1>7, <1>8, <1>9, <1>10, <1>11
        DEF Next, Message, Work, Create, Await, Send

LEMMA ReleaseOK ==
  ASSUME QueueInv, NEW u \in Users, NEW T, IsFiniteSet(T)
  PROVE  Release(u, T) \in 0 .. Limit
<1>1. Cardinality(T) \in Nat /\ charge[u] \in 0 .. Limit /\ Limit \in Nat
  BY FS_CardinalityType, BoundAssumption DEF QueueInv, TypesInv, ChargeOK
<1> QED BY <1>1 DEF Release

LEMMA ChargeTypes ==
  ASSUME QueueInv, [Next]_vars
  PROVE  ChargeOK'
<1>1. /\ charge \in [Users -> 0 .. Limit] /\ day \in 0 .. MaxDays
      /\ spool \subseteq Tasks /\ refunded \subseteq Tasks
  BY DEF QueueInv, TypesInv, ChargeOK
<1>2. Limit \in Nat /\ MaxDays \in Nat
  BY BoundAssumption
<1> USE DEF ChargeOK
<1>3. ASSUME NEW t \in Tasks, Submit(t) PROVE ChargeOK'
  <2>1. Owner[t] \in Users /\ charge[Owner[t]] + 1 \in 0 .. Limit
    BY <1>1, <1>2, <1>3, TaskAssumption DEF Submit
  <2>2. charge' = [charge EXCEPT ![Owner[t]] = charge[Owner[t]] + 1]
        /\ day' = day /\ spool' = spool /\ refunded' = refunded
    BY <1>3 DEF Submit
  <2> QED BY <1>1, <2>1, <2>2
<1>4. ASSUME NEW u \in Users, Cancel(u) PROVE ChargeOK'
  <2>1. Waiting(u) \subseteq Tasks /\ IsFiniteSet(Waiting(u))
    BY WaitingTasks, TaskAssumption, FS_Subset
  <2>2. Release(u, Waiting(u)) \in 0 .. Limit
    BY <2>1, ReleaseOK
  <2>3. charge' = [charge EXCEPT ![u] = Release(u, Waiting(u))]
        /\ day' = day /\ spool' = spool /\ refunded' = refunded \cup Waiting(u)
    BY <1>4 DEF Cancel
  <2> QED BY <1>1, <2>1, <2>2, <2>3
<1>5. CASE GiveUp \/ Breaks \/ RunFailed
  <2>1. Fail /\ worker.at # "idle" /\ day' = day /\ spool' = spool
    BY <1>5 DEF GiveUp, Breaks, RunFailed, Fail, Quiet
  <2>2. worker.item \in Tasks /\ Owner[worker.item] \in Users /\ IsFiniteSet({worker.item})
    BY <2>1, FailStep, TaskAssumption, FS_Singleton
  <2>3. Release(Owner[worker.item], {worker.item}) \in 0 .. Limit
    BY <2>2, ReleaseOK
  <2> QED BY <1>1, <2>1, <2>2, <2>3, FailStep
<1>6. CASE Undelivered
  <2>1. worker.item \in Tasks
    BY <1>6, WorkerFields DEF Undelivered
  <2> QED BY <1>1, <1>6, <2>1 DEF Undelivered, history
<1>7. CASE Midnight
  BY <1>1, <1>2, <1>7 DEF Midnight, history
<1>8. ASSUME NEW t \in Tasks, Flush(t) \/ RunEnds(t) PROVE ChargeOK'
  BY <1>1, <1>8 DEF Flush, RunEnds, history
<1>9. CASE Take \/ Post \/ Refused \/ Answer \/ Completed \/ Deliver \/ Report
  BY <1>1, <1>9 DEF Take, Post, Refused, Answer, Completed, Deliver, Report, Step, Quiet,
                    history
<1>10. CASE UNCHANGED vars \/ Others \/ ServerRestart \/ BotRestart
  BY <1>1, <1>10 DEF vars, Others, ServerRestart, BotRestart, history
<1>11. ASSUME NEW u \in Users, CancelArrives(u) \/ CancelAnswered(u) \/ CancelFails(u)
       PROVE  ChargeOK'
  BY <1>1, <1>11 DEF CancelArrives, CancelAnswered, CancelFails, history
<1> QED BY <1>3, <1>4, <1>5, <1>6, <1>7, <1>8, <1>9, <1>10, <1>11
        DEF Next, Message, Work, Create, Await, Send

(* How the item of the worker changes: it keeps it, drops it, or takes the
   first of the queue. *)
LEMMA ItemStep ==
  ASSUME QueueInv, [Next]_vars, ~ Take
  PROVE  worker'.item \in {worker.item, NoTask}
<1>1. worker \in WorkerType
  BY WorkerFields
<1>2. CASE worker' = worker \/ worker' = Idle
  BY <1>2 DEF Idle
<1>3. CASE Create \/ Await \/ Breaks
  <2>1. \E at \in {"posted", "refused", "deliver", "report"} :
          worker' = [worker EXCEPT !.at = at]
          \/ worker' = [worker EXCEPT !.at = "wait", !.run = worker.item]
    BY <1>3 DEF Create, Post, Refused, Answer, GiveUp, Await, Completed, RunFailed, Breaks,
                Fail, Step
  <2> QED BY <1>1, <2>1 DEF WorkerType
<1>4. CASE Undelivered
  <2>1. worker' = [worker EXCEPT !.tries = worker.tries + 1] \/ worker' = Idle
    BY <1>4 DEF Undelivered, Finally
  <2> QED BY <1>1, <1>2, <2>1 DEF WorkerType
<1>5. CASE Deliver \/ Report \/ BotRestart
  BY <1>2, <1>5 DEF Deliver, Report, BotRestart, Finally
<1>6. CASE UNCHANGED vars \/ Others \/ ServerRestart \/ Midnight
  BY <1>2, <1>6 DEF vars, Others, ServerRestart, Midnight
<1>7. CASE \E u \in Users : Message(u)
  BY <1>2, <1>7 DEF Message, Cancel, CancelArrives, CancelAnswered, CancelFails
<1>8. CASE \E t \in Tasks : Submit(t) \/ Flush(t) \/ RunEnds(t)
  BY <1>2, <1>8 DEF Submit, Flush, RunEnds
<1> QED BY <1>3, <1>4, <1>5, <1>6, <1>7, <1>8 DEF Next, Work, Send

(* Acceptance is for good, and gives the next ticket. *)
LEMMA AcceptStep ==
  ASSUME QueueInv, NEW t \in Tasks, Submit(t)
  PROVE  /\ t \notin Accepted /\ Accepted' = Accepted \cup {t}
         /\ Cardinality(Accepted) \in Nat
         /\ Cardinality(Accepted') = Cardinality(Accepted) + 1
         /\ ticket'[t] = Cardinality(Accepted) + 1
         /\ \A x \in Tasks : x # t => ticket'[x] = ticket[x]
<1>1. IsFiniteSet(Accepted)
  BY TaskAssumption, FS_Subset DEF Accepted
<1>2. Cardinality(Accepted) \in Nat
  BY <1>1, FS_CardinalityType
<1>3. ticket \in [Tasks -> Nat] /\ t \notin Accepted
      /\ ticket' = [ticket EXCEPT ![t] = Cardinality(Accepted) + 1]
  BY QueueDomain DEF Submit
<1>4. ticket'[t] = Cardinality(Accepted) + 1 /\ \A x \in Tasks : x # t => ticket'[x] = ticket[x]
  BY <1>3
<1>5. Accepted' = Accepted \cup {t}
  BY <1>2, <1>3, <1>4 DEF Accepted
<1>6. Cardinality(Accepted \cup {t}) = Cardinality(Accepted) + 1
  BY <1>1, <1>3, FS_AddElement
<1> QED BY <1>2, <1>3, <1>4, <1>5, <1>6

(* The tickets tell the order of acceptance, in the queue and beyond.      *)
LEMMA OrderStep ==
  ASSUME QueueInv, [Next]_vars
  PROVE  TicketsInv' /\ OrderInv'
<1>1. /\ \A t \in Tasks : ticket[t] <= Cardinality(Accepted)
      /\ \A i \in 1 .. Len(queue) : queue[i] \in Accepted
      /\ worker.item # NoTask => worker.item \in Accepted
      /\ worker.item # NoTask =>
           \A i \in 1 .. Len(queue) : ticket[worker.item] < ticket[queue[i]]
  BY DEF QueueInv, TicketsInv, OrderInv
<1>2. /\ Len(queue) \in Nat /\ \A i \in 1 .. Len(queue) : queue[i] \in Tasks
      /\ Rises(ticket, queue) /\ ticket \in [Tasks -> Nat]
      /\ worker.item \in Tasks \cup {NoTask}
  BY QueueDomain, WorkerFields
<1>3. ASSUME NEW t \in Tasks, Submit(t) PROVE TicketsInv' /\ OrderInv'
  <2>1. worker' = worker
    BY <1>3 DEF Submit
  <2>2. /\ Len(queue') = Len(queue) + 1 /\ queue'[Len(queue) + 1] = t
        /\ \A i \in 1 .. Len(queue) : queue'[i] = queue[i]
    BY <1>3, SubmitQueue
  <2>3. /\ t \notin Accepted /\ Accepted' = Accepted \cup {t}
        /\ Cardinality(Accepted) \in Nat
        /\ Cardinality(Accepted') = Cardinality(Accepted) + 1
        /\ ticket'[t] = Cardinality(Accepted) + 1
        /\ \A x \in Tasks : x # t => ticket'[x] = ticket[x]
    BY <1>3, AcceptStep
  <2>4. \A x \in Accepted : x \in Tasks /\ x # t /\ ticket'[x] = ticket[x]
                            /\ ticket'[x] < ticket'[t]
    BY <1>1, <1>2, <2>3 DEF Accepted
  <2>5. TicketsInv'
    <3>1. \A x \in Tasks : ticket'[x] <= Cardinality(Accepted')
      BY <1>1, <1>2, <2>3
    <3>2. \A i \in 1 .. Len(queue') : queue'[i] \in Accepted'
      BY <1>1, <1>2, <2>2, <2>3
    <3> QED BY <1>1, <2>1, <2>3, <3>1, <3>2 DEF TicketsInv
  <2>6. Rises(ticket', queue')
    <3> SUFFICES ASSUME NEW i \in 1 .. Len(queue'), NEW j \in 1 .. Len(queue'), i < j
                 PROVE  ticket'[queue'[i]] < ticket'[queue'[j]]
      BY DEF Rises
    <3>1. i \in 1 .. Len(queue) /\ queue'[i] = queue[i] /\ queue[i] \in Accepted
      BY <1>1, <1>2, <2>2
    <3>2. CASE j = Len(queue) + 1
      BY <2>2, <2>4, <3>1, <3>2
    <3>3. CASE j # Len(queue) + 1
      <4>1. j \in 1 .. Len(queue) /\ queue'[j] = queue[j] /\ queue[j] \in Accepted
        BY <1>1, <1>2, <2>2, <3>3
      <4>2. ticket[queue[i]] < ticket[queue[j]]
        BY <1>2, <3>1, <4>1 DEF Rises
      <4> QED BY <2>4, <3>1, <4>1, <4>2
    <3> QED BY <3>2, <3>3
  <2>7. ASSUME worker.item # NoTask, NEW i \in 1 .. Len(queue')
        PROVE  ticket'[worker.item] < ticket'[queue'[i]]
    <3>1. CASE i = Len(queue) + 1
      BY <1>1, <2>2, <2>4, <2>7, <3>1
    <3>2. CASE i # Len(queue) + 1
      <4>1. i \in 1 .. Len(queue) /\ queue'[i] = queue[i]
        BY <1>2, <2>2, <3>2
      <4> QED BY <1>1, <2>4, <2>7, <4>1
    <3> QED BY <3>1, <3>2
  <2> QED BY <2>1, <2>5, <2>6, <2>7 DEF OrderInv
<1>4. ASSUME NEW u \in Users, Cancel(u) PROVE TicketsInv' /\ OrderInv'
  <2>1. worker' = worker /\ ticket' = ticket
    BY <1>4 DEF Cancel
  <2>2. Accepted' = Accepted
    BY <2>1 DEF Accepted
  <2>3. Rises(ticket, queue')
        /\ \A i \in 1 .. Len(queue') : \E j \in 1 .. Len(queue) : queue[j] = queue'[i]
    BY <1>4, CancelQueue DEF Sifted
  <2> QED BY <1>1, <2>1, <2>2, <2>3 DEF TicketsInv, OrderInv
<1>5. CASE Take
  <2>1. /\ Len(queue') = Len(queue) - 1 /\ 1 <= Len(queue)
        /\ \A i \in 1 .. Len(queue') : queue'[i] = queue[i + 1]
        /\ Head(queue) = queue[1]
    BY <1>5, TakeQueue
  <2>2. ticket' = ticket /\ worker'.item = queue[1]
    BY <1>5, <2>1 DEF Take, Idle, history
  <2>3. Accepted' = Accepted
    BY <2>2 DEF Accepted
  <2>4. \A i \in 1 .. Len(queue') : i + 1 \in 1 .. Len(queue) /\ 1 \in 1 .. Len(queue) /\ 1 < i + 1
    BY <1>2, <2>1
  <2>5. TicketsInv'
    BY <1>1, <1>2, <2>1, <2>2, <2>3, <2>4 DEF TicketsInv
  <2>6. Rises(ticket', queue')
    <3> SUFFICES ASSUME NEW i \in 1 .. Len(queue'), NEW j \in 1 .. Len(queue'), i < j
                 PROVE  ticket[queue[i + 1]] < ticket[queue[j + 1]]
      BY <2>1, <2>2 DEF Rises
    <3>1. i + 1 \in 1 .. Len(queue) /\ j + 1 \in 1 .. Len(queue) /\ i + 1 < j + 1
      BY <2>4
    <3> QED BY <1>2, <3>1 DEF Rises
  <2>7. ASSUME NEW i \in 1 .. Len(queue') PROVE ticket[queue[1]] < ticket[queue[i + 1]]
    BY <1>2, <2>4 DEF Rises
  <2> QED BY <2>1, <2>2, <2>5, <2>6, <2>7 DEF OrderInv
<1>6. CASE ~(\E t \in Tasks : Submit(t)) /\ ~(\E u \in Users : Cancel(u)) /\ ~ Take
  <2>1. queue' = queue /\ ticket' = ticket
    BY <1>6, OtherQueue
  <2>2. Accepted' = Accepted
    BY <2>1 DEF Accepted
  <2>3. worker'.item \in {worker.item, NoTask}
    BY <1>6, ItemStep
  <2> QED BY <1>1, <1>2, <2>1, <2>2, <2>3 DEF TicketsInv, OrderInv
<1> QED BY <1>3, <1>4, <1>5, <1>6

(* Runs and refunds.                                                       *)
Early == {"post", "refused"}
Unsettled == {"post", "refused", "posted", "wait"}

(* A worker is at an early step only after an earlier one for the same task. *)
LEMMA AtStep ==
  ASSUME QueueInv, [Next]_vars, ~ Take
  PROVE  /\ worker'.at \in Early => worker.at \in Early /\ worker'.item = worker.item
         /\ worker'.at \in Unsettled => worker.at \in Unsettled /\ worker'.item = worker.item
<1> USE DEF Early, Unsettled
<1>1. worker \in WorkerType
  BY WorkerFields
<1>2. CASE worker' = worker \/ worker' = Idle
  BY <1>2 DEF Idle
<1>3. CASE Post \/ Answer \/ Completed
  <2>1. CASE Post
    <3>1. worker' = [worker EXCEPT !.at = "posted"] /\ worker.at \in {"post", "refused"}
      BY <2>1 DEF Post, Step
    <3> QED BY <1>1, <3>1 DEF WorkerType
  <2>2. CASE Answer
    <3>1. worker' = [worker EXCEPT !.at = "wait", !.run = worker.item] /\ worker.at = "posted"
      BY <2>2 DEF Answer, Step
    <3> QED BY <1>1, <3>1 DEF WorkerType
  <2>3. CASE Completed
    <3>1. worker' = [worker EXCEPT !.at = "deliver"]
      BY <2>3 DEF Completed, Step
    <3> QED BY <1>1, <3>1 DEF WorkerType
  <2> QED BY <1>3, <2>1, <2>2, <2>3
<1>4. CASE Refused
  <2>1. worker' = [worker EXCEPT !.at = "refused"] /\ worker.at = "post"
    BY <1>4 DEF Refused, Step
  <2> QED BY <1>1, <2>1 DEF WorkerType
<1>5. CASE GiveUp \/ Breaks \/ RunFailed
  <2>1. worker' = [worker EXCEPT !.at = "report"]
    BY <1>5 DEF GiveUp, Breaks, RunFailed, Fail
  <2> QED BY <1>1, <2>1 DEF WorkerType
<1>6. CASE Undelivered
  <2>1. (worker' = [worker EXCEPT !.tries = worker.tries + 1] /\ worker.at = "deliver")
        \/ worker' = Idle
    BY <1>6 DEF Undelivered, Finally
  <2> QED BY <1>1, <1>2, <2>1 DEF WorkerType
<1>7. CASE Deliver \/ Report \/ BotRestart
  BY <1>2, <1>7 DEF Deliver, Report, BotRestart, Finally
<1>8. CASE UNCHANGED vars \/ Others \/ ServerRestart \/ Midnight
  BY <1>2, <1>8 DEF vars, Others, ServerRestart, Midnight
<1>9. CASE \E u \in Users : Message(u)
  BY <1>2, <1>9 DEF Message, Cancel, CancelArrives, CancelAnswered, CancelFails
<1>10. CASE \E t \in Tasks : Submit(t) \/ Flush(t) \/ RunEnds(t)
  BY <1>2, <1>10 DEF Submit, Flush, RunEnds
<1> QED BY <1>3, <1>4, <1>5, <1>6, <1>7, <1>8, <1>9, <1>10
        DEF Next, Work, Create, Await, Send

(* Who waits after a step waited before, or has just been accepted. *)
LEMMA WaitsStep ==
  ASSUME QueueInv, [Next]_vars, NEW t \in Tasks
  PROVE  /\ Waits(t)' => Waits(t) \/ Submit(t)
         /\ Unpaid(t)' => Unpaid(t) \/ Submit(t)
<1> USE DEF Waits, Unpaid
<1>1. Len(queue) \in Nat
  BY QueueDomain
<1>2. ASSUME NEW x \in Tasks, Submit(x)
      PROVE  (Waits(t)' => Waits(t) \/ Submit(t)) /\ (Unpaid(t)' => Unpaid(t) \/ Submit(t))
  <2>1. worker' = worker
    BY <1>2 DEF Submit
  <2>2. \A i \in 1 .. Len(queue') :
          (i \in 1 .. Len(queue) /\ queue'[i] = queue[i]) \/ queue'[i] = x
    BY <1>1, <1>2, SubmitQueue
  <2> QED BY <1>2, <2>1, <2>2
<1>3. ASSUME NEW u \in Users, Cancel(u)
      PROVE  (Waits(t)' => Waits(t)) /\ (Unpaid(t)' => Unpaid(t))
  <2>1. worker' = worker
    BY <1>3 DEF Cancel
  <2>2. \A i \in 1 .. Len(queue') : \E j \in 1 .. Len(queue) : queue[j] = queue'[i]
    BY <1>3, CancelQueue DEF Sifted
  <2> QED BY <2>1, <2>2
<1>4. CASE Take
  <2>1. /\ Len(queue') = Len(queue) - 1 /\ 1 <= Len(queue)
        /\ \A i \in 1 .. Len(queue') : queue'[i] = queue[i + 1]
        /\ Head(queue) = queue[1]
    BY <1>4, TakeQueue
  <2>2. worker'.item = queue[1]
    BY <1>4, <2>1 DEF Take, Idle
  <2>3. \A i \in 1 .. Len(queue') : i + 1 \in 1 .. Len(queue)
    BY <1>1, <2>1
  <2>4. 1 \in 1 .. Len(queue)
    BY <1>1, <2>1
  <2> QED BY <2>1, <2>2, <2>3, <2>4
<1>5. CASE ~(\E x \in Tasks : Submit(x)) /\ ~(\E u \in Users : Cancel(u)) /\ ~ Take
  <2>1. queue' = queue
    BY <1>5, OtherQueue
  <2> QED BY <1>5, <2>1, AtStep DEF Early, Unsettled
<1> QED BY <1>2, <1>3, <1>4, <1>5

(* The state of a run changes while it runs, or begins with Post. *)
LEMMA RunChanges ==
  ASSUME QueueInv, [Next]_vars, NEW t \in Tasks
  PROVE  run'[t] = run[t] \/ run[t] = "running" \/ (Post /\ t = worker.item)
<1>1. run \in [Tasks -> RunType]
  BY DEF QueueInv, TypesInv, ServerOK
<1>2. ASSUME NEW u \in Users, CancelArrives(u)
      PROVE  run'[t] = run[t] \/ run[t] = "running"
  BY <1>1, <1>2 DEF CancelArrives
<1>3. CASE Post
  BY <1>1, <1>3 DEF Post
<1>4. ASSUME NEW x \in Tasks, RunEnds(x)
      PROVE  run'[t] = run[t] \/ run[t] = "running"
  BY <1>1, <1>4 DEF RunEnds
<1>5. CASE ServerRestart
  BY <1>1, <1>5 DEF ServerRestart
<1>6. CASE UNCHANGED vars \/ Others \/ Midnight \/ BotRestart
           \/ \E x \in Tasks : Submit(x) \/ Flush(x)
  BY <1>6 DEF vars, server, Others, Midnight, BotRestart, Submit, Flush
<1>7. ASSUME NEW u \in Users, Cancel(u) \/ CancelAnswered(u) \/ CancelFails(u)
      PROVE  run' = run
  BY <1>7 DEF server, Cancel, CancelAnswered, CancelFails
<1>8. CASE Take \/ Refused \/ Answer \/ GiveUp \/ Await \/ Breaks
  BY <1>8 DEF server, Take, Refused, Answer, GiveUp, Await, Completed, RunFailed, Breaks
<1>9. CASE Send \/ Report
  BY <1>9 DEF server, Send, Deliver, Undelivered, Report
<1> QED BY <1>2, <1>3, <1>4, <1>5, <1>6, <1>7, <1>8, <1>9 DEF Next, Message, Work, Create

(* A task is withdrawn only by a cancel that finds it in the queue. *)
LEMMA WithdrawStep ==
  ASSUME QueueInv, [Next]_vars, NEW t \in Tasks, outcome'[t] = "withdrawn"
  PROVE  outcome[t] = "withdrawn" \/ \E u \in Users : Cancel(u) /\ t \in Waiting(u)
<1>1. outcome \in [Tasks -> OutcomeType]
  BY DEF QueueInv, TypesInv, HistoryOK
<1>2. ASSUME NEW u \in Users, Cancel(u), t \notin Waiting(u) PROVE outcome[t] = "withdrawn"
  BY <1>2 DEF Cancel
<1>3. CASE BotRestart
  BY <1>1, <1>3 DEF BotRestart
<1>4. CASE GiveUp \/ Breaks \/ RunFailed
  <2>1. Fail /\ worker.at # "idle"
    BY <1>4 DEF GiveUp, Breaks, RunFailed
  <2> QED BY <1>1, <2>1, FailStep
<1>5. CASE Deliver
  BY <1>1, <1>5 DEF Deliver
<1>6. ASSUME NEW x \in Tasks, Flush(x) \/ RunEnds(x) PROVE outcome[t] = "withdrawn"
  BY <1>1, <1>6 DEF Flush, RunEnds, history
<1>7. CASE Take \/ Post \/ Refused \/ Answer \/ Completed \/ Undelivered \/ Report
  BY <1>7 DEF Take, Post, Refused, Answer, Completed, Undelivered, Report, Step, Quiet, history
<1>8. CASE UNCHANGED vars \/ Others \/ ServerRestart \/ Midnight \/ \E x \in Tasks : Submit(x)
  BY <1>8 DEF vars, Others, ServerRestart, Midnight, Submit, history
<1>9. ASSUME NEW u \in Users, CancelArrives(u) \/ CancelAnswered(u) \/ CancelFails(u)
      PROVE  outcome[t] = "withdrawn"
  BY <1>9 DEF CancelArrives, CancelAnswered, CancelFails, history
<1> QED BY <1>2, <1>3, <1>4, <1>5, <1>6, <1>7, <1>8, <1>9
        DEF Next, Message, Work, Create, Await, Send

(* A withdrawn task is nowhere any more. *)
LEMMA WithdrawnGone ==
  ASSUME QueueInv, NEW u \in Users, Cancel(u), NEW t \in Waiting(u)
  PROVE  /\ t \in Accepted /\ Waits(t) /\ Unpaid(t) /\ Accepted' = Accepted
         /\ ~ Waits(t)' /\ ~ Unpaid(t)'
<1>1. PICK i \in 1 .. Len(queue) : queue[i] = t
  BY WaitingTasks
<1>2. t \in Tasks /\ t \in Accepted /\ Waits(t) /\ Unpaid(t)
  BY <1>1, QueueDomain DEF QueueInv, TicketsInv, Waits, Unpaid
<1>3. worker' = worker /\ ticket' = ticket
  BY DEF Cancel
<1>4. \A j \in 1 .. Len(queue') : queue'[j] # t
  BY CancelQueue DEF Sifted
<1>5. worker.item # t
  <2> SUFFICES ASSUME worker.item = t PROVE FALSE
    OBVIOUS
  <2>1. worker.item # NoTask /\ ticket[t] \in Nat
    BY <1>2, TaskAssumption, QueueDomain
  <2>2. ticket[t] < ticket[t]
    BY <1>1, <2>1 DEF QueueInv, OrderInv
  <2> QED BY <2>1, <2>2
<1> QED BY <1>2, <1>3, <1>4, <1>5 DEF Waits, Unpaid, Accepted

LEMMA AcceptedStays ==
  ASSUME QueueInv, [Next]_vars, NEW t \in Tasks
  PROVE  /\ t \in Accepted => t \in Accepted'
         /\ t \in Accepted' => t \in Accepted \/ Submit(t)
<1>1. ASSUME NEW x \in Tasks, Submit(x) PROVE Accepted' = Accepted \cup {x}
  BY <1>1, AcceptStep
<1>2. CASE ticket' = ticket
  BY <1>2 DEF Accepted
<1>3. ticket' = ticket \/ \E x \in Tasks : Submit(x)
  <2>1. CASE Take
    BY <2>1 DEF Take, history
  <2>2. CASE \E u \in Users : Cancel(u)
    BY <2>2 DEF Cancel
  <2> QED BY <2>1, <2>2, OtherQueue
<1> QED BY <1>1, <1>2, <1>3

LEMMA RunStep ==
  ASSUME QueueInv, [Next]_vars
  PROVE  RunInv'
<1> SUFFICES ASSUME NEW t \in Tasks
             PROVE  /\ (Waits(t) \/ t \notin Accepted)' => run'[t] = "none"
                    /\ outcome'[t] = "withdrawn" =>
                         run'[t] = "none" /\ t \in Accepted' /\ ~Waits(t)'
  BY DEF RunInv
<1>1. /\ Waits(t) \/ t \notin Accepted => run[t] = "none"
      /\ outcome[t] = "withdrawn" => run[t] = "none" /\ t \in Accepted /\ ~Waits(t)
  BY DEF QueueInv, RunInv
<1>2. t \notin Accepted' => t \notin Accepted
  BY AcceptedStays
<1>3. Submit(t) => t \notin Accepted
  BY DEF Submit
<1>4. CASE Post /\ t = worker.item
  <2>1. worker.at \in {"post", "refused"} /\ queue' = queue /\ outcome' = outcome
        /\ worker' = [worker EXCEPT !.at = "posted"]
    BY <1>4 DEF Post, Step, Quiet
  <2>2. Waits(t)
    BY <1>4, <2>1 DEF Waits
  <2>3. t # NoTask /\ ticket[t] \in Nat
    BY TaskAssumption, QueueDomain
  <2>4. \A i \in 1 .. Len(queue) : queue[i] # t
    <3>1. \A i \in 1 .. Len(queue) : ticket[t] < ticket[queue[i]]
      BY <1>4, <2>3 DEF QueueInv, OrderInv
    <3> QED BY <2>3, <3>1
  <2>5. worker'.at = "posted"
    BY <2>1, WorkerFields DEF WorkerType
  <2>6. ~ Waits(t)'
    BY <2>1, <2>4, <2>5 DEF Waits
  <2>7. t \in Accepted
    BY <1>4, <2>3 DEF QueueInv, TicketsInv
  <2>8. t \in Accepted'
    BY <2>7, AcceptedStays
  <2> QED BY <1>1, <2>1, <2>2, <2>6, <2>8
<1>5. CASE ~(Post /\ t = worker.item)
  <2>1. run[t] = "none" => run'[t] = "none"
    BY <1>5, RunChanges
  <2>2. Waits(t)' => run[t] = "none"
    BY <1>1, <1>3, WaitsStep
  <2>3. ASSUME outcome'[t] = "withdrawn"
        PROVE  run'[t] = "none" /\ t \in Accepted' /\ ~Waits(t)'
    <3>1. CASE outcome[t] = "withdrawn"
      BY <1>1, <1>3, <2>1, <3>1, AcceptedStays, WaitsStep
    <3>2. ASSUME NEW u \in Users, Cancel(u), t \in Waiting(u)
          PROVE  run'[t] = "none" /\ t \in Accepted' /\ ~Waits(t)'
      BY <1>1, <2>1, <3>2, WithdrawnGone
    <3> QED BY <2>3, <3>1, <3>2, WithdrawStep
  <2> QED BY <1>1, <1>2, <2>1, <2>2, <2>3
<1> QED BY <1>4, <1>5

(* Releasing tasks that are paid for lowers the charge by exactly them. *)
LEMMA ReleasePaid ==
  ASSUME QueueInv, day = 0, NEW u \in Users, NEW T \in SUBSET Paying(u)
  PROVE  Release(u, T) = Cardinality(Paying(u) \ T)
<1>1. IsFiniteSet(Paying(u)) /\ IsFiniteSet(T)
  BY TaskAssumption, FS_Subset DEF Paying, Accepted
<1>2. Cardinality(Paying(u) \ T) = Cardinality(Paying(u)) - Cardinality(Paying(u) \cap T)
  BY <1>1, FS_Difference
<1>3. Paying(u) \cap T = T
  OBVIOUS
<1>4. charge[u] = Cardinality(Paying(u))
  BY DEF QueueInv, ChargeInv
<1>5. Cardinality(T) \in Nat /\ Cardinality(Paying(u)) \in Nat
  BY <1>1, FS_CardinalityType
<1>6. Cardinality(T) <= Cardinality(Paying(u))
  BY <1>1, FS_Subset
<1>7. Release(u, T) = Cardinality(Paying(u)) - Cardinality(T)
  BY <1>4, <1>5, <1>6 DEF Release
<1>8. Cardinality(Paying(u) \ T) = Cardinality(Paying(u)) - Cardinality(T)
  BY <1>2, <1>3
<1> QED BY <1>7, <1>8

(* A refund of unpaid tasks of u, and the charge with it. *)
LEMMA RefundStep ==
  ASSUME QueueInv, [Next]_vars, NEW u \in Users, NEW T,
         refunded' = refunded \cup T, Accepted' = Accepted, day' = day,
         charge' = [charge EXCEPT ![u] = Release(u, T)],
         \A t \in T : t \in Tasks /\ Owner[t] = u /\ t \in Accepted /\ Unpaid(t) /\ ~Unpaid(t)'
  PROVE  ChargeInv'
<1>1. /\ refunded \subseteq Accepted /\ \A t \in refunded : ~Unpaid(t)
      /\ day = 0 => \A v \in Users : charge[v] = Cardinality(Paying(v))
  BY DEF QueueInv, ChargeInv
<1>2. charge \in [Users -> 0 .. Limit]
  BY DEF QueueInv, TypesInv, ChargeOK
<1>3. ASSUME NEW t \in refunded PROVE ~Unpaid(t)'
  <2>1. t \in Tasks /\ t \in Accepted /\ ~Unpaid(t)
    BY <1>1 DEF Accepted
  <2>2. ~ Submit(t)
    BY <2>1 DEF Submit
  <2> QED BY <2>1, <2>2, WaitsStep
<1>4. ASSUME day' = 0, NEW v \in Users PROVE charge'[v] = Cardinality(Paying(v)')
  <2>1. CASE v = u
    <3>1. T \subseteq Paying(u)
      BY <1>1 DEF Paying, Owned
    <3>2. Paying(u)' = Paying(u) \ T
      BY DEF Paying
    <3>3. Release(u, T) = Cardinality(Paying(u) \ T)
      BY <1>4, <3>1, ReleasePaid
    <3>4. charge'[u] = Release(u, T)
      BY <1>2
    <3>5. Cardinality(Paying(u)') = Cardinality(Paying(u) \ T)
      BY <3>2
    <3> QED BY <2>1, <3>3, <3>4, <3>5
  <2>2. CASE v # u
    <3>1. Paying(v)' = Paying(v)
      BY <2>2 DEF Paying, Owned
    <3>2. charge'[v] = charge[v]
      BY <1>2, <2>2
    <3>3. Cardinality(Paying(v)') = Cardinality(Paying(v))
      BY <3>1
    <3> QED BY <1>1, <1>4, <3>2, <3>3
  <2> QED BY <2>1, <2>2
<1>5. refunded' \subseteq Accepted'
  BY <1>1
<1>6. \A t \in refunded' : ~Unpaid(t)'
  BY <1>3
<1> QED BY <1>4, <1>5, <1>6 DEF ChargeInv

LEMMA ChargeStep ==
  ASSUME QueueInv, [Next]_vars
  PROVE  ChargeInv'
<1>1. /\ refunded \subseteq Accepted /\ \A t \in refunded : ~Unpaid(t)
      /\ day = 0 => \A v \in Users : charge[v] = Cardinality(Paying(v))
  BY DEF QueueInv, ChargeInv
<1>2. charge \in [Users -> 0 .. Limit] /\ day \in Nat
  BY BoundAssumption DEF QueueInv, TypesInv, ChargeOK
<1>3. ASSUME NEW t \in refunded PROVE ~Unpaid(t)' /\ t \in Accepted'
  <2>1. t \in Tasks /\ t \in Accepted /\ ~Unpaid(t)
    BY <1>1 DEF Accepted
  <2>2. ~ Submit(t)
    BY <2>1 DEF Submit
  <2> QED BY <2>1, <2>2, WaitsStep, AcceptedStays
<1>4. ASSUME NEW t \in Tasks, Submit(t) PROVE ChargeInv'
  <2>1. Accepted' = Accepted \cup {t} /\ t \notin Accepted
    BY <1>4, AcceptStep
  <2>2. refunded' = refunded /\ day' = day
        /\ charge' = [charge EXCEPT ![Owner[t]] = charge[Owner[t]] + 1]
    BY <1>4 DEF Submit
  <2>3. ASSUME day' = 0, NEW v \in Users PROVE charge'[v] = Cardinality(Paying(v)')
    <3>1. charge[v] = Cardinality(Paying(v)) /\ charge[v] \in Nat
      BY <1>1, <1>2, <2>2, <2>3, BoundAssumption
    <3>2. CASE v = Owner[t]
      <4>1. t \notin Paying(v) /\ Paying(v)' = Paying(v) \cup {t}
        BY <1>1, <2>1, <2>2, <3>2 DEF Paying, Owned
      <4>2. IsFiniteSet(Paying(v))
        BY TaskAssumption, FS_Subset DEF Paying, Accepted
      <4>3. Cardinality(Paying(v) \cup {t}) = Cardinality(Paying(v)) + 1
        BY <4>1, <4>2, FS_AddElement
      <4>4. Cardinality(Paying(v)') = Cardinality(Paying(v)) + 1
        BY <4>1, <4>3
      <4>5. charge'[v] = charge[v] + 1
        BY <1>2, <2>2, <3>2
      <4> QED BY <3>1, <4>4, <4>5
    <3>3. CASE v # Owner[t]
      <4>1. Paying(v)' = Paying(v)
        BY <2>1, <2>2, <3>3 DEF Paying, Owned
      <4>2. Cardinality(Paying(v)') = Cardinality(Paying(v))
        BY <4>1
      <4>3. charge'[v] = charge[v]
        BY <1>2, <2>2, <3>3
      <4> QED BY <3>1, <4>2, <4>3
    <3> QED BY <3>2, <3>3
  <2> QED BY <1>3, <2>2, <2>3 DEF ChargeInv
<1>5. ASSUME NEW u \in Users, Cancel(u) PROVE ChargeInv'
  <2>1. /\ refunded' = refunded \cup Waiting(u) /\ day' = day /\ ticket' = ticket
        /\ charge' = [charge EXCEPT ![u] = Release(u, Waiting(u))]
    BY <1>5 DEF Cancel
  <2>2. Accepted' = Accepted
    BY <2>1 DEF Accepted
  <2>3. \A t \in Waiting(u) : t \in Tasks /\ Owner[t] = u /\ t \in Accepted
                              /\ Unpaid(t) /\ ~Unpaid(t)'
    BY <1>5, WaitingTasks, WithdrawnGone
  <2> QED BY <2>1, <2>2, <2>3, RefundStep
<1>6. CASE charge' = charge /\ refunded' = refunded /\ day' = day /\ Accepted' = Accepted
  <2>1. \A v \in Users : Paying(v)' = Paying(v)
    BY <1>6 DEF Paying
  <2>2. \A v \in Users : Cardinality(Paying(v)') = Cardinality(Paying(v))
    BY <2>1
  <2> QED BY <1>1, <1>3, <1>6, <2>2 DEF ChargeInv
<1>7. CASE GiveUp \/ Breaks \/ RunFailed
  <2>1. Fail /\ worker.at \in {"post", "refused", "posted", "wait"} /\ worker.at # "idle"
    BY <1>7 DEF GiveUp, Breaks, RunFailed
  <2>2. queue' = queue /\ day' = day /\ ticket' = ticket
    BY <2>1 DEF Fail, Quiet
  <2>3. Accepted' = Accepted
    BY <2>2 DEF Accepted
  <2>0. worker.item \in Tasks /\ worker' = [worker EXCEPT !.at = "report"]
    BY <2>1, FailStep
  <2>4. PICK t \in Tasks : t = worker.item
    BY <2>0
  <2>5. Unpaid(t)
    BY <2>1, <2>4 DEF Unpaid
  <2>6. t \in Accepted
    BY <2>0, <2>4, TaskAssumption DEF QueueInv, TicketsInv
  <2>7. ~ Unpaid(t)'
    <3>1. t # NoTask /\ ticket[t] \in Nat
      BY <2>4, TaskAssumption, QueueDomain
    <3>2. \A i \in 1 .. Len(queue) : ticket[t] < ticket[queue[i]]
      BY <2>4, <3>1 DEF QueueInv, OrderInv
    <3>3. \A i \in 1 .. Len(queue) : queue[i] # t
      BY <3>1, <3>2
    <3>4. worker'.at = "report"
      BY <2>0, WorkerFields DEF WorkerType
    <3> QED BY <2>2, <3>3, <3>4 DEF Unpaid
  <2>8. CASE charge' = charge /\ refunded' = refunded
    BY <1>6, <2>2, <2>3, <2>8
  <2>9. CASE ~(charge' = charge /\ refunded' = refunded)
    <3>1. /\ charge' = [charge EXCEPT ![Owner[t]] = Release(Owner[t], {t})]
          /\ refunded' = refunded \cup {t}
      BY <2>1, <2>4, <2>9, FailStep
    <3>2. Owner[t] \in Users
      BY <2>4, TaskAssumption
    <3>3. PICK u \in Users : u = Owner[t]
      BY <3>2
    <3>4. PICK W : W = {t}
      OBVIOUS
    <3>5. \A x \in W : x \in Tasks /\ Owner[x] = u /\ x \in Accepted
                        /\ Unpaid(x) /\ ~Unpaid(x)'
      <4> SUFFICES ASSUME NEW x \in W
                   PROVE  x \in Tasks /\ Owner[x] = u /\ x \in Accepted
                          /\ Unpaid(x) /\ ~Unpaid(x)'
        OBVIOUS
      <4>1. x = t
        BY <3>4
      <4> QED BY <2>5, <2>6, <2>7, <3>3, <4>1
    <3>6. refunded' = refunded \cup W /\ charge' = [charge EXCEPT ![u] = Release(u, W)]
      BY <3>1, <3>3, <3>4
    <3> QED BY <2>2, <2>3, <3>5, <3>6, RefundStep
  <2> QED BY <2>8, <2>9
<1>8. CASE Midnight
  <2>1. day' # 0 /\ refunded' = refunded
    BY <1>2, <1>8 DEF Midnight, history
  <2> QED BY <1>3, <2>1 DEF ChargeInv
<1>9. CASE charge' = charge /\ refunded' = refunded /\ day' = day /\ ticket' = ticket
  <2>1. Accepted' = Accepted
    BY <1>9 DEF Accepted
  <2> QED BY <1>6, <1>9, <2>1
<1>10. CASE \E t \in Tasks : Flush(t) \/ RunEnds(t)
  BY <1>9, <1>10 DEF Flush, RunEnds, history
<1>11. CASE Take \/ Post \/ Refused \/ Answer \/ Completed \/ Send \/ Report
  BY <1>9, <1>11 DEF Take, Post, Refused, Answer, Completed, Send, Deliver, Undelivered, Report,
                     Step, Quiet, history
<1>12. CASE UNCHANGED vars \/ Others \/ ServerRestart \/ BotRestart
  BY <1>9, <1>12 DEF vars, Others, ServerRestart, BotRestart, history
<1>13. CASE \E u \in Users : CancelArrives(u) \/ CancelAnswered(u) \/ CancelFails(u)
  BY <1>9, <1>13 DEF CancelArrives, CancelAnswered, CancelFails, history
<1> QED BY <1>4, <1>5, <1>7, <1>8, <1>10, <1>11, <1>12, <1>13
        DEF Next, Message, Work, Create, Await

LEMMA QueueInit == Init => QueueInv
<1> SUFFICES ASSUME Init PROVE QueueInv
  OBVIOUS
<1> USE DEF Init
<1>1. queue = <<>> /\ Len(queue) = 0 /\ queue \in Seq(Tasks)
  BY EmptySeq
<1>2. QueueOK /\ QueueMirrored
  BY <1>1, BoundAssumption DEF QueueOK, QueueMirrored
<1>3. WorkerOK
  BY IdleOK DEF WorkerOK, Idle
<1>4. CallOK
  BY DEF CallOK, CallType, NoCall
<1>5. ChargeOK
  BY BoundAssumption DEF ChargeOK
<1>6. ServerOK /\ HistoryOK
  BY DEF ServerOK, RunType, HistoryOK, OutcomeType
<1>7. Accepted = {} /\ Cardinality(Accepted) = 0
  BY FS_EmptySet DEF Accepted
<1>8. TicketsInv
  BY <1>1, <1>7 DEF TicketsInv, Idle
<1>9. OrderInv
  BY <1>1 DEF OrderInv, Rises, Idle
<1>10. RunInv
  BY DEF RunInv
<1>11. ChargeInv
  <2>1. \A u \in Users : Paying(u) = {}
    BY <1>7 DEF Paying
  <2>2. \A u \in Users : Cardinality(Paying(u)) = 0
    BY <2>1, FS_EmptySet
  <2> QED BY <2>2 DEF ChargeInv
<1> QED BY <1>2, <1>3, <1>4, <1>5, <1>6, <1>8, <1>9, <1>10, <1>11 DEF QueueInv, TypesInv

LEMMA QueueAlways == Spec => []QueueInv
<1>1. ASSUME QueueInv, [Next]_vars PROVE QueueInv'
  BY <1>1, QueueStep, WorkerStep, CallStep, ChargeTypes, ServerStep, HistoryStep, OrderStep,
     RunStep, ChargeStep DEF QueueInv, TypesInv
<1> QED BY <1>1, QueueInit, PTL DEF Spec

-----------------------------------------------------------------------------
(* The theorems.                                                           *)

(* The state of the bot is well typed, and the queue never grows over the  *)
(* limit, restarts included (enqueue, restore_pending).                    *)
THEOREM TypeCorrect == Spec => []TypeOK
<1>1. QueueInv => TypeOK
  <2> SUFFICES ASSUME QueueInv PROVE TypeOK
    OBVIOUS
  <2> USE DEF QueueInv, TypesInv
  <2>1. queue \in Seq(Tasks) /\ Len(queue) <= MaxQueue
    BY DEF QueueOK
  <2>2. /\ worker.at \in {"idle", "post", "refused", "posted", "wait", "deliver", "report"}
        /\ worker.item \in Tasks \cup {NoTask} /\ worker.run \in {worker.item, NoTask}
        /\ worker.tries \in 0 .. MaxTries - 1
    BY DEF WorkerOK, WorkerType
  <2>3. /\ marked \in Users \cup {NoUser}
        /\ call \in [Users -> [at : {"none", "sent", "answered"}, run : Tasks \cup {NoTask}]]
    BY DEF CallOK, CallType
  <2>4. /\ charge \in [Users -> 0 .. Limit] /\ spool \subseteq Tasks /\ day \in 0 .. MaxDays
        /\ refunded \subseteq Tasks
    BY DEF ChargeOK
  <2>5. /\ run \in [Tasks -> {"none", "running", "interrupted", "completed"} \cup Failures]
        /\ busy \in BOOLEAN
    BY DEF ServerOK, RunType
  <2>6. outcome \in [Tasks -> {"open", "shown", "failed", "cancelled", "withdrawn", "lost"}]
    BY DEF HistoryOK, OutcomeType
  <2> QED BY <2>1, <2>2, <2>3, <2>4, <2>5, <2>6 DEF TypeOK
<1> QED BY <1>1, QueueAlways, PTL

(* Queue, mirror and file agree at every await and are served in the order *)
(* of acceptance, through cancels and restarts (_enqueue_item,             *)
(* _drop_pending, _cancel_user, restore_pending).                          *)
THEOREM QueueIsKept == Spec => []QueueKept
<1>1. QueueInv => QueueKept
  <2> SUFFICES ASSUME QueueInv PROVE InOrder
    BY DEF QueueInv, QueueKept
  <2>1. DOMAIN queue = 1 .. Len(queue) /\ Rises(ticket, queue)
    BY QueueDomain
  <2>2. ToSet(queue) = {queue[i] : i \in 1 .. Len(queue)}
    BY <2>1 DEF ToSet
  <2>3. \A i, j \in DOMAIN queue : i < j => ticket[queue[i]] < ticket[queue[j]]
    BY <2>1 DEF Rises
  <2>4. worker.item # NoTask => \A t \in ToSet(queue) : ticket[worker.item] < ticket[t]
    BY <2>2 DEF QueueInv, OrderInv
  <2> QED BY <2>3, <2>4 DEF InOrder
<1> QED BY <1>1, QueueAlways, PTL

(* Until midnight a user is charged for exactly the tasks accepted and not *)
(* released, whatever is cancelled, fails or restarts (QuotaStore.reserve, *)
(* release and their callers).                                             *)
THEOREM ChargesAreExact == Spec => []ChargesMatch
<1>1. QueueInv => ChargesMatch
  BY DEF QueueInv, ChargeInv, ChargesMatch, Paying
<1> QED BY <1>1, QueueAlways, PTL

(* No task is simulated twice, nor at all once it was withdrawn (worker,   *)
(* _cancel_user, restore_pending).                                         *)
THEOREM ServedOnce == Spec => ServedAtMostOnce
<1> DEFINE Once == \A t \in Tasks : /\ run'[t] = "running" => run[t] \in {"none", "running"}
                                    /\ outcome'[t] = "withdrawn" => run'[t] = "none"
<1>1. ASSUME QueueInv, [Next]_vars PROVE Once
  <2> SUFFICES ASSUME NEW t \in Tasks
               PROVE  /\ run'[t] = "running" => run[t] \in {"none", "running"}
                      /\ outcome'[t] = "withdrawn" => run'[t] = "none"
    OBVIOUS
  <2>1. outcome'[t] = "withdrawn" => run'[t] = "none"
    BY <1>1, RunStep DEF RunInv
  <2>2. Post /\ t = worker.item => run[t] = "none"
    BY <1>1 DEF Post, QueueInv, RunInv, Waits
  <2>3. run'[t] = run[t] \/ run[t] = "running" \/ (Post /\ t = worker.item)
    BY <1>1, RunChanges
  <2> QED BY <2>1, <2>2, <2>3
<1>2. QueueInv /\ [Next]_vars => [Once]_vars
  BY <1>1
<1> QED BY <1>2, QueueAlways, PTL DEF Spec, ServedAtMostOnce

=============================================================================
