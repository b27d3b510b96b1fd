----------------------------- MODULE PoolProofs -----------------------------
(***************************************************************************)
(* Proofs about the memory pool as the generator, the wallet and the       *)
(* network use it, for any transactions, coins and bounds: its maps agree, *)
(* and a block evicts from it what it must and nothing else.               *)
(***************************************************************************)
EXTENDS Generator, Induction

\* Maps from some of the keys.
Maps(K, V) == UNION {[S -> V] : S \in SUBSET K}

\* What a pool is.
PoolSet == [num_transactions : Int, counter : Nat,
            by_hash : Maps(Transaction, Nat),
            by_input : Maps(UNION {input[h] : h \in Transaction}, Transaction),
            by_storage_index : Maps(Nat, Transaction)]

\* What makes PoolAgrees inductive, of a pool p: it holds of p, finitely many
\* transactions are in p, and their storage indices are below the counter.
PoolOK(p) ==
  /\ p \in PoolSet
  /\ IsFiniteSet(DOMAIN p.by_hash)
  /\ p.num_transactions = Cardinality(DOMAIN p.by_hash)
  /\ DOMAIN p.by_storage_index = {p.by_hash[h] : h \in DOMAIN p.by_hash}
  /\ \A h \in DOMAIN p.by_hash :
       p.by_hash[h] < p.counter /\ p.by_storage_index[p.by_hash[h]] = h
  /\ DOMAIN p.by_input = UNION {input[h] : h \in DOMAIN p.by_hash}
  /\ \A h \in DOMAIN p.by_hash : \A i \in input[h] : p.by_input[i] = h

\* A map with keys of S less is one from fewer keys.
LEMMA WithoutMap ==
  ASSUME NEW K, NEW V, NEW f \in Maps(K, V), NEW S
  PROVE  Without(f, S) \in Maps(K, V) /\ DOMAIN Without(f, S) = DOMAIN f \ S
<1>1. PICK T \in SUBSET K : f \in [T -> V]
  BY DEF Maps
<1>2. Without(f, S) \in [T \ S -> V] /\ DOMAIN f = T
  BY <1>1 DEF Without
<1> QED BY <1>1, <1>2 DEF Maps

\* A map has keys among K and values in V.
LEMMA MapType ==
  ASSUME NEW K, NEW V, NEW f \in Maps(K, V)
  PROVE  DOMAIN f \subseteq K /\ f \in [DOMAIN f -> V]
BY DEF Maps

\* A map with more keys is one still.
LEMMA WithMap ==
  ASSUME NEW K, NEW V, NEW f \in Maps(K, V), NEW S \in SUBSET K, NEW v \in V
  PROVE  With(f, S, v) \in Maps(K, V) /\ DOMAIN With(f, S, v) = DOMAIN f \cup S
<1>1. PICK T \in SUBSET K : f \in [T -> V]
  BY DEF Maps
<1>2. With(f, S, v) \in [T \cup S -> V] /\ DOMAIN f = T
  BY <1>1 DEF With
<1> QED BY <1>1, <1>2 DEF Maps

\* remove_and_get, whatever transactions it is called for, takes them out of all maps.
LEMMA RemoveOK ==
  ASSUME NEW p, PoolOK(p), NEW S
  PROVE  LET q == remove_and_get(p, S)
         IN  PoolOK(q) /\ DOMAIN q.by_hash = DOMAIN p.by_hash \ S
<1> DEFINE txs == DOMAIN p.by_hash
           gone == S \cap txs
           left == txs \ S
           q == remove_and_get(p, S)
           gi == UNION {input[h] : h \in gone}
           gs == {p.by_hash[h] : h \in gone}
<1>1. /\ p \in PoolSet /\ txs \subseteq Transaction /\ p.by_hash \in [txs -> Nat]
      /\ p.counter \in Nat
  BY MapType DEF PoolOK, PoolSet
<1>2. /\ q = [num_transactions |-> p.num_transactions - Cardinality(gone),
              counter |-> p.counter,
              by_hash |-> Without(p.by_hash, gone),
              by_input |-> Without(p.by_input, gi),
              by_storage_index |-> Without(p.by_storage_index, gs)]
  <2>1. p = [num_transactions |-> p.num_transactions, counter |-> p.counter,
             by_hash |-> p.by_hash, by_input |-> p.by_input,
             by_storage_index |-> p.by_storage_index]
    BY <1>1 DEF PoolSet
  <2>2. q = [p EXCEPT !.num_transactions = @ - Cardinality(gone),
                !.by_hash = Without(@, gone),
                !.by_input = Without(@, gi),
                !.by_storage_index = Without(@, gs)]
    BY DEF remove_and_get
  <2> HIDE DEF q, gi, gs, gone
  <2> QED BY Zenon, <2>1, <2>2
<1> HIDE DEF q, gi, gs
<1>3. IsFiniteSet(gone) /\ IsFiniteSet(left) /\ Cardinality(gone) \in Nat /\ Cardinality(left) \in Nat
      /\ Cardinality(txs) \in Nat
  BY FS_Subset, FS_CardinalityType DEF PoolOK
<1>4. Cardinality(left) = Cardinality(txs) - Cardinality(gone)
  <2>1. /\ Cardinality(txs \ gone) = Cardinality(txs) - Cardinality(txs \cap gone)
    BY Zenon, <1>3, FS_Difference DEF PoolOK
  <2>2. txs \ gone = left /\ txs \cap gone = gone
    OBVIOUS
  <2> QED BY <2>1, <2>2
<1>5. q \in PoolSet
  <2>1. p.num_transactions - Cardinality(gone) \in Int
    BY <1>1, <1>3 DEF PoolSet
  <2> QED BY Zenon, <1>1, <1>2, <2>1, WithoutMap DEF PoolSet
<1>6. /\ DOMAIN q.by_hash = left /\ \A h \in left : q.by_hash[h] = p.by_hash[h]
      /\ DOMAIN q.by_input = DOMAIN p.by_input \ gi
      /\ \A i \in DOMAIN q.by_input : q.by_input[i] = p.by_input[i]
      /\ DOMAIN q.by_storage_index = DOMAIN p.by_storage_index \ gs
      /\ \A n \in DOMAIN q.by_storage_index : q.by_storage_index[n] = p.by_storage_index[n]
      /\ q.num_transactions = p.num_transactions - Cardinality(gone)
      /\ q.counter = p.counter
  BY <1>2 DEF Without
<1>7. q.num_transactions = Cardinality(left)
  BY <1>4, <1>6 DEF PoolOK
<1>8. \A h, g \in txs : p.by_hash[h] = p.by_hash[g] => h = g
  BY DEF PoolOK
<1>9. DOMAIN q.by_storage_index = {q.by_hash[h] : h \in left}
  <2>1. ASSUME NEW n \in DOMAIN q.by_storage_index PROVE n \in {q.by_hash[h] : h \in left}
    BY <1>6 DEF PoolOK, gs
  <2>2. ASSUME NEW h \in left PROVE q.by_hash[h] \in DOMAIN q.by_storage_index
    BY <1>6, <1>8 DEF PoolOK, gs
  <2> QED BY <2>1, <2>2
<1>10. \A h \in left : /\ q.by_hash[h] < q.counter
                       /\ q.by_storage_index[q.by_hash[h]] = h
  BY <1>6, <1>9 DEF PoolOK
<1>11. DOMAIN q.by_input = UNION {input[h] : h \in left}
  <2>1. \A h, g \in txs : \A i \in input[h] : i \in input[g] => h = g
    BY DEF PoolOK
  <2>2. ASSUME NEW i \in DOMAIN q.by_input PROVE i \in UNION {input[h] : h \in left}
    BY <1>6 DEF PoolOK, gi
  <2>3. ASSUME NEW h \in left, NEW i \in input[h] PROVE i \in DOMAIN q.by_input
    BY <1>6, <2>1 DEF PoolOK, gi
  <2> QED BY <2>2, <2>3
<1>12. \A h \in left : \A i \in input[h] : q.by_input[i] = h
  BY <1>6, <1>11 DEF PoolOK
<1> QED BY Zenon, <1>3, <1>5, <1>6, <1>7, <1>9, <1>10, <1>11, <1>12 DEF PoolOK, q

\* What spends an input is in the pool.
LEMMA SpendersType ==
  ASSUME NEW p, PoolOK(p), NEW X
  PROVE  /\ Spenders(p, X) \in SUBSET DOMAIN p.by_hash
         /\ \A h \in DOMAIN p.by_hash : h \in Spenders(p, X) <=> input[h] \cap X # {}
BY DEF Spenders, PoolOK

\* What remove_by_input reaches in a step, and the function that it iterates.
Wave(p, T) == T \cup Spenders(p, UNION {OutputInputs(h) : h \in T})
IsReached(f, p, i) ==
  f = [n \in Nat |-> IF n = 0 THEN Spenders(p, {i}) ELSE Wave(p, f[n - 1])]

\* The iteration of remove_by_input is a function on the numbers, as it is written.
LEMMA ReachedExists ==
  ASSUME NEW p, PoolOK(p), NEW i
  PROVE  \E f : /\ IsReached(f, p, i)
                /\ remove_by_input(p, i) = remove_and_get(p, f[Cardinality(DOMAIN p.by_hash)])
<1> DEFINE D == SUBSET DOMAIN p.by_hash
           b == Spenders(p, {i})
           F == [x \in Nat \X D |-> Wave(p, x[2])]
<1>1. b \in D /\ F \in [Nat \X D -> D]
  BY SpendersType DEF Wave
<1>2. PICK f \in [Nat -> D] : IsNatRecursion(f, b, F)
  <2> HIDE DEF b, D, F
  <2> QED BY <1>1, NatRecursion
<1>3. IsReached(f, p, i)
  <2>1. \A n \in Nat : n # 0 => <<n, f[n - 1]>> \in Nat \X D
    BY <1>2
  <2>2. \A n \in Nat : n # 0 => F[<<n, f[n - 1]>>] = Wave(p, f[n - 1])
    BY <2>1
  <2>3. f = [n \in Nat |-> IF n = 0 THEN b ELSE F[<<n, f[n - 1]>>]]
    BY Zenon, <1>2 DEF IsNatRecursion
  <2> HIDE DEF F, D
  <2>4. \A n \in Nat : f[n] = IF n = 0 THEN Spenders(p, {i}) ELSE Wave(p, f[n - 1])
    BY Zenon, <2>2, <2>3
  <2> QED BY Zenon, <1>2, <2>4 DEF IsReached
<1>4. \E g : IsReached(g, p, i)
  BY <1>3
<1> QED BY Zenon, <1>4 DEF IsReached, remove_by_input, Wave

\* What remove_by_input takes out of p: the spender of the input and, with a
\* transaction, the spenders of its outputs (Taken is closed), and nothing else.
IsTaken(R, p, i) ==
  /\ R \subseteq DOMAIN p.by_hash
  /\ Spenders(p, {i}) \subseteq R
  /\ \A h \in R : Spenders(p, OutputInputs(h)) \subseteq R
  /\ \A S : /\ Spenders(p, {i}) \subseteq S
            /\ \A h \in S : Spenders(p, OutputInputs(h)) \subseteq S
            => R \subseteq S

\* remove_by_input takes out what IsTaken says: a chain of dependencies in the pool is
\* never longer than the pool, which bounds the iteration.
LEMMA RemoveByInputTakes ==
  ASSUME NEW p, PoolOK(p), NEW i
  PROVE  \E R : IsTaken(R, p, i) /\ remove_by_input(p, i) = remove_and_get(p, R)
<1> DEFINE txs == DOMAIN p.by_hash
           N == Cardinality(txs)
<1>1. PICK f : IsReached(f, p, i) /\ remove_by_input(p, i) = remove_and_get(p, f[N])
  BY ReachedExists
<1>2. f[0] = Spenders(p, {i}) /\ \A n \in Nat : f[n + 1] = Wave(p, f[n])
  <2>1. f = [n \in Nat |-> IF n = 0 THEN Spenders(p, {i}) ELSE Wave(p, f[n - 1])]
    BY <1>1 DEF IsReached
  <2>2. \A n \in Nat : n + 1 \in Nat /\ n + 1 # 0 /\ (n + 1) - 1 = n
    OBVIOUS
  <2>3. f[0] = Spenders(p, {i})
    BY <2>1
  <2>4. ASSUME NEW n \in Nat PROVE f[n + 1] = Wave(p, f[n])
    <3>1. f[n + 1] = Wave(p, f[(n + 1) - 1])
      BY <2>1, <2>2
    <3> QED BY <2>2, <3>1
  <2> QED BY <2>3, <2>4
<1>3. IsFiniteSet(txs) /\ N \in Nat
  BY FS_CardinalityType DEF PoolOK
<1> DEFINE Closed(T) == \A h \in T : Spenders(p, OutputInputs(h)) \subseteq T
           A == {n \in Nat : f[n] \in SUBSET txs /\ Spenders(p, {i}) \subseteq f[n]}
           B == {n \in Nat : Closed(f[n]) \/ Cardinality(f[n]) > n}
<1>4. \A T : Wave(p, T) = T <=> Closed(T)
  BY DEF Wave, Spenders
<1>5. \A n \in Nat : n \in A
  <2>1. 0 \in A
    BY <1>2, SpendersType
  <2>2. ASSUME NEW n \in Nat, n \in A PROVE n + 1 \in A
    <3> DEFINE W == Spenders(p, UNION {OutputInputs(h) : h \in f[n]})
    <3>1. f[n + 1] = f[n] \cup W
      BY <1>2 DEF Wave
    <3>2. W \in SUBSET txs
      BY SpendersType
    <3>3. f[n] \in SUBSET txs /\ Spenders(p, {i}) \subseteq f[n]
      BY Zenon, <2>2
    <3> HIDE DEF W, txs
    <3> QED BY <3>1, <3>2, <3>3
  <2> HIDE DEF A
  <2> QED BY <2>1, <2>2, NatInd
<1>6. \A n \in Nat : n \in B
  <2>1. \A n \in Nat : IsFiniteSet(f[n]) /\ Cardinality(f[n]) \in Nat
    BY <1>3, <1>5, FS_Subset, FS_CardinalityType
  <2>2. 0 \in B
    <3>1. CASE f[0] = {}
      BY <3>1
    <3>2. CASE f[0] # {}
      <4>1. Cardinality(f[0]) # 0
        BY <2>1, <3>2, FS_EmptySet
      <4> QED BY <2>1, <4>1
    <3> QED BY <3>1, <3>2
  <2>3. ASSUME NEW n \in Nat, n \in B PROVE n + 1 \in B
    <3>1. CASE Closed(f[n])
      <4>1. f[n + 1] = f[n]
        BY <1>2, <1>4, <3>1
      <4> QED BY <3>1, <4>1
    <3>2. CASE ~Closed(f[n])
      <4>1. f[n + 1] # f[n] /\ f[n] \in SUBSET f[n + 1]
        <5>1. f[n + 1] = Wave(p, f[n])
          BY <1>2
        <5>2. f[n + 1] # f[n]
          BY <1>4, <3>2, <5>1
        <5> QED BY <5>1, <5>2 DEF Wave
      <4>2. Cardinality(f[n]) <= Cardinality(f[n + 1]) /\ Cardinality(f[n + 1]) # Cardinality(f[n])
        BY <2>1, <4>1, FS_Subset
      <4>3. Cardinality(f[n]) > n
        BY <2>3, <3>2
      <4>4. Cardinality(f[n + 1]) > n + 1
        BY <2>1, <4>2, <4>3
      <4> QED BY <4>4
    <3> QED BY <3>1, <3>2
  <2> HIDE DEF B
  <2> QED BY <2>2, <2>3, NatInd
<1>7. Closed(f[N])
  <2>1. f[N] \in SUBSET txs
    BY <1>3, <1>5
  <2>2. Cardinality(f[N]) <= N /\ Cardinality(f[N]) \in Nat
    BY <1>3, <2>1, FS_Subset, FS_CardinalityType
  <2> QED BY <1>3, <1>6, <2>2
<1>8. ASSUME NEW S, Spenders(p, {i}) \subseteq S, Closed(S) PROVE f[N] \subseteq S
  <2> DEFINE C == {n \in Nat : f[n] \subseteq S}
  <2>1. 0 \in C
    BY Zenon, <1>2, <1>8
  <2>2. ASSUME NEW n \in Nat, n \in C PROVE n + 1 \in C
    BY <1>2, <1>8, <2>2 DEF Wave, Spenders
  <2>3. N \in C
    <3> HIDE DEF C, N
    <3> QED BY <1>3, <2>1, <2>2, NatInd
  <2> QED BY <2>3
<1>9. IsTaken(f[N], p, i)
  BY Zenon, <1>3, <1>5, <1>7, <1>8 DEF IsTaken
<1> QED BY <1>1, <1>9

\* The pools that are consistent.
Pools == {p \in PoolSet : PoolOK(p)}

\* The pools that RemoveInputs passes through, one after each input.
IsInputTrace(a, p, h) ==
  LET s == SetToSeq(input[h])
      n == Cardinality(input[h])
  IN  /\ a \in [0 .. n -> Pools] /\ a[0] = p /\ a[n] = RemoveInputs(p, h)
      /\ \A k \in 1 .. n : a[k] = remove_by_input(a[k - 1], s[k])

\* The function that FoldLeft takes the value of for RemoveInputs.
IsInputFold(f, p, h) ==
  LET s == SetToSeq(input[h])
  IN  f = [i \in 0 .. Len(s) |-> IF i = 0 THEN p ELSE remove_by_input(f[i - 1], s[i])]

\* remove_by_input keeps the pool consistent.
LEMMA RemoveByInputOK ==
  ASSUME NEW p \in Pools, NEW i
  PROVE  remove_by_input(p, i) \in Pools
BY RemoveByInputTakes, RemoveOK DEF Pools, PoolOK

\* RemoveInputs passes through consistent pools, from the first to its result.
LEMMA InputTrace ==
  ASSUME NEW p \in Pools, NEW h \in Transaction
  PROVE  \E a : IsInputTrace(a, p, h)
<1> DEFINE s == SetToSeq(input[h])
           n == Cardinality(input[h])
           F == [x \in (1 .. n) \X Pools |-> remove_by_input(x[2], s[x[1]])]
<1>1. n \in Nat /\ Len(s) = n
  BY SetToSeqLists, FinitenessAssumption
<1>2. F \in [(1 .. n) \X Pools -> Pools]
  BY RemoveByInputOK
<1>3. PICK f : IsFold(f, n, Pools, p, F)
  <2> HIDE DEF F, n, s
  <2> QED BY Zenon, <1>1, <1>2, FoldExists
<1> DEFINE g == CHOOSE g : IsInputFold(g, p, h)
<1>4. \A k \in 1 .. n : \A q \in Pools : F[<<k, q>>] = remove_by_input(q, s[k])
  OBVIOUS
<1> HIDE DEF F, n, s
<1>5. IsInputFold(f, p, h)
  <2>1. ASSUME NEW i \in 0 .. n
        PROVE  f[i] = IF i = 0 THEN p ELSE remove_by_input(f[i - 1], s[i])
    <3>1. CASE i = 0
      BY <1>3, <3>1 DEF IsFold
    <3>2. CASE i # 0
      <4>1. i \in 1 .. n /\ i - 1 \in 0 .. n
        BY <1>1, <3>2
      <4>2. f[i - 1] \in Pools /\ f[i] = F[<<i, f[i - 1]>>]
        BY <1>3, <4>1 DEF IsFold
      <4> QED BY <1>4, <3>2, <4>1, <4>2
    <3> QED BY <3>1, <3>2
  <2>2. f = [i \in 0 .. n |-> IF i = 0 THEN p ELSE remove_by_input(f[i - 1], s[i])]
    BY <1>3, <2>1 DEF IsFold
  <2> QED BY <1>1, <2>2 DEF IsInputFold, s
<1>6. IsInputFold(g, p, h)
  BY <1>5
<1>7. RemoveInputs(p, h) = g[n]
  BY <1>1 DEF RemoveInputs, FoldLeft, IsInputFold, s
<1> HIDE DEF g
<1>8. g = [i \in 0 .. n |-> IF i = 0 THEN p ELSE remove_by_input(g[i - 1], s[i])]
  BY <1>1, <1>6 DEF IsInputFold, s
<1>9. RunsFold(g, n, Pools, p, F)
  BY <1>1, <1>4, <1>8 DEF RunsFold
<1>10. IsFold(g, n, Pools, p, F)
  BY Zenon, <1>1, <1>2, <1>9, FoldTrace
<1>11. /\ g \in [0 .. n -> Pools] /\ g[0] = p
       /\ \A k \in 1 .. n : g[k] = remove_by_input(g[k - 1], s[k])
  <2>1. g \in [0 .. n -> Pools] /\ g[0] = p
    BY <1>10 DEF IsFold
  <2>2. ASSUME NEW k \in 1 .. n PROVE g[k] = remove_by_input(g[k - 1], s[k])
    <3>1. k \in 0 .. n /\ k # 0
      BY <1>1
    <3> QED BY Zenon, <1>8, <3>1
  <2> QED BY <2>1, <2>2
<1>12. IsInputTrace(g, p, h)
  BY <1>7, <1>11 DEF IsInputTrace, n, s
<1> QED BY <1>12

\* The transactions of a pool, and whether one spends an output of another.
Txs(p) == DOMAIN p.by_hash
Spends(h, g) == input[h] \cap OutputInputs(g) # {}

\* What one call of remove_by_input does to the pool.
LEMMA RemoveByInputFacts ==
  ASSUME NEW p \in Pools, NEW i, NEW q, q = remove_by_input(p, i)
  PROVE  /\ q \in Pools /\ Txs(q) \subseteq Txs(p)
         /\ \A h \in Txs(q) : i \notin input[h]
         /\ \A h \in Txs(q) : \A g \in Txs(p) \ Txs(q) : ~Spends(h, g)
         /\ \A S : (\A h \in Txs(p) \ Txs(q) :
                      i \in input[h] \/ (\E g \in S : Spends(h, g)) => h \in S)
                   => Txs(p) \ Txs(q) \subseteq S
<1>1. PICK R : IsTaken(R, p, i) /\ q = remove_and_get(p, R)
  BY RemoveByInputTakes DEF Pools
<1>2. PoolOK(q) /\ Txs(q) = Txs(p) \ R /\ PoolOK(p)
  BY <1>1, RemoveOK DEF Pools, Txs
<1>3. \A X : Spenders(p, X) \in SUBSET Txs(p) /\
             \A h \in Txs(p) : h \in Spenders(p, X) <=> input[h] \cap X # {}
  BY <1>2, SpendersType DEF Txs
<1>4. R = Txs(p) \ Txs(q) /\ Spenders(p, {i}) \subseteq R
  BY Zenon, <1>1, <1>2 DEF IsTaken, Txs
<1>5. \A h \in R : Spenders(p, OutputInputs(h)) \subseteq R
  BY <1>1 DEF IsTaken
<1>6. ASSUME NEW S, \A h \in R : i \in input[h] \/ (\E g \in S : Spends(h, g)) => h \in S
      PROVE  R \subseteq S
  <2> DEFINE U == S \cap R
  <2>1. Spenders(p, {i}) \subseteq U
    BY <1>3, <1>4, <1>6
  <2>2. ASSUME NEW g \in U PROVE Spenders(p, OutputInputs(g)) \subseteq U
    BY <1>3, <1>4, <1>5, <1>6 DEF Spends
  <2>3. R \subseteq U
    BY ZenonT(30), <1>1, <2>1, <2>2 DEF IsTaken
  <2> QED BY <2>3
<1>7. \A h \in Txs(q) : i \notin input[h]
  BY <1>2, <1>3, <1>4
<1>8. \A h \in Txs(q) : \A g \in R : ~Spends(h, g)
  BY <1>2, <1>3, <1>5 DEF Spends
<1>9. q \in Pools
  BY ZenonT(30), <1>2 DEF Pools, PoolOK
<1> QED BY <1>2, <1>4, <1>6, <1>7, <1>8, <1>9

\* q is p without the transactions that share an input with h, without what depends
\* on these, and no other is missing.
IsEviction(p, q, h) ==
  /\ q \in Pools /\ Txs(q) \subseteq Txs(p)
  /\ \A g \in Txs(q) : input[g] \cap input[h] = {}
  /\ \A g \in Txs(q) : \A e \in Txs(p) \ Txs(q) : ~Spends(g, e)
  /\ \A S : (\A g \in Txs(p) \ Txs(q) :
               input[g] \cap input[h] # {} \/ (\E e \in S : Spends(g, e)) => g \in S)
            => Txs(p) \ Txs(q) \subseteq S

\* What RemoveInputs does to the pool.
LEMMA RemoveInputsFacts ==
  ASSUME NEW p \in Pools, NEW h \in Transaction, NEW q, q = RemoveInputs(p, h)
  PROVE  IsEviction(p, q, h)
<1> DEFINE s == SetToSeq(input[h])
           n == Cardinality(input[h])
<1>1. n \in Nat /\ s \in [1 .. n -> input[h]] /\ \A x \in input[h] : \E i \in 1 .. n : s[i] = x
  BY Zenon, SetToSeqLists, FinitenessAssumption
<1>2. PICK a : IsInputTrace(a, p, h)
  BY InputTrace
<1>3. /\ a \in [0 .. n -> Pools] /\ a[0] = p /\ a[n] = q
      /\ \A k \in 1 .. n : a[k] = remove_by_input(a[k - 1], s[k])
  BY <1>2 DEF IsInputTrace
<1> HIDE DEF s, n
<1>4. ASSUME NEW k \in Nat, k + 1 <= n
      PROVE  /\ a[k] \in Pools /\ s[k + 1] \in input[h]
             /\ a[k + 1] = remove_by_input(a[k], s[k + 1])
  <2>1. k \in 0 .. n /\ k + 1 \in 1 .. n /\ (k + 1) - 1 = k
    BY <1>1, <1>4
  <2>2. a[k + 1] = remove_by_input(a[(k + 1) - 1], s[k + 1])
    BY <1>3, <2>1
  <2> QED BY <1>1, <1>3, <2>1, <2>2
\* Each call leaves fewer transactions, and what it has evicted is not spent.
<1> DEFINE A == {k \in Nat : k <= n =>
                   /\ Txs(a[k]) \subseteq Txs(p)
                   /\ \A g \in Txs(a[k]) : \A j \in 1 .. k : s[j] \notin input[g]
                   /\ \A g \in Txs(a[k]) : \A e \in Txs(p) \ Txs(a[k]) : ~Spends(g, e)}
<1>5. \A k \in Nat : k \in A
  <2>1. 0 \in A
    BY <1>3
  <2>2. ASSUME NEW k \in Nat, k \in A PROVE k + 1 \in A
    <3> SUFFICES ASSUME k + 1 <= n
                 PROVE  /\ Txs(a[k + 1]) \subseteq Txs(p)
                        /\ \A g \in Txs(a[k + 1]) : \A j \in 1 .. (k + 1) : s[j] \notin input[g]
                        /\ \A g \in Txs(a[k + 1]) : \A e \in Txs(p) \ Txs(a[k + 1]) : ~Spends(g, e)
      OBVIOUS
    <3>1. /\ Txs(a[k]) \subseteq Txs(p)
          /\ \A g \in Txs(a[k]) : \A j \in 1 .. k : s[j] \notin input[g]
          /\ \A g \in Txs(a[k]) : \A e \in Txs(p) \ Txs(a[k]) : ~Spends(g, e)
      BY <1>1, <2>2
    <3>2. /\ Txs(a[k + 1]) \subseteq Txs(a[k])
          /\ \A g \in Txs(a[k + 1]) : s[k + 1] \notin input[g]
          /\ \A g \in Txs(a[k + 1]) : \A e \in Txs(a[k]) \ Txs(a[k + 1]) : ~Spends(g, e)
      BY <1>4, RemoveByInputFacts
    <3>3. \A j \in 1 .. (k + 1) : j = k + 1 \/ j \in 1 .. k
      OBVIOUS
    <3> HIDE DEF A
    <3>4. \A g \in Txs(a[k + 1]) : \A j \in 1 .. (k + 1) : s[j] \notin input[g]
      BY <3>1, <3>2, <3>3
    <3> QED BY <3>1, <3>2, <3>4
  <2> HIDE DEF A
  <2> QED BY <2>1, <2>2, NatInd
<1>6. /\ Txs(q) \subseteq Txs(p)
      /\ \A g \in Txs(q) : \A j \in 1 .. n : s[j] \notin input[g]
      /\ \A g \in Txs(q) : \A e \in Txs(p) \ Txs(q) : ~Spends(g, e)
  BY SMTT(30), <1>1, <1>3, <1>5
<1>7. \A g \in Txs(q) : input[g] \cap input[h] = {}
  BY <1>1, <1>6
\* What is left at the end was left after every call.
<1> DEFINE B == {m \in Nat : m <= n => Txs(q) \subseteq Txs(a[n - m])}
<1>8. \A m \in Nat : m \in B
  <2>1. 0 \in B
    BY <1>1, <1>3
  <2>2. ASSUME NEW m \in Nat, m \in B PROVE m + 1 \in B
    <3> SUFFICES ASSUME m + 1 <= n PROVE Txs(q) \subseteq Txs(a[n - (m + 1)])
      OBVIOUS
    <3> DEFINE k == n - (m + 1)
    <3>1. k \in Nat /\ k + 1 <= n /\ k + 1 = n - m
      BY <1>1
    <3>2. Txs(q) \subseteq Txs(a[k + 1])
      BY <1>1, <2>2, <3>1
    <3> HIDE DEF k, B
    <3>3. Txs(a[k + 1]) \subseteq Txs(a[k])
      BY <1>4, <3>1, RemoveByInputFacts
    <3> QED BY <3>2, <3>3 DEF k
  <2> HIDE DEF B
  <2> QED BY <2>1, <2>2, NatInd
<1>9. ASSUME NEW k \in Nat, k <= n PROVE Txs(q) \subseteq Txs(a[k])
  <2>1. n - k \in Nat /\ n - k <= n /\ n - (n - k) = k
    BY <1>1, <1>9
  <2>2. n - k \in B
    BY <1>8, <2>1
  <2> QED BY <2>1, <2>2
<1>10. ASSUME NEW S,
              \A g \in Txs(p) \ Txs(q) :
                input[g] \cap input[h] # {} \/ (\E e \in S : Spends(g, e)) => g \in S
       PROVE  Txs(p) \ Txs(q) \subseteq S
  <2> DEFINE C == {k \in Nat : k <= n => Txs(p) \ Txs(a[k]) \subseteq S}
  <2>1. 0 \in C
    BY <1>3
  <2>2. ASSUME NEW k \in Nat, k \in C PROVE k + 1 \in C
    <3> SUFFICES ASSUME k + 1 <= n PROVE Txs(p) \ Txs(a[k + 1]) \subseteq S
      OBVIOUS
    <3>1. Txs(p) \ Txs(a[k]) \subseteq S
      BY <1>1, <2>2
    <3> HIDE DEF C
    <3>2. k \in A
      BY <1>5
    <3>3. Txs(a[k]) \subseteq Txs(p)
      BY <1>1, <3>2
    <3> HIDE DEF A
    <3>4. Txs(q) \subseteq Txs(a[k + 1])
      BY <1>9
    <3>5. \A g \in Txs(a[k]) \ Txs(a[k + 1]) :
            s[k + 1] \in input[g] \/ (\E e \in S : Spends(g, e)) => g \in S
      BY <1>4, <1>10, <3>3, <3>4
    <3>6. Txs(a[k]) \ Txs(a[k + 1]) \subseteq S
      BY <1>4, <3>5, RemoveByInputFacts
    <3> QED BY <3>1, <3>6
  <2>3. n \in C
    <3> HIDE DEF C
    <3> QED BY Zenon, <1>1, <2>1, <2>2, NatInd
  <2> QED BY <1>1, <1>3, <2>3
<1>11. q \in Pools
  BY <1>1, <1>3
<1> QED BY ZenonT(30), <1>6, <1>7, <1>10, <1>11 DEF IsEviction

\* What a transaction of a block does to the pool: nothing that is left spends an
\* input of it again or an output of what was evicted, and what was evicted had to be.
IsRemoval(p, q, h) ==
  /\ q \in Pools /\ Txs(q) \subseteq Txs(p)
  /\ \A g \in Txs(q) : input[g] \cap input[h] = {}
  /\ \A g \in Txs(q) : \A e \in (Txs(p) \ Txs(q)) \ {h} : ~Spends(g, e)
  /\ \A S : (\A g \in (Txs(p) \ Txs(q)) \ {h} :
               input[g] \cap input[h] # {} \/ (\E e \in S : Spends(g, e)) => g \in S)
            => Txs(p) \ Txs(q) \subseteq S \cup {h}

\* remove_by_hash and remove_by_input for each input are such a removal.
LEMMA RemoveTransactionFacts ==
  ASSUME NEW p \in Pools, NEW h \in Transaction
  PROVE  IsRemoval(p, RemoveTransaction(p, h), h)
<1> DEFINE r == remove_by_hash(p, h)
           q == RemoveTransaction(p, h)
<1>1. PoolOK(r) /\ Txs(r) = Txs(p) \ {h}
  BY RemoveOK DEF remove_by_hash, Txs, Pools
<1>2. r \in Pools
  BY Zenon, <1>1 DEF Pools, PoolOK
<1>3. q = RemoveInputs(r, h)
  BY DEF RemoveTransaction
<1> HIDE DEF r, q
<1>4. /\ q \in Pools /\ Txs(q) \subseteq Txs(r)
      /\ \A g \in Txs(q) : input[g] \cap input[h] = {}
      /\ \A g \in Txs(q) : \A e \in Txs(r) \ Txs(q) : ~Spends(g, e)
      /\ \A S : (\A g \in Txs(r) \ Txs(q) :
                   input[g] \cap input[h] # {} \/ (\E e \in S : Spends(g, e)) => g \in S)
                => Txs(r) \ Txs(q) \subseteq S
  <2>1. IsEviction(r, q, h)
    BY Zenon, <1>2, <1>3, RemoveInputsFacts
  <2> QED BY Zenon, <2>1 DEF IsEviction
<1>5. Txs(r) \ Txs(q) = (Txs(p) \ Txs(q)) \ {h}
  BY <1>1
<1>6. ASSUME NEW S, \A g \in (Txs(p) \ Txs(q)) \ {h} :
                      input[g] \cap input[h] # {} \/ (\E e \in S : Spends(g, e)) => g \in S
      PROVE  Txs(p) \ Txs(q) \subseteq S \cup {h}
  <2>1. Txs(r) \ Txs(q) \subseteq S
    BY <1>4, <1>5, <1>6
  <2> QED BY <1>5, <2>1
<1> QED BY Zenon, <1>1, <1>4, <1>5, <1>6 DEF IsRemoval, q

\* The pools that RemoveBlock passes through, one after each transaction, and the
\* function that FoldLeft takes the value of for it.
IsBlockTrace(a, txs) ==
  /\ a \in [0 .. Len(txs) -> Pools] /\ a[0] = pool /\ a[Len(txs)] = RemoveBlock(txs)
  /\ \A k \in 1 .. Len(txs) : a[k] = RemoveTransaction(a[k - 1], txs[k])

IsBlockFold(f, txs) ==
  f = [i \in 0 .. Len(txs) |-> IF i = 0 THEN pool ELSE RemoveTransaction(f[i - 1], txs[i])]

\* RemoveBlock passes through consistent pools, from the pool to its result.
LEMMA BlockTrace ==
  ASSUME pool \in Pools, NEW txs \in Seq(Transaction)
  PROVE  \E a : IsBlockTrace(a, txs)
<1> DEFINE n == Len(txs)
           F == [x \in (1 .. n) \X Pools |-> RemoveTransaction(x[2], txs[x[1]])]
<1>1. n \in Nat /\ DOMAIN txs = 1 .. n /\ \A k \in 1 .. n : txs[k] \in Transaction
  OBVIOUS
<1>2. F \in [(1 .. n) \X Pools -> Pools]
  <2> HIDE DEF n
  <2>1. \A x \in (1 .. n) \X Pools : RemoveTransaction(x[2], txs[x[1]]) \in Pools
    BY <1>1, RemoveTransactionFacts DEF IsRemoval
  <2> QED BY <2>1
<1>3. PICK f : IsFold(f, n, Pools, pool, F)
  <2> HIDE DEF F, n
  <2> QED BY Zenon, <1>1, <1>2, FoldExists
<1> DEFINE g == CHOOSE g : IsBlockFold(g, txs)
<1>4. \A k \in 1 .. n : \A q \in Pools : F[<<k, q>>] = RemoveTransaction(q, txs[k])
  OBVIOUS
<1> HIDE DEF F, n
<1>5. IsBlockFold(f, txs)
  <2>1. \A i \in 0 .. n : f[i] = IF i = 0 THEN pool ELSE RemoveTransaction(f[i - 1], txs[i])
    BY <1>1, <1>3, <1>4 DEF IsFold
  <2>2. f = [i \in 0 .. n |-> IF i = 0 THEN pool ELSE RemoveTransaction(f[i - 1], txs[i])]
    BY <1>3, <2>1 DEF IsFold
  <2> QED BY <2>2 DEF IsBlockFold, n
<1>6. IsBlockFold(g, txs)
  BY <1>5
<1>7. RemoveBlock(txs) = g[n]
  BY DEF RemoveBlock, FoldLeft, IsBlockFold, n
<1> HIDE DEF g
<1>8. g = [i \in 0 .. n |-> IF i = 0 THEN pool ELSE RemoveTransaction(g[i - 1], txs[i])]
  BY <1>6 DEF IsBlockFold, n
<1>9. RunsFold(g, n, Pools, pool, F)
  BY <1>1, <1>4, <1>8 DEF RunsFold
<1>10. IsFold(g, n, Pools, pool, F)
  BY Zenon, <1>1, <1>2, <1>9, FoldTrace
<1>11. IsBlockTrace(g, txs)
  BY <1>4, <1>7, <1>10 DEF IsFold, IsBlockTrace, n
<1> QED BY <1>11

\* What a block does to the pool.
LEMMA RemoveBlockFacts ==
  ASSUME pool \in Pools, NEW txs \in Seq(Transaction), NEW q, q = RemoveBlock(txs)
  PROVE  /\ q \in Pools /\ Txs(q) \subseteq Txs(pool)
         /\ \A g \in Txs(q) : \A t \in ToSet(txs) : input[g] \cap input[t] = {}
         /\ \A g \in Txs(q) : \A e \in (Txs(pool) \ Txs(q)) \ ToSet(txs) : ~Spends(g, e)
         /\ \A S : (\A g \in Txs(pool) \ Txs(q) :
                      \/ \E t \in ToSet(txs) \ {g} : input[g] \cap input[t] # {}
                      \/ \E e \in S : Spends(g, e)
                      => g \in S)
                   => Txs(pool) \ Txs(q) \subseteq S \cup ToSet(txs)
<1> DEFINE n == Len(txs)
           B == ToSet(txs)
<1>1. n \in Nat /\ \A k \in 1 .. n : txs[k] \in Transaction /\ txs[k] \in B
  BY DEF ToSet
<1>2. \A t \in B : \E k \in 1 .. n : txs[k] = t
  BY DEF ToSet
<1>3. PICK a : IsBlockTrace(a, txs)
  BY BlockTrace
<1>4. /\ a \in [0 .. n -> Pools] /\ a[0] = pool /\ a[n] = q
      /\ \A k \in 1 .. n : a[k] = RemoveTransaction(a[k - 1], txs[k])
  BY <1>3 DEF IsBlockTrace
<1> HIDE DEF n, B
<1>5. ASSUME NEW k \in Nat, k + 1 <= n
      PROVE  /\ a[k] \in Pools /\ txs[k + 1] \in Transaction /\ txs[k + 1] \in B
             /\ IsRemoval(a[k], a[k + 1], txs[k + 1])
  <2>1. k \in 0 .. n /\ k + 1 \in 1 .. n /\ (k + 1) - 1 = k
    BY <1>1, <1>5
  <2>2. a[k + 1] = RemoveTransaction(a[(k + 1) - 1], txs[k + 1])
    BY <1>4, <2>1
  <2>3. a[k] \in Pools /\ txs[k + 1] \in Transaction /\ txs[k + 1] \in B
    BY <1>1, <1>4, <2>1
  <2> QED BY <2>1, <2>2, <2>3, RemoveTransactionFacts
<1> DEFINE A == {k \in Nat : k <= n =>
                   /\ Txs(a[k]) \subseteq Txs(pool)
                   /\ \A g \in Txs(a[k]) : \A j \in 1 .. k : input[g] \cap input[txs[j]] = {}
                   /\ \A g \in Txs(a[k]) : \A e \in (Txs(pool) \ Txs(a[k])) \ B : ~Spends(g, e)}
<1>6. \A k \in Nat : k \in A
  <2>1. 0 \in A
    BY <1>4
  <2>2. ASSUME NEW k \in Nat, k \in A PROVE k + 1 \in A
    <3> SUFFICES ASSUME k + 1 <= n
                 PROVE  /\ Txs(a[k + 1]) \subseteq Txs(pool)
                        /\ \A g \in Txs(a[k + 1]) : \A j \in 1 .. (k + 1) :
                             input[g] \cap input[txs[j]] = {}
                        /\ \A g \in Txs(a[k + 1]) : \A e \in (Txs(pool) \ Txs(a[k + 1])) \ B :
                             ~Spends(g, e)
      OBVIOUS
    <3>1. /\ Txs(a[k]) \subseteq Txs(pool)
          /\ \A g \in Txs(a[k]) : \A j \in 1 .. k : input[g] \cap input[txs[j]] = {}
          /\ \A g \in Txs(a[k]) : \A e \in (Txs(pool) \ Txs(a[k])) \ B : ~Spends(g, e)
      BY <1>1, <2>2
    <3>2. /\ Txs(a[k + 1]) \subseteq Txs(a[k])
          /\ \A g \in Txs(a[k + 1]) : input[g] \cap input[txs[k + 1]] = {}
          /\ \A g \in Txs(a[k + 1]) : \A e \in (Txs(a[k]) \ Txs(a[k + 1])) \ {txs[k + 1]} :
               ~Spends(g, e)
      BY Zenon, <1>5 DEF IsRemoval
    <3>3. \A j \in 1 .. (k + 1) : j = k + 1 \/ j \in 1 .. k
      OBVIOUS
    <3> HIDE DEF A
    <3>4. \A g \in Txs(a[k + 1]) : \A j \in 1 .. (k + 1) : input[g] \cap input[txs[j]] = {}
      BY <3>1, <3>2, <3>3
    <3>5. txs[k + 1] \in B
      BY ZenonT(30), <1>5
    <3> QED BY <3>1, <3>2, <3>4, <3>5
  <2> HIDE DEF A
  <2> QED BY <2>1, <2>2, NatInd
<1>7. /\ Txs(q) \subseteq Txs(pool)
      /\ \A g \in Txs(q) : \A j \in 1 .. n : input[g] \cap input[txs[j]] = {}
      /\ \A g \in Txs(q) : \A e \in (Txs(pool) \ Txs(q)) \ B : ~Spends(g, e)
  <2>1. n \in A /\ n <= n
    BY <1>1, <1>6
  <2> QED BY <1>4, <2>1
<1>8. \A g \in Txs(q) : \A t \in B : input[g] \cap input[t] = {}
  BY Zenon, <1>2, <1>7
<1> DEFINE C == {m \in Nat : m <= n => Txs(q) \subseteq Txs(a[n - m])}
<1>9. \A m \in Nat : m \in C
  <2>1. 0 \in C
    BY <1>1, <1>4
  <2>2. ASSUME NEW m \in Nat, m \in C PROVE m + 1 \in C
    <3> SUFFICES ASSUME m + 1 <= n PROVE Txs(q) \subseteq Txs(a[n - (m + 1)])
      OBVIOUS
    <3> DEFINE k == n - (m + 1)
    <3>1. k \in Nat /\ k + 1 <= n /\ k + 1 = n - m
      BY <1>1
    <3>2. Txs(q) \subseteq Txs(a[k + 1])
      BY <1>1, <2>2, <3>1
    <3> HIDE DEF k, C
    <3>3. Txs(a[k + 1]) \subseteq Txs(a[k])
      BY Zenon, <1>5, <3>1 DEF IsRemoval
    <3> QED BY <3>2, <3>3 DEF k
  <2> HIDE DEF C
  <2> QED BY <2>1, <2>2, NatInd
<1>10. ASSUME NEW k \in Nat, k <= n PROVE Txs(q) \subseteq Txs(a[k])
  <2>1. n - k \in Nat /\ n - k <= n /\ n - (n - k) = k
    BY <1>1, <1>10
  <2>2. n - k \in C
    BY <1>9, <2>1
  <2> QED BY <2>1, <2>2
<1>11. ASSUME NEW S,
              \A g \in Txs(pool) \ Txs(q) :
                \/ \E t \in B \ {g} : input[g] \cap input[t] # {}
                \/ \E e \in S : Spends(g, e)
                => g \in S
       PROVE  Txs(pool) \ Txs(q) \subseteq S \cup B
  <2> DEFINE E == {k \in Nat : k <= n => Txs(pool) \ Txs(a[k]) \subseteq S \cup B}
  <2>1. 0 \in E
    BY <1>4
  <2>2. ASSUME NEW k \in Nat, k \in E PROVE k + 1 \in E
    <3> SUFFICES ASSUME k + 1 <= n PROVE Txs(pool) \ Txs(a[k + 1]) \subseteq S \cup B
      OBVIOUS
    <3>1. Txs(pool) \ Txs(a[k]) \subseteq S \cup B
      BY <1>1, <2>2
    <3> HIDE DEF E
    <3>2. k \in A
      BY <1>6
    <3>3. Txs(a[k]) \subseteq Txs(pool)
      BY <1>1, <3>2
    <3> HIDE DEF A
    <3>4. Txs(q) \subseteq Txs(a[k + 1])
      BY <1>10
    <3> DEFINE h == txs[k + 1]
    <3>5. h \in B /\ h \in Transaction /\ IsRemoval(a[k], a[k + 1], h)
      BY <1>5
    <3> HIDE DEF h
    <3>6. \A g \in (Txs(a[k]) \ Txs(a[k + 1])) \ {h} :
            input[g] \cap input[h] # {} \/ (\E e \in S : Spends(g, e)) => g \in S
      BY SMTT(30), <1>11, <3>3, <3>4, <3>5
    <3>7. Txs(a[k]) \ Txs(a[k + 1]) \subseteq S \cup {h}
      BY <3>5, <3>6 DEF IsRemoval
    <3> QED BY <3>1, <3>5, <3>7
  <2>3. n \in E
    <3> HIDE DEF E
    <3> QED BY <1>1, <2>1, <2>2, NatInd
  <2> QED BY <1>1, <1>4, <2>3
<1>12. q \in Pools
  BY <1>1, <1>4
<1> QED BY <1>7, <1>8, <1>11, <1>12 DEF B

\* A transaction that is accepted is added to all maps.
LEMMA InsertOK ==
  ASSUME pool \in Pools, NEW h \in Transaction, Accepts(h), insert(h)
  PROVE  pool' \in Pools /\ Txs(pool') = Txs(pool) \cup {h}
<1> DEFINE p == pool
           q == pool'
           txs == DOMAIN p.by_hash
           c == p.counter
<1>1. /\ PoolOK(p) /\ p \in PoolSet /\ h \notin txs /\ c \in Nat
      /\ \A i \in input[h] : i \notin DOMAIN p.by_input
  BY ZenonT(30) DEF Pools, PoolOK, PoolSet, Accepts, contains, is_double_spend
<1>2. q = [num_transactions |-> p.num_transactions + 1,
           counter          |-> c + 1,
           by_hash          |-> With(p.by_hash, {h}, c),
           by_input         |-> With(p.by_input, input[h], h),
           by_storage_index |-> With(p.by_storage_index, {c}, h)]
  BY DEF insert
<1>3. q \in PoolSet
  <2> DEFINE I == UNION {input[g] : g \in Transaction}
  <2>1. /\ With(p.by_hash, {h}, c) \in Maps(Transaction, Nat)
        /\ With(p.by_storage_index, {c}, h) \in Maps(Nat, Transaction)
    BY Zenon, <1>1, WithMap DEF PoolSet
  <2>2. input[h] \in SUBSET I
    OBVIOUS
  <2>3. p.by_input \in Maps(I, Transaction)
    BY <1>1 DEF PoolSet
  <2> HIDE DEF I
  <2>4. With(p.by_input, input[h], h) \in Maps(I, Transaction)
    BY ZenonT(30), <2>2, <2>3, WithMap
  <2>5. p.num_transactions + 1 \in Int /\ c + 1 \in Nat
    BY <1>1 DEF PoolSet
  <2> QED BY ZenonT(30), <1>2, <2>1, <2>4, <2>5 DEF PoolSet, I
<1>4. /\ DOMAIN q.by_hash = txs \cup {h} /\ q.by_hash[h] = c
      /\ \A g \in txs : q.by_hash[g] = p.by_hash[g]
      /\ DOMAIN q.by_input = DOMAIN p.by_input \cup input[h]
      /\ \A i \in input[h] : q.by_input[i] = h
      /\ \A i \in DOMAIN p.by_input : q.by_input[i] = p.by_input[i]
      /\ DOMAIN q.by_storage_index = DOMAIN p.by_storage_index \cup {c}
      /\ q.by_storage_index[c] = h
      /\ \A n \in DOMAIN p.by_storage_index \ {c} : q.by_storage_index[n] = p.by_storage_index[n]
      /\ q.num_transactions = p.num_transactions + 1
      /\ q.counter = c + 1
  BY Zenon, <1>1, <1>2 DEF With
<1> HIDE DEF q, c
<1>5. IsFiniteSet(txs \cup {h}) /\ q.num_transactions = Cardinality(txs \cup {h})
  <2>1. IsFiniteSet(txs) /\ p.num_transactions = Cardinality(txs)
    BY <1>1 DEF PoolOK
  <2>2. /\ IsFiniteSet(txs \cup {h})
        /\ Cardinality(txs \cup {h}) = IF h \in txs THEN Cardinality(txs) ELSE Cardinality(txs) + 1
    BY SMTT(30), <2>1, FS_AddElement
  <2> QED BY ZenonT(30), <1>1, <1>4, <2>1, <2>2
<1>6. \A g \in txs : /\ p.by_hash[g] < c /\ p.by_hash[g] \in Nat
                     /\ p.by_hash[g] \in DOMAIN p.by_storage_index
                     /\ p.by_storage_index[p.by_hash[g]] = g
  <2>1. p.by_hash \in [txs -> Nat]
    BY SMTT(30), <1>1, MapType DEF PoolSet
  <2> QED BY <1>1, <2>1 DEF PoolOK, c
<1>7. \A g \in txs \cup {h} : q.by_hash[g] < q.counter /\ q.by_storage_index[q.by_hash[g]] = g
  BY SMTT(30), <1>1, <1>4, <1>6
<1>8. DOMAIN q.by_storage_index = {q.by_hash[g] : g \in txs \cup {h}}
  <2>1. DOMAIN p.by_storage_index = {p.by_hash[g] : g \in txs}
    BY <1>1 DEF PoolOK
  <2> QED BY <1>4, <2>1
<1>9. DOMAIN q.by_input = UNION {input[g] : g \in txs \cup {h}}
  <2>1. DOMAIN p.by_input = UNION {input[g] : g \in txs}
    BY <1>1 DEF PoolOK
  <2> QED BY <1>4, <2>1
<1>10. \A g \in txs \cup {h} : \A i \in input[g] : q.by_input[i] = g
  <2>1. \A g \in txs : \A i \in input[g] : i \in DOMAIN p.by_input /\ p.by_input[i] = g
    BY <1>1 DEF PoolOK
  <2> QED BY ZenonT(30), <1>4, <2>1
<1> QED BY ZenonT(30), <1>3, <1>4, <1>5, <1>7, <1>8, <1>9, <1>10 DEF PoolOK, Pools, Txs, q

\* What the generator signs, once it has selected coins, is a transaction.
Signing == gpc # "loop" => transaction \in Transaction

\* Every step keeps that.
LEMMA NextSigning ==
  ASSUME Signing, [GeneratorNext]_allVars
  PROVE  Signing'
  <1>1. CASE SelectCoins
    BY <1>1 DEF SelectCoins, Created, Signing
  <1>2. CASE RemoveCoins
    BY <1>2 DEF RemoveCoins, Signing
  <1>3. CASE Submit
    BY <1>3 DEF Submit, Signing
  <1>4. CASE gpc' = gpc /\ transaction' = transaction
    BY <1>4 DEF Signing
  <1> QED
    BY Zenon, <1>1, <1>2, <1>3, <1>4
       DEF GeneratorNext, handle_control_signal, InsufficientBalance, Confirm, Rollback,
           CountCoins, WriteCoins, ReceiveTransaction, ReceiveBlock, generatorVars, allVars

\* The steps of the generator, the wallet and the network, as the pool sees them.
PoolStep ==
  \/ pool' = pool /\ block' \in {<<>>, block}
  \/ \E h \in Transaction : Accepts(h) /\ insert(h) /\ block' = <<>>
  \/ \E txs \in Seq(Transaction) : pool' = RemoveBlock(txs) /\ block' = txs

\* No action does anything else to it.
LEMMA EveryPoolStep ==
  ASSUME Signing, [GeneratorNext]_allVars
  PROVE  PoolStep
  <1>1. CASE Submit
    <2>1. transaction \in Transaction /\ new_transaction(transaction) /\ block' = <<>>
      BY <1>1 DEF Submit, Signing
    <2> QED
      BY <2>1 DEF new_transaction, PoolStep
  <1>2. CASE ReceiveTransaction
    BY <1>2 DEF ReceiveTransaction, NewTransaction, new_transaction, PoolStep
  <1>3. CASE ReceiveBlock
    <2>1. PICK txs \in SeqOf(Transaction, MaxBlock) : new_validated_block(txs) /\ block' = txs
      BY <1>3 DEF ReceiveBlock, NewBlock
    <2>2. PICK m \in 0 .. MaxBlock : txs \in [1 .. m -> Transaction]
      BY DEF SeqOf
    <2>3. txs \in Seq(Transaction)
      BY <2>2
    <2> QED
      BY <2>1, <2>3 DEF new_validated_block, PoolStep
  <1>4. CASE UNCHANGED allVars
    BY <1>4 DEF allVars, vars, PoolStep
  <1>5. CASE PoolAlone
    BY <1>5 DEF PoolAlone, PoolStep
  <1> QED
    BY Zenon, <1>1, <1>2, <1>3, <1>4, <1>5
       DEF GeneratorNext, handle_control_signal, SelectCoins, InsufficientBalance, RemoveCoins,
           Confirm, Rollback, CountCoins, WriteCoins

\* What makes PoolAgrees inductive.
PoolInv == Signing /\ pool \in Pools

\* The empty pool is consistent.
LEMMA InitPool == GeneratorInit => PoolInv
  <1> SUFFICES ASSUME GeneratorInit PROVE PoolInv
    OBVIOUS
  <1>1. pool = [num_transactions |-> 0, counter |-> 0, by_hash |-> [h \in {} |-> 0],
                by_input |-> [i \in {} |-> 0], by_storage_index |-> [n \in {} |-> 0]]
    BY Zenon DEF GeneratorInit, Init
  <1>2. \A K, V : \A e : [x \in {} |-> e] \in Maps(K, V)
    BY SMTT(30) DEF Maps
  <1>3. pool \in PoolSet
    BY <1>1, <1>2 DEF PoolSet
  <1>4. IsFiniteSet({}) /\ Cardinality({}) = 0
    BY FS_EmptySet
  <1>5. pool \in Pools
    BY ZenonT(30), <1>1, <1>3, <1>4 DEF Pools, PoolOK
  <1>6. Signing
    BY Zenon DEF GeneratorInit, Signing
  <1> QED
    BY <1>5, <1>6 DEF PoolInv

\* Every step keeps it consistent.
LEMMA NextPool == PoolInv /\ [GeneratorNext]_allVars => PoolInv'
  <1> SUFFICES ASSUME PoolInv, [GeneratorNext]_allVars PROVE PoolInv'
    OBVIOUS
  <1>1. Signing' /\ PoolStep
    BY Zenon, NextSigning, EveryPoolStep DEF PoolInv
  <1>2. (pool \in Pools)'
    BY Zenon, <1>1, InsertOK, RemoveBlockFacts DEF PoolInv, PoolStep, Pools, PoolOK, PoolSet, Txs
  <1> QED
    BY Zenon, <1>1, <1>2 DEF PoolInv

\* The invariants hold of every behaviour.
LEMMA PoolInvariance == GeneratorSpec => []PoolInv
  BY InitPool, NextPool, PTL DEF GeneratorSpec

\* The maps and the count of the memory pool agree (PoolAgrees) for any transactions,
\* insertions and blocks, so that its unwraps never fail.
THEOREM PoolIsConsistent == GeneratorSpec => []PoolAgrees
  <1>1. PoolInv => PoolAgrees
    BY Zenon DEF PoolInv, Pools, PoolOK, PoolAgrees
  <1> QED
    BY <1>1, PoolInvariance, PTL

\* After a block no transaction of the pool conflicts with it or depends on one that
\* was evicted (EvictionIsComplete): the queue of remove_by_input reaches everything,
\* however deep the dependencies are.
THEOREM EvictionReachesAll == GeneratorSpec => EvictionIsComplete
  <1>1. PoolInv /\ [GeneratorNext]_allVars => [EvictsDependents]_vars
    <2> SUFFICES ASSUME PoolInv, [GeneratorNext]_allVars PROVE EvictsDependents \/ UNCHANGED vars
      OBVIOUS
    <2>1. CASE pool' = pool /\ block' \in {<<>>, block}
      BY <2>1 DEF EvictsDependents, vars, ToSet
    <2>2. ASSUME NEW h \in Transaction, Accepts(h), insert(h), block' = <<>>
          PROVE  EvictsDependents
      BY <2>2, InsertOK DEF EvictsDependents, PoolInv, ToSet, Txs
    <2>3. ASSUME NEW txs \in Seq(Transaction), pool' = RemoveBlock(txs), block' = txs
          PROVE  EvictsDependents
      BY ZenonT(30), <2>3, RemoveBlockFacts DEF EvictsDependents, PoolInv, Txs, Spends
    <2> QED
      BY <2>1, <2>2, <2>3, EveryPoolStep DEF PoolStep, PoolInv
  <1> QED
    BY <1>1, PoolInvariance, PTL DEF GeneratorSpec, EvictionIsComplete

\* A block evicts only its own transactions, those it conflicts with, and what
\* depends on these (EvictionIsNeeded).
THEOREM EvictionTakesNoOther == GeneratorSpec => EvictionIsNeeded
  <1>1. PoolInv /\ [GeneratorNext]_allVars => [EvictsNoOther]_vars
    <2> SUFFICES ASSUME PoolInv, [GeneratorNext]_allVars PROVE EvictsNoOther \/ UNCHANGED vars
      OBVIOUS
    <2>1. CASE pool' = pool /\ block' \in {<<>>, block}
      BY <2>1 DEF EvictsNoOther
    <2>2. ASSUME NEW h \in Transaction, Accepts(h), insert(h), block' = <<>>
          PROVE  EvictsNoOther
      BY <2>2, InsertOK DEF EvictsNoOther, PoolInv, Txs
    <2>3. ASSUME NEW txs \in Seq(Transaction), pool' = RemoveBlock(txs), block' = txs
          PROVE  EvictsNoOther
      BY Zenon, <2>3, RemoveBlockFacts DEF EvictsNoOther, PoolInv, Txs, Spends
    <2> QED
      BY <2>1, <2>2, <2>3, EveryPoolStep DEF PoolStep, PoolInv
  <1> QED
    BY <1>1, PoolInvariance, PTL DEF GeneratorSpec, EvictionIsNeeded
=============================================================================
