---------------------------- MODULE LedgerProofs ----------------------------
(***************************************************************************)
(* Proofs about the walk of update_ledger, for any blocks: it visits only  *)
(* unconfirmed blocks, and reversed it has a block after its references.   *)
(***************************************************************************)
EXTENDS Ledger, BlockChainProofs, Induction

-----------------------------------------------------------------------------
(* Induction and recursion along a measure.                                *)

\* Induction over a set whose elements have a measure.
LEMMA MeasureInd ==
  ASSUME NEW X, NEW m \in [X -> Nat], NEW S,
         \A x \in X : (\A y \in X : m[y] < m[x] => y \in S) => x \in S
  PROVE  \A x \in X : x \in S
  <1> SUFFICES ASSUME NEW z \in X, z \notin S PROVE FALSE
    OBVIOUS
  <1> DEFINE T == {m[x] : x \in X \ S}
  <1>1. T \in SUBSET Nat /\ T # {}
    OBVIOUS
  <1> HIDE DEF T
  <1>2. PICK n \in T : \A k \in T : n <= k
    BY <1>1, NatMin
  <1>3. PICK x \in X \ S : n = m[x]
    BY <1>2 DEF T
  <1>4. ASSUME NEW y \in X, m[y] < m[x], y \notin S PROVE FALSE
    <2>1. m[y] \in T
      BY <1>4 DEF T
    <2> QED
      BY <1>2, <1>3, <1>4, <2>1
  <1> QED
    BY <1>3, <1>4

\* G defines a function by recursion along a measure: it gives the value at x from the
\* values at the elements of a smaller measure.
IsRecursive(G, X, m, D) ==
  /\ \A x \in X : \A g \in [X -> D] : G[<<x, g>>] \in D
  /\ \A x \in X : \A g, h \in [X -> D] :
       (\A y \in X : m[y] < m[x] => g[y] = h[y]) => G[<<x, g>>] = G[<<x, h>>]

\* Such a function exists.
LEMMA MeasureRecursion ==
  ASSUME NEW X, NEW m \in [X -> Nat], NEW D, NEW d \in D, NEW G, IsRecursive(G, X, m, D)
  PROVE  \E f \in [X -> D] : \A x \in X : f[x] = G[<<x, f>>]
  <1> DEFINE E == [X -> D]
             b == [x \in X |-> d]
             F == [p \in Nat \X E |-> [x \in X |-> G[<<x, p[2]>>]]]
  <1>0. /\ \A x \in X : \A g \in [X -> D] : G[<<x, g>>] \in D
        /\ \A x \in X : \A g, h \in [X -> D] :
             (\A y \in X : m[y] < m[x] => g[y] = h[y]) => G[<<x, g>>] = G[<<x, h>>]
    BY DEF IsRecursive
  <1>1. b \in E /\ F \in [Nat \X E -> E]
    BY <1>0
  <1>2. \A n \in Nat : \A g \in E : F[<<n, g>>] = [x \in X |-> G[<<x, g>>]]
    BY Zenon
  <1> HIDE DEF b, F, E
  <1>3. PICK h \in [Nat -> E] : IsNatRecursion(h, b, F)
    BY Zenon, <1>1, NatRecursion
  <1>4. ASSUME NEW n \in Nat PROVE h[n + 1] = [x \in X |-> G[<<x, h[n]>>]]
    <2>1. h[n + 1] = F[<<n + 1, h[(n + 1) - 1]>>]
      <3>1. n + 1 \in Nat /\ n + 1 # 0
        OBVIOUS
      <3> QED
        BY <1>3, <3>1 DEF IsNatRecursion
    <2>2. (n + 1) - 1 = n
      OBVIOUS
    <2> QED
      BY <1>2, <2>1, <2>2
  <1>5. \A n \in Nat : h[n] \in [X -> D]
    BY <1>3 DEF E
  <1> DEFINE S == {n \in Nat : \A x \in X : m[x] < n => h[n + 1][x] = h[n][x]}
  <1>6. 0 \in S
    OBVIOUS
  <1>7. ASSUME NEW n \in Nat, n \in S PROVE n + 1 \in S
    <2> SUFFICES ASSUME NEW x \in X, m[x] < n + 1
                 PROVE  h[(n + 1) + 1][x] = h[n + 1][x]
      OBVIOUS
    <2>1. h[(n + 1) + 1][x] = G[<<x, h[n + 1]>>] /\ h[n + 1][x] = G[<<x, h[n]>>]
      <3>1. h[(n + 1) + 1] = [y \in X |-> G[<<y, h[n + 1]>>]]
        BY <1>4
      <3>2. h[n + 1] = [y \in X |-> G[<<y, h[n]>>]]
        BY <1>4
      <3>3. ASSUME NEW u, NEW v, u = [y \in X |-> G[<<y, v>>]] PROVE u[x] = G[<<x, v>>]
        BY <3>3
      <3> QED
        BY <3>1, <3>2, <3>3
    <2>2. \A y \in X : m[y] < m[x] => h[n + 1][y] = h[n][y]
      BY <1>7
    <2>3. h[n + 1] \in [X -> D] /\ h[n] \in [X -> D]
      BY <1>5
    <2> QED
      BY <1>0, <2>1, <2>2, <2>3
  <1>8. \A n \in Nat : n \in S
    <2> HIDE DEF S
    <2> QED
      BY <1>6, <1>7, NatInd
  <1>9. \A n \in Nat : \A x \in X : m[x] < n => h[n + 1][x] = h[n][x]
    BY <1>8
  <1>10. ASSUME NEW x \in X, NEW n \in Nat, m[x] < n PROVE h[n][x] = h[m[x] + 1][x]
    <2> DEFINE T == {k \in Nat : h[(m[x] + 1) + k][x] = h[m[x] + 1][x]}
    <2>1. 0 \in T
      OBVIOUS
    <2>2. ASSUME NEW k \in Nat, k \in T PROVE k + 1 \in T
      <3>1. (m[x] + 1) + k \in Nat /\ m[x] < (m[x] + 1) + k
              /\ ((m[x] + 1) + k) + 1 = (m[x] + 1) + (k + 1)
        OBVIOUS
      <3>2. h[((m[x] + 1) + k) + 1][x] = h[(m[x] + 1) + k][x]
        BY <3>1, <1>9
      <3> QED
        BY <2>2, <3>1, <3>2
    <2>3. \A k \in Nat : k \in T
      <3> HIDE DEF T
      <3> QED
        BY <2>1, <2>2, NatInd
    <2>4. n - (m[x] + 1) \in Nat /\ (m[x] + 1) + (n - (m[x] + 1)) = n
      BY <1>10
    <2>5. n - (m[x] + 1) \in T
      BY <2>3, <2>4
    <2> QED
      BY <2>4, <2>5
  <1> DEFINE f == [x \in X |-> h[m[x] + 1][x]]
  <1>11. f \in [X -> D]
    BY <1>5
  <1>12. ASSUME NEW x \in X PROVE f[x] = G[<<x, f>>]
    <2>1. f[x] = G[<<x, h[m[x]]>>]
      <3>1. m[x] \in Nat
        OBVIOUS
      <3>2. h[m[x] + 1] = [y \in X |-> G[<<y, h[m[x]]>>]]
        BY <1>4, <3>1
      <3> QED
        BY <3>2
    <2>2. \A y \in X : m[y] < m[x] => f[y] = h[m[x]][y]
      BY <1>10
    <2> HIDE DEF f
    <2> QED
      BY Zenon, <1>0, <1>5, <1>11, <2>1, <2>2
  <1> HIDE DEF f
  <1> QED
    BY <1>11, <1>12

\* The least element of a set of naturals.
LEMMA MinNat ==
  ASSUME NEW S \in SUBSET Nat, S # {}
  PROVE  Min(S) \in S /\ \A x \in S : Min(S) <= x
  BY Zenon, NatMin DEF Min

-----------------------------------------------------------------------------
(* Lists, and lists of lists.                                              *)

\* Lists of the same length with the same elements are the same.
LEMMA ListsEqual ==
  ASSUME NEW S, NEW s \in Seq(S), NEW t \in Seq(S), Len(s) = Len(t),
         \A i \in 1 .. Len(s) : s[i] = t[i]
  PROVE  s = t
OBVIOUS

\* FlattenSeq appends the lists one after the other: a is the list after each of them.
IsFlatten(a, s) ==
  a[0] = <<>> /\ \A i \in 1 .. Len(s) : a[i] = a[i - 1] \o s[i]

\* The function that FoldLeft takes the value of for FlattenSeq.
IsFlattenFold(f, s) == f = [i \in 0 .. Len(s) |-> IF i = 0 THEN <<>> ELSE f[i - 1] \o s[i]]

\* Such a trace exists, and FlattenSeq is its end.
LEMMA FlattenTrace ==
  ASSUME NEW S, NEW s \in Seq(Seq(S))
  PROVE  \E a \in [0 .. Len(s) -> Seq(S)] : IsFlatten(a, s) /\ FlattenSeq(s) = a[Len(s)]
  <1> DEFINE n == Len(s)
             D == Seq(S)
             F == [x \in (1 .. n) \X D |-> x[2] \o s[x[1]]]
             g == CHOOSE f : IsFlattenFold(f, s)
  <1>1. n \in Nat /\ <<>> \in D
    OBVIOUS
  <1>2. \A i \in 1 .. n : \A u \in D : u \o s[i] \in D
    OBVIOUS
  <1>3. F \in [(1 .. n) \X D -> D]
    <2> HIDE DEF D, n
    <2> QED
      BY <1>2
  <1>4. \A k \in 1 .. n : \A u \in D : F[<<k, u>>] = u \o s[k]
    <2> HIDE DEF D, n
    <2> QED
      BY Zenon
  <1> HIDE DEF F, D
  <1>5. PICK f : IsFold(f, n, D, <<>>, F)
    <2> HIDE DEF n
    <2> QED
      BY Zenon, <1>1, <1>3, FoldExists
  <1>6. IsFlattenFold(f, s)
    <2>1. ASSUME NEW i \in 0 .. n PROVE f[i] = IF i = 0 THEN <<>> ELSE f[i - 1] \o s[i]
      <3>1. CASE i = 0
        BY <1>5, <3>1 DEF IsFold
      <3>2. CASE i # 0
        <4>1. i \in 1 .. n /\ i - 1 \in 0 .. n
          BY <1>1, <3>2
        <4>2. f[i - 1] \in D /\ f[i] = F[<<i, f[i - 1]>>]
          BY Zenon, <1>5, <4>1 DEF IsFold
        <4> QED
          BY Zenon, <1>4, <3>2, <4>1, <4>2
      <3> QED
        BY <3>1, <3>2
    <2>2. f = [i \in 0 .. n |-> IF i = 0 THEN <<>> ELSE f[i - 1] \o s[i]]
      BY Zenon, <1>5, <2>1 DEF IsFold
    <2> QED
      BY Zenon, <2>2 DEF IsFlattenFold
  <1>7. IsFlattenFold(g, s)
    BY <1>6
  <1>8. FlattenSeq(s) = g[n]
    BY DEF FlattenSeq, FoldLeft, IsFlattenFold
  <1> HIDE DEF g, n
  <1>9. g = [i \in 0 .. n |-> IF i = 0 THEN <<>> ELSE g[i - 1] \o s[i]]
    BY <1>7 DEF IsFlattenFold, n
  <1>12. (\A k \in 1 .. n : k \in 0 .. n /\ k # 0) /\ 0 \in 0 .. n
    BY <1>1
  <1>10. RunsFold(g, n, D, <<>>, F)
    <2>1. g = [i \in 0 .. n |-> g[i]] /\ g[0] = <<>>
      BY Zenon, <1>9, <1>12
    <2>2. \A k \in 1 .. n : g[k] = g[k - 1] \o s[k]
      BY Zenon, <1>9, <1>12
    <2> QED
      BY Zenon, <1>4, <2>1, <2>2 DEF RunsFold
  <1>11. IsFold(g, n, D, <<>>, F)
    BY Zenon, <1>1, <1>3, <1>10, FoldTrace
  <1>13. IsFlatten(g, s)
    BY Zenon, <1>9, <1>11, <1>12 DEF IsFold, IsFlatten, n
  <1>14. g \in [0 .. n -> D]
    BY <1>11 DEF IsFold
  <1> QED
    BY <1>8, <1>13, <1>14 DEF n, D

\* Where the elements of a concatenation are.
LEMMA ConcatFacts ==
  ASSUME NEW S, NEW u \in Seq(S), NEW v \in Seq(S)
  PROVE  /\ u \o v \in Seq(S) /\ Len(u \o v) = Len(u) + Len(v)
         /\ Len(u) \in Nat /\ Len(v) \in Nat
         /\ \A p \in 1 .. Len(u) : (u \o v)[p] = u[p]
         /\ \A k \in 1 .. Len(v) : (u \o v)[Len(u) + k] = v[k]
  <1>1. u \o v \in Seq(S) /\ Len(u \o v) = Len(u) + Len(v)
    OBVIOUS
  <1>2. \A p \in 1 .. Len(u) : (u \o v)[p] = u[p]
    OBVIOUS
  <1>3. ASSUME NEW k \in 1 .. Len(v) PROVE (u \o v)[Len(u) + k] = v[k]
    OBVIOUS
  <1> QED
    BY <1>1, <1>2, <1>3

\* A concatenation ranges over what its two parts range over.
LEMMA RangeCat ==
  ASSUME NEW S, NEW u \in Seq(S), NEW v \in Seq(S)
  PROVE  Range(u \o v) = Range(u) \cup Range(v)
  <1> DEFINE w == u \o v
  <1>1. /\ w \in Seq(S) /\ Len(w) = Len(u) + Len(v)
        /\ Len(u) \in Nat /\ Len(v) \in Nat
        /\ \A p \in 1 .. Len(u) : w[p] = u[p]
        /\ \A k \in 1 .. Len(v) : w[Len(u) + k] = v[k]
    BY ConcatFacts
  <1> HIDE DEF w
  <1>2. DOMAIN w = 1 .. Len(u) + Len(v) /\ DOMAIN u = 1 .. Len(u) /\ DOMAIN v = 1 .. Len(v)
    BY <1>1
  <1>3. ASSUME NEW x \in Range(w) PROVE x \in Range(u) \cup Range(v)
    <2>1. PICK p \in 1 .. Len(u) + Len(v) : x = w[p]
      BY <1>2 DEF Range
    <2>2. CASE p <= Len(u)
      BY <1>1, <1>2, <2>1, <2>2 DEF Range
    <2>3. CASE ~(p <= Len(u))
      <3>1. p - Len(u) \in 1 .. Len(v) /\ Len(u) + (p - Len(u)) = p
        BY <1>1, <2>3
      <3>2. w[p] = v[p - Len(u)]
        BY <1>1, <3>1
      <3> QED
        BY <1>2, <2>1, <3>1, <3>2 DEF Range
    <2> QED
      BY <2>2, <2>3
  <1>4. ASSUME NEW x \in Range(u) PROVE x \in Range(w)
    <2>1. PICK p \in 1 .. Len(u) : x = u[p]
      BY <1>2 DEF Range
    <2>2. p \in 1 .. Len(u) + Len(v) /\ w[p] = x
      BY <1>1, <2>1
    <2> QED
      BY <1>2, <2>2 DEF Range
  <1>5. ASSUME NEW x \in Range(v) PROVE x \in Range(w)
    <2>1. PICK k \in 1 .. Len(v) : x = v[k]
      BY <1>2 DEF Range
    <2>2. Len(u) + k \in 1 .. Len(u) + Len(v) /\ w[Len(u) + k] = x
      BY <1>1, <2>1
    <2> QED
      BY <1>2, <2>2 DEF Range
  <1> QED
    BY <1>3, <1>4, <1>5 DEF w

\* Induction over the lists that FlattenSeq concatenates: P relates how many it has
\* taken to what it has made of them.
FlattenKeeps(P, S, s) ==
  /\ <<0, <<>>>> \in P
  /\ \A i \in 1 .. Len(s) : \A u \in Seq(S) : <<i - 1, u>> \in P => <<i, u \o s[i]>> \in P
LEMMA FlattenInd ==
  ASSUME NEW S, NEW s \in Seq(Seq(S)), NEW P, FlattenKeeps(P, S, s)
  PROVE  FlattenSeq(s) \in Seq(S) /\ <<Len(s), FlattenSeq(s)>> \in P
  <1> DEFINE n == Len(s)
  <1>0. n \in Nat
    OBVIOUS
  <1>1. PICK a \in [0 .. n -> Seq(S)] : IsFlatten(a, s) /\ FlattenSeq(s) = a[n]
    BY FlattenTrace
  <1> DEFINE T == {i \in Nat : i \in 0 .. n => <<i, a[i]>> \in P}
  <1>2. 0 \in T
    BY Zenon, <1>1 DEF IsFlatten, FlattenKeeps
  <1>3. ASSUME NEW i \in Nat, i \in T PROVE i + 1 \in T
    <2> SUFFICES ASSUME i + 1 \in 0 .. n PROVE <<i + 1, a[i + 1]>> \in P
      OBVIOUS
    <2>1. i + 1 \in 1 .. n /\ (i + 1) - 1 = i /\ i \in 0 .. n
      BY <1>0
    <2>2. a[i + 1] = a[i] \o s[i + 1] /\ a[i] \in Seq(S) /\ <<i, a[i]>> \in P
      BY Zenon, <1>1, <1>3, <2>1 DEF IsFlatten
    <2> QED
      BY Zenon, <2>1, <2>2 DEF FlattenKeeps
  <1>4. n \in T
    <2> HIDE DEF T, n
    <2> QED
      BY Zenon, <1>0, <1>2, <1>3, NatInd
  <1>5. n \in 0 .. n
    BY <1>0
  <1> QED
    BY <1>0, <1>1, <1>4, <1>5

\* FlattenSeq ranges over what the lists range over.
LEMMA FlattenRange ==
  ASSUME NEW S, NEW s \in Seq(Seq(S))
  PROVE  /\ FlattenSeq(s) \in Seq(S)
         /\ \A x : x \in Range(FlattenSeq(s)) <=> \E i \in 1 .. Len(s) : x \in Range(s[i])
  <1> DEFINE U(i) == UNION {Range(s[j]) : j \in 1 .. i}
             P == {e \in (0 .. Len(s)) \X Seq(S) : Range(e[2]) = U(e[1])}
  <1>1. <<0, <<>>>> \in P
    <2>1. <<>> \in Seq(S) /\ Range(<<>>) = {} /\ 0 \in 0 .. Len(s)
      BY DEF Range
    <2>2. U(0) = {}
      OBVIOUS
    <2> HIDE DEF U
    <2> QED
      BY Zenon, <2>1, <2>2
  <1>2. ASSUME NEW i \in 1 .. Len(s), NEW u \in Seq(S), <<i - 1, u>> \in P
        PROVE  <<i, u \o s[i]>> \in P
    <2>1. s[i] \in Seq(S) /\ Range(u) = U(i - 1)
      BY <1>2
    <2>2. Range(u \o s[i]) = Range(u) \cup Range(s[i]) /\ u \o s[i] \in Seq(S)
      BY <2>1, RangeCat, ConcatFacts
    <2>3. U(i) = U(i - 1) \cup Range(s[i])
      <3>1. \A j : j \in 1 .. i <=> j \in 1 .. i - 1 \/ j = i
        OBVIOUS
      <3> QED
        BY <3>1, Zenon
    <2>4. i \in 0 .. Len(s)
      OBVIOUS
    <2> HIDE DEF U
    <2> QED
      BY Zenon, <2>1, <2>2, <2>3, <2>4
  <1>3. FlattenKeeps(P, S, s)
    <2> HIDE DEF P
    <2> QED
      BY Zenon, <1>1, <1>2 DEF FlattenKeeps
  <1>4. FlattenSeq(s) \in Seq(S) /\ <<Len(s), FlattenSeq(s)>> \in P
    <2> HIDE DEF P
    <2> QED
      BY <1>3, FlattenInd
  <1>5. Range(FlattenSeq(s)) = U(Len(s))
    BY <1>4
  <1> QED
    BY <1>4, <1>5

\* Two traces of the same lists agree.
LEMMA FlattenUnique ==
  ASSUME NEW s, Len(s) \in Nat, NEW a, NEW b, IsFlatten(a, s), IsFlatten(b, s)
  PROVE  a[Len(s)] = b[Len(s)]
  <1> DEFINE n == Len(s)
             T == {i \in Nat : i \in 0 .. n => a[i] = b[i]}
  <1>1. 0 \in T
    BY DEF IsFlatten
  <1>2. ASSUME NEW i \in Nat, i \in T PROVE i + 1 \in T
    <2> SUFFICES ASSUME i + 1 \in 0 .. n PROVE a[i + 1] = b[i + 1]
      BY <1>2
    <2>1. i + 1 \in 1 .. n /\ (i + 1) - 1 = i /\ i \in 0 .. n
      BY <1>2
    <2>2. a[i + 1] = a[i] \o s[i + 1] /\ b[i + 1] = b[i] \o s[i + 1]
      BY Zenon, <2>1 DEF IsFlatten
    <2> QED
      BY Zenon, <1>2, <2>1, <2>2
  <1>3. n \in T
    <2> HIDE DEF T
    <2> QED
      BY <1>1, <1>2, NatInd
  <1> QED
    BY <1>3

\* FlattenSeq is what any trace ends with.
LEMMA FlattenIs ==
  ASSUME NEW S, NEW s \in Seq(Seq(S)), NEW a, IsFlatten(a, s)
  PROVE  FlattenSeq(s) = a[Len(s)]
  <1>1. PICK b : IsFlatten(b, s) /\ FlattenSeq(s) = b[Len(s)]
    BY FlattenTrace
  <1>2. Len(s) \in Nat
    OBVIOUS
  <1>3. a[Len(s)] = b[Len(s)]
    BY <1>1, <1>2, FlattenUnique
  <1> QED
    BY <1>1, <1>3

\* FlattenSeq of two lists of lists, one after the other.
LEMMA FlattenCat ==
  ASSUME NEW S, NEW s \in Seq(Seq(S)), NEW t \in Seq(Seq(S))
  PROVE  FlattenSeq(s \o t) = FlattenSeq(s) \o FlattenSeq(t)
  <1> DEFINE m == Len(s)
             n == Len(t)
  <1>0. m \in Nat /\ n \in Nat
    OBVIOUS
  <1>1. PICK a \in [0 .. m -> Seq(S)] : IsFlatten(a, s) /\ FlattenSeq(s) = a[m]
    BY FlattenTrace
  <1>2. PICK b \in [0 .. n -> Seq(S)] : IsFlatten(b, t) /\ FlattenSeq(t) = b[n]
    BY FlattenTrace
  <1> DEFINE c == [i \in 0 .. m + n |-> IF i <= m THEN a[i] ELSE a[m] \o b[i - m]]
  <1>3. s \o t \in Seq(Seq(S)) /\ Len(s \o t) = m + n
          /\ (\A i \in 1 .. m : (s \o t)[i] = s[i])
          /\ (\A i \in 1 .. n : (s \o t)[m + i] = t[i])
    BY ConcatFacts
  <1>4. s \in [1 .. m -> Seq(S)] /\ t \in [1 .. n -> Seq(S)]
    OBVIOUS
  <1> HIDE DEF m, n
  <1>5. ASSUME NEW i \in 1 .. m + n PROVE c[i] = c[i - 1] \o (s \o t)[i]
    <2>1. CASE i <= m
      <3>1. i \in 1 .. m /\ i - 1 <= m /\ i \in 0 .. m + n /\ i - 1 \in 0 .. m + n
        BY <1>0, <2>1
      <3>2. a[i] = a[i - 1] \o s[i]
        BY Zenon, <1>1, <3>1 DEF IsFlatten, m
      <3>3. c[i] = a[i] /\ c[i - 1] = a[i - 1] /\ (s \o t)[i] = s[i]
        BY <1>3, <2>1, <3>1
      <3> HIDE DEF c
      <3> QED
        BY <3>2, <3>3
    <2>2. CASE i > m
      <3>0. i - m \in 1 .. n /\ m + (i - m) = i /\ i \in 0 .. m + n /\ i - 1 \in 0 .. m + n
              /\ (i - m) - 1 \in 0 .. n /\ i - m \in 0 .. n /\ ~(i <= m)
              /\ (i - 1) - m = (i - m) - 1 /\ 0 \in 0 .. n /\ m \in 0 .. m
        BY <1>0, <2>2
      <3>1. b[i - m] = b[(i - m) - 1] \o t[i - m]
        BY Zenon, <1>2, <3>0 DEF IsFlatten, n
      <3>2. (s \o t)[i] = t[i - m]
        BY Zenon, <1>3, <3>0
      <3>3. c[i] = a[m] \o b[i - m]
        BY <3>0
      <3>4. c[i - 1] = a[m] \o b[(i - m) - 1]
        <4>1. CASE i - 1 <= m
          <5>1. i - 1 = m /\ (i - m) - 1 = 0
            BY <1>0, <2>2, <4>1
          <5>2. b[0] = <<>> /\ a[m] \in Seq(S)
            BY <1>1, <1>2, <3>0 DEF IsFlatten
          <5>3. a[m] \o <<>> = a[m]
            BY <5>2
          <5>4. c[i - 1] = a[i - 1]
            BY <3>0, <4>1
          <5> HIDE DEF c
          <5> QED
            BY Zenon, <5>1, <5>2, <5>3, <5>4
        <4>2. CASE ~(i - 1 <= m)
          BY Zenon, <3>0, <4>2
        <4> QED
          BY Zenon, <4>1, <4>2
      <3>5. a[m] \in Seq(S) /\ b[(i - m) - 1] \in Seq(S) /\ t[i - m] \in Seq(S)
        BY <1>1, <1>2, <1>4, <3>0
      <3> HIDE DEF c
      <3>7. a[m] \o (b[(i - m) - 1] \o t[i - m]) = (a[m] \o b[(i - m) - 1]) \o t[i - m]
        <4>1. PICK x, y, z : x = a[m] /\ y = b[(i - m) - 1] /\ z = t[i - m]
          OBVIOUS
        <4>2. x \in Seq(S) /\ y \in Seq(S) /\ z \in Seq(S)
          BY <3>5, <4>1
        <4>3. x \o (y \o z) = (x \o y) \o z
          <5> DEFINE u == x \o (y \o z)
                     v == (x \o y) \o z
          <5>1. u \in Seq(S) /\ v \in Seq(S) /\ Len(u) = Len(v)
            BY ONLY <4>2
          <5>2. \A k \in 1 .. Len(u) : u[k] = v[k]
            BY ONLY <4>2
          <5> HIDE DEF u, v
          <5>3. u = v
            BY <5>1, <5>2, ListsEqual
          <5> QED
            BY <5>3 DEF u, v
        <4> QED
          BY <4>1, <4>3
      <3> QED
        BY Zenon, <3>1, <3>2, <3>3, <3>4, <3>7
    <2>3. i <= m \/ i > m
      BY <1>0
    <2> HIDE DEF c
    <2> QED
      BY Zenon, <2>1, <2>2, <2>3
  <1>6. c[0] = <<>>
    BY <1>0, <1>1 DEF IsFlatten
  <1>7. c[m + n] = a[m] \o b[n]
    <2>1. CASE n = 0
      <3>1. b[n] = <<>> /\ a[m] \in Seq(S) /\ m + n = m
        BY <1>0, <1>1, <1>2, <2>1 DEF IsFlatten
      <3>2. a[m] \o <<>> = a[m]
        BY <3>1
      <3>3. c[m + n] = a[m]
        BY <1>0, <2>1
      <3> HIDE DEF c
      <3> QED
        BY <3>1, <3>2, <3>3
    <2>2. CASE n # 0
      <3>1. m + n \in 0 .. m + n /\ ~(m + n <= m) /\ (m + n) - m = n
        BY <1>0, <2>2
      <3> QED
        BY Zenon, <3>1
    <2> QED
      BY Zenon, <2>1, <2>2
  <1> HIDE DEF c
  <1>8. IsFlatten(c, s \o t)
    BY Zenon, <1>3, <1>5, <1>6 DEF IsFlatten
  <1>9. FlattenSeq(s \o t) = c[m + n]
    BY Zenon, <1>3, <1>8, FlattenIs
  <1> QED
    BY <1>1, <1>2, <1>7, <1>9

-----------------------------------------------------------------------------
(* The walk and the past, as functions of the proposer blocks.             *)

\* The references of the proposer blocks in nodes are among them, of lower levels.
DagOK(nodes) ==
  \A h \in DOMAIN nodes :
    /\ nodes[h].level \in Nat
    /\ nodes[h].refs \in Seq(DOMAIN nodes)
    /\ \A r \in Range(nodes[h].refs) : nodes[r].level < nodes[h].level

\* The lists that the walk visits for the references, the last one first.
Branches(f, refs) == [i \in DOMAIN refs |-> f[refs[Len(refs) + 1 - i]]]

IsVisit(f, nodes, U) ==
  f = [h \in DOMAIN nodes |->
         IF h \notin U THEN <<>> ELSE <<h>> \o FlattenSeq(Branches(f, nodes[h].refs))]

Visit(nodes, U) == CHOOSE f : IsVisit(f, nodes, U)

\* The walk over the nodes is the walk over the proposer blocks.
LEMMA WalkIsVisit ==
  ASSUME NEW U, NEW h
  PROVE  Walk(U, h) = Visit(proposer_node, U)[h]
BY DEF Walk, Visit, IsVisit, Branches

\* The elements of B are those of f at the references, each reached.
IsBranches(B, f, refs) ==
  /\ Len(B) = Len(refs)
  /\ \A i \in 1 .. Len(refs) : \E r \in Range(refs) : B[i] = f[r]
  /\ \A r \in Range(refs) : \E i \in 1 .. Len(refs) : B[i] = f[r]

\* The references are a list of X, so the visits of them are a list of lists.
LEMMA BranchesType ==
  ASSUME NEW X, NEW D, NEW refs \in Seq(X), NEW f, \A r \in Range(refs) : f[r] \in D
  PROVE  Branches(f, refs) \in Seq(D) /\ IsBranches(Branches(f, refs), f, refs)
<1> DEFINE n == Len(refs)
<1>1. n \in Nat /\ DOMAIN refs = 1 .. n
  OBVIOUS
<1> HIDE DEF n
<1>2. \A i \in 1 .. n : n + 1 - i \in 1 .. n /\ refs[n + 1 - i] \in Range(refs)
  BY <1>1 DEF Range
<1>3. Branches(f, refs) = [i \in 1 .. n |-> f[refs[n + 1 - i]]]
  BY <1>1 DEF Branches, n
<1>4. \A r \in Range(refs) : \E i \in 1 .. n : r = refs[n + 1 - i]
  <2> SUFFICES ASSUME NEW r \in Range(refs) PROVE \E i \in 1 .. n : r = refs[n + 1 - i]
    OBVIOUS
  <2>1. PICK k \in 1 .. n : r = refs[k]
    BY <1>1 DEF Range
  <2>2. n + 1 - k \in 1 .. n /\ n + 1 - (n + 1 - k) = k
    BY <1>1
  <2> QED BY <2>1, <2>2
<1>5. \A i \in 1 .. n : Branches(f, refs)[i] = f[refs[n + 1 - i]]
                          /\ Branches(f, refs)[i] \in D
  BY <1>2, <1>3
<1>6. Branches(f, refs) \in Seq(D) /\ Len(Branches(f, refs)) = n
  <2>1. Branches(f, refs) \in [1 .. n -> D]
    BY <1>3, <1>5
  <2> QED BY <1>1, <2>1
<1>7. IsBranches(Branches(f, refs), f, refs)
  BY <1>2, <1>4, <1>5, <1>6 DEF IsBranches, n
<1> QED BY <1>6, <1>7

\* Where the visits agree on the references, so do their lists.
LEMMA BranchesSame ==
  ASSUME NEW X, NEW refs \in Seq(X), NEW f, NEW g, \A r \in Range(refs) : f[r] = g[r]
  PROVE  Branches(f, refs) = Branches(g, refs)
<1>1. \A i \in DOMAIN refs : refs[Len(refs) + 1 - i] \in Range(refs)
  BY DEF Range
<1> QED BY <1>1 DEF Branches

\* The walk is well defined.
LEMMA VisitExists ==
  ASSUME NEW nodes, DagOK(nodes), NEW U
  PROVE  \E f : IsVisit(f, nodes, U)
<1> DEFINE X == DOMAIN nodes
           D == Seq(X)
           m == [h \in X |-> nodes[h].level]
           V(h, g) == IF h \notin U THEN <<>>
                      ELSE <<h>> \o FlattenSeq(Branches(g, nodes[h].refs))
           G == [p \in X \X [X -> D] |-> V(p[1], p[2])]
<1>1. m \in [X -> Nat]
  BY DEF DagOK
<1>2. <<>> \in D
  OBVIOUS
<1>3. ASSUME NEW h \in X, NEW g \in [X -> D] PROVE V(h, g) \in D
  <2>1. nodes[h].refs \in Seq(X)
    BY DEF DagOK
  <2>2. \A r \in Range(nodes[h].refs) : g[r] \in D
    BY <2>1, RangeType
  <2>3. Branches(g, nodes[h].refs) \in Seq(D)
    BY Zenon, <2>1, <2>2, BranchesType
  <2>4. FlattenSeq(Branches(g, nodes[h].refs)) \in D
    BY <2>3, FlattenRange
  <2>5. <<h>> \o FlattenSeq(Branches(g, nodes[h].refs)) \in D
    BY <2>4
  <2>6. <<>> \in D
    BY <1>2
  <2> HIDE DEF D
  <2> QED BY <2>5, <2>6
<1>4. ASSUME NEW h \in X, NEW g \in [X -> D] PROVE G[<<h, g>>] = V(h, g)
  <2> HIDE DEF V, D
  <2> QED BY DEF G
<1>5. ASSUME NEW h \in X, NEW g \in [X -> D], NEW k \in [X -> D],
             \A y \in X : m[y] < m[h] => g[y] = k[y]
      PROVE  V(h, g) = V(h, k)
  <2>1. nodes[h].refs \in Seq(X)
    BY DEF DagOK
  <2>2. \A r \in Range(nodes[h].refs) : g[r] = k[r]
    BY <1>5, <2>1, RangeType DEF DagOK
  <2>3. Branches(g, nodes[h].refs) = Branches(k, nodes[h].refs)
    BY Zenon, <2>1, <2>2, BranchesSame
  <2> QED BY <2>3
<1> HIDE DEF G, D, X, m
<1>6. \A h \in X : \A g \in [X -> D] : G[<<h, g>>] \in D
  <2> HIDE DEF V
  <2> QED BY Zenon, <1>3, <1>4
<1>7. \A h \in X : \A g, k \in [X -> D] :
        (\A y \in X : m[y] < m[h] => g[y] = k[y]) => G[<<h, g>>] = G[<<h, k>>]
  <2> HIDE DEF V
  <2> QED BY <1>4, <1>5
<1>8. PICK f \in [X -> D] : \A h \in X : f[h] = G[<<h, f>>]
  <2>1. IsRecursive(G, X, m, D)
    BY <1>6, <1>7 DEF IsRecursive
  <2> QED BY <1>1, <1>2, <2>1, MeasureRecursion
<1>9. f = [h \in X |-> V(h, f)]
  <2> HIDE DEF V
  <2> QED BY Zenon, <1>4, <1>8
<1>10. IsVisit(f, nodes, U)
  BY Zenon, <1>9 DEF IsVisit, X
<1> QED BY <1>10

\* What the walk from h visits: nothing if h is confirmed, else h and then what the
\* walks from its references visit.
LEMMA VisitStep ==
  ASSUME NEW nodes, DagOK(nodes), NEW U
  PROVE  \A h \in DOMAIN nodes :
           /\ Visit(nodes, U)[h] \in Seq(DOMAIN nodes)
           /\ h \notin U => Visit(nodes, U)[h] = <<>>
           /\ h \in U => Visit(nodes, U)[h] =
                           <<h>> \o FlattenSeq(Branches(Visit(nodes, U), nodes[h].refs))
<1> DEFINE X == DOMAIN nodes
           m == [h \in X |-> nodes[h].level]
           f == Visit(nodes, U)
           S == {h \in X : f[h] \in Seq(X)}
<1>1. IsVisit(f, nodes, U)
  BY VisitExists DEF Visit
<1> HIDE DEF f
<1>2. \A h \in X : f[h] = IF h \notin U THEN <<>>
                          ELSE <<h>> \o FlattenSeq(Branches(f, nodes[h].refs))
  BY Zenon, <1>1 DEF IsVisit
<1>3. m \in [X -> Nat]
  BY DEF DagOK
<1>4. ASSUME NEW h \in X, \A y \in X : m[y] < m[h] => y \in S PROVE h \in S
  <2>1. nodes[h].refs \in Seq(X)
    BY DEF DagOK
  <2>2. \A r \in Range(nodes[h].refs) : f[r] \in Seq(X)
    BY <1>4, <2>1, RangeType DEF DagOK
  <2>3. Branches(f, nodes[h].refs) \in Seq(Seq(X))
    BY <2>1, <2>2, BranchesType
  <2>4. FlattenSeq(Branches(f, nodes[h].refs)) \in Seq(X)
    BY <2>3, FlattenRange
  <2>5. <<h>> \o FlattenSeq(Branches(f, nodes[h].refs)) \in Seq(X)
    BY <2>4
  <2>6. <<>> \in Seq(X)
    OBVIOUS
  <2>7. f[h] \in Seq(X)
    <3> HIDE DEF X
    <3> QED BY Zenon, <1>2, <2>5, <2>6
  <2> QED BY <2>7
<1>5. \A h \in X : h \in S
  <2> HIDE DEF S, m, X
  <2> QED BY <1>3, <1>4, MeasureInd
<1> QED BY Zenon, <1>2, <1>5 DEF f

\* Who the walk from h visits.
LEMMA VisitMember ==
  ASSUME NEW nodes, DagOK(nodes), NEW U, NEW h \in DOMAIN nodes, NEW x
  PROVE  x \in Range(Visit(nodes, U)[h]) <=>
           /\ h \in U
           /\ \/ x = h
              \/ \E r \in Range(nodes[h].refs) : x \in Range(Visit(nodes, U)[r])
<1> DEFINE X == DOMAIN nodes
           f == Visit(nodes, U)
           B == Branches(f, nodes[h].refs)
<1>1. nodes[h].refs \in Seq(X) /\ Range(nodes[h].refs) \subseteq X
  BY RangeType DEF DagOK
<1>2. \A r \in X : f[r] \in Seq(X)
  BY Zenon, VisitStep
<1>3. CASE h \notin U
  <2>1. f[h] = <<>>
    BY Zenon, <1>3, VisitStep
  <2>2. Range(f[h]) = {}
    <3> HIDE DEF f
    <3> QED BY <2>1 DEF Range
  <2> QED BY <1>3, <2>2
<1>4. CASE h \in U
  <2>1. f[h] = <<h>> \o FlattenSeq(B)
    BY <1>4, VisitStep
  <2> HIDE DEF f
  <2>0. PICK R : R = nodes[h].refs
    OBVIOUS
  <2>2. B \in Seq(Seq(X)) /\ IsBranches(B, f, R)
    <3>1. R \in Seq(X) /\ \A r \in Range(R) : f[r] \in Seq(X)
      BY <1>1, <1>2, <2>0
    <3> HIDE DEF X
    <3> QED BY <2>0, <3>1, BranchesType
  <2> HIDE DEF B
  <2>3. FlattenSeq(B) \in Seq(X)
    BY <2>2, FlattenRange
  <2>4. x \in Range(FlattenSeq(B)) <=> \E i \in 1 .. Len(B) : x \in Range(B[i])
    BY <2>2, FlattenRange
  <2>5. Range(f[h]) = {h} \cup Range(FlattenSeq(B))
    BY <2>1, <2>3, RangeCons
  <2>6. (\E i \in 1 .. Len(B) : x \in Range(B[i])) <=>
          \E r \in Range(nodes[h].refs) : x \in Range(f[r])
    <3>1. ASSUME NEW i \in 1 .. Len(B), x \in Range(B[i])
          PROVE  \E r \in Range(R) : x \in Range(f[r])
      BY <2>2, <3>1 DEF IsBranches
    <3>2. ASSUME NEW r \in Range(R), x \in Range(f[r])
          PROVE  \E i \in 1 .. Len(B) : x \in Range(B[i])
      BY <2>2, <3>2 DEF IsBranches
    <3> QED BY <2>0, <3>1, <3>2
  <2>7. x \in Range(f[h]) <=> x = h \/ \E r \in Range(nodes[h].refs) : x \in Range(f[r])
    BY <2>4, <2>5, <2>6
  <2> QED BY <1>4, <2>7 DEF f
<1> QED BY <1>3, <1>4

\* The walk visits only unconfirmed blocks, and h first if it is one.
LEMMA VisitUnconfirmed ==
  ASSUME NEW nodes, DagOK(nodes), NEW U
  PROVE  \A h \in DOMAIN nodes :
           /\ Range(Visit(nodes, U)[h]) \subseteq U \cap DOMAIN nodes
           /\ h \in U => h \in Range(Visit(nodes, U)[h])
<1> DEFINE X == DOMAIN nodes
           m == [h \in X |-> nodes[h].level]
           f == Visit(nodes, U)
           S == {h \in X : Range(f[h]) \subseteq U}
<1>1. m \in [X -> Nat]
  BY DEF DagOK
<1> HIDE DEF f
<1>2. \A h \in X : \A x : x \in Range(f[h]) <=>
        h \in U /\ (x = h \/ \E r \in Range(nodes[h].refs) : x \in Range(f[r]))
  BY Zenon, VisitMember DEF f
<1>3. ASSUME NEW h \in X, \A y \in X : m[y] < m[h] => y \in S PROVE h \in S
  <2>1. nodes[h].refs \in Seq(X) /\ Range(nodes[h].refs) \subseteq X
    BY RangeType DEF DagOK
  <2>2. \A r \in Range(nodes[h].refs) : Range(f[r]) \subseteq U
    BY <1>3, <2>1 DEF DagOK
  <2> QED BY <1>2, <2>2
<1>4. \A h \in X : h \in S
  <2> HIDE DEF S, m, X
  <2> QED BY <1>1, <1>3, MeasureInd
<1>5. \A h \in X : Range(f[h]) \subseteq X
  BY Zenon, VisitStep, RangeType DEF f
<1> QED BY <1>2, <1>4, <1>5 DEF f

-----------------------------------------------------------------------------
(* The order of a level.                                                   *)

\* The lists in which every unconfirmed reference of a block comes after it, and
\* those in which it comes before.
RefsLater(nodes, U) ==
  {s \in Seq(DOMAIN nodes) :
     \A p \in 1 .. Len(s) : \A r \in U \cap Range(nodes[s[p]].refs) :
       \E q \in p + 1 .. Len(s) : s[q] = r}
RefsEarlier(nodes, U) ==
  {s \in Seq(DOMAIN nodes) :
     \A p \in 1 .. Len(s) : \A r \in U \cap Range(nodes[s[p]].refs) :
       \E q \in 1 .. p - 1 : s[q] = r}

\* A concatenation keeps the references after the blocks.
LEMMA LaterCat ==
  ASSUME NEW nodes, NEW U, NEW u \in RefsLater(nodes, U), NEW v \in RefsLater(nodes, U)
  PROVE  u \o v \in RefsLater(nodes, U)
<1> DEFINE X == DOMAIN nodes
           w == u \o v
           R(x) == U \cap Range(nodes[x].refs)
<1>1. u \in Seq(X) /\ v \in Seq(X)
  BY DEF RefsLater
<1>2. /\ w \in Seq(X) /\ Len(w) = Len(u) + Len(v)
      /\ Len(u) \in Nat /\ Len(v) \in Nat
      /\ \A p \in 1 .. Len(u) : w[p] = u[p]
      /\ \A k \in 1 .. Len(v) : w[Len(u) + k] = v[k]
  BY <1>1, ConcatFacts
<1>3. \A p \in 1 .. Len(u) : \A r \in R(u[p]) : \E q \in p + 1 .. Len(u) : u[q] = r
  BY DEF RefsLater
<1>4. \A p \in 1 .. Len(v) : \A r \in R(v[p]) : \E q \in p + 1 .. Len(v) : v[q] = r
  BY DEF RefsLater
<1> HIDE DEF w, R, X
<1>5. ASSUME NEW p \in 1 .. Len(w), NEW r \in R(w[p])
      PROVE  \E q \in p + 1 .. Len(w) : w[q] = r
  <2>1. CASE p <= Len(u)
    <3>1. p \in 1 .. Len(u) /\ w[p] = u[p]
      BY <1>2, <2>1
    <3>2. PICK q \in p + 1 .. Len(u) : u[q] = r
      BY <1>3, <3>1
    <3>3. q \in 1 .. Len(u) /\ q \in p + 1 .. Len(w)
      BY <1>2, <3>1
    <3> QED BY <1>2, <3>2, <3>3
  <2>2. CASE ~(p <= Len(u))
    <3>1. PICK k \in 1 .. Len(v) : p = Len(u) + k
      <4>1. p - Len(u) \in 1 .. Len(v) /\ p = Len(u) + (p - Len(u))
        BY <1>2, <2>2
      <4> QED BY Zenon, <4>1
    <3>2. PICK q \in k + 1 .. Len(v) : v[q] = r
      BY Zenon, <1>2, <1>4, <3>1
    <3>3. q \in 1 .. Len(v) /\ Len(u) + q \in p + 1 .. Len(w)
      BY <1>2, <3>1
    <3> QED BY <1>2, <3>2, <3>3
  <2> QED BY <2>1, <2>2
<1> QED BY Zenon, <1>2, <1>5 DEF RefsLater, w, R, X

\* The walk visits the references of a block after it.
LEMMA VisitLater ==
  ASSUME NEW nodes, DagOK(nodes), NEW U
  PROVE  \A h \in DOMAIN nodes : Visit(nodes, U)[h] \in RefsLater(nodes, U)
<1> DEFINE X == DOMAIN nodes
           m == [h \in X |-> nodes[h].level]
           f == Visit(nodes, U)
           G == RefsLater(nodes, U)
           S == {h \in X : f[h] \in G}
<1>1. m \in [X -> Nat]
  BY DEF DagOK
<1>2. <<>> \in G
  BY DEF RefsLater
<1>3. ASSUME NEW h \in X, \A y \in X : m[y] < m[h] => y \in S PROVE f[h] \in G
  <2>1. nodes[h].refs \in Seq(X) /\ Range(nodes[h].refs) \subseteq X
    BY RangeType DEF DagOK
  <2>2. \A r \in Range(nodes[h].refs) : f[r] \in G
    BY <1>3, <2>1 DEF DagOK
  <2>3. PICK R, B : R = nodes[h].refs /\ B = Branches(f, R)
    OBVIOUS
  <2>4. B \in Seq(G) /\ IsBranches(B, f, R)
    <3> HIDE DEF X, G, f
    <3> QED BY <2>1, <2>2, <2>3, BranchesType
  <2>5. B \in Seq(Seq(X)) /\ G \subseteq Seq(X)
    <3>1. G \subseteq Seq(X)
      BY DEF RefsLater
    <3> HIDE DEF G
    <3> QED BY <2>4, <3>1
  <2>6. FlattenSeq(B) \in G
    <3> DEFINE P == {e \in (0 .. Len(B)) \X Seq(X) : e[2] \in G}
    <3>1. <<0, <<>>>> \in P
      <4>1. <<>> \in Seq(X) /\ 0 \in 0 .. Len(B)
        BY <2>5
      <4> HIDE DEF G
      <4> QED BY Zenon, <1>2, <4>1
    <3>2. ASSUME NEW i \in 1 .. Len(B), NEW u \in Seq(X), <<i - 1, u>> \in P
          PROVE  <<i, u \o B[i]>> \in P
      <4>1. u \in G /\ B[i] \in G /\ i \in 0 .. Len(B)
        <5> HIDE DEF G
        <5> QED BY <2>4, <3>2
      <4>2. u \o B[i] \in G
        BY <4>1, LaterCat
      <4> HIDE DEF G
      <4> QED BY Zenon, <2>5, <4>1, <4>2
    <3>3. FlattenKeeps(P, X, B)
      <4> HIDE DEF P
      <4> QED BY <3>1, <3>2 DEF FlattenKeeps
    <3>4. <<Len(B), FlattenSeq(B)>> \in P
      <4> HIDE DEF P, X
      <4> QED BY <2>5, <3>3, FlattenInd
    <3> QED BY <3>4
  <2>7. \A r \in U \cap Range(R) : r \in Range(FlattenSeq(B))
    <3>1. \A r \in U \cap Range(R) : r \in Range(f[r])
      BY <2>1, <2>3, VisitUnconfirmed
    <3>2. \A r \in Range(R) : \E i \in 1 .. Len(B) : B[i] = f[r]
      BY <2>4 DEF IsBranches
    <3>3. \A x : x \in Range(FlattenSeq(B)) <=> \E i \in 1 .. Len(B) : x \in Range(B[i])
      <4> HIDE DEF X
      <4> QED BY <2>5, FlattenRange
    <3> HIDE DEF f
    <3> QED BY <3>1, <3>2, <3>3
  <2>8. CASE h \notin U
    <3>1. f[h] = <<>>
      BY Zenon, <2>8, VisitStep
    <3> QED BY <1>2, <3>1
  <2>9. CASE h \in U
    <3>1. f[h] = <<h>> \o FlattenSeq(B)
      BY <2>3, <2>9, VisitStep
    <3>2. PICK F : F = FlattenSeq(B)
      OBVIOUS
    <3>3. F \in Seq(X) /\ F \in G
      BY <2>5, <2>6, <3>2
    <3> DEFINE w == <<h>> \o F
    <3>4. /\ w \in Seq(X) /\ Len(w) = Len(F) + 1 /\ Len(F) \in Nat /\ w[1] = h
          /\ \A k \in 1 .. Len(F) : w[k + 1] = F[k]
      BY <3>3
    <3>5. \A p \in 1 .. Len(F) : \A r \in U \cap Range(nodes[F[p]].refs) :
            \E q \in p + 1 .. Len(F) : F[q] = r
      BY <3>3 DEF RefsLater
    <3> HIDE DEF w, X, G, f
    <3>6. ASSUME NEW p \in 1 .. Len(w), NEW r \in U \cap Range(nodes[w[p]].refs)
          PROVE  \E q \in p + 1 .. Len(w) : w[q] = r
      <4>1. CASE p = 1
        <5>1. r \in U \cap Range(R)
          BY <2>3, <3>4, <4>1
        <5>2. r \in Range(F)
          BY <2>7, <3>2, <5>1
        <5>3. PICK k \in 1 .. Len(F) : r = F[k]
          BY <3>3, <5>2 DEF Range
        <5>4. k + 1 \in p + 1 .. Len(w) /\ w[k + 1] = r
          BY <3>4, <4>1, <5>3
        <5> QED BY <5>4
      <4>2. CASE p # 1
        <5>1. p - 1 \in 1 .. Len(F) /\ (p - 1) + 1 = p
          BY <3>4, <4>2
        <5>2. w[p] = F[p - 1]
          BY <3>4, <5>1
        <5>3. PICK q \in (p - 1) + 1 .. Len(F) : F[q] = r
          BY <3>5, <5>1, <5>2
        <5>4. q \in 1 .. Len(F) /\ q + 1 \in p + 1 .. Len(w)
          BY <3>4, <5>1
        <5>5. w[q + 1] = r
          BY <3>4, <5>3, <5>4
        <5> QED BY <5>4, <5>5
      <4> QED BY <4>1, <4>2
    <3>7. w \in G
      BY <3>4, <3>6 DEF RefsLater, G, X
    <3> QED BY <3>1, <3>2, <3>7 DEF w
  <2> QED BY <2>8, <2>9
<1>4. \A h \in X : h \in S
  <2>1. ASSUME NEW h \in X, \A y \in X : m[y] < m[h] => y \in S PROVE h \in S
    BY <1>3, <2>1
  <2> HIDE DEF S, m, X
  <2> QED BY <1>1, <2>1, MeasureInd
<1> QED BY <1>4

\* Reversing the walk puts the references before the blocks.
LEMMA ReverseEarlier ==
  ASSUME NEW nodes, NEW U, NEW s \in RefsLater(nodes, U)
  PROVE  Reverse(s) \in RefsEarlier(nodes, U) /\ Range(Reverse(s)) = Range(s)
<1> DEFINE X == DOMAIN nodes
           n == Len(s)
           w == Reverse(s)
<1>1. s \in Seq(X) /\ n \in Nat /\ DOMAIN s = 1 .. n
  BY DEF RefsLater
<1>2. /\ \A p \in 1 .. n : \A r \in U \cap Range(nodes[s[p]].refs) :
           \E q \in p + 1 .. n : s[q] = r
  BY DEF RefsLater
<1> HIDE DEF n, X
<1>3. \A i \in 1 .. n : (n - i) + 1 \in 1 .. n /\ (n - ((n - i) + 1)) + 1 = i
  BY <1>1
<1>4. w = [i \in 1 .. n |-> s[(n - i) + 1]]
  BY DEF Reverse, n
<1> HIDE DEF w
<1>5. w \in [1 .. n -> X]
  BY <1>1, <1>3, <1>4
<1>6. w \in Seq(X) /\ Len(w) = n /\ DOMAIN w = 1 .. n
  BY <1>1, <1>5
<1>7. \A i \in 1 .. n : w[i] = s[(n - i) + 1] /\ w[(n - i) + 1] = s[i]
  BY <1>3, <1>4
<1>8. ASSUME NEW p \in 1 .. n, NEW r \in U \cap Range(nodes[w[p]].refs)
      PROVE  \E q \in 1 .. p - 1 : w[q] = r
  <2>1. PICK q \in ((n - p) + 1) + 1 .. n : s[q] = r
    BY <1>2, <1>3, <1>7
  <2>2. q \in 1 .. n /\ (n - q) + 1 \in 1 .. p - 1
    BY <1>1
  <2> QED BY <1>7, <2>1, <2>2
<1>9. Range(w) = Range(s)
  BY <1>1, <1>3, <1>6, <1>7 DEF Range
<1>10. w \in RefsEarlier(nodes, U)
  BY <1>6, <1>8 DEF RefsEarlier, X
<1> QED BY <1>9, <1>10 DEF w
=============================================================================
