----------------------------- MODULE Induction ------------------------------
(***************************************************************************)
(* Induction and recursion for the proofs about folds and recursive        *)
(* functions, stated with sets and functions so that every theorem here    *)
(* can be instantiated.                                                    *)
(***************************************************************************)
EXTENDS Integers, SeqOps, FiniteSetTheorems, TLAPS

\* A nonempty set of naturals has a least element.
LEMMA NatMin ==
  ASSUME NEW S \in SUBSET Nat, S # {}
  PROVE  \E n \in S : \A m \in S : n <= m
  <1> DEFINE R == OpToRel(<, Nat)
  <1>1. \E x \in S : \A y \in S : ~ (<<y, x>> \in R)
    BY Zenon, NatLessThanWellFounded, WFMin
  <1>2. \A x, y \in Nat : <<y, x>> \in R <=> y < x
    BY DEF OpToRel
  <1> HIDE DEF R
  <1>3. PICK x \in S : \A y \in S : ~ (<<y, x>> \in R)
    BY <1>1
  <1>4. \A y \in S : ~ (y < x)
    BY Zenon, <1>2, <1>3
  <1> QED
    BY <1>4

\* Induction over the naturals, for a set of naturals.
LEMMA NatInd ==
  ASSUME NEW S, 0 \in S, \A n \in Nat : n \in S => n + 1 \in S
  PROVE  \A n \in Nat : n \in S
  <1> SUFFICES ASSUME NEW k \in Nat, k \notin S PROVE FALSE
    OBVIOUS
  <1> DEFINE T == {n \in Nat : n \notin S}
  <1>1. PICK n \in T : \A m \in T : n <= m
    BY Zenon, NatMin
  <1>2. n \in Nat /\ n # 0
    BY <1>1
  <1>3. n - 1 \in Nat /\ n - 1 \in S
    BY <1>1, <1>2
  <1> QED
    BY <1>1, <1>2, <1>3

\* The greatest element of a set of indices.
LEMMA MaxIndex ==
  ASSUME NEW n \in Nat, NEW s \in SUBSET (1 .. n), s # {}
  PROVE  Max(s) \in s /\ \A x \in s : x <= Max(s)
  <1> DEFINE T == {m \in Nat : n - m \in s}
  <1>1. T # {}
    <2>1. PICK x \in s : TRUE
      BY Zenon
    <2>2. n - x \in Nat /\ n - (n - x) = x
      OBVIOUS
    <2> QED
      BY Zenon, <2>1, <2>2
  <1>2. PICK m \in T : \A k \in T : m <= k
    BY Zenon, <1>1, NatMin
  <1>3. \A x \in s : n - x \in T
    <2> SUFFICES ASSUME NEW x \in s PROVE n - x \in T
      OBVIOUS
    <2>1. x \in Nat /\ n - x \in Nat /\ n - (n - x) = x
      OBVIOUS
    <2> QED
      BY <2>1
  <1>4. n - m \in s /\ \A x \in s : n - m >= x
    BY <1>2, <1>3
  <1> QED
    BY Zenon, <1>4 DEF Max

-----------------------------------------------------------------------------
(* Functions over the naturals, and the elements of a set in a sequence.   *)

\* f is a recursive function over the naturals: b at zero, and F of the number and of
\* the value before it.
IsNatRecursion(f, b, F) == f = [n \in Nat |-> IF n = 0 THEN b ELSE F[<<n, f[n - 1]>>]]

\* f is one up to n.
IsRecursionTo(f, n, b, F) ==
  f[0] = b /\ \A m \in Nat : m < n => f[m + 1] = F[<<m + 1, f[m]>>]

\* Two of them agree as far as both go.
LEMMA RecursionUnique ==
  ASSUME NEW b, NEW F, NEW m \in Nat, NEW n \in Nat, NEW f, NEW g,
         IsRecursionTo(f, m, b, F), IsRecursionTo(g, n, b, F)
  PROVE  \A k \in Nat : k <= m /\ k <= n => f[k] = g[k]
  <1> DEFINE S == {k \in Nat : k <= m /\ k <= n => f[k] = g[k]}
  <1>1. 0 \in S
    BY DEF IsRecursionTo
  <1>2. ASSUME NEW k \in Nat, k \in S PROVE k + 1 \in S
    <2> SUFFICES ASSUME k + 1 <= m, k + 1 <= n PROVE f[k + 1] = g[k + 1]
      OBVIOUS
    <2>1. f[k] = g[k] /\ k < m /\ k < n
      BY <1>2
    <2> QED
      BY Zenon, <2>1 DEF IsRecursionTo
  <1>3. \A k \in Nat : k \in S
    <2> HIDE DEF S
    <2> QED
      BY <1>1, <1>2, NatInd
  <1> QED
    BY <1>3

\* Such a function exists.
LEMMA NatRecursion ==
  ASSUME NEW D, NEW b \in D, NEW F \in [Nat \X D -> D]
  PROVE  \E f \in [Nat -> D] : IsNatRecursion(f, b, F)
  <1> DEFINE N == {n \in Nat : \E f \in [Nat -> D] : IsRecursionTo(f, n, b, F)}
  <1>1. 0 \in N
    <2>1. [m \in Nat |-> b] \in [Nat -> D] /\ IsRecursionTo([m \in Nat |-> b], 0, b, F)
      BY DEF IsRecursionTo
    <2> QED
      BY <2>1
  <1>2. ASSUME NEW n \in Nat, n \in N PROVE n + 1 \in N
    <2>1. PICK f \in [Nat -> D] : IsRecursionTo(f, n, b, F)
      BY <1>2
    <2> DEFINE g == [m \in Nat |-> IF m <= n THEN f[m] ELSE F[<<n + 1, f[n]>>]]
    <2>2. g \in [Nat -> D]
      OBVIOUS
    <2>3. g[0] = b
      BY <2>1 DEF IsRecursionTo
    <2>4. ASSUME NEW m \in Nat, m < n + 1 PROVE g[m + 1] = F[<<m + 1, g[m]>>]
      <3>1. g[m] = f[m]
        BY <2>4
      <3>2. CASE m < n
        BY <2>1, <3>1, <3>2 DEF IsRecursionTo
      <3>3. CASE m = n
        BY <3>1, <3>3
      <3> QED
        BY <2>4, <3>2, <3>3
    <2>5. IsRecursionTo(g, n + 1, b, F)
      BY <2>3, <2>4 DEF IsRecursionTo
    <2> QED
      BY <2>2, <2>5
  <1>3. \A n \in Nat : \E f \in [Nat -> D] : IsRecursionTo(f, n, b, F)
    <2>1. \A n \in Nat : n \in N
      <3> HIDE DEF N
      <3> QED
        BY <1>1, <1>2, NatInd
    <2> QED
      BY <2>1
  <1> DEFINE s == [n \in Nat |-> CHOOSE f \in [Nat -> D] : IsRecursionTo(f, n, b, F)]
             r == [n \in Nat |-> s[n][n]]
  <1>4. \A n \in Nat : s[n] \in [Nat -> D] /\ IsRecursionTo(s[n], n, b, F)
    BY <1>3
  <1> HIDE DEF s
  <1>5. r[0] = b
    BY <1>4 DEF IsRecursionTo
  <1>6. ASSUME NEW n \in Nat PROVE r[n + 1] = F[<<n + 1, r[n]>>]
    <2>1. s[n + 1][n + 1] = F[<<n + 1, s[n + 1][n]>>]
      BY <1>4 DEF IsRecursionTo
    <2>2. s[n + 1][n] = s[n][n]
      BY <1>4, RecursionUnique
    <2> QED
      BY <2>1, <2>2
  <1>7. r \in [Nat -> D]
    BY <1>4
  <1>8. ASSUME NEW n \in Nat PROVE r[n] = IF n = 0 THEN b ELSE F[<<n, r[n - 1]>>]
    <2> HIDE DEF r
    <2>1. CASE n = 0
      BY <1>5, <2>1
    <2>2. CASE n # 0
      <3>1. n - 1 \in Nat /\ (n - 1) + 1 = n
        BY <2>2
      <3>2. r[(n - 1) + 1] = F[<<(n - 1) + 1, r[n - 1]>>]
        BY <1>6, <3>1
      <3> QED
        BY <2>2, <3>1, <3>2
    <2> QED
      BY <2>1, <2>2
  <1>9. IsNatRecursion(r, b, F)
    <2> HIDE DEF r
    <2> QED
      BY <1>7, <1>8 DEF IsNatRecursion
  <1> QED
    BY <1>7, <1>9

\* The values that FoldLeft passes through over n elements: b first, and then F of the
\* position and of the value before it.
IsFold(a, n, D, b, F) ==
  /\ a \in [0 .. n -> D] /\ a[0] = b
  /\ \A k \in 1 .. n : a[k] = F[<<k, a[k - 1]>>]

\* They exist, if every step stays within D.
LEMMA FoldExists ==
  ASSUME NEW n \in Nat, NEW D, NEW b \in D, NEW F \in [(1 .. n) \X D -> D]
  PROVE  \E a : IsFold(a, n, D, b, F)
  <1> DEFINE H == [e \in Nat \X D |-> IF e[1] \in 1 .. n THEN F[<<e[1], e[2]>>] ELSE e[2]]
  <1>1. H \in [Nat \X D -> D]
    OBVIOUS
  <1>2. \A k \in 1 .. n : \A d \in D : H[<<k, d>>] = F[<<k, d>>]
    OBVIOUS
  <1> HIDE DEF H
  <1>3. PICK f \in [Nat -> D] : IsNatRecursion(f, b, H)
    BY Zenon, <1>1, NatRecursion
  <1> DEFINE a == [k \in 0 .. n |-> f[k]]
  <1>4. f[0] = b /\ \A k \in 1 .. n : f[k] = H[<<k, f[k - 1]>>] /\ f[k - 1] \in D
    BY <1>3 DEF IsNatRecursion
  <1>5. a \in [0 .. n -> D] /\ a[0] = f[0] /\ \A k \in 1 .. n : a[k] = f[k] /\ a[k - 1] = f[k - 1]
    OBVIOUS
  <1> HIDE DEF a
  <1>6. IsFold(a, n, D, b, F)
    BY <1>2, <1>4, <1>5 DEF IsFold
  <1> QED
    BY <1>6

\* g starts like them and goes on like them where it is within D.
RunsFold(g, n, D, b, F) ==
  /\ g = [i \in 0 .. n |-> g[i]] /\ g[0] = b
  /\ \A k \in 1 .. n : g[k - 1] \in D => g[k] = F[<<k, g[k - 1]>>]

\* Then it is them.
LEMMA FoldTrace ==
  ASSUME NEW n \in Nat, NEW D, NEW b \in D, NEW F \in [(1 .. n) \X D -> D], NEW g,
         RunsFold(g, n, D, b, F)
  PROVE  IsFold(g, n, D, b, F)
  <1> DEFINE T == {k \in Nat : k \in 0 .. n => g[k] \in D}
  <1>1. 0 \in T
    BY DEF RunsFold
  <1>2. ASSUME NEW k \in Nat, k \in T PROVE k + 1 \in T
    <2> SUFFICES ASSUME k + 1 \in 0 .. n PROVE g[k + 1] \in D
      OBVIOUS
    <2>1. k + 1 \in 1 .. n /\ (k + 1) - 1 = k /\ g[k] \in D
      BY <1>2
    <2>2. g[k + 1] = F[<<k + 1, g[k]>>]
      BY Zenon, <2>1 DEF RunsFold
    <2> QED
      BY <2>1, <2>2
  <1>3. \A k \in Nat : k \in T
    <2> HIDE DEF T
    <2> QED
      BY <1>1, <1>2, NatInd
  <1>4. \A k \in 0 .. n : g[k] \in D
    BY <1>3
  <1>5. \A k \in 1 .. n : k - 1 \in 0 .. n
    OBVIOUS
  <1> QED
    BY Zenon, <1>4, <1>5 DEF RunsFold, IsFold

\* SetToSeq lists the elements of a finite set, each once.
LEMMA SetToSeqLists ==
  ASSUME NEW S, IsFiniteSet(S)
  PROVE  /\ Cardinality(S) \in Nat
         /\ SetToSeq(S) \in [1 .. Cardinality(S) -> S]
         /\ \A x \in S : \E i \in 1 .. Cardinality(S) : SetToSeq(S)[i] = x
  <1> DEFINE n == Cardinality(S)
  <1>1. n \in Nat /\ ExistsBijection(1 .. n, S)
    BY FS_CardinalityType
  <1>2. \E f \in [1 .. n -> S] : IsInjective(f)
    BY <1>1 DEF ExistsBijection, Bijection, Injection, IsInjective
  <1>3. SetToSeq(S) \in [1 .. n -> S] /\ IsInjective(SetToSeq(S))
    BY <1>2 DEF SetToSeq
  <1>4. SetToSeq(S) \in Injection(1 .. n, S)
    BY <1>3 DEF Injection
  <1>5. IsFiniteSet(1 .. n) /\ Cardinality(1 .. n) = n
    <2>1. /\ IsFiniteSet(1 .. n)
          /\ Cardinality(1 .. n) = IF 1 > n THEN 0 ELSE n - 1 + 1
      BY <1>1, FS_Interval
    <2> QED
      BY <1>1, <2>1
  <1>6. SetToSeq(S) \in Surjection(1 .. n, S)
    BY <1>4, <1>5, FS_Injection
  <1> QED
    BY <1>1, <1>3, <1>6 DEF Surjection

\* The values of a function on a finite set are finitely many.
LEMMA ImageFinite ==
  ASSUME NEW S, IsFiniteSet(S), NEW f
  PROVE  IsFiniteSet({f[x] : x \in S})
  <1> DEFINE T == {f[x] : x \in S}
             g == [x \in S |-> f[x]]
  <1>1. g \in [S -> T] /\ \A t \in T : \E x \in S : g[x] = t
    OBVIOUS
  <1>2. g \in Surjection(S, T)
    BY <1>1 DEF Surjection
  <1> QED
    BY <1>2, FS_Surjection
=============================================================================
