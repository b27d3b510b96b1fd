-------------------------- MODULE GeneratorProofs ---------------------------
(***************************************************************************)
(* Proofs about Generator, for any transactions, coins and bounds: the     *)
(* counter of the wallet never falls below the number of its coins, and    *)
(* the wallet holds coins that can be spent.                               *)
(***************************************************************************)
EXTENDS Generator, Induction

\* The coins of the transaction that create_transaction has not counted off yet.
Held == IF gpc = "loop" THEN {} ELSE InputCoins(transaction)

\* The coins of the wallet without those that are selected and still in it.
Free == IF gpc = "remove" THEN DOMAIN coins \ Held ELSE DOMAIN coins

\* The coins of the diff that apply_diff has counted and not yet written.
Pending == IF counted THEN CountDiff(Head(coin_chan)) ELSE 0

\* The counter covers every coin of the wallet, the coins of a transaction that is
\* not counted off, and the coins that are counted but not written.  A coin of the
\* transaction counts twice when a diff brings it back before it is counted off.
Covered == counter >= Cardinality(Free) + Cardinality(Held) + Pending

\* What the diffs on their way to the wallet add is finite.
ChanOK == \E D : /\ coin_chan \in Seq(D)
                 /\ \A d \in D : IsFiniteSet(DOMAIN Owned(d.added))

\* What makes CounterCoversCoins inductive.
IInv ==
  /\ gpc \in {"loop", "remove", "sign"}
  /\ gpc # "loop" => transaction \in Transaction
  /\ mined \subseteq Transaction
  /\ ledger \in Seq(Transaction)
  /\ counter \in Int
  /\ IsFiniteSet(DOMAIN coins)
  /\ ChanOK
  /\ counted \in BOOLEAN
  /\ counted => coin_chan # <<>>
  /\ Covered

\* The wallet owns a part of what is added.
LEMMA OwnedIsPart ==
  ASSUME NEW f
  PROVE  DOMAIN Owned(f) \subseteq DOMAIN f
  BY DEF Owned

\* The coins of transactions and of the start are finitely many.
LEMMA InputCoinsFinite ==
  ASSUME NEW h \in Transaction
  PROVE  IsFiniteSet(InputCoins(h))
  <1> DEFINE f == [i \in input[h] |-> i.coin]
  <1>1. InputCoins(h) = {f[i] : i \in input[h]}
    BY Zenon DEF InputCoins
  <1>2. IsFiniteSet(input[h])
    BY FinitenessAssumption
  <1> HIDE DEF f
  <1> QED
    BY <1>1, <1>2, ImageFinite

\* So are its outputs.
LEMMA OutputCoinsFinite ==
  ASSUME NEW h \in Transaction
  PROVE  IsFiniteSet(OutputCoins(h))
  BY FinitenessAssumption

\* A diff of the ledger adds finitely many coins to the wallet.
LEMMA DiffFinite ==
  ASSUME NEW u, NEW h \in Transaction,
         NEW d \in {add_transaction(u, h), remove_transaction(u, h)}
  PROVE  IsFiniteSet(DOMAIN Owned(d.added))
  <1>1. DOMAIN d.added \in {{}, OutputCoins(h), InputCoins(h)}
    BY DEF add_transaction, remove_transaction, NoDiff
  <1>2. IsFiniteSet(DOMAIN d.added)
    BY <1>1, InputCoinsFinite, OutputCoinsFinite, FS_EmptySet
  <1> QED
    BY <1>2, OwnedIsPart, FS_Subset

\* A diff is appended to the channel.
LEMMA ChanAppend ==
  ASSUME NEW u, NEW h \in Transaction,
         NEW d \in {add_transaction(u, h), remove_transaction(u, h)},
         ChanOK, coin_chan' = Append(coin_chan, d)
  PROVE  /\ ChanOK'
         /\ coin_chan' # <<>>
         /\ coin_chan # <<>> => Head(coin_chan') = Head(coin_chan)
  <1>1. PICK D : /\ coin_chan \in Seq(D)
                 /\ \A x \in D : IsFiniteSet(DOMAIN Owned(x.added))
    BY DEF ChanOK
  <1>2. IsFiniteSet(DOMAIN Owned(d.added))
    BY DiffFinite
  <1> DEFINE E == D \cup {d}
  <1>3. coin_chan \in Seq(E) /\ d \in E
    BY <1>1
  <1>4. coin_chan' \in Seq(E)
    BY <1>3
  <1>5. \A x \in E : IsFiniteSet(DOMAIN Owned(x.added))
    BY <1>1, <1>2
  <1>6. ChanOK'
    BY <1>4, <1>5 DEF ChanOK, Owned, contains_keypair
  <1> QED
    BY <1>3, <1>6

\* The first diff of the channel, and what is left without it.
LEMMA ChanHead ==
  ASSUME ChanOK, coin_chan # <<>>
  PROVE  /\ IsFiniteSet(DOMAIN Owned(Head(coin_chan).added))
         /\ CountDiff(Head(coin_chan)) \in Nat
         /\ coin_chan' = Tail(coin_chan) => ChanOK'
  <1>1. PICK D : /\ coin_chan \in Seq(D)
                 /\ \A x \in D : IsFiniteSet(DOMAIN Owned(x.added))
    BY DEF ChanOK
  <1>2. Head(coin_chan) \in D /\ Tail(coin_chan) \in Seq(D)
    BY <1>1
  <1>3. IsFiniteSet(DOMAIN Owned(Head(coin_chan).added))
    BY <1>1, <1>2
  <1>4. CountDiff(Head(coin_chan)) \in Nat
    BY <1>3, FS_CardinalityType DEF CountDiff
  <1>5. coin_chan' = Tail(coin_chan) => ChanOK'
    BY <1>1, <1>2 DEF ChanOK, Owned, contains_keypair
  <1> QED
    BY <1>3, <1>4, <1>5

\* The terms of Covered are numbers.
LEMMA TermsAreNumbers ==
  ASSUME IInv
  PROVE  /\ IsFiniteSet(Held) /\ Cardinality(Held) \in Nat
         /\ IsFiniteSet(Free) /\ Cardinality(Free) \in Nat
         /\ Pending \in Nat
  <1>1. IsFiniteSet(Held)
    BY InputCoinsFinite, FS_EmptySet DEF IInv, Held
  <1>2. IsFiniteSet(Free)
    BY Zenon, FS_Difference DEF IInv, Free
  <1>3. Pending \in Nat
    BY ChanHead DEF IInv, Pending
  <1> QED
    BY <1>1, <1>2, <1>3, FS_CardinalityType

\* A set and what is outside of it.
LEMMA SplitCardinality ==
  ASSUME NEW S, NEW T, IsFiniteSet(S), IsFiniteSet(T)
  PROVE  /\ Cardinality(S) <= Cardinality(S \ T) + Cardinality(T)
         /\ T \subseteq S => Cardinality(S) = Cardinality(S \ T) + Cardinality(T)
  <1>1. /\ Cardinality(S) \in Nat /\ Cardinality(T) \in Nat
        /\ Cardinality(S \cap T) \in Nat
        /\ Cardinality(S \cap T) <= Cardinality(T)
    BY Zenon, FS_CardinalityType, FS_Intersection
  <1>2. Cardinality(S \ T) = Cardinality(S) - Cardinality(S \cap T)
    BY Zenon, FS_Difference
  <1>3. Cardinality(S) <= Cardinality(S \ T) + Cardinality(T)
    BY <1>1, <1>2
  <1>4. ASSUME T \subseteq S
        PROVE  Cardinality(S) = Cardinality(S \ T) + Cardinality(T)
    <2>1. S \cap T = T
      BY <1>4
    <2>2. Cardinality(S \ T) = Cardinality(S) - Cardinality(T)
      BY <1>2, <2>1, Zenon
    <2> QED
      BY <1>1, <2>2
  <1> QED
    BY <1>3, <1>4

\* The initial state: the counter is the number of coins.
LEMMA InitIInv == GeneratorInit => IInv
  <1> SUFFICES ASSUME GeneratorInit PROVE IInv
    OBVIOUS
  <1>1. IsFiniteSet(DOMAIN coins)
    BY FinitenessAssumption, OwnedIsPart, FS_Subset DEF GeneratorInit
  <1>2. ChanOK
    <2>1. coin_chan \in Seq({})
      BY DEF GeneratorInit
    <2> QED
      BY <2>1 DEF ChanOK
  <1>3. Held = {} /\ Free = DOMAIN coins /\ Pending = 0
    BY DEF GeneratorInit, Held, Free, Pending
  <1>4. counter \in Int /\ Covered
    BY <1>1, <1>3, FS_CardinalityType, FS_EmptySet DEF GeneratorInit, Covered
  <1>5. ledger \in Seq(Transaction)
    BY DEF GeneratorInit
  <1>6. /\ gpc = "loop" /\ mined \subseteq Transaction
        /\ counted = FALSE
    BY DEF GeneratorInit
  <1> QED
    BY Zenon, <1>1, <1>2, <1>4, <1>5, <1>6 DEF IInv

\* A step that leaves the generator, the wallet and the channel as they are keeps
\* what the invariant says of them.
LEMMA SameCovered ==
  ASSUME IInv, gpc' = gpc, transaction' = transaction, walletVars' = walletVars,
         counted' = counted, counted => Head(coin_chan') = Head(coin_chan)
  PROVE  Covered'
  <1>1. Held' = Held /\ Free' = Free
    BY DEF Held, Free, walletVars
  <1>2. Pending' = Pending
    BY DEF Pending, CountDiff, Owned, contains_keypair
  <1> QED
    BY <1>1, <1>2 DEF Covered, IInv, walletVars

\* Every step of the generator, the wallet thread, the ledger and the network keeps
\* the invariant.
LEMMA NextIInv == IInv /\ [GeneratorNext]_allVars => IInv'
  <1> SUFFICES ASSUME IInv, [GeneratorNext]_allVars PROVE IInv'
    OBVIOUS
  <1>a. ChanOK /\ (coin_chan' = coin_chan => ChanOK')
    BY Zenon DEF IInv, ChanOK, Owned, contains_keypair
  <1>1. CASE handle_control_signal
    BY <1>1, <1>a, SameCovered
       DEF handle_control_signal, IInv, walletVars, ledgerVars, chanVars
  <1>2. CASE SelectCoins
    <2>1. PICK value \in Value, h \in Transaction :
            InputCoins(h) = CoinsToUse(prev_coin, value) /\ transaction' = h
      BY <1>2 DEF SelectCoins, Created
    <2>2. /\ gpc = "loop" /\ gpc' = "remove"
          /\ UNCHANGED <<coins, counter, mined, ledger, coin_chan, counted>>
      BY <1>2 DEF SelectCoins, walletVars, ledgerVars, chanVars
    <2>3. InputCoins(h) \subseteq DOMAIN coins
      BY <2>1 DEF CoinsToUse
    <2>4. /\ Held = {} /\ Free = DOMAIN coins
          /\ Held' = InputCoins(h) /\ Free' = DOMAIN coins \ InputCoins(h)
      BY <2>1, <2>2 DEF Held, Free
    <2>5. Pending' = Pending
      BY <2>2 DEF Pending, CountDiff, Owned, contains_keypair
    <2>6. /\ Cardinality(Held) = 0
          /\ Cardinality(Free) = Cardinality(Free') + Cardinality(Held')
      BY <2>3, <2>4, InputCoinsFinite, SplitCardinality, FS_EmptySet DEF IInv
    <2>7. Cardinality(Free') \in Nat /\ Cardinality(Held') \in Nat /\ Pending \in Nat
      BY Zenon, <2>4, InputCoinsFinite, FS_Difference, FS_CardinalityType, TermsAreNumbers
         DEF IInv
    <2>8. counter >= Cardinality(Free) + Cardinality(Held) + Pending /\ counter \in Int
      BY DEF IInv, Covered
    <2>9. Covered'
      BY <2>2, <2>5, <2>6, <2>7, <2>8 DEF Covered
    <2> QED
      BY <2>1, <2>2, <2>9, <1>a DEF IInv
  <1>3. CASE InsufficientBalance
    BY <1>3, <1>a, SameCovered
       DEF InsufficientBalance, IInv, walletVars, ledgerVars, chanVars
  <1>4. CASE RemoveCoins
    <2>1. /\ gpc = "remove" /\ gpc' = "sign"
          /\ DOMAIN coins' = DOMAIN coins \ InputCoins(transaction)
          /\ UNCHANGED <<counter, transaction, mined, ledger, coin_chan, counted>>
      BY <1>4 DEF RemoveCoins, Without, ledgerVars, chanVars
    <2>2. Held' = Held /\ Free' = Free
      BY <2>1 DEF Held, Free
    <2>3. Pending' = Pending
      BY <2>1 DEF Pending, CountDiff, Owned, contains_keypair
    <2>4. Covered'
      BY <2>1, <2>2, <2>3 DEF Covered, IInv
    <2>5. IsFiniteSet(DOMAIN coins')
      BY Zenon, <2>1, FS_Difference DEF IInv
    <2> QED
      BY <2>1, <2>4, <2>5, <1>a DEF IInv
  <1>5. CASE Submit
    <2>1. /\ gpc = "sign" /\ gpc' = "loop"
          /\ counter' = counter - Cardinality(InputCoins(transaction))
          /\ UNCHANGED <<coins, mined, ledger, coin_chan, counted>>
      BY <1>5 DEF Submit, ledgerVars, chanVars
    <2>2. /\ Held = InputCoins(transaction) /\ Held' = {} /\ Free' = Free
      BY <2>1 DEF Held, Free
    <2>3. Pending' = Pending
      BY <2>1 DEF Pending, CountDiff, Owned, contains_keypair
    <2>4. counter >= Cardinality(Free) + Cardinality(Held) + Pending /\ counter \in Int
      BY DEF IInv, Covered
    <2>5. Cardinality(Held') = 0
      BY <2>2, FS_EmptySet
    <2>6. counter' \in Int /\ Covered'
      BY <2>1, <2>2, <2>3, <2>4, <2>5, TermsAreNumbers DEF Covered
    <2> QED
      BY <2>1, <2>6, <1>a DEF IInv
  <1>6. CASE Confirm
    <2>1. PICK h \in mined :
            /\ coin_chan' = Append(coin_chan, add_transaction(utxo, h))
            /\ ledger' = Append(ledger, h)
      BY <1>6 DEF Confirm
    <2>2. UNCHANGED <<coins, counter, gpc, transaction, mined, counted>>
      BY <1>6 DEF Confirm, walletVars, generatorVars
    <2>3. h \in Transaction /\ ledger' \in Seq(Transaction)
      BY <2>1 DEF IInv
    <2>4. /\ ChanOK' /\ coin_chan' # <<>>
          /\ coin_chan # <<>> => Head(coin_chan') = Head(coin_chan)
      BY <2>1, <2>3, <1>a, ChanAppend
    <2>5. Covered'
      BY <2>2, <2>4, SameCovered DEF IInv, walletVars
    <2> QED
      BY <2>2, <2>3, <2>4, <2>5 DEF IInv
  <1>7. CASE Rollback
    <2>1. /\ coin_chan' = Append(coin_chan, remove_transaction(utxo, Last(ledger)))
          /\ ledger # <<>> /\ ledger' = Front(ledger)
          /\ UNCHANGED <<coins, counter, gpc, transaction, mined, counted>>
      BY <1>7 DEF Rollback, walletVars, generatorVars
    <2>2. Last(ledger) \in Transaction
      BY <2>1 DEF IInv, Last
    <2>3. ledger' \in Seq(Transaction)
      BY <2>1 DEF IInv, Front
    <2>4. /\ ChanOK' /\ coin_chan' # <<>>
          /\ coin_chan # <<>> => Head(coin_chan') = Head(coin_chan)
      BY <2>1, <2>2, <1>a, ChanAppend
    <2>5. Covered'
      BY <2>1, <2>4, SameCovered DEF IInv, walletVars
    <2> QED
      BY <2>1, <2>3, <2>4, <2>5 DEF IInv
  <1>8. CASE CountCoins
    <2>1. /\ coin_chan # <<>> /\ counted = FALSE /\ counted' = TRUE
          /\ counter' = counter + CountDiff(Head(coin_chan))
          /\ UNCHANGED <<coins, gpc, transaction, mined, ledger, coin_chan>>
      BY <1>8 DEF CountCoins, IInv, generatorVars, ledgerVars
    <2>2. Held' = Held /\ Free' = Free
      BY <2>1 DEF Held, Free
    <2>3. Pending = 0 /\ Pending' = CountDiff(Head(coin_chan))
      BY <2>1 DEF Pending, CountDiff, Owned, contains_keypair
    <2>4. CountDiff(Head(coin_chan)) \in Nat
      BY <2>1, <1>a, ChanHead
    <2>5. counter >= Cardinality(Free) + Cardinality(Held) + Pending /\ counter \in Int
      BY DEF IInv, Covered
    <2>6. counter' \in Int /\ Covered'
      BY <2>1, <2>2, <2>3, <2>4, <2>5, TermsAreNumbers DEF Covered
    <2> QED
      BY <2>1, <2>6, <1>a DEF IInv
  <1>9. CASE WriteCoins
    <2> DEFINE added == DOMAIN Owned(Head(coin_chan).added)
               F == Free \cup added
    <2>1. /\ counted = TRUE /\ counted' = FALSE /\ coin_chan' = Tail(coin_chan)
          /\ UNCHANGED <<counter, gpc, transaction, mined, ledger>>
      BY <1>9 DEF WriteCoins, IInv, generatorVars, ledgerVars
    <2>2. DOMAIN coins' \subseteq DOMAIN coins \cup added
      BY <1>9 DEF WriteCoins
    <2>3. coin_chan # <<>>
      BY <2>1 DEF IInv
    <2>4. IsFiniteSet(added) /\ ChanOK'
      BY <2>1, <2>3, <1>a, ChanHead
    <2>5. Held' = Held /\ Free' \subseteq F
      BY <2>1, <2>2 DEF Held, Free
    <2>6. Pending = Cardinality(added) /\ Pending' = 0
      BY <2>1 DEF Pending, CountDiff
    <2>7. IsFiniteSet(DOMAIN coins')
      BY Zenon, <2>2, <2>4, FS_Union, FS_Subset DEF IInv
    <2>8. IsFiniteSet(F) /\ Cardinality(F) <= Cardinality(Free) + Cardinality(added)
      <3>1. IsFiniteSet(Free) /\ Cardinality(Free) \in Nat
        BY TermsAreNumbers
      <3>2. Cardinality(added) \in Nat /\ Cardinality(Free \cap added) \in Nat
        BY Zenon, <2>4, <3>1, FS_Intersection, FS_CardinalityType
      <3>3. /\ IsFiniteSet(F)
            /\ Cardinality(F) = Cardinality(Free) + Cardinality(added)
                                  - Cardinality(Free \cap added)
        BY <2>4, <3>1, FS_Union, Zenon
      <3> HIDE DEF F, added
      <3> QED
        BY <3>1, <3>2, <3>3
    <2>9. /\ Cardinality(Free') \in Nat /\ Cardinality(F) \in Nat
          /\ Cardinality(Free') <= Cardinality(F)
      BY <2>5, <2>8, FS_Subset, FS_CardinalityType
    <2>10. counter >= Cardinality(Free) + Cardinality(Held) + Pending /\ counter \in Int
      BY DEF IInv, Covered
    <2>11. Covered'
      <3> HIDE DEF F, added
      <3> QED
        BY <2>1, <2>5, <2>6, <2>8, <2>9, <2>10, TermsAreNumbers DEF Covered
    <2> QED
      BY Zenon, <2>1, <2>4, <2>7, <2>11 DEF IInv
  <1>10. CASE ReceiveTransaction
    BY <1>10, <1>a, SameCovered
       DEF ReceiveTransaction, IInv, walletVars, generatorVars, ledgerVars, chanVars
  <1>11. CASE ReceiveBlock
    <2>1. /\ UNCHANGED <<coins, counter, gpc, transaction, ledger, coin_chan, counted>>
          /\ mined' = mined \cup ToSet(block')
      BY <1>11 DEF ReceiveBlock, walletVars, generatorVars, chanVars
    <2>2. block' \in SeqOf(Transaction, MaxBlock)
      BY <1>11 DEF ReceiveBlock, NewBlock
    <2>3. ToSet(block') \subseteq Transaction
      BY <2>2 DEF SeqOf, ToSet
    <2>4. Covered'
      BY <2>1, SameCovered DEF walletVars
    <2> QED
      BY <2>1, <2>3, <2>4, <1>a DEF IInv
  <1>12. CASE UNCHANGED allVars
    BY <1>12, <1>a, SameCovered
       DEF allVars, IInv, walletVars, generatorVars, ledgerVars, chanVars
  <1> QED
    BY <1>1, <1>2, <1>3, <1>4, <1>5, <1>6, <1>7, <1>8, <1>9, <1>10, <1>11, <1>12
       DEF GeneratorNext

\* The invariant holds of every behaviour.
LEMMA Invariance == GeneratorSpec => []IInv
  BY InitIInv, NextIInv, PTL DEF GeneratorSpec

\* The wallet's counter is never below the number of its coins (CounterCoversCoins),
\* for any transactions, wallet and bounds: the count that create_transaction takes
\* off after it has removed its coins, and the count that apply_diff adds before it
\* writes them, never meet in an order that loses a coin.
THEOREM CounterIsSafe == GeneratorSpec => []CounterCoversCoins
  <1>1. IInv => CounterCoversCoins
    <2> SUFFICES ASSUME IInv PROVE CounterCoversCoins
      OBVIOUS
    <2>1. Cardinality(DOMAIN coins) <= Cardinality(Free) + Cardinality(Held)
      BY TermsAreNumbers, SplitCardinality DEF IInv, Free
    <2>2. Cardinality(DOMAIN coins) \in Nat
      BY FS_CardinalityType DEF IInv
    <2>3. counter >= Cardinality(Free) + Cardinality(Held) + Pending /\ counter \in Int
      BY DEF IInv, Covered
    <2> QED
      BY <2>1, <2>2, <2>3, TermsAreNumbers DEF CounterCoversCoins
  <1> QED
    BY <1>1, Invariance, PTL

-----------------------------------------------------------------------------
(* The coins of the wallet.                                                *)

\* A diff of coins that adds or removes the coin.
Touches(d, x) == x \in DOMAIN d.added \/ x \in d.removed

\* No diff of s from the i-th to the j-th touches the coin.
Untouched(s, i, j, x) == \A k \in i .. j : ~Touches(s[k], x)

\* What makes WalletIsSpendable inductive, of the coins w of the wallet, the unspent
\* coins u and the diffs s between them.
WalletOK(w, u, s) ==
  /\ \A x \in DOMAIN w : contains_keypair(w[x].recipient)
  /\ \A x \in DOMAIN w : Untouched(s, 1, Len(s), x) => x \in DOMAIN u /\ u[x] = w[x]
  /\ \A j \in 1 .. Len(s) : \A x \in DOMAIN s[j].added \ s[j].removed :
       /\ Untouched(s, j + 1, Len(s), x) => x \in DOMAIN u /\ u[x] = s[j].added[x]
       /\ \/ x \notin DOMAIN w /\ Untouched(s, 1, j - 1, x)
          \/ \E k \in 1 .. j - 1 : x \in s[k].removed /\ Untouched(s, k + 1, j - 1, x)

\* D[k] are the unspent coins after k transactions of the ledger: each of them had
\* its inputs there and replaced them by its outputs, or changed nothing.
IsHistory(D, l, u) ==
  /\ DOMAIN D = 0 .. Len(l)
  /\ D[0] = DOMAIN genesis_utxo
  /\ D[Len(l)] = DOMAIN u
  /\ \A k \in 1 .. Len(l) :
       \/ D[k] = D[k - 1]
       \/ /\ InputCoins(l[k]) \subseteq D[k - 1]
          /\ D[k] = (D[k - 1] \ InputCoins(l[k])) \cup OutputCoins(l[k])
  /\ \A k \in 0 .. Len(l) : \A x \in D[k] :
       x \in DOMAIN genesis_utxo \/ \E j \in 1 .. k : x \in OutputCoins(l[j])

\* A transaction is in the ledger once, and there is such a history: it is what
\* shows that the coins a diff adds were not there before.
HistoryOK(l, u) ==
  /\ \A j, k \in 1 .. Len(l) : l[j] = l[k] => j = k
  /\ \E D : IsHistory(D, l, u)
HistoryInv == HistoryOK(ledger, utxo)
WInv == WalletOK(coins, utxo, coin_chan)

\* The wallet gives coins away.
LEMMA SpendOK ==
  ASSUME NEW w, NEW u, NEW s, NEW S, WalletOK(w, u, s)
  PROVE  WalletOK(Without(w, S), u, s)
  <1> DEFINE v == Without(w, S)
  <1>1. DOMAIN v \subseteq DOMAIN w /\ \A x \in DOMAIN v : v[x] = w[x]
    BY DEF Without
  <1> HIDE DEF v
  <1> QED
    BY <1>1, Zenon DEF WalletOK, v

\* The ledger changes, and its diff is sent.
LEMMA SendOK ==
  ASSUME NEW w, NEW u, NEW D, NEW s \in Seq(D), NEW d \in D, WalletOK(w, u, s),
         \A x \in DOMAIN d.added \ d.removed : x \notin DOMAIN u
  PROVE  WalletOK(w, Write(u, d), Append(s, d))
  <1> DEFINE v == Write(u, d)
             t == Append(s, d)
             n == Len(s)
  <1>1. /\ n \in Nat /\ Len(t) = n + 1 /\ t[n + 1] = d
        /\ \A k \in 1 .. n : t[k] = s[k]
    OBVIOUS
  <1>2. /\ \A x : ~Touches(d, x) /\ x \in DOMAIN u => x \in DOMAIN v /\ v[x] = u[x]
        /\ \A x \in DOMAIN d.added : x \in DOMAIN v /\ v[x] = d.added[x]
    BY Zenon DEF Write, Touches
  <1> HIDE DEF v, t, n
  <1>3. \A j \in 1 .. n + 1 : \A x : Untouched(t, j, n + 1, x) => Untouched(s, j, n, x) /\ ~Touches(d, x)
    BY <1>1 DEF Untouched
  <1>4. \A i \in Nat : \A j \in 0 .. n : \A x : i >= 1 => (Untouched(t, i, j, x) <=> Untouched(s, i, j, x))
    BY <1>1 DEF Untouched
  <1>5. ASSUME NEW x \in DOMAIN w, Untouched(t, 1, n + 1, x)
        PROVE  x \in DOMAIN v /\ v[x] = w[x]
    <2>1. 1 \in 1 .. n + 1
      BY <1>1
    <2>2. Untouched(s, 1, n, x) /\ ~Touches(d, x)
      BY Zenon, <1>3, <1>5, <2>1
    <2>3. x \in DOMAIN u /\ u[x] = w[x]
      BY Zenon, <2>2 DEF WalletOK, n
    <2> QED
      BY Zenon, <1>2, <2>2, <2>3
  <1>6. ASSUME NEW j \in 1 .. n, NEW x \in DOMAIN t[j].added \ t[j].removed
        PROVE  /\ Untouched(t, j + 1, n + 1, x) => x \in DOMAIN v /\ v[x] = t[j].added[x]
               /\ \/ x \notin DOMAIN w /\ Untouched(t, 1, j - 1, x)
                  \/ \E k \in 1 .. j - 1 : x \in t[k].removed /\ Untouched(t, k + 1, j - 1, x)
    <2>1. t[j] = s[j] /\ j \in 1 .. Len(s) /\ x \in DOMAIN s[j].added \ s[j].removed
      BY ZenonT(30), <1>1 DEF n
    <2>2. Untouched(s, j + 1, n, x) => x \in DOMAIN u /\ u[x] = s[j].added[x]
      BY ZenonT(30), <2>1 DEF WalletOK, n
    <2>3. Untouched(t, j + 1, n + 1, x) => x \in DOMAIN v /\ v[x] = t[j].added[x]
      BY <2>1, <2>2, <1>1, <1>2, <1>3
    <2>4. \/ x \notin DOMAIN w /\ Untouched(s, 1, j - 1, x)
          \/ \E k \in 1 .. j - 1 : x \in s[k].removed /\ Untouched(s, k + 1, j - 1, x)
      BY <2>1 DEF WalletOK
    <2> QED
      BY <2>3, <2>4, <1>1, <1>4
  <1>7. ASSUME NEW x \in DOMAIN d.added \ d.removed
        PROVE  \/ x \notin DOMAIN w /\ Untouched(t, 1, n, x)
               \/ \E k \in 1 .. n : x \in t[k].removed /\ Untouched(t, k + 1, n, x)
    <2> DEFINE T == {k \in 1 .. n : Touches(s[k], x)}
    <2>1. CASE T = {}
      BY SMTT(30), <2>1, <1>1, <1>4 DEF Untouched, WalletOK, n
    <2>2. CASE T # {}
      <3>1. T \in SUBSET (1 .. n)
        OBVIOUS
      <3> HIDE DEF T
      <3>2. Max(T) \in T /\ \A k \in T : k <= Max(T)
        BY ZenonT(30), <3>1, <2>2, <1>1, MaxIndex
      <3>3. PICK m \in T : \A k \in T : k <= m
        BY <3>2
      <3>4. m \in 1 .. n /\ Touches(s[m], x) /\ Untouched(s, m + 1, n, x)
        <4>1. m \in 1 .. n /\ Touches(s[m], x)
          BY Zenon, <3>3 DEF T
        <4>2. ASSUME NEW k \in m + 1 .. n PROVE ~Touches(s[k], x)
          <5>1. k \in 1 .. n /\ ~(k <= m)
            BY <4>1, <1>1
          <5> QED
            BY Zenon, <3>3, <5>1 DEF T
        <4> QED
          BY Zenon, <4>1, <4>2 DEF Untouched
      <3>5. x \in s[m].removed
        BY <3>4 DEF WalletOK, n, Touches
      <3> QED
        BY <3>4, <3>5, <1>1, <1>4
    <2> QED
      BY ZenonT(30), <2>1, <2>2
  <1>8. ASSUME NEW x \in DOMAIN t[n + 1].added \ t[n + 1].removed
        PROVE  x \in DOMAIN v /\ v[x] = t[n + 1].added[x]
    BY ZenonT(30), <1>1, <1>2
  <1>9. WalletOK(w, v, t)
    <2>1. \A j \in 1 .. n + 1 : \A x \in DOMAIN t[j].added \ t[j].removed :
            /\ Untouched(t, j + 1, n + 1, x) => x \in DOMAIN v /\ v[x] = t[j].added[x]
            /\ \/ x \notin DOMAIN w /\ Untouched(t, 1, j - 1, x)
               \/ \E k \in 1 .. j - 1 : x \in t[k].removed /\ Untouched(t, k + 1, j - 1, x)
      <3> TAKE j \in 1 .. n + 1
      <3>1. CASE j \in 1 .. n
        BY <3>1, <1>6
      <3>2. CASE j = n + 1
        <4>1. j - 1 = n
          BY <3>2, <1>1
        <4> QED
          BY <4>1, <3>2, <1>1, <1>7, <1>8
      <3>3. j \in 1 .. n \/ j = n + 1
        BY <1>1
      <3> QED
        BY Zenon, <3>1, <3>2, <3>3
    <2>2. PICK m : m = n + 1 /\ m = Len(t)
      BY <1>1
    <2>3. \A x \in DOMAIN w : contains_keypair(w[x].recipient)
      BY Zenon DEF WalletOK
    <2>4. \A x \in DOMAIN w : Untouched(t, 1, m, x) => x \in DOMAIN v /\ v[x] = w[x]
      BY Zenon, <1>5, <2>2
    <2>5. \A j \in 1 .. m : \A x \in DOMAIN t[j].added \ t[j].removed :
            /\ Untouched(t, j + 1, m, x) => x \in DOMAIN v /\ v[x] = t[j].added[x]
            /\ \/ x \notin DOMAIN w /\ Untouched(t, 1, j - 1, x)
               \/ \E k \in 1 .. j - 1 : x \in t[k].removed /\ Untouched(t, k + 1, j - 1, x)
      BY SMTT(30), <2>1, <2>2
    <2>6. \A x \in DOMAIN w : Untouched(t, 1, Len(t), x) => x \in DOMAIN v /\ v[x] = w[x]
      BY Zenon, <2>2, <2>4
    <2>7. \A j \in 1 .. Len(t) : \A x \in DOMAIN t[j].added \ t[j].removed :
            /\ Untouched(t, j + 1, Len(t), x) => x \in DOMAIN v /\ v[x] = t[j].added[x]
            /\ \/ x \notin DOMAIN w /\ Untouched(t, 1, j - 1, x)
               \/ \E k \in 1 .. j - 1 : x \in t[k].removed /\ Untouched(t, k + 1, j - 1, x)
      BY SMTT(30), <2>2, <2>5
    <2> QED
      BY Zenon, <2>3, <2>6, <2>7 DEF WalletOK
  <1> QED
    BY <1>9 DEF v, t

\* The wallet writes the first diff.
LEMMA WriteOK ==
  ASSUME NEW w, NEW u, NEW D, NEW s \in Seq(D), s # <<>>, WalletOK(w, u, s),
         NEW v, LET d == Head(s) added == Owned(d.added)
                IN  v = [x \in (DOMAIN added \cup DOMAIN w) \ d.removed |->
                           IF x \in DOMAIN added THEN added[x] ELSE w[x]]
  PROVE  WalletOK(v, u, Tail(s))
  <1> DEFINE t == Tail(s)
             n == Len(t)
             d == s[1]
  <1>1. /\ n \in Nat /\ Len(s) = n + 1 /\ d = Head(s)
        /\ \A k \in 1 .. n : t[k] = s[k + 1]
    OBVIOUS
  <1>2. /\ DOMAIN Owned(d.added) \subseteq DOMAIN d.added
        /\ \A x \in DOMAIN Owned(d.added) : /\ Owned(d.added)[x] = d.added[x]
                                            /\ contains_keypair(d.added[x].recipient)
    BY DEF Owned
  <1>3. ASSUME NEW x \in DOMAIN v
        PROVE  /\ x \notin d.removed
               /\ \/ x \in DOMAIN Owned(d.added) /\ v[x] = d.added[x]
                  \/ x \in DOMAIN w /\ v[x] = w[x] /\ ~Touches(d, x)
    <2>1. CASE x \in DOMAIN Owned(d.added)
      BY <2>1, <1>1, <1>2
    <2>2. CASE x \notin DOMAIN Owned(d.added)
      <3>1. x \in DOMAIN w /\ v[x] = w[x] /\ x \notin d.removed
        BY <2>2, <1>1
      <3>2. x \notin DOMAIN d.added
        BY <3>1, <1>1 DEF WalletOK
      <3> QED
        BY Zenon, <3>1, <3>2 DEF Touches
    <2> QED
      BY ZenonT(30), <2>1, <2>2
  <1> HIDE DEF t, n, d
  <1>4. \A j \in 1 .. n + 1 : \A k \in 0 .. n : \A x : Untouched(t, j, k, x) <=> Untouched(s, j + 1, k + 1, x)
    <2> TAKE j \in 1 .. n + 1
    <2> TAKE k \in 0 .. n
    <2> TAKE x
    <2>1. ASSUME Untouched(t, j, k, x) PROVE Untouched(s, j + 1, k + 1, x)
      <3> SUFFICES ASSUME NEW m \in j + 1 .. k + 1 PROVE ~Touches(s[m], x)
        BY DEF Untouched
      <3>1. m - 1 \in j .. k /\ m - 1 \in 1 .. n /\ (m - 1) + 1 = m
        BY <1>1
      <3> QED
        BY Zenon, <3>1, <2>1, <1>1 DEF Untouched
    <2>2. ASSUME Untouched(s, j + 1, k + 1, x) PROVE Untouched(t, j, k, x)
      <3> SUFFICES ASSUME NEW m \in j .. k PROVE ~Touches(t[m], x)
        BY DEF Untouched
      <3>1. m + 1 \in j + 1 .. k + 1 /\ m \in 1 .. n
        BY <1>1
      <3> QED
        BY <3>1, <2>2, <1>1 DEF Untouched
    <2> QED
      BY <2>1, <2>2
  <1>5. \A x \in DOMAIN v : contains_keypair(v[x].recipient)
    BY ZenonT(30), <1>2, <1>3 DEF WalletOK
  <1>6. ASSUME NEW x \in DOMAIN v, Untouched(t, 1, n, x)
        PROVE  x \in DOMAIN u /\ u[x] = v[x]
    <2>1. Untouched(s, 2, Len(s), x)
      BY <1>1, <1>4, <1>6
    <2>2. CASE x \in DOMAIN Owned(d.added) /\ v[x] = d.added[x]
      <3>1. x \in DOMAIN s[1].added \ s[1].removed /\ 1 \in 1 .. Len(s)
        BY <2>2, <1>1, <1>2, <1>3 DEF d
      <3>2. Untouched(s, 1 + 1, Len(s), x)
        BY <2>1
      <3> QED
        BY SMTT(30), <3>1, <3>2, <2>2 DEF WalletOK, d
    <2>3. CASE x \in DOMAIN w /\ v[x] = w[x] /\ ~Touches(d, x)
      <3>1. Untouched(s, 1, Len(s), x)
        <4>1. ASSUME NEW k \in 1 .. Len(s) PROVE ~Touches(s[k], x)
          <5>1. k = 1 \/ k \in 2 .. Len(s)
            BY SMTT(30), <1>1
          <5> QED
            BY Zenon, <2>1, <2>3, <5>1 DEF Untouched, d
        <4> QED
          BY Zenon, <4>1 DEF Untouched
      <3> QED
        BY <3>1, <2>3 DEF WalletOK
    <2> QED
      BY Zenon, <2>2, <2>3, <1>3
  <1>7. ASSUME NEW j \in 1 .. n, NEW x \in DOMAIN t[j].added \ t[j].removed
        PROVE  /\ Untouched(t, j + 1, n, x) => x \in DOMAIN u /\ u[x] = t[j].added[x]
               /\ \/ x \notin DOMAIN v /\ Untouched(t, 1, j - 1, x)
                  \/ \E k \in 1 .. j - 1 : x \in t[k].removed /\ Untouched(t, k + 1, j - 1, x)
    <2>1. /\ t[j] = s[j + 1] /\ j + 1 \in 1 .. Len(s) /\ (j + 1) - 1 = j
          /\ x \in DOMAIN s[j + 1].added \ s[j + 1].removed
      BY <1>1
    <2>2. /\ Untouched(s, (j + 1) + 1, Len(s), x) => x \in DOMAIN u /\ u[x] = s[j + 1].added[x]
          /\ \/ x \notin DOMAIN w /\ Untouched(s, 1, j, x)
             \/ \E k \in 1 .. j : x \in s[k].removed /\ Untouched(s, k + 1, j, x)
      BY <2>1 DEF WalletOK
    <2>3. Untouched(t, j + 1, n, x) => x \in DOMAIN u /\ u[x] = t[j].added[x]
      <3>1. Untouched(t, j + 1, n, x) <=> Untouched(s, (j + 1) + 1, n + 1, x)
        BY <1>1, <1>4
      <3> QED
        BY ZenonT(30), <3>1, <2>1, <2>2, <1>1
    <2>4. Untouched(t, 1, j - 1, x) <=> Untouched(s, 2, j, x)
      <3>1. j - 1 \in 0 .. n /\ (j - 1) + 1 = j /\ 1 + 1 = 2 /\ 1 \in 1 .. n + 1
        BY <1>1
      <3> QED
        BY <3>1, <1>4
    <2>5. CASE x \notin DOMAIN w /\ Untouched(s, 1, j, x)
      <3>a. 1 \in 1 .. j /\ 2 .. j \subseteq 1 .. j
        BY <1>1
      <3>b. \A k \in 1 .. j : ~Touches(s[k], x)
        BY <2>5 DEF Untouched
      <3>1. ~Touches(d, x) /\ Untouched(s, 2, j, x)
        BY <3>a, <3>b, Zenon DEF Untouched, d
      <3>2. x \notin DOMAIN v
        BY ZenonT(30), <3>1, <2>5, <1>2, <1>3 DEF Touches
      <3> QED
        BY ZenonT(30), <3>1, <3>2, <2>3, <2>4
    <2>6. ASSUME NEW k \in 1 .. j, x \in s[k].removed, Untouched(s, k + 1, j, x)
          PROVE  \/ x \notin DOMAIN v /\ Untouched(t, 1, j - 1, x)
                 \/ \E m \in 1 .. j - 1 : x \in t[m].removed /\ Untouched(t, m + 1, j - 1, x)
      <3>1. CASE k = 1
        <4>1. x \notin DOMAIN v
          BY ZenonT(30), <3>1, <2>6, <1>3 DEF d
        <4>2. Untouched(s, 2, j, x)
          BY <3>1, <2>6
        <4> QED
          BY <4>1, <4>2, <2>4
      <3>2. CASE k # 1
        <4>1. k - 1 \in 1 .. j - 1 /\ k - 1 \in 1 .. n /\ (k - 1) + 1 = k /\ k \in 1 .. n + 1
              /\ j - 1 \in 0 .. n /\ (j - 1) + 1 = j
          BY <3>2, <1>1
        <4>2. x \in t[k - 1].removed
          BY SMTT(30), <4>1, <2>6, <1>1
        <4>3. Untouched(t, k, j - 1, x) <=> Untouched(s, k + 1, j, x)
          BY <4>1, <1>4
        <4>4. Untouched(t, (k - 1) + 1, j - 1, x)
          BY <4>1, <4>3, <2>6
        <4> QED
          BY <4>1, <4>2, <4>4
      <3> QED
        BY Zenon, <3>1, <3>2
    <2> QED
      BY <2>2, <2>3, <2>5, <2>6
  <1>8. WalletOK(v, u, t)
    BY ZenonT(30), <1>5, <1>6, <1>7 DEF WalletOK, n
  <1> QED
    BY <1>8 DEF t

\* A coin has one transaction that it is an output of.
LEMMA CoinOfOne ==
  ASSUME NEW g, NEW h, NEW x \in OutputCoins(g), x \in OutputCoins(h)
  PROVE  g = h
  BY DEF OutputCoins, CoinId

\* The outputs of a transaction that is not in the first n of the ledger are not
\* unspent after these.
LEMMA OutputsFresh ==
  ASSUME NEW D, IsHistory(D, ledger, utxo), NEW n \in 0 .. Len(ledger), NEW h \in Transaction,
         \A j \in 1 .. n : ledger[j] # h
  PROVE  OutputCoins(h) \cap D[n] = {}
  BY ZenonT(30), GenesisAssumption, CoinOfOne DEF IsHistory

\* A transaction is confirmed: the coins it brings were not there.
LEMMA ConfirmHistory ==
  ASSUME NEW h \in Transaction, ledger \in Seq(Transaction), ~Contains(ledger, h), HistoryInv,
         NEW d, d = add_transaction(utxo, h), NEW u, u = Write(utxo, d),
         NEW l, l = Append(ledger, h)
  PROVE  HistoryOK(l, u) /\ \A x \in DOMAIN d.added : x \notin DOMAIN utxo
  <1> DEFINE n == Len(ledger)
  <1>1. PICK D : IsHistory(D, ledger, utxo)
    BY DEF HistoryInv, HistoryOK
  <1>2. /\ n \in Nat /\ Len(l) = n + 1 /\ l[n + 1] = h
        /\ \A k \in 1 .. n : l[k] = ledger[k] /\ ledger[k] # h
    BY DEF Contains
  <1>3. /\ DOMAIN D = 0 .. n /\ D[0] = DOMAIN genesis_utxo /\ D[n] = DOMAIN utxo
        /\ \A k \in 1 .. n :
             \/ D[k] = D[k - 1]
             \/ /\ InputCoins(ledger[k]) \subseteq D[k - 1]
                /\ D[k] = (D[k - 1] \ InputCoins(ledger[k])) \cup OutputCoins(ledger[k])
        /\ \A k \in 0 .. n : \A x \in D[k] :
             x \in DOMAIN genesis_utxo \/ \E j \in 1 .. k : x \in OutputCoins(ledger[j])
    BY ZenonT(30), <1>1 DEF IsHistory
  <1> HIDE DEF n
  <1>4. OutputCoins(h) \cap DOMAIN utxo = {}
    <2>1. n \in 0 .. Len(ledger)
      BY <1>2 DEF n
    <2>2. OutputCoins(h) \cap D[n] = {}
      BY Zenon, <1>1, <1>2, <2>1, OutputsFresh
    <2> QED
      BY Zenon, <1>3, <2>2
  <1>5. DOMAIN d.added \in {{}, OutputCoins(h)}
    BY Zenon DEF add_transaction, NoDiff
  <1>6. \/ DOMAIN u = DOMAIN utxo
        \/ /\ InputCoins(h) \subseteq DOMAIN utxo
           /\ DOMAIN u = (DOMAIN utxo \ InputCoins(h)) \cup OutputCoins(h)
    <2>1. CASE IsValid(utxo, h)
      <3>1. InputCoins(h) \subseteq DOMAIN utxo
        BY Zenon, <2>1 DEF IsValid, InputCoins
      <3>2. d.removed = InputCoins(h) /\ DOMAIN d.added = OutputCoins(h)
        BY ZenonT(30), <2>1 DEF add_transaction
      <3> QED
        BY <3>1, <3>2 DEF Write
    <2>2. CASE ~IsValid(utxo, h)
      BY ZenonT(30), <2>2 DEF add_transaction, NoDiff, Write
    <2> QED
      BY ZenonT(30), <2>1, <2>2
  <1> DEFINE E == [k \in 0 .. n + 1 |-> IF k = n + 1 THEN DOMAIN u ELSE D[k]]
  <1>7. /\ DOMAIN E = 0 .. n + 1 /\ E[n + 1] = DOMAIN u
        /\ \A k \in 0 .. n : E[k] = D[k]
    BY <1>2
  <1> HIDE DEF E
  <1>8. \A k \in 1 .. n + 1 :
          \/ E[k] = E[k - 1]
          \/ /\ InputCoins(l[k]) \subseteq E[k - 1]
             /\ E[k] = (E[k - 1] \ InputCoins(l[k])) \cup OutputCoins(l[k])
    <2> TAKE k \in 1 .. n + 1
    <2>1. CASE k = n + 1
      <3>1. k - 1 = n /\ E[k - 1] = DOMAIN utxo
        <4>1. k - 1 = n /\ n \in 0 .. n
          BY <2>1, <1>2
        <4> QED
          BY Zenon, <4>1, <1>3, <1>7
      <3> QED
        BY ZenonT(30), <3>1, <2>1, <1>2, <1>6, <1>7
    <2>2. CASE k \in 1 .. n
      <3>1. E[k] = D[k] /\ E[k - 1] = D[k - 1] /\ l[k] = ledger[k]
        <4>1. k \in 0 .. n /\ k - 1 \in 0 .. n
          BY <2>2, <1>2
        <4> QED
          BY Zenon, <4>1, <2>2, <1>2, <1>7
      <3> QED
        BY Zenon, <3>1, <2>2, <1>3
    <2> QED
      BY <2>1, <2>2, <1>2
  <1>9. \A k \in 0 .. n + 1 : \A x \in E[k] :
          x \in DOMAIN genesis_utxo \/ \E j \in 1 .. k : x \in OutputCoins(l[j])
    <2> TAKE k \in 0 .. n + 1
    <2> TAKE x \in E[k]
    <2>1. ASSUME NEW m \in 0 .. n, x \in D[m], m <= k
          PROVE  x \in DOMAIN genesis_utxo \/ \E j \in 1 .. k : x \in OutputCoins(l[j])
      <3>1. \A j \in 1 .. m : j \in 1 .. k /\ j \in 1 .. n
        BY <2>1, <1>2
      <3>2. x \in DOMAIN genesis_utxo \/ \E j \in 1 .. m : x \in OutputCoins(ledger[j])
        BY Zenon, <2>1, <1>3
      <3> QED
        BY Zenon, <3>1, <3>2, <1>2
    <2>2. CASE k \in 0 .. n
      <3>1. x \in D[k] /\ k <= k
        BY <2>2, <1>7
      <3> QED
        BY ZenonT(30), <3>1, <2>1, <2>2
    <2>3. CASE k = n + 1
      <3>1. x \in D[n] \/ x \in OutputCoins(l[n + 1])
        BY ZenonT(30), <2>3, <1>2, <1>3, <1>6, <1>7
      <3> QED
        BY <3>1, <2>1, <2>3, <1>2
    <2> QED
      BY <2>2, <2>3, <1>2
  <1>10. IsHistory(E, l, u)
    <2>1. PICK m : m = n + 1 /\ m = Len(l)
      BY <1>2
    <2>2. 0 \in 0 .. n
      BY <1>2
    <2>3. DOMAIN E = 0 .. m /\ E[0] = DOMAIN genesis_utxo /\ E[m] = DOMAIN u
      BY Zenon, <1>3, <1>7, <2>1, <2>2
    <2> QED
      BY Zenon, <1>8, <1>9, <2>1, <2>3 DEF IsHistory
  <1>11. \A j, k \in 1 .. n + 1 : l[j] = l[k] => j = k
    <2>1. \A j, k \in 1 .. n : ledger[j] = ledger[k] => j = k
      BY Zenon DEF HistoryInv, HistoryOK, n
    <2> QED
      BY <1>2, <2>1
  <1> QED
    BY ZenonT(30), <1>2, <1>4, <1>5, <1>10, <1>11 DEF HistoryInv, HistoryOK

\* The last transaction is rolled back: the coins it brings back were not there.
LEMMA RollbackHistory ==
  ASSUME ledger \in Seq(Transaction), ledger # <<>>, HistoryInv,
         NEW d, d = remove_transaction(utxo, Last(ledger)), NEW u, u = Write(utxo, d),
         NEW l, l = Front(ledger)
  PROVE  HistoryOK(l, u) /\ \A x \in DOMAIN d.added : x \notin DOMAIN utxo
  <1> DEFINE n == Len(ledger)
             h == Last(ledger)
  <1>1. PICK D : IsHistory(D, ledger, utxo)
    BY DEF HistoryInv, HistoryOK
  <1>2. /\ n \in Nat \ {0} /\ Len(l) = n - 1 /\ h = ledger[n] /\ h \in Transaction
        /\ \A k \in 1 .. n - 1 : l[k] = ledger[k]
    <2>1. n \in Nat \ {0}
      OBVIOUS
    <2>2. l = SubSeq(ledger, 1, n - 1)
      BY DEF Front
    <2>3. h = ledger[n] /\ h \in Transaction
      BY <2>1 DEF Last
    <2>4. n - 1 \in Nat /\ n - 1 <= Len(ledger)
      BY <2>1
    <2> HIDE DEF n
    <2>5. /\ Len(SubSeq(ledger, 1, n - 1)) = n - 1
          /\ \A k \in 1 .. n - 1 : SubSeq(ledger, 1, n - 1)[k] = ledger[k]
      BY <2>4
    <2> QED
      BY <2>1, <2>2, <2>3, <2>5
  <1>2a. \A k \in 1 .. n - 1 : ledger[k] # h
    BY <1>2 DEF HistoryInv, HistoryOK
  <1>3. /\ DOMAIN D = 0 .. n /\ D[0] = DOMAIN genesis_utxo /\ D[n] = DOMAIN utxo
        /\ \A k \in 1 .. n :
             \/ D[k] = D[k - 1]
             \/ /\ InputCoins(ledger[k]) \subseteq D[k - 1]
                /\ D[k] = (D[k - 1] \ InputCoins(ledger[k])) \cup OutputCoins(ledger[k])
        /\ \A k \in 0 .. n : \A x \in D[k] :
             x \in DOMAIN genesis_utxo \/ \E j \in 1 .. k : x \in OutputCoins(ledger[j])
    BY <1>1 DEF IsHistory
  <1>4. OutputCoins(h) \cap D[n - 1] = {}
    <2>1. n - 1 \in 0 .. Len(ledger)
      BY <1>2
    <2> HIDE DEF n, h
    <2> QED
      BY Zenon, <2>1, <1>1, <1>2, <1>2a, OutputsFresh
  <1>5. OutputCoins(h) # {}
    BY Zenon, <1>2, TransactionAssumption DEF OutputCoins
  <1>6. \/ D[n] = D[n - 1]
        \/ /\ InputCoins(h) \subseteq D[n - 1]
           /\ D[n] = (D[n - 1] \ InputCoins(h)) \cup OutputCoins(h)
    <2>1. n \in 1 .. n
      BY <1>2
    <2> HIDE DEF n, h
    <2> QED
      BY ZenonT(30), <2>1, <1>2, <1>3
  <1> HIDE DEF n, h
  <1>7. /\ DOMAIN u = D[n - 1]
        /\ \A x \in DOMAIN d.added : x \notin DOMAIN utxo
    <2>1. CASE OutputCoins(h) \subseteq DOMAIN utxo
      <3>1. d.removed = OutputCoins(h) /\ DOMAIN d.added = InputCoins(h)
        BY Zenon, <2>1 DEF remove_transaction, h
      <3>2. /\ InputCoins(h) \subseteq D[n - 1]
            /\ D[n] = (D[n - 1] \ InputCoins(h)) \cup OutputCoins(h)
        BY ZenonT(30), <2>1, <1>3, <1>4, <1>5, <1>6
      <3>3. DOMAIN u = (DOMAIN utxo \ d.removed) \cup DOMAIN d.added
        BY DEF Write
      <3> QED
        BY <3>1, <3>2, <3>3, <1>3, <1>4
    <2>2. CASE ~(OutputCoins(h) \subseteq DOMAIN utxo)
      <3>1. d = NoDiff
        BY ZenonT(30), <2>2 DEF remove_transaction, h
      <3>2. D[n] = D[n - 1]
        BY Zenon, <2>2, <1>3, <1>6
      <3> QED
        BY <3>1, <3>2, <1>3 DEF NoDiff, Write
    <2> QED
      BY Zenon, <2>1, <2>2
  <1> DEFINE E == [k \in 0 .. n - 1 |-> D[k]]
  <1>8. /\ DOMAIN E = 0 .. n - 1
        /\ \A k \in 0 .. n - 1 : E[k] = D[k]
    OBVIOUS
  <1> HIDE DEF E
  <1>9. \A k \in 1 .. n - 1 :
          \/ E[k] = E[k - 1]
          \/ /\ InputCoins(l[k]) \subseteq E[k - 1]
             /\ E[k] = (E[k - 1] \ InputCoins(l[k])) \cup OutputCoins(l[k])
    <2> TAKE k \in 1 .. n - 1
    <2>1. E[k] = D[k] /\ E[k - 1] = D[k - 1] /\ l[k] = ledger[k] /\ k \in 1 .. n
      BY <1>2, <1>8
    <2> QED
      BY SMTT(30), <2>1, <1>3
  <1>10. \A k \in 0 .. n - 1 : \A x \in E[k] :
           x \in DOMAIN genesis_utxo \/ \E j \in 1 .. k : x \in OutputCoins(l[j])
    <2> TAKE k \in 0 .. n - 1
    <2>1. E[k] = D[k] /\ k \in 0 .. n /\ \A j \in 1 .. k : l[j] = ledger[j]
      BY <1>2, <1>8
    <2> QED
      BY <2>1, <1>3
  <1>11. 0 \in 0 .. n - 1 /\ n - 1 \in 0 .. n - 1
    BY <1>2
  <1>12. IsHistory(E, l, u)
    BY ZenonT(30), <1>2, <1>3, <1>7, <1>8, <1>9, <1>10, <1>11 DEF IsHistory
  <1>13. \A j, k \in 1 .. n - 1 : l[j] = l[k] => j = k
    BY <1>2 DEF HistoryInv, HistoryOK, n
  <1> QED
    BY <1>2, <1>7, <1>12, <1>13 DEF HistoryInv, HistoryOK

\* The first state.
LEMMA InitWallet == GeneratorInit => HistoryInv /\ WInv
  <1> SUFFICES ASSUME GeneratorInit PROVE HistoryInv /\ WInv
    OBVIOUS
  <1>1. coins = Owned(genesis_utxo) /\ utxo = genesis_utxo /\ ledger = <<>> /\ coin_chan = <<>>
    BY DEF GeneratorInit
  <1>2. Len(ledger) = 0 /\ Len(coin_chan) = 0
    BY <1>1
  <1>3. WInv
    BY <1>1, <1>2 DEF WInv, WalletOK, Owned
  <1> DEFINE D == [k \in 0 .. 0 |-> DOMAIN genesis_utxo]
  <1>4. IsHistory(D, ledger, utxo)
    BY <1>1, <1>2 DEF IsHistory
  <1> QED
    BY <1>2, <1>3, <1>4 DEF HistoryInv, HistoryOK

\* Every step: the ledger's diffs, the wallet's write and create_transaction's removal
\* are those that change the coins.
LEMMA NextWallet ==
  IInv /\ HistoryInv /\ WInv /\ [GeneratorNext]_allVars => HistoryInv' /\ WInv'
  <1> SUFFICES ASSUME IInv, HistoryInv, WInv, [GeneratorNext]_allVars PROVE HistoryInv' /\ WInv'
    OBVIOUS
  <1>1. PICK D : coin_chan \in Seq(D)
    BY DEF IInv, ChanOK
  <1>2. ASSUME ledger' = ledger, utxo' = utxo PROVE HistoryInv'
    BY <1>2 DEF HistoryInv
  <1>3. ASSUME NEW w, NEW u, NEW s, WalletOK(w, u, s), coins' = w, utxo' = u, coin_chan' = s
        PROVE  WInv'
    BY <1>3 DEF WInv
  <1>4. CASE Confirm
    <2>1. PICK h \in mined :
            /\ ~Contains(ledger, h)
            /\ utxo' = Write(utxo, add_transaction(utxo, h))
            /\ ledger' = Append(ledger, h)
            /\ coin_chan' = Append(coin_chan, add_transaction(utxo, h))
            /\ coins' = coins
      BY <1>4 DEF Confirm, walletVars
    <2> DEFINE d == add_transaction(utxo, h)
    <2>2. HistoryOK(ledger', utxo') /\ \A x \in DOMAIN d.added : x \notin DOMAIN utxo
      BY Zenon, <2>1, ConfirmHistory DEF IInv
    <2> HIDE DEF d
    <2>3. coin_chan \in Seq(D \cup {d}) /\ d \in D \cup {d}
      BY <1>1
    <2>4. WalletOK(coins, Write(utxo, d), Append(coin_chan, d))
      BY ZenonT(30), <2>2, <2>3, SendOK DEF WInv
    <2> QED
      BY ZenonT(30), <2>1, <2>2, <2>4, <1>3 DEF HistoryInv, d
  <1>5. CASE Rollback
    <2> DEFINE d == remove_transaction(utxo, Last(ledger))
    <2>1. /\ ledger # <<>>
          /\ utxo' = Write(utxo, d)
          /\ ledger' = Front(ledger)
          /\ coin_chan' = Append(coin_chan, d)
          /\ coins' = coins
      BY <1>5 DEF Rollback, walletVars
    <2>2. HistoryOK(ledger', utxo') /\ \A x \in DOMAIN d.added : x \notin DOMAIN utxo
      BY Zenon, <2>1, RollbackHistory DEF IInv
    <2> HIDE DEF d
    <2>3. coin_chan \in Seq(D \cup {d}) /\ d \in D \cup {d}
      BY <1>1
    <2>4. WalletOK(coins, Write(utxo, d), Append(coin_chan, d))
      BY Zenon, <2>2, <2>3, SendOK DEF WInv
    <2> QED
      BY ZenonT(30), <2>1, <2>2, <2>4, <1>3 DEF HistoryInv
  <1>6. CASE WriteCoins
    <2>1. /\ coin_chan # <<>> /\ coin_chan' = Tail(coin_chan)
          /\ ledger' = ledger /\ utxo' = utxo
      BY <1>6 DEF WriteCoins, IInv, ledgerVars
    <2> DEFINE v == [x \in (DOMAIN Owned(Head(coin_chan).added) \cup DOMAIN coins)
                              \ Head(coin_chan).removed |->
                       IF x \in DOMAIN Owned(Head(coin_chan).added)
                       THEN Owned(Head(coin_chan).added)[x] ELSE coins[x]]
    <2>2. coins' = v
      BY <1>6 DEF WriteCoins
    <2>3. WalletOK(v, utxo, Tail(coin_chan))
      BY Zenon, <1>1, <2>1, WriteOK DEF WInv
    <2> HIDE DEF v
    <2> QED
      BY ZenonT(30), <2>1, <2>2, <2>3, <1>2, <1>3
  <1>7. CASE RemoveCoins
    <2>1. /\ coins' = Without(coins, InputCoins(transaction))
          /\ UNCHANGED <<ledger, utxo, coin_chan>>
      BY <1>7 DEF RemoveCoins, ledgerVars, chanVars
    <2>2. WalletOK(Without(coins, InputCoins(transaction)), utxo, coin_chan)
      BY SpendOK DEF WInv
    <2> QED
      BY <2>1, <2>2, <1>2, <1>3
  <1>8. CASE UNCHANGED <<coins, ledger, utxo, coin_chan>>
    BY <1>2, <1>3, <1>8 DEF WInv
  <1> QED
    BY ZenonT(30), <1>4, <1>5, <1>6, <1>7, <1>8
       DEF GeneratorNext, handle_control_signal, SelectCoins, InsufficientBalance, Submit,
           CountCoins, ReceiveTransaction, ReceiveBlock, allVars, walletVars, ledgerVars, chanVars

\* When no diff is on its way the wallet holds unspent coins of the ledger and has
\* their keys (WalletIsSpendable), for any transactions and any confirmations and
\* rollbacks, also of transactions that misstate the owner of an input.
THEOREM WalletCanSpend == GeneratorSpec => []WalletIsSpendable
  <1>1. WInv => WalletIsSpendable
    <2> SUFFICES ASSUME WInv, coin_chan = <<>>, NEW x \in DOMAIN coins
                 PROVE  /\ x \in DOMAIN utxo /\ utxo[x] = coins[x]
                        /\ coins[x].recipient \in wallet_address
      BY DEF WalletIsSpendable
    <2>1. Untouched(coin_chan, 1, Len(coin_chan), x)
      BY DEF Untouched
    <2> QED
      BY <2>1 DEF WInv, WalletOK, contains_keypair
  <1> QED
    BY <1>1, InitIInv, NextIInv, InitWallet, NextWallet, PTL DEF GeneratorSpec
=============================================================================
