------------------------ MODULE LedgerManagerProofs -------------------------
(***************************************************************************)
(* Proofs about LedgerManager, for any transactions, workers and bounds:   *)
(* the scoreboard keeps the transactions under way apart, and the          *)
(* dispatcher knows every transaction it is notified of.                   *)
(***************************************************************************)
EXTENDS LedgerManager, Induction

Stages == {"idle", "write", "send", "notify"}
JobSet == [add : BOOLEAN, tx : Transaction, valid : BOOLEAN]

\* A diff of update_ledger: lists of transactions.
SequenceDiff == [added : Seq(Transaction), removed : Seq(Transaction), kept : Seq(Transaction)]

\* What the threads hold and hand on.
TypeInv ==
  /\ ledger \in Seq(Transaction)
  /\ tx_diff_chan \in Seq(SequenceDiff)
  /\ jobs \in Seq(JobSet)
  /\ transaction_chan \in Seq(JobSet)
  /\ notification_chan \in Seq(Transaction)
  /\ stage \in [Worker -> Stages]
  /\ job \in [Worker -> JobSet \cup {None}]
  /\ \A w \in Busy : job[w] \in JobSet

\* A transaction that is under way is in one place: on the channel to the workers,
\* with a worker, or on the channel of notifications.
OnePlace ==
  /\ \A i, k \in 1 .. Len(transaction_chan) :
       transaction_chan[i].tx = transaction_chan[k].tx => i = k
  /\ \A v, w \in Busy : job[v].tx = job[w].tx => v = w
  /\ \A i, k \in 1 .. Len(notification_chan) :
       notification_chan[i] = notification_chan[k] => i = k
  /\ \A i \in 1 .. Len(transaction_chan), w \in Busy : transaction_chan[i].tx # job[w].tx
  /\ \A i \in 1 .. Len(transaction_chan), k \in 1 .. Len(notification_chan) :
       transaction_chan[i].tx # notification_chan[k]
  /\ \A w \in Busy, k \in 1 .. Len(notification_chan) : job[w].tx # notification_chan[k]

\* The dispatcher has its entries.
Registered ==
  /\ \A i \in 1 .. Len(transaction_chan) : transaction_chan[i].tx \in DOMAIN transaction_coins
  /\ \A w \in Busy : job[w].tx \in DOMAIN transaction_coins
  /\ \A k \in 1 .. Len(notification_chan) : notification_chan[k] \in DOMAIN transaction_coins

\* The entries are on the scoreboard, and those of two transactions are apart.
Board(coins, board) ==
  /\ DOMAIN coins \subseteq Transaction
  /\ \A h \in DOMAIN coins : coins[h] = Touched(h) /\ Touched(h) \subseteq board
  /\ \A g, h \in DOMAIN coins : g # h => Touched(g) \cap Touched(h) = {}
BoardOK == Board(transaction_coins, scoreboard)

\* What makes NoConflict and NotificationsKnown inductive.
BoardInv == TypeInv /\ OnePlace /\ Registered /\ BoardOK

-----------------------------------------------------------------------------
(* The types.                                                              *)

\* The elements of a list that come after its first part, from the end and in order.
LEMMA Elements ==
  ASSUME NEW S, NEW r \in Seq(S), NEW t \in Seq(S)
  PROVE  \A i \in 1 .. Len(t) : /\ (r \o t)[Len(r \o t) + 1 - i] \in S
                                 /\ (r \o t)[Len(r) + i] \in S
  <1> DEFINE q == r \o t
  <1>1. q \in Seq(S) /\ Len(q) = Len(r) + Len(t) /\ Len(r) \in Nat /\ Len(t) \in Nat
    OBVIOUS
  <1> HIDE DEF q
  <1>2. \A i \in 1 .. Len(t) : Len(q) + 1 - i \in 1 .. Len(q) /\ Len(r) + i \in 1 .. Len(q)
    BY <1>1
  <1> QED
    BY <1>1, <1>2 DEF q

\* The jobs of a diff of update_ledger are jobs on its transactions.
LEMMA JobsOfType ==
  ASSUME NEW d \in SequenceDiff
  PROVE  JobsOf(d) \in Seq(JobSet)
  <1> DEFINE old == d.kept \o d.removed
             new == d.kept \o d.added
             J(add, q, i) == [add |-> add, tx |-> q[i], valid |-> ValidAt(q, i)]
             A == [i \in DOMAIN d.removed |-> J(FALSE, old, Len(old) + 1 - i)]
             B == [i \in DOMAIN d.added |-> J(TRUE, new, Len(d.kept) + i)]
  <1>1. /\ d.kept \in Seq(Transaction) /\ d.removed \in Seq(Transaction)
        /\ d.added \in Seq(Transaction)
    BY DEF SequenceDiff
  <1>2. /\ old \in Seq(Transaction) /\ Len(old) = Len(d.kept) + Len(d.removed)
        /\ new \in Seq(Transaction) /\ Len(new) = Len(d.kept) + Len(d.added)
    BY <1>1
  <1>3. /\ DOMAIN d.removed = 1 .. Len(d.removed) /\ DOMAIN d.added = 1 .. Len(d.added)
        /\ Len(d.removed) \in Nat /\ Len(d.added) \in Nat /\ Len(d.kept) \in Nat
    BY <1>1
  <1>4. \A q, i : ValidAt(q, i) \in BOOLEAN
    BY DEF ValidAt, IsValid
  <1>5. A \in Seq(JobSet)
    <2>1. \A i \in 1 .. Len(d.removed) : old[Len(old) + 1 - i] \in Transaction
      BY Zenon, <1>1, Elements
    <2> HIDE DEF old
    <2>2. \A i \in 1 .. Len(d.removed) : J(FALSE, old, Len(old) + 1 - i) \in JobSet
      BY <2>1, <1>4 DEF JobSet
    <2> HIDE DEF J
    <2>3. A \in [1 .. Len(d.removed) -> JobSet]
      BY Zenon, <2>2, <1>3
    <2> HIDE DEF A
    <2> QED
      BY <2>3, <1>3
  <1>6. B \in Seq(JobSet)
    <2>1. \A i \in 1 .. Len(d.added) : new[Len(d.kept) + i] \in Transaction
      BY Zenon, <1>1, Elements
    <2> HIDE DEF new
    <2>2. \A i \in 1 .. Len(d.added) : J(TRUE, new, Len(d.kept) + i) \in JobSet
      BY <2>1, <1>4 DEF JobSet
    <2> HIDE DEF J
    <2>3. B \in [1 .. Len(d.added) -> JobSet]
      BY Zenon, <2>2, <1>3
    <2> HIDE DEF B
    <2> QED
      BY <2>3, <1>3
  <1>7. JobsOf(d) = A \o B
    BY DEF JobsOf
  <1> HIDE DEF A, B
  <1> QED
    BY <1>5, <1>6, <1>7

\* The first state.
LEMMA InitBoard == Init => BoardInv
  <1> SUFFICES ASSUME Init PROVE BoardInv
    OBVIOUS
  <1>1. Busy = {}
    BY DEF Init, Busy
  <1>2. TypeInv
    BY <1>1 DEF Init, TypeInv, Stages
  <1>3. Len(transaction_chan) = 0 /\ Len(notification_chan) = 0 /\ DOMAIN transaction_coins = {}
    BY DEF Init
  <1> QED
    BY <1>1, <1>2, <1>3 DEF BoardInv, OnePlace, Registered, BoardOK, Board

\* Every step keeps the types.
LEMMA NextType == TypeInv /\ [Next]_vars => TypeInv'
  <1> SUFFICES ASSUME TypeInv, [Next]_vars PROVE TypeInv'
    OBVIOUS
  <1> USE DEF TypeInv
  <1>1. CASE UpdateSequence
    <2>1. PICK keep \in 0 .. Len(ledger), q \in SeqOf(Transaction, MaxLedger) :
            /\ ledger' = SubSeq(ledger, 1, keep) \o q
            /\ tx_diff_chan' =
                 Append(tx_diff_chan, [added |-> q, removed |-> SubSeq(ledger, keep + 1, Len(ledger)),
                                       kept |-> SubSeq(ledger, 1, keep)])
      BY Zenon, <1>1 DEF UpdateSequence, NewLedger
    <2>2. q \in Seq(Transaction)
      <3>1. PICK m \in 0 .. MaxLedger : q \in [1 .. m -> Transaction]
        BY Zenon DEF SeqOf
      <3> QED
        BY <3>1
    <2>3. SubSeq(ledger, 1, keep) \in Seq(Transaction) /\ SubSeq(ledger, keep + 1, Len(ledger)) \in Seq(Transaction)
      OBVIOUS
    <2>4. [added |-> q, removed |-> SubSeq(ledger, keep + 1, Len(ledger)),
           kept |-> SubSeq(ledger, 1, keep)] \in SequenceDiff
      BY <2>2, <2>3 DEF SequenceDiff
    <2>5. ledger' \in Seq(Transaction) /\ tx_diff_chan' \in Seq(SequenceDiff)
      BY <2>1, <2>2, <2>3, <2>4
    <2> QED
      BY <1>1, <2>5 DEF UpdateSequence, dispatchVars, workerVars, Busy
  <1>2. CASE ReceiveDiff
    <2>1. Head(tx_diff_chan) \in SequenceDiff /\ tx_diff_chan' \in Seq(SequenceDiff)
      BY <1>2 DEF ReceiveDiff
    <2>2. jobs' \in Seq(JobSet)
      BY <1>2, <2>1, JobsOfType DEF ReceiveDiff
    <2> QED
      BY <1>2, <2>1, <2>2 DEF ReceiveDiff, workerVars, Busy
  <1>3. CASE Drain
    <2>1. notification_chan' \in Seq(Transaction)
      BY <1>3 DEF Drain
    <2> QED
      BY <1>3, <2>1 DEF Drain, sequenceVars, workerVars, Busy
  <1>4. CASE WaitForHot
    <2>1. notification_chan' \in Seq(Transaction)
      BY <1>4 DEF WaitForHot
    <2> QED
      BY <1>4, <2>1 DEF WaitForHot, sequenceVars, workerVars, Busy
  <1>5. CASE Dispatch
    <2>1. jobs' \in Seq(JobSet) /\ transaction_chan' \in Seq(JobSet)
      BY <1>5 DEF Dispatch
    <2> QED
      BY <1>5, <2>1 DEF Dispatch, sequenceVars, workerVars, Busy
  <1>6. ASSUME NEW w \in Worker, Execute(w) PROVE TypeInv'
    <2>1. Head(transaction_chan) \in JobSet /\ transaction_chan' \in Seq(JobSet)
      BY <1>6 DEF Execute
    <2>2. job' \in [Worker -> JobSet \cup {None}] /\ \A v \in Worker : job'[v] = IF v = w THEN Head(transaction_chan) ELSE job[v]
      BY <1>6, <2>1 DEF Execute
    <2>3. stage' \in [Worker -> Stages] /\ \A v \in Worker : stage'[v] = IF v = w THEN "write" ELSE stage[v]
      BY <1>6 DEF Execute, Stages
    <2>4. \A v \in Busy' : job'[v] \in JobSet
      BY <2>1, <2>2, <2>3 DEF Busy
    <2> QED
      BY <1>6, <2>1, <2>2, <2>3, <2>4 DEF Execute, sequenceVars, dispatchVars
  <1>7. ASSUME NEW w \in Worker, Commit(w) \/ SendCoins(w) PROVE TypeInv'
    <2>1. stage' \in [Worker -> Stages] /\ stage[w] # "idle"
          /\ \A v \in Worker : v # w => stage'[v] = stage[v]
      BY ZenonT(30), <1>7 DEF Commit, SendCoins, Stages
    <2>2. Busy' \subseteq Busy /\ job' = job
      BY <1>7, <2>1 DEF Busy, Commit, SendCoins
    <2> QED
      BY <1>7, <2>1, <2>2 DEF Commit, SendCoins, sequenceVars, dispatchVars
  <1>8. ASSUME NEW w \in Worker, Notify(w) PROVE TypeInv'
    <2>1. stage' \in [Worker -> Stages] /\ w \in Busy
          /\ \A v \in Worker : stage'[v] = IF v = w THEN "idle" ELSE stage[v]
      BY <1>8 DEF Notify, Stages, Busy
    <2>2. job' \in [Worker -> JobSet \cup {None}] /\ \A v \in Worker : v # w => job'[v] = job[v]
      BY <1>8 DEF Notify
    <2>3. \A v \in Busy' : job'[v] \in JobSet
      BY <2>1, <2>2 DEF Busy
    <2>4. notification_chan' \in Seq(Transaction)
      BY <1>8, <2>1 DEF Notify, JobSet
    <2> QED
      BY <1>8, <2>1, <2>2, <2>3, <2>4 DEF Notify, sequenceVars, dispatchVars
  <1>9. CASE WriteWallet
    BY <1>9 DEF WriteWallet, sequenceVars, dispatchVars, workerVars, Busy
  <1>10. CASE UNCHANGED vars
    BY <1>10 DEF vars, sequenceVars, dispatchVars, workerVars, Busy
  <1> QED
    BY <1>1, <1>2, <1>3, <1>4, <1>5, <1>6, <1>7, <1>8, <1>9, <1>10
       DEF Next, dispatcher, worker_loop

-----------------------------------------------------------------------------
(* The scoreboard.                                                         *)

\* Entries of the transactions of S leave the scoreboard, and no others.
LEMMA FinishBoard ==
  ASSUME BoardOK, NEW S \in SUBSET DOMAIN transaction_coins, Finish(S)
  PROVE  BoardOK' /\ DOMAIN transaction_coins' = DOMAIN transaction_coins \ S
  <1> DEFINE tc == [h \in DOMAIN transaction_coins \ S |-> transaction_coins[h]]
             sb == scoreboard \ UNION {transaction_coins[h] : h \in S}
  <1>1. transaction_coins' = tc /\ scoreboard' = sb
    BY DEF Finish
  <1>2. ASSUME NEW h \in DOMAIN tc PROVE tc[h] = Touched(h) /\ Touched(h) \subseteq sb
    BY DEF BoardOK, Board
  <1>3. Board(tc, sb)
    BY <1>2 DEF BoardOK, Board
  <1> HIDE DEF tc, sb
  <1>4. BoardOK'
    BY <1>1, <1>3 DEF BoardOK
  <1> QED
    BY <1>1, <1>4 DEF tc

\* Where a transaction is that is under way.
LEMMA SamePlace ==
  ASSUME OnePlace, Registered, UNCHANGED <<transaction_chan, notification_chan, job>>,
         Busy' = Busy, UNCHANGED <<scoreboard, transaction_coins>>, BoardOK
  PROVE  OnePlace' /\ Registered' /\ BoardOK'
  BY DEF OnePlace, Registered, BoardOK

\* Every step keeps transactions in one place and their entries on the scoreboard.
LEMMA NextBoard == BoardInv /\ [Next]_vars => BoardInv'
  <1> SUFFICES ASSUME BoardInv, [Next]_vars PROVE OnePlace' /\ Registered' /\ BoardOK'
    BY NextType DEF BoardInv
  <1>a. TypeInv /\ OnePlace /\ Registered /\ BoardOK
    BY DEF BoardInv
  <1>b. /\ transaction_chan \in Seq(JobSet) /\ notification_chan \in Seq(Transaction)
        /\ jobs \in Seq(JobSet) /\ job \in [Worker -> JobSet \cup {None}]
        /\ stage \in [Worker -> Stages]
    BY <1>a DEF TypeInv
  <1>1. CASE UpdateSequence \/ ReceiveDiff \/ WriteWallet \/ UNCHANGED vars
    <2>1. UNCHANGED <<transaction_chan, notification_chan, job, stage, scoreboard, transaction_coins>>
      BY Zenon, <1>1 DEF UpdateSequence, ReceiveDiff, WriteWallet, vars, dispatchVars, workerVars
    <2>2. Busy' = Busy
      BY <2>1 DEF Busy
    <2> QED
      BY <2>1, <2>2, <1>a, SamePlace
  <1>2. CASE Drain
    <2> DEFINE S == ToSet(notification_chan)
    <2>1. /\ Finish(S) /\ notification_chan' = <<>>
          /\ UNCHANGED <<transaction_chan, job, stage>>
      BY <1>2 DEF Drain, workerVars
    <2>2. S = {notification_chan[i] : i \in 1 .. Len(notification_chan)}
      BY <1>b DEF ToSet
    <2> HIDE DEF S
    <2>3. S \in SUBSET DOMAIN transaction_coins
      BY <2>2, <1>a DEF Registered
    <2>4. BoardOK' /\ DOMAIN transaction_coins' = DOMAIN transaction_coins \ S
      BY Zenon, <2>1, <2>3, <1>a, FinishBoard
    <2>5. Busy' = Busy
      BY <2>1 DEF Busy
    <2>6. Len(notification_chan') = 0
      BY <2>1
    <2>7. /\ \A i \in 1 .. Len(transaction_chan) : transaction_chan[i].tx \notin S
          /\ \A w \in Busy : job[w].tx \notin S
      BY <2>2, <1>a DEF OnePlace
    <2>8. OnePlace'
      BY <2>1, <2>5, <2>6, <1>a DEF OnePlace
    <2>9. Registered'
      BY <2>1, <2>4, <2>5, <2>6, <2>7, <1>a DEF Registered
    <2> QED
      BY <2>4, <2>8, <2>9
  <1>3. CASE WaitForHot
    <2> DEFINE h == Head(notification_chan)
               n == Len(notification_chan)
    <2>1. /\ Finish({h}) /\ notification_chan # <<>> /\ notification_chan' = Tail(notification_chan)
          /\ UNCHANGED <<transaction_chan, job, stage>>
      BY <1>3 DEF WaitForHot, workerVars
    <2>2. /\ n \in Nat \ {0} /\ h = notification_chan[1] /\ Len(notification_chan') = n - 1
          /\ \A i \in 1 .. n - 1 : notification_chan'[i] = notification_chan[i + 1]
      BY <2>1, <1>b
    <2> HIDE DEF h, n
    <2>3. h \in DOMAIN transaction_coins
      BY <2>2, <1>a DEF Registered, n
    <2>4. BoardOK' /\ DOMAIN transaction_coins' = DOMAIN transaction_coins \ {h}
      BY Zenon, <2>1, <2>3, <1>a, FinishBoard
    <2>5. Busy' = Busy
      BY <2>1 DEF Busy
    <2>6. /\ \A i \in 1 .. Len(transaction_chan) : transaction_chan[i].tx # h
          /\ \A w \in Busy : job[w].tx # h
          /\ \A i \in 1 .. n - 1 : notification_chan[i + 1] # h
      BY <2>2, <1>a DEF OnePlace, n
    <2>7. \A i \in 1 .. n - 1 : i + 1 \in 1 .. Len(notification_chan)
      BY <2>2 DEF n
    <2>8. OnePlace'
      <3>1. \A i, k \in 1 .. n - 1 : notification_chan[i + 1] = notification_chan[k + 1] => i = k
        BY <2>2, <2>7, <1>a DEF OnePlace
      <3>2. /\ \A i \in 1 .. Len(transaction_chan), k \in 1 .. n - 1 :
                 transaction_chan[i].tx # notification_chan[k + 1]
            /\ \A w \in Busy, k \in 1 .. n - 1 : job[w].tx # notification_chan[k + 1]
        BY <2>7, <1>a DEF OnePlace
      <3> QED
        BY <3>1, <3>2, <2>1, <2>2, <2>5, <1>a DEF OnePlace
    <2>9. Registered'
      <3>1. \A k \in 1 .. n - 1 : notification_chan[k + 1] \in DOMAIN transaction_coins
        BY <2>7, <1>a DEF Registered
      <3> QED
        BY <3>1, <2>1, <2>2, <2>4, <2>5, <2>6, <1>a DEF Registered
    <2> QED
      BY <2>4, <2>8, <2>9
  <1>4. CASE Dispatch
    <2> DEFINE h == Head(jobs).tx
               n == Len(transaction_chan)
               tc == [g \in DOMAIN transaction_coins \cup {h} |->
                        IF g = h THEN Touched(h) ELSE transaction_coins[g]]
               sb == scoreboard \cup Touched(h)
    <2>1. /\ jobs # <<>> /\ ~Hot(h)
          /\ scoreboard' = sb /\ transaction_coins' = tc
          /\ transaction_chan' = Append(transaction_chan, Head(jobs))
          /\ UNCHANGED <<notification_chan, job, stage>>
      BY <1>4 DEF Dispatch, workerVars
    <2>2. h \in Transaction
      <3>1. Head(jobs) \in JobSet
        BY <2>1, <1>b
      <3> QED
        BY <3>1 DEF JobSet
    <2>3. /\ n \in Nat /\ Len(transaction_chan') = n + 1 /\ transaction_chan'[n + 1].tx = h
          /\ \A i \in 1 .. n : transaction_chan'[i] = transaction_chan[i]
      BY <2>1, <1>b
    <2>4. Touched(h) \cap scoreboard = {} /\ h \in Touched(h)
      BY <2>1 DEF Hot, Touched
    <2>5. \A g \in DOMAIN transaction_coins : Touched(g) \cap Touched(h) = {} /\ g # h
      BY <2>4, <1>a DEF BoardOK, Board
    <2>6. /\ DOMAIN tc = DOMAIN transaction_coins \cup {h} /\ tc[h] = Touched(h)
          /\ \A g \in DOMAIN transaction_coins : tc[g] = transaction_coins[g]
      BY <2>5
    <2> HIDE DEF tc, n, h
    <2>7. Board(tc, sb)
      BY <2>2, <2>5, <2>6, <1>a DEF BoardOK, Board
    <2>8. BoardOK'
      BY <2>1, <2>7 DEF BoardOK
    <2>9. Busy' = Busy
      BY <2>1 DEF Busy
    <2>10. /\ \A i \in 1 .. n : transaction_chan[i].tx # h
           /\ \A w \in Busy : job[w].tx # h
           /\ \A k \in 1 .. Len(notification_chan) : notification_chan[k] # h
      BY <2>5, <1>a DEF Registered, n
    <2>11. \A i \in 1 .. n + 1 : i \in 1 .. n \/ i = n + 1
      BY <2>3
    <2>12. OnePlace'
      BY <2>1, <2>3, <2>9, <2>10, <2>11, <1>a DEF OnePlace, n
    <2>13. Registered'
      BY <2>1, <2>3, <2>6, <2>9, <2>11, <1>a DEF Registered, n
    <2> QED
      BY <2>8, <2>12, <2>13
  <1>5. ASSUME NEW w \in Worker, Execute(w) PROVE OnePlace' /\ Registered' /\ BoardOK'
    <2> DEFINE h == Head(transaction_chan).tx
               n == Len(transaction_chan)
    <2>1. /\ transaction_chan # <<>> /\ transaction_chan' = Tail(transaction_chan)
          /\ UNCHANGED <<notification_chan, scoreboard, transaction_coins>>
          /\ stage[w] = "idle"
      BY <1>5 DEF Execute, dispatchVars
    <2>2. \A v \in Worker : /\ job'[v] = IF v = w THEN Head(transaction_chan) ELSE job[v]
                            /\ stage'[v] = IF v = w THEN "write" ELSE stage[v]
      BY <1>5, <1>b DEF Execute
    <2>3. /\ n \in Nat \ {0} /\ h = transaction_chan[1].tx /\ Len(transaction_chan') = n - 1
          /\ \A i \in 1 .. n - 1 : transaction_chan'[i] = transaction_chan[i + 1]
      BY <2>1, <1>b
    <2>4. /\ Busy' = Busy \cup {w} /\ w \notin Busy /\ job'[w].tx = h
          /\ \A v \in Busy : job'[v] = job[v] /\ v # w
      BY <2>1, <2>2 DEF Busy
    <2>5. \A i \in 1 .. n - 1 : i + 1 \in 1 .. n
      BY <2>3
    <2>6. 1 \in 1 .. n
      BY <2>3
    <2> HIDE DEF h, n
    <2>7. /\ \A i, k \in 1 .. n - 1 : transaction_chan[i + 1].tx = transaction_chan[k + 1].tx => i = k
          /\ \A i \in 1 .. n - 1 : transaction_chan[i + 1].tx # h
      BY <2>3, <2>5, <2>6, <1>a DEF OnePlace, n
    <2>8. /\ \A v \in Busy : job[v].tx # h
          /\ \A k \in 1 .. Len(notification_chan) : notification_chan[k] # h
      BY <2>3, <2>6, <1>a DEF OnePlace, n
    <2>9. /\ \A i \in 1 .. n - 1, v \in Busy : transaction_chan[i + 1].tx # job[v].tx
          /\ \A i \in 1 .. n - 1, k \in 1 .. Len(notification_chan) :
               transaction_chan[i + 1].tx # notification_chan[k]
      BY <2>5, <1>a DEF OnePlace, n
    <2>10. OnePlace'
      BY <2>1, <2>3, <2>4, <2>7, <2>8, <2>9, <1>a DEF OnePlace
    <2>11. Registered'
      BY <2>1, <2>3, <2>4, <2>5, <2>6, <1>a DEF Registered, n
    <2> QED
      BY <2>1, <2>10, <2>11, <1>a DEF BoardOK
  <1>6. ASSUME NEW w \in Worker, Commit(w) \/ SendCoins(w) PROVE OnePlace' /\ Registered' /\ BoardOK'
    <2>1. /\ UNCHANGED <<transaction_chan, notification_chan, job, scoreboard, transaction_coins>>
          /\ stage[w] # "idle"
      BY <1>6 DEF Commit, SendCoins, dispatchVars
    <2>2. stage'[w] # "idle" /\ \A v \in Worker : v # w => stage'[v] = stage[v]
      BY <1>6, <1>b DEF Commit, SendCoins
    <2>3. Busy' = Busy
      BY <2>1, <2>2 DEF Busy
    <2> QED
      BY <2>1, <2>3, <1>a, SamePlace
  <1>7. ASSUME NEW w \in Worker, Notify(w) PROVE OnePlace' /\ Registered' /\ BoardOK'
    <2> DEFINE h == job[w].tx
               n == Len(notification_chan)
    <2>1. /\ notification_chan' = Append(notification_chan, h)
          /\ UNCHANGED <<transaction_chan, scoreboard, transaction_coins>>
      BY <1>7 DEF Notify, dispatchVars
    <2>2. /\ stage'[w] = "idle" /\ stage[w] = "notify"
          /\ \A v \in Worker : v # w => job'[v] = job[v] /\ stage'[v] = stage[v]
      BY <1>7, <1>b DEF Notify
    <2>3. Busy' = Busy \ {w} /\ w \in Busy /\ \A v \in Busy' : job'[v] = job[v]
      BY <2>2 DEF Busy
    <2>4. h \in Transaction
      BY <2>3, <1>a DEF TypeInv, JobSet
    <2> HIDE DEF h
    <2>5. /\ n \in Nat /\ Len(notification_chan') = n + 1 /\ notification_chan'[n + 1] = h
          /\ \A i \in 1 .. n : notification_chan'[i] = notification_chan[i]
      BY <2>1, <2>4, <1>b
    <2>6. \A i \in 1 .. n + 1 : i \in 1 .. n \/ i = n + 1
      BY <2>5
    <2> HIDE DEF n
    <2>7. /\ \A v \in Busy' : job[v].tx # h
          /\ \A i \in 1 .. Len(transaction_chan) : transaction_chan[i].tx # h
          /\ \A k \in 1 .. n : notification_chan[k] # h
      BY <2>3, <1>a DEF OnePlace, n, h
    <2>8. OnePlace'
      BY <2>1, <2>3, <2>5, <2>6, <2>7, <1>a DEF OnePlace, n
    <2>9. Registered'
      BY <2>1, <2>3, <2>5, <2>6, <1>a DEF Registered, n, h
    <2> QED
      BY <2>1, <2>8, <2>9, <1>a DEF BoardOK
  <1> QED
    BY <1>1, <1>2, <1>3, <1>4, <1>5, <1>6, <1>7 DEF Next, dispatcher, worker_loop

\* The invariant holds of every behaviour.
LEMMA BoardInvariance == Spec => []BoardInv
  BY InitBoard, NextBoard, PTL DEF Spec

\* The coins of a transaction have hashes that it touches.
LEMMA CoinsTouched ==
  ASSUME NEW g, NEW h, Touched(g) \cap Touched(h) = {}
  PROVE  (OutputCoins(g) \cup InputCoins(g)) \cap (OutputCoins(h) \cup InputCoins(h)) = {}
  <1>1. \A f : \A c \in OutputCoins(f) \cup InputCoins(f) : c.hash \in Touched(f)
    BY DEF Touched, OutputCoins, CoinId
  <1> QED
    BY <1>1

\* No two transactions that workers have or that wait for one read or write the same
\* coin (NoConflict), for any number of workers and any dependencies: the scoreboard
\* of the dispatcher is enough.
THEOREM WorkersAreApart == Spec => []NoConflict
  <1>1. BoardInv => NoConflict
    <2> SUFFICES ASSUME BoardInv PROVE NoConflict
      OBVIOUS
    <2>1. \A g, h \in DOMAIN transaction_coins : g # h =>
            (OutputCoins(g) \cup InputCoins(g)) \cap (OutputCoins(h) \cup InputCoins(h)) = {}
      BY CoinsTouched DEF BoardInv, BoardOK, Board
    <2>2. DOMAIN transaction_chan = 1 .. Len(transaction_chan)
      BY DEF BoardInv, TypeInv
    <2> DEFINE Coins(h) == OutputCoins(h) \cup InputCoins(h)
               Apart(g, h) == Coins(g) \cap Coins(h) = {}
               Queued == [i \in DOMAIN transaction_chan |-> transaction_chan[i].tx]
    <2>3. \A g, h \in DOMAIN transaction_coins : g # h => Apart(g, h)
      BY <2>1
    <2> HIDE DEF Apart
    <2>4. \A v, w \in Busy : v # w => Apart(job[v].tx, job[w].tx)
      BY Zenon, <2>3 DEF BoardInv, OnePlace, Registered
    <2>5. \A w \in Busy, i \in DOMAIN transaction_chan : Apart(job[w].tx, transaction_chan[i].tx)
      BY Zenon, <2>2, <2>3 DEF BoardInv, OnePlace, Registered
    <2>6. \A i, j \in DOMAIN transaction_chan :
            i # j => Apart(transaction_chan[i].tx, transaction_chan[j].tx)
      BY Zenon, <2>2, <2>3 DEF BoardInv, OnePlace, Registered
    <2>7. /\ DOMAIN Queued = DOMAIN transaction_chan
          /\ \A i \in DOMAIN transaction_chan : Queued[i] = transaction_chan[i].tx
      BY Zenon
    <2> HIDE DEF Queued
    <2>8. /\ \A w \in Busy, i \in DOMAIN Queued : Apart(job[w].tx, Queued[i])
          /\ \A i, j \in DOMAIN Queued : i # j => Apart(Queued[i], Queued[j])
      BY <2>5, <2>6, <2>7
    <2> QED
      BY Zenon, <2>4, <2>8 DEF NoConflict, Apart, Queued
  <1> QED
    BY <1>1, BoardInvariance, PTL

\* Every notification is of one transaction that the dispatcher has entries for, so
\* that its unwrap never panics (NotificationsKnown).
THEOREM DispatcherKnowsAll == Spec => []NotificationsKnown
  <1>1. BoardInv => NotificationsKnown
    <2> SUFFICES ASSUME BoardInv PROVE NotificationsKnown
      OBVIOUS
    <2>1. DOMAIN notification_chan = 1 .. Len(notification_chan)
      BY DEF BoardInv, TypeInv
    <2> QED
      BY <2>1 DEF BoardInv, OnePlace, Registered, NotificationsKnown, IsInjective, ToSet
  <1> QED
    BY <1>1, BoardInvariance, PTL
=============================================================================
