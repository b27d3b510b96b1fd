---------------------------- MODULE LedgerManager ----------------------------
(***************************************************************************)
(* The execution of the ledger (ledger_manager/mod.rs): a thread turns the *)
(* diffs of update_ledger into lists of transactions, a dispatcher hands   *)
(* them to workers under a scoreboard of the transactions whose coins are  *)
(* being touched, the workers apply them to the UTXO database in parallel, *)
(* and a thread applies the coin diffs to the wallet.                      *)
(*                                                                         *)
(* A step is one operation on a channel or on the database; what a thread  *)
(* does on its local variables belongs to the step before it.              *)
(***************************************************************************)
EXTENDS Utxo, TLC

CONSTANTS
  Worker,          \* UtxoManager threads
  None,
  genesis_utxo,    \* the coins before the first transaction of the ledger
  wallet_address,  \* addresses the wallet holds a key pair for
  buffer_size,     \* capacity of the channels
  MaxLedger,       \* bound on the length of the ledger
  MaxDiffs,        \* bound on the number of diffs of update_ledger
  Repeats          \* whether a transaction may be in the ledger twice

ASSUME BufferAssumption == buffer_size \in Nat \ {0} /\ None \notin Transaction

VARIABLES
  ledger,              \* the transaction sequence that update_ledger has reached
  diffs,               \* how many diffs it has produced
  tx_diff_chan,        \* channel of [added, removed] lists of transactions
  jobs,                \* what the dispatcher has yet to dispatch
  drained,             \* whether it has drained the notifications for the next job
  scoreboard,          \* transaction hashes whose coins are being touched
  transaction_coins,   \* dispatched transaction -> its scoreboard entries
  transaction_chan,    \* channel of jobs [add, tx, valid]
  stage,               \* worker -> "idle", "write", "send" or "notify"
  job,                 \* worker -> its job, or None
  batch,               \* worker -> the diff of its job
  notification_chan,   \* channel of finished transactions
  coin_chan,           \* channel of diffs of coins
  utxo,                \* coin -> [value, recipient]
  wallet               \* the same, for the coins of the wallet

sequenceVars == <<ledger, diffs, tx_diff_chan>>
dispatchVars == <<jobs, drained, scoreboard, transaction_coins>>
workerVars == <<stage, job, batch>>
vars == <<sequenceVars, dispatchVars, transaction_chan, workerVars,
          notification_chan, coin_chan, utxo, wallet>>

Owned(coins) == [c \in {c \in DOMAIN coins : coins[c].recipient \in wallet_address} |->
                   coins[c]]

Init ==
  /\ ledger = <<>> /\ diffs = 0 /\ tx_diff_chan = <<>>
  /\ jobs = <<>> /\ drained = FALSE
  /\ scoreboard = {} /\ transaction_coins = [h \in {} |-> {}]
  /\ transaction_chan = <<>>
  /\ stage = [w \in Worker |-> "idle"]
  /\ job = [w \in Worker |-> None]
  /\ batch = [w \in Worker |-> NoDiff]
  /\ notification_chan = <<>> /\ coin_chan = <<>>
  /\ utxo = genesis_utxo
  /\ wallet = Owned(genesis_utxo)

-----------------------------------------------------------------------------
(* update_transaction_sequence, with update_ledger taken as any step that  *)
(* removes a suffix of the ledger and adds transactions.                   *)

NewLedger(keep, s) == SubSeq(ledger, 1, keep) \o s

UpdateSequence ==
  \E keep \in 0 .. Len(ledger), s \in SeqOf(Transaction, MaxLedger) :
    /\ diffs < MaxDiffs
    /\ keep + Len(s) <= MaxLedger
    /\ Repeats \/ IsInjective(NewLedger(keep, s))
    /\ Len(tx_diff_chan) < buffer_size
    /\ ledger' = NewLedger(keep, s)
    /\ diffs' = diffs + 1
    /\ tx_diff_chan' =
         Append(tx_diff_chan, [added |-> s, removed |-> SubSeq(ledger, keep + 1, Len(ledger)),
                               kept |-> SubSeq(ledger, 1, keep)])
    /\ UNCHANGED <<dispatchVars, transaction_chan, workerVars, notification_chan,
                   coin_chan, utxo, wallet>>

-----------------------------------------------------------------------------
(* The dispatcher.                                                         *)

\* Whether the transaction at place i of s is valid where it stands (a history
\* value that the properties compare with what remove_transaction infers).
ValidAt(s, i) == IsValid(Replay(genesis_utxo, SubSeq(s, 1, i - 1)), s[i])

\* The removals in reverse order, then the additions.
JobsOf(d) ==
  LET old == d.kept \o d.removed
      new == d.kept \o d.added
      Job(add, s, i) == [add |-> add, tx |-> s[i], valid |-> ValidAt(s, i)]
  IN  [i \in DOMAIN d.removed |-> Job(FALSE, old, Len(old) + 1 - i)]
        \o [i \in DOMAIN d.added |-> Job(TRUE, new, Len(d.kept) + i)]

ReceiveDiff ==
  /\ jobs = <<>>
  /\ tx_diff_chan # <<>>
  /\ jobs' = JobsOf(Head(tx_diff_chan))
  /\ tx_diff_chan' = Tail(tx_diff_chan)
  /\ drained' = FALSE
  /\ UNCHANGED <<ledger, diffs, scoreboard, transaction_coins, transaction_chan,
                 workerVars, notification_chan, coin_chan, utxo, wallet>>

\* The transactions of hs are finished: their entries leave the scoreboard.
Finish(hs) ==
  /\ scoreboard' = scoreboard \ UNION {transaction_coins[h] : h \in hs}
  /\ transaction_coins' =
       [h \in DOMAIN transaction_coins \ hs |-> transaction_coins[h]]

Drain ==
  /\ jobs # <<>> /\ ~drained
  /\ Finish(ToSet(notification_chan))
  /\ notification_chan' = <<>>
  /\ drained' = TRUE
  /\ UNCHANGED <<sequenceVars, jobs, transaction_chan, workerVars, coin_chan,
                 utxo, wallet>>

\* The transactions whose coins h touches: itself and those of its inputs.
TouchedOutputsOnly(h) == {h}
Touched(h) == {h} \cup {c.hash : c \in InputCoins(h)}

Hot(h) == scoreboard \cap Touched(h) # {}

WaitForHot ==
  /\ jobs # <<>> /\ drained
  /\ Hot(Head(jobs).tx)
  /\ notification_chan # <<>>
  /\ Finish({Head(notification_chan)})
  /\ notification_chan' = Tail(notification_chan)
  /\ UNCHANGED <<sequenceVars, jobs, drained, transaction_chan, workerVars,
                 coin_chan, utxo, wallet>>

Dispatch ==
  LET h == Head(jobs).tx
  IN  /\ jobs # <<>> /\ drained
      /\ ~Hot(h)
      /\ Len(transaction_chan) < buffer_size * Cardinality(Worker)
      /\ scoreboard' = scoreboard \cup Touched(h)
      /\ transaction_coins' = [g \in DOMAIN transaction_coins \cup {h} |->
                                 IF g = h THEN Touched(h) ELSE transaction_coins[g]]
      /\ transaction_chan' = Append(transaction_chan, Head(jobs))
      /\ jobs' = Tail(jobs)
      /\ drained' = FALSE
      /\ UNCHANGED <<sequenceVars, workerVars, notification_chan, coin_chan, utxo, wallet>>

-----------------------------------------------------------------------------
(* A worker: worker_loop.                                                  *)

\* Take a job and read the coins that it needs.
Execute(w) ==
  LET j == Head(transaction_chan)
  IN  /\ stage[w] = "idle"
      /\ transaction_chan # <<>>
      /\ transaction_chan' = Tail(transaction_chan)
      /\ job' = [job EXCEPT ![w] = j]
      /\ batch' = [batch EXCEPT ![w] = IF j.add THEN add_transaction(utxo, j.tx)
                                       ELSE remove_transaction(utxo, j.tx)]
      /\ stage' = [stage EXCEPT ![w] = "write"]
      /\ UNCHANGED <<sequenceVars, dispatchVars, notification_chan, coin_chan, utxo, wallet>>

\* A notification at the commit as well as at the end.
CommitNotifies(w) ==
  /\ stage[w] = "write"
  /\ utxo' = Write(utxo, batch[w])
  /\ notification_chan' = Append(notification_chan, job[w].tx)
  /\ stage' = [stage EXCEPT ![w] = "send"]
  /\ UNCHANGED <<sequenceVars, dispatchVars, transaction_chan, job, batch,
                 coin_chan, wallet>>

Commit(w) ==
  /\ stage[w] = "write"
  /\ utxo' = Write(utxo, batch[w])
  /\ stage' = [stage EXCEPT ![w] = "send"]
  /\ UNCHANGED <<sequenceVars, dispatchVars, transaction_chan, job, batch,
                 notification_chan, coin_chan, wallet>>

SendCoins(w) ==
  /\ stage[w] = "send"
  /\ coin_chan' = Append(coin_chan, batch[w])
  /\ stage' = [stage EXCEPT ![w] = "notify"]
  /\ UNCHANGED <<sequenceVars, dispatchVars, transaction_chan, job, batch,
                 notification_chan, utxo, wallet>>

\* No notification for a transaction that changed nothing.
NotifyChanges(w) ==
  /\ stage[w] = "notify"
  /\ notification_chan' = IF batch[w] = NoDiff THEN notification_chan
                          ELSE Append(notification_chan, job[w].tx)
  /\ stage' = [stage EXCEPT ![w] = "idle"]
  /\ job' = [job EXCEPT ![w] = None]
  /\ batch' = [batch EXCEPT ![w] = NoDiff]
  /\ UNCHANGED <<sequenceVars, dispatchVars, transaction_chan, coin_chan, utxo, wallet>>

Notify(w) ==
  /\ stage[w] = "notify"
  /\ notification_chan' = Append(notification_chan, job[w].tx)
  /\ stage' = [stage EXCEPT ![w] = "idle"]
  /\ job' = [job EXCEPT ![w] = None]
  /\ batch' = [batch EXCEPT ![w] = NoDiff]
  /\ UNCHANGED <<sequenceVars, dispatchVars, transaction_chan, coin_chan, utxo, wallet>>

worker_loop(w) == Execute(w) \/ Commit(w) \/ SendCoins(w) \/ Notify(w)

-----------------------------------------------------------------------------
(* The wallet thread: Wallet::apply_diff puts the coins it has a key for,  *)
(* then deletes.                                                           *)

apply_diff(coins, diff) ==
  LET add == Owned(diff.added)
  IN  [c \in (DOMAIN coins \cup DOMAIN add) \ diff.removed |->
         IF c \in DOMAIN add THEN add[c] ELSE coins[c]]

WriteWallet ==
  /\ coin_chan # <<>>
  /\ wallet' = apply_diff(wallet, Head(coin_chan))
  /\ coin_chan' = Tail(coin_chan)
  /\ UNCHANGED <<sequenceVars, dispatchVars, transaction_chan, workerVars,
                 notification_chan, utxo>>

dispatcher == ReceiveDiff \/ Drain \/ WaitForHot \/ Dispatch

Next == \/ UpdateSequence
        \/ dispatcher
        \/ \E w \in Worker : worker_loop(w)
        \/ WriteWallet

Spec == Init /\ [][Next]_vars

\* Every thread is a loop that never gives up, on channels that are never closed.
Fairness == /\ WF_vars(dispatcher)
            /\ \A w \in Worker : WF_vars(worker_loop(w))
            /\ WF_vars(WriteWallet)

FairSpec == Spec /\ Fairness

-----------------------------------------------------------------------------
(* Properties.                                                             *)

Busy == {w \in Worker : stage[w] # "idle"}

\* The scoreboard prevents the hazards its comment names: transactions that a
\* worker has, or that wait for one, never read or write the same coin.
NoConflict ==
  LET Queued == [i \in DOMAIN transaction_chan |-> transaction_chan[i].tx]
      Coins(h) == OutputCoins(h) \cup InputCoins(h)
      Apart(g, h) == Coins(g) \cap Coins(h) = {}
  IN  /\ \A v, w \in Busy : v # w => Apart(job[v].tx, job[w].tx)
      /\ \A w \in Busy, i \in DOMAIN Queued : Apart(job[w].tx, Queued[i])
      /\ \A i, j \in DOMAIN Queued : i # j => Apart(Queued[i], Queued[j])

\* Every notification is of a transaction that the dispatcher still has in
\* transaction_coins, and comes once: the dispatcher's remove(..).unwrap() never
\* panics.
NotificationsKnown ==
  /\ IsInjective(notification_chan)
  /\ ToSet(notification_chan) \subseteq DOMAIN transaction_coins

\* The state [coins, purse] after a diff, and after a job as a worker executes it.
\* (A choice from a singleton, and @@, have TLC evaluate what they take only once.)
ApplyDiff(st, d) ==
  LET Empty == [c \in {} |-> 0]
      After(x, y) == [coins |-> Write(x.coins, y) @@ Empty,
                      purse |-> apply_diff(x.purse, y) @@ Empty]
  IN  CHOOSE r \in {After(x, y) : x \in {st}, y \in {d}} : TRUE
ApplyJob(st, j) ==
  LET After(x, i) == ApplyDiff(x, IF i.add THEN add_transaction(x.coins, i.tx)
                                  ELSE remove_transaction(x.coins, i.tx))
  IN  CHOOSE r \in {After(x, i) : x \in {st}, i \in {j}} : TRUE

\* Where the UTXO set and the wallet will be when all that is under way is done:
\* the diffs sent to the wallet, the jobs the workers have, then the jobs that wait,
\* in order.
Outcome ==
  LET AtStage(at) == SetToSeq({batch[w] : w \in {w \in Worker : stage[w] = at}})
      queued == transaction_chan \o jobs
                  \o FlattenSeq([i \in DOMAIN tx_diff_chan |-> JobsOf(tx_diff_chan[i])])
      Result(sent, written, q) ==
        LET st == [coins |-> utxo, purse |-> FoldLeft(apply_diff, wallet, sent)]
        IN  FoldLeft(ApplyJob, FoldLeft(ApplyDiff, st, written), q)
  IN  CHOOSE r \in {Result(sent, written, q) : sent \in {coin_chan \o AtStage("send")},
                      written \in {AtStage("write")}, q \in {queued}} : TRUE

Atomic == INSTANCE AtomicLedger WITH account <- Outcome

\* The ledger manager implements AtomicLedger: at every moment, with jobs on three
\* channels, two workers in the middle of transactions they execute out of order, and
\* roll-backs queued behind confirmations, what is under way leads to the coins of
\* the ledger, and no step of a thread changes that outcome but the one that changes
\* the ledger.
ImplementsAtomicLedger == Atomic!AtomicSpec

\* What remove_transaction infers from the outputs being there is true: a
\* transaction that it undoes was valid when it was added.
RemovedWasValid ==
  \A w \in Worker :
    stage[w] = "write" /\ ~job[w].add /\ batch[w] # NoDiff => job[w].valid

\* The bounded channels and the scoreboard never make the threads wait on each
\* other: when the ledger stops changing the UTXO set and the wallet catch up.
CatchesUp == <>[](utxo = Replay(genesis_utxo, ledger) /\ wallet = Owned(utxo))
=============================================================================
