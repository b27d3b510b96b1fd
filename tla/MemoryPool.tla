----------------------------- MODULE MemoryPool -----------------------------
(***************************************************************************)
(* The memory pool (miner/memory_pool.rs) and the two handlers that change *)
(* it, each of them under its mutex: a transaction that arrives            *)
(* (handler/new_transaction.rs), and a transaction block that is processed *)
(* (handler/new_validated_block.rs).                                       *)
(***************************************************************************)
EXTENDS Utxo

CONSTANTS
  max_transactions,  \* size limit
  MaxArrivals,       \* bound on the transactions that are inserted
  MaxBlock           \* bound on the transactions of a block

VARIABLES
  pool,    \* [num_transactions, counter, by_hash, by_input, by_storage_index]
  block    \* the transactions of the block processed in the last step, if it was one

vars == <<pool, block>>

Init ==
  /\ block = <<>>
  /\ pool = [num_transactions |-> 0,
              counter          |-> 0,
              by_hash          |-> [h \in {} |-> 0],
              by_input         |-> [i \in {} |-> 0],
              by_storage_index |-> [n \in {} |-> 0]]

\* The map f without the keys of S, and with v at all of them.
Without(f, S) == [x \in DOMAIN f \ S |-> f[x]]
With(f, S, v) == [x \in DOMAIN f \cup S |-> IF x \in S THEN v ELSE f[x]]

-----------------------------------------------------------------------------
(* A new transaction.                                                      *)

contains(h) == h \in DOMAIN pool.by_hash
is_double_spend(inputs) == inputs \cap DOMAIN pool.by_input # {}

insert(h) ==
  pool' = [num_transactions |-> pool.num_transactions + 1,
           counter          |-> pool.counter + 1,
           by_hash          |-> With(pool.by_hash, {h}, pool.counter),
           by_input         |-> With(pool.by_input, input[h], h),
           by_storage_index |-> With(pool.by_storage_index, {pool.counter}, h)]

\* Whether the handler and insert take the transaction.
AcceptsDoubleSpend(h) ==
  ~contains(h) /\ pool.num_transactions <= max_transactions
Accepts(h) ==
  /\ ~contains(h) /\ ~is_double_spend(input[h])
  /\ pool.num_transactions <= max_transactions

new_transaction(h) ==
  \/ Accepts(h) /\ pool.counter < MaxArrivals /\ insert(h)
  \/ ~Accepts(h) /\ pool' = pool

-----------------------------------------------------------------------------
(* A transaction block.                                                    *)

\* remove_and_get, for each of the transactions of S that are in p.
remove_and_get(p, S) ==
  LET gone == S \cap DOMAIN p.by_hash
  IN  [p EXCEPT !.num_transactions = @ - Cardinality(gone),
                !.by_hash = Without(@, gone),
                !.by_input = Without(@, UNION {input[h] : h \in gone}),
                !.by_storage_index = Without(@, {p.by_hash[h] : h \in gone})]

remove_by_hash(p, h) == remove_and_get(p, {h})

\* The inputs that spend the outputs of h, as remove_by_input queues them.
OutputInputs(h) == {[coin  |-> CoinId(h, i - 1),
                     value |-> output[h][i].value,
                     owner |-> output[h][i].recipient] : i \in DOMAIN output[h]}

\* The transactions of p that spend one of the inputs.
Spenders(p, inputs) == {p.by_input[i] : i \in inputs \cap DOMAIN p.by_input}

\* Without the queue.
remove_by_inputOnce(p, i) == remove_and_get(p, Spenders(p, {i}))

\* The spender of the input, the spenders of its outputs, and so on.
remove_by_input(p, i) ==
  LET reached[n \in Nat] ==
        IF n = 0 THEN Spenders(p, {i})
        ELSE reached[n - 1]
               \cup Spenders(p, UNION {OutputInputs(h) : h \in reached[n - 1]})
  IN  remove_and_get(p, reached[Cardinality(DOMAIN p.by_hash)])

\* With the spenders of the outputs.
RemoveInputsOutputs(p, h) ==
  FoldLeft(remove_by_input, p, SetToSeq(input[h] \cup OutputInputs(h)))

\* The inputs in the order of the transaction; the result is the same in any order.
RemoveInputs(p, h) == FoldLeft(remove_by_input, p, SetToSeq(input[h]))

RemoveTransaction(p, h) == RemoveInputs(remove_by_hash(p, h), h)

RemoveBlock(txs) == FoldLeft(RemoveTransaction, pool, txs)

new_validated_block(txs) == pool' = RemoveBlock(txs)

NewTransaction == /\ \E h \in Transaction : new_transaction(h)
                  /\ block' = <<>>
NewBlock == \E txs \in SeqOf(Transaction, MaxBlock) :
              /\ txs # <<>>
              /\ new_validated_block(txs)
              /\ block' = txs

Next == NewTransaction \/ NewBlock

Spec == Init /\ [][Next]_vars

-----------------------------------------------------------------------------
(* Properties.                                                             *)

\* The three maps and the count describe the same transactions, whatever the order
\* of insertions and recursive removals: the unwraps of get_transactions and of
\* remove_by_input never fail, and num_transactions never goes below zero.
PoolAgrees ==
  LET txs == DOMAIN pool.by_hash
  IN  /\ pool.num_transactions = Cardinality(txs)
      /\ DOMAIN pool.by_storage_index = {pool.by_hash[h] : h \in txs}
      /\ \A h \in txs : pool.by_storage_index[pool.by_hash[h]] = h
      /\ DOMAIN pool.by_input = UNION {input[h] : h \in txs}
      /\ \A h \in txs : \A i \in input[h] : pool.by_input[i] = h

\* What a block evicts, it evicts with everything that depends on it: after it no
\* transaction of the pool spends an input of the block again, and none spends an
\* output of a transaction that left the pool without being in the block.
EvictsDependents ==
  LET txs == ToSet(block')
      evicted == (DOMAIN pool.by_hash \ DOMAIN pool'.by_hash) \ txs
  IN  \A h \in DOMAIN pool'.by_hash :
        /\ \A g \in txs : input[h] \cap input[g] = {}
        /\ \A g \in evicted : input[h] \cap OutputInputs(g) = {}
EvictionIsComplete == [][EvictsDependents]_vars

\* A block takes nothing else: what leaves the pool is in the block, or in every set
\* that has the transactions that another transaction of the block beats to an input
\* and, with a transaction, what spends its outputs.
EvictsNoOther ==
  LET txs == ToSet(block')
      gone == DOMAIN pool.by_hash \ DOMAIN pool'.by_hash
      Beaten(h) == \E g \in txs \ {h} : input[h] \cap input[g] # {}
      Closed(S) == \A h \in gone :
        Beaten(h) \/ (\E g \in S : input[h] \cap OutputInputs(g) # {}) => h \in S
  IN  \A S \in SUBSET gone : Closed(S) => gone \subseteq S \cup txs
EvictionIsNeeded == [][EvictsNoOther]_vars
=============================================================================
