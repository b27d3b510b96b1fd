------------------------------ MODULE Generator ------------------------------
(***************************************************************************)
(* The transaction generator (experiment/transaction_generator.rs), the    *)
(* wallet it spends from (wallet/mod.rs) and the memory pool it fills,     *)
(* beside the network, which brings other transactions and blocks, and the *)
(* ledger manager, whose diffs of coins reach the wallet over a channel.   *)
(*                                                                         *)
(* A step of the generator is a control signal, the selection of coins,    *)
(* their removal from the wallet, or the rest of create_transaction with   *)
(* new_transaction.  A step of the wallet thread is the counting of a diff *)
(* of coins, or its write batch.                                           *)
(***************************************************************************)
EXTENDS MemoryPool

CONSTANTS
  None,
  genesis_utxo,     \* the coins at the start, all confirmed
  wallet_address,   \* addresses the wallet has a key pair for
  addr,             \* the first of them: recipient of payments and change
  coin_key,         \* coin -> its place in the order of COIN_CF
  Value,            \* values that the value distribution may give
  Throttle,         \* arguments of Start signals
  StepCount,        \* arguments of Step signals
  MaxSignals,       \* bound on the signals
  MaxMined,         \* bound on the transactions in blocks
  MaxConfirmations  \* bound on the steps of the ledger

ASSUME GeneratorAssumption ==
  /\ addr \in wallet_address
  /\ Value \subseteq Nat \ {0}
  /\ StepCount \subseteq Nat \ {0}

\* A transaction has finitely many inputs and outputs, and the ledger starts with
\* finitely many coins.
ASSUME FinitenessAssumption ==
  /\ \A h \in Transaction : IsFiniteSet(input[h]) /\ IsFiniteSet(OutputCoins(h))
  /\ IsFiniteSet(DOMAIN genesis_utxo)

\* The first coins are outputs of a transaction without inputs, which is none of these.
ASSUME GenesisAssumption ==
  \A h \in Transaction : OutputCoins(h) \cap DOMAIN genesis_utxo = {}

VARIABLES
  coins,       \* COIN_CF of the wallet: coin -> [value, recipient]
  counter,     \* its count of coins
  state,       \* of the generator: [mode, n]
  prev_coin,   \* the last coin that was spent, or None
  gpc,         \* where the generator is: "loop", "remove" or "sign"
  transaction, \* the transaction it is creating, or None
  signals,     \* how many signals it has had
  utxo, ledger, mined, \* the ledger: unspent coins, transactions, those in blocks
  confirmations,       \* how many steps it has made
  coin_chan,   \* diffs of coins on their way to the wallet
  counted      \* whether the first of them is counted already

walletVars == <<coins, counter>>
generatorVars == <<state, prev_coin, gpc, transaction, signals>>
ledgerVars == <<utxo, ledger, mined, confirmations>>
chanVars == <<coin_chan, counted>>
allVars == <<vars, walletVars, generatorVars, ledgerVars, chanVars>>

contains_keypairAlways(address) == TRUE
contains_keypair(address) == address \in wallet_address

Owned(added) ==
  [c \in {c \in DOMAIN added : contains_keypair(added[c].recipient)} |-> added[c]]

GeneratorInit ==
  /\ Init
  /\ coins = Owned(genesis_utxo)
  /\ counter = Cardinality(DOMAIN coins)
  /\ state = [mode |-> "Paused", n |-> 0]
  /\ prev_coin = None
  /\ gpc = "loop"
  /\ transaction = None
  /\ signals = 0
  /\ utxo = genesis_utxo /\ ledger = <<>> /\ mined = {} /\ confirmations = 0
  /\ coin_chan = <<>> /\ counted = FALSE

\* A step that leaves the pool alone.
PoolAlone == pool' = pool /\ block' = <<>>

-----------------------------------------------------------------------------
(* The generator.                                                          *)

\* handle_control_signal, before every transaction.
handle_control_signal ==
  /\ gpc = "loop"
  /\ signals < MaxSignals
  /\ signals' = signals + 1
  /\ \/ \E t \in Throttle : state' = [mode |-> "Continuous", n |-> t]
     \/ \E num \in StepCount : state' = [mode |-> "Step", n |-> num]
     \/ state' = [mode |-> "Paused", n |-> 0]
  /\ PoolAlone
  /\ UNCHANGED <<walletVars, prev_coin, gpc, transaction, ledgerVars, chanVars>>

\* Whether the loop goes on to create a transaction; with the pool at the throttle
\* it sleeps and comes back.
Running ==
  \/ state.mode = "Step"
  \/ state.mode = "Continuous" /\ pool.num_transactions < state.n

\* The value of the coins of S, as the number of their units.
ValueOf(S) == Cardinality(UNION {{c} \X (1 .. coins[c].value) : c \in S})

\* The coins of the wallet in their order, from the last one that was spent, as
\* long as those before do not reach the value; none for InsufficientBalance.
CoinsToUse(prev, value) ==
  LET from == {c \in DOMAIN coins : prev = None \/ coin_key[c] >= coin_key[prev]}
  IN  {c \in from :
         /\ ValueOf(from) >= value
         /\ ValueOf({x \in from : coin_key[x] < coin_key[c]}) < value}

\* The value for the recipient, and what remains back to the wallet.
Outputs(sum, value) ==
  <<[value |-> value, recipient |-> addr]>>
    \o IF sum > value THEN <<[value |-> sum - value, recipient |-> addr]>> ELSE <<>>

\* The transactions of the model with these inputs and outputs (one, or none if
\* it is beyond the bound).
Created(S, value) ==
  {h \in Transaction :
     InputCoins(h) = S /\ output[h] = Outputs(ValueOf(S), value)}

\* create_transaction: the iteration over a snapshot of the wallet.
SelectCoins ==
  /\ gpc = "loop" /\ Running
  /\ gpc' = "remove"
  /\ PoolAlone
  /\ UNCHANGED <<walletVars, state, prev_coin, signals, ledgerVars, chanVars>>
  /\ \E value \in Value :
       LET S == CoinsToUse(prev_coin, value)
       IN  S # {} /\ \E h \in Created(S, value) : transaction' = h

\* InsufficientBalance: the next try starts from the first coin again.
InsufficientBalanceKeepsCoin ==
  /\ gpc = "loop" /\ Running
  /\ UNCHANGED allVars
  /\ \E value \in Value : CoinsToUse(prev_coin, value) = {}
InsufficientBalance ==
  /\ gpc = "loop" /\ Running
  /\ prev_coin' = None
  /\ PoolAlone
  /\ UNCHANGED <<walletVars, state, gpc, transaction, signals, ledgerVars, chanVars>>
  /\ \E value \in Value : CoinsToUse(prev_coin, value) = {}

RemoveCoins ==
  /\ gpc = "remove"
  /\ coins' = Without(coins, InputCoins(transaction))
  /\ gpc' = "sign"
  /\ PoolAlone
  /\ UNCHANGED <<counter, state, prev_coin, transaction, signals, ledgerVars, chanVars>>

\* In stepping mode one step less, and a pause after the last one.
StepDone(s) ==
  IF s.mode # "Step" THEN s
  ELSE IF s.n - 1 = 0 THEN [mode |-> "Paused", n |-> 0] ELSE [s EXCEPT !.n = @ - 1]

\* The signatures (MissingKeyPair cannot happen: WalletIsSpendable) and the counter,
\* then the handler new_transaction, and the loop's bookkeeping.
Submit ==
  LET used == InputCoins(transaction)
  IN  /\ gpc = "sign"
      /\ counter' = counter - Cardinality(used)
      /\ \E c \in used : /\ \A x \in used : coin_key[x] <= coin_key[c]
                         /\ prev_coin' = c
      /\ new_transaction(transaction)
      /\ state' = StepDone(state)
      /\ transaction' = None
      /\ gpc' = "loop"
      /\ block' = <<>>
      /\ UNCHANGED <<coins, signals, ledgerVars, chanVars>>

-----------------------------------------------------------------------------
(* The ledger manager, as one step per transaction that the ledger gains   *)
(* or loses, and the thread that writes to the wallet.                     *)

Confirm ==
  \E h \in mined :
    LET diff == add_transaction(utxo, h)
    IN  /\ confirmations < MaxConfirmations
        /\ ~Contains(ledger, h)
        /\ utxo' = Write(utxo, diff)
        /\ ledger' = Append(ledger, h)
        /\ coin_chan' = Append(coin_chan, diff)
        /\ confirmations' = confirmations + 1
        /\ PoolAlone
        /\ UNCHANGED <<walletVars, generatorVars, mined, counted>>

Rollback ==
  LET diff == remove_transaction(utxo, Last(ledger))
  IN  /\ confirmations < MaxConfirmations
      /\ ledger # <<>>
      /\ utxo' = Write(utxo, diff)
      /\ ledger' = Front(ledger)
      /\ coin_chan' = Append(coin_chan, diff)
      /\ confirmations' = confirmations + 1
      /\ PoolAlone
      /\ UNCHANGED <<walletVars, generatorVars, mined, counted>>

\* apply_diff counts the coins while it fills the batch; what it removes it does
\* not count, as the wallet may have spent the coin itself.
CountDiffBoth(diff) ==
  Cardinality(DOMAIN Owned(diff.added)) - Cardinality(diff.removed)
CountDiff(diff) == Cardinality(DOMAIN Owned(diff.added))

CountCoins ==
  /\ coin_chan # <<>> /\ ~counted
  /\ counter' = counter + CountDiff(Head(coin_chan))
  /\ counted' = TRUE
  /\ PoolAlone
  /\ UNCHANGED <<coins, generatorVars, ledgerVars, coin_chan>>

\* The batch of apply_diff: the puts, then the deletes.
WriteCoins ==
  LET diff == Head(coin_chan)
      added == Owned(diff.added)
  IN  /\ counted
      /\ coins' = [c \in (DOMAIN added \cup DOMAIN coins) \ diff.removed |->
                    IF c \in DOMAIN added THEN added[c] ELSE coins[c]]
      /\ coin_chan' = Tail(coin_chan)
      /\ counted' = FALSE
      /\ PoolAlone
      /\ UNCHANGED <<counter, generatorVars, ledgerVars>>

-----------------------------------------------------------------------------
(* The network: transactions and blocks of other nodes.                    *)

ReceiveTransaction ==
  /\ NewTransaction
  /\ UNCHANGED <<walletVars, generatorVars, ledgerVars, chanVars>>

ReceiveBlock ==
  /\ NewBlock
  /\ mined' = mined \cup ToSet(block')
  /\ Cardinality(mined') <= MaxMined
  /\ UNCHANGED <<walletVars, generatorVars, utxo, ledger, confirmations, chanVars>>

GeneratorNext ==
  \/ handle_control_signal
  \/ SelectCoins \/ InsufficientBalance \/ RemoveCoins \/ Submit
  \/ Confirm \/ Rollback \/ CountCoins \/ WriteCoins
  \/ ReceiveTransaction \/ ReceiveBlock

\* The thread of the generator comes back to its loop after every sleep.
GeneratorSpec ==
  /\ GeneratorInit /\ [][GeneratorNext]_allVars
  /\ WF_allVars(SelectCoins \/ InsufficientBalance)

-----------------------------------------------------------------------------
(* Properties.                                                             *)

\* The wallet's counter is never below the number of its coins, although coins are
\* counted before they are written, create_transaction counts its coins off after
\* it has removed them, and the diffs of the ledger remove coins that are gone
\* already: so fetch_sub never takes it below zero.
CounterCoversCoins == counter >= Cardinality(DOMAIN coins)

\* When no diff is on its way, every coin of the wallet is an unspent coin of the
\* ledger, with its value and an owner whose key pair the wallet has: what
\* create_transaction signs then is valid, and MissingKeyPair cannot happen.
WalletIsSpendable ==
  coin_chan = <<>> =>
    \A c \in DOMAIN coins :
      /\ c \in DOMAIN utxo /\ utxo[c] = coins[c]
      /\ coins[c].recipient \in wallet_address

\* Any value could be paid from the wallet (with a transaction that is within the
\* bound), and the generator is to do so.
CanPay ==
  /\ gpc = "loop" /\ Running
  /\ \A value \in Value :
       /\ CoinsToUse(None, value) # {}
       /\ \A prev \in {None, prev_coin} :
            LET S == CoinsToUse(prev, value) IN S # {} => Created(S, value) # {}

\* A generator that runs, with enough coins in the wallet, does select coins, even
\* if the coins are all before the last one it spent: it does not come back to
\* InsufficientBalance for ever.  (This is CanPay ~> gpc = "remove" \/ ~CanPay.)
Generates == []<>(gpc = "remove" \/ ~CanPay)
=============================================================================
