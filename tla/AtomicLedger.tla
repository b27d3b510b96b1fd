---------------------------- MODULE AtomicLedger ----------------------------
(***************************************************************************)
(* What the ledger manager promises: whenever the ledger changes, the      *)
(* unspent coins and the coins of the wallet change with it, at once, to   *)
(* what the transactions of the ledger produce one after the other.        *)
(***************************************************************************)
EXTENDS Utxo

CONSTANTS genesis_utxo, wallet_address

VARIABLES
  ledger,   \* the transactions that are confirmed, in order
  account   \* [coins |-> the unspent coins, purse |-> those of the wallet]

Mine(coins) == [c \in {c \in DOMAIN coins : coins[c].recipient \in wallet_address} |->
                  coins[c]]

AccountOf(coins) == [coins |-> coins, purse |-> Mine(coins)]

AtomicInit == ledger = <<>> /\ account = AccountOf(genesis_utxo)

AtomicNext ==
  /\ ledger' \in Seq(Transaction)
  /\ account' = AccountOf(Replay(genesis_utxo, ledger'))

AtomicSpec == AtomicInit /\ [][AtomicNext]_<<ledger, account>>
=============================================================================
