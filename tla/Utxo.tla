-------------------------------- MODULE Utxo --------------------------------
(***************************************************************************)
(* The UTXO database (utxodb/mod.rs) as pure operators: what add_transaction *)
(* and remove_transaction decide, the coins they report as added and       *)
(* removed, and the write batch they commit.                               *)
(***************************************************************************)
EXTENDS SeqOps

CONSTANTS
  Transaction,     \* transaction hashes
  input,           \* transaction -> set of [coin, value, owner]
  output,          \* transaction -> sequence of [value, recipient]
  authorization    \* transaction -> addresses that signed it

\* A transaction has inputs and outputs (validation::check_non_empty).
ASSUME TransactionAssumption ==
  \A h \in Transaction : input[h] # {} /\ DOMAIN output[h] # {}

CoinId(h, index) == [hash |-> h, index |-> index]
OutputCoins(h) == {CoinId(h, i - 1) : i \in DOMAIN output[h]}
InputCoins(h) == {i.coin : i \in input[h]}

NoDiff == [added |-> [c \in {} |-> 0], removed |-> {}]

\* The inputs are unspent and their values right, and exactly their owners signed.
IsValid(utxo, h) ==
  /\ \A i \in input[h] : i.coin \in DOMAIN utxo /\ utxo[i.coin].value = i.value
  /\ {utxo[i.coin].recipient : i \in input[h]} = authorization[h]

add_transaction(utxo, h) ==
  IF IsValid(utxo, h)
  THEN [added   |-> [c \in OutputCoins(h) |-> output[h][c.index + 1]],
        removed |-> InputCoins(h)]
  ELSE NoDiff

\* If the outputs are there the transaction was valid when it was added, and the
\* inputs come back as the transaction describes them.
remove_transaction(utxo, h) ==
  IF OutputCoins(h) \subseteq DOMAIN utxo
  THEN [added   |-> [c \in InputCoins(h) |->
                       LET i == CHOOSE i \in input[h] : i.coin = c
                       IN  [value |-> i.value, recipient |-> i.owner]],
        removed |-> OutputCoins(h)]
  ELSE NoDiff

\* The write batch: the deletes, then the puts.
Write(utxo, diff) ==
  [c \in (DOMAIN utxo \ diff.removed) \cup DOMAIN diff.added |->
     IF c \in DOMAIN diff.added THEN diff.added[c] ELSE utxo[c]]

-----------------------------------------------------------------------------
\* The UTXO set after the transactions of s, one after the other.
Replay(utxo, s) ==
  FoldLeft(LAMBDA u, h : Write(u, add_transaction(u, h)), utxo, s)
=============================================================================
