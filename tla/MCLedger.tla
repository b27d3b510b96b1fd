------------------------------ MODULE MCLedger ------------------------------
(* Instances of Ledger for TLC. *)
EXTENDS Ledger, TLC

CONSTANTS
  ConfirmDepth, DeconfirmDepth,  \* the depth each quantile asks of a vote
  ForkDepth                      \* how much more it asks for if there are forks

\* A lower bound with the shape of the one of proposer_leader: a vote counts from
\* the depth at which the quantile takes it for permanent, and that depth grows
\* when more voter blocks were mined since the votes than lie on top of them.
MCvotes_lcb(depths, blocks, count, quantile) ==
  LET needed == (IF quantile = "confirm" THEN ConfirmDepth ELSE DeconfirmDepth)
                  + (IF blocks > SumFunction(depths) THEN ForkDepth ELSE 0)
  IN  VoteUnit * Cardinality({v \in DOMAIN depths : depths[v] >= needed})

\* Threads and transaction and voter hashes are only compared for equality.
Symmetry == Permutations(Thread) \cup Permutations(VoterHash)
              \cup Permutations(TransactionHash)
=============================================================================
