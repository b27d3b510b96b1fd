----------------------------- MODULE Sortition ------------------------------
(***************************************************************************)
(* The sortition of a header hash (BlockchainConfig in config.rs): what    *)
(* kind of block a hash below the difficulty makes, in proportion to the   *)
(* mining rates.  Rates are natural numbers here and quotients are exact,  *)
(* where the code has f32.                                                 *)
(***************************************************************************)
EXTENDS Integers

CONSTANTS
  SORTITION_PRECISION,  \* largest number of the width of the intervals (u64)
  MaxHash,              \* largest hash (U256)
  NoId                  \* no block: the hash is not below the difficulty

PROPOSER_INDEX == 0
TRANSACTION_INDEX == 1
FIRST_VOTER_INDEX == 2

Ceiling(a, b) == (a + b - 1) \div b

\* The widths of the intervals, in the arithmetic of u64.
BlockchainConfig(voter_chains, proposer_rate, voter_rate, tx_rate) ==
  LET total_mining_rate == proposer_rate + voter_rate * voter_chains + tx_rate
      Width(rate) == Ceiling(rate * SORTITION_PRECISION, total_mining_rate)
      proposer_width == Width(proposer_rate)
      voter_widths == Width(voter_rate) * voter_chains
  IN  [voter_chains             |-> voter_chains,
       proposer_sortition_width |-> proposer_width,
       tx_sortition_width       |->
         (SORTITION_PRECISION - proposer_width - voter_widths) % (SORTITION_PRECISION + 1)]

Intervals(config, difficulty) ==
  LET multiplier == difficulty \div SORTITION_PRECISION
      proposer_width == multiplier * config.proposer_sortition_width
      transaction_width ==
        multiplier * (config.proposer_sortition_width + config.tx_sortition_width)
  IN  [proposer |-> proposer_width, voter |-> transaction_width + proposer_width]

\* The chains of voters from one on.
sortition_hashFromOne(config, hash, difficulty) ==
  LET start == Intervals(config, difficulty)
  IN  IF hash < start.proposer THEN PROPOSER_INDEX
      ELSE IF hash < start.voter THEN TRANSACTION_INDEX
      ELSE IF hash < difficulty
           THEN ((hash - start.voter) % config.voter_chains) + FIRST_VOTER_INDEX + 1
      ELSE NoId
sortition_hash(config, hash, difficulty) ==
  LET start == Intervals(config, difficulty)
  IN  IF hash < start.proposer THEN PROPOSER_INDEX
      ELSE IF hash < start.voter THEN TRANSACTION_INDEX
      ELSE IF hash < difficulty
           THEN ((hash - start.voter) % config.voter_chains) + FIRST_VOTER_INDEX
      ELSE NoId
=============================================================================
