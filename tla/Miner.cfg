SPECIFICATION MinerSpec
CONSTANTS
  miner = miner
  Thread = {miner, worker}
  worker = worker
  ProposerHash = {1}
  VoterHash = {11}
  TransactionHash = {21, 22}
  voter_chains = 1
  MaxRefs = 1
  proposer_tx_refs = 1
INVARIANTS MinedVotesValid MinerUpToDate  UnreferredTransactionsExact
CHECK_DEADLOCK FALSE
