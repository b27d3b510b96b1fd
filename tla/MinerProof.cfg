SPECIFICATION MinerSpec
CONSTANTS
  miner = miner
  Thread = {miner, worker}
  worker = worker
  ProposerHash = {1, 2}
  VoterHash = {11, 12}
  TransactionHash = {}
  voter_chains = 2
  MaxRefs = 0
  proposer_tx_refs = 1
INVARIANT MinedProofValid
CHECK_DEADLOCK FALSE
