SPECIFICATION MinerSpec
CONSTANTS
  miner = miner
  Thread = {miner, worker}
  worker = worker
  ProposerHash = {1, 2}
  VoterHash = {}
  TransactionHash = {}
  voter_chains = 1
  MaxRefs = 1
  proposer_tx_refs = 1
INVARIANT MinedRefsValid
CHECK_DEADLOCK FALSE
