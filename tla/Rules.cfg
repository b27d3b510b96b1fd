SPECIFICATION RulesSpec
CONSTANTS
  Hash = {1, 2, 3, 4}
  voter_chains = 5
  VoteUnit = 2
  None = None
  SORTITION_PRECISION = 15
  MaxHash = 31
  NoId = NoId
  MaxVoterChains = 5
  TxRate = {4}
  Configs <- MCConfigs
  Difficulty = {20, 31}
  Version = {0, 1}
INVARIANTS
  LeaderWhenAllCertain
  UpdateIsRebuild
  
  ProofBindsContent
  
PROPERTY LeaderStable
CHECK_DEADLOCK FALSE
