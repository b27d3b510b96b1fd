SPECIFICATION VisSpec
CONSTANTS
  Thread = {t1}
  ProposerHash = {1}
  VoterHash = {v1, v2, v3}
  TransactionHash = {}
  voter_chains = 1
  MaxRefs = 0
  None = None
  VoteUnit = 1
  ConfirmDepth = 1
  DeconfirmDepth = 1
  ForkDepth = 0
  votes_lcb <- MCvotes_lcb
  DEFAULT = 100
  Limit = {0}
  Fork = {TRUE}
  MaxRequests = 2
SYMMETRY Symmetry
INVARIANTS
  DumpNeverPanics
  
  MainChainColoured
  VotesDrawnWereCast
PROPERTY
  SettledVotesExact
