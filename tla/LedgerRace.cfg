SPECIFICATION LedgerSpec
CONSTANTS
  Thread = {t1, t2}
  ProposerHash = {1, 2, 3}
  VoterHash = {v1}
  TransactionHash = {}
  voter_chains = 1
  MaxRefs = 1
  None = None
  VoteUnit = 1
  ConfirmDepth = 1
  DeconfirmDepth = 1
  ForkDepth = 0
  votes_lcb <- MCvotes_lcb
SYMMETRY Symmetry
INVARIANTS
  
  ProposerBestIsDeepest
  UnconfirmedExact
  
  LedgerTopological
