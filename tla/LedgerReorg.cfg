SPECIFICATION LedgerSpec
CONSTANTS
  Thread = {t1}
  ProposerHash = {1, 2}
  VoterHash = {v1, v2, v3}
  TransactionHash = {x1}
  voter_chains = 1
  MaxRefs = 1
  None = None
  VoteUnit = 1
  ConfirmDepth = 1
  DeconfirmDepth = 1
  ForkDepth = 2
  votes_lcb <- MCvotes_lcb
SYMMETRY Symmetry
INVARIANTS
  
  VotesFollowTips
  VotesWithinBounds
  LedgerContiguous

  
