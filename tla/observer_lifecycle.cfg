SPECIFICATION FairSpec
CONSTANTS
  rank0 = rank0
  rank1 = rank1
  Ranks = {rank0, rank1}
  NumSteps = 2
  NumReplays = 1
  Capacity = 1
  MaxFaults = 3
INVARIANTS
  CollectivesMatch
  ProviderCallsAgree
  OutcomesAgree
PROPERTIES
  RunReturns
CHECK_DEADLOCK FALSE
