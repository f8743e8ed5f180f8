SPECIFICATION FairSpec
CONSTANTS
  Ranks = {rank0, rank1, rank2}
  NumLayouts = 3
  AMRLayouts = {1, 3}
  MaxRestores = 3
  MaxFaults = 4
  Torn = Torn
  None = None
INVARIANTS
  RestoreIsAtomic
PROPERTIES
  RestartReturns
CHECK_DEADLOCK FALSE
