SPECIFICATION FairSpec
CONSTANTS
  rank0 = rank0
  rank1 = rank1
  rank2 = rank2
  Ranks = {rank0, rank1, rank2}
  Root = rank0
  Modes = {"root", "per_rank", "collective"}
  MaxSamples = 3
  MaxAttempts = 2
  MaxRetries = 1
  MaxFaults = 3
INVARIANTS
  CollectivesMatch
  OutputAllOrNone
  CatalogueExact
PROPERTIES
  OutputReturns
CHECK_DEADLOCK FALSE
