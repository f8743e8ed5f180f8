SPECIFICATION FairSpec
CONSTANTS
  DtInit = 8
  DtMin = 1
  DtMax = 14
  MaxRejections = 2
  Shrink <- MCShrink
  Growth <- MCGrowth
  Deadlines = {13}
  EndTimes = {16, 28}
  MaxRuns = 2
  Precision = 12
  None = None
INVARIANTS
  AcceptedStepCheckpoints
PROPERTIES
  RestartReplays
  RunReturns
CHECK_DEADLOCK FALSE
