SPECIFICATION Spec
CONSTANTS
  DtInit = 8
  DtMin = 1
  DtMax = 14
  MaxRejections = 2
  Shrink <- MCShrink
  Growth <- MCGrowth
  Deadlines = {13}
  EndTimes = {16, 28}
  MaxRuns = 2
  Precision = 4
  None = None
INVARIANT
  AcceptedStepCheckpoints
CHECK_DEADLOCK FALSE
