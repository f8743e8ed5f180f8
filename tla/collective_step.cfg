SPECIFICATION FairSpec
CONSTANTS
  NumRanks = 3
  Phases <- MCPhases
  Payloads <- MCPayloads
  Terminal <- MCTerminal
  RetryBudget = 1
  MaxSteps = 2
  MaxCalls = 3
  MaxFaults = 4
  Work = Work
  Torn = Torn
  None = None
INVARIANTS
  CollectivesMatch
  RetryIsClean
  TornIsFenced
PROPERTIES
  CallReturns
CHECK_DEADLOCK FALSE
