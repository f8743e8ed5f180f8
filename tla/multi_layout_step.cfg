SPECIFICATION FairSpec
CONSTANTS
  NumLayouts = 3
  Plans <- MCPlans
  MaxSteps = 2
  MaxCalls = 2
  RetryBudget = 1
  MaxFaults = 3
  Torn = Torn
  None = None
INVARIANTS
  StepIsAtomic
  MappingsAreOrdered
  PassesDecide
PROPERTIES
  StepReturns
CHECK_DEADLOCK FALSE
