SPECIFICATION Spec
CONSTANTS
  NumClocks = 2
  MaxRuns = 2
  MaxSteps = 2
  RetryBudget = 1
  Skipping = {2}
  MaxQuarantines = 1
  None = None
CONSTRAINT
  SecondRun
INVARIANTS
  StepIsAtomic
  OwnersRetained
PROPERTIES
  CheckpointIsExact
  StepImplementsAcceptedStep
CHECK_DEADLOCK FALSE
