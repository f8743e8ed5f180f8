SPECIFICATION FairSpec
CONSTANTS
  NumEffects = 3
  MaxAttempts = 2
  MaxInterrupts = 1
CONSTRAINT
  InterruptedPlans
  OneQuarantine
INVARIANTS
  TypeOK
  ResolvedLeavesNothing
  AcceptedIsComplete
  DependencyClosed
  ReleaseOwnersSurvive
PROPERTIES
  SealedIsFinal
  MethodReturns
  ImplementsContract
CHECK_DEADLOCK FALSE
