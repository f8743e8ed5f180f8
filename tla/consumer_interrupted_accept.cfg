SPECIFICATION Spec
CONSTANTS
  NumEffects = 2
  MaxAttempts = 1
  MaxInterrupts = 1
INVARIANT
  RejectedPublishesNothing
CHECK_DEADLOCK FALSE
