SPECIFICATION Spec
CONSTANTS
  MaxInodes = 5
INVARIANTS
  ForeignSurvives
PROPERTIES
  CleanExitIsEmpty
CHECK_DEADLOCK FALSE
