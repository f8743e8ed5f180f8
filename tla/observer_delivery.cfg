SPECIFICATION FairSpec
CONSTANTS
  Frames <- MCFrames
  Threads <- MCThreads
  Syncs = TRUE
  NumFrames = 2
  Capacity = 1
  MaxAttempts = 2
  MaxProcesses = 3
  MaxWithdrawals = 1
  MaxFaults = 1
CONSTRAINT
  AbandonedEarly
INVARIANTS
  HandedOffSurvives
  NoSilentLoss
PROPERTIES
  AcknowledgedIsFinal
  RunReturns
  ImplementsJournalContract
CHECK_DEADLOCK FALSE
