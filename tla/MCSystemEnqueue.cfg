SPECIFICATION FairSpec
CONSTANTS
  Rows = 2
  Window = 2
  QueueLength = 1
  MaxFaults = 0
  MaxCopies = 3
  StaleAnswers <- MCNoStale
PROPERTY
  EnqueueReturns
CHECK_DEADLOCK FALSE
