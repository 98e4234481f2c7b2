SPECIFICATION FairSpec
CONSTANTS
  Rows = 2
  Window = 1
  QueueLength = 1
  MaxFaults = 1
  MaxCopies = 2
  StaleAnswers <- MCNoStale
PROPERTY
  FinishesOrDeadlocks
CHECK_DEADLOCK FALSE
