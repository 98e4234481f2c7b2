SPECIFICATION PromptSpec
CONSTANTS
  Rows = 4
  Window = 3
  QueueLength = 2
  MaxFaults = 1
  MaxCopies = 0
  StaleAnswers <- MCNoStale
INVARIANTS
  LoadWithinWindow
  NoDeadlock
  RecordedInOrder
CHECK_DEADLOCK FALSE
