SPECIFICATION Spec
CONSTANTS
  Rows = 2
  Window = 2
  QueueLength = 1
  MaxFaults = 1
  MaxCopies = 3
  StaleAnswers <- MCNoStale
INVARIANTS
  FirmwareTypeOK
  LockDiscipline
PROPERTY
  ImplementsValidation
CHECK_DEADLOCK FALSE
