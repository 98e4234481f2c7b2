SPECIFICATION Spec
CONSTANTS
  Rows = 3
  Window = 2
  MaxCopies = 2
  StaleAnswers <- MCStale
INVARIANTS
  DriverTypeOK
  RecordedOnce
  IndexStillValid
  UnansweredWillBeResent
  ReportComplete
PROPERTY
  KeepsPromise
