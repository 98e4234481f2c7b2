SPECIFICATION Spec
CONSTANTS
  Rows = 3
  Window = 2
  MaxCopies = 2
  StaleAnswers <- MCNoStale
INVARIANT
  AnsweredNotResent
