SPECIFICATION VoteSpec
CONSTANTS
  TreeCount = 4
  Classes = 3
INVARIANT
  TieBrokenByDraw
CHECK_DEADLOCK FALSE
