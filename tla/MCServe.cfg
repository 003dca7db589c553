SPECIFICATION FairSpec
CONSTANTS
  MaxLines = 3
  Nobody = Nobody
CHECK_DEADLOCK FALSE
INVARIANTS
  AnsweredWhole
PROPERTIES
  SilentOnceOver
  SlowStallsNobody
  Drains
