SPECIFICATION Spec
CONSTANTS
  Pages = {home, about}
  FAILURE_LIMIT = 2
  MaxEngaged = 1
  MaxClock = 5
  MaxMoves = 3
  MaxCalls = 1
SYMMETRY Symmetry
INVARIANT EngagementOfPageLeft
CHECK_DEADLOCK FALSE
