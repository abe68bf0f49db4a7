SPECIFICATION HSpec
CONSTANTS
  Visitors = {v1, v2}
  Workers = {w1}
  Sweeper = sw
  TTL = 2
  Cap = 2
  MaxLag = 0
  MaxClock = 4
  MaxSessions = 4
  MaxLog = 3
INVARIANTS CutAtPauses Accounted
PROPERTIES IdleSessionsEnd
