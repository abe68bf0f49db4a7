SPECIFICATION Spec
CONSTANTS
  Visitors = {v1}
  Workers = {w1, w2}
  Sweeper = sw
  TTL = 2
  Cap = 1
  MaxLag = 0
  MaxClock = 5
  MaxSessions = 5
INVARIANTS Accounted
