SPECIFICATION Spec
CONSTANTS
  Visitors = {v1, v2}
  Workers = {w1, w2}
  Sweeper = sw
  TTL = 2
  Cap = 1
  MaxLag = 1
  MaxClock = 3
  MaxSessions = 3
INVARIANTS CapBound NoPhantom EvictedAreReported DurationsBounded
SYMMETRY Symmetry
