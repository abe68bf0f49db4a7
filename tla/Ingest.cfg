SPECIFICATION FairSpec
CONSTANTS
  Sites = {s1, s2}
  Handlers = {h1, h2}
  Workers = {w1, w2}
  QueueSize = 1
  MaxRequests = 3
  MaxReloads = 1
INVARIANTS EveryPostCounted Drained
PROPERTIES UnknownOnlyInReload QueuedAreRecorded StopEnds
CHECK_DEADLOCK FALSE
