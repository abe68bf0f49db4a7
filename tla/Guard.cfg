SPECIFICATION Spec
CONSTANTS
  a = a
  b = b
  c = c
  Values = {a, b, c}
  Workers = {w1, w2}
  Guards <- PathGuards
  Cap <- PathCaps
  MinCount = 3
  Depth = 2
  Width = 3
  Hash <- Colliding
  MaxCell = 6
  DecayAfter = 1
  MaxLag = 0
  MaxClock = 2
  MaxSeen = 2
INVARIANTS UpperBound NeverSaturates WithinCap EarnedTogether
