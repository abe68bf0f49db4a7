SPECIFICATION Spec
CONSTANTS
  Keys = {k1, k2}
  Cost = 2
  Full = 4
  Max = 1
  MaxLag = 1
  MaxClock = 9
  MaxUsed = 4
INVARIANTS RateBound KeysBounded
PROPERTIES IdealBuckets
