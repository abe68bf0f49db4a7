SPECIFICATION Spec
CONSTANTS
  Paths = {p1}
  Values = {x1}
  Visitors = {v1}
  Workers = {w1, w2}
  Maintainer = mt
  DimOrder <- Both
  Configs <- McConfigs
  Boot <- McBoot
  MaxReloads = 1
  Cap <- Caps
  TTL = 1
  DecayAfter = 2
  MaxDelay = 1
  MaxClock = 2
  MaxTaken = 2
  Other = other
  All = all
  NoValue = novalue
INVARIANTS SeriesBacked
PROPERTIES InUseKept
SYMMETRY Symmetry
