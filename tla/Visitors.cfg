SPECIFICATION VSpec
CONSTANTS
  People = {p1}
  Visitors <- Ids
  Workers = {w1, w2}
  Res = 2
  N = 2
  ARes = 1
  AN = 2
  DayLength = 3
  MaxLag = 1
  Interval = 4
  MaxPause = 1
  MaxClock = 7
  MaxEvents = 3
INVARIANTS RollingExact TodayExact SaltOfItsTime CountedPerSalt ScrapeNested
PROPERTIES SaltRetires
