SPECIFICATION FairSpec
CONSTANTS
  Paths = {"city", "country", "asn"}
  Workers = {w1, w2}
  MaxRound = 3
INVARIANTS AlwaysServing NoReaderLeaks ClosedOnce LookupsOnSnapshot
PROPERTIES ReplacedAreClosed
CHECK_DEADLOCK FALSE
