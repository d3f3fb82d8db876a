SPECIFICATION FairSpec
CONSTANTS
  Files = {f1, f2, f3}
  Polafile = f3
  MaxRecent = 1
  MinItems = 1
  Intervals = 2
  MaxWrites = 3
INVARIANTS
  InOneTier
  NothingMissed
PROPERTY
  LatestRuns
CHECK_DEADLOCK FALSE
