SPECIFICATION FairSpec
CONSTANTS
  Requests = {c1, c2}
  Browsers = {t1}
  MaxEdits = 1
  PoolSize = 3
  Fragile = {1}
CHECK_DEADLOCK FALSE
INVARIANTS
  SwappedTogether
  NoReloadLost
  QuietReloadIsClean
PROPERTIES
  LatestServed
  ShutsDown
