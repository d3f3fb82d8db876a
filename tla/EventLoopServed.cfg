SPECIFICATION FairSpec
CONSTANTS
  Callers = {c1, c2}
  Bridges = {b1, b2}
  Cap = 1
CHECK_DEADLOCK FALSE
INVARIANTS
  ReturnsAfterRun
PROPERTIES
  SyncReturns
