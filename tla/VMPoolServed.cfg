SPECIFICATION FairSpec
CONSTANTS
  Clients = {c1, c2, c3}
  Closers = {k1, k2}
  VM = {v1, v2, v3}
  NoVM = NoVM
  MinSize = 1
  MaxSize = 2
CHECK_DEADLOCK FALSE
INVARIANTS
  SlotAccounting
  Custody
PROPERTIES
  ImplementsLease
  AcquireReturns
