SPECIFICATION FairSpec
CONSTANTS
  Readers = {r1, r2}
  Writers = {w1, w2}
  Pages <- MCPages
  Targets <- MCTargets
  StartsWith <- MCStartsWith
  None = None
  Revalidate = 2
  FillsAlways = FALSE
  Size = 1
  MaxChanges = 2
CHECK_DEADLOCK FALSE
INVARIANTS
  QuietInvalidationIsClean
PROPERTIES
  EventuallyFresh
