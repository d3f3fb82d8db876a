SPECIFICATION FairSpec
CONSTANTS
  f = f
  g = g
  Requests = {r1, r2}
  VMs = {v1}
  Funcs = {f, g}
  Injectors <- Overlapping
  Actions = {r1}
  MaxAsks = 2
  Early = {r1}
  Hanging = {r1}
  NoReq = NoReq
  NoVM = NoVM
CHECK_DEADLOCK FALSE
INVARIANTS
  OwnState
  MemoOnce
  Isolation
PROPERTIES
  RequestsEnd
