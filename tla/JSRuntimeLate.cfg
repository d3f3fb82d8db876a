SPECIFICATION Spec
CONSTANTS
  f = f
  g = g
  Requests = {r1, r2}
  VMs = {v1}
  Funcs = {f, g}
  Injectors <- OneInjector
  Actions = {r1, r2}
  MaxAsks = 2
  Early = {}
  Hanging = {r1}
  NoReq = NoReq
  NoVM = NoVM
CHECK_DEADLOCK FALSE
INVARIANTS
  NoForeignProgram
