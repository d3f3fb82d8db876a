SPECIFICATION Spec
CONSTANTS
  Clients = {r}
  Burst = 1
  Rps = 1
  SweepInterval = 2
  IdleTTL = 4
  MaxBuckets = 1
  MaxClock = 0
  Fetches = {f}
  Expiry = 1
  MaxLifetime = 1
  Refresh = TRUE
  MaxSessions = 0
  MaxNow = 0
  Visits = {p}
  MaxItems = 0
  MaxRestarts = 0
  Engines <- AllEngines
  Functions = {1, 2, 3}
  Injectors <- MCInjectors
  MaxServed = 2
  Methods <- MCMethods
  Paths = {}
  Apps = {}
  Edited = {}
  MaxScans = 0
INVARIANT FunctionsReached
