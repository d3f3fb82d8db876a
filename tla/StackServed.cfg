SPECIFICATION Spec
CONSTANTS
  Clients = {r, s}
  Burst = 2
  Rps = 1
  SweepInterval = 2
  IdleTTL = 4
  MaxBuckets = 6
  MaxClock = 12
  Fetches = {f, g}
  Expiry = 2
  MaxLifetime = 2
  Refresh = TRUE
  MaxSessions = 2
  MaxNow = 5
  Visits = {p, q}
  MaxItems = 2
  MaxRestarts = 1
  Engines <- AllEngines
  Functions = {1, 2, 3}
  Injectors <- MCInjectors
  MaxServed = 3
  Methods <- MCMethods
  Paths <- MCPaths
  Apps <- MCApps
  Edited <- MCEdited
  MaxScans = 1
SYMMETRY Symmetry
INVARIANTS
  MostSpecific
  OwnParams
  AllowIsExact
  OneScan
  OneBurstAhead
  LifetimeCapped
  SignedOutStaysOut
  FlashOnce
  KeptUnlessRaced
  OwnBridge
PROPERTY
  NeverStricter
