CONSTANTS
  Symbols = {A, B}
  Builtin = {}
  Registered = {B}
  Dates = {1, 2}
  Strikes = {1, 2, 3}
  Responses = {{2}, {1, 2}, {1, 2, 3}}
  SpotMax = 2
  BlockSize = 2
  Callers = {a1}
  Purges = {TRUE}
  Freedoms = {}
  MaxCalls = 3
  MaxAnswers = 2
  MaxCrashes = 1
  CM = CM
  FO = FO
  e1 = e1
  o1 = o1
  o2 = o2
  o3 = o3
  lot1 = lot1
  lot2 = lot2
  Runs = {r1, r2}
  Order <- MCOrder
  Slice <- MCSlice
  Contents <- MCContents
  Derivatives = FO
  Under <- MCUnder
  LastDay = 3
  MaxRuns = 3
  MaxFaults = 1
  Sessions = {"s1", "s2"}
  MaxStates = 2
  MaxApps = 2
  Fields = {"f1", "f2"}
  MaxVersion = 3
  MaxKills = 1
  Keys = {"k1", "k2"}
  Writers = {"w1", "w2"}
  Good = {1, 2}
  Tight = {2}
  Bad = {9}
  MaxWrites = 3
  MaxRestarts = 1
  Browsers = {b1, b2}
  IdleTimeout = 2
  AbsoluteTimeout = 3
  LastSeenInterval = 1
  LockoutThreshold = 2
  LockoutDuration = 2
  MaxTime = 2
  MaxSessions = 3
  MaxChanges = 1
  Kinds = {"contracts", "expiries", "tasks", "jobs", "exports"}
  MaxRows = 4
  SortKeys = {1, 2, 3}
  PageSize = 2
  MaxLeave = 1
  LastBar = 3
  MaxCandles = 2
  PageCount = 1
  MaxBarWrites = 2
SPECIFICATION RegistrySpec
SYMMETRY BrowsersAlike
CHECK_DEADLOCK FALSE
INVARIANTS CatalogueSound VersionsSound LoginSound KeysSound  AccountSound PagesSound ChartSound
PROPERTIES IdentityKept HistoryKept
