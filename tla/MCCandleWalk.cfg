CONSTANTS
  Contracts = {c1}
  Spot = spot
  Resolutions = {r1}
  Workers = {w1, w2}
  LastDay = 5
  Births = {1, 4, 6}
  Closed = {3}
  Holidays = {3}
  ExchangeFloor = 1
  DataFrom = 1
  LifeDays = 4
  ChunkDays = 2
  MaxSteps = 3
  Sheets <- MCSheets
  MaxJobs = 2
  MaxFaults = 1
SPECIFICATION Spec
CHECK_DEADLOCK FALSE
INVARIANTS LedgerSound WalksApart PlannerExact
PROPERTIES WalkEnds
