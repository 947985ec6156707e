CONSTANTS
  Writers = {w1, w2}
  Maintainers = {m1}
  QueueSize = 4
  MaxWrites = 2
  MaxRuns = 1
  MaxFaults = 1
  MaxCrashes = 1
  Exports = {"e1"}
  MaxKills = 1
  Jobs = {"j1", "j2"}
  Tasks = 2
  Readers = {"r1", "r2"}
  Slots = 2
  RingCapacity = 2
  StreamQueue = 2
  MaxRestarts = 1
  Files = 2
  MaxStarts = 2
  Freedoms = {}
SPECIFICATION ConsoleSpec
CHECK_DEADLOCK FALSE
INVARIANTS StoreSound ExportsSound StreamsSound ProcessSound
PROPERTIES StoreGoesOn EveryExportEnds StreamsCatchUp StartsOrStops
