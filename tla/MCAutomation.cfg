CONSTANTS
  Own <- MCOwn
  Edited <- MCEdited
  Routes = {e1, e2}
  Sheets = 1
  Price = 1
  Daily = 1
  Reserve = 1
  TokenLife = 1
  Freedoms = {}
  LastHalf = 3
  MaxJobs = 1
  MaxEvents = 2
SPECIFICATION FairSpec
CHECK_DEADLOCK FALSE
INVARIANTS TokensSound TriggersMirrorTable
PROPERTIES TokenLeavesForAReason HeldBackMovesOn
