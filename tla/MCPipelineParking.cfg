CONSTANTS
  Tasks <- MCTasks
  Jobs <- MCJobs
  JobOf <- MCJobOf
  MaxAttempts = 2
  Owners <- MCOwners
  NoOwner = 0
  Workers = {w1, w2}
  Capacity = 2
  Faults = {"rejected", "ratelimit", "disconnect", "relogin"}
  MaxFaults = 2
  MaxLogins = 1
SPECIFICATION PipelineSpec
SYMMETRY MCSymmetry
INVARIANTS OnePromptPerGeneration ParkingIsFree
CHECK_DEADLOCK FALSE
