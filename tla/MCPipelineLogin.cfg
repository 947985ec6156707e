CONSTANTS
  Tasks <- MCTasks
  Jobs <- MCJobs
  JobOf <- MCJobOf
  MaxAttempts = 2
  Owners <- MCOwners
  NoOwner = 0
  Workers = {w1, w2}
  Capacity = 2
  Faults = {"rejected"}
  MaxFaults = 1
  MaxLogins = 2
SPECIFICATION PipelineSpec
SYMMETRY MCSymmetry
INVARIANT OpenForBusiness
CHECK_DEADLOCK FALSE
