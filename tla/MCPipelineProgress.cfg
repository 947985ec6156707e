CONSTANTS
  Tasks <- MCTasks
  Jobs <- MCJobs
  JobOf <- MCJobOf
  MaxAttempts = 2
  Owners <- MCOwners
  NoOwner = 0
  Workers = {w1, w2}
  Capacity = 2
  Faults = {"transient", "fatal", "lapse", "crash"}
  MaxFaults = 2
  MaxLogins = 0
SPECIFICATION FairPipelineSpec
PROPERTIES EveryJobEnds EveryLeaseEnds
CHECK_DEADLOCK FALSE
