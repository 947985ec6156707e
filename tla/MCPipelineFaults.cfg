CONSTANTS
  Tasks <- MCTasks
  Jobs <- MCJobs
  JobOf <- MCJobOf
  MaxAttempts = 2
  Owners <- MCOwners
  NoOwner = 0
  Workers = {w1, w2}
  Capacity = 2
  Faults = {"transient", "fatal", "nohandler", "raise", "rejected", "ratelimit", "disconnect", "pause", "cancel", "crash", "stop"}
  MaxFaults = 2
  MaxLogins = 0
SPECIFICATION PipelineSpec
SYMMETRY MCSymmetry
CHECK_DEADLOCK FALSE
INVARIANTS FinishedMeansDone HonestVerdict RowsInOneHand
PROPERTIES ImplementsQueue
