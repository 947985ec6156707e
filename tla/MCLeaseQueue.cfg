CONSTANTS
  Tasks <- MCTasks
  Jobs = {"a", "b"}
  JobOf <- MCJobOf
  MaxAttempts = 2
  Owners = {o1, o2}
  NoOwner = none
SPECIFICATION Spec
INVARIANTS LeaseInv
PROPERTIES ImplementsLedger ClaimsInOrder
