SPECIFICATION Spec
CONSTANTS Kinds = {"contracts"} MaxRows = 3 Keys = {1,2,3} PageSize = 1 MaxLeave = 0 Freedoms = {"ids_disagree"}
INVARIANTS NothingSkipped
CHECK_DEADLOCK FALSE
