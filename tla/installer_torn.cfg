SPECIFICATION Spec
CONSTANTS
  Tears = TRUE
  MaxFaults = 1
INVARIANT RollbackRestores
CHECK_DEADLOCK FALSE
