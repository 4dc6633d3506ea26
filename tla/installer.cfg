SPECIFICATION Spec
CONSTANTS
  Tears = FALSE
  MaxFaults = 2
INVARIANTS
  RollbackRestores
  LoadedUnitsAreInstalled
  TimerRunsOneVersion
PROPERTIES
  InstallationEnds
CHECK_DEADLOCK FALSE
