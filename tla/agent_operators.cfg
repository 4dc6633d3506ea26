SPECIFICATION Spec
CONSTANTS
  WarningFailures = 2
  RecoverySuccesses = 1
  NotifyRecovery = TRUE
  WarningReminder = 0
  CriticalReminder = 0
  MaxEvents = 2
  MaxBackoff = 2
  p1 = p1
  p2 = p2
  Procs <- OneProc
  Order <- MemoryAndService
  JournalChecks <- None
  Monitors <- None
  CriticalAttempts = 2
  CriticalAge = 3
  ResultsOf <- ResultsOfChecks
  Modes <- EveryMode
  InitialCursor = 0
  FirstWindow = 2
  JournalFaults <- None
  MaxNow = 4
  MaxEntries = 0
  MaxStops = 1
  MaxToggles = 1
INVARIANTS
  BeliefMatchesMessages
  NoImaginedAlert
PROPERTIES
  OnlyDeliveredLeaves
  OverflowDropsOldest
CHECK_DEADLOCK FALSE
