SPECIFICATION Spec
CONSTANTS
  WarningFailures = 2
  RecoverySuccesses = 1
  NotifyRecovery = TRUE
  WarningReminder = 2
  CriticalReminder = 0
  MaxEvents = 5
  MaxBackoff = 2
  p1 = p1
  p2 = p2
  Procs <- TwoProcs
  Order <- MemoryAndQueue
  JournalChecks <- None
  Monitors <- QueueOnly
  CriticalAttempts = 2
  CriticalAge = 3
  ResultsOf <- ResultsOfChecks
  Modes <- CheckOnly
  InitialCursor = 0
  FirstWindow = 2
  JournalFaults <- None
  MaxNow = 7
  MaxEntries = 0
  MaxStops = 2
  MaxToggles = 0
INVARIANTS
  TypeOK
  BeliefMatchesMessages
  ProblemsAndRecoveriesAlternate
PROPERTIES
  OnlyDeliveredLeaves
SYMMETRY Symmetry
CHECK_DEADLOCK FALSE
