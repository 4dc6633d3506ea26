SPECIFICATION Spec
CONSTANTS
  WarningFailures = 2
  RecoverySuccesses = 1
  NotifyRecovery = TRUE
  WarningReminder = 0
  CriticalReminder = 0
  MaxEvents = 5
  MaxBackoff = 2
  p1 = p1
  p2 = p2
  Procs <- OneProc
  Order <- Memory
  JournalChecks <- None
  Monitors <- None
  CriticalAttempts = 2
  CriticalAge = 3
  ResultsOf <- ResultsOfChecks
  Modes <- CheckOnly
  InitialCursor = 0
  FirstWindow = 2
  JournalFaults <- None
  MaxNow = 8
  MaxEntries = 0
  MaxStops = 1
  MaxToggles = 0
INVARIANT OneEscalationPerIncident
CHECK_DEADLOCK FALSE
