SPECIFICATION Spec
CONSTANTS
  WarningFailures = 2
  RecoverySuccesses = 1
  NotifyRecovery = TRUE
  WarningReminder = 0
  CriticalReminder = 0
  MaxEvents = 5
  MaxBackoff = 2
  p1 = p1
  p2 = p2
  Procs <- OneProc
  Order <- Kernel
  JournalChecks <- KernelOnly
  Monitors <- None
  CriticalAttempts = 2
  CriticalAge = 3
  ResultsOf <- ResultsOfChecks
  Modes <- CheckOnly
  InitialCursor <- NoFile
  FirstWindow = 2
  JournalFaults <- None
  MaxNow = 5
  MaxEntries = 3
  MaxStops = 0
  MaxToggles = 0
INVARIANT NoEntrySkipped
CHECK_DEADLOCK FALSE
