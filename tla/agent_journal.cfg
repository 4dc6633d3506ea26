SPECIFICATION Spec
CONSTANTS
  WarningFailures = 2
  RecoverySuccesses = 1
  NotifyRecovery = TRUE
  WarningReminder = 0
  CriticalReminder = 0
  MaxEvents = 5
  MaxBackoff = 2
  p1 = p1
  p2 = p2
  Procs <- TwoProcs
  Order <- Kernel
  JournalChecks <- KernelOnly
  Monitors <- None
  CriticalAttempts = 2
  CriticalAge = 3
  ResultsOf <- ResultsOfChecks
  Modes <- CheckAndBaseline
  InitialCursor = 0
  FirstWindow = 2
  JournalFaults <- FailedOrLong
  MaxNow = 4
  MaxEntries = 3
  MaxStops = 2
  MaxToggles = 1
INVARIANTS
  NoEntrySkipped
  KernelMessagesAnnouncedOnce
PROPERTIES
  CursorNeverGoesBack
SYMMETRY Symmetry
CHECK_DEADLOCK FALSE
