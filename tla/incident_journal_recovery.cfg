SPECIFICATION Spec
CONSTANTS
  WarningFailures = 2
  RecoverySuccesses = 2
  NotifyRecovery = TRUE
  WarningReminder = 2
  CriticalReminder = 3
  Journal = TRUE
  Inputs <- JournalInputs
  Gaps <- OneOrTwo
  MaxNow = 9
INVARIANT OpenAlertIsTracked
CHECK_DEADLOCK FALSE
