SPECIFICATION Spec
CONSTANTS
  WarningFailures = 2
  RecoverySuccesses = 2
  NotifyRecovery = TRUE
  WarningReminder = 2
  CriticalReminder = 3
  Journal = FALSE
  Inputs <- OrdinaryInputs
  Gaps <- OneOrTwo
  MaxNow = 11
INVARIANTS
  TypeOK
  MigrationIsIdentity
  CountersFollowObservations
  PersistentFailureIsNotified
  ConfirmedCriticalIsCurrent
  RecoveredIsClosed
  AlertsAreConfirmed
  FailureStartIsKept
  OpenAlertIsTracked
PROPERTIES
  LifecycleSpec
CHECK_DEADLOCK FALSE
