-------------------------------- MODULE Engine --------------------------------
(***************************************************************************)
(* The alert state machine of internal/engine: what one check result does  *)
(* to the stored state of its check and which event, if any, it emits.     *)
(* Pure operators: Incident drives them for one check, Agent for all the   *)
(* checks of a run.                                                        *)
(*                                                                         *)
(* Abstractions.                                                           *)
(*   - Time is a natural number of ticks; Never is Go's zero time, so every *)
(*     real instant is positive.  Reminder intervals are in ticks and 0    *)
(*     disables them, as 0 hours does in the configuration.                *)
(*   - Titles are dropped; a message is a value that is only compared.     *)
(*   - An occurrence (the hash of the matched journal entries' cursors) is *)
(*     the set of those entries, and no occurrence is {}.  The stored      *)
(*     fingerprint is kept only for what the code reads it for: the last   *)
(*     occurrence the check reported.                                      *)
(***************************************************************************)
EXTENDS CheckResults

CONSTANTS
  WarningFailures,    \* agent.warning_failures
  RecoverySuccesses,  \* agent.recovery_successes
  NotifyRecovery,     \* agent.notify_recovery
  WarningReminder,    \* agent.warning_reminder_hours, in ticks
  CriticalReminder    \* agent.critical_reminder_hours, in ticks

\* config.Validate accepts thresholds from 1 and reminder intervals from 0.
ASSUME EngineAssumption ==
  /\ WarningFailures \in Nat \ {0}
  /\ RecoverySuccesses \in Nat \ {0}
  /\ NotifyRecovery \in BOOLEAN
  /\ WarningReminder \in Nat
  /\ CriticalReminder \in Nat

Never == 0
EventKinds == {"problem", "escalation", "recovery", "reminder", "occurrence"}

CheckStates(Times, Occurrences) ==
  [current : Statuses, lastObserved : Statuses,
   consecutiveFailures : Nat, consecutiveSuccesses : Nat,
   firstFailureAt : Times, lastNotificationAt : Times, lastRecoveryAt : Times,
   fingerprint : Occurrences, notified : BOOLEAN]

\* Mutant of NewCheck: Go's zero CheckState, without the statuses.
ZeroCheck ==
  [current |-> "", lastObserved |-> "",
   consecutiveFailures |-> 0, consecutiveSuccesses |-> 0,
   firstFailureAt |-> Never, lastNotificationAt |-> Never,
   lastRecoveryAt |-> Never, fingerprint |-> NoOccurrence, notified |-> FALSE]

\* A check seen for the first time.
NewCheck ==
  [current |-> "OK", lastObserved |-> "OK",
   consecutiveFailures |-> 0, consecutiveSuccesses |-> 0,
   firstFailureAt |-> Never, lastNotificationAt |-> Never,
   lastRecoveryAt |-> Never, fingerprint |-> NoOccurrence, notified |-> FALSE]

\* Mutants of BaselineCheck: the start of the failure is not recorded, the first
\* good run is not counted, the baseline counts as a notification.
BaselineWithoutStart(result, now) ==
  [NewCheck EXCEPT
     !.current = result.status, !.lastObserved = result.status,
     !.fingerprint = result.occurrence,
     !.consecutiveSuccesses = IF result.status = "OK" THEN 1 ELSE 0,
     !.consecutiveFailures = IF result.status = "OK" THEN 0 ELSE 1]

BaselineWithoutSuccess(result, now) ==
  [BaselineWithoutStart(result, now) EXCEPT
     !.consecutiveSuccesses = 0,
     !.firstFailureAt = IF result.status = "OK" THEN Never ELSE now]

BaselineNotifies(result, now) ==
  [BaselineWithoutStart(result, now) EXCEPT
     !.firstFailureAt = IF result.status = "OK" THEN Never ELSE now,
     !.lastNotificationAt = now]

\* A baseline run accepts the present status of a check without an alert.
BaselineCheck(result, now) ==
  [NewCheck EXCEPT
     !.current = result.status,
     !.lastObserved = result.status,
     !.fingerprint = result.occurrence,
     !.consecutiveSuccesses = IF result.status = "OK" THEN 1 ELSE 0,
     !.consecutiveFailures = IF result.status = "OK" THEN 0 ELSE 1,
     !.firstFailureAt = IF result.status = "OK" THEN Never ELSE now]

\* What state.Load does to a stored check: a state file from before "notified"
\* existed marks a reported problem by its notification time alone.
LoadCheck(check) ==
  IF check.lastNotificationAt # Never /\ check.current # "OK"
  THEN [check EXCEPT !.notified = TRUE]
  ELSE check

\* One result of a check: the check's new state and the kind of the event it
\* emits, "none" if it emits none.
Outcome(check, kind) == [check |-> check, kind |-> kind]

\* Mutant of IsNewOccurrence: only the first occurrence is new.
IsFirstOccurrence(check, result) == check.fingerprint = NoOccurrence

IsNewOccurrence(check, result) == check.fingerprint # result.occurrence

OnOccurrence(check, result, now) ==
  LET isNew == IsNewOccurrence(check, result)
  IN Outcome([check EXCEPT
                !.fingerprint = result.occurrence,
                !.lastNotificationAt = IF isNew THEN now ELSE @,
                !.current = result.status,
                !.lastObserved = result.status,
                !.consecutiveFailures = 1,
                !.consecutiveSuccesses = 0,
                !.notified = TRUE],
             IF isNew THEN "occurrence" ELSE "none")

\* Mutant of CloseOccurrence: only a notified occurrence is closed.
CloseNotified(check) ==
  IF check.current = "CRITICAL" /\ check.notified
  THEN [check EXCEPT !.current = "OK", !.lastObserved = "OK",
                     !.notified = FALSE, !.consecutiveFailures = 0]
  ELSE check

\* An occurrence is a point in time, not an incident: the next result without
\* one finds the journal check quiet again.
CloseOccurrence(check) ==
  IF check.current = "CRITICAL"
  THEN [check EXCEPT !.current = "OK", !.lastObserved = "OK",
                     !.notified = FALSE, !.consecutiveFailures = 0]
  ELSE check

\* Mutant of SuccessesNow: the first good run is not counted.
SuccessesAfterFirst(check) ==
  IF check.lastObserved = "OK" THEN check.consecutiveSuccesses + 1 ELSE 0

SuccessesNow(check) ==
  IF check.lastObserved = "OK" THEN check.consecutiveSuccesses + 1 ELSE 1

OnSuccess(check, now) ==
  LET successes == SuccessesNow(check)
      seen == [check EXCEPT !.consecutiveSuccesses = successes,
                            !.consecutiveFailures = 0,
                            !.firstFailureAt = Never,
                            !.lastObserved = "OK"]
      closes == check.current # "OK" /\ successes >= RecoverySuccesses
      recovers == closes /\ check.notified
  IN Outcome([seen EXCEPT
                !.current = IF closes THEN "OK" ELSE @,
                !.notified = @ /\ ~recovers,
                !.lastRecoveryAt = IF recovers THEN now ELSE @,
                !.lastNotificationAt =
                   IF recovers /\ NotifyRecovery THEN now ELSE @],
             IF recovers /\ NotifyRecovery THEN "recovery" ELSE "none")

ReminderDue(check, now) ==
  LET interval == IF check.current = "CRITICAL" THEN CriticalReminder
                                                ELSE WarningReminder
  IN /\ check.lastNotificationAt # Never
     /\ interval # 0
     /\ now >= check.lastNotificationAt + interval

\* Mutants of FailuresNow: a change of severity always starts the count again,
\* it never does, and nothing is counted after the alert.
FailuresOfSeverity(check, result) ==
  IF check.lastObserved = result.status
  THEN check.consecutiveFailures + 1 ELSE 1

FailuresOfAnySeverity(check, result) ==
  IF check.lastObserved # "OK" THEN check.consecutiveFailures + 1 ELSE 1

FailuresUntilAlert(check, result) ==
  IF check.lastObserved # "OK" /\ ~check.notified
  THEN check.consecutiveFailures + 1 ELSE 1

\* Before the alert all failures count, after it those of the same severity.
FailuresNow(check, result) ==
  IF /\ check.lastObserved # "OK"
     /\ ~check.notified \/ check.lastObserved = result.status
  THEN check.consecutiveFailures + 1 ELSE 1

\* Mutant of AlertKind: an escalation does not need an alert at WARNING.
AlertKindFromAnything(check, result, confirmed, now) ==
  CASE ~check.notified /\ confirmed -> "problem"
    [] check.notified /\ result.status = "CRITICAL" /\ confirmed -> "escalation"
    [] /\ check.notified /\ check.current = result.status
       /\ ReminderDue(check, now) -> "reminder"
    [] OTHER -> "none"

AlertKind(check, result, confirmed, now) ==
  CASE ~check.notified /\ confirmed -> "problem"
    [] /\ check.notified /\ check.current = "WARNING"
       /\ result.status = "CRITICAL" /\ confirmed -> "escalation"
    [] /\ check.notified /\ check.current = result.status
       /\ ReminderDue(check, now) -> "reminder"
    [] OTHER -> "none"

OnFailure(check, result, now) ==
  LET failures == FailuresNow(check, result)
      seen == [check EXCEPT
                 !.consecutiveFailures = failures,
                 !.firstFailureAt = IF @ = Never THEN now ELSE @,
                 !.consecutiveSuccesses = 0,
                 !.lastObserved = result.status]
      confirmed == failures >= (IF result.immediate THEN 1 ELSE WarningFailures)
      kind == AlertKind(check, result, confirmed, now)
  IN Outcome(IF kind = "none" THEN seen
             ELSE [seen EXCEPT !.current = result.status,
                               !.lastNotificationAt = now,
                               !.notified = TRUE],
             kind)

\* Mutant of EvaluateCheck: every check is treated as a journal check.
EvaluateAsJournal(check, result, journal, now) ==
  LET quiet == CloseOccurrence(check)
  IN IF result.occurrence # NoOccurrence THEN OnOccurrence(check, result, now)
     ELSE IF result.status = "OK" THEN OnSuccess(quiet, now)
     ELSE OnFailure(quiet, result, now)

\* The body of Evaluate's loop: the result of one check, `journal` for the two
\* checks that read the kernel journal.
EvaluateCheck(check, result, journal, now) ==
  LET quiet == IF journal THEN CloseOccurrence(check) ELSE check
  IN IF result.occurrence # NoOccurrence THEN OnOccurrence(check, result, now)
     ELSE IF result.status = "OK" THEN OnSuccess(quiet, now)
     ELSE OnFailure(quiet, result, now)

\* The event an outcome puts in the queue.  Its fingerprint is a hash of every
\* field; a problem's also covers the start of the failure.
NewEvent(id, result, outcome) ==
  [check |-> id, kind |-> outcome.kind,
   status |-> IF outcome.kind = "recovery" THEN "OK" ELSE result.status,
   message |-> result.message, occurrence |-> result.occurrence,
   since |-> IF outcome.kind = "problem" THEN outcome.check.firstFailureAt
                                         ELSE Never]
================================================================================
