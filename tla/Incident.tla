-------------------------------- MODULE Incident --------------------------------
(***************************************************************************)
(* One check over a sequence of runs of the agent: engine.Evaluate and     *)
(* engine.Baseline as seen by that check, under every sequence of results  *)
(* the check can return.  Each run loads the stored state (state.Load),    *)
(* updates it and stores it; nothing fails here, Agent adds the failures.  *)
(*                                                                         *)
(* The ghosts count what was observed, independently of the code's own     *)
(* counters, so that the properties can compare the two.                   *)
(***************************************************************************)
EXTENDS Engine

CONSTANTS
  Journal,    \* is this memory.oom or kernel.errors?
  Inputs,     \* the results the check can return
  Gaps,       \* the possible distances in ticks between two runs
  MaxNow      \* bound on time, for model checking

Occurrences == {result.occurrence : result \in Inputs} \cup {NoOccurrence}

ASSUME IncidentAssumption ==
  /\ Journal \in BOOLEAN
  /\ Gaps \subseteq Nat \ {0}
  /\ MaxNow \in Nat
  /\ \A result \in Inputs :
       /\ result.status \in Statuses
       /\ result.immediate \in BOOLEAN
       \* journalProblem is the only source of occurrences, and its results
       \* are the only CRITICAL ones of a journal check.
       /\ result.occurrence # NoOccurrence => Journal /\ result.status = "CRITICAL"
       /\ Journal /\ result.status = "CRITICAL" => result.occurrence # NoOccurrence

VARIABLES
  check,       \* the stored CheckState, NewCheck when there is none
  now,         \* the time of the last run
  outcome,     \* the event kind of the last run, "none" or "dropped"
  urgent,      \* ghost: the last result was immediate
  okStreak,    \* ghost: OK results since the last other one
  failStreak,  \* ghost: failing results since the last OK
  critStreak,  \* ghost: CRITICAL results since the last other one
  owed,        \* ghost: a problem was announced and its end was not
  told         \* ghost: the occurrences announced, or accepted by a baseline

vars == <<check, now, outcome, urgent, okStreak, failStreak, critStreak, owed, told>>

Init ==
  /\ check = NewCheck
  /\ now = Never
  /\ outcome = "none"
  /\ urgent = FALSE
  /\ okStreak = 0 /\ failStreak = 0 /\ critStreak = 0
  /\ owed = FALSE
  /\ told = {}

-----------------------------------------------------------------------------
(* Steps *)

Advance == \E gap \in Gaps : now' = now + gap /\ now' <= MaxNow

Observe(result) ==
  /\ urgent' = result.immediate
  /\ okStreak' = IF result.status = "OK" THEN okStreak + 1 ELSE 0
  /\ failStreak' = IF result.status = "OK" THEN 0 ELSE failStreak + 1
  /\ critStreak' = IF result.status = "CRITICAL" THEN critStreak + 1 ELSE 0

\* A run of the check on its timer.
Evaluate(result) ==
  LET step == EvaluateCheck(LoadCheck(check), result, Journal, now')
  IN /\ Advance
     /\ Observe(result)
     /\ check' = step.check
     /\ outcome' = step.kind
     /\ owed' = CASE step.kind = "problem" -> TRUE
                  [] step.kind = "recovery" -> FALSE
                  [] OTHER -> owed
     /\ told' = IF step.kind = "occurrence" THEN told \cup {result.occurrence}
                                            ELSE told

\* check --baseline.
Baseline(result) ==
  /\ Advance
  /\ urgent' = result.immediate
  /\ okStreak' = IF result.status = "OK" THEN 1 ELSE 0
  /\ failStreak' = IF result.status = "OK" THEN 0 ELSE 1
  /\ critStreak' = IF result.status = "CRITICAL" THEN 1 ELSE 0
  /\ check' = BaselineCheck(result, now')
  /\ outcome' = "dropped"
  /\ owed' = FALSE
  /\ told' = IF result.occurrence = NoOccurrence THEN told
                                                 ELSE told \cup {result.occurrence}

\* A run that returns no result for the check, which was disabled: Evaluate
\* deletes its state.  reset-state has the same effect on it.
Forget ==
  /\ Advance
  /\ check' = NewCheck
  /\ outcome' = "dropped"
  /\ urgent' = FALSE
  /\ okStreak' = 0 /\ failStreak' = 0 /\ critStreak' = 0
  /\ owed' = FALSE
  /\ UNCHANGED told

Next ==
  \/ \E result \in Inputs : Evaluate(result)
  \/ \E result \in Inputs : Baseline(result)
  \/ Forget

Spec == Init /\ [][Next]_vars

-----------------------------------------------------------------------------
(* Properties *)

\* The stored check and the ghosts have their types.
TypeOK ==
  /\ check \in CheckStates(Nat, Occurrences)
  /\ now \in Nat
  /\ outcome \in EventKinds \cup {"none", "dropped"}
  /\ urgent \in BOOLEAN
  /\ okStreak \in Nat /\ failStreak \in Nat /\ critStreak \in Nat
  /\ owed \in BOOLEAN
  /\ told \subseteq Occurrences

\* state.Load's migration of old files never changes a check this version
\* stored: whatever was notified once and is failing now is still notified.
MigrationIsIdentity == LoadCheck(check) = check

\* A failure that lasts warning_failures runs has been announced, whatever mix
\* of severities, flaps, baselines and disabled runs came before it.  (The
\* baseline run itself only counts: it never announces.)
PersistentFailureIsNotified ==
  failStreak >= WarningFailures /\ outcome # "dropped" => check.notified

\* A check that was CRITICAL for warning_failures runs in a row is announced as
\* CRITICAL: no earlier WARNING alert masks it.
ConfirmedCriticalIsCurrent ==
  critStreak >= WarningFailures /\ outcome # "dropped" =>
    check.notified /\ check.current = "CRITICAL"

\* After recovery_successes good runs the incident is closed.
RecoveredIsClosed ==
  okStreak >= RecoverySuccesses => check.current = "OK" /\ ~check.notified

\* No alert before its confirmation, unless the result is immediate: a problem,
\* CRITICAL or not, needs warning_failures failing runs in a row whatever their
\* severities, an escalation as many CRITICAL ones, and a recovery
\* recovery_successes good runs.
AlertsAreConfirmed ==
  /\ outcome = "problem" => urgent \/ failStreak >= WarningFailures
  /\ outcome = "escalation" => urgent \/ critStreak >= WarningFailures
  /\ outcome = "recovery" => okStreak >= RecoverySuccesses

\* The start of a failure, which tells apart the problem alerts of two incidents
\* with the same message, is kept as long as the failure lasts and not longer.
FailureStartIsKept ==
  check.firstFailureAt # Never <=> failStreak > 0

\* The code's counters are the observations they stand for, wherever the code
\* decides by them: failures until the incident is announced, then the failures
\* of the severity that may escalate it, and successes until it is closed.
CountersFollowObservations ==
  /\ check.lastObserved = "OK" <=> failStreak = 0
  /\ check.lastObserved = "CRITICAL" <=> critStreak > 0
  /\ critStreak <= failStreak
  /\ check.consecutiveSuccesses = okStreak
  /\ okStreak > 0 => failStreak = 0
  /\ ~check.notified => check.consecutiveFailures = failStreak
  /\ check.notified /\ check.current = "WARNING" /\ critStreak > 0 =>
       check.consecutiveFailures = critStreak
  /\ check.notified => check.current # "OK"

\* README.md line 83: an announced problem ends with a recovery alert, so the
\* agent still knows about it as long as the recovery was not sent.
OpenAlertIsTracked == NotifyRecovery /\ owed => check.notified

\* Every new kernel event is announced, or accepted by a baseline.
NoOccurrenceUntold ==
  check.fingerprint = NoOccurrence \/ check.fingerprint \in told

\* A kernel event does not linger: a journal check is CRITICAL only in the run
\* that saw the event.
OccurrencePasses == check.current = "CRITICAL" => critStreak > 0

\* A reminder or an escalation is never the first word about an incident, and a
\* problem never the second: the promise of Lifecycle, for an ordinary check.
Promise == INSTANCE Lifecycle WITH
  open <- IF check.notified THEN check.current ELSE "none",
  said <- outcome

LifecycleSpec == Promise!Spec
================================================================================
