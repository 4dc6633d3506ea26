---------------------------- MODULE IncidentProofs ----------------------------
(***************************************************************************)
(* Theorems about Incident for every threshold, every set of results and   *)
(* unbounded histories (MaxNow is any number).                             *)
(***************************************************************************)
EXTENDS Incident, EngineProofs

\* Every result the check can return is a status, a flag and an occurrence.
LEMMA InputTypes ==
  ASSUME NEW result \in Inputs
  PROVE  /\ IsResult(result, Occurrences)
         /\ result.status \in Statuses
         /\ result.immediate \in BOOLEAN
         /\ result.occurrence \in Occurrences
         /\ ~Journal => result.occurrence = NoOccurrence
BY IncidentAssumption DEF Occurrences, IsResult

\* What the parameters of the engine are.
LEMMA ParameterTypes == NoOccurrence \in Occurrences /\ Journal \in BOOLEAN
BY IncidentAssumption DEF Occurrences

\* The clock only moves on.
LEMMA TimeAdvances ==
  ASSUME now \in Nat, Advance
  PROVE  now' \in Nat /\ now' > now /\ now' # Never
BY IncidentAssumption DEF Advance, Never

-----------------------------------------------------------------------------
(* Type correctness and the migration, for ordinary and journal checks *)

\* A check seen for the first time is typed.
LEMMA TypeCorrectInit == Init => TypeOK
PROOF
<1> SUFFICES ASSUME Init PROVE TypeOK
  OBVIOUS
<1>1. /\ check \in CheckStates(Nat, Occurrences)
      /\ now \in Nat
      /\ okStreak \in Nat /\ failStreak \in Nat /\ critStreak \in Nat
      /\ told \subseteq Occurrences
  BY NewCheckType, ParameterTypes DEF Init, Never
<1>2. outcome \in EventKinds \cup {"none", "dropped"}
  BY DEF Init
<1>3. urgent \in BOOLEAN /\ owed \in BOOLEAN
  BY Zenon DEF Init
<1> QED BY <1>1, <1>2, <1>3 DEF TypeOK

\* TypeOK is inductive: the counters stay natural numbers and the statuses and
\* event kinds stay within the ones the code declares.
THEOREM TypeCorrect == Spec => []TypeOK
PROOF
<1>1. Init => TypeOK
  BY TypeCorrectInit
<1>2. TypeOK /\ [Next]_vars => TypeOK'
  <2> SUFFICES ASSUME TypeOK, [Next]_vars PROVE TypeOK'
    OBVIOUS
  <2>1. ASSUME NEW result \in Inputs, Evaluate(result) PROVE TypeOK'
    <3> DEFINE step == EvaluateCheck(LoadCheck(check), result, Journal, now')
    <3>1. now' \in Nat /\ now' # Never
      BY <2>1, TimeAdvances DEF Evaluate, TypeOK
    <3>2. /\ step.check \in CheckStates(Nat, Occurrences)
          /\ step.kind \in EventKinds \cup {"none"}
      <4>1. LoadCheck(check) \in CheckStates(Nat, Occurrences)
        BY LoadCheckType DEF TypeOK
      <4> QED BY <3>1, <4>1, InputTypes, ParameterTypes, EvaluateCheckType
    <3> HIDE DEF step
    <3>3. check' = step.check /\ outcome' = step.kind
      BY <2>1 DEF Evaluate, step
    <3>4. urgent' \in BOOLEAN /\ okStreak' \in Nat /\ failStreak' \in Nat
          /\ critStreak' \in Nat
      BY <2>1, InputTypes DEF Evaluate, Observe, TypeOK
    <3>5. owed' \in BOOLEAN
      <4>1. owed' = CASE step.kind = "problem" -> TRUE
                      [] step.kind = "recovery" -> FALSE
                      [] OTHER -> owed
        BY <2>1 DEF Evaluate, step
      <4> QED BY <4>1 DEF TypeOK
    <3>6. told' \subseteq Occurrences
      BY <2>1, InputTypes DEF Evaluate, TypeOK
    <3> QED BY <3>1, <3>2, <3>3, <3>4, <3>5, <3>6 DEF TypeOK
  <2>2. ASSUME NEW result \in Inputs, Baseline(result) PROVE TypeOK'
    <3>1. now' \in Nat
      BY <2>2, TimeAdvances DEF Baseline, TypeOK
    <3>2. check' \in CheckStates(Nat, Occurrences)
      BY <2>2, <3>1, BaselineCheckType, InputTypes, ParameterTypes DEF Baseline
    <3> QED BY <2>2, <3>1, <3>2, InputTypes DEF Baseline, TypeOK
  <2>3. CASE Forget
    BY <2>3, TimeAdvances, NewCheckType, ParameterTypes DEF Forget, TypeOK
  <2>4. CASE UNCHANGED vars
    BY <2>4 DEF vars, TypeOK
  <2> QED BY <2>1, <2>2, <2>3, <2>4 DEF Next
<1> QED BY <1>1, <1>2, PTL DEF Spec

\* The migration of old state files never touches a check this version wrote,
\* for ordinary and journal checks alike.
THEOREM MigrationNeverApplies == Spec => []MigrationIsIdentity
PROOF
<1>1. Init => MigrationIsIdentity
  BY UntoldKeepsNotified DEF Init, MigrationIsIdentity
<1>2. TypeOK /\ MigrationIsIdentity /\ [Next]_vars => MigrationIsIdentity'
  <2> SUFFICES ASSUME TypeOK, MigrationIsIdentity, [Next]_vars
               PROVE  MigrationIsIdentity'
    OBVIOUS
  <2>1. ASSUME NEW result \in Inputs, Evaluate(result)
        PROVE  MigrationIsIdentity'
    <3>1. now' \in Nat /\ now' # Never
      BY <2>1, TimeAdvances DEF Evaluate, TypeOK
    <3>2. check' = EvaluateCheck(check, result, Journal, now').check
      BY <2>1 DEF Evaluate, MigrationIsIdentity
    <3> QED BY <3>1, <3>2, EvaluateKeepsNotified, InputTypes, ParameterTypes
            DEF MigrationIsIdentity, TypeOK
  <2>2. ASSUME NEW result \in Inputs, Baseline(result)
        PROVE  MigrationIsIdentity'
    BY <2>2, UntoldKeepsNotified DEF Baseline, MigrationIsIdentity
  <2>3. CASE Forget
    BY <2>3, UntoldKeepsNotified DEF Forget, MigrationIsIdentity
  <2>4. CASE UNCHANGED vars
    BY <2>4 DEF vars, MigrationIsIdentity
  <2> QED BY <2>1, <2>2, <2>3, <2>4 DEF Next
<1> QED BY <1>1, <1>2, TypeCorrect, PTL DEF Spec

-----------------------------------------------------------------------------
(* The alerts of an ordinary check *)

\* What an ordinary check's run does, with the branch of the engine it takes.
LEMMA OrdinaryRun ==
  ASSUME ~Journal, TypeOK, MigrationIsIdentity,
         NEW result \in Inputs, Evaluate(result)
  PROVE  LET step == IF result.status = "OK" THEN OnSuccess(check, now')
                     ELSE OnFailure(check, result, now')
         IN /\ check' = step.check
            /\ outcome' = step.kind
            /\ now' \in Nat /\ now' # Never
PROOF
<1>1. result.occurrence = NoOccurrence
  BY InputTypes
<1>2. LoadCheck(check) = check
  BY DEF MigrationIsIdentity
<1>3. now' \in Nat /\ now' # Never
  BY TimeAdvances DEF Evaluate, TypeOK
<1> QED BY <1>1, <1>2, <1>3 DEF Evaluate, EvaluateCheck

\* The inductive invariant: the properties hold together, and it is the agreement
\* of the code's counters with the observations that makes them inductive.
IInv ==
  /\ TypeOK
  /\ MigrationIsIdentity
  /\ CountersFollowObservations
  /\ PersistentFailureIsNotified
  /\ ConfirmedCriticalIsCurrent
  /\ RecoveredIsClosed
  /\ AlertsAreConfirmed
  /\ FailureStartIsKept
  /\ OpenAlertIsTracked

\* The invariant holds at first.
LEMMA InitIInv == Init => IInv
PROOF
<1> SUFFICES ASSUME Init PROVE IInv
  OBVIOUS
<1>1. TypeOK
  BY TypeCorrectInit
<1>2. MigrationIsIdentity
  BY DEF Init, MigrationIsIdentity, LoadCheck, NewCheck, Never
<1>3. WarningFailures \in Nat \ {0} /\ RecoverySuccesses \in Nat \ {0}
  BY EngineAssumption
<1>4. CountersFollowObservations
  BY DEF Init, CountersFollowObservations, NewCheck
<1>5. PersistentFailureIsNotified /\ ConfirmedCriticalIsCurrent /\ RecoveredIsClosed
  BY <1>3 DEF Init, PersistentFailureIsNotified, ConfirmedCriticalIsCurrent,
       RecoveredIsClosed
<1>6. AlertsAreConfirmed
  BY DEF Init, AlertsAreConfirmed
<1>7. FailureStartIsKept
  BY DEF Init, FailureStartIsKept, NewCheck, Never
<1>8. OpenAlertIsTracked
  BY Zenon DEF Init, OpenAlertIsTracked
<1> QED BY <1>1, <1>2, <1>4, <1>5, <1>6, <1>7, <1>8 DEF IInv

\* A good run of an ordinary check.
LEMMA SuccessIInv ==
  ASSUME ~Journal, IInv, NEW result \in Inputs, Evaluate(result),
         result.status = "OK"
  PROVE  /\ CountersFollowObservations'
         /\ PersistentFailureIsNotified'
         /\ ConfirmedCriticalIsCurrent'
         /\ RecoveredIsClosed'
         /\ AlertsAreConfirmed'
         /\ FailureStartIsKept'
         /\ OpenAlertIsTracked'
PROOF
<1> DEFINE successes == IF check.lastObserved = "OK"
                        THEN check.consecutiveSuccesses + 1 ELSE 1
           closes == check.current # "OK" /\ successes >= RecoverySuccesses
           recovers == closes /\ check.notified
<1>1. /\ check' = OnSuccess(check, now').check
      /\ outcome' = OnSuccess(check, now').kind
      /\ now' \in Nat
  BY OrdinaryRun DEF IInv
<1>2. /\ check'.lastObserved = "OK"
      /\ check'.consecutiveFailures = 0
      /\ check'.consecutiveSuccesses = successes
      /\ check'.firstFailureAt = Never
      /\ check'.current = (IF closes THEN "OK" ELSE check.current)
      /\ check'.notified = (check.notified /\ ~recovers)
      /\ recovers \/ check'.lastNotificationAt = check.lastNotificationAt
      /\ outcome' = IF recovers /\ NotifyRecovery THEN "recovery" ELSE "none"
  BY <1>1, OnSuccessFields DEF IInv, TypeOK
<1>3. /\ okStreak' = okStreak + 1 /\ failStreak' = 0 /\ critStreak' = 0
  BY DEF Evaluate, Observe
<1>4. successes = okStreak'
  BY <1>3 DEF IInv, TypeOK, CountersFollowObservations
<1>5. WarningFailures \in Nat \ {0} /\ RecoverySuccesses \in Nat \ {0}
  BY EngineAssumption
<1>6. check \in CheckStates(Nat, Occurrences)
      /\ check' \in CheckStates(Nat, Occurrences)
  BY <1>1, OnSuccessFields DEF IInv, TypeOK
<1> HIDE DEF successes
<1>8. CountersFollowObservations'
  BY <1>2, <1>3, <1>4, <1>6 DEF IInv, TypeOK, CountersFollowObservations, CheckStates
<1>9. PersistentFailureIsNotified' /\ ConfirmedCriticalIsCurrent'
  BY <1>3, <1>5 DEF PersistentFailureIsNotified, ConfirmedCriticalIsCurrent
<1>10. RecoveredIsClosed'
  BY <1>2, <1>4, <1>6 DEF IInv, CountersFollowObservations, RecoveredIsClosed, CheckStates
<1>11. AlertsAreConfirmed'
  BY <1>2, <1>4 DEF AlertsAreConfirmed
<1>12. FailureStartIsKept'
  BY <1>2, <1>3 DEF FailureStartIsKept
<1>13. OpenAlertIsTracked'
  <2> SUFFICES ASSUME NotifyRecovery, owed' PROVE check'.notified
    BY DEF OpenAlertIsTracked
  <2>1. outcome' # "problem"
    BY <1>2
  <2>2. outcome' # "recovery" /\ owed
    BY <2>1, <1>1 DEF Evaluate
  <2>3. check.notified
    BY <2>2 DEF IInv, OpenAlertIsTracked
  <2> QED BY <1>2, <2>2, <2>3
<1> QED BY <1>8, <1>9, <1>10, <1>11, <1>12, <1>13

\* A failing run of an ordinary check.
LEMMA FailureIInv ==
  ASSUME ~Journal, IInv, NEW result \in Inputs, Evaluate(result),
         result.status # "OK"
  PROVE  /\ CountersFollowObservations'
         /\ PersistentFailureIsNotified'
         /\ ConfirmedCriticalIsCurrent'
         /\ RecoveredIsClosed'
         /\ AlertsAreConfirmed'
         /\ FailureStartIsKept'
         /\ OpenAlertIsTracked'
PROOF
<1> DEFINE repeats == /\ check.lastObserved # "OK"
                      /\ ~check.notified \/ check.lastObserved = result.status
           failures == IF repeats THEN check.consecutiveFailures + 1 ELSE 1
           confirmed == failures >= (IF result.immediate THEN 1
                                                         ELSE WarningFailures)
           step == OnFailure(check, result, now')
<1>1. /\ check' = step.check /\ outcome' = step.kind
      /\ now' \in Nat /\ now' # Never
  BY OrdinaryRun DEF IInv
<1>2. check \in CheckStates(Nat, Occurrences)
  BY DEF IInv, TypeOK
<1>3. /\ check' \in CheckStates(Nat, Occurrences)
      /\ check'.lastObserved = result.status
      /\ check'.consecutiveFailures = failures
      /\ check'.consecutiveSuccesses = 0
      /\ check'.firstFailureAt # Never
      /\ outcome' \in {"problem", "escalation", "reminder", "none"}
      /\ outcome' = "problem" <=> ~check.notified /\ confirmed
      /\ outcome' = "escalation" <=>
           /\ check.notified /\ check.current = "WARNING"
           /\ result.status = "CRITICAL" /\ confirmed
      /\ outcome' = "reminder" => check.notified /\ check.current = result.status
      /\ outcome' = "none" =>
           /\ check'.current = check.current
           /\ check'.notified = check.notified
           /\ check'.lastNotificationAt = check.lastNotificationAt
      /\ outcome' # "none" => check'.current = result.status /\ check'.notified
  <2> HIDE DEF step
  <2>1. LET s == OnFailure(check, result, now')
        IN s.check = check' /\ s.kind = outcome'
    BY <1>1 DEF step
  <2> QED BY <1>1, <1>2, <2>1, InputTypes, OnFailureFields
<1>4. /\ okStreak' = 0 /\ failStreak' = failStreak + 1
      /\ critStreak' = IF result.status = "CRITICAL" THEN critStreak + 1 ELSE 0
      /\ urgent' = result.immediate
  BY DEF Evaluate, Observe
<1>5. /\ result.status \in {"WARNING", "CRITICAL"}
      /\ WarningFailures \in Nat \ {0} /\ RecoverySuccesses \in Nat \ {0}
      /\ failStreak \in Nat /\ critStreak \in Nat
  BY InputTypes, EngineAssumption DEF Statuses, Failing, IInv, TypeOK
<1>6. check.notified => check.current # "OK"
  BY DEF IInv, CountersFollowObservations
<1> HIDE DEF step
\* The counter of the code, once for each way it is used.
<1>7. ~check.notified => failures = failStreak'
  BY <1>2, <1>4, <1>5 DEF IInv, CountersFollowObservations, CheckStates
<1>8. check.notified /\ check.current = "WARNING" /\ result.status = "CRITICAL"
        => failures = critStreak'
  BY <1>2, <1>4, <1>5 DEF IInv, CountersFollowObservations, CheckStates, Statuses, Failing
<1>9. critStreak' <= failStreak'
  BY <1>4, <1>5 DEF IInv, CountersFollowObservations
<1> HIDE DEF failures
<1>11. CountersFollowObservations'
  <2>1. /\ check'.lastObserved = "OK" <=> failStreak' = 0
        /\ check'.lastObserved = "CRITICAL" <=> critStreak' > 0
        /\ critStreak' <= failStreak'
        /\ check'.consecutiveSuccesses = okStreak'
        /\ okStreak' > 0 => failStreak' = 0
    BY <1>3, <1>4, <1>5, <1>9
  <2>2. ~check'.notified => check'.consecutiveFailures = failStreak'
    BY <1>2, <1>3, <1>7 DEF CheckStates
  <2>3. check'.notified /\ check'.current = "WARNING" /\ critStreak' > 0 =>
          check'.consecutiveFailures = critStreak'
    <3> SUFFICES ASSUME check'.notified, check'.current = "WARNING", critStreak' > 0
                 PROVE  failures = critStreak'
      BY <1>3
    <3>1. result.status = "CRITICAL"
      BY <1>4, <1>5
    <3>2. outcome' = "none"
      BY <1>3, <3>1
    <3>3. check.notified /\ check.current = "WARNING"
      BY <1>3, <3>2
    <3> QED BY <1>8, <3>1, <3>3
  <2>4. check'.notified => check'.current # "OK"
    BY <1>3, <1>5, <1>6, <1>2 DEF CheckStates
  <2> QED BY <2>1, <2>2, <2>3, <2>4 DEF CountersFollowObservations
<1>12. PersistentFailureIsNotified'
  <2>1. CASE outcome' # "none"
    BY <1>3, <2>1 DEF PersistentFailureIsNotified
  <2>2. CASE outcome' = "none" /\ check.notified
    BY <1>3, <2>2 DEF PersistentFailureIsNotified
  <2>3. CASE outcome' = "none" /\ ~check.notified
    <3>1. ~confirmed
      BY <1>3, <2>3
    <3>2. ~(failStreak' >= WarningFailures)
      <4>1. 1 \in Nat /\ failStreak' >= 1
        BY <1>4, <1>5
      <4> QED BY <1>7, <2>3, <3>1, <4>1
    <3> QED BY <3>2 DEF PersistentFailureIsNotified
  <2> QED BY <2>1, <2>2, <2>3
<1>13. ConfirmedCriticalIsCurrent'
  <2> SUFFICES ASSUME critStreak' >= WarningFailures
               PROVE  check'.notified /\ check'.current = "CRITICAL"
    BY DEF ConfirmedCriticalIsCurrent
  <2>1. result.status = "CRITICAL"
    BY <1>4, <1>5
  <2>2. CASE outcome' # "none"
    BY <1>3, <2>1, <2>2
  <2>3. CASE outcome' = "none" /\ ~check.notified
    <3>1. failures >= WarningFailures /\ failures >= 1
      BY <1>7, <1>9, <1>5, <1>4, <2>3
    <3> QED BY <1>3, <2>3, <3>1
  <2>4. CASE outcome' = "none" /\ check.notified
    <3>1. check.current = "WARNING" =>
            failures >= WarningFailures /\ failures >= 1
      BY <1>4, <1>5, <1>8, <2>1, <2>4
    <3>2. check.current = "CRITICAL"
      BY <1>2, <1>3, <1>5, <1>6, <2>1, <2>4, <3>1 DEF CheckStates, Statuses, Failing
    <3> QED BY <1>3, <2>4, <3>2
  <2> QED BY <2>2, <2>3, <2>4
<1>14. RecoveredIsClosed'
  BY <1>4, <1>5 DEF RecoveredIsClosed
<1>15. AlertsAreConfirmed'
  <2>1. outcome' = "problem" => urgent' \/ failStreak' >= WarningFailures
    BY <1>3, <1>4, <1>7
  <2>2. outcome' = "escalation" => urgent' \/ critStreak' >= WarningFailures
    BY <1>3, <1>4, <1>8
  <2> QED BY <1>3, <2>1, <2>2 DEF AlertsAreConfirmed
<1>16. FailureStartIsKept'
  BY <1>3, <1>4, <1>5 DEF FailureStartIsKept
<1>17. OpenAlertIsTracked'
  <2> SUFFICES ASSUME NotifyRecovery, owed' PROVE check'.notified
    BY DEF OpenAlertIsTracked
  <2>1. CASE outcome' # "none"
    BY <1>3, <2>1
  <2>2. CASE outcome' = "none"
    <3>1. owed
      BY <2>2, <1>1 DEF Evaluate
    <3>2. check.notified
      BY <3>1 DEF IInv, OpenAlertIsTracked
    <3> QED BY <1>3, <2>2, <3>2
  <2> QED BY <2>1, <2>2
<1> QED BY <1>11, <1>12, <1>13, <1>14, <1>15, <1>16, <1>17

\* A baseline of an ordinary check.
LEMMA BaselineIInv ==
  ASSUME ~Journal, IInv, TypeOK', MigrationIsIdentity',
         NEW result \in Inputs, Baseline(result)
  PROVE  IInv'
PROOF
<1>1. /\ check'.current = result.status
      /\ check'.lastObserved = result.status
      /\ check'.consecutiveSuccesses = (IF result.status = "OK" THEN 1 ELSE 0)
      /\ check'.consecutiveFailures = (IF result.status = "OK" THEN 0 ELSE 1)
      /\ check'.firstFailureAt = (IF result.status = "OK" THEN Never ELSE now')
      /\ check'.notified = FALSE
  BY DEF Baseline, BaselineCheck, NewCheck
<1>2. now' # Never
  BY TimeAdvances DEF Baseline, IInv, TypeOK
<1>3. /\ okStreak' = (IF result.status = "OK" THEN 1 ELSE 0)
      /\ failStreak' = (IF result.status = "OK" THEN 0 ELSE 1)
      /\ critStreak' = (IF result.status = "CRITICAL" THEN 1 ELSE 0)
      /\ outcome' = "dropped"
      /\ owed' = FALSE
  BY DEF Baseline
<1>4. RecoverySuccesses \in Nat \ {0}
  BY EngineAssumption
<1>5. CountersFollowObservations'
  BY <1>1, <1>3 DEF CountersFollowObservations
<1>6. PersistentFailureIsNotified' /\ ConfirmedCriticalIsCurrent' /\ AlertsAreConfirmed'
  BY <1>3 DEF PersistentFailureIsNotified, ConfirmedCriticalIsCurrent, AlertsAreConfirmed
<1>7. RecoveredIsClosed'
  BY <1>1, <1>3, <1>4 DEF RecoveredIsClosed
<1>8. FailureStartIsKept'
  BY <1>1, <1>2, <1>3 DEF FailureStartIsKept
<1>9. OpenAlertIsTracked'
  BY Zenon, <1>3 DEF OpenAlertIsTracked
<1> QED BY <1>5, <1>6, <1>7, <1>8, <1>9 DEF IInv

\* A run without the check, or a reset.
LEMMA ForgetIInv ==
  ASSUME IInv, TypeOK', MigrationIsIdentity', Forget
  PROVE  IInv'
PROOF
<1>1. /\ check' = NewCheck /\ outcome' = "dropped"
      /\ okStreak' = 0 /\ failStreak' = 0 /\ critStreak' = 0
      /\ owed' = FALSE
  BY DEF Forget
<1>2. RecoverySuccesses \in Nat \ {0}
  BY EngineAssumption
<1>3. /\ CountersFollowObservations' /\ PersistentFailureIsNotified'
      /\ ConfirmedCriticalIsCurrent' /\ AlertsAreConfirmed'
      /\ RecoveredIsClosed' /\ FailureStartIsKept'
  BY <1>1, <1>2 DEF CountersFollowObservations, PersistentFailureIsNotified,
       ConfirmedCriticalIsCurrent, AlertsAreConfirmed, RecoveredIsClosed,
       FailureStartIsKept, NewCheck
<1>4. OpenAlertIsTracked'
  BY Zenon, <1>1 DEF OpenAlertIsTracked
<1> QED BY <1>3, <1>4 DEF IInv

\* It holds for every check that does not read the journal.
LEMMA OrdinaryInvariant == ~Journal => (Spec => []IInv)
PROOF
<1> SUFFICES ASSUME ~Journal PROVE Spec => []IInv
  OBVIOUS
<1>1. Init => IInv
  BY InitIInv
<1>2. IInv /\ TypeOK' /\ MigrationIsIdentity' /\ [Next]_vars => IInv'
  <2> SUFFICES ASSUME IInv, TypeOK', MigrationIsIdentity', [Next]_vars
               PROVE  IInv'
    OBVIOUS
  <2>1. ASSUME NEW result \in Inputs, Evaluate(result) PROVE IInv'
    <3>1. CASE result.status = "OK"
      BY <2>1, <3>1, SuccessIInv DEF IInv
    <3>2. CASE result.status # "OK"
      BY <2>1, <3>2, FailureIInv DEF IInv
    <3> QED BY <3>1, <3>2
  <2>2. ASSUME NEW result \in Inputs, Baseline(result) PROVE IInv'
    BY <2>2, BaselineIInv
  <2>3. CASE Forget
    BY <2>3, ForgetIInv
  <2>4. CASE UNCHANGED vars
    BY <2>4 DEF vars, IInv, TypeOK, MigrationIsIdentity, CountersFollowObservations,
         PersistentFailureIsNotified, ConfirmedCriticalIsCurrent, RecoveredIsClosed,
         AlertsAreConfirmed, FailureStartIsKept, OpenAlertIsTracked
  <2> QED BY <2>1, <2>2, <2>3, <2>4 DEF Next
<1> QED BY <1>1, <1>2, TypeCorrect, MigrationNeverApplies, PTL DEF Spec

\* The counters of engine.go lines 82-115 are the observations they stand for.
THEOREM CountersAreRight == ~Journal => (Spec => []CountersFollowObservations)
<1>1. IInv => CountersFollowObservations
  BY DEF IInv
<1> QED BY <1>1, OrdinaryInvariant, PTL

\* A failure that lasts warning_failures runs is announced.
THEOREM NothingIsMissed == ~Journal => (Spec => []PersistentFailureIsNotified)
<1>1. IInv => PersistentFailureIsNotified
  BY DEF IInv
<1> QED BY <1>1, OrdinaryInvariant, PTL

\* No WARNING alert masks a check that stays CRITICAL.
THEOREM CriticalIsNotMasked == ~Journal => (Spec => []ConfirmedCriticalIsCurrent)
<1>1. IInv => ConfirmedCriticalIsCurrent
  BY DEF IInv
<1> QED BY <1>1, OrdinaryInvariant, PTL

\* A check that is good for recovery_successes runs is closed.
THEOREM RecoveryCloses == ~Journal => (Spec => []RecoveredIsClosed)
<1>1. IInv => RecoveredIsClosed
  BY DEF IInv
<1> QED BY <1>1, OrdinaryInvariant, PTL

\* No alert is sent before warning_failures or recovery_successes confirm it.
THEOREM NothingIsPremature == ~Journal => (Spec => []AlertsAreConfirmed)
<1>1. IInv => AlertsAreConfirmed
  BY DEF IInv
<1> QED BY <1>1, OrdinaryInvariant, PTL

\* What identifies an incident, the start of its failure, lasts as long as it.
THEOREM IncidentsAreIdentified == ~Journal => (Spec => []FailureStartIsKept)
<1>1. IInv => FailureStartIsKept
  BY DEF IInv
<1> QED BY <1>1, OrdinaryInvariant, PTL

\* The agent never forgets an alert whose recovery it has yet to announce.
THEOREM AlertsAreTracked == ~Journal => (Spec => []OpenAlertIsTracked)
<1>1. IInv => OpenAlertIsTracked
  BY DEF IInv
<1> QED BY <1>1, OrdinaryInvariant, PTL

-----------------------------------------------------------------------------
(* Kernel events *)

\* No evaluation takes a fingerprint for reported that was not.
LEMMA EvaluateKeepsFingerprint ==
  ASSUME TypeOK, NEW result \in Inputs, Evaluate(result)
  PROVE  \/ check'.fingerprint = check.fingerprint
         \/ check'.fingerprint = result.occurrence /\ outcome' = "occurrence"
PROOF
<1> DEFINE loaded == LoadCheck(check)
           quiet == IF Journal THEN CloseOccurrence(loaded) ELSE loaded
<1>1. /\ loaded \in CheckStates(Nat, Occurrences)
      /\ loaded.fingerprint = check.fingerprint
  BY LoadCheckType DEF TypeOK, LoadCheck, CheckStates
<1>2. /\ quiet \in CheckStates(Nat, Occurrences)
      /\ quiet.fingerprint = check.fingerprint
  BY <1>1, CloseOccurrenceType DEF CloseOccurrence, CheckStates
<1>3. now' \in Nat /\ now' # Never
  BY TimeAdvances DEF Evaluate, TypeOK
<1> HIDE DEF loaded, quiet
<1>4. CASE result.occurrence # NoOccurrence
  <2>1. /\ check' = OnOccurrence(loaded, result, now').check
        /\ outcome' = OnOccurrence(loaded, result, now').kind
    BY <1>4 DEF Evaluate, EvaluateCheck, loaded
  <2> QED BY <1>1, <2>1 DEF OnOccurrence, Outcome, IsNewOccurrence, CheckStates
<1>5. CASE result.occurrence = NoOccurrence /\ result.status = "OK"
  <2>1. check' = OnSuccess(quiet, now').check
    BY <1>5 DEF Evaluate, EvaluateCheck, loaded, quiet
  <2> QED BY <1>2, <1>3, <2>1, OnSuccessFields
<1>6. CASE result.occurrence = NoOccurrence /\ result.status # "OK"
  <2>1. check' = OnFailure(quiet, result, now').check
    BY <1>6 DEF Evaluate, EvaluateCheck, loaded, quiet
  <2> QED BY <1>2, <2>1 DEF OnFailure, Outcome, CheckStates
<1> QED BY <1>4, <1>5, <1>6

\* Every new kernel event is announced or accepted by a baseline, whatever
\* results, baselines and resets come in between.
THEOREM EveryOccurrenceIsTold == Spec => []NoOccurrenceUntold
PROOF
<1>1. Init => NoOccurrenceUntold
  BY DEF Init, NewCheck, NoOccurrenceUntold
<1>2. TypeOK /\ NoOccurrenceUntold /\ [Next]_vars => NoOccurrenceUntold'
  <2> SUFFICES ASSUME TypeOK, NoOccurrenceUntold, [Next]_vars
               PROVE  NoOccurrenceUntold'
    OBVIOUS
  <2>1. ASSUME NEW result \in Inputs, Evaluate(result) PROVE NoOccurrenceUntold'
    <3>1. /\ told \subseteq told'
          /\ outcome' = "occurrence" => result.occurrence \in told'
      BY <2>1 DEF Evaluate
    <3> QED BY <2>1, <3>1, EvaluateKeepsFingerprint DEF NoOccurrenceUntold
  <2>2. ASSUME NEW result \in Inputs, Baseline(result) PROVE NoOccurrenceUntold'
    BY <2>2 DEF Baseline, BaselineCheck, NewCheck, NoOccurrenceUntold
  <2>3. CASE Forget
    BY <2>3 DEF Forget, NewCheck, NoOccurrenceUntold
  <2>4. CASE UNCHANGED vars
    BY <2>4 DEF vars, NoOccurrenceUntold
  <2> QED BY <2>1, <2>2, <2>3, <2>4 DEF Next
<1> QED BY <1>1, <1>2, TypeCorrect, PTL DEF Spec

\* A kernel event is over in the next run: a journal check stays CRITICAL only
\* while new events come in.
THEOREM OccurrencesEnd == Journal => (Spec => []OccurrencePasses)
PROOF
<1> SUFFICES ASSUME Journal PROVE Spec => []OccurrencePasses
  OBVIOUS
<1>1. Init => OccurrencePasses
  BY DEF Init, NewCheck, OccurrencePasses
<1>2. TypeOK /\ OccurrencePasses /\ [Next]_vars => OccurrencePasses'
  <2> SUFFICES ASSUME TypeOK, OccurrencePasses, [Next]_vars
               PROVE  OccurrencePasses'
    OBVIOUS
  <2>1. ASSUME NEW result \in Inputs, Evaluate(result) PROVE OccurrencePasses'
    <3> DEFINE quiet == CloseOccurrence(LoadCheck(check))
    <3>1. CASE result.occurrence # NoOccurrence
      BY <2>1, <3>1, IncidentAssumption DEF Evaluate, Observe, TypeOK, OccurrencePasses
    <3>2. CASE result.occurrence = NoOccurrence
      <4>1. result.status # "CRITICAL"
        BY <3>2, IncidentAssumption
      <4>2. quiet \in CheckStates(Nat, Occurrences) /\ quiet.current # "CRITICAL"
        <5>1. LoadCheck(check) \in CheckStates(Nat, Occurrences)
          BY LoadCheckType DEF TypeOK
        <5>2. quiet \in CheckStates(Nat, Occurrences)
          BY <5>1, CloseOccurrenceType
        <5> QED BY <5>1, <5>2 DEF CloseOccurrence, CheckStates
      <4>3. now' \in Nat /\ now' # Never
        BY <2>1, TimeAdvances DEF Evaluate, TypeOK
      <4> HIDE DEF quiet
      <4>4. CASE result.status = "OK"
        <5>1. check' = OnSuccess(quiet, now').check
          BY <2>1, <3>2, <4>4 DEF Evaluate, EvaluateCheck, quiet
        <5> QED BY <4>2, <4>3, <5>1, OnSuccessFields DEF OccurrencePasses
      <4>5. CASE result.status # "OK"
        <5>1. check' = OnFailure(quiet, result, now').check
          BY <2>1, <3>2, <4>5 DEF Evaluate, EvaluateCheck, quiet
        <5>2. check'.current \in {quiet.current, result.status}
          BY <4>2, <5>1 DEF OnFailure, Outcome, CheckStates
        <5> QED BY <4>1, <4>2, <5>2 DEF OccurrencePasses
      <4> QED BY <4>4, <4>5
    <3> QED BY <3>1, <3>2
  <2>2. ASSUME NEW result \in Inputs, Baseline(result) PROVE OccurrencePasses'
    BY <2>2 DEF Baseline, BaselineCheck, NewCheck, OccurrencePasses
  <2>3. CASE Forget
    BY <2>3 DEF Forget, NewCheck, OccurrencePasses
  <2>4. CASE UNCHANGED vars
    BY <2>4 DEF vars, OccurrencePasses
  <2> QED BY <2>1, <2>2, <2>3, <2>4 DEF Next
<1> QED BY <1>1, <1>2, TypeCorrect, PTL DEF Spec

-----------------------------------------------------------------------------
(* The refinement of Lifecycle *)

\* No incident is open at first.
LEMMA LifecycleInit == Init => Promise!Init
BY DEF Init, Promise!Init, NewCheck

\* Every step of a check is a step of the lifecycle or changes nothing of it.
LEMMA LifecycleStep ==
  ASSUME ~Journal, IInv, IInv', [Next]_vars
  PROVE  [Promise!Next]_Promise!vars
PROOF
<1>1. ASSUME NEW result \in Inputs, Evaluate(result), result.status = "OK"
      PROVE  Promise!Quiet \/ Promise!Close
  <2> DEFINE successes == IF check.lastObserved = "OK"
                          THEN check.consecutiveSuccesses + 1 ELSE 1
             closes == check.current # "OK" /\ successes >= RecoverySuccesses
             recovers == closes /\ check.notified
  <2>1. /\ check'.current = (IF closes THEN "OK" ELSE check.current)
        /\ check'.notified = (check.notified /\ ~recovers)
        /\ outcome' = IF recovers /\ NotifyRecovery THEN "recovery" ELSE "none"
    BY <1>1, OrdinaryRun, OnSuccessFields DEF IInv, TypeOK
  <2>2. check.current # "none"
    BY DEF IInv, TypeOK, CheckStates, Statuses, Failing
  <2> HIDE DEF closes
  <2>3. check.notified \in BOOLEAN
    BY DEF IInv, TypeOK, CheckStates
  <2>4. CASE recovers
    <3>1. check.notified /\ ~check'.notified
      BY <2>1, <2>4
    <3>2. outcome' = IF NotifyRecovery THEN "recovery" ELSE "none"
      BY <2>1, <2>4
    <3> QED BY <2>2, <3>1, <3>2 DEF Promise!Close
  <2>5. CASE ~recovers
    <3>1. check'.notified = check.notified /\ outcome' = "none"
      BY <2>1, <2>3, <2>5
    <3>2. check.notified => check'.current = check.current
      BY <2>1, <2>5
    <3> QED BY <3>1, <3>2 DEF Promise!Quiet
  <2> QED BY <2>4, <2>5
<1>2. ASSUME NEW result \in Inputs, Evaluate(result), result.status # "OK"
      PROVE  Promise!Next
  <2>1. /\ outcome' \in {"problem", "escalation", "reminder", "none"}
        /\ outcome' = "problem" => ~check.notified
        /\ outcome' = "escalation" =>
             /\ check.notified /\ check.current = "WARNING"
             /\ result.status = "CRITICAL"
        /\ outcome' = "reminder" => check.notified /\ check.current = result.status
        /\ outcome' = "none" =>
             /\ check'.current = check.current
             /\ check'.notified = check.notified
        /\ outcome' # "none" => check'.current = result.status /\ check'.notified
    <3>1. /\ check' = OnFailure(check, result, now').check
          /\ outcome' = OnFailure(check, result, now').kind
          /\ now' \in Nat /\ now' # Never
      BY <1>2, OrdinaryRun DEF IInv
    <3> QED BY <1>2, <3>1, InputTypes, OnFailureFields DEF IInv, TypeOK
  <2>2. result.status \in Promise!Severities
    BY <1>2, InputTypes DEF Promise!Severities, Statuses, Failing
  <2>3. CASE outcome' = "problem"
    BY <2>1, <2>2, <2>3 DEF Promise!Next, Promise!Open
  <2>4. CASE outcome' = "escalation"
    BY <2>1, <2>4 DEF Promise!Next, Promise!Escalate
  <2>5. CASE outcome' = "reminder"
    BY <1>2, <2>1, <2>5, InputTypes
       DEF Promise!Next, Promise!Remind, Statuses, Failing
  <2>6. CASE outcome' = "none"
    BY <2>1, <2>6 DEF Promise!Next, Promise!Quiet
  <2> QED BY <2>1, <2>3, <2>4, <2>5, <2>6
<1>3. ASSUME NEW result \in Inputs, Baseline(result) PROVE Promise!Drop
  BY <1>3 DEF Baseline, BaselineCheck, NewCheck, Promise!Drop
<1>4. CASE Forget
  BY <1>4 DEF Forget, NewCheck, Promise!Next, Promise!Drop
<1>5. CASE UNCHANGED vars
  BY <1>5 DEF vars, Promise!vars
<1> QED BY <1>1, <1>2, <1>3, <1>4, <1>5 DEF Next, Promise!Next

\* An ordinary check keeps the promise of README.md line 83: one problem, at
\* most one escalation and one recovery for each incident.
THEOREM IncidentImplementsLifecycle == ~Journal => (Spec => LifecycleSpec)
PROOF
<1> SUFFICES ASSUME ~Journal PROVE Spec => LifecycleSpec
  OBVIOUS
<1>1. IInv /\ IInv' /\ [Next]_vars => [Promise!Next]_Promise!vars
  BY LifecycleStep
<1>2. Spec => []IInv
  BY OrdinaryInvariant
<1> QED BY <1>1, <1>2, LifecycleInit, PTL DEF Spec, LifecycleSpec, Promise!Spec
================================================================================
