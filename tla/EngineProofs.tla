----------------------------- MODULE EngineProofs -----------------------------
(***************************************************************************)
(* Theorems about the pure operators of CheckResults and Engine: what the  *)
(* checks decide, for every reading and threshold, and what the engine     *)
(* makes of one result, for every threshold and stored check.              *)
(***************************************************************************)
EXTENDS Engine, TLAPS

-----------------------------------------------------------------------------
(* The checks' decisions *)

\* The status of several findings is one of them, and none is worse.
LEMMA HighestIsWorst ==
  ASSUME NEW statuses \in SUBSET Statuses
  PROVE  /\ Highest(statuses) \in Statuses
         /\ \A status \in statuses : Severity(status) <= Severity(Highest(statuses))
PROOF
  BY DEF Highest, Severity, Statuses, Failing

\* thresholdHigh and its opposite (checks.go from line 872): a higher reading of a
\* quantity that is bad when it is high never gives a milder status, nor does a lower
\* reading of one that is bad when it is low, with any thresholds config.Validate
\* lets through.
THEOREM WorseReadingsAreNotMilder ==
  ASSUME NEW limit, NEW largest \in Nat, NEW low \in Nat, NEW high \in Nat, low <= high
  PROVE  /\ ValidHigh(limit, largest) =>
              Severity(ThresholdHigh(low, limit)) <= Severity(ThresholdHigh(high, limit))
         /\ ValidLow(limit, largest) =>
              Severity(ThresholdLow(high, limit)) <= Severity(ThresholdLow(low, limit))
PROOF
<1>1. ASSUME ValidHigh(limit, largest)
      PROVE  Severity(ThresholdHigh(low, limit)) <= Severity(ThresholdHigh(high, limit))
  BY <1>1 DEF ValidHigh, ThresholdHigh, Severity
<1>2. ASSUME ValidLow(limit, largest)
      PROVE  Severity(ThresholdLow(high, limit)) <= Severity(ThresholdLow(low, limit))
  BY <1>2 DEF ValidLow, ThresholdLow, Severity
<1> QED BY <1>1, <1>2

\* checkDisk and checkInode: a filesystem that is full, or cannot be looked at, is
\* reported however many others are well, and a full one is CRITICAL at once.
THEOREM NoFilesystemIsHidden ==
  ASSUME NEW usages, NEW usage \in usages, NEW limit
  PROVE  LET result == UsageResult(usages, limit)
             status == UsageStatus(usage, limit)
         IN /\ Severity(status) <= Severity(result.status)
            /\ status = "CRITICAL" => result.immediate
PROOF
<1> DEFINE statuses == {UsageStatus(u, limit) : u \in usages}
<1>1. statuses \in SUBSET Statuses /\ UsageStatus(usage, limit) \in statuses
  BY DEF UsageStatus, ThresholdHigh, Statuses, Failing
<1> HIDE DEF statuses
<1>2. /\ Highest(statuses) \in Statuses
      /\ Severity(UsageStatus(usage, limit)) <= Severity(Highest(statuses))
      /\ UsageStatus(usage, limit) = "CRITICAL" => Highest(statuses) = "CRITICAL"
  BY <1>1, HighestIsWorst DEF Highest
<1>3. UsageResult(usages, limit) = Found(Highest(statuses), Highest(statuses) = "CRITICAL")
  BY DEF UsageResult, statuses
<1>4. UsageResult(usages, limit).status = Highest(statuses)
  BY <1>3 DEF Found, Ok, Problem, Result
<1>5. ASSUME Highest(statuses) = "CRITICAL"
      PROVE  UsageResult(usages, limit).immediate = TRUE
  <2>1. Found("CRITICAL", TRUE).immediate = TRUE
    BY DEF Found, Problem, Result
  <2>2. (Highest(statuses) = "CRITICAL") = TRUE
    BY <1>5, Zenon
  <2>3. UsageResult(usages, limit) = Found("CRITICAL", TRUE)
    BY <1>3, <1>5, <2>2, Zenon
  <2> QED BY <2>1, <2>3
<1> QED BY <1>2, <1>4, <1>5

\* The results the engine is proved for: what a check that reads no journal decides
\* says nothing of kernel events.
THEOREM DecisionsAreOrdinary ==
  ASSUME NEW reading, NEW readings, NEW limit, NEW command, NEW commands, NEW maxAge,
         NEW age, NEW interval
  PROVE  {UsageResult(readings, limit), ReadOnlyResult(reading),
          MemoryResult(reading, limit), SwapResult(reading, limit),
          LoadResult(reading, limit), FailedUnitsResult(command), APTResult(command),
          DPKGResult(command), APTTimersResult(commands),
          UpgradesResult(reading, maxAge), RebootResult(reading),
          NeedrestartResult(command), TimeSyncResult(command),
          AgentTimerResult(command), ServiceResult(command), ClustersResult(command),
          FreshnessResult(age, interval)} \subseteq Results({"m"}, {NoOccurrence})
PROOF
<1>1. \A status \in Failing, immediate \in BOOLEAN :
        Problem(status, immediate) \in Results({"m"}, {NoOccurrence})
  BY DEF Problem, Result, Results, Statuses
<1>2. {Ok, Unknown} \subseteq Results({"m"}, {NoOccurrence})
  BY DEF Ok, Unknown, Problem, Result, Results, Statuses, Failing
<1>3. \A status \in Statuses, immediate \in BOOLEAN :
        Found(status, immediate) \in Results({"m"}, {NoOccurrence})
  BY <1>1, <1>2 DEF Found, Statuses
<1>4. \A value : {ThresholdHigh(value, limit), ThresholdLow(value, limit)} \subseteq Statuses
  BY DEF ThresholdHigh, ThresholdLow, Statuses, Failing
<1>5. \A statuses : Highest(statuses) \in Statuses
  BY DEF Highest, Statuses, Failing
<1> DEFINE ordinary == Results({"m"}, {NoOccurrence})
<1> HIDE DEF ordinary
<1>6. /\ \A status \in Failing, immediate \in BOOLEAN : Problem(status, immediate) \in ordinary
      /\ {Ok, Unknown} \subseteq ordinary
      /\ \A status \in Statuses, immediate \in BOOLEAN : Found(status, immediate) \in ordinary
  BY <1>1, <1>2, <1>3 DEF ordinary
<1>found. \A status \in Statuses : Found(status, status = "CRITICAL") \in ordinary
  <2>1. \A status : (status = "CRITICAL") \in BOOLEAN
    BY Zenon
  <2> QED BY <1>6, <2>1, Zenon
<1>7. {UsageResult(readings, limit), UpgradesResult(reading, maxAge)} \subseteq ordinary
  <2>1. UsageResult(readings, limit) \in ordinary
    BY <1>5, <1>6, <1>found, Zenon DEF UsageResult
  <2>2. UpgradesResult(reading, maxAge) \in ordinary
    BY <1>5, <1>6, <1>found, Zenon DEF UpgradesResult
  <2> QED BY <2>1, <2>2
<1>8. {MemoryResult(reading, limit), SwapResult(reading, limit), LoadResult(reading, limit)}
        \subseteq ordinary
  BY <1>4, <1>6 DEF MemoryResult, SwapResult, LoadResult
<1>9. {ReadOnlyResult(reading), APTResult(command), ServiceResult(command),
       ClustersResult(command), FreshnessResult(age, interval)} \subseteq ordinary
  BY <1>6 DEF ReadOnlyResult, APTResult, ServiceResult, ClustersResult, FreshnessResult, Failing
<1>10. {FailedUnitsResult(command), DPKGResult(command), APTTimersResult(commands),
       RebootResult(reading), NeedrestartResult(command), TimeSyncResult(command),
       AgentTimerResult(command)} \subseteq ordinary
  BY <1>6 DEF FailedUnitsResult, DPKGResult, APTTimersResult, RebootResult,
              NeedrestartResult, TimeSyncResult, AgentTimerResult
<1> QED BY <1>7, <1>8, <1>9, <1>10 DEF ordinary

-----------------------------------------------------------------------------
(* The engine *)

\* Every result of a check is a status, a flag and an occurrence.
IsResult(result, Occs) ==
  result.status \in Statuses /\ result.immediate \in BOOLEAN /\ result.occurrence \in Occs

\* state.Load keeps a check's type.
LEMMA LoadCheckType ==
  ASSUME NEW Occs, NEW c \in CheckStates(Nat, Occs)
  PROVE  LoadCheck(c) \in CheckStates(Nat, Occs)
BY DEF LoadCheck, CheckStates

\* Closing an occurrence does.
LEMMA CloseOccurrenceType ==
  ASSUME NEW Occs, NEW c \in CheckStates(Nat, Occs)
  PROVE  CloseOccurrence(c) \in CheckStates(Nat, Occs)
BY DEF CloseOccurrence, CheckStates, Statuses, Failing

\* A new occurrence does.
LEMMA OnOccurrenceType ==
  ASSUME NEW Occs, NEW c \in CheckStates(Nat, Occs), NEW result, IsResult(result, Occs),
         NEW t \in Nat
  PROVE  LET step == OnOccurrence(c, result, t)
         IN /\ step.check \in CheckStates(Nat, Occs)
            /\ step.kind \in {"occurrence", "none"}
BY DEF IsResult, OnOccurrence, Outcome, CheckStates

\* The fields OnSuccess leaves behind.
LEMMA OnSuccessFields ==
  ASSUME NEW Occs, NEW c \in CheckStates(Nat, Occs), NEW t \in Nat
  PROVE  LET step == OnSuccess(c, t)
             successes == IF c.lastObserved = "OK"
                          THEN c.consecutiveSuccesses + 1 ELSE 1
             closes == c.current # "OK" /\ successes >= RecoverySuccesses
             recovers == closes /\ c.notified
         IN /\ step.check \in CheckStates(Nat, Occs)
            /\ step.check.lastObserved = "OK"
            /\ step.check.consecutiveFailures = 0
            /\ step.check.consecutiveSuccesses = successes
            /\ step.check.firstFailureAt = Never
            /\ step.check.current = (IF closes THEN "OK" ELSE c.current)
            /\ step.check.notified = (c.notified /\ ~recovers)
            /\ step.check.fingerprint = c.fingerprint
            /\ recovers \/ step.check.lastNotificationAt = c.lastNotificationAt
            /\ step.check.lastRecoveryAt = (IF recovers THEN t ELSE c.lastRecoveryAt)
            /\ step.kind = IF recovers /\ NotifyRecovery THEN "recovery" ELSE "none"
PROOF
<1> DEFINE successes == IF c.lastObserved = "OK"
                        THEN c.consecutiveSuccesses + 1 ELSE 1
           seen == [c EXCEPT !.consecutiveSuccesses = successes,
                             !.consecutiveFailures = 0,
                             !.firstFailureAt = Never,
                             !.lastObserved = "OK"]
           closes == c.current # "OK" /\ successes >= RecoverySuccesses
           recovers == closes /\ c.notified
           final == [seen EXCEPT
                !.current = IF closes THEN "OK" ELSE @,
                !.notified = @ /\ ~recovers,
                !.lastRecoveryAt = IF recovers THEN t ELSE @,
                !.lastNotificationAt =
                   IF recovers /\ NotifyRecovery THEN t ELSE @]
           kind == IF recovers /\ NotifyRecovery THEN "recovery" ELSE "none"
<1>1. OnSuccess(c, t) = [check |-> final, kind |-> kind]
  BY DEF OnSuccess, SuccessesNow, Outcome
<1>2. successes \in Nat /\ "OK" \in Statuses /\ Never \in Nat
  BY DEF CheckStates, Statuses, Never
<1> HIDE DEF successes, final, kind, recovers
<1>3. /\ seen \in CheckStates(Nat, Occs)
      /\ seen.lastObserved = "OK"
      /\ seen.consecutiveFailures = 0
      /\ seen.consecutiveSuccesses = successes
      /\ seen.firstFailureAt = Never
      /\ seen.current = c.current
      /\ seen.notified = c.notified
      /\ seen.fingerprint = c.fingerprint
      /\ seen.lastNotificationAt = c.lastNotificationAt
      /\ seen.lastRecoveryAt = c.lastRecoveryAt
  BY <1>2 DEF CheckStates
<1>4. recovers \in BOOLEAN
  BY DEF CheckStates, recovers
<1> HIDE DEF seen, closes
<1>5. /\ final \in CheckStates(Nat, Occs)
      /\ final.lastObserved = seen.lastObserved
      /\ final.consecutiveFailures = seen.consecutiveFailures
      /\ final.consecutiveSuccesses = seen.consecutiveSuccesses
      /\ final.firstFailureAt = seen.firstFailureAt
      /\ final.fingerprint = seen.fingerprint
      /\ final.current = (IF closes THEN "OK" ELSE seen.current)
      /\ final.notified = (seen.notified /\ ~recovers)
      /\ recovers \/ final.lastNotificationAt = seen.lastNotificationAt
      /\ final.lastRecoveryAt = (IF recovers THEN t ELSE seen.lastRecoveryAt)
  BY <1>2, <1>3, <1>4 DEF CheckStates, final
<1>6. LET step == OnSuccess(c, t)
      IN step.check = final /\ step.kind = kind
  BY <1>1
<1> QED BY <1>3, <1>5, <1>6 DEF successes, closes, recovers, kind

\* The fields OnFailure leaves behind.
LEMMA OnFailureFields ==
  ASSUME NEW Occs, NEW c \in CheckStates(Nat, Occs), NEW result, IsResult(result, Occs),
         NEW t \in Nat, t # Never, result.status # "OK"
  PROVE  LET step == OnFailure(c, result, t)
             repeats == /\ c.lastObserved # "OK"
                        /\ ~c.notified \/ c.lastObserved = result.status
             failures == IF repeats THEN c.consecutiveFailures + 1 ELSE 1
             confirmed == failures >= (IF result.immediate THEN 1
                                                           ELSE WarningFailures)
         IN /\ step.check \in CheckStates(Nat, Occs)
            /\ step.check.lastObserved = result.status
            /\ step.check.consecutiveFailures = failures
            /\ step.check.consecutiveSuccesses = 0
            /\ step.check.firstFailureAt # Never
            /\ step.check.fingerprint = c.fingerprint
            /\ step.check.lastRecoveryAt = c.lastRecoveryAt
            /\ step.kind \in {"problem", "escalation", "reminder", "none"}
            /\ step.kind = "problem" <=> ~c.notified /\ confirmed
            /\ step.kind = "escalation" <=>
                 /\ c.notified /\ c.current = "WARNING"
                 /\ result.status = "CRITICAL" /\ confirmed
            /\ step.kind = "reminder" =>
                 c.notified /\ c.current = result.status
            /\ step.kind = "none" =>
                 /\ step.check.current = c.current
                 /\ step.check.notified = c.notified
                 /\ step.check.lastNotificationAt = c.lastNotificationAt
            /\ step.kind # "none" =>
                 step.check.current = result.status /\ step.check.notified
PROOF
<1> DEFINE repeats == /\ c.lastObserved # "OK"
                      /\ ~c.notified \/ c.lastObserved = result.status
           failures == IF repeats THEN c.consecutiveFailures + 1 ELSE 1
           confirmed == failures >= (IF result.immediate THEN 1
                                                         ELSE WarningFailures)
           seen == [c EXCEPT
                 !.consecutiveFailures = failures,
                 !.firstFailureAt = IF @ = Never THEN t ELSE @,
                 !.consecutiveSuccesses = 0,
                 !.lastObserved = result.status]
           kind == CASE ~c.notified /\ confirmed -> "problem"
                [] /\ c.notified /\ c.current = "WARNING"
                   /\ result.status = "CRITICAL" /\ confirmed -> "escalation"
                [] /\ c.notified /\ c.current = result.status
                   /\ ReminderDue(c, t) -> "reminder"
                [] OTHER -> "none"
           told2 == IF kind = "none" THEN seen
                    ELSE [seen EXCEPT !.current = result.status,
                               !.lastNotificationAt = t,
                               !.notified = TRUE]
<1>1. OnFailure(c, result, t) = [check |-> told2, kind |-> kind]
  BY DEF OnFailure, FailuresNow, AlertKind, Outcome
<1>2. /\ result.status \in Statuses /\ result.immediate \in BOOLEAN
  BY DEF IsResult
<1>3. failures \in Nat
  BY DEF CheckStates
<1>4. /\ seen \in CheckStates(Nat, Occs)
      /\ seen.lastObserved = result.status
      /\ seen.consecutiveFailures = failures
      /\ seen.consecutiveSuccesses = 0
      /\ seen.firstFailureAt # Never
      /\ seen.fingerprint = c.fingerprint
      /\ seen.current = c.current
      /\ seen.notified = c.notified
      /\ seen.lastNotificationAt = c.lastNotificationAt
      /\ seen.lastRecoveryAt = c.lastRecoveryAt
  BY <1>2, <1>3 DEF CheckStates, Never
<1>5. /\ kind \in {"problem", "escalation", "reminder", "none"}
      /\ kind = "problem" <=> ~c.notified /\ confirmed
      /\ kind = "escalation" <=>
           /\ c.notified /\ c.current = "WARNING"
           /\ result.status = "CRITICAL" /\ confirmed
      /\ kind = "reminder" => c.notified /\ c.current = result.status
  BY DEF CheckStates
<1>6. /\ told2 \in CheckStates(Nat, Occs)
      /\ told2.lastObserved = seen.lastObserved
      /\ told2.consecutiveFailures = seen.consecutiveFailures
      /\ told2.consecutiveSuccesses = seen.consecutiveSuccesses
      /\ told2.firstFailureAt = seen.firstFailureAt
      /\ told2.fingerprint = seen.fingerprint
      /\ told2.lastRecoveryAt = seen.lastRecoveryAt
      /\ kind = "none" => told2 = seen
      /\ kind # "none" => told2.current = result.status /\ told2.notified
  <2> HIDE DEF seen, kind
  <2> QED BY <1>2, <1>4 DEF CheckStates
<1> HIDE DEF seen, kind, told2, confirmed, failures
<1>7. LET step == OnFailure(c, result, t)
      IN step.check = told2 /\ step.kind = kind
  BY <1>1
<1> QED BY <1>4, <1>5, <1>6, <1>7 DEF failures, confirmed

\* Whatever a check's result is, its state keeps its type.
LEMMA EvaluateCheckType ==
  ASSUME NEW Occs, NEW c \in CheckStates(Nat, Occs), NEW result, IsResult(result, Occs),
         NEW journal \in BOOLEAN,
         NEW t \in Nat, t # Never
  PROVE  LET step == EvaluateCheck(c, result, journal, t)
         IN /\ step.check \in CheckStates(Nat, Occs)
            /\ step.kind \in EventKinds \cup {"none"}
PROOF
<1> DEFINE quiet == IF journal THEN CloseOccurrence(c) ELSE c
<1>1. quiet \in CheckStates(Nat, Occs)
  BY CloseOccurrenceType
<1> HIDE DEF quiet
<1>2. CASE result.occurrence # NoOccurrence
  BY <1>2, OnOccurrenceType DEF EvaluateCheck, EventKinds
<1>3. CASE result.occurrence = NoOccurrence /\ result.status = "OK"
  <2>1. EvaluateCheck(c, result, journal, t) = OnSuccess(quiet, t)
    BY <1>3 DEF EvaluateCheck, quiet
  <2> QED BY <1>1, <2>1, OnSuccessFields DEF EventKinds
<1>4. CASE result.occurrence = NoOccurrence /\ result.status # "OK"
  <2>1. EvaluateCheck(c, result, journal, t) = OnFailure(quiet, result, t)
    BY <1>4 DEF EvaluateCheck, quiet
  <2>2. OnFailure(quiet, result, t).check \in CheckStates(Nat, Occs)
    BY <1>1, <1>4, OnFailureFields
  <2>3. OnFailure(quiet, result, t).kind
          \in {"problem", "escalation", "reminder", "none"}
    BY <1>1, <1>4, OnFailureFields
  <2> QED BY <2>1, <2>2, <2>3 DEF EventKinds
<1> QED BY <1>2, <1>3, <1>4

\* A baseline makes a state of any result.
LEMMA BaselineCheckType ==
  ASSUME NEW Occs, NoOccurrence \in Occs, NEW result, IsResult(result, Occs), NEW t \in Nat
  PROVE  BaselineCheck(result, t) \in CheckStates(Nat, Occs)
BY DEF IsResult, BaselineCheck, NewCheck, CheckStates, Never, Statuses

\* A check seen for the first time has a state.
LEMMA NewCheckType ==
  ASSUME NEW Occs, NoOccurrence \in Occs
  PROVE  NewCheck \in CheckStates(Nat, Occs)
BY DEF NewCheck, CheckStates, Statuses, Never

\* What an evaluation stores is loaded as it is.
LEMMA EvaluateKeepsNotified ==
  ASSUME NEW Occs, NEW c \in CheckStates(Nat, Occs), NEW result, IsResult(result, Occs),
         NEW journal \in BOOLEAN,
         NEW t \in Nat, t # Never, LoadCheck(c) = c
  PROVE  LET stored == EvaluateCheck(c, result, journal, t).check
         IN LoadCheck(stored) = stored
PROOF
<1> DEFINE Marked(d) == d.lastNotificationAt # Never /\ d.current # "OK" => d.notified
           quiet == IF journal THEN CloseOccurrence(c) ELSE c
           stored == EvaluateCheck(c, result, journal, t).check
\* On typed checks, that LoadCheck changes nothing is Marked.
<1>1. ASSUME NEW d \in CheckStates(Nat, Occs)
      PROVE  LoadCheck(d) = d <=> Marked(d)
  <2>1. [d EXCEPT !.notified = TRUE].notified = TRUE
    BY DEF CheckStates
  <2>2. d.notified = TRUE => [d EXCEPT !.notified = TRUE] = d
    BY DEF CheckStates
  <2>3. d.notified \in BOOLEAN
    BY DEF CheckStates
  <2> QED BY <2>1, <2>2, <2>3 DEF LoadCheck
<1>2. Marked(c)
  BY <1>1
<1>3. quiet \in CheckStates(Nat, Occs) /\ Marked(quiet)
  BY <1>2, CloseOccurrenceType DEF CloseOccurrence, CheckStates
<1> HIDE DEF quiet
<1>4. stored \in CheckStates(Nat, Occs)
  BY EvaluateCheckType
<1>5. Marked(stored)
  <2>1. CASE result.occurrence # NoOccurrence
    BY <2>1 DEF EvaluateCheck, OnOccurrence, Outcome, CheckStates
  <2>2. CASE result.occurrence = NoOccurrence /\ result.status = "OK"
    <3>1. stored = OnSuccess(quiet, t).check
      BY <2>2 DEF EvaluateCheck, quiet
    <3> HIDE DEF stored
    <3>2. \/ stored.current = "OK"
          \/ /\ stored.current = quiet.current /\ stored.notified = quiet.notified
             /\ stored.lastNotificationAt = quiet.lastNotificationAt
      <4> DEFINE closes == /\ quiet.current # "OK"
                           /\ (IF quiet.lastObserved = "OK"
                               THEN quiet.consecutiveSuccesses + 1 ELSE 1) >= RecoverySuccesses
      <4>1. /\ stored.current = (IF closes THEN "OK" ELSE quiet.current)
            /\ stored.notified = (quiet.notified /\ ~(closes /\ quiet.notified))
            /\ \/ closes /\ quiet.notified
               \/ stored.lastNotificationAt = quiet.lastNotificationAt
        BY ONLY <1>3, <3>1, t \in Nat, OnSuccessFields
      <4>2. quiet.notified \in BOOLEAN
        BY <1>3 DEF CheckStates
      <4> HIDE DEF closes
      <4> QED BY ONLY <4>1, <4>2
    <3> QED BY ONLY <1>3, <3>2
  <2>3. CASE result.occurrence = NoOccurrence /\ result.status # "OK"
    <3>1. stored = OnFailure(quiet, result, t).check
      BY <2>3 DEF EvaluateCheck, quiet
    <3> HIDE DEF stored
    <3> QED BY <1>3, <2>3, <3>1, OnFailureFields
  <2> QED BY <2>1, <2>2, <2>3
<1> HIDE DEF stored, Marked
<1> QED BY <1>1, <1>4, <1>5 DEF stored

\* A new or a baseline check was never notified about.
LEMMA UntoldKeepsNotified ==
  /\ LoadCheck(NewCheck) = NewCheck
  /\ \A result, t : LoadCheck(BaselineCheck(result, t)) = BaselineCheck(result, t)
BY DEF LoadCheck, NewCheck, BaselineCheck, Never
================================================================================
