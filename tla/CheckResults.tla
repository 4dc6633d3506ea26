----------------------------- MODULE CheckResults -----------------------------
(***************************************************************************)
(* The result of a check (internal/model) and what each check makes of     *)
(* what it read (internal/checks).  Pure operators: the instances of       *)
(* Incident and Agent draw the results of their checks from them, Delivery *)
(* judges the age of the last run with them.                               *)
(*                                                                         *)
(* Abstractions.                                                           *)
(*   - A reading is what the check has parsed, a percentage or another     *)
(*     quantity as a natural number, or that it could not look.            *)
(*   - A command that ran is its exit code and what its output says; one   *)
(*     that could not be started or was killed did not run.                *)
(*   - Titles and messages are left out: every result says "m".            *)
(***************************************************************************)
EXTENDS Naturals

Failing == {"WARNING", "CRITICAL"}
Statuses == {"OK"} \cup Failing
NoOccurrence == {}

Results(Messages, Occurrences) ==
  [status : Statuses, immediate : BOOLEAN, message : Messages,
   occurrence : Occurrences]

Result(status, immediate, occurrence) ==
  [status |-> status, immediate |-> immediate, message |-> "m",
   occurrence |-> occurrence]

Ok == Result("OK", FALSE, NoOccurrence)
Problem(status, immediate) == Result(status, immediate, NoOccurrence)
Unknown == Problem("WARNING", FALSE)

Unreadable == [readable |-> FALSE]
Reading(value) == [readable |-> TRUE, value |-> value]

\* The result of a check that found this status.
Found(status, immediate) == IF status = "OK" THEN Ok ELSE Problem(status, immediate)

Severity(status) ==
  CASE status = "OK" -> 0 [] status = "WARNING" -> 1 [] status = "CRITICAL" -> 2

\* The status of several findings, each combined with `higher`.
Highest(statuses) ==
  IF "CRITICAL" \in statuses THEN "CRITICAL"
  ELSE IF "WARNING" \in statuses THEN "WARNING" ELSE "OK"

-----------------------------------------------------------------------------
(* Thresholds *)

\* config.Validate: the thresholds of a quantity that is bad when it is high,
\* and of one that is bad when it is low.
ValidHigh(limit, largest) ==
  limit.warning \in Nat /\ limit.critical \in Nat
    /\ limit.warning < limit.critical /\ limit.critical <= largest

ValidLow(limit, largest) ==
  limit.warning \in Nat /\ limit.critical \in Nat
    /\ limit.critical < limit.warning /\ limit.warning <= largest

ThresholdHigh(value, limit) ==
  IF value >= limit.critical THEN "CRITICAL"
  ELSE IF value >= limit.warning THEN "WARNING" ELSE "OK"

ThresholdLow(value, limit) ==
  IF value <= limit.critical THEN "CRITICAL"
  ELSE IF value <= limit.warning THEN "WARNING" ELSE "OK"

\* checkDisk and checkInode, on the usage of every local filesystem.
UsageStatus(usage, limit) ==
  IF usage.readable THEN ThresholdHigh(usage.value, limit) ELSE "WARNING"

UsageResult(usages, limit) ==
  LET status == Highest({UsageStatus(usage, limit) : usage \in usages})
  IN IF usages = {} THEN Unknown ELSE Found(status, status = "CRITICAL")

\* checkReadOnly, on the mount table.
ReadOnlyResult(table) ==
  IF ~table.readable THEN Unknown
  ELSE IF table.value = {} THEN Unknown
  ELSE IF \E mount \in table.value : mount.readOnly THEN Problem("CRITICAL", TRUE) ELSE Ok

\* checkMemory; data that contradicts itself counts as unreadable here and below.
MemoryResult(available, limit) ==
  IF available.readable THEN Found(ThresholdLow(available.value, limit), FALSE) ELSE Unknown

\* Without any swap there is nothing to judge.
SwapResult(swap, limit) ==
  IF ~swap.readable THEN Unknown
  ELSE IF swap.total = 0 THEN Ok ELSE Found(ThresholdHigh(swap.value, limit), FALSE)

LoadResult(perCPU, limit) ==
  IF perCPU.readable THEN Found(ThresholdHigh(perCPU.value, limit), FALSE) ELSE Unknown

-----------------------------------------------------------------------------
(* Commands *)

NotRun == [ran |-> FALSE]

FailedUnitsResult(command) ==
  IF /\ command.ran
     /\ command.exit = 0 /\ ~command.truncated /\ command.units = {}
  THEN Ok ELSE Unknown

APTResult(command) ==
  IF ~command.ran THEN Unknown
  ELSE IF command.exit = 0 THEN Ok ELSE Problem("CRITICAL", TRUE)

DPKGResult(command) ==
  IF command.ran /\ command.exit = 0 /\ command.packages = {} THEN Ok ELSE Unknown

\* systemctlState: the word systemctl says, whatever its exit code.
UnitState(command) ==
  IF ~command.ran THEN "unknown"
  ELSE IF command.output = "" THEN "unknown" ELSE command.output

APTTimersResult(timers) ==
  IF \A timer \in timers : /\ UnitState(timer.active) = "active"
                           /\ UnitState(timer.enabled) = "enabled"
  THEN Ok ELSE Unknown

\* checkUnattendedUpgrades: the age of the newest stamp, the result of the last
\* upgrade ("" when it could not be read) and the errors logged since the last
\* run (none when the journal could not be read).
UpgradeStatuses(upgrades, maxAge) ==
  {IF ~upgrades.stamp.readable THEN "WARNING"
   ELSE IF upgrades.stamp.value > 2 * maxAge THEN "CRITICAL"
   ELSE IF upgrades.stamp.value > maxAge THEN "WARNING" ELSE "OK",
   IF upgrades.result \in {"", "success"} THEN "OK" ELSE "CRITICAL",
   IF upgrades.errors = {} THEN "OK" ELSE "CRITICAL"}

UpgradesResult(upgrades, maxAge) ==
  LET status == Highest(UpgradeStatuses(upgrades, maxAge))
  IN IF ~upgrades.installed THEN Unknown ELSE Found(status, status = "CRITICAL")

RebootResult(marker) == IF marker = "absent" THEN Ok ELSE Unknown

\* needrestart says 1 for a current kernel, 2 and 3 for a pending update.
NeedrestartResult(command) ==
  IF command.ran /\ command.kernelStatus = 1 THEN Ok ELSE Unknown

TimeSyncResult(command) ==
  IF command.ran /\ command.exit = 0 /\ command.output = "yes" THEN Ok ELSE Unknown

\* A timer whose service runs just now has no next time yet.
TimerHealthy(timer) ==
  /\ timer.load = "loaded" /\ timer.active = "active" /\ timer.file = "enabled"
  /\ timer.sub = "running" \/ timer.hasNext

AgentTimerResult(command) ==
  IF /\ command.ran
     /\ command.exit = 0 /\ ~command.truncated /\ TimerHealthy(command.timer)
  THEN Ok ELSE Unknown

\* checkServices: systemctl that does not answer is a service that is not active.
ServiceResult(command) ==
  IF UnitState(command) = "active" THEN Ok ELSE Problem("CRITICAL", TRUE)

\* checkPostgreSQL with pg_lsclusters.
ClustersResult(command) ==
  IF ~command.ran THEN Unknown
  ELSE IF command.exit # 0 \/ command.truncated \/ command.clusters = {} THEN Unknown
  ELSE IF command.clusters = {"online"} THEN Ok ELSE Problem("CRITICAL", TRUE)

-----------------------------------------------------------------------------
(* The agent's own runs *)

\* Mutant of FreshnessResult: two intervals are too long already.
FreshForTwoIntervals(age, interval) ==
  IF age > 6 * interval THEN Problem("CRITICAL", TRUE)
  ELSE IF age > 2 * interval THEN Problem("WARNING", TRUE) ELSE Ok

\* checkAgentFreshness, when there was a run before.
FreshnessResult(age, interval) ==
  IF age > 6 * interval THEN Problem("CRITICAL", TRUE)
  ELSE IF age > 3 * interval THEN Problem("WARNING", TRUE) ELSE Ok
================================================================================
