------------------------------- MODULE CheckRun -------------------------------
(***************************************************************************)
(* The commands one run of the checks executes (checks.Run), the time      *)
(* limit of each (runner.Run) and the deadline of the whole run            *)
(* (cli.check).  Pure operators: Delivery starts its runs with them.       *)
(*                                                                         *)
(* A tool is hung when its commands do not end by themselves: each of them *)
(* is killed at its limit, and its check reports that it could not look.   *)
(* Once the deadline has passed the remaining commands fail at once,       *)
(* whatever their tool.                                                    *)
(*                                                                         *)
(* Abstractions.                                                           *)
(*   - The commands that answer take no time each; the time they take      *)
(*     together is spent before the first one.                             *)
(*   - A killed command ends at its limit: no process survives the signal. *)
(*   - Every check is enabled.  Checks that only read files execute no     *)
(*     command.                                                            *)
(*   - The kernel journal is read with one command: a page that is too     *)
(*     long or a cursor that is refused, for which the code tries again,   *)
(*     are answers at once.                                                *)
(***************************************************************************)
EXTENDS Naturals, Sequences, FiniteSets, SequencesExt

CONSTANTS
  Services,    \* the profiles of the configured services, sorted
  HasClusters  \* pg_lsclusters is installed

\* There are six profiles, and a service has each once (config.Validate).
ASSUME CheckRunAssumption ==
  Services \in Seq(STRING) /\ Len(Services) <= 6 /\ HasClusters \in BOOLEAN

Deadline == 110   \* seconds

\* A command of `tool` that is killed after `limit` seconds, and the checks
\* that report a problem when it fails.
Command(tool, limit, checks) == [tool |-> tool, limit |-> limit, checks |-> checks]

KernelJournal == <<Command("journalctl", 15, {"memory.oom", "kernel.errors"})>>

FailedUnits == <<Command("systemctl", 10, {"systemd.failed"})>>

APT == <<Command("apt-get", 30, {"apt.check"})>>

DPKG == <<Command("dpkg", 20, {"dpkg.audit"})>>

\* is-active and is-enabled for each of the two timers.
APTTimers == [i \in 1 .. 4 |-> Command("systemctl", 8, {"apt.timers"})]

\* Neither failure is reported: a result that could not be read counts as good.
UnattendedUpgrades == <<Command("systemctl", 8, {}), Command("journalctl", 15, {})>>

Needrestart == <<Command("needrestart", 30, {"kernel.needrestart"})>>

TimeSync == <<Command("timedatectl", 10, {"time.sync"})>>

AgentTimer == <<Command("systemctl", 10, {"agent.timer"})>>

\* checkPostgreSQL and, for the other profiles, checkServices.  The check of a
\* service is named by its profile.
ServiceCommand(id, limit) ==
  IF id = "postgresql" /\ HasClusters
  THEN Command("pg_lsclusters", 10, {id})
  ELSE Command("systemctl", limit, {id})

ServiceChecks == [i \in DOMAIN Services |-> ServiceCommand(Services[i], 8)]

\* In the order of checks.Run.
Commands ==
  KernelJournal \o FailedUnits \o APT \o DPKG \o APTTimers \o UnattendedUpgrades
    \o Needrestart \o TimeSync \o AgentTimer \o ServiceChecks

Tools == {command.tool : command \in ToSet(Commands)}
CommandChecks == UNION {command.checks : command \in ToSet(Commands)}

\* The seconds passed when the first n commands have run.
Elapsed(hung, answering, n) ==
  LET elapsed[i \in 0 .. n] ==
        IF i = 0 THEN answering
        ELSE elapsed[i - 1] + IF Commands[i].tool \in hung THEN Commands[i].limit ELSE 0
  IN elapsed[n]

\* runner.Run: command i fails if its tool hangs, or if the run's context has
\* ended already.
Fails(hung, answering, i) ==
  Commands[i].tool \in hung \/ Elapsed(hung, answering, i - 1) >= Deadline

\* The checks that report a failed command.
FailedChecks(hung, answering) ==
  UNION {Commands[i].checks : i \in {j \in DOMAIN Commands : Fails(hung, answering, j)}}

\* Mutant of Expired: a run is never too late.
NeverExpired(hung, answering) == FALSE

\* RunCheck gives up when the context has ended, whatever the results say.
Expired(hung, answering) == Elapsed(hung, answering, Len(Commands)) >= Deadline
================================================================================
