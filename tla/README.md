# TLA+ models of gotify-vps-agent

A verification development for the Gotify VPS agent: TLA+ modules translated
from the Go source and the install scripts, TLC configurations that check them
on small instances, and TLAPS proofs for every value of their parameters.

## The system

A systemd timer starts `gotify-vps-agent check` every few minutes. A run loads
the configuration, takes a file lock, loads three files, runs the health
checks, evaluates their results, saves the three files and delivers queued
alerts to a Gotify server. Nothing stays in memory between two runs.

| component | state | operations | interacts with |
| --- | --- | --- | --- |
| `internal/engine` | one `CheckState` per check in `state.json` | `Evaluate`, `Baseline` | called by app with results and time; returns events |
| `internal/queue` | `queue.json`: events, attempts, next attempt | `Add`, `trim`, `RetainChecks`, `Ready`, `MarkFailure`, `Clear` | events from engine, batches to gotify |
| `internal/state` | `state.json` | `Load` (with a migration), `Save` | app, securefile |
| `internal/app` | the lock; memory of a run | `RunCheck` (check, baseline, dry run), `deliverQueued`, `restorePendingState`, `ResetState`, status, doctor | all of these |
| `internal/checks`, `internal/runner` | `journal.cursor` | 20 checks and one per service, most through a command with a time limit; the kernel journal's pages | journalctl, /proc, systemctl; the queue check reads the queue |
| `internal/notify`, `internal/gotify` | none | a batch from a first part of the queue; `Send` and its acknowledgement | the server |
| `internal/config`, `internal/cli` | `config.toml`, the token, the timer override | check with its deadline, wizard, proxy, services, timer sync | read-modify-write of the configuration without a lock |
| `internal/securefile` | temporary files | `Write`: replace a file atomically | every save |
| `scripts/install.sh`, `uninstall.sh` | installed files and a backup | upgrade with rollback, removal | systemd |
| services, platform, systemd, terminal, socksproxy, textsafe | none | detection, parsing | - |

What is hard here is not one step but sequences of them: the engine's counters
over mixed severities and flaps; two commands at a time; a crash, the
service's time limit or a failed save between two of the three files; a
delivery whose acknowledgement is lost; tools that hang until the deadline of
the run; the journal read at one time and the run dated at another; a full
queue; a clock that is set back; a configuration that changes while alerts are
queued. What makes each component correct:

- engine: every confirmed failure is announced, nothing is announced early,
  problem / escalation / recovery come in order, an open alert is remembered;
- queue: it drops an event only when the server has it, a newer alert replaces
  it, the check is disabled or the queue is full, and then the oldest;
- delivery: every alert leaves the queue, told in order and not twice without a
  reason;
- a run: a tool that hangs leaves the others their time, and is the only one
  blamed;
- app: after any crash the next run believes what the reader was told;
- journal: every matching kernel message is reported, and once;
- configuration: what is saved has been tested, an enabled timer finds it, and
  commands keep each other's changes;
- securefile: a reader finds a whole content at every crash, and a call that
  reports an error has changed nothing;
- installer: everything is installed or everything is as before, in the files,
  in systemd and for the timer.

## Modules

| module | models | kind |
| --- | --- | --- |
| `CheckResults` | what each check of `internal/checks` decides from what it has read, and the result (`internal/model`) | pure operators |
| `Engine` | `internal/engine`, the types of `internal/model`, the migration of `state.Load` | pure operators |
| `Lifecycle` | README.md line 83: what an ordinary check's reader is promised | abstract specification |
| `EngineProofs` | theorems about the operators of `CheckResults` and `Engine` | TLAPS |
| `Incident` | one check over any sequence of results, baselines and disabled runs | state machine; refines `Lifecycle` |
| `IncidentProofs` | theorems about `Incident` | TLAPS |
| `Queue` | `internal/queue` | pure operators |
| `QueueProofs` | theorems about the operators of `Queue` | TLAPS |
| `Agent` | `internal/app` with the files, the journal, the server, processes and crashes; composes `Engine` and `Queue` | state machine |
| `AgentProofs` | theorems about `Agent` | TLAPS |
| `CheckRun` | the commands of one run, their limits (`internal/runner`) and the run's deadline (`internal/cli`) | pure operators |
| `Outbox` | what the delivery of alerts promises | abstract specification |
| `Delivery` | runs one after the other: `notify.BuildBatch`, `gotify.Send`, the retries; composes `Queue`, `CheckRun` and `CheckResults` | state machine; refines `Outbox` |
| `DeliveryProofs` | theorems about `Delivery` and `CheckRun` | TLAPS |
| `ConfigStore` | the commands of `internal/cli` that change settings, `systemd.WriteTimerOverride` | state machine |
| `ConfigStoreProofs` | theorems about `ConfigStore` | TLAPS |
| `AtomicFile` | what every save relies on | abstract specification |
| `SecureFile` | `securefile.Write` by system call | state machine; refines `AtomicFile` |
| `SecureFileProofs` | theorems about `SecureFile` | TLAPS |
| `Installer` | `scripts/install.sh` from the stop of the timer on, `scripts/uninstall.sh` | state machine |
| `InstallerProofs` | theorems about `Installer` | TLAPS |
| `MCIncident`, `MCAgent`, `MCDelivery`, `MCConfigStore`, `MCSecureFile`, `MCInstaller` | values of the constants for TLC | instances |

### CheckResults

One operator per check function, from what the check has parsed (a
percentage, the age of a stamp, an exit code and what the output says) to its
result. The instances of `Incident` and `Agent` draw the results of their
checks from these operators, at, above and below the shipped thresholds, and
`Delivery` judges the age of the last run with `FreshnessResult`. The kernel
journal and the queue check, which depend on the agent's own files, are in
`Agent`.

### Engine and Incident

`EvaluateCheck` is the body of `Evaluate`'s loop; `OnOccurrence`,
`CloseOccurrence`, `OnSuccess` and `OnFailure` are its four parts in the order
of the code, and the counters (`SuccessesNow`, `FailuresNow`) and decisions
(`AlertKind`, `ReminderDue`) are operators of their own. `LoadCheck` is what
`state.Load` does to a stored check. `Incident` has one action per way a check
meets a run: `Evaluate` (a result comes in), `Baseline`, and `Forget` (the
check was disabled, or the state was reset). Its ghosts count observations
(`okStreak`, `failStreak`, `critStreak`, `owed`, `told`), so that the
properties compare what the code believes with what was really seen.

Time is a number of ticks, titles and wording are dropped, a message is a
value that is only compared, and an occurrence (the code's hash over journal
cursors) is the set of the entries it stands for.

### Queue and Agent

A queue is a record with the code's fields; a fingerprint hashes every field
of an event, so equal fingerprints are equal events. `Agent` has one action
per step between two durable effects of `RunCheck`: `BeginCheck` (lock, load,
restore), `Collect` (read the journal), `Observe` (run the checks, evaluate,
update the queue in memory), `SaveQueue`, `SaveState`, `SaveCursor`, then
`Send` and `SaveDelivered` or `SaveFailure` until the queue is empty or a
delivery fails. `reset-state` is `BeginReset`, `RemoveState`, `RemoveQueue`,
`RemoveCursor`. `Stop` ends any run at any point: a crash, the time limit, a
failed save (which the code reports without another change of state) or an
unreadable token. `Toggle` enables or disables a check, `LogKernelMessage`
appends to the journal. A delivery acknowledges a first part of the queue, or
never arrives, or is accepted without the agent learning it.

The ghosts record what the server accepted (`received`, `delivered`), which
kinds of event surprised its reader (`surprises`), which journal entries are
dealt with (`settled`), and where an operator interfered (`dropped`,
`restarted`), because those checks' alerts may be lost on purpose.

### CheckRun, Delivery and Outbox

`CheckRun` lists the commands of `checks.Run` in their order, each with its
tool and its limit. A tool that hangs costs the limit of each of its commands;
once the 110 seconds of the run are over, every further command fails at once,
and `RunCheck` gives up without evaluating anything (`Expired`).

`Delivery` runs the agent again and again on one queue file. `Check` is a run
up to its saves, with any alerts about checks that failed or that need no
command; `GiveUp` is a run whose time is up, `FailEarly` one that ends before
it has saved anything. A run that is `Ready` sends batches (`BatchCount` is
`BuildBatch`: the longest first part of the queue whose message fits) and, for
each, waits for one of the `Answers`: nothing, an error, or a success with or
without Gotify's identifier of the stored message. Only the last counts as an
acknowledgement. `SaveAcknowledgement` and `SaveFailure` write the queue back,
`Stop` ends the run at any point, `SetBack` sets the clock back between runs,
`HangOrRecover` changes which tools hang. Time is relative to the present, so
that behaviours have no end and liveness means something. Two ghosts count for the
reader of the server's log: `pause` is the delay that the failures saved so far
ask for, 1 unit and then twice the last up to the limit, and `waited` is the
time since the last of them.

`Outbox` is the promise: alerts are posted in order, told from the oldest on
and forgotten once told, and only a full outbox forgets an alert nobody was
told of, the oldest first. `Delivery` implements it with `pending <-` the
checks of the queue file's events and `told <-` the ghost of what the server
has stored of them.

### ConfigStore

A process runs one command at a time, which holds the configuration it loaded
at its start in `command[p]`; `Begin...` is the load with the answers to the
questions, and the steps that follow are the ones with an effect outside the
process: `ReadToken`, `Test` (the test message), `SaveToken`, `SaveConfig`,
`WriteOverride`, `Reload` (systemd's), `SetTimer`. `Stop` stands for every
failure, refusal and kill. The code takes no lock, so commands overlap; the
ghosts record whether any did (`overlapped`), what the configuration would be
if no change were lost (`intended`), and whether a command ended between two
saves that belong together (`tokenAhead`, `timerBehind`) and none has repaired
that since.

### SecureFile and AtomicFile

One action per system call of `securefile.Write`, several calls for one path
at a time, `Fail` for the error branches, `Kill`, and `PowerCut`, which may
take the unsynced end of any file and undo renames the directory has not been
synced for (`durable`). `AtomicFile` is the register that `Agent` assumes when
it saves in one step.

### Installer

One action per command of the script that has an effect outside it, in the
script's order: `StopTimer`, `BackUp` and `Replace` file by file,
`DaemonReload`, `TimerSync`, `Verify`, `Commit`. A failure is an `Abort`, which
starts the trap's `Restore` file by file and `RestoreUnits`, or is ignored
where the script says `|| true` (`Ignore`). systemd has its own copy of the
units (`loaded`), which only a reload refreshes. `uninstall.sh` is
`DisableTimer`, `RemoveFile` in the manifest's order, `RemoveManifest` and
`ForgetUnits`; it has no rollback, so a failure just ends it (`Fail`).

## Runs

| run | expected | what it shows |
| --- | --- | --- |
| `incident_ordinary` | pass | ordinary checks: nothing missed, nothing premature, the life cycle refined |
| `incident_journal_recovery` | violation | finding: an announced journal problem loses its recovery |
| `agent_core` | pass | two processes, two crashes or failed saves, lost deliveries and acknowledgements, the queue check |
| `agent_escalation` | violation | finding: a crash between queue and state repeats an escalation |
| `agent_journal` | pass | two processes, checks and baselines, read the journal: nothing skipped, nothing twice without a crash, no cursor saved over a newer one |
| `agent_journal_window` | violation | finding: without a cursor a message in the window is lost |
| `agent_operators` | pass | baselines, dry runs, resets and configuration changes with a full queue |
| `delivery` | pass | tools that hang, the deadline, any answer of the server, a clock set back: the outbox refined, every alert leaves, a failing server is left alone for longer and longer, nobody blamed for the deadline, runs on time are fresh |
| `config_store` | pass | overlapping and interrupted commands save nothing untested; commands run one at a time keep token, configuration and timer together |
| `secure_file` | pass | three overlapping replacements with kills and power cuts refine the atomic file |
| `installer` | pass | two commands fail anywhere, in the rollback too: installed or as before; no timer runs half an installation, removed ones included |
| `installer_torn` | violation | finding: a backup that fails half way is restored over the intact file |

The runs of `delivery` go on for ever, and TLC looks for deadlocks. The others
say `CHECK_DEADLOCK FALSE`: time, or the number of commands, calls and
failures, is bounded, or the script ends, so every behaviour ends.

### Bounds

`incident_ordinary` runs 6 to 11 times (`MaxNow = 11`, gaps of 1 or 2 ticks)
with thresholds of 2, the shipped default: enough for a problem, an
escalation, a recovery and a second incident, with reminders of 2 and 3 ticks
due in between. `agent_core` has 6 runs, 2 interruptions and a backoff of 1 or
2 ticks, so that an interrupted incident, its retry, its recovery and the next
incident fit; recovery after one good run keeps that short. `agent_operators`
holds two events in the queue (`MaxEvents = 2`) so that two checks overflow
it. `agent_journal` logs three messages at any point between the steps of three
runs that get as far as their checks (`MaxNow = 4`), checks or baselines of two
processes, with reads that fail or return only the oldest part of a backlog,
and disables or enables a check once (`MaxToggles`), which drops its entries.
Its cursor could go back only if a run saved one over that of a run that
started later, which the lock has to exclude. With a
smaller `MaxNow`, `agent_core` loses the second incident; a larger one found
nothing new (it was run once with 8). The two processes of `agent_core` and of
`agent_journal` are interchangeable, hence the symmetry set.

`delivery` has three alerts for a queue of two, so that it overflows; a
message holds two lines of one section but not of two, so that a run sends one
batch or two. The backoff ends at 4 intervals and failures are counted up to 3
(`MaxAttempts`, where the backoff has reached its limit), the clock is set
back by 2 units in all. The seconds are the code's: 110 of the deadline, the
commands' limits, 60 for a request (the longest `gotify.timeout` Validate
accepts). All six service profiles are configured,
which makes systemctl the slowest tool: if it hangs, its commands take 100 of
the 110 seconds with `pg_lsclusters` installed, and 108 without. The commands
that answer are bounded by their own limits only, so together they take 0, 60,
109 or 110 seconds (`AnswerTimes`): nothing, much of the time, all but the last
second, or all of it. Runs are late with a tool hung or with none.
`systemctl` and `apt-get` are the tools that may hang (`HangingTools`), alone or
together, and together they make every run late. `Interval` is
145 seconds, the shortest for which `OnTimeIsFresh` holds, see
`TimerKeepsTheAgentFresh` below. `DeliveryAssumption` says that one event fits in a
message: five bytes at most for each of 256 + 4096 bytes of title and message,
and some fifty around them, make less than 22 000 of 65 536.

`config_store` has two processes and three commands or manual edits: one that
configures, and two more that overlap it or each other; one of the four pairs
of connection and token is refused by the server, so that a test can fail.
`secure_file` has three calls with contents of two bytes, so that a part is
neither nothing nor all. `installer` starts both scripts from every
combination of files present and absent, with at most two failing commands:
one that starts the rollback and one in it, or the stop of the timer and one
more. `installer_torn` is the same with copies that leave a part of the file
when they fail.

### Fairness

`Installer` assumes `WF_vars(Next)`: bash goes on with the next command, and
each command ends, well or badly. Nothing weaker would do for "the script
ends", and no single command's success is assumed.

`Delivery` assumes, and the property `EveryAlertLeaves` needs:

- `WF_vars(Stop)`: a run ends, by itself or at systemd's `TimeoutStartSec=2min`;
- `SF_vars(Check)`: of the runs the timer starts again and again and that could
  come through, some do; so the commands that answer do so in time for a run
  again and again, though their limits would let them use up every one;
- `SF_vars(OneToolHangs)`: again and again at most one tool hangs. One may hang
  for ever; two that do would keep every alert back, as the code gives up;
- `SF_vars(SendSucceeds)`: the server does not fail every request for ever;
- `SF_vars(SaveAcknowledgement)`: crashes and full disks do not hit every save.

That the clock is set back only finitely often is the bound `MaxSetbacks`.
`Agent`, `Incident`, `ConfigStore` and `SecureFile` state no fairness: their
properties are safety properties.

## Findings

1. `agent_escalation`: `restorePendingState` skips a check that is already
   notified (`storage.go:67`), so an escalation saved in the queue but not in
   the state is announced twice; the README promises at most one.
2. `incident_journal_recovery`: a journal check whose unreadable journal was
   announced is reset by `engine.go:75-80` after a kernel event, without the
   promised recovery alert.
3. `agent_journal_window`: `now` is taken after the checks (`app.go:128`), the
   journal was read before them; without a cursor the next run reads from
   `now`, and a message logged in between is lost. With a cursor it is not
   (`agent_journal`).
4. `installer_torn`: `backup_target` copies straight to the name under which
   the rollback looks for the backup (`install.sh:53-54`, `64`); if `cp` fails
   half way, the part it left replaces the file that was still intact.

Limits the models show that no document contradicts: with intervals from one
minute (which `Validate` accepts) to 144 seconds, a delivery that hangs makes
the next run on time alert that the agent has not run for long; and a failed
rollback command is ignored by the script.

## Proofs

### CheckResults (in `EngineProofs`)

| theorem | statement |
| --- | --- |
| `WorseReadingsAreNotMilder` | with thresholds Validate accepts, a worse reading never gives a milder status |
| `NoFilesystemIsHidden` | a full or unreadable filesystem is reported however many are well |
| `DecisionsAreOrdinary` | every check that reads no journal returns a result without an occurrence |

The last discharges, for the results the code produces, the assumption about
ordinary checks in `Incident` and `Agent`.

### Incident

For every threshold, reminder interval, set of results and length of run:

| theorem | statement |
| --- | --- |
| `TypeCorrect` | `Spec => []TypeOK` |
| `MigrationNeverApplies` | `Spec => []MigrationIsIdentity` |
| `EveryOccurrenceIsTold` | every new kernel event is announced or accepted by a baseline |
| `OccurrencesEnd` | a journal check is CRITICAL only in the run that saw a new event |
| `CountersAreRight` | `[]CountersFollowObservations` for an ordinary check |
| `NothingIsMissed`, `CriticalIsNotMasked` | a failure that lasts is announced, and one that stays CRITICAL is announced as such |
| `RecoveryCloses` | a check that recovered is closed |
| `NothingIsPremature` | no alert before its threshold |
| `IncidentsAreIdentified`, `AlertsAreTracked` | the start of the failure is kept, and the open alert remembered |
| `IncidentImplementsLifecycle` | `Spec => LifecycleSpec` for an ordinary check |

The first three hold of every check, `OccurrencesEnd` of a journal check, the
others assume `~Journal`. The argument: `PersistentFailureIsNotified` and the
rest are not inductive, since the code decides by its counters and the
properties speak of what was observed. `CountersFollowObservations` closes the
gap: it says when a counter equals a streak (failures until the alert, then
the failures of the severity that may escalate it, successes always). `IInv`
is the conjunction of the invariants with it; `InitIInv`, `SuccessIInv`,
`FailureIInv`, `BaselineIInv` and `ForgetIInv` prove it inductive action by
action, and `LifecycleStep` maps each action to a step of `Lifecycle` under
it. TLC checks every conjunct in `incident_ordinary` first.

The assumptions are those of the modules: thresholds at least 1
(`config.Validate`), gaps between runs positive, and only a journal check's
CRITICAL results carry an occurrence (`journalProblem`).

### Queue

| theorem | statement |
| --- | --- |
| `TrimDropsOldest` | a full queue keeps nothing older than what it drops |
| `BackoffDoubles` | one more failure gives twice the delay, or the limit |
| `BackoffIsLimited` | after any number of failures the delay is at least 5 minutes and at most the limit |

The lemmas of `QueueProofs` say, for queues and runs of any length, what each
operator adds, replaces, keeps and drops (`AddAllAdds` is the one that the
proofs about `Agent` and `Delivery` use most). The loops of the code are
recursive functions in `Queue`, and their results are proved by induction: the
library's induction theorems take an operator as a parameter, which no
installed prover can instantiate, so `QueueProofs` derives the first-order
form it needs from well-founded induction: a *set* of numbers that contains 0
and, with every number, the next one contains all (`Induction`), and a
recursive function on `0 .. n` exists and satisfies its equation (`Recursion`).

### Agent

For any number of processes, checks, interruptions, events in the queue and
kernel messages:

| theorem | statement |
| --- | --- |
| `RunsTakeTurns` | at most one process has loaded the files |
| `HolderChangesFiles` | a file changes only while one process holds the lock and no other has started |
| `CursorMovesOn` | no run moves the journal's cursor back, unless journalctl rejects it or a reset removes it |
| `TypesKept` | `Spec => []TypeOK` |
| `BeliefsAreKept` | with `notify_recovery`, what the next run believes of a check is what its reader was last told |
| `TurnsAreKept` | with `notify_recovery`, the reader sees problems and recoveries take turns |
| `AlertsAreReal` | whatever operators do, no run believes in an alert its reader was not told of |
| `NothingIsLost` | an entry leaves the queue delivered, replaced, with its check disabled or because the queue is full |
| `OldestGoFirst` | what a full queue drops is never newer than what it keeps |
| `NoMessageSkipped` | every kernel message the cursor has passed is announced, queued or dropped for a reason |
| `MessagesAnnouncedOnce` | unless a run is cut short, no two events announce the same kernel message |

`CursorMovesOn` says that the cursor a run saves, computed from the file
several steps earlier, is still the newest. `PagesInOrder` is what makes it
inductive: a page that waits to be saved ends at or after the cursor that is
saved *now*. Another run's save would break it, and `OneRun` excludes that.
`StepMoves` describes what every step does to the lock, the memory of its
process and the cursor; `StepKeepsIInv` needs nothing else of the steps.

The theorems from `TypesKept` on rest on a second invariant, `FilesAgree`,
proved by `AlwaysAgree`. `BeliefMatchesMessages` by itself is not inductive:
it speaks of what a run that starts *now* would believe, and the run that is
in progress will replace the files one after the other.

- `Consistent(World)` is about the files. For every ordinary check, the state
  a run recalls (the saved state, corrected by the last event queued about the
  check, as `restorePendingState` does) agrees with the last thing said to the
  reader, the queue included (`Said`), and the entries of the queue are a
  problem and its recovery in turns (`TakeTurns`), ordered by time, within the
  limit.
- `MemoriesAgree` is about the memory of each process, point by point
  (`Holds`): at `saveQueue` the new queue and the new state are what
  `Consistent` will demand once both are saved, *and* the new queue with the
  old state already is; at `saveState` the queue is saved, and so on; at
  `saveDelivered` the events that were sent are already in `received`.
- `NoTurnMissed` is the property itself, `Bounds` the ranges of the numbers.

That `queue.json` is saved before `state.json`, and that the restore puts the
state right from the queue, is exactly what the step at `saveQueue` needs:
`CheckEvaluates` shows, one result at a time, that the engine's new state is
what a run would recall from the old state and the new queue. A batch is
accepted event by event (`HeardOneByOne`), and since the queue takes turns so
does what the reader hears, the first events possibly a second time
(`BatchInTurn`). Each action has a lemma (`...Agrees`), `StepAgrees` puts them
together.

`BeliefsAreKept` and `TurnsAreKept` assume `NotifyRecovery`, as the definitions
of their properties do implicitly in every run that checks them (the shipped
setting): without recovery alerts the reader cannot know that an alert was
closed. `AlertsAreReal` does not need it.

The last two theorems add what the files say of kernel messages. A message is
*accounted for* (`Accounted`) when it is settled, because its event was
accepted or dropped for a reason, or when an entry of the queue file mentions
it.

- `PagesFollow`: a page that was read and not yet saved holds exactly the
  messages between the cursor on file and the page's own.
- `NothingSkipped`, for `NoMessageSkipped`: every message up to the cursor is
  accounted for; and while a run saves, what will be on file once the queue is
  saved (`Renewed`, with what the queue drops) accounts for its page. The
  queue is saved before the cursor, so the page is accounted for when the
  cursor passes it, whatever cut the run short in between.
- `NothingRepeated`, for `MessagesAnnouncedOnce`: conversely, what is accounted
  for is behind the cursor or on the page of the run that is about to save it,
  and two entries that were not delivered twice mention different messages
  (`Apart`). The next page starts behind the cursor and repeats nothing. A run
  that ends between the queue and the cursor breaks this, which is why the
  property and `OnceSoFar` speak of histories with `stops = 0` only: the code
  prefers an alert twice to none.

Their hypotheses are on the constants. `JournalIsRead`: journalctl accepts the
cursor (`"rejected" \notin JournalFaults`; the fallback reads since the last
run and can skip) and nobody runs `reset-state`, which gives up the cursor on
purpose; failed and partial reads, full queues, baselines and dry runs are all
allowed. `NoMessageSkipped` assumes a cursor at first (`InitialCursor #
NoCursor`), and `agent_journal_window` shows that it has to: setup's baseline
writes one. `MessagesAnnouncedOnce` assumes that one check reads the journal:
the code has two, `memory.oom` and `kernel.errors`, which pick their own lines
of the page, and a line both pick is announced once by each of them; the
journal of the model holds the lines of one check.

### Delivery

For any alerts with any sections and sizes, any services, limits, timeouts,
tools that hang and setbacks of the clock:

| theorem | statement |
| --- | --- |
| `ImplementsOutbox` | `Spec => OutboxSafety`: told in order, nothing forgotten untold but by overflow |
| `RepeatsHaveAReason` | what was told and is queued still is so for a lost answer or a run that was cut short |
| `DeadlineBlamesNobody` | a command killed by the run's deadline raises no alert |
| `RetriesWait` | `Spec => RetriesAreSpaced`: a failing server is asked again after the whole backoff |
| `OneFaultIsInTime` | one tool that hangs makes a run late only if the others take 2 seconds or more |
| `TimerKeepsTheAgentFresh` | a run on time finds the last one recent |
| `TypesKept` | `Spec => []TypeOK` |

The invariant (`IInv`) says of the queue file that no check has two alerts in
it, that it is within its limit and the delay within the longest backoff
(`GoodQueue`); of a run between an acknowledgement and its save, that the file
starts with the batch the server has accepted and that memory holds the rest
(`InHand`), without which `SaveAcknowledgement` would not be the outbox's
`Forget`; that what the reader was told beyond that batch has a reason
(`Excused`); and that the seconds gone since the save and those left make no
more than the deadline (`InTime`). TLC checks it on the instance of `delivery`
as it checks its consequences.

`RetriesAreSpaced` compares what the server sees, the time between requests,
with the two numbers of the queue file. `Spaced` connects them: the pause is at
most the backoff of the attempts saved, and what has passed together with what
`nextAttemptAt` leaves is at least the pause. The clock may be set back, which
only makes the rest longer. A run that has failed and not yet saved it holds
the next pause in memory, and until it sends its memory is the file. That an
alert which is queued already does not reset the attempts
(`OldAlertsChangeNothing`) is what keeps it true while a problem is raised again
by every run.

Step by step: a run's check is the outbox's `Post` (`ExtendedByAll`: the queue
grows by alerts of checks that had none; `NewAlertsArePosted`: in some order,
none twice; `TrimmedChecks`: the limit is the capacity), a message the server
stores is a `Tell`, of at least one alert since one always fits
(`BatchIsSome`), and every other step is none. `DeadlineBlamesNobody` needs
that the seconds only grow from command to command (`ElapsedGrows`): a run in
which the deadline killed a command is over its deadline at the end, and gives
up. `OneToolIsInTime` adds up what each tool can cost: systemctl, the worst,
60 seconds for the thirteen commands of every run and 8 for each service.

`OneFaultIsInTime` follows, for any services `Validate` accepts: a single tool
that hangs leaves 2 of the 110 seconds at worst, with six services that all ask
systemctl. Nothing in the code keeps the commands that answer within them:
`apt-get` alone may take 30 seconds and answer. Such a run gives up, its alerts
wait for the next one, and that no tool is blamed for it is
`DeadlineBlamesNobody`.

One theorem has a hypothesis about constants:
`TimerKeepsTheAgentFresh` assumes an interval
of at least 145 seconds (the shipped one is 5 minutes): the last run may go on
for 120 seconds after the time it saved, this one may come 60 seconds late and
have spent 109 before it looks, and 120 + 60 + 109 = 289 < 2 x 145.

### ConfigStore

For any number of processes, commands, connections, tokens, intervals and
services:

| theorem | statement |
| --- | --- |
| `SavedConnectionsWereTested` | whatever overlaps, what is saved has delivered a test message |
| `EnabledTimersFindSettings` | whatever overlaps, an enabled timer finds a configuration and a token |
| `SavedPairsWereTested` | without overlaps, connection and token were tested together |
| `ChangesAreKept` | without overlaps, no change is lost |
| `TimerIsConfigured` | without overlaps, systemd has the configured interval |

All follow from `Invariance`, `Spec => []IInv`. What is saved was tested
because a command saves only what it has tested or what it has loaded
(`AboutToSave`). The last three say nothing of the commands in progress, which
is why they are not inductive: `Alone` says that commands that do not overlap
run alone, and `Snapshot` that what such a command has loaded is still what is
saved, at whichever step it is. `BeginKeeps` proves the start of every command
once; each step has a lemma of its own.

### SecureFile

For any number of calls and any size: `ReadersFindWholeFiles`,
`NamedFilesAreDurable` and `SecureFileImplementsAtomicFile`. The inductive
invariant relates each call's program counter to what it has written and
synced; `NamedIsDurable`, that whatever the path may name after a power cut is
whole and on disk, is what makes the other two hold.

### Installer

For any number of failing commands:

| theorem | statement |
| --- | --- |
| `UnitsAreLoaded` | when a script has ended, systemd has loaded what is installed, torn copies or not |
| `RollbackIsExact` | the rollback restores every file and the timer |
| `TimerMeetsOneVersion` | the timer runs only while all files are the old or all are the new ones |

The last two assume that a copy that fails leaves nothing behind (`~Tears`),
and `installer_torn` shows that they have to. `UnitsAreLoaded` has a small
invariant of its own (`InStep`). For the others `IInv` follows the files
through the script: what is backed up is the original, what is not replaced
yet is untouched, what has been replaced is new, what the rollback has
restored is the original again, each for the files before or after the point
that `todo` marks; and the timer stays stopped (`Halted`) in between.

### What is not proved

Every invariant and action property of the passing runs is stated by a
theorem. Out of the prover's reach and left to TLC are liveness under fairness
(`InstallationEnds`, `EveryAlertLeaves`) and `ENABLED`; that the recursive
functions of the model compute what the code's loops do is a matter of reading
them, their results are proved as said under `Queue`.

## Not modelled

- Parsing and formatting: the checks' parsers of /proc and of the commands'
  outputs (`CheckResults` starts from what they return), the configuration
  file, HTTP, TLS, SOCKS5, URL rules, the wording of messages.
- The 1 MiB limit of the queue file, which acts as `MaxEvents` does.
- A killed command that does not end: one in uninterruptible sleep, or whose
  descendants keep its output open, for which the runner waits 2 seconds more.
- Time: a clock that is set back within `Agent`, where the restore compares an
  alert's time with the last recovery's. `Delivery` has such a clock but no
  engine; both at once are too large for TLC. The age of the last run is
  judged after runs on time only (`since`), not after the machine was off.
- `status`, `doctor`, `services list` and the other reports: reads without a
  lock of what may change meanwhile, on which nothing acts. The detection of
  services and of the distribution: reads that keep no state.
- Malformed files: a run that meets one ends without effect. The fallback of a
  rejected cursor is modelled, but what the journal has dropped is not.
- The installer's options, download and verification, which change nothing
  that is installed; the wizard it may start; `--purge` beyond the override.
- Terminal input, text cleaning, version and release packaging.

## Plan

What is left: the wall clock, as one check's incident with a clock that is set
back.
