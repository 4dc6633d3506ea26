--------------------------------- MODULE Agent ---------------------------------
(***************************************************************************)
(* The agent: processes that run "check" (app.RunCheck) or "reset-state"   *)
(* (app.ResetState) under one file lock, the three files they keep in the  *)
(* state directory, the kernel journal they read and the Gotify server     *)
(* they report to.  Composes Engine and Queue.                             *)
(*                                                                         *)
(* One action is one step between two durable effects: loading the files,  *)
(* reading the journal, evaluating the results, each save, each delivery.  *)
(* After any of them the run may Stop: the machine crashes, the service's  *)
(* time limit passes, or the save about to be made fails.  The files then  *)
(* keep the last content saved, since securefile.Write replaces a file     *)
(* atomically.                                                             *)
(*                                                                         *)
(* Abstractions.                                                           *)
(*   - A page of the journal is a first part of what lies between the      *)
(*     cursor and its end: the numbers of the entries that match the       *)
(*     journal checks' patterns.                                           *)
(*   - The clock advances by one tick in every run; runs are the only      *)
(*     readers of it.                                                      *)
(*   - The batch a delivery sends is any prefix of the queue: its length   *)
(*     depends on the size of the messages, which are not modelled.        *)
(*   - The emergency notification of a failed save changes no state.       *)
(***************************************************************************)
EXTENDS Engine, Queue, Integers, FiniteSets, Functions

CONSTANTS
  Procs,            \* the processes that may run the agent
  Order,            \* the identifiers of the checks, in the order they run
  JournalChecks,    \* those that read the kernel journal
  Monitors,         \* {"delivery.queue"} if there is such a check, else {}
  CriticalAttempts, \* failed deliveries that make it CRITICAL (5)
  CriticalAge,      \* age of a queued event that makes it CRITICAL (24h)
  ResultsOf,        \* the results every other check can return
  Modes,            \* the ways the agent is run, a subset of AllModes
  InitialCursor,    \* what journal.cursor holds at first
  FirstWindow,      \* how far back a first run without a cursor reads (10m)
  JournalFaults,    \* what may go wrong with the journal, see ReadJournal
  MaxNow,           \* bound on the clock
  MaxEntries,       \* bound on the matching kernel messages
  MaxStops,         \* bound on the runs that are cut short
  MaxToggles        \* bound on the changes of the configuration

Checks == ToSet(Order)
AllModes == {"check", "baseline", "dry-run", "reset"}
NoProc == "none"
NoCursor == -1    \* no cursor file; 0 is a cursor before the first entry

ASSUME AgentAssumption ==
  /\ Order \in Seq(Checks) /\ IsInjective(Order)
  /\ NoProc \notin Procs
  /\ JournalChecks \subseteq Checks /\ Monitors \subseteq Checks \ JournalChecks
  /\ CriticalAttempts \in Nat /\ CriticalAge \in Nat /\ FirstWindow \in Nat
  /\ \A c \in Checks \ (JournalChecks \cup Monitors) :
       ResultsOf[c] \subseteq Results({"m"}, {NoOccurrence})
  /\ Modes \subseteq AllModes
  /\ InitialCursor \in {NoCursor, 0}
  /\ JournalFaults \subseteq {"failed", "rejected", "backlog"}
  /\ {MaxNow, MaxEntries, MaxStops, MaxToggles} \subseteq Nat

VARIABLES
  lock,       \* the process that holds the lock file, or NoProc
  run,        \* what each process holds in memory
  stateFile,  \* state.json: the last run and the checks' states
  queueFile,  \* queue.json
  cursorFile, \* journal.cursor: the number of the last entry read
  journal,    \* the times at which the matching kernel messages were logged
  now,        \* the clock
  enabled,    \* the checks the configuration enables
  stops,      \* the runs cut short so far
  toggles,    \* the configuration changes so far
  received,   \* ghost: the last event the server accepted about each check
  delivered,  \* ghost: the queued entries the server has accepted already
  surprises,  \* ghost: the kinds of event the server accepted out of turn
  settled,    \* ghost: the journal entries announced, or dropped on purpose
  dropped,    \* ghost: the checks an alert of which was dropped on purpose,
              \* the check being disabled or the queue full
  restarted   \* ghost: a baseline or a reset has replaced the state

files == <<stateFile, queueFile, cursorFile>>
outside == <<journal, now, enabled, stops, toggles>>
ghosts == <<received, delivered, surprises, settled, dropped, restarted>>
vars == <<lock, run, files, outside, ghosts>>

Idle == [pc |-> "idle"]
NewState == [lastRun |-> Never, checks |-> [c \in {} |-> NewCheck]]
Nothing == [check |-> "none", kind |-> "none", status |-> "OK"]

Ordinary == Checks \ JournalChecks
StateOf(checks, c) == IF c \in DOMAIN checks THEN checks[c] ELSE NewCheck
Entries(queue) == ToSet(queue.events)

Init ==
  /\ lock = NoProc
  /\ run = [p \in Procs |-> Idle]
  /\ stateFile = NewState
  /\ queueFile = EmptyQueue
  /\ cursorFile = InitialCursor
  /\ journal = <<>>
  /\ now = 1
  /\ enabled = Checks
  /\ stops = 0 /\ toggles = 0
  /\ received = [c \in Checks |-> Nothing]
  /\ delivered = {}
  /\ surprises = {}
  /\ settled = {}
  /\ dropped = {}
  /\ restarted = FALSE

\* The end of a run, however it ends, frees the lock and forgets the memory.
Leave(p) == lock' = NoProc /\ run' = [run EXCEPT ![p] = Idle]

Continue(p, next) == UNCHANGED lock /\ run' = [run EXCEPT ![p] = next]

At(p, pc) == run[p].pc = pc

-----------------------------------------------------------------------------
(* Starting a run *)

\* restorePendingState for one check and the latest event queued for it: an
\* event that was queued but whose state was not saved counts as announced.
RestoreCheck(check, entry) ==
  LET event == entry.event
      isOlder == /\ check.lastRecoveryAt # Never
                 /\ check.lastRecoveryAt >= entry.createdAt
  IN CASE event.kind = "recovery" /\ check.notified ->
            [check EXCEPT !.current = "OK", !.lastObserved = "OK",
                          !.notified = FALSE,
                          !.consecutiveFailures = 0,
                          !.consecutiveSuccesses = IF @ > 1 THEN @ ELSE 1]
       [] /\ event.kind \in {"problem", "escalation", "reminder"}
          /\ ~isOlder /\ ~check.notified /\ event.status \in Failing ->
            [check EXCEPT !.current = event.status, !.lastObserved = event.status,
                          !.notified = TRUE,
                          !.lastNotificationAt = entry.createdAt,
                          !.firstFailureAt = entry.createdAt,
                          !.consecutiveFailures = IF @ > 1 THEN @ ELSE 1,
                          !.consecutiveSuccesses = 0]
       [] OTHER -> check

\* Mutant of Restore: the queue is not consulted.
RestoreNothing(checks, events) == checks

Restore(checks, events) ==
  LET Restored(c) ==
        LET last == LastIndex(events, c)
        IN IF last = 0 THEN StateOf(checks, c)
           ELSE RestoreCheck(StateOf(checks, c), events[last])
  IN [c \in DOMAIN checks \cup {d \in Checks : Restored(d) # NewCheck} |-> Restored(c)]

\* What state.Load makes of the file.
LoadChecks(checks) == [c \in DOMAIN checks |-> LoadCheck(checks[c])]

NoPage == [failed |-> FALSE, entries |-> {}, cursor |-> NoCursor]

\* What RunCheck has in memory before the first check.
Loaded(mode) ==
  LET checks == LoadChecks(stateFile.checks)
  IN [pc |-> "collect", mode |-> mode, enabled |-> enabled,
      lastRun |-> stateFile.lastRun,
      checks |-> IF mode = "baseline" THEN checks ELSE Restore(checks, queueFile.events),
      pending |-> queueFile, overflow |-> {}, page |-> NoPage, time |-> Never]

\* Mutant of BeginCheck: the lock is not waited for.
BeginUnlocked(p, mode) ==
  /\ At(p, "idle")
  /\ lock' = p
  /\ run' = [run EXCEPT ![p] = Loaded(mode)]
  /\ UNCHANGED <<files, outside, ghosts>>

\* RunCheck up to the first check: the configuration, the lock, the files.
BeginCheck(p, mode) ==
  /\ At(p, "idle") /\ lock = NoProc
  /\ lock' = p
  /\ run' = [run EXCEPT ![p] = Loaded(mode)]
  /\ UNCHANGED <<files, outside, ghosts>>

-----------------------------------------------------------------------------
(* Running the checks *)

Since(time) == {i \in DOMAIN journal : journal[i] >= time}

WindowStart(lastRun) == IF lastRun = Never THEN now - FirstWindow ELSE lastRun

\* The pages read from these entries: all of them or, when they do not fit in
\* one page, the oldest.  The cursor to save is that of the last message read,
\* which may be one that matches nothing.
Pages(entries, cursor) ==
  LET UpTo(last) == [failed |-> FALSE, cursor |-> last,
                     entries |-> {i \in entries : i <= last}]
      oldest == {i \in entries : \A j \in entries : i <= j}
      newest == {i \in entries : \A j \in entries : i >= j}
  IN {UpTo(last) : last \in
        IF entries = {} THEN {cursor, Len(journal)}
        ELSE IF "backlog" \in JournalFaults THEN entries \cup {i - 1 : i \in oldest}
        ELSE newest}

\* collectKernelJournal: the entries after the cursor, or since the last run if
\* there is no cursor or journalctl rejects it.  A failed read leaves no cursor
\* to save.
ReadJournal(p) ==
  LET r == run[p]
      afterCursor == Pages({i \in DOMAIN journal : i > cursorFile}, cursorFile)
      sinceLastRun == Pages(Since(WindowStart(r.lastRun)), NoCursor)
  IN IF JournalChecks \cap r.enabled = {} THEN {NoPage}
     ELSE (IF cursorFile = NoCursor THEN sinceLastRun ELSE afterCursor)
          \cup {[NoPage EXCEPT !.failed = TRUE] : f \in JournalFaults \cap {"failed"}}
          \cup (IF "rejected" \in JournalFaults THEN sinceLastRun ELSE {})

\* checks.Run reads the journal before every other check.
Collect(p) ==
  /\ At(p, "collect")
  /\ \E page \in ReadJournal(p) :
       Continue(p, [run[p] EXCEPT !.pc = "observe", !.page = page])
  /\ UNCHANGED <<files, outside, ghosts>>

JournalResult(page) ==
  IF page.failed THEN Unknown
  ELSE IF page.entries = {} THEN Ok ELSE Result("CRITICAL", TRUE, page.entries)

\* checks.DeliveryQueue, on the queue as it was loaded.
QueueResult(queue) ==
  IF queue.events = <<>> THEN Ok
  ELSE IF \/ queue.attempts >= CriticalAttempts
          \/ \E entry \in Entries(queue) : now - entry.createdAt >= CriticalAge
  THEN Problem("CRITICAL", FALSE) ELSE Problem("WARNING", FALSE)

PossibleResults(p, c) ==
  IF c \in JournalChecks THEN {JournalResult(run[p].page)}
  ELSE IF c \in Monitors THEN {QueueResult(run[p].pending)}
  ELSE ResultsOf[c]

\* The events of a run, in the order of the checks.
EventsOf(results, outcomes) ==
  LET upTo[i \in 0 .. Len(Order)] ==
        IF i = 0 THEN <<>>
        ELSE LET c == Order[i]
             IN IF c \in DOMAIN results /\ outcomes[c].kind # "none"
                THEN Append(upTo[i - 1], NewEvent(c, results[c], outcomes[c]))
                ELSE upTo[i - 1]
  IN upTo[Len(Order)]

\* A dry run ends here, a baseline accepts the results, a check evaluates them
\* and updates the queue in memory.
Evaluate(p, results) ==
  LET r == run[p]
      time == now + 1
      outcomes == [c \in DOMAIN results |->
                     EvaluateCheck(StateOf(r.checks, c), results[c],
                                   c \in JournalChecks, time)]
      events == EventsOf(results, outcomes)
      retained == RetainChecks(r.pending, r.enabled)
      pending == Add(retained, events, time)
      overflow == ToSet(AddAll(retained.events, events, time)) \ Entries(pending)
      accepted == [c \in DOMAIN results |-> BaselineCheck(results[c], time)]
  IN CASE r.mode = "dry-run" -> Leave(p)
       [] r.mode = "baseline" ->
            Continue(p, [r EXCEPT !.pc = "saveState", !.time = time, !.checks = accepted])
       [] r.mode = "check" ->
            Continue(p, [r EXCEPT !.pc = "saveQueue", !.time = time,
                           !.pending = pending, !.overflow = overflow,
                           !.checks = [c \in DOMAIN results |-> outcomes[c].check]])

Observe(p) ==
  /\ At(p, "observe")
  /\ now < MaxNow /\ now' = now + 1
  /\ \E results \in [run[p].enabled -> UNION {PossibleResults(p, c) : c \in run[p].enabled}] :
       /\ \A c \in run[p].enabled : results[c] \in PossibleResults(p, c)
       /\ Evaluate(p, results)
  /\ UNCHANGED <<files, journal, enabled, stops, toggles, ghosts>>

-----------------------------------------------------------------------------
(* Saving what a run found: the queue, then the state, then the cursor *)

SaveQueue(p) ==
  LET r == run[p]
      unretained == {entry \in Entries(queueFile) : entry.event.check \notin r.enabled}
      overflowing == {entry.event.check : entry \in r.overflow}
  IN /\ At(p, "saveQueue")
     /\ queueFile' = r.pending
     /\ Continue(p, [r EXCEPT !.pc = "saveState"])
     /\ delivered' = delivered \cap Entries(r.pending)
     /\ dropped' = dropped \cup (Checks \ r.enabled) \cup overflowing
     /\ settled' = settled \cup UNION {entry.event.occurrence : entry \in r.overflow \cup unretained}
     /\ UNCHANGED <<stateFile, cursorFile, outside, received, surprises, restarted>>

SaveState(p) ==
  LET r == run[p]
  IN /\ At(p, "saveState")
     /\ stateFile' = [lastRun |-> r.time, checks |-> r.checks]
     /\ Continue(p, [r EXCEPT !.pc = "saveCursor"])
     /\ IF r.mode = "baseline"
        THEN restarted' = TRUE /\ settled' = settled \cup r.page.entries
        ELSE UNCHANGED <<restarted, settled>>
     /\ UNCHANGED <<queueFile, cursorFile, outside, received, delivered, surprises, dropped>>

\* Mutants of CursorAfter: it is never saved, it is the end of the journal.
CursorUnchanged(page) == cursorFile
CursorAtEnd(page) == Len(journal)

\* A run without a cursor to save leaves the file alone.
CursorAfter(page) == IF page.cursor = NoCursor THEN cursorFile ELSE page.cursor

\* After the last save a check goes on to deliver the queue when it is due; a
\* run that cannot read the token ends here too, which is Stop.
SaveCursor(p) ==
  LET r == run[p]
  IN /\ At(p, "saveCursor")
     /\ cursorFile' = CursorAfter(r.page)
     /\ IF r.mode = "check" /\ Ready(r.pending, r.time)
        THEN Continue(p, [r EXCEPT !.pc = "send"])
        ELSE Leave(p)
     /\ UNCHANGED <<stateFile, queueFile, outside, ghosts>>

-----------------------------------------------------------------------------
(* Delivering the queue *)

\* The ordinary checks whose alerts nobody has interfered with.
Undisturbed == IF restarted THEN {} ELSE Ordinary \ dropped

IsOpen(event) == event.kind \in {"problem", "escalation", "reminder"}

\* Would a reader who was told `before` be surprised by this event?
OutOfTurn(before, event) ==
  LET last == before.received[event.check]
  IN \/ /\ event.check \in Undisturbed
        /\ \/ event.kind = "problem" /\ IsOpen(last)
           \/ event.kind = "recovery" /\ ~IsOpen(last)
           \/ event.kind = "escalation" /\ IsOpen(last) /\ last.status = "CRITICAL"
     \/ event.occurrence \cap before.settled # {}

\* The server accepts one entry; one it has seen before is a repetition.
Accept(view, entry) ==
  LET event == entry.event
      isSurprise == entry \notin view.delivered /\ OutOfTurn(view, event)
  IN [received |-> [view.received EXCEPT ![event.check] = event],
      delivered |-> view.delivered \cup {entry},
      surprises |-> view.surprises \cup
                     (IF isSurprise THEN {event.kind} ELSE {}),
      settled |-> view.settled \cup event.occurrence]

ServerAccepts(batch) ==
  LET views[i \in 0 .. Len(batch)] ==
        IF i = 0 THEN [received |-> received, delivered |-> delivered,
                       surprises |-> surprises, settled |-> settled]
        ELSE Accept(views[i - 1], batch[i])
      view == views[Len(batch)]
  IN /\ received' = view.received
     /\ delivered' = view.delivered
     /\ surprises' = view.surprises
     /\ settled' = view.settled
     /\ UNCHANGED <<dropped, restarted>>

\* One turn of deliverQueued's loop: the server acknowledges the first n events,
\* never gets them, or accepts them and the acknowledgement is lost.
Send(p) ==
  LET r == run[p]
      failed == [r EXCEPT !.pc = "saveFailure", !.pending = MarkFailure(@, r.time)]
  IN /\ At(p, "send")
     /\ \E n \in 1..Len(r.pending.events) :
          \/ /\ ServerAccepts(SubSeq(r.pending.events, 1, n))
             /\ \/ Continue(p, [r EXCEPT !.pc = "saveDelivered",
                                         !.pending = MarkDelivered(@, n)])
                \/ Continue(p, failed)
          \/ Continue(p, failed) /\ UNCHANGED ghosts
     /\ UNCHANGED <<files, outside>>

SaveDelivered(p) ==
  LET r == run[p]
  IN /\ At(p, "saveDelivered")
     /\ queueFile' = r.pending
     /\ IF r.pending.events = <<>> THEN Leave(p)
        ELSE Continue(p, [r EXCEPT !.pc = "send"])
     /\ delivered' = delivered \cap Entries(r.pending)
     /\ UNCHANGED <<stateFile, cursorFile, outside, received, surprises, settled, dropped, restarted>>

SaveFailure(p) ==
  /\ At(p, "saveFailure")
  /\ queueFile' = run[p].pending
  /\ Leave(p)
  /\ UNCHANGED <<stateFile, cursorFile, outside, ghosts>>

\* The run is cut short: a crash, the time limit, an unreadable token, or a
\* failed save, which the agent only reports.
Stop(p) ==
  /\ ~At(p, "idle")
  /\ stops < MaxStops /\ stops' = stops + 1
  /\ Leave(p)
  /\ UNCHANGED <<files, journal, now, enabled, toggles, ghosts>>

-----------------------------------------------------------------------------
(* reset-state removes the three files one after the other *)

\* Mutant of BeginReset: the state is not removed.
BeginResetOfQueue(p) ==
  /\ At(p, "idle") /\ lock = NoProc
  /\ lock' = p
  /\ run' = [run EXCEPT ![p] = [pc |-> "removeQueue"]]
  /\ restarted' = TRUE
  /\ UNCHANGED <<files, outside, received, delivered, surprises, settled, dropped>>

BeginReset(p) ==
  /\ At(p, "idle") /\ lock = NoProc
  /\ lock' = p
  /\ run' = [run EXCEPT ![p] = [pc |-> "removeState"]]
  /\ restarted' = TRUE
  /\ UNCHANGED <<files, outside, received, delivered, surprises, settled, dropped>>

RemoveState(p) ==
  /\ At(p, "removeState")
  /\ stateFile' = NewState
  /\ Continue(p, [pc |-> "removeQueue"])
  /\ UNCHANGED <<queueFile, cursorFile, outside, ghosts>>

RemoveQueue(p) ==
  /\ At(p, "removeQueue")
  /\ queueFile' = EmptyQueue
  /\ Continue(p, [pc |-> "removeCursor"])
  /\ delivered' = {}
  /\ settled' = settled \cup DOMAIN journal
  /\ UNCHANGED <<stateFile, cursorFile, outside, received, surprises, dropped, restarted>>

RemoveCursor(p) ==
  /\ At(p, "removeCursor")
  /\ cursorFile' = NoCursor
  /\ Leave(p)
  /\ UNCHANGED <<stateFile, queueFile, outside, ghosts>>

-----------------------------------------------------------------------------
(* The world outside *)

\* An operator enables or disables a check; a running process keeps the
\* configuration it loaded.
Toggle ==
  /\ toggles < MaxToggles /\ toggles' = toggles + 1
  /\ \E c \in Checks :
       enabled' = IF c \in enabled THEN enabled \ {c} ELSE enabled \cup {c}
  /\ UNCHANGED <<lock, run, files, journal, now, stops, ghosts>>

LogKernelMessage ==
  /\ Len(journal) < MaxEntries
  /\ journal' = Append(journal, now)
  /\ UNCHANGED <<lock, run, files, now, enabled, stops, toggles, ghosts>>

Step(p) ==
  \/ \E mode \in Modes \ {"reset"} : BeginCheck(p, mode)
  \/ "reset" \in Modes /\ BeginReset(p)
  \/ Collect(p) \/ Observe(p)
  \/ SaveQueue(p) \/ SaveState(p) \/ SaveCursor(p)
  \/ Send(p) \/ SaveDelivered(p) \/ SaveFailure(p)
  \/ RemoveState(p) \/ RemoveQueue(p) \/ RemoveCursor(p)
  \/ Stop(p)

Next ==
  \/ \E p \in Procs : Step(p)
  \/ Toggle
  \/ LogKernelMessage

Spec == Init /\ [][Next]_vars

-----------------------------------------------------------------------------
(* Properties *)

Occurrences == SUBSET (1..MaxEntries)
Events == [check : Checks, kind : EventKinds, status : Statuses, message : {"m"},
           occurrence : Occurrences, since : Nat]
QueueEntries == [event : Events, createdAt : Nat]

\* A process holds something in memory exactly as long as it has the lock.
OneRun ==
  /\ lock \in Procs \cup {NoProc}
  /\ \A p \in Procs : lock = p <=> ~At(p, "idle")

\* The files hold what the code reads back, within the limits it enforces.
TypeOK ==
  /\ OneRun
  /\ stateFile.lastRun \in Nat
  /\ DOMAIN stateFile.checks \subseteq Checks
  /\ \A c \in DOMAIN stateFile.checks :
       stateFile.checks[c] \in CheckStates(Nat, Occurrences)
  /\ Entries(queueFile) \subseteq QueueEntries
  /\ Len(queueFile.events) <= MaxEvents
  /\ queueFile.attempts \in Nat /\ queueFile.nextAttemptAt \in Nat
  /\ cursorFile \in {NoCursor} \cup (0..MaxEntries)

\* What a run that starts now believes about a check.
Believed(c) ==
  StateOf(Restore(LoadChecks(stateFile.checks), queueFile.events), c)

\* The last event about a check that its reader has got or is going to get.
LastWord(c) ==
  LET last == LastIndex(queueFile.events, c)
  IN IF last # 0 THEN queueFile.events[last].event ELSE received[c]

\* Whenever a run is cut short, the next one believes in an open alert exactly
\* if the last thing said about the check is one: neither a lost save nor a
\* repeated delivery makes the agent forget an alert or imagine one.
BeliefMatchesMessages ==
  \A c \in Undisturbed : Believed(c).notified <=> IsOpen(LastWord(c))

\* Not even a reset or a baseline, cut short at any point or followed by runs
\* that are, makes the agent believe in an alert that nobody was told of.
NoImaginedAlert ==
  \A c \in Ordinary \ dropped : Believed(c).notified => IsOpen(LastWord(c))

\* A full queue drops its oldest entries: what it keeps is not older.
OverflowDropsOldest ==
  [][\A p \in Procs : At(p, "saveQueue") =>
       \A old \in run[p].overflow, kept \in Entries(queueFile') :
         queueFile' = run[p].pending => old.createdAt <= kept.createdAt]_vars

\* The reader of the alerts sees problems and recoveries take turns, but for
\* repetitions of a delivery whose acknowledgement was lost.
ProblemsAndRecoveriesAlternate == surprises \cap {"problem", "recovery"} = {}

\* README.md line 83: at most one escalation of an incident.
OneEscalationPerIncident == "escalation" \notin surprises

\* An entry leaves the queue file only when the server has accepted it, a newer
\* alert about its check has taken its place, or it was dropped on purpose.
OnlyDeliveredLeaves ==
  [][\A entry \in Entries(queueFile) \ Entries(queueFile') :
       \/ entry \in delivered
       \/ entry.event.check \in dropped'
       \/ \E p \in Procs : At(p, "removeQueue")
       \/ \E newer \in Entries(queueFile') :
            /\ newer.event.check = entry.event.check
            /\ newer.createdAt = entry.createdAt]_vars

\* A kernel message is announced by one event, repeated deliveries of that event
\* aside, unless a run was cut short between its saves.
KernelMessagesAnnouncedOnce == stops = 0 => "occurrence" \notin surprises

\* The cursor was computed when the journal was read and is saved several steps
\* later, while other processes start, wait for the lock and may be cut short:
\* it is never older than the one it replaces, unless journalctl rejected that
\* one, so that only a reset makes a run read the journal again.
CursorNeverGoesBack ==
  [][\/ cursorFile' >= cursorFile
     \/ "rejected" \in JournalFaults
     \/ \E p \in Procs : At(p, "removeCursor")]_vars

\* Between two runs, every kernel message is announced, queued, dropped on
\* purpose or still to be read by the next run.
NoEntrySkipped ==
  LET queued == UNION {entry.event.occurrence : entry \in Entries(queueFile)}
      toRead == IF cursorFile = NoCursor THEN Since(WindowStart(stateFile.lastRun))
                ELSE {i \in DOMAIN journal : i > cursorFile}
  IN lock = NoProc => DOMAIN journal \subseteq settled \cup queued \cup toRead
=============================================================================
