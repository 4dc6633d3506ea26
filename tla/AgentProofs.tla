------------------------------ MODULE AgentProofs ------------------------------
(***************************************************************************)
(* Theorems about Agent for any number of processes, checks, events in the *)
(* queue and kernel messages.                                              *)
(*                                                                         *)
(* First the lock: one run at a time touches the files (IInv), and because *)
(* of it the journal's cursor, computed long before it is saved, is never  *)
(* older than the one it replaces.                                         *)
(*                                                                         *)
(* Then what the files say and what the reader was told (FilesAgree): what *)
(* a run would recall of a check agrees with what the server has accepted, *)
(* followed by what is queued.  A step is described by the values it works *)
(* on, before and after; what the engine makes of one result is in         *)
(* EngineProofs, what the queue makes of its events in QueueProofs.        *)
(*                                                                         *)
(* Last the kernel messages: between the cursor that is saved and the one  *)
(* a run is going to save, every message is accounted for by the files     *)
(* before the cursor passes it (NothingSkipped), and none of them is       *)
(* announced again behind it (NothingRepeated).                            *)
(***************************************************************************)
EXTENDS Agent, EngineProofs, QueueProofs

\* The points a check passes, and those at which it holds a page it has read.
CheckSteps == {"collect", "observe", "saveQueue", "saveState", "saveCursor",
               "send", "saveDelivered", "saveFailure"}
PageSteps == {"observe", "saveQueue", "saveState", "saveCursor"}

MemoryFields == {"pc", "mode", "enabled", "lastRun", "checks", "pending", "overflow",
                 "page", "time"}

\* What a process has in memory.
Formed(memory) ==
  /\ "pc" \in DOMAIN memory
  /\ memory.pc \in CheckSteps =>
       /\ MemoryFields \subseteq DOMAIN memory
       /\ memory.mode \in AllModes \ {"reset"}

\* The page of a run that has not saved its cursor yet, against the cursor saved
\* and the length of the journal.
InOrder(memory, cursor, length) ==
  memory.pc \in PageSteps =>
    /\ memory.page.cursor \in Int
    /\ NoCursor <= memory.page.cursor /\ memory.page.cursor <= length
    /\ \/ memory.page.cursor = NoCursor
       \/ memory.page.cursor >= cursor
       \/ "rejected" \in JournalFaults

Memory == DOMAIN run = Procs /\ \A p \in Procs : Formed(run[p])

CursorInJournal ==
  /\ journal \in Seq(Nat) /\ now \in Nat
  /\ cursorFile \in Int /\ NoCursor <= cursorFile /\ cursorFile <= Len(journal)

PagesInOrder == \A p \in Procs : InOrder(run[p], cursorFile, Len(journal))

IInv == OneRun /\ Memory /\ CursorInJournal /\ PagesInOrder

\* What every step of a process does to the lock, its memory and the cursor.
Moves(p) ==
  /\ DOMAIN run' = Procs /\ \A q \in Procs \ {p} : run'[q] = run[q]
  /\ Formed(run'[p])
  /\ \/ run[p].pc = "idle" /\ lock = NoProc /\ lock' = p /\ run'[p].pc # "idle"
     \/ run[p].pc # "idle" /\ lock' = IF run'[p].pc = "idle" THEN NoProc ELSE lock

MovesCursor(p) ==
  /\ journal' = journal /\ now' \in Nat
  /\ cursorFile' \in Int /\ NoCursor <= cursorFile' /\ cursorFile' <= Len(journal)
  /\ InOrder(run'[p], cursorFile', Len(journal))
  /\ \/ cursorFile' >= cursorFile
     \/ "rejected" \in JournalFaults
     \/ At(p, "removeCursor")
  /\ run[p].pc = "idle" => UNCHANGED files

-----------------------------------------------------------------------------
(* Reading the journal *)

\* A page ends at the end of the journal at the latest, and not before the cursor
\* it was read from.
LEMMA PageFollowsCursor ==
  ASSUME CursorInJournal, NEW cursor \in Int, NoCursor <= cursor, cursor <= Len(journal),
         NEW entries \in SUBSET DOMAIN journal, \A i \in entries : i > cursor,
         NEW page \in Pages(entries, cursor)
  PROVE  page.cursor \in Int /\ cursor <= page.cursor /\ page.cursor <= Len(journal)
PROOF
<1>1. Len(journal) \in Nat /\ DOMAIN journal = 1 .. Len(journal)
  BY DEF CursorInJournal
<1>2. PICK last \in {cursor, Len(journal)} \cup entries \cup {i - 1 : i \in entries} :
        page = [failed |-> FALSE, cursor |-> last, entries |-> {i \in entries : i <= last}]
  BY DEF Pages
<1>3. last \in Int /\ cursor <= last /\ last <= Len(journal)
  BY <1>1, <1>2
<1> QED BY <1>2, <1>3

\* What a run reads follows the cursor that is saved.
LEMMA ReadFollowsCursor ==
  ASSUME CursorInJournal, NEW p \in Procs, NEW page \in ReadJournal(p)
  PROVE  /\ page.cursor \in Int /\ NoCursor <= page.cursor /\ page.cursor <= Len(journal)
         /\ \/ page.cursor = NoCursor
            \/ page.cursor >= cursorFile
            \/ "rejected" \in JournalFaults
PROOF
<1> DEFINE since == Since(WindowStart(run[p].lastRun))
           after == {i \in DOMAIN journal : i > cursorFile}
<1>1. Len(journal) \in Nat /\ DOMAIN journal = 1 .. Len(journal)
  BY DEF CursorInJournal
<1>2. since \in SUBSET DOMAIN journal /\ after \in SUBSET DOMAIN journal
  BY DEF Since
<1>3. \A i \in DOMAIN journal : i > NoCursor
  BY <1>1 DEF NoCursor
<1> HIDE DEF since
<1>4. ASSUME page \in Pages(since, NoCursor)
      PROVE  page.cursor \in Int /\ NoCursor <= page.cursor /\ page.cursor <= Len(journal)
  BY <1>1, <1>2, <1>3, <1>4, PageFollowsCursor DEF NoCursor
<1>5. ASSUME page \in Pages(after, cursorFile)
      PROVE  page.cursor \in Int /\ cursorFile <= page.cursor /\ page.cursor <= Len(journal)
  BY <1>2, <1>5, PageFollowsCursor DEF CursorInJournal
<1>6. ASSUME page \in {NoPage, [NoPage EXCEPT !.failed = TRUE]}
      PROVE  page.cursor = NoCursor
  BY <1>6 DEF NoPage
<1>7. \/ page \in {NoPage, [NoPage EXCEPT !.failed = TRUE]}
      \/ cursorFile = NoCursor /\ page \in Pages(since, NoCursor)
      \/ page \in Pages(after, cursorFile)
      \/ "rejected" \in JournalFaults /\ page \in Pages(since, NoCursor)
  BY DEF ReadJournal, since
<1> QED BY <1>1, <1>4, <1>5, <1>6, <1>7 DEF NoCursor, CursorInJournal

-----------------------------------------------------------------------------
(* The steps of a process *)

\* A run that goes on.
LEMMA ContinueMoves ==
  ASSUME IInv, NEW p \in Procs, run[p].pc # "idle", NEW next, Formed(next),
         next.pc # "idle", Continue(p, next)
  PROVE  Moves(p) /\ run'[p] = next
PROOF
  BY DEF IInv, Memory, Continue, Moves

\* A run that ends.
LEMMA LeaveMoves ==
  ASSUME IInv, NEW p \in Procs, run[p].pc # "idle", Leave(p)
  PROVE  Moves(p) /\ run'[p].pc = "idle"
PROOF
  BY DEF IInv, Memory, Leave, Moves, Idle, Formed, CheckSteps

\* What the fields of a process that runs a check are, and stay.
LEMMA FieldsKept ==
  ASSUME NEW memory, Formed(memory), memory.pc \in CheckSteps, NEW pc \in CheckSteps
  PROVE  /\ Formed([memory EXCEPT !.pc = pc])
         /\ [memory EXCEPT !.pc = pc].pc = pc
         /\ [memory EXCEPT !.pc = pc].page = memory.page
PROOF
  BY DEF Formed, CheckSteps

\* Evaluating the results keeps the page for the saves, or ends the run.
LEMMA EvaluateContinues ==
  ASSUME NEW p, Formed(run[p]), run[p].pc = "observe", NEW results, Evaluate(p, results)
  PROVE  \E next : /\ Leave(p) \/ Continue(p, next)
                   /\ Formed(next) /\ next.pc \in PageSteps /\ next.page = run[p].page
PROOF
<1>1. run[p].mode \in {"check", "baseline", "dry-run"}
  BY DEF Formed, CheckSteps, AllModes
<1>2. ASSUME NEW time, NEW checks
      PROVE  LET next == [run[p] EXCEPT !.pc = "saveState", !.time = time, !.checks = checks]
             IN Formed(next) /\ next.pc \in PageSteps /\ next.page = run[p].page
  BY DEF Formed, CheckSteps, PageSteps
<1>3. CASE run[p].mode = "dry-run"
  <2>1. Leave(p)
    BY <1>3 DEF Evaluate
  <2> QED BY <1>2, <2>1
<1>4. CASE run[p].mode = "baseline"
  <2>1. \E time, checks :
          Continue(p, [run[p] EXCEPT !.pc = "saveState", !.time = time, !.checks = checks])
    BY <1>4 DEF Evaluate
  <2> QED BY <1>2, <2>1
<1>5. CASE run[p].mode = "check"
  <2>1. PICK time, pending, overflow, checks :
          Continue(p, [run[p] EXCEPT !.pc = "saveQueue", !.time = time,
                         !.pending = pending, !.overflow = overflow, !.checks = checks])
    BY <1>5 DEF Evaluate
  <2> DEFINE next == [run[p] EXCEPT !.pc = "saveQueue", !.time = time,
                        !.pending = pending, !.overflow = overflow, !.checks = checks]
  <2>2. Formed(next) /\ next.pc \in PageSteps /\ next.page = run[p].page
    BY DEF Formed, CheckSteps, PageSteps
  <2>3. Continue(p, next)
    BY <2>1
  <2> HIDE DEF next
  <2> QED BY <2>2, <2>3
<1> QED BY <1>1, <1>3, <1>4, <1>5

\* A step that leaves the cursor and the journal alone, and no new page in memory.
LEMMA CursorUnmoved ==
  ASSUME CursorInJournal, NEW p \in Procs, InOrder(run[p], cursorFile, Len(journal)),
         run[p].pc # "idle", cursorFile' = cursorFile, journal' = journal, now' \in Nat,
         \/ run'[p].pc \notin PageSteps
         \/ run[p].pc \in PageSteps /\ run'[p].page = run[p].page
  PROVE  MovesCursor(p)
PROOF
<1>1. InOrder(run'[p], cursorFile, Len(journal))
  BY DEF InOrder
<1> QED BY <1>1 DEF MovesCursor, CursorInJournal

\* Each step of a process changes the lock, its memory and the cursor as Moves and
\* MovesCursor say.
LEMMA StepMoves ==
  ASSUME AgentAssumption, IInv, NEW p \in Procs, Step(p)
  PROVE  Moves(p) /\ MovesCursor(p)
PROOF
<1> USE DEF At, files, outside
<1>a. /\ DOMAIN run = Procs /\ Formed(run[p])
      /\ CursorInJournal /\ InOrder(run[p], cursorFile, Len(journal))
      /\ Len(journal) \in Nat
  BY DEF IInv, Memory, CursorInJournal, PagesInOrder
<1>1. ASSUME NEW mode \in Modes \ {"reset"}, BeginCheck(p, mode)
      PROVE  Moves(p) /\ MovesCursor(p)
  <2>1. Formed(Loaded(mode)) /\ Loaded(mode).pc = "collect"
    <3>1. mode \in AllModes \ {"reset"}
      BY DEF AgentAssumption
    <3>2. /\ MemoryFields \subseteq DOMAIN Loaded(mode)
          /\ Loaded(mode).mode = mode /\ Loaded(mode).pc = "collect"
      BY DEF Loaded, MemoryFields
    <3> QED BY <3>1, <3>2 DEF Formed, MemoryFields
  <2>2. run'[p] = Loaded(mode) /\ \A q \in Procs \ {p} : run'[q] = run[q]
    BY <1>1, <1>a DEF BeginCheck
  <2>3. Moves(p)
    BY <1>1, <1>a, <2>1, <2>2 DEF BeginCheck, Moves
  <2> QED BY <1>1, <1>a, <2>1, <2>2, <2>3
          DEF BeginCheck, MovesCursor, InOrder, PageSteps, CursorInJournal
<1>2. CASE BeginReset(p)
  <2>1. Formed([pc |-> "removeState"])
    BY DEF Formed, CheckSteps
  <2>2. Moves(p) /\ run'[p].pc = "removeState"
    BY <1>2, <1>a, <2>1 DEF BeginReset, Moves
  <2> QED BY <1>2, <1>a, <2>2 DEF BeginReset, MovesCursor, InOrder, PageSteps, CursorInJournal
<1>3. CASE Collect(p)
  <2>1. PICK page \in ReadJournal(p) :
          Continue(p, [run[p] EXCEPT !.pc = "observe", !.page = page])
    BY <1>3 DEF Collect
  <2> DEFINE next == [run[p] EXCEPT !.pc = "observe", !.page = page]
  <2>2. Formed(next) /\ next.pc = "observe" /\ next.page = page
    BY <1>3, <1>a DEF Collect, Formed, CheckSteps
  <2>3. InOrder(next, cursorFile, Len(journal))
    BY <1>a, <2>2, ReadFollowsCursor DEF InOrder
  <2> HIDE DEF next
  <2>4. Moves(p) /\ run'[p] = next
    BY <1>3, <2>1, <2>2, ContinueMoves DEF Collect, next
  <2> QED BY <1>3, <1>a, <2>3, <2>4 DEF Collect, MovesCursor, CursorInJournal
<1>4. CASE Observe(p)
  <2>1. PICK next : /\ Leave(p) \/ Continue(p, next)
                    /\ Formed(next) /\ next.pc \in PageSteps /\ next.page = run[p].page
    <3>1. PICK results : Evaluate(p, results)
      BY <1>4 DEF Observe
    <3> QED BY <1>4, <1>a, <3>1, EvaluateContinues DEF Observe
  <2>2. Moves(p) /\ run'[p] \in {Idle, next}
    <3>1. run[p].pc # "idle" /\ next.pc # "idle"
      BY <1>4, <2>1 DEF Observe, PageSteps
    <3>2. CASE Continue(p, next)
      BY <2>1, <3>1, <3>2, ContinueMoves
    <3>3. CASE Leave(p)
      <4>1. Moves(p)
        BY <3>1, <3>3, LeaveMoves
      <4>2. run'[p] = Idle
        BY <1>a, <3>3 DEF Leave
      <4> QED BY <4>1, <4>2
    <3> QED BY <2>1, <3>2, <3>3
  <2>3. \/ run'[p].pc \notin PageSteps
        \/ run[p].pc \in PageSteps /\ run'[p].page = run[p].page
    BY <1>4, <2>1, <2>2 DEF Observe, PageSteps, Idle
  <2>4. run[p].pc # "idle" /\ cursorFile' = cursorFile /\ journal' = journal /\ now' \in Nat
    <3>1. run[p].pc # "idle" /\ cursorFile' = cursorFile /\ journal' = journal /\ now' = now + 1
      BY <1>4 DEF Observe
    <3>2. now \in Nat
      BY <1>a DEF CursorInJournal
    <3> QED BY ONLY <3>1, <3>2
  <2> QED BY <1>a, <2>2, <2>3, <2>4, CursorUnmoved
<1>5. CASE SaveQueue(p)
  <2> DEFINE next == [run[p] EXCEPT !.pc = "saveState"]
  <2>1. Formed(next) /\ next.pc = "saveState" /\ next.page = run[p].page
    BY <1>5, <1>a, FieldsKept DEF SaveQueue, CheckSteps
  <2> HIDE DEF next
  <2>2. Moves(p) /\ run'[p] = next
    BY <1>5, <2>1, ContinueMoves DEF SaveQueue, next
  <2>3. /\ run[p].pc # "idle" /\ cursorFile' = cursorFile /\ journal' = journal
        /\ now' \in Nat /\ run[p].pc \in PageSteps
    BY <1>5, <1>a DEF SaveQueue, CursorInJournal, PageSteps
  <2> QED BY <1>a, <2>1, <2>2, <2>3, CursorUnmoved
<1>6. CASE SaveState(p)
  <2> DEFINE next == [run[p] EXCEPT !.pc = "saveCursor"]
  <2>1. Formed(next) /\ next.pc = "saveCursor" /\ next.page = run[p].page
    BY <1>6, <1>a, FieldsKept DEF SaveState, CheckSteps
  <2> HIDE DEF next
  <2>2. Moves(p) /\ run'[p] = next
    BY <1>6, <2>1, ContinueMoves DEF SaveState, next
  <2>3. /\ run[p].pc # "idle" /\ cursorFile' = cursorFile /\ journal' = journal
        /\ now' \in Nat /\ run[p].pc \in PageSteps
    BY <1>6, <1>a DEF SaveState, CursorInJournal, PageSteps
  <2> QED BY <1>a, <2>1, <2>2, <2>3, CursorUnmoved
<1>7. CASE SaveCursor(p)
  <2> DEFINE next == [run[p] EXCEPT !.pc = "send"]
  <2>1. Formed(next) /\ next.pc = "send"
    BY <1>7, <1>a, FieldsKept DEF SaveCursor, CheckSteps
  <2> HIDE DEF next
  <2>2. Leave(p) \/ Continue(p, next)
    BY <1>7 DEF SaveCursor, next
  <2>3. Moves(p) /\ run'[p].pc \in {"idle", "send"}
    BY <1>7, <2>1, <2>2, ContinueMoves, LeaveMoves DEF SaveCursor
  <2>4. /\ cursorFile' \in Int /\ NoCursor <= cursorFile' /\ cursorFile' <= Len(journal)
        /\ cursorFile' >= cursorFile \/ "rejected" \in JournalFaults
    <3>1. cursorFile' = CursorAfter(run[p].page) /\ run[p].pc \in PageSteps
      BY <1>7 DEF SaveCursor, PageSteps
    <3>2. /\ run[p].page.cursor \in Int
          /\ NoCursor <= run[p].page.cursor /\ run[p].page.cursor <= Len(journal)
          /\ \/ run[p].page.cursor = NoCursor
             \/ run[p].page.cursor >= cursorFile
             \/ "rejected" \in JournalFaults
      BY <1>a, <3>1 DEF InOrder
    <3>3. cursorFile \in Int /\ NoCursor <= cursorFile /\ cursorFile <= Len(journal)
      BY <1>a DEF CursorInJournal
    <3> QED BY ONLY <3>1, <3>2, <3>3 DEF CursorAfter
  <2> QED BY <1>7, <1>a, <2>3, <2>4
          DEF SaveCursor, MovesCursor, InOrder, PageSteps, CursorInJournal
<1>8. CASE Send(p)
  <2>1. PICK next : Continue(p, next) /\ Formed(next) /\ next.pc \in {"saveDelivered", "saveFailure"}
    <3>1. PICK batch :
            \/ Continue(p, [run[p] EXCEPT !.pc = "saveDelivered",
                              !.pending = MarkDelivered(run[p].pending, batch)])
            \/ Continue(p, [run[p] EXCEPT !.pc = "saveFailure",
                              !.pending = MarkFailure(run[p].pending, run[p].time)])
      BY <1>8, <1>a DEF Send, Formed, CheckSteps
    <3> DEFINE acknowledged == [run[p] EXCEPT !.pc = "saveDelivered",
                                !.pending = MarkDelivered(run[p].pending, batch)]
               failed == [run[p] EXCEPT !.pc = "saveFailure",
                            !.pending = MarkFailure(run[p].pending, run[p].time)]
    <3>2. run[p].pc \in CheckSteps
      BY <1>8 DEF Send, CheckSteps
    <3>3. Formed(acknowledged) /\ acknowledged.pc = "saveDelivered"
      BY <1>a, <3>2 DEF Formed, CheckSteps
    <3>4. Formed(failed) /\ failed.pc = "saveFailure"
      BY <1>a, <3>2 DEF Formed, CheckSteps
    <3>5. Continue(p, acknowledged) \/ Continue(p, failed)
      BY <3>1
    <3> HIDE DEF acknowledged, failed
    <3> QED BY <3>3, <3>4, <3>5
  <2>2. Moves(p) /\ run'[p] = next
    BY <1>8, <2>1, ContinueMoves DEF Send
  <2>3. run[p].pc # "idle" /\ cursorFile' = cursorFile /\ journal' = journal /\ now' \in Nat
    BY <1>8, <1>a DEF Send, CursorInJournal
  <2>4. run'[p].pc \notin PageSteps
    BY <2>1, <2>2 DEF PageSteps
  <2> QED BY <1>a, <2>2, <2>3, <2>4, CursorUnmoved
<1>9. CASE SaveDelivered(p)
  <2> DEFINE next == [run[p] EXCEPT !.pc = "send"]
  <2>1. Formed(next) /\ next.pc = "send"
    BY <1>9, <1>a, FieldsKept DEF SaveDelivered, CheckSteps
  <2> HIDE DEF next
  <2>2. Leave(p) \/ Continue(p, next)
    BY <1>9 DEF SaveDelivered, next
  <2>3. Moves(p) /\ run'[p].pc \in {"idle", "send"}
    BY <1>9, <2>1, <2>2, ContinueMoves, LeaveMoves DEF SaveDelivered
  <2>4. run[p].pc # "idle" /\ cursorFile' = cursorFile /\ journal' = journal /\ now' \in Nat
    BY <1>9, <1>a DEF SaveDelivered, CursorInJournal
  <2>5. run'[p].pc \notin PageSteps
    BY <2>3 DEF PageSteps
  <2> QED BY <1>a, <2>3, <2>4, <2>5, CursorUnmoved
<1>10. CASE SaveFailure(p)
  <2>1. Moves(p) /\ run'[p].pc = "idle"
    BY <1>10, LeaveMoves DEF SaveFailure
  <2>2. run[p].pc # "idle" /\ cursorFile' = cursorFile /\ journal' = journal /\ now' \in Nat
    BY <1>10, <1>a DEF SaveFailure, CursorInJournal
  <2>3. run'[p].pc \notin PageSteps
    BY <2>1 DEF PageSteps
  <2> QED BY <1>a, <2>1, <2>2, <2>3, CursorUnmoved
<1>11. CASE RemoveState(p)
  <2>1. Formed([pc |-> "removeQueue"])
    BY DEF Formed, CheckSteps
  <2>2. Moves(p) /\ run'[p] = [pc |-> "removeQueue"]
    BY <1>11, <2>1, ContinueMoves DEF RemoveState
  <2>3. run[p].pc # "idle" /\ cursorFile' = cursorFile /\ journal' = journal /\ now' \in Nat
    BY <1>11, <1>a DEF RemoveState, CursorInJournal
  <2>4. run'[p].pc \notin PageSteps
    BY <2>2 DEF PageSteps
  <2> QED BY <1>a, <2>2, <2>3, <2>4, CursorUnmoved
<1>12. CASE RemoveQueue(p)
  <2>1. Formed([pc |-> "removeCursor"])
    BY DEF Formed, CheckSteps
  <2>2. Moves(p) /\ run'[p] = [pc |-> "removeCursor"]
    BY <1>12, <2>1, ContinueMoves DEF RemoveQueue
  <2>3. run[p].pc # "idle" /\ cursorFile' = cursorFile /\ journal' = journal /\ now' \in Nat
    BY <1>12, <1>a DEF RemoveQueue, CursorInJournal
  <2>4. run'[p].pc \notin PageSteps
    BY <2>2 DEF PageSteps
  <2> QED BY <1>a, <2>2, <2>3, <2>4, CursorUnmoved
<1>13. CASE RemoveCursor(p)
  <2>1. Moves(p) /\ run'[p].pc = "idle"
    BY <1>13, LeaveMoves DEF RemoveCursor
  <2> QED BY <1>13, <1>a, <2>1
          DEF RemoveCursor, MovesCursor, InOrder, PageSteps, CursorInJournal, NoCursor
<1>14. CASE Stop(p)
  <2>1. Moves(p) /\ run'[p].pc = "idle"
    BY <1>14, LeaveMoves DEF Stop
  <2>2. run[p].pc # "idle" /\ cursorFile' = cursorFile /\ journal' = journal /\ now' \in Nat
    BY <1>14, <1>a DEF Stop, CursorInJournal
  <2>3. run'[p].pc \notin PageSteps
    BY <2>1 DEF PageSteps
  <2> QED BY <1>a, <2>1, <2>2, <2>3, CursorUnmoved
<1> QED BY <1>1, <1>2, <1>3, <1>4, <1>5, <1>6, <1>7, <1>8, <1>9, <1>10, <1>11, <1>12,
           <1>13, <1>14 DEF Step

-----------------------------------------------------------------------------
(* The invariant *)

\* No process has started.
LEMMA InitIInv == AgentAssumption /\ Init => IInv
PROOF
<1> SUFFICES ASSUME AgentAssumption, Init PROVE IInv
  OBVIOUS
<1>1. OneRun /\ Memory
  BY DEF Init, OneRun, Memory, At, Idle, Formed, CheckSteps, AgentAssumption
<1>2. CursorInJournal
  BY DEF Init, CursorInJournal, NoCursor, AgentAssumption
<1>3. PagesInOrder
  BY DEF Init, PagesInOrder, InOrder, PageSteps, Idle
<1> QED BY <1>1, <1>2, <1>3 DEF IInv

\* A process that has read the journal has the lock, so that nobody else moves the
\* cursor until it saves its own.
LEMMA StepKeepsIInv ==
  ASSUME AgentAssumption, IInv, NEW p \in Procs, Step(p)
  PROVE  IInv'
PROOF
<1>1. Moves(p) /\ MovesCursor(p)
  BY StepMoves
<1>2. OneRun'
  BY <1>1 DEF AgentAssumption, IInv, OneRun, At, Moves
<1>3. Memory'
  BY <1>1 DEF IInv, Memory, Moves
<1>4. CursorInJournal'
  BY <1>1 DEF IInv, CursorInJournal, MovesCursor
<1>5. ASSUME NEW q \in Procs PROVE InOrder(run'[q], cursorFile', Len(journal'))
  <2>1. CASE q = p
    BY <1>1, <2>1 DEF MovesCursor
  <2>2. CASE q # p
    <3>1. run'[q] = run[q] /\ journal' = journal
      BY <1>1, <2>2 DEF Moves, MovesCursor
    <3>2. CASE run[q].pc \in PageSteps
      <4>1. lock = q /\ run[p].pc = "idle"
        BY <2>2, <3>2 DEF IInv, OneRun, At, PageSteps
      <4>2. cursorFile' = cursorFile
        BY <1>1, <4>1 DEF MovesCursor, files
      <4> QED BY <3>1, <4>2 DEF IInv, PagesInOrder
    <3>3. CASE run[q].pc \notin PageSteps
      BY <3>1, <3>3 DEF InOrder
    <3> QED BY <3>2, <3>3
  <2> QED BY <2>1, <2>2
<1> QED BY <1>2, <1>3, <1>4, <1>5 DEF IInv, PagesInOrder

\* Whatever happens outside only makes the journal longer.
LEMMA NextIInv == AgentAssumption /\ IInv /\ [Next]_vars => IInv'
PROOF
<1> SUFFICES ASSUME AgentAssumption, IInv, [Next]_vars PROVE IInv'
  OBVIOUS
<1>1. CASE \E p \in Procs : Step(p)
  BY <1>1, StepKeepsIInv
<1>2. CASE Toggle \/ UNCHANGED vars
  BY <1>2 DEF Toggle, vars, files, outside, IInv, OneRun, At, Memory, CursorInJournal, PagesInOrder
<1>3. CASE LogKernelMessage
  <2>1. UNCHANGED <<lock, run, cursorFile, now>>
    BY <1>3 DEF LogKernelMessage, files
  <2>2. journal' \in Seq(Nat) /\ Len(journal') = Len(journal) + 1 /\ Len(journal) \in Nat
    BY <1>3 DEF LogKernelMessage, IInv, CursorInJournal
  <2>3. OneRun' /\ Memory'
    BY <2>1 DEF IInv, OneRun, At, Memory
  <2>4. CursorInJournal'
    BY <2>1, <2>2 DEF IInv, CursorInJournal
  <2>5. ASSUME NEW p \in Procs PROVE InOrder(run[p], cursorFile, Len(journal))'
    <3>1. InOrder(run[p], cursorFile, Len(journal))
      BY DEF IInv, PagesInOrder
    <3>2. \A i \in Int : i <= Len(journal) => i <= Len(journal')
      BY <2>2
    <3> QED BY ONLY <2>1, <3>1, <3>2 DEF InOrder
  <2> QED BY <2>3, <2>4, <2>5 DEF IInv, PagesInOrder
<1> QED BY <1>1, <1>2, <1>3 DEF Next

\* The invariant holds in every reachable state.
LEMMA Invariance == Spec => []IInv
PROOF
<1>1. Init => IInv
  BY InitIInv, AgentAssumption
<1>2. IInv /\ [Next]_vars => IInv'
  BY NextIInv, AgentAssumption
<1> QED BY <1>1, <1>2, PTL DEF Spec

-----------------------------------------------------------------------------
(* Theorems: the lock and the cursor *)

\* The lock of app.RunCheck and app.ResetState: however many processes are started,
\* and wherever they are cut short, at most one of them has loaded the files.
THEOREM RunsTakeTurns == Spec => []OneRun
PROOF
<1>1. IInv => OneRun
  BY DEF IInv
<1> QED BY <1>1, Invariance, PTL

FilesChangeUnderLock ==
  [][files' = files \/ \E p \in Procs : lock = p /\ \A q \in Procs \ {p} : At(q, "idle")]_vars

\* A file only changes while one process holds the lock and no other has started:
\* the saves of two runs never mix.
THEOREM HolderChangesFiles == Spec => FilesChangeUnderLock
PROOF
<1> DEFINE A == files' = files
                  \/ \E p \in Procs : lock = p /\ \A q \in Procs \ {p} : At(q, "idle")
<1>1. ASSUME IInv, NEW p \in Procs, Step(p) PROVE A
  <2>1. run[p].pc = "idle" => files' = files
    BY <1>1, StepMoves, AgentAssumption DEF MovesCursor
  <2>2. run[p].pc # "idle" => lock = p /\ \A q \in Procs \ {p} : At(q, "idle")
    BY <1>1 DEF IInv, OneRun, At
  <2> QED BY <2>1, <2>2
<1>2. IInv /\ [Next]_vars => [A]_vars
  <2> SUFFICES ASSUME IInv, Next PROVE A
    OBVIOUS
  <2> HIDE DEF A
  <2>1. CASE Toggle \/ LogKernelMessage
    BY <2>1 DEF Toggle, LogKernelMessage, files, A
  <2> QED BY <1>1, <2>1 DEF Next
<1> QED BY <1>2, Invariance, PTL DEF Spec, FilesChangeUnderLock

\* journal.cursor only moves on: saveJournalCursor never undoes what an earlier run
\* saved, because the page it belongs to was read under the same lock.
THEOREM CursorMovesOn == Spec => CursorNeverGoesBack
PROOF
<1> DEFINE A == \/ cursorFile' >= cursorFile
                \/ "rejected" \in JournalFaults
                \/ \E p \in Procs : At(p, "removeCursor")
<1>1. ASSUME IInv, NEW p \in Procs, Step(p) PROVE A
  BY <1>1, StepMoves, AgentAssumption DEF MovesCursor
<1>2. IInv /\ [Next]_vars => [A]_vars
  <2> SUFFICES ASSUME IInv, Next PROVE A
    OBVIOUS
  <2>1. CASE Toggle \/ LogKernelMessage
    BY <2>1 DEF Toggle, LogKernelMessage, files, IInv, CursorInJournal
  <2> HIDE DEF A
  <2> QED BY <1>1, <2>1 DEF Next
<1> QED BY <1>2, Invariance, PTL DEF Spec, CursorNeverGoesBack

-----------------------------------------------------------------------------
(* What a run believes about a check *)

\* The state a run works with, as a value, so that a step can be described by the
\* values before and after it.
World == [queue |-> queueFile, checks |-> stateFile.checks, now |-> now,
          received |-> received, delivered |-> delivered, dropped |-> dropped,
          restarted |-> restarted]

\* The last event about a check that its reader has got or is going to get, with
\* these entries in the queue.
Said(events, c, w) ==
  LET last == LastIndex(events, c)
  IN IF last # 0 THEN events[last].event ELSE w.received[c]

\* What a run makes of the state of a check and the queue.
Recalled(checks, events, c) ==
  LET last == LastIndex(events, c)
  IN IF last = 0 THEN StateOf(checks, c) ELSE RestoreCheck(StateOf(checks, c), events[last])

\* A check is believed to be notified about exactly if the last thing said is an alert;
\* after a baseline or a reset, or without recoveries, only then.
Agrees(check, event, w) ==
  /\ check.notified => IsOpen(event)
  /\ NotifyRecovery /\ ~w.restarted /\ IsOpen(event) => check.notified

\* What the engine says of a check.
WellSaid(event) ==
  /\ event.kind # "occurrence" => event.occurrence = NoOccurrence
  /\ event.check \in Ordinary => event.kind # "occurrence"
  /\ IsOpen(event) => event.status \in Failing

GoodCheck(check, time) ==
  /\ check \in CheckStates(Nat, Occurrences) /\ LoadCheck(check) = check
  /\ check.lastRecoveryAt <= time

GoodChecks(checks, time) ==
  DOMAIN checks \subseteq Checks /\ \A c \in DOMAIN checks : GoodCheck(checks[c], time)

Queues == [events : Seq(Queued(Events)), attempts : Nat, nextAttemptAt : Nat]

GoodEvents(events, time) ==
  /\ events \in Seq(Queued(Events)) /\ Ordered(events) /\ UpTo(events, time)
  /\ \A entry \in ToSet(events) : WellSaid(entry.event)

GoodQueue(queue, time) ==
  queue \in Queues /\ Len(queue.events) <= MaxEvents /\ GoodEvents(queue.events, time)

\* The last index about a check is that of the latest entry.
LEMMA LastOfGood ==
  ASSUME NEW events, NEW time, GoodEvents(events, time), NEW c
  PROVE  /\ LastIndex(events, c) = 0 <=> About(events, c) = {}
         /\ LastIndex(events, c) # 0 => Latest(events[LastIndex(events, c)], About(events, c))
         /\ \A d : Latest(d, About(events, c)) =>
              LastIndex(events, c) # 0 /\ d = events[LastIndex(events, c)]
BY LastIsLatest DEF GoodEvents

\* What the server has is what is said of a check no entry is about.
LEMMA NothingIsSaid ==
  ASSUME NEW events, NEW time, GoodEvents(events, time), NEW c, About(events, c) = {}, NEW w
  PROVE  Said(events, c, w) = w.received[c]
BY LastOfGood DEF Said

\* A run recalls what is stored of a check no entry is about.
LEMMA NothingIsRecalled ==
  ASSUME NEW events, NEW time, GoodEvents(events, time), NEW c, About(events, c) = {}, NEW checks
  PROVE  Recalled(checks, events, c) = StateOf(checks, c)
BY LastOfGood DEF Recalled

\* Of the entries about a check one is the latest.
LEMMA SomeIsLatest ==
  ASSUME NEW events, NEW time, GoodEvents(events, time), NEW c, About(events, c) # {}
  PROVE  \E d : Latest(d, About(events, c))
BY LastOfGood

\* The latest entry about a check is what is said of it.
LEMMA LatestIsSaid ==
  ASSUME NEW events, NEW time, GoodEvents(events, time), NEW c, NEW d,
         Latest(d, About(events, c)), NEW w
  PROVE  Said(events, c, w) = d.event
BY LastOfGood DEF Said

\* A run restores the state of a check from the latest entry about it.
LEMMA LatestIsRecalled ==
  ASSUME NEW events, NEW time, GoodEvents(events, time), NEW c, NEW d,
         Latest(d, About(events, c)), NEW checks
  PROVE  Recalled(checks, events, c) = RestoreCheck(StateOf(checks, c), d)
BY LastOfGood DEF Recalled

\* Every entry about a check is typed and well said.
LEMMA AboutType ==
  ASSUME NEW events, NEW time \in Nat, GoodEvents(events, time), NEW c, NEW d \in About(events, c)
  PROVE  /\ d \in QueueEntries /\ d.event \in Events /\ d.createdAt \in Nat /\ d.createdAt <= time
         /\ WellSaid(d.event) /\ d.event.check = c /\ c \in Checks /\ d \in ToSet(events)
PROOF
<1>1. d \in ToSet(events) /\ d.event.check = c
  BY DEF About
<1>2. PICK i \in DOMAIN events : d = events[i]
  BY <1>1 DEF ToSet
<1>3. d \in Queued(Events) /\ d.createdAt <= time /\ WellSaid(d.event)
  BY <1>1, <1>2 DEF GoodEvents, UpTo
<1>4. d \in QueueEntries /\ d.event \in Events /\ d.createdAt \in Nat
  BY <1>3 DEF Queued, QueueEntries
<1>5. d.event.check \in Checks
  BY <1>4 DEF Events
<1> QED BY <1>1, <1>3, <1>4, <1>5

\* A check that is not in the file has a good state, too.
LEMMA StateOfGood ==
  ASSUME NEW checks, NEW time \in Nat, GoodChecks(checks, time), NEW c
  PROVE  GoodCheck(StateOf(checks, c), time)
PROOF
<1>1. NewCheck \in CheckStates(Nat, Occurrences)
  BY NewCheckType DEF Occurrences, NoOccurrence
<1>2. NewCheck.lastRecoveryAt = 0
  BY DEF NewCheck, Never
<1>3. GoodCheck(NewCheck, time)
  BY <1>1, <1>2, UntoldKeepsNotified DEF GoodCheck
<1> QED BY <1>3 DEF GoodChecks, StateOf

IsOlder(check, entry) ==
  check.lastRecoveryAt # Never /\ check.lastRecoveryAt >= entry.createdAt

\* What a queued event makes of the state of its check.
LEMMA RestoreCheckIs ==
  ASSUME NEW time \in Nat, NEW check, GoodCheck(check, time), NEW entry \in QueueEntries,
         WellSaid(entry.event)
  PROVE  LET restored == RestoreCheck(check, entry)
         IN /\ GoodCheck(restored, time)
            /\ IsOpen(entry.event) =>
                 (restored.notified <=> check.notified \/ ~IsOlder(check, entry))
            /\ entry.event.kind = "recovery" => ~restored.notified
            /\ entry.event.kind = "occurrence" => restored = check
PROOF
<1> DEFINE event == entry.event
           recovered == [check EXCEPT !.current = "OK", !.lastObserved = "OK",
                           !.notified = FALSE, !.consecutiveFailures = 0,
                           !.consecutiveSuccesses = IF @ > 1 THEN @ ELSE 1]
           alerted == [check EXCEPT !.current = event.status, !.lastObserved = event.status,
                         !.notified = TRUE, !.lastNotificationAt = entry.createdAt,
                         !.firstFailureAt = entry.createdAt,
                         !.consecutiveFailures = IF @ > 1 THEN @ ELSE 1,
                         !.consecutiveSuccesses = 0]
<1>1. /\ event.kind \in EventKinds /\ event.status \in Statuses /\ entry.createdAt \in Nat
      /\ IsOpen(event) => event.status \in Failing
  BY DEF QueueEntries, Events, WellSaid
<1>2. /\ check \in CheckStates(Nat, Occurrences) /\ LoadCheck(check) = check
      /\ check.lastRecoveryAt <= time
  BY DEF GoodCheck
<1>3. RestoreCheck(check, entry) =
        IF event.kind = "recovery" /\ check.notified THEN recovered
        ELSE IF /\ event.kind \in {"problem", "escalation", "reminder"}
                /\ ~IsOlder(check, entry) /\ ~check.notified /\ event.status \in Failing
        THEN alerted ELSE check
  BY DEF RestoreCheck, IsOlder
<1> HIDE DEF event
<1>4. /\ recovered \in CheckStates(Nat, Occurrences) /\ recovered.notified = FALSE
      /\ recovered.current = "OK" /\ recovered.lastRecoveryAt = check.lastRecoveryAt
  BY <1>2 DEF CheckStates, Statuses
<1>5. /\ alerted \in CheckStates(Nat, Occurrences) /\ alerted.notified = TRUE
      /\ alerted.lastRecoveryAt = check.lastRecoveryAt
  BY <1>1, <1>2 DEF CheckStates, Statuses
<1> HIDE DEF recovered, alerted
<1>6. GoodCheck(recovered, time)
  BY <1>2, <1>4 DEF GoodCheck, LoadCheck
<1>7. GoodCheck(alerted, time)
  <2>1. [alerted EXCEPT !.notified = TRUE] = alerted
    BY <1>5 DEF CheckStates
  <2> QED BY <1>2, <1>5, <2>1 DEF GoodCheck, LoadCheck
<1>8. check.notified \in BOOLEAN
  BY <1>2 DEF CheckStates
<1>9. IsOpen(event) <=> event.kind \in {"problem", "escalation", "reminder"}
  BY DEF IsOpen
<1> QED BY <1>1, <1>3, <1>4, <1>5, <1>6, <1>7, <1>8, <1>9 DEF event

\* An ordinary check's recalled state agrees with what was said if the stored one does.
LEMMA RecalledAgrees ==
  ASSUME NEW events, NEW time \in Nat, GoodEvents(events, time), NEW c \in Ordinary,
         NEW checks, GoodChecks(checks, time), NEW w,
         Agrees(StateOf(checks, c), Said(events, c, w), w)
  PROVE  Agrees(Recalled(checks, events, c), Said(events, c, w), w)
PROOF
<1>1. GoodCheck(StateOf(checks, c), time)
  BY StateOfGood
<1>2. CASE About(events, c) = {}
  BY <1>2, NothingIsRecalled
<1>3. CASE About(events, c) # {}
  <2>1. PICK d : Latest(d, About(events, c))
    BY <1>3, SomeIsLatest
  <2>2. /\ Said(events, c, w) = d.event
        /\ Recalled(checks, events, c) = RestoreCheck(StateOf(checks, c), d)
    BY <2>1, LatestIsSaid, LatestIsRecalled
  <2>3. d \in QueueEntries /\ WellSaid(d.event) /\ d.event.check = c /\ d.event.kind \in EventKinds
    BY <2>1, AboutType DEF Latest, Events
  <2>4. /\ IsOpen(d.event) => (RestoreCheck(StateOf(checks, c), d).notified <=>
             StateOf(checks, c).notified \/ ~IsOlder(StateOf(checks, c), d))
        /\ d.event.kind = "recovery" => ~RestoreCheck(StateOf(checks, c), d).notified
    BY <1>1, <2>3, RestoreCheckIs
  <2>5. d.event.kind = "recovery" <=> ~IsOpen(d.event)
    BY <2>3 DEF WellSaid, EventKinds, IsOpen
  <2> HIDE DEF IsOpen
  <2> QED BY <2>2, <2>4, <2>5 DEF Agrees
<1> QED BY <1>2, <1>3

\* What a run has in memory of a check is what it recalls.
LEMMA RestoredState ==
  ASSUME NEW checks, NEW events, DOMAIN checks \subseteq Checks
  PROVE  /\ DOMAIN Restore(checks, events) \subseteq Checks
         /\ \A c \in Checks :
              StateOf(Restore(checks, events), c) = Recalled(checks, events, c)
         /\ \A c \in DOMAIN Restore(checks, events) :
              Restore(checks, events)[c] = Recalled(checks, events, c)
PROOF
<1> DEFINE D == DOMAIN checks \cup {d \in Checks : Recalled(checks, events, d) # NewCheck}
<1>1. Restore(checks, events) = [c \in D |-> Recalled(checks, events, c)]
  BY DEF Restore, Recalled
<1>2. D \subseteq Checks /\ \A c \in Checks : c \notin D => Recalled(checks, events, c) = NewCheck
  OBVIOUS
<1> HIDE DEF D
<1>3. /\ DOMAIN Restore(checks, events) = D
      /\ \A c \in D : Restore(checks, events)[c] = Recalled(checks, events, c)
  BY <1>1
<1> QED BY <1>2, <1>3 DEF StateOf

\* Loading a state file that a run has saved changes nothing.
LEMMA LoadedState ==
  ASSUME NEW checks, NEW time, GoodChecks(checks, time)
  PROVE  /\ GoodChecks(LoadChecks(checks), time)
         /\ \A c : StateOf(LoadChecks(checks), c) = StateOf(checks, c)
BY DEF LoadChecks, StateOf, GoodChecks, GoodCheck

\* What is recalled of a check depends on nothing but its state and the queue.
LEMMA SameStateSameRecall ==
  ASSUME NEW checks, NEW others, NEW events, NEW c, StateOf(checks, c) = StateOf(others, c)
  PROVE  Recalled(checks, events, c) = Recalled(others, events, c)
BY DEF Recalled

-----------------------------------------------------------------------------
(* What the engine makes of a result *)

\* What the checks can return is a result; only the journal checks report occurrences.
LEMMA ResultType ==
  ASSUME AgentAssumption, NEW p \in Procs, NEW c \in Checks,
         run[p].page.entries \subseteq 1 .. MaxEntries, NEW result \in PossibleResults(p, c)
  PROVE  /\ result \in Results({"m"}, Occurrences)
         /\ c \in Ordinary => result.occurrence = NoOccurrence
PROOF
<1>1. NoOccurrence \in Occurrences
  BY DEF NoOccurrence, Occurrences
<1>2. CASE c \in JournalChecks
  <2>1. result = JournalResult(run[p].page)
    BY <1>2 DEF PossibleResults
  <2>2. run[p].page.entries \in Occurrences
    BY DEF Occurrences
  <2>3. result \in {Unknown, Ok, Result("CRITICAL", TRUE, run[p].page.entries)}
    BY <2>1 DEF JournalResult
  <2>4. {Unknown, Ok, Result("CRITICAL", TRUE, run[p].page.entries)} \subseteq Results({"m"}, Occurrences)
    BY <1>1, <2>2 DEF Unknown, Ok, Problem, Result, Results, Statuses, Failing
  <2> QED BY <1>2, <2>3, <2>4 DEF Ordinary
<1>3. CASE c \in Monitors /\ c \notin JournalChecks
  <2>1. result \in {Ok, Problem("CRITICAL", FALSE), Problem("WARNING", FALSE)}
    BY <1>3 DEF PossibleResults, QueueResult
  <2>2. {Ok, Problem("CRITICAL", FALSE), Problem("WARNING", FALSE)}
          \subseteq Results({"m"}, Occurrences)
    BY <1>1 DEF Ok, Problem, Result, Results, Statuses, Failing
  <2>3. result.occurrence = NoOccurrence
    BY <2>1 DEF Ok, Problem, Result
  <2> QED BY <2>1, <2>2, <2>3
<1>4. CASE c \notin Monitors \cup JournalChecks
  <2>1. result \in Results({"m"}, {NoOccurrence})
    BY <1>4 DEF PossibleResults, AgentAssumption
  <2> QED BY <1>1, <2>1 DEF Results
<1> QED BY <1>2, <1>3, <1>4

\* The recovery time of a check is the old one or the present.
LEMMA EvaluateRecoveryTime ==
  ASSUME NEW check \in CheckStates(Nat, Occurrences), NEW result, IsResult(result, Occurrences),
         NEW isJournal \in BOOLEAN, NEW t \in Nat, t # Never
  PROVE  EvaluateCheck(check, result, isJournal, t).check.lastRecoveryAt
           \in {check.lastRecoveryAt, t}
PROOF
<1> DEFINE quiet == IF isJournal THEN CloseOccurrence(check) ELSE check
<1>1. /\ quiet \in CheckStates(Nat, Occurrences)
      /\ quiet.lastRecoveryAt = check.lastRecoveryAt
  BY CloseOccurrenceType DEF CloseOccurrence, CheckStates
<1> HIDE DEF quiet
<1>2. CASE result.occurrence # NoOccurrence
  BY <1>2 DEF EvaluateCheck, OnOccurrence, Outcome, CheckStates
<1>3. CASE result.occurrence = NoOccurrence /\ result.status = "OK"
  <2>1. EvaluateCheck(check, result, isJournal, t) = OnSuccess(quiet, t)
    BY <1>3 DEF EvaluateCheck, quiet
  <2> QED BY <1>1, <2>1, OnSuccessFields
<1>4. CASE result.occurrence = NoOccurrence /\ result.status # "OK"
  <2>1. EvaluateCheck(check, result, isJournal, t) = OnFailure(quiet, result, t)
    BY <1>4 DEF EvaluateCheck, quiet
  <2> QED BY <1>1, <1>4, <2>1, OnFailureFields
<1> QED BY <1>2, <1>3, <1>4

\* What kind of event a result can raise.
LEMMA EvaluateKinds ==
  ASSUME NEW check \in CheckStates(Nat, Occurrences), NEW result, IsResult(result, Occurrences),
         NEW isJournal \in BOOLEAN, NEW t \in Nat, t # Never
  PROVE  LET kind == EvaluateCheck(check, result, isJournal, t).kind
         IN /\ kind \in EventKinds \cup {"none"}
            /\ kind = "occurrence" => result.occurrence # NoOccurrence
            /\ kind \notin {"occurrence", "none"} => result.occurrence = NoOccurrence
            /\ kind \in {"problem", "escalation", "reminder"} => result.status \in Failing
PROOF
<1> DEFINE quiet == IF isJournal THEN CloseOccurrence(check) ELSE check
           kind == EvaluateCheck(check, result, isJournal, t).kind
<1>1. quiet \in CheckStates(Nat, Occurrences)
  BY CloseOccurrenceType
<1> HIDE DEF quiet
<1>2. CASE result.occurrence # NoOccurrence
  <2>1. kind \in {"occurrence", "none"}
    BY <1>2, OnOccurrenceType DEF EvaluateCheck
  <2> QED BY <1>2, <2>1 DEF EventKinds
<1>3. CASE result.occurrence = NoOccurrence /\ result.status = "OK"
  <2>1. EvaluateCheck(check, result, isJournal, t) = OnSuccess(quiet, t)
    BY <1>3 DEF EvaluateCheck, quiet
  <2>2. kind \in {"recovery", "none"}
    BY <1>1, <2>1, OnSuccessFields
  <2> QED BY <1>3, <2>2 DEF EventKinds
<1>4. CASE result.occurrence = NoOccurrence /\ result.status # "OK"
  <2>1. EvaluateCheck(check, result, isJournal, t) = OnFailure(quiet, result, t)
    BY <1>4 DEF EvaluateCheck, quiet
  <2>2. kind \in {"problem", "escalation", "reminder", "none"}
    BY <1>1, <1>4, <2>1, OnFailureFields
  <2>3. result.status \in Failing
    BY <1>4 DEF IsResult, Statuses
  <2> QED BY <1>4, <2>2, <2>3 DEF EventKinds
<1> QED BY <1>2, <1>3, <1>4

\* The state a result leaves and the event it raises.
LEMMA EvaluateGood ==
  ASSUME NEW time \in Nat, NEW t \in Nat, t # Never, time <= t,
         NEW check, GoodCheck(check, time), NEW c \in Checks,
         NEW result \in Results({"m"}, Occurrences),
         c \in Ordinary => result.occurrence = NoOccurrence,
         NEW isJournal \in BOOLEAN
  PROVE  LET step == EvaluateCheck(check, result, isJournal, t)
             event == NewEvent(c, result, step)
         IN /\ GoodCheck(step.check, t)
            /\ step.kind # "none" =>
                 /\ event \in Events /\ WellSaid(event)
                 /\ event.check = c /\ event.kind = step.kind
PROOF
<1> DEFINE step == EvaluateCheck(check, result, isJournal, t)
           event == NewEvent(c, result, step)
<1>1. IsResult(result, Occurrences) /\ result.message = "m"
  BY DEF IsResult, Results
<1>2. check \in CheckStates(Nat, Occurrences) /\ LoadCheck(check) = check /\ check.lastRecoveryAt <= time
  BY DEF GoodCheck
<1>3. /\ step.check \in CheckStates(Nat, Occurrences)
      /\ step.kind \in EventKinds \cup {"none"}
      /\ LoadCheck(step.check) = step.check
      /\ step.check.lastRecoveryAt \in {check.lastRecoveryAt, t}
  BY <1>1, <1>2, EvaluateCheckType, EvaluateKeepsNotified, EvaluateRecoveryTime
<1>4. /\ step.kind = "occurrence" => result.occurrence # NoOccurrence
      /\ step.kind \notin {"occurrence", "none"} => result.occurrence = NoOccurrence
      /\ step.kind \in {"problem", "escalation", "reminder"} => result.status \in Failing
  BY <1>1, <1>2, EvaluateKinds
<1> HIDE DEF step
<1>5. check.lastRecoveryAt \in Nat /\ step.check.firstFailureAt \in Nat
  BY <1>2, <1>3 DEF CheckStates
<1>6. GoodCheck(step.check, t)
  BY <1>2, <1>3, <1>5 DEF GoodCheck
<1>7. /\ event.check = c /\ event.kind = step.kind /\ event.occurrence = result.occurrence
      /\ event.status = IF step.kind = "recovery" THEN "OK" ELSE result.status
  BY DEF NewEvent
<1>8. ASSUME step.kind # "none" PROVE event \in Events
  <2>1. event.message = "m" /\ event.since \in Nat /\ "OK" \in Statuses
    BY <1>1, <1>5 DEF NewEvent, Never, Statuses
  <2>2. /\ event.status \in Statuses /\ event.occurrence \in Occurrences
        /\ event.kind \in EventKinds
    BY <1>1, <1>3, <1>7, <1>8, <2>1 DEF IsResult
  <2>3. event = [check |-> event.check, kind |-> event.kind, status |-> event.status,
                 message |-> event.message, occurrence |-> event.occurrence,
                 since |-> event.since]
    BY DEF NewEvent
  <2> HIDE DEF event
  <2> QED BY <1>7, <2>1, <2>2, <2>3 DEF Events
<1>9. ASSUME step.kind # "none" PROVE WellSaid(event)
  BY <1>4, <1>7, <1>9 DEF WellSaid, IsOpen
<1> QED BY <1>6, <1>7, <1>8, <1>9 DEF step

\* What the kind of the event says of the belief before and after.
Changes(before, after, kind) ==
  /\ kind = "none" => /\ after.notified => before.notified
                      /\ NotifyRecovery /\ before.notified => after.notified
  /\ kind = "problem" => ~before.notified /\ after.notified
  /\ kind \in {"escalation", "reminder"} => before.notified /\ after.notified
  /\ kind = "recovery" => before.notified /\ ~after.notified
  /\ kind # "occurrence"

\* An ordinary check is notified about after a result exactly as the event tells.
LEMMA EvaluateBelief ==
  ASSUME NEW check \in CheckStates(Nat, Occurrences), NEW result, IsResult(result, Occurrences),
         result.occurrence = NoOccurrence, NEW isJournal \in BOOLEAN, ~isJournal,
         NEW t \in Nat, t # Never
  PROVE  LET step == EvaluateCheck(check, result, isJournal, t)
         IN Changes(check, step.check, step.kind)
PROOF
<1> DEFINE step == EvaluateCheck(check, result, isJournal, t)
<1> USE DEF Changes
<1>0. check.notified \in BOOLEAN
  BY DEF CheckStates
<1>1. CASE result.status = "OK"
  <2>1. step = OnSuccess(check, t)
    BY <1>1 DEF EvaluateCheck
  <2> DEFINE recovers == /\ check.current # "OK"
                         /\ (IF check.lastObserved = "OK"
                             THEN check.consecutiveSuccesses + 1 ELSE 1) >= RecoverySuccesses
                         /\ check.notified
  <2>2. /\ step.check.notified = (check.notified /\ ~recovers)
        /\ step.check \in CheckStates(Nat, Occurrences)
        /\ step.kind = IF recovers /\ NotifyRecovery THEN "recovery" ELSE "none"
    BY <2>1, OnSuccessFields
  <2>3. recovers \in BOOLEAN /\ (recovers => check.notified)
    BY <1>0
  <2>a. step.check.notified \in BOOLEAN
    BY <2>2 DEF CheckStates
  <2> HIDE DEF recovers, step
  <2>b. step.check.notified <=> check.notified /\ ~recovers
    BY <1>0, <2>2, <2>3, <2>a, Zenon
  <2>4. CASE recovers /\ NotifyRecovery
    BY <2>2, <2>3, <2>4, <2>b DEF step
  <2>5. CASE ~(recovers /\ NotifyRecovery)
    <3>1. step.kind = "none"
      BY <2>2, <2>5
    <3>2. step.check.notified => check.notified
      BY <2>b
    <3>3. NotifyRecovery /\ check.notified => step.check.notified
      BY <2>5, <2>b
    <3> QED BY <3>1, <3>2, <3>3 DEF step
  <2> QED BY <2>4, <2>5
<1>2. CASE result.status # "OK"
  <2>1. step = OnFailure(check, result, t)
    BY <1>2 DEF EvaluateCheck
  <2>2. /\ step.kind \in {"problem", "escalation", "reminder", "none"}
        /\ step.kind = "problem" => ~check.notified
        /\ step.kind = "escalation" => check.notified
        /\ step.kind = "reminder" => check.notified
        /\ step.kind = "none" => step.check.notified = check.notified
        /\ step.kind # "none" => step.check.notified
    BY <1>2, <2>1, OnFailureFields
  <2> HIDE DEF step
  <2> QED BY <2>2 DEF step
<1> QED BY <1>1, <1>2

-----------------------------------------------------------------------------
(* What adding an event changes *)

\* Nothing, if the entries about a check stay the same.
LEMMA SameEntriesSaySame ==
  ASSUME NEW events, NEW time, GoodEvents(events, time),
         NEW others, NEW t, GoodEvents(others, t),
         NEW c, About(others, c) = About(events, c), NEW checks, NEW w
  PROVE  /\ Said(others, c, w) = Said(events, c, w)
         /\ Recalled(checks, others, c) = Recalled(checks, events, c)
PROOF
<1>1. CASE About(events, c) = {}
  <2>1. About(others, c) = {}
    BY <1>1
  <2>2. Said(others, c, w) = w.received[c] /\ Recalled(checks, others, c) = StateOf(checks, c)
    BY <2>1, NothingIsSaid, NothingIsRecalled
  <2>3. Said(events, c, w) = w.received[c] /\ Recalled(checks, events, c) = StateOf(checks, c)
    BY <1>1, NothingIsSaid, NothingIsRecalled
  <2> QED BY <2>2, <2>3
<1>2. CASE About(events, c) # {}
  <2>1. PICK d : Latest(d, About(events, c))
    BY <1>2, SomeIsLatest
  <2> QED BY <2>1, LatestIsSaid, LatestIsRecalled
<1> QED BY <1>1, <1>2

\* An event that was added is the last one said, and it is recalled as it is said: it
\* keeps the time of an alert it takes the place of, or is newer than every recovery.
LEMMA AddedIsRecalled ==
  ASSUME NEW time \in Nat, NEW t \in Nat, time < t,
         NEW events, GoodEvents(events, time), NEW new, GoodEvents(new, t),
         NEW c \in Ordinary, NEW event, event.check = c,
         Adds(About(events, c), About(new, c), event, t),
         NEW checks, GoodChecks(checks, time), NEW w,
         Agrees(Recalled(checks, events, c), Said(events, c, w), w)
  PROVE  /\ Said(new, c, w) = event
         /\ Agrees(Recalled(checks, new, c), Said(new, c, w), w)
PROOF
<1> DEFINE old == About(events, c)
           check == StateOf(checks, c)
           Updates(entry) == /\ event.kind \in {"reminder", "escalation"}
                             /\ entry.event.kind \notin {"recovery", "occurrence"}
<1>1. GoodCheck(check, time)
  BY StateOfGood
<1>2. check.lastRecoveryAt \in Nat /\ check.lastRecoveryAt <= time /\ GoodCheck(check, t)
  BY <1>1 DEF GoodCheck, CheckStates
<1>3. ASSUME NEW d, Latest(d, About(new, c)), d.event = event
      PROVE  /\ Said(new, c, w) = event
             /\ Recalled(checks, new, c) = RestoreCheck(check, d)
             /\ IsOpen(event) => (RestoreCheck(check, d).notified <=>
                                   check.notified \/ ~IsOlder(check, d))
             /\ ~IsOpen(event) => ~RestoreCheck(check, d).notified
  <2>1. d \in QueueEntries /\ WellSaid(d.event) /\ d.event.kind \in EventKinds
    BY <1>3, AboutType DEF Latest, Events
  <2>2. d.event.kind = "recovery" <=> ~IsOpen(d.event)
    BY <1>3, <2>1 DEF WellSaid, EventKinds, IsOpen
  <2> QED BY <1>2, <1>3, <2>1, <2>2, LatestIsSaid, LatestIsRecalled, RestoreCheckIs
<1>4. ASSUME NEW d \in old PROVE d.createdAt \in Nat /\ d.createdAt <= time
  BY AboutType
<1>5. CASE About(new, c) = old /\ \E entry \in old : /\ entry.event = event
                                                     /\ event.kind # "occurrence" => Latest(entry, old)
  <2>1. PICK entry \in old : /\ entry.event = event
                             /\ event.kind # "occurrence" => Latest(entry, old)
    BY <1>5
  <2>2. WellSaid(event)
    BY <2>1, AboutType
  <2>3. Latest(entry, old)
    BY <2>1, <2>2 DEF WellSaid
  <2>4. Said(events, c, w) = event /\ Recalled(checks, events, c) = RestoreCheck(check, entry)
    BY <2>1, <2>3, LatestIsSaid, LatestIsRecalled
  <2>5. Said(new, c, w) = event /\ Recalled(checks, new, c) = RestoreCheck(check, entry)
    BY <1>5, <2>1, <2>3, LatestIsSaid, LatestIsRecalled
  <2> QED BY <2>4, <2>5
<1>6. ASSUME NEW entry, Latest(entry, old), Updates(entry),
             About(new, c) = (old \ {entry}) \cup {[entry EXCEPT !.event = event]}
      PROVE  /\ Said(new, c, w) = event
             /\ Agrees(Recalled(checks, new, c), Said(new, c, w), w)
  <2> DEFINE updated == [entry EXCEPT !.event = event]
  <2>1. /\ entry \in QueueEntries /\ WellSaid(entry.event) /\ entry.event.check = c
        /\ entry.event.kind \in EventKinds
    BY <1>6, AboutType DEF Latest, Events
  <2>2. updated.event = event /\ updated.createdAt = entry.createdAt
    BY <2>1 DEF QueueEntries
  <2> HIDE DEF updated
  <2>3. About(new, c) = (old \ {entry}) \cup {updated}
    BY <1>6 DEF updated
  <2>4. Latest(updated, About(new, c))
    <3>1. \A other \in About(new, c) : other.createdAt <= updated.createdAt
      BY <1>4, <1>6, <2>2, <2>3 DEF Latest
    <3> QED BY <2>3, <3>1 DEF Latest
  <2>5. /\ Said(new, c, w) = event /\ IsOpen(event)
        /\ Recalled(checks, new, c) = RestoreCheck(check, updated)
        /\ RestoreCheck(check, updated).notified <=> check.notified \/ ~IsOlder(check, updated)
    <3>1. IsOpen(event)
      BY <1>6 DEF IsOpen
    <3> QED BY <1>3, <2>2, <2>4, <3>1
  <2>6. /\ Said(events, c, w) = entry.event /\ IsOpen(entry.event)
        /\ Recalled(checks, events, c) = RestoreCheck(check, entry)
        /\ RestoreCheck(check, entry).notified <=> check.notified \/ ~IsOlder(check, entry)
    <3>1. IsOpen(entry.event)
      BY <1>6, <2>1 DEF IsOpen, EventKinds
    <3> QED BY <1>1, <1>6, <2>1, <3>1, LatestIsSaid, LatestIsRecalled, RestoreCheckIs
  <2>7. IsOlder(check, updated) <=> IsOlder(check, entry)
    BY <2>2 DEF IsOlder
  <2> HIDE DEF IsOpen
  <2>8. RestoreCheck(check, updated).notified <=> RestoreCheck(check, entry).notified
    BY <2>5, <2>6, <2>7
  <2> QED BY <2>5, <2>6, <2>8 DEF Agrees
<1>7. ASSUME About(new, c) = old \cup {Entry(event, t)}
      PROVE  /\ Said(new, c, w) = event
             /\ Agrees(Recalled(checks, new, c), Said(new, c, w), w)
  <2> DEFINE entry == Entry(event, t)
  <2>1. entry.event = event /\ entry.createdAt = t
    BY DEF Entry
  <2> HIDE DEF entry
  <2>2. About(new, c) = old \cup {entry}
    BY <1>7 DEF entry
  <2>3. Latest(entry, About(new, c))
    <3>1. \A other \in About(new, c) : other.createdAt <= t
      BY <1>4, <2>1, <2>2
    <3> QED BY <2>1, <2>2, <3>1 DEF Latest
  <2>4. ~IsOlder(check, entry)
    BY <1>2, <2>1 DEF IsOlder
  <2> HIDE DEF IsOpen
  <2> QED BY <1>3, <2>1, <2>3, <2>4 DEF Agrees
<1> QED BY <1>5, <1>6, <1>7 DEF Adds

\* The belief the engine leaves agrees with the event it raised.
LEMMA RaisedAgrees ==
  ASSUME NEW before, NEW after, NEW event, NEW w, event.kind \in EventKinds,
         Changes(before, after, event.kind)
  PROVE  Agrees(after, event, w)
BY DEF Changes, Agrees, IsOpen, EventKinds

\* Without an event it still agrees with the last one.
LEMMA SilentAgrees ==
  ASSUME NEW before, NEW after, NEW event, NEW w, Agrees(before, event, w),
         Changes(before, after, "none")
  PROVE  Agrees(after, event, w)
BY DEF Changes, Agrees

-----------------------------------------------------------------------------
(* Problems and recoveries take turns *)

Turn(event, next) ==
  /\ next.kind = "problem" => ~IsOpen(event)
  /\ next.kind = "recovery" => IsOpen(event)

Before(e, entries) == {d \in entries : d.createdAt < e.createdAt}

\* Each entry about a check comes in turn after the one before it, the first after what
\* the server has received unless it has received that one, too.
TakeTurns(entries, c, w) ==
  \A e \in entries :
    /\ \A d : Latest(d, Before(e, entries)) => Turn(d.event, e.event)
    /\ Before(e, entries) = {} /\ e \notin w.delivered => Turn(w.received[c], e.event)

\* An event raised by a run keeps the turns.
LEMMA AddedTakesTurns ==
  ASSUME NEW time \in Nat, NEW t \in Nat, time < t,
         NEW events, GoodEvents(events, time), NEW c, NEW new, NEW event, NEW w,
         Adds(About(events, c), new, event, t), TakeTurns(About(events, c), c, w),
         NEW before, NEW after, NotifyRecovery, ~w.restarted,
         Agrees(before, Said(events, c, w), w), Changes(before, after, event.kind)
  PROVE  TakeTurns(new, c, w)
PROOF
<1> DEFINE old == About(events, c)
<1>1. Turn(Said(events, c, w), event)
  BY DEF Turn, Agrees, Changes
<1>2. ASSUME NEW d \in old PROVE d.createdAt \in Nat /\ d.createdAt <= time
  BY AboutType
<1>3. CASE new = old
  BY <1>3
<1>4. ASSUME NEW entry, Latest(entry, old), event.kind \in {"reminder", "escalation"},
             new = (old \ {entry}) \cup {[entry EXCEPT !.event = event]}
      PROVE  TakeTurns(new, c, w)
  <2> DEFINE updated == [entry EXCEPT !.event = event]
  <2>1. entry \in QueueEntries
    BY <1>4, AboutType DEF Latest
  <2>2. updated.event = event /\ updated.createdAt = entry.createdAt
    BY <2>1 DEF QueueEntries
  <2> HIDE DEF updated
  <2>3. new = (old \ {entry}) \cup {updated}
    BY <1>4 DEF updated
  <2>4. \A x : Turn(x, updated.event)
    BY <1>4, <2>2 DEF Turn
  <2>5. ASSUME NEW e \in old \ {entry} PROVE Before(e, new) = Before(e, old)
    <3>1. e.createdAt <= entry.createdAt /\ entry \in old
      BY <1>4 DEF Latest
    <3>2. ~(entry.createdAt < e.createdAt) /\ ~(updated.createdAt < e.createdAt)
      BY <1>2, <2>2, <3>1
    <3> QED BY <2>3, <3>1, <3>2 DEF Before
  <2> QED BY <2>3, <2>4, <2>5 DEF TakeTurns
<1>5. ASSUME new = old \cup {Entry(event, t)}
      PROVE  TakeTurns(new, c, w)
  <2> DEFINE entry == Entry(event, t)
  <2>1. entry.event = event /\ entry.createdAt = t
    BY DEF Entry
  <2> HIDE DEF entry
  <2>2. new = old \cup {entry}
    BY <1>5 DEF entry
  <2>3. ASSUME NEW e \in old PROVE Before(e, new) = Before(e, old)
    <3>1. ~(entry.createdAt < e.createdAt)
      BY <1>2, <2>1
    <3> QED BY <2>2, <3>1 DEF Before
  <2>4. Before(entry, new) = old
    <3>1. \A d \in old : d.createdAt < entry.createdAt
      BY <1>2, <2>1
    <3>2. ~(entry.createdAt < entry.createdAt)
      BY <2>1
    <3> QED BY <2>2, <3>1, <3>2 DEF Before
  <2>5. \A d : Latest(d, old) => Turn(d.event, entry.event)
    BY <1>1, <2>1, LatestIsSaid
  <2>6. old = {} => Turn(w.received[c], entry.event)
    BY <1>1, <2>1, NothingIsSaid
  <2> QED BY <2>2, <2>3, <2>4, <2>5, <2>6 DEF TakeTurns
<1> HIDE DEF old
<1> QED BY <1>3, <1>4, <1>5 DEF Adds, old

-----------------------------------------------------------------------------
(* The events of a run *)

Raises(results, outcomes, c) == c \in DOMAIN results /\ outcomes[c].kind # "none"

EventAbout(results, outcomes, c) == NewEvent(c, results[c], outcomes[c])

\* The events after each of the checks.
RaisedEach(upTo, results, outcomes) ==
  /\ upTo[0] = <<>> /\ upTo[Len(Order)] = EventsOf(results, outcomes)
  /\ \A i \in 1 .. Len(Order) :
       upTo[i] = IF Raises(results, outcomes, Order[i])
                 THEN Append(upTo[i - 1], EventAbout(results, outcomes, Order[i]))
                 ELSE upTo[i - 1]

WellRaised(results, outcomes) ==
  \A c \in Checks : Raises(results, outcomes, c) =>
    EventAbout(results, outcomes, c) \in Events

\* The events of a run are built check by check.
LEMMA EventsOfSteps ==
  ASSUME AgentAssumption, NEW results, NEW outcomes, WellRaised(results, outcomes)
  PROVE  \E upTo \in [0 .. Len(Order) -> Seq(Events)] : RaisedEach(upTo, results, outcomes)
PROOF
<1> DEFINE n == Len(Order)
           X == Seq(Events)
           Go(q, i) == IF Raises(results, outcomes, Order[i])
                       THEN Append(q, EventAbout(results, outcomes, Order[i])) ELSE q
           Iter(f) == [i \in 0 .. n |-> IF i = 0 THEN <<>> ELSE Go(f[i - 1], i)]
           upTo == CHOOSE f : f = Iter(f)
           G == [i \in 1 .. n |-> [q \in X |-> Go(q, i)]]
<1>1. n \in Nat /\ \A i \in 1 .. n : Order[i] \in Checks
  BY DEF AgentAssumption
<1>2. \A i \in 1 .. n, q \in X : Go(q, i) \in X
  BY <1>1 DEF WellRaised
<1>3. G \in [1 .. n -> [X -> X]]
  BY <1>2
<1>4. <<>> \in X
  OBVIOUS
<1>a. EventsOf(results, outcomes) = upTo[n]
  BY DEF EventsOf, Raises, EventAbout
<1> HIDE DEF X, n, Go
<1>5. PICK f \in [0 .. n -> X] : Runs(f, <<>>, n, G)
  <2> HIDE DEF G
  <2>1. n \in Nat
    BY <1>1
  <2> QED BY ONLY <1>3, <1>4, <2>1, Recursion
<1>6. \A i \in 1 .. n : f[i] = Go(f[i - 1], i)
  <2> TAKE i \in 1 .. n
  <2>1. i - 1 \in 0 .. n /\ f[i - 1] \in X
    BY <1>1
  <2>2. G[i] = [q \in X |-> Go(q, i)]
    OBVIOUS
  <2>3. f[i] = G[i][f[i - 1]]
    BY <1>5 DEF Runs
  <2> QED BY <2>1, <2>2, <2>3
<1>7. f = Iter(f)
  <2>1. ASSUME NEW i \in 0 .. n
        PROVE  f[i] = IF i = 0 THEN <<>> ELSE Go(f[i - 1], i)
    BY <1>1, <1>5, <1>6 DEF Runs
  <2> QED BY <1>5, <2>1
<1>8. upTo = Iter(upTo)
  BY <1>7
<1>9. DOMAIN upTo = 0 .. n /\ upTo[0] = <<>> /\ \A i \in 1 .. n : upTo[i] = Go(upTo[i - 1], i)
  <2> HIDE DEF upTo
  <2> QED BY <1>1, <1>8
<1> HIDE DEF upTo
<1>10. \A i \in 0 .. n : upTo[i] \in X
  <2> DEFINE S == {i \in Nat : i <= n => upTo[i] \in X}
  <2>1. 0 \in S
    BY <1>4, <1>9
  <2>2. ASSUME NEW i \in Nat, i \in S PROVE i + 1 \in S
    <3> SUFFICES ASSUME i + 1 <= n PROVE upTo[i + 1] \in X
      OBVIOUS
    <3>1. upTo[i] \in X /\ i + 1 \in 1 .. n /\ (i + 1) - 1 = i
      BY <1>1, <2>2
    <3> QED BY <1>2, <1>9, <3>1
  <2> HIDE DEF S
  <2>3. Nat \subseteq S
    BY <2>1, <2>2, Induction
  <2> QED BY <1>1, <2>3 DEF S
<1>11. upTo \in [0 .. n -> X]
  <2>1. upTo = [i \in 0 .. n |-> upTo[i]]
    BY <1>8, <1>9
  <2> QED BY <1>10, <2>1
<1>12. RaisedEach(upTo, results, outcomes)
  BY <1>9, <1>a DEF RaisedEach, n, Go
<1> QED BY <1>11, <1>12 DEF n, X

\* One event for every check that raises one, and no other.
IsRaised(events, results, outcomes) ==
  /\ events \in Seq(Events) /\ Distinct(events)
  /\ \A i \in 1 .. Len(events) :
       \E c \in Checks : /\ Raises(results, outcomes, c)
                         /\ events[i] = EventAbout(results, outcomes, c)
  /\ \A c \in Checks : Raises(results, outcomes, c) =>
       \E i \in 1 .. Len(events) : events[i] = EventAbout(results, outcomes, c)

\* A run raises one event for every check that has one, and no check has two.
LEMMA EventsAreRaised ==
  ASSUME AgentAssumption, NEW results, NEW outcomes, WellRaised(results, outcomes)
  PROVE  IsRaised(EventsOf(results, outcomes), results, outcomes)
PROOF
<1> DEFINE n == Len(Order)
           R(c) == Raises(results, outcomes, c)
           V(c) == EventAbout(results, outcomes, c)
           Claim(i, q) ==
             /\ Distinct(q)
             /\ \A j \in 1 .. Len(q) : \E k \in 1 .. i : R(Order[k]) /\ q[j] = V(Order[k])
             /\ \A k \in 1 .. i : R(Order[k]) => \E j \in 1 .. Len(q) : q[j] = V(Order[k])
<1>1. PICK upTo \in [0 .. n -> Seq(Events)] : RaisedEach(upTo, results, outcomes)
  BY EventsOfSteps
<1>2. /\ n \in Nat /\ DOMAIN Order = 1 .. n /\ \A i \in 1 .. n : Order[i] \in Checks
      /\ \A i, j \in 1 .. n : Order[i] = Order[j] => i = j
  BY DEF AgentAssumption, IsInjective
<1>3. \A c : V(c).check = c
  BY DEF EventAbout, NewEvent
<1>4. Claim(0, <<>>)
  BY DEF Distinct
<1> HIDE DEF n, R, V
<1>5. ASSUME NEW i \in Nat, i + 1 <= n, Claim(i, upTo[i]) PROVE Claim(i + 1, upTo[i + 1])
  <2> DEFINE old == upTo[i]
             c == Order[i + 1]
  <2>1. /\ i + 1 \in 1 .. n /\ old \in Seq(Events) /\ Len(old) \in Nat
        /\ DOMAIN old = 1 .. Len(old)
    BY <1>1, <1>2, <1>5
  <2>2. upTo[i + 1] = IF R(c) THEN Append(old, V(c)) ELSE old
    BY <1>1, <2>1 DEF RaisedEach, n, R, V
  <2>3. \A k \in 1 .. i + 1 : k \in 1 .. i \/ k = i + 1
    BY ONLY i \in Nat
  <2>4. \A k \in 1 .. i : k \in 1 .. n /\ Order[k] # c
    BY <1>2, <2>1
  <2>5. Claim(i, old)
    BY <1>5
  <2> HIDE DEF old, c
  <2>6. ASSUME R(c) PROVE Claim(i + 1, Append(old, V(c)))
    <3> DEFINE q == Append(old, V(c))
    <3>1. /\ Len(q) = Len(old) + 1 /\ DOMAIN q = 1 .. Len(old) + 1
          /\ \A j \in 1 .. Len(old) : q[j] = old[j]
          /\ q[Len(old) + 1] = V(c)
      BY <2>1
    <3> HIDE DEF q
    <3>2. ASSUME NEW j \in 1 .. Len(old) PROVE old[j].check # c
      <4>1. PICK k \in 1 .. i : old[j] = V(Order[k])
        BY <2>5
      <4>2. V(Order[k]).check = Order[k]
        BY ONLY <1>3
      <4>3. Order[k] # c
        BY ONLY k \in 1 .. i, <2>4
      <4> QED BY ONLY <4>1, <4>2, <4>3
    <3>3. Distinct(q)
      <4> SUFFICES ASSUME NEW j \in 1 .. Len(old) + 1, NEW k \in 1 .. Len(old) + 1,
                          q[j].check = q[k].check
                   PROVE  j = k
        BY <3>1 DEF Distinct
      <4>1. CASE j \in 1 .. Len(old) /\ k \in 1 .. Len(old)
        BY <2>1, <2>5, <3>1, <4>1 DEF Distinct
      <4>2. V(c).check = c
        BY <1>3
      <4>3. CASE j = Len(old) + 1 /\ k \in 1 .. Len(old)
        BY <3>1, <3>2, <4>2, <4>3
      <4>4. CASE k = Len(old) + 1 /\ j \in 1 .. Len(old)
        BY <3>1, <3>2, <4>2, <4>4
      <4>5. \A m \in 1 .. Len(old) + 1 : m \in 1 .. Len(old) \/ m = Len(old) + 1
        BY ONLY Len(old) \in Nat
      <4> QED BY <4>1, <4>3, <4>4, <4>5
    <3>4. ASSUME NEW j \in 1 .. Len(q)
          PROVE  \E k \in 1 .. i + 1 : R(Order[k]) /\ q[j] = V(Order[k])
      <4>1. CASE j \in 1 .. Len(old)
        BY <2>5, <3>1, <4>1
      <4>2. CASE j = Len(old) + 1
        BY <2>6, <3>1, <4>2 DEF c
      <4> QED BY <2>1, <3>1, <4>1, <4>2
    <3>5. ASSUME NEW k \in 1 .. i + 1, R(Order[k])
          PROVE  \E j \in 1 .. Len(q) : q[j] = V(Order[k])
      <4>1. CASE k \in 1 .. i
        <5>1. PICK j \in 1 .. Len(old) : old[j] = V(Order[k])
          BY <2>5, <3>5, <4>1
        <5>2. j \in 1 .. Len(q) /\ q[j] = V(Order[k])
          BY <2>1, <3>1, <5>1
        <5> QED BY <5>2
      <4>2. CASE k = i + 1
        <5>1. Len(old) + 1 \in 1 .. Len(q)
          BY <2>1, <3>1
        <5> QED BY <3>1, <4>2, <5>1 DEF c
      <4> QED BY <2>3, <4>1, <4>2
    <3> QED BY <3>3, <3>4, <3>5 DEF q
  <2>7. ASSUME ~R(c) PROVE Claim(i + 1, old)
    BY <2>3, <2>5, <2>7 DEF c
  <2> HIDE DEF Claim
  <2> QED BY <2>2, <2>6, <2>7
<1>6. Claim(n, upTo[n])
  <2> DEFINE S == {i \in Nat : i <= n => Claim(i, upTo[i])}
  <2>1. 0 \in S
    <3> HIDE DEF Claim
    <3> QED BY <1>1, <1>4 DEF RaisedEach
  <2>2. ASSUME NEW i \in Nat, i \in S PROVE i + 1 \in S
    <3> HIDE DEF Claim
    <3>1. i + 1 <= n => Claim(i, upTo[i])
      BY <1>2, <2>2
    <3> QED BY <1>5, <3>1
  <2> HIDE DEF S
  <2>3. Nat \subseteq S
    BY <2>1, <2>2, Induction
  <2> HIDE DEF Claim
  <2> QED BY <1>2, <2>3 DEF S
<1>7. upTo[n] = EventsOf(results, outcomes) /\ upTo[n] \in Seq(Events)
  <2>1. upTo[n] = EventsOf(results, outcomes)
    BY ONLY <1>1 DEF RaisedEach, n
  <2>2. n \in 0 .. n
    BY ONLY <1>2
  <2>3. upTo[n] \in Seq(Events)
    BY ONLY <1>1, <2>2
  <2> QED BY ONLY <2>1, <2>3
<1>8. \A c \in Checks : \E k \in 1 .. n : c = Order[k]
  BY <1>2 DEF Checks, ToSet
<1> DEFINE events == EventsOf(results, outcomes)
<1>9. events \in Seq(Events) /\ Claim(n, events)
  <2> HIDE DEF Claim
  <2> QED BY <1>6, <1>7
<1> HIDE DEF events
<1>10. ASSUME NEW i \in 1 .. Len(events)
       PROVE  \E c \in Checks : R(c) /\ events[i] = V(c)
  <2>1. PICK k \in 1 .. n : R(Order[k]) /\ events[i] = V(Order[k])
    BY <1>9
  <2> QED BY <1>2, <2>1
<1>11. ASSUME NEW c \in Checks, R(c) PROVE \E i \in 1 .. Len(events) : events[i] = V(c)
  <2>1. PICK k \in 1 .. n : c = Order[k]
    BY <1>8
  <2> QED BY <1>9, <1>11, <2>1
<1> QED BY <1>9, <1>10, <1>11 DEF IsRaised, events, R, V

-----------------------------------------------------------------------------
(* The queue after a run *)

\* What the events of a run make of the queued ones: `added` is the queue before its
\* limit, `new` after it.
Renews(old, active, incoming, t, added, new) ==
  /\ GoodEvents(added, t) /\ GoodEvents(new, t) /\ ToSet(new) \subseteq ToSet(added)
  /\ \A x \in ToSet(added) \ ToSet(new), y \in ToSet(new) : x.createdAt <= y.createdAt
  /\ \A i \in 1 .. Len(incoming) : Adds(About(old, incoming[i].check),
                                        About(added, incoming[i].check), incoming[i], t)
  /\ \A c \in active : (\A i \in 1 .. Len(incoming) : incoming[i].check # c) =>
       About(added, c) = About(old, c)
  /\ \A x \in ToSet(added) : x.event.check \in active

\* An entry that adding left or changed is as well said as the events.
LEMMA AddsWellSaid ==
  ASSUME NEW old, NEW new, NEW event, NEW t, Adds(old, new, event, t), WellSaid(event),
         \A x \in old : WellSaid(x.event), \A x \in old : x \in QueueEntries,
         NEW x \in new
  PROVE  WellSaid(x.event)
PROOF
<1>1. CASE new = old
  BY <1>1
<1>2. ASSUME NEW entry, Latest(entry, old),
             new = (old \ {entry}) \cup {[entry EXCEPT !.event = event]}
      PROVE  WellSaid(x.event)
  <2>1. [entry EXCEPT !.event = event].event = event
    BY <1>2 DEF Latest, QueueEntries
  <2> QED BY <1>2, <2>1
<1>3. CASE new = old \cup {Entry(event, t)}
  <2>1. Entry(event, t).event = event
    BY DEF Entry
  <2> QED BY <1>3, <2>1
<1> QED BY <1>1, <1>2, <1>3 DEF Adds

\* queue.Add after Retain: a good queue stays one, and each event of the run is added
\* to the entries about its check.
LEMMA QueueRenews ==
  ASSUME NEW time \in Nat, NEW t \in Nat, time < t, NEW queue, GoodQueue(queue, time),
         NEW active, NEW incoming \in Seq(Events), Distinct(incoming),
         \A i \in 1 .. Len(incoming) : WellSaid(incoming[i]) /\ incoming[i].check \in active
  PROVE  LET retained == RetainChecks(queue, active)
             added == AddAll(retained.events, incoming, t)
             new == Add(retained, incoming, t)
         IN /\ GoodQueue(new, t)
            /\ Renews(queue.events, active, incoming, t, added, new.events)
PROOF
<1> DEFINE retained == RetainChecks(queue, active)
           kept == Retained(queue.events, active)
           added == AddAll(retained.events, incoming, t)
           new == Add(retained, incoming, t)
<1>1. /\ queue \in Queues /\ queue.events \in Seq(Queued(Events)) /\ Ordered(queue.events)
      /\ GoodEvents(queue.events, time)
  BY DEF GoodQueue, GoodEvents
<1>2. /\ kept \in Seq(Queued(Events)) /\ Ordered(kept)
      /\ \A x : x \in ToSet(kept) <=> x \in ToSet(queue.events) /\ x.event.check \in active
  BY <1>1, RetainedKeeps
<1>3. retained.events = kept /\ retained \in Queues
  <2>1. retained = IF kept = <<>> THEN EmptyQueue ELSE [queue EXCEPT !.events = kept]
    BY DEF RetainChecks
  <2>2. CASE kept = <<>>
    BY <1>2, <2>1, <2>2 DEF EmptyQueue, Queues, Immediately
  <2>3. CASE kept # <<>>
    <3> HIDE DEF kept, retained
    <3> QED BY <1>1, <1>2, <2>1, <2>3 DEF Queues
  <2> QED BY <2>2, <2>3
<1> HIDE DEF kept, retained
<1>4. ASSUME NEW c
      PROVE  About(kept, c) = IF c \in active THEN About(queue.events, c) ELSE {}
  BY <1>2 DEF About
<1>5. \A x \in ToSet(queue.events) :
        /\ x \in QueueEntries /\ x.createdAt \in Nat /\ x.createdAt <= time /\ WellSaid(x.event)
  <2> SUFFICES ASSUME NEW x \in ToSet(queue.events)
               PROVE  /\ x \in QueueEntries /\ x.createdAt \in Nat /\ x.createdAt <= time
                      /\ WellSaid(x.event)
    OBVIOUS
  <2>1. x \in About(queue.events, x.event.check)
    BY DEF About
  <2> QED BY <1>1, <2>1, AboutType
<1>6. \A i \in DOMAIN kept : kept[i].createdAt < t
  <2>1. \A x \in ToSet(kept) : x.createdAt < t
    BY <1>2, <1>5
  <2> QED BY <2>1 DEF ToSet
<1>7. /\ added \in Seq(Queued(Events))
      /\ AddsFirst(kept, incoming, Len(incoming), t, added)
  BY <1>2, <1>3, <1>6, AddAllAdds
<1> HIDE DEF added
<1>8. Ordered(added) /\ UpTo(added, t)
  BY <1>7 DEF AddsFirst
<1>9. \A i \in 1 .. Len(incoming) : Adds(About(queue.events, incoming[i].check),
                                         About(added, incoming[i].check), incoming[i], t)
  BY <1>4, <1>7 DEF AddsFirst
<1>10. ASSUME NEW c, \A i \in 1 .. Len(incoming) : incoming[i].check # c
       PROVE  About(added, c) = About(kept, c)
  BY <1>7, <1>10 DEF AddsFirst
<1>11. ASSUME NEW x \in ToSet(added) PROVE WellSaid(x.event)
  <2> DEFINE c == x.event.check
  <2>1. x \in About(added, c)
    BY DEF About
  <2> HIDE DEF c
  <2>2. CASE \A i \in 1 .. Len(incoming) : incoming[i].check # c
    <3>1. x \in About(kept, c)
      BY <1>10, <2>1, <2>2
    <3> QED BY <1>2, <1>5, <3>1 DEF About
  <2>3. ASSUME NEW i \in 1 .. Len(incoming), incoming[i].check = c
        PROVE  WellSaid(x.event)
    <3>1. Adds(About(queue.events, c), About(added, c), incoming[i], t)
      BY <1>9, <2>3
    <3>2. \A y \in About(queue.events, c) : WellSaid(y.event) /\ y \in QueueEntries
      BY <1>5 DEF About
    <3> QED BY <2>1, <3>1, <3>2, AddsWellSaid
  <2> QED BY <2>2, <2>3
<1>12. GoodEvents(added, t)
  BY <1>7, <1>8, <1>11 DEF GoodEvents
<1>13. /\ Trim(added) \in Seq(Queued(Events)) /\ Len(Trim(added)) <= MaxEvents
       /\ \E cut : Splits(added, cut, Trim(added))
  BY <1>7, <1>8, TrimSplits
<1>14. PICK cut : Splits(added, cut, Trim(added))
  BY <1>13
<1>15. /\ Ordered(Trim(added)) /\ ToSet(Trim(added)) \subseteq ToSet(added)
       /\ \A x \in ToSet(added) \ ToSet(Trim(added)), y \in ToSet(Trim(added)) :
            x.createdAt <= y.createdAt
  BY <1>14 DEF Splits
<1>16. GoodEvents(Trim(added), t)
  <2>1. UpTo(Trim(added), t)
    <3>1. \A x \in ToSet(added) : x.createdAt <= t
      BY <1>8 DEF UpTo, ToSet
    <3>2. \A x \in ToSet(Trim(added)) : x.createdAt <= t
      BY <1>15, <3>1
    <3> QED BY <3>2 DEF UpTo, ToSet
  <2> QED BY <1>11, <1>13, <1>15, <2>1 DEF GoodEvents
<1>17. new.events = Trim(added) /\ new \in Queues
  <2>1. new = IF added = retained.events THEN [retained EXCEPT !.events = Trim(@)]
              ELSE [events |-> Trim(added), attempts |-> 0, nextAttemptAt |-> Immediately]
    BY DEF Add, added
  <2>2. CASE added = retained.events
    <3>1. new = [retained EXCEPT !.events = Trim(added)]
      BY <2>1, <2>2
    <3> HIDE DEF new
    <3> QED BY <1>3, <1>13, <3>1 DEF Queues
  <2>3. CASE added # retained.events
    <3> HIDE DEF new
    <3> QED BY <1>13, <2>1, <2>3 DEF Queues, Immediately
  <2> QED BY <2>2, <2>3
<1> HIDE DEF new
<1>18. GoodQueue(new, t)
  BY <1>13, <1>16, <1>17 DEF GoodQueue
<1>19. ASSUME NEW x \in ToSet(added) PROVE x.event.check \in active
  <2> SUFFICES ASSUME x.event.check \notin active PROVE FALSE
    OBVIOUS
  <2>1. About(added, x.event.check) = About(kept, x.event.check)
    BY <1>10
  <2> QED BY <1>4, <2>1 DEF About
<1>20. Renews(queue.events, active, incoming, t, added, new.events)
  BY <1>4, <1>9, <1>10, <1>12, <1>15, <1>16, <1>17, <1>19 DEF Renews
<1> QED BY <1>18, <1>20 DEF new, added, retained

\* What the limit cut off concerns none of the other checks.
LEMMA UncutEntries ==
  ASSUME NEW old, NEW active, NEW incoming, NEW t, NEW added, NEW new,
         Renews(old, active, incoming, t, added, new),
         NEW c, \A x \in ToSet(added) \ ToSet(new) : x.event.check # c
  PROVE  About(new, c) = About(added, c)
BY DEF Renews, About

\* An entry that was queued still is, or a newer alert has its place, or it was
\* dropped: its check did not run, or the limit cut off an entry about the check.
LEMMA RenewedKeeps ==
  ASSUME NEW time \in Nat, NEW old, GoodEvents(old, time), NEW active, NEW incoming, NEW t,
         NEW added, NEW new, Renews(old, active, incoming, t, added, new),
         NEW x \in ToSet(old) \ ToSet(new), x.event.check \in active,
         \A y \in ToSet(added) \ ToSet(new) : y.event.check # x.event.check
  PROVE  \E newer \in ToSet(new) : /\ newer.event.check = x.event.check
                                   /\ newer.createdAt = x.createdAt
PROOF
<1> DEFINE c == x.event.check
<1>1. About(new, c) = About(added, c)
  BY UncutEntries
<1>2. x \in About(old, c) /\ x \notin About(new, c)
  BY DEF About
<1> HIDE DEF c
<1>3. PICK i \in 1 .. Len(incoming) : incoming[i].check = c
  BY <1>1, <1>2 DEF Renews, c
<1>4. Adds(About(old, c), About(new, c), incoming[i], t)
  BY <1>1, <1>3 DEF Renews
<1>5. PICK entry : /\ Latest(entry, About(old, c))
                   /\ About(new, c) = (About(old, c) \ {entry})
                                        \cup {[entry EXCEPT !.event = incoming[i]]}
  BY <1>2, <1>4 DEF Adds
<1>6. entry = x
  BY <1>2, <1>5
<1>7. x \in QueueEntries
  BY <1>2, AboutType
<1> DEFINE newer == [x EXCEPT !.event = incoming[i]]
<1>8. newer.event = incoming[i] /\ newer.createdAt = x.createdAt
  BY <1>7 DEF QueueEntries
<1>9. newer \in ToSet(new)
  BY <1>5, <1>6 DEF About
<1> HIDE DEF newer
<1> QED BY <1>3, <1>8, <1>9 DEF c

-----------------------------------------------------------------------------
(* The files and the memory agree *)

\* What a check has said and what a run makes of its files agree, and so do problems
\* and recoveries with each other.
Coherent(checks, events, c, w) ==
  /\ Agrees(Recalled(checks, events, c), Said(events, c, w), w)
  /\ NotifyRecovery /\ ~w.restarted => TakeTurns(About(events, c), c, w)

\* The files between any two steps.
Consistent(w) ==
  /\ w.now \in Nat \ {0} /\ w.restarted \in BOOLEAN /\ DOMAIN w.received = Checks
  /\ GoodQueue(w.queue, w.now) /\ GoodChecks(w.checks, w.now)
  /\ \A c \in Ordinary \ w.dropped : Coherent(w.checks, w.queue.events, c, w)

\* The states of the checks agree with the queue file.
Believes(checks, w) ==
  \A c \in Ordinary \ w.dropped : Agrees(StateOf(checks, c), Said(w.queue.events, c, w), w)

\* The checks a run drops alerts of.
Lost(r) == (Checks \ r.enabled) \cup {entry.event.check : entry \in r.overflow}

\* A run that has evaluated its results and saved nothing yet.
Evaluated(r, w) ==
  /\ GoodQueue(r.pending, w.now)
  /\ \A c \in Ordinary \ (w.dropped \cup Lost(r)) :
       /\ Coherent(w.checks, r.pending.events, c, w)
       /\ Agrees(StateOf(r.checks, c), Said(r.pending.events, c, w), w)
  /\ \A old \in r.overflow, kept \in ToSet(r.pending.events) : old.createdAt <= kept.createdAt
  /\ \A entry \in ToSet(w.queue.events) \ ToSet(r.pending.events) :
       \/ entry.event.check \in Lost(r)
       \/ \E newer \in ToSet(r.pending.events) :
            /\ newer.event.check = entry.event.check
            /\ newer.createdAt = entry.createdAt

\* The server has accepted these entries, one after the other.
Answered(first, w) ==
  /\ ToSet(first) \subseteq w.delivered
  /\ \A c, d : Latest(d, About(first, c)) => w.received[c] = d.event

\* A run that has had a first part of the queue acknowledged.
Acknowledged(r, w) ==
  /\ r.pending \in Queues
  /\ \E n \in 0 .. Len(w.queue.events) :
       /\ r.pending.events = SubSeq(w.queue.events, n + 1, Len(w.queue.events))
       /\ Answered(SubSeq(w.queue.events, 1, n), w)

\* The memory of a run at each of its points.
Holds(r, w) ==
  /\ r.pc \in CheckSteps =>
       /\ r.enabled \subseteq Checks /\ r.lastRun \in Nat /\ r.time \in Nat
       /\ GoodChecks(r.checks, w.now)
  /\ r.pc \in {"collect", "observe"} =>
       r.pending = w.queue /\ (r.mode # "baseline" => Believes(r.checks, w))
  /\ r.pc = "observe" => r.page.entries \subseteq 1 .. MaxEntries
  /\ r.pc = "saveQueue" => r.mode = "check" /\ Evaluated(r, w)
  /\ r.pc = "saveState" =>
       \/ r.mode = "baseline" /\ \A c \in Checks : ~StateOf(r.checks, c).notified
       \/ r.mode = "check" /\ r.pending = w.queue /\ Believes(r.checks, w)
  /\ r.pc \in {"saveCursor", "send", "saveDelivered", "saveFailure"} /\ r.mode = "check" =>
       Believes(w.checks, w)
  /\ r.pc \in {"saveCursor", "send"} /\ r.mode = "check" => r.pending = w.queue
  /\ r.pc \in {"send", "saveDelivered", "saveFailure"} => r.mode = "check"
  /\ r.pc = "saveDelivered" => Acknowledged(r, w)
  /\ r.pc = "saveFailure" => r.pending \in Queues /\ r.pending.events = w.queue.events
  /\ r.pc \in {"removeState", "removeQueue"} => w.restarted
  /\ r.pc = "removeQueue" => DOMAIN w.checks = {}

\* A process without memory has nothing to agree with.
LEMMA IdleHolds ==
  ASSUME NEW r, r.pc \in {"idle", "removeCursor"}, NEW w PROVE Holds(r, w)
BY DEF Holds, CheckSteps

-----------------------------------------------------------------------------
(* What a step that changes part of the world leaves as it was *)

\* An agreement outlives a step that sends nothing, a reset included.
LEMMA AgreesStill ==
  ASSUME NEW w, NEW v, v.received = w.received, w.restarted => v.restarted,
         NEW check, NEW events, NEW c, Agrees(check, Said(events, c, w), w)
  PROVE  Agrees(check, Said(events, c, v), v)
BY DEF Agrees, Said

\* Turns do, too, if the server's memory of the entries is not lost.
LEMMA TakeTurnsStill ==
  ASSUME NEW w, NEW v, v.received = w.received, NEW entries, NEW c,
         entries \cap w.delivered \subseteq v.delivered, TakeTurns(entries, c, w)
  PROVE  TakeTurns(entries, c, v)
BY DEF TakeTurns

\* Both together.
LEMMA CoherentStill ==
  ASSUME NEW w, NEW v, v.received = w.received, w.restarted => v.restarted,
         NEW checks, NEW events, NEW c,
         ToSet(events) \cap w.delivered \subseteq v.delivered,
         Coherent(checks, events, c, w)
  PROVE  Coherent(checks, events, c, v)
PROOF
<1>1. About(events, c) \cap w.delivered \subseteq v.delivered
  BY DEF About
<1> QED BY <1>1, AgreesStill, TakeTurnsStill DEF Coherent

\* Time passes.
LEMMA GoodLater ==
  ASSUME NEW time \in Nat, NEW t \in Nat, time <= t
  PROVE  /\ \A queue : GoodQueue(queue, time) => GoodQueue(queue, t)
         /\ \A checks : GoodChecks(checks, time) => GoodChecks(checks, t)
PROOF
<1>1. ASSUME NEW queue, GoodQueue(queue, time) PROVE GoodQueue(queue, t)
  <2>1. \A i \in DOMAIN queue.events : queue.events[i].createdAt \in Nat
    <3>1. \A i \in DOMAIN queue.events : queue.events[i] \in Queued(Events)
      BY <1>1 DEF GoodQueue, GoodEvents
    <3> QED BY <3>1 DEF Queued
  <2>2. UpTo(queue.events, t)
    BY <1>1, <2>1 DEF GoodQueue, GoodEvents, UpTo
  <2> QED BY <1>1, <2>2 DEF GoodQueue, GoodEvents
<1>2. ASSUME NEW checks, GoodChecks(checks, time) PROVE GoodChecks(checks, t)
  <2>1. ASSUME NEW c \in DOMAIN checks PROVE checks[c].lastRecoveryAt <= t
    <3>1. checks[c].lastRecoveryAt \in Nat /\ checks[c].lastRecoveryAt <= time
      BY <1>2 DEF GoodChecks, GoodCheck, CheckStates
    <3> QED BY <3>1
  <2> QED BY <1>2, <2>1 DEF GoodChecks, GoodCheck
<1> QED BY <1>1, <1>2

\* A step that changes neither the queue nor the states keeps the files consistent.
LEMMA StillConsistent ==
  ASSUME NEW w, Consistent(w), NEW v, v.queue = w.queue, v.checks = w.checks,
         v.received = w.received, w.delivered \subseteq v.delivered, v.dropped = w.dropped,
         v.restarted \in BOOLEAN, w.restarted => v.restarted,
         v.now \in Nat, w.now <= v.now
  PROVE  Consistent(v)
PROOF
<1>1. w.now \in Nat /\ v.now \in Nat \ {0}
  BY DEF Consistent
<1>2. GoodQueue(v.queue, v.now) /\ GoodChecks(v.checks, v.now)
  BY <1>1, GoodLater DEF Consistent
<1>3. \A c \in Ordinary \ v.dropped : Coherent(v.checks, v.queue.events, c, v)
  BY CoherentStill DEF Consistent
<1> QED BY <1>1, <1>2, <1>3 DEF Consistent

\* The same for the memory.
LEMMA BelievesStill ==
  ASSUME NEW w, NEW v, v.queue = w.queue, v.received = w.received, v.dropped = w.dropped,
         w.restarted => v.restarted, NEW checks, Believes(checks, w)
  PROVE  Believes(checks, v)
BY AgreesStill DEF Believes

-----------------------------------------------------------------------------
(* A run starts *)

\* What a run loads are good states that agree with the queue file.
LEMMA LoadedHolds ==
  ASSUME NEW w, Consistent(w), NEW r, r.pc = "collect", r.pending = w.queue,
         r.enabled \subseteq Checks, r.lastRun \in Nat, r.time \in Nat,
         r.checks = IF r.mode = "baseline" THEN LoadChecks(w.checks)
                    ELSE Restore(LoadChecks(w.checks), w.queue.events)
  PROVE  Holds(r, w)
PROOF
<1> DEFINE checks == LoadChecks(w.checks)
           events == w.queue.events
<1>1. /\ w.now \in Nat /\ GoodChecks(w.checks, w.now) /\ GoodEvents(events, w.now)
      /\ GoodChecks(checks, w.now) /\ DOMAIN checks \subseteq Checks
      /\ \A c : StateOf(checks, c) = StateOf(w.checks, c)
  BY LoadedState DEF Consistent, GoodQueue, GoodChecks
<1>2. \A c : Recalled(checks, events, c) = Recalled(w.checks, events, c)
  BY <1>1, SameStateSameRecall
<1> HIDE DEF checks
<1>3. ASSUME NEW c \in Checks PROVE GoodCheck(Recalled(checks, events, c), w.now)
  <2>1. GoodCheck(StateOf(checks, c), w.now)
    BY <1>1, StateOfGood
  <2>2. CASE About(events, c) = {}
    <3>1. Recalled(checks, events, c) = StateOf(checks, c)
      BY <1>1, <2>2, NothingIsRecalled
    <3> QED BY <2>1, <3>1
  <2>3. CASE About(events, c) # {}
    <3>1. PICK d : Latest(d, About(events, c))
      BY <1>1, <2>3, SomeIsLatest
    <3>2. Recalled(checks, events, c) = RestoreCheck(StateOf(checks, c), d)
      BY <1>1, <3>1, LatestIsRecalled
    <3>3. d \in QueueEntries /\ WellSaid(d.event)
      BY <1>1, <3>1, AboutType DEF Latest
    <3> QED BY <1>1, <2>1, <3>2, <3>3, RestoreCheckIs
  <2> QED BY <2>2, <2>3
<1>4. /\ DOMAIN Restore(checks, events) \subseteq Checks
      /\ \A c \in Checks : StateOf(Restore(checks, events), c) = Recalled(checks, events, c)
      /\ \A c \in DOMAIN Restore(checks, events) :
           Restore(checks, events)[c] = Recalled(checks, events, c)
  BY <1>1, RestoredState
<1>5. GoodChecks(Restore(checks, events), w.now)
  BY <1>3, <1>4 DEF GoodChecks
<1>6. GoodChecks(r.checks, w.now)
  BY <1>1, <1>5 DEF checks
<1>7. r.mode # "baseline" => Believes(r.checks, w)
  <2> SUFFICES ASSUME r.mode # "baseline", NEW c \in Ordinary \ w.dropped
               PROVE  Agrees(StateOf(r.checks, c), Said(events, c, w), w)
    BY DEF Believes
  <2>1. StateOf(r.checks, c) = Recalled(w.checks, events, c)
    BY <1>2, <1>4 DEF Ordinary, checks
  <2> QED BY <2>1 DEF Consistent, Coherent
<1> QED BY <1>6, <1>7 DEF Holds

-----------------------------------------------------------------------------
(* A check evaluates its results *)

\* What the engine makes of the results, c \in JournalChecks being one of its inputs.
Outcomes(outcomes, checks, results, t) ==
  \A c \in DOMAIN results : \E isJournal \in BOOLEAN :
    /\ isJournal <=> c \in JournalChecks
    /\ outcomes[c] = EvaluateCheck(StateOf(checks, c), results[c], isJournal, t)

WellTyped(results) ==
  \A c \in DOMAIN results :
    /\ c \in Checks /\ results[c] \in Results({"m"}, Occurrences)
    /\ c \in Ordinary => results[c].occurrence = NoOccurrence

\* Every outcome of a run is a good state, and its event tells what changed.
LEMMA OutcomesGood ==
  ASSUME NEW time \in Nat, NEW t \in Nat, t # Never, time <= t,
         NEW checks, GoodChecks(checks, time), NEW results, WellTyped(results),
         NEW outcomes, Outcomes(outcomes, checks, results, t), NEW c \in DOMAIN results
  PROVE  /\ GoodCheck(outcomes[c].check, t)
         /\ Raises(results, outcomes, c) =>
              /\ EventAbout(results, outcomes, c) \in Events
              /\ WellSaid(EventAbout(results, outcomes, c))
              /\ EventAbout(results, outcomes, c).check = c
              /\ EventAbout(results, outcomes, c).kind = outcomes[c].kind
         /\ c \in Ordinary => Changes(StateOf(checks, c), outcomes[c].check, outcomes[c].kind)
PROOF
<1>1. PICK isJournal \in BOOLEAN :
        /\ isJournal <=> c \in JournalChecks
        /\ outcomes[c] = EvaluateCheck(StateOf(checks, c), results[c], isJournal, t)
  BY DEF Outcomes
<1>2. GoodCheck(StateOf(checks, c), time)
  BY StateOfGood
<1>3. /\ c \in Checks /\ results[c] \in Results({"m"}, Occurrences)
      /\ c \in Ordinary => results[c].occurrence = NoOccurrence
  BY DEF WellTyped
<1>4. /\ GoodCheck(outcomes[c].check, t)
      /\ outcomes[c].kind # "none" =>
           /\ NewEvent(c, results[c], outcomes[c]) \in Events
           /\ WellSaid(NewEvent(c, results[c], outcomes[c]))
           /\ NewEvent(c, results[c], outcomes[c]).check = c
           /\ NewEvent(c, results[c], outcomes[c]).kind = outcomes[c].kind
  BY <1>1, <1>2, <1>3, EvaluateGood
<1>5. ASSUME c \in Ordinary
      PROVE  Changes(StateOf(checks, c), outcomes[c].check, outcomes[c].kind)
  <2>1. ~isJournal
    BY <1>1, <1>5 DEF Ordinary
  <2>2. IsResult(results[c], Occurrences) /\ results[c].occurrence = NoOccurrence
    BY <1>3, <1>5 DEF IsResult, Results
  <2>3. StateOf(checks, c) \in CheckStates(Nat, Occurrences)
    BY <1>2 DEF GoodCheck
  <2> QED BY <1>1, <2>1, <2>2, <2>3, EvaluateBelief
<1> QED BY <1>4, <1>5 DEF Raises, EventAbout

\* What a check has in memory once it has evaluated its results.
Computes(next, r, results, outcomes, t) ==
  /\ next.enabled = r.enabled
  /\ next.pending = Add(RetainChecks(r.pending, r.enabled), EventsOf(results, outcomes), t)
  /\ next.overflow = ToSet(AddAll(RetainChecks(r.pending, r.enabled).events,
                                  EventsOf(results, outcomes), t))
                       \ ToSet(next.pending.events)
  /\ DOMAIN next.checks = DOMAIN results
  /\ \A c \in DOMAIN results : next.checks[c] = outcomes[c].check

\* A moment later.
Ticks(w, v, t) ==
  /\ t = w.now + 1 /\ v.now = t /\ v.queue = w.queue /\ v.checks = w.checks
  /\ v.received = w.received /\ v.delivered = w.delivered /\ v.dropped = w.dropped
  /\ v.restarted = w.restarted

\* The queue of a run, before its limit and after it, is renewed by events its checks raised.
Renewal(r, next, results, outcomes, t, incoming, added) ==
  /\ IsRaised(incoming, results, outcomes)
  /\ \A i \in 1 .. Len(incoming) :
       /\ WellSaid(incoming[i]) /\ incoming[i].check \in r.enabled
       /\ Raises(results, outcomes, incoming[i].check)
  /\ GoodQueue(next.pending, t)
  /\ Renews(r.pending.events, r.enabled, incoming, t, added, next.pending.events)
  /\ next.overflow = ToSet(added) \ ToSet(next.pending.events)

\* What the events of a run make of the queue, whatever its checks have found.
LEMMA RunRenews ==
  ASSUME AgentAssumption, NEW w, Consistent(w), NEW t, t = w.now + 1,
         NEW r, r.pending = w.queue, r.enabled \subseteq Checks, GoodChecks(r.checks, w.now),
         NEW results, DOMAIN results = r.enabled, WellTyped(results),
         NEW outcomes, Outcomes(outcomes, r.checks, results, t),
         NEW next, Computes(next, r, results, outcomes, t)
  PROVE  \E incoming, added : Renewal(r, next, results, outcomes, t, incoming, added)
PROOF
<1> DEFINE incoming == EventsOf(results, outcomes)
           added == AddAll(RetainChecks(r.pending, r.enabled).events, incoming, t)
<1>1. /\ w.now \in Nat /\ t \in Nat /\ w.now < t /\ w.now <= t /\ t # Never
      /\ GoodQueue(w.queue, w.now)
  <2>1. w.now \in Nat \ {0} /\ GoodQueue(w.queue, w.now)
    BY DEF Consistent
  <2> QED BY ONLY <2>1, t = w.now + 1 DEF Never
<1>2. ASSUME NEW c \in DOMAIN results, Raises(results, outcomes, c)
      PROVE  /\ EventAbout(results, outcomes, c) \in Events
             /\ WellSaid(EventAbout(results, outcomes, c))
             /\ EventAbout(results, outcomes, c).check = c
  BY <1>1, <1>2, OutcomesGood
<1>3. IsRaised(incoming, results, outcomes)
  <2>1. WellRaised(results, outcomes)
    BY <1>2 DEF WellRaised, Raises
  <2> QED BY <2>1, EventsAreRaised
<1>4. /\ next.pending = Add(RetainChecks(w.queue, r.enabled), incoming, t)
      /\ next.overflow = ToSet(added) \ ToSet(next.pending.events)
  BY DEF Computes
<1>5. added = AddAll(RetainChecks(w.queue, r.enabled).events, incoming, t)
  OBVIOUS
<1> HIDE DEF incoming, added
<1>6. ASSUME NEW i \in 1 .. Len(incoming)
      PROVE  /\ WellSaid(incoming[i]) /\ incoming[i].check \in r.enabled
             /\ Raises(results, outcomes, incoming[i].check)
  <2>1. PICK c \in Checks : /\ Raises(results, outcomes, c)
                            /\ incoming[i] = EventAbout(results, outcomes, c)
    BY <1>3 DEF IsRaised
  <2> QED BY <1>2, <2>1 DEF Raises
<1>7. incoming \in Seq(Events) /\ Distinct(incoming)
  BY <1>3 DEF IsRaised
<1>8. \A i \in 1 .. Len(incoming) : WellSaid(incoming[i]) /\ incoming[i].check \in r.enabled
  BY ONLY <1>6
<1>9. LET retained == RetainChecks(w.queue, r.enabled)
          all == AddAll(retained.events, incoming, t)
          kept == Add(retained, incoming, t)
      IN  GoodQueue(kept, t) /\ Renews(w.queue.events, r.enabled, incoming, t, all, kept.events)
  BY ONLY <1>1, <1>7, <1>8, QueueRenews
<1>10. /\ GoodQueue(next.pending, t)
       /\ Renews(w.queue.events, r.enabled, incoming, t, added, next.pending.events)
  BY ONLY <1>4, <1>5, <1>9
<1>11. next.overflow = ToSet(added) \ ToSet(next.pending.events) /\ r.pending = w.queue
  BY <1>4
<1>12. Renewal(r, next, results, outcomes, t, incoming, added)
  BY ONLY <1>3, <1>6, <1>10, <1>11 DEF Renewal
<1> QED BY ONLY <1>12

\* Whatever the checks find, the queue and the states a check is about to save agree
\* with the files as they are, for every check none of whose alerts it drops.
LEMMA CheckEvaluates ==
  ASSUME AgentAssumption, NEW w, Consistent(w), NEW t,
         NEW r, r.pending = w.queue, r.enabled \subseteq Checks,
         GoodChecks(r.checks, w.now), Believes(r.checks, w),
         NEW results, DOMAIN results = r.enabled, WellTyped(results),
         NEW outcomes, Outcomes(outcomes, r.checks, results, t),
         NEW next, Computes(next, r, results, outcomes, t),
         NEW v, Ticks(w, v, t)
  PROVE  Evaluated(next, v) /\ GoodChecks(next.checks, t)
PROOF
<1> /\ next.enabled = r.enabled
    /\ next.pending = Add(RetainChecks(r.pending, r.enabled), EventsOf(results, outcomes), t)
    /\ next.overflow = ToSet(AddAll(RetainChecks(r.pending, r.enabled).events,
                                    EventsOf(results, outcomes), t))
                         \ ToSet(next.pending.events)
    /\ DOMAIN next.checks = DOMAIN results
    /\ \A c \in DOMAIN results : next.checks[c] = outcomes[c].check
  BY DEF Computes
<1> /\ t = w.now + 1 /\ v.now = t /\ v.queue = w.queue /\ v.checks = w.checks
    /\ v.received = w.received /\ v.delivered = w.delivered /\ v.dropped = w.dropped
    /\ v.restarted = w.restarted
  BY DEF Ticks
<1> DEFINE events == w.queue.events
           new == next.pending.events
<1>1. /\ w.now \in Nat /\ t \in Nat /\ w.now < t /\ w.now <= t /\ t # Never
      /\ GoodQueue(w.queue, w.now) /\ GoodEvents(events, w.now) /\ GoodChecks(w.checks, w.now)
  BY DEF Consistent, GoodQueue, Never
<1>2. ASSUME NEW c \in DOMAIN results
      PROVE  /\ GoodCheck(outcomes[c].check, t)
             /\ Raises(results, outcomes, c) =>
                  /\ EventAbout(results, outcomes, c) \in Events
                  /\ WellSaid(EventAbout(results, outcomes, c))
                  /\ EventAbout(results, outcomes, c).check = c
                  /\ EventAbout(results, outcomes, c).kind = outcomes[c].kind
             /\ c \in Ordinary =>
                  Changes(StateOf(r.checks, c), outcomes[c].check, outcomes[c].kind)
  BY <1>1, OutcomesGood
<1>3. GoodChecks(next.checks, t)
  BY <1>2 DEF GoodChecks
<1>4. PICK incoming, added : Renewal(r, next, results, outcomes, t, incoming, added)
  BY RunRenews
<1> HIDE DEF new
<1>5. r.pending.events = events /\ next.pending.events = new
  BY DEF new
<1>6. /\ IsRaised(incoming, results, outcomes)
      /\ \A i \in 1 .. Len(incoming) : Raises(results, outcomes, incoming[i].check)
  BY <1>4 DEF Renewal
<1>7. GoodQueue(next.pending, t) /\ Renews(events, r.enabled, incoming, t, added, new)
  BY ONLY <1>4, <1>5 DEF Renewal
<1>8. next.overflow = ToSet(added) \ ToSet(new)
  BY ONLY <1>4, <1>5 DEF Renewal
<1>9. GoodEvents(new, t)
  BY <1>7 DEF Renews
<1>10. ASSUME NEW c \in Ordinary \ (w.dropped \cup Lost(next))
       PROVE  /\ Coherent(w.checks, new, c, w)
              /\ Agrees(StateOf(next.checks, c), Said(new, c, w), w)
  <2> DEFINE before == StateOf(r.checks, c)
             after == outcomes[c].check
             kind == outcomes[c].kind
             event == EventAbout(results, outcomes, c)
  <2>1. c \in DOMAIN results /\ c \in Checks /\ \A x \in ToSet(added) \ ToSet(new) : x.event.check # c
    BY <1>8 DEF Lost, Ordinary
  <2>2. About(new, c) = About(added, c)
    BY <1>7, <2>1, UncutEntries
  <2>3. StateOf(next.checks, c) = after
    BY <2>1 DEF StateOf
  <2>4. /\ Changes(before, after, kind)
        /\ Agrees(before, Said(events, c, w), w)
        /\ Coherent(w.checks, events, c, w)
    BY <1>2, <2>1 DEF Believes, Consistent
  <2>5. CASE Raises(results, outcomes, c)
    <3>1. PICK i \in 1 .. Len(incoming) : incoming[i] = event
      BY <1>6, <2>1, <2>5 DEF IsRaised
    <3>2. event.check = c /\ event.kind = kind /\ event.kind \in EventKinds
      BY <1>2, <2>1, <2>5 DEF Events
    <3>3. Adds(About(events, c), About(new, c), event, t)
      BY <1>7, <2>2, <3>1, <3>2 DEF Renews
    <3> HIDE DEF events, before, after, kind, event
    <3>4. /\ Said(new, c, w) = event
          /\ Agrees(Recalled(w.checks, new, c), Said(new, c, w), w)
      <4>1. c \in Ordinary /\ Agrees(Recalled(w.checks, events, c), Said(events, c, w), w)
        BY ONLY <2>1, <2>4, c \in Ordinary \ (w.dropped \cup Lost(next)) DEF Coherent
      <4> QED BY ONLY <1>1, <1>9, <3>2, <3>3, <4>1, AddedIsRecalled
    <3>5. Agrees(after, Said(new, c, w), w)
      BY <2>4, <3>2, <3>4, RaisedAgrees
    <3>6. NotifyRecovery /\ ~w.restarted => TakeTurns(About(new, c), c, w)
      BY <1>1, <2>4, <3>2, <3>3, AddedTakesTurns DEF Coherent
    <3> QED BY <2>3, <3>4, <3>5, <3>6 DEF Coherent, after
  <2>6. CASE ~Raises(results, outcomes, c)
    <3>1. \A i \in 1 .. Len(incoming) : incoming[i].check # c
      BY <1>6, <2>6
    <3>2. About(new, c) = About(events, c)
      BY <1>7, <2>1, <2>2, <3>1 DEF Renews
    <3>3. kind = "none"
      BY <2>1, <2>6 DEF Raises
    <3>4. /\ Said(new, c, w) = Said(events, c, w)
          /\ Recalled(w.checks, new, c) = Recalled(w.checks, events, c)
      BY ONLY <1>1, <1>9, <3>2, SameEntriesSaySame
    <3>5. Agrees(after, Said(new, c, w), w)
      BY <2>4, <3>3, <3>4, SilentAgrees
    <3>6. Coherent(w.checks, new, c, w)
      BY <2>4, <3>2, <3>4 DEF Coherent
    <3> QED BY <2>3, <3>5, <3>6
  <2> QED BY <2>5, <2>6
<1>11. ASSUME NEW c \in Ordinary \ (v.dropped \cup Lost(next))
       PROVE  /\ Coherent(v.checks, new, c, v)
              /\ Agrees(StateOf(next.checks, c), Said(new, c, v), v)
  BY <1>10, CoherentStill, AgreesStill
<1>12. ASSUME NEW x \in ToSet(events) \ ToSet(new), x.event.check \notin Lost(next)
       PROVE  \E newer \in ToSet(new) : /\ newer.event.check = x.event.check
                                        /\ newer.createdAt = x.createdAt
  <2>1. x.event.check \in Checks
    <3>1. x \in About(events, x.event.check)
      BY DEF About
    <3> QED BY <1>1, <3>1, AboutType
  <2>2. /\ x.event.check \in r.enabled
        /\ \A y \in ToSet(added) \ ToSet(new) : y.event.check # x.event.check
    BY <1>8, <1>12, <2>1 DEF Lost
  <2> QED BY ONLY <1>1, <1>7, <2>2, x \in ToSet(events) \ ToSet(new), RenewedKeeps
<1>13. \A old \in next.overflow, kept \in ToSet(new) : old.createdAt <= kept.createdAt
  BY <1>7, <1>8 DEF Renews
<1>14. Evaluated(next, v)
  BY <1>7, <1>11, <1>12, <1>13 DEF Evaluated, new
<1> QED BY <1>3, <1>14

-----------------------------------------------------------------------------
(* The saves *)

\* The queue is saved, the state is not yet: a run cut short here finds both agree.
LEMMA QueueSaved ==
  ASSUME NEW w, Consistent(w), NEW r, Evaluated(r, w),
         NEW v, v.queue = r.pending, v.dropped = w.dropped \cup Lost(r),
         v.delivered = w.delivered \cap ToSet(r.pending.events), v.checks = w.checks,
         v.received = w.received, v.restarted = w.restarted, v.now = w.now
  PROVE  Consistent(v) /\ Believes(r.checks, v)
PROOF
<1>1. \A c \in Ordinary \ v.dropped : Coherent(v.checks, v.queue.events, c, v)
  BY CoherentStill DEF Evaluated
<1>2. \A c \in Ordinary \ v.dropped : Agrees(StateOf(r.checks, c), Said(v.queue.events, c, v), v)
  BY AgreesStill DEF Evaluated
<1>3. GoodQueue(v.queue, v.now)
  BY DEF Evaluated
<1> QED BY <1>1, <1>2, <1>3 DEF Consistent, Believes

\* The states are saved.
LEMMA StateSaved ==
  ASSUME NEW w, Consistent(w), NEW v, v.queue = w.queue, v.dropped = w.dropped,
         v.delivered = w.delivered, v.received = w.received, v.now = w.now,
         v.restarted \in BOOLEAN, w.restarted => v.restarted,
         GoodChecks(v.checks, w.now), Believes(v.checks, v)
  PROVE  Consistent(v)
PROOF
<1>1. w.now \in Nat /\ GoodEvents(v.queue.events, w.now)
  BY DEF Consistent, GoodQueue
<1>2. ASSUME NEW c \in Ordinary \ v.dropped PROVE Coherent(v.checks, v.queue.events, c, v)
  <2>1. Agrees(StateOf(v.checks, c), Said(v.queue.events, c, v), v)
    BY <1>2 DEF Believes
  <2>2. Agrees(Recalled(v.checks, v.queue.events, c), Said(v.queue.events, c, v), v)
    BY <1>1, <1>2, <2>1, RecalledAgrees
  <2>3. Coherent(w.checks, v.queue.events, c, v)
    BY <1>2, CoherentStill DEF Consistent
  <2> QED BY <2>2, <2>3 DEF Coherent
<1> QED BY <1>2 DEF Consistent

\* A baseline and a reset leave no check that is notified about.
LEMMA UntoldAgrees ==
  ASSUME NEW v, v.restarted, NEW checks, \A c \in Checks : ~StateOf(checks, c).notified
  PROVE  Believes(checks, v)
BY DEF Believes, Agrees, Ordinary

\* No check is in an empty state file.
LEMMA NoState == /\ DOMAIN NewState.checks = {} /\ \A c : ~StateOf(NewState.checks, c).notified
                 /\ \A time : GoodChecks(NewState.checks, time)
BY DEF NewState, StateOf, NewCheck, GoodChecks

\* The queue is removed after the state.
LEMMA QueueRemoved ==
  ASSUME NEW w, Consistent(w), w.restarted, DOMAIN w.checks = {},
         NEW v, v.queue = EmptyQueue, v.dropped = w.dropped, v.checks = w.checks,
         v.received = w.received, v.now = w.now, v.restarted = w.restarted
  PROVE  Consistent(v)
PROOF
<1>1. GoodQueue(v.queue, v.now) /\ GoodEvents(v.queue.events, v.now)
      /\ \A c : About(v.queue.events, c) = {}
  <2>1. /\ EmptyQueue \in Queues /\ EmptyQueue.events = <<>> /\ Len(EmptyQueue.events) = 0
    BY DEF EmptyQueue, Queues, Immediately
  <2>2. /\ GoodEvents(<<>>, v.now) /\ \A c : About(<<>>, c) = {}
    BY DEF GoodEvents, Ordered, UpTo, ToSet, About
  <2>3. 0 <= MaxEvents
    BY QueueAssumption
  <2> QED BY <2>1, <2>2, <2>3 DEF GoodQueue
<1>2. ASSUME NEW c \in Ordinary \ v.dropped PROVE Coherent(v.checks, v.queue.events, c, v)
  <2>1. Recalled(v.checks, v.queue.events, c) = NewCheck
    <3>1. StateOf(v.checks, c) = NewCheck
      BY DEF StateOf
    <3>2. Recalled(v.checks, v.queue.events, c) = StateOf(v.checks, c)
      <4>1. GoodEvents(v.queue.events, v.now) /\ About(v.queue.events, c) = {}
        BY <1>1
      <4> QED BY ONLY <4>1, NothingIsRecalled
    <3> QED BY <3>1, <3>2
  <2>2. ~NewCheck.notified
    BY DEF NewCheck
  <2> QED BY <2>1, <2>2 DEF Coherent, Agrees
<1> QED BY <1>1, <1>2 DEF Consistent

-----------------------------------------------------------------------------
(* Delivering *)

\* A part of the queue is as good as the queue.
LEMMA PartGood ==
  ASSUME NEW time, NEW events, GoodEvents(events, time), NEW part \in Seq(Queued(Events)),
         Ordered(part), \A x \in ToSet(part) : x \in ToSet(events)
  PROVE  GoodEvents(part, time)
PROOF
<1>1. \A x \in ToSet(part) : x.createdAt <= time
  BY DEF GoodEvents, UpTo, ToSet
<1> QED BY <1>1 DEF GoodEvents, UpTo, ToSet

\* The first part of the queue is gone and the server has it: what is said stays.
LEMMA SaidStays ==
  ASSUME NEW w, NEW time, NEW events, GoodEvents(events, time),
         NEW first, GoodEvents(first, time), NEW then, GoodEvents(then, time),
         Splits(events, first, then), Answered(first, w), NEW c
  PROVE  Said(then, c, w) = Said(events, c, w)
PROOF
<1>1. \A x : x \in About(events, c) <=> x \in About(first, c) \/ x \in About(then, c)
  BY DEF Splits, About
<1>2. \A x \in About(first, c), y \in About(then, c) : x.createdAt <= y.createdAt
  BY DEF Splits, About
<1>3. CASE About(then, c) # {}
  <2>1. PICK d : Latest(d, About(then, c))
    BY <1>3, SomeIsLatest
  <2>2. Latest(d, About(events, c))
    BY <1>1, <1>2, <2>1 DEF Latest
  <2> QED BY <2>1, <2>2, LatestIsSaid
<1>4. CASE About(then, c) = {} /\ About(first, c) # {}
  <2>1. PICK d : Latest(d, About(first, c))
    BY <1>4, SomeIsLatest
  <2>2. Latest(d, About(events, c))
    BY <1>1, <1>4, <2>1 DEF Latest
  <2>3. Said(events, c, w) = d.event /\ w.received[c] = d.event
    BY <2>1, <2>2, LatestIsSaid DEF Answered
  <2>4. Said(then, c, w) = w.received[c]
    BY <1>4, NothingIsSaid
  <2> QED BY <2>3, <2>4
<1>5. CASE About(then, c) = {} /\ About(first, c) = {}
  <2>1. About(events, c) = {}
    BY <1>1, <1>5
  <2>2. Said(then, c, w) = w.received[c]
    BY <1>5, NothingIsSaid
  <2>3. Said(events, c, w) = w.received[c]
    BY <2>1, NothingIsSaid
  <2> QED BY <2>2, <2>3
<1> QED BY <1>3, <1>4, <1>5

\* What comes then is in turn after what the server has.
LEMMA TurnsStay ==
  ASSUME NEW w, NEW time, NEW events, GoodEvents(events, time),
         NEW first, GoodEvents(first, time), NEW then, GoodEvents(then, time),
         Splits(events, first, then), Answered(first, w), NEW c,
         TakeTurns(About(events, c), c, w)
  PROVE  TakeTurns(About(then, c), c, w)
PROOF
<1> DEFINE all == About(events, c)
           gone == About(first, c)
           rest == About(then, c)
<1>1. \A x : x \in all <=> x \in gone \/ x \in rest
  BY DEF Splits, About
<1>2. \A x \in gone, y \in rest : x.createdAt < y.createdAt
  BY DEF Splits, About
<1>3. gone # {} => \E d : Latest(d, gone)
  BY SomeIsLatest
<1>4. \A d : Latest(d, gone) => w.received[c] = d.event
  BY DEF Answered
<1>5. \A x \in gone, y \in rest : x.createdAt <= y.createdAt
  BY DEF Splits, About
<1> HIDE DEF all, gone, rest
<1>6. ASSUME NEW e \in rest
      PROVE  /\ \A d : Latest(d, Before(e, rest)) => Turn(d.event, e.event)
             /\ Before(e, rest) = {} /\ e \notin w.delivered => Turn(w.received[c], e.event)
  <2>1. e \in all
    BY <1>1
  <2>2. \A x : x \in Before(e, all) <=> x \in gone \/ x \in Before(e, rest)
    BY <1>1, <1>2 DEF Before
  <2>3. ASSUME NEW d, Latest(d, Before(e, rest)) PROVE Turn(d.event, e.event)
    <3>1. d \in rest
      BY <2>3 DEF Latest, Before
    <3>2. Latest(d, Before(e, all))
      BY <1>5, <2>2, <2>3, <3>1 DEF Latest
    <3> QED BY <2>1, <3>2 DEF TakeTurns, all
  <2>4. ASSUME Before(e, rest) = {}, e \notin w.delivered PROVE Turn(w.received[c], e.event)
    <3>1. \A x : x \in Before(e, all) <=> x \in gone
      BY <2>2, <2>4
    <3>2. CASE gone = {}
      <4>1. Before(e, all) = {}
        BY <3>1, <3>2
      <4> QED BY <2>1, <2>4, <4>1 DEF TakeTurns, all
    <3>3. ASSUME NEW d, Latest(d, gone) PROVE Turn(w.received[c], e.event)
      <4>1. Latest(d, Before(e, all))
        BY <3>1, <3>3 DEF Latest
      <4>2. Turn(d.event, e.event)
        BY <2>1, <4>1 DEF TakeTurns, all
      <4> QED BY <1>4, <3>3, <4>2
    <3> QED BY <1>3, <3>2, <3>3
  <2> QED BY <2>3, <2>4
<1> QED BY <1>6 DEF TakeTurns, rest

\* The acknowledged part of the queue is taken out of the file.
LEMMA DeliveredSaved ==
  ASSUME NEW w, Consistent(w), Believes(w.checks, w), NEW r, Acknowledged(r, w),
         NEW v, v.queue = r.pending, v.dropped = w.dropped, v.checks = w.checks,
         v.delivered = w.delivered \cap ToSet(r.pending.events),
         v.received = w.received, v.restarted = w.restarted, v.now = w.now
  PROVE  /\ Consistent(v) /\ Believes(v.checks, v)
         /\ \A x \in ToSet(w.queue.events) \ ToSet(r.pending.events) : x \in w.delivered
PROOF
<1> DEFINE events == w.queue.events
           then == r.pending.events
<1>1. PICK n \in 0 .. Len(events) : /\ then = SubSeq(events, n + 1, Len(events))
                                    /\ Answered(SubSeq(events, 1, n), w)
  BY DEF Acknowledged
<1> DEFINE first == SubSeq(events, 1, n)
<1>2. /\ w.now \in Nat /\ GoodEvents(events, w.now) /\ GoodChecks(w.checks, w.now)
      /\ events \in Seq(Queued(Events)) /\ Ordered(events) /\ Len(events) <= MaxEvents
      /\ Len(events) \in Nat /\ MaxEvents \in Nat
  BY QueueAssumption DEF Consistent, GoodQueue, GoodEvents
<1>3. /\ first \in Seq(Queued(Events)) /\ then \in Seq(Queued(Events))
      /\ Len(then) = Len(events) - n /\ Splits(events, first, then)
  <2>1. LET E == Events
            rest == SubSeq(events, n + 1, Len(events))
        IN  /\ first \in Seq(Queued(E)) /\ rest \in Seq(Queued(E))
            /\ Len(rest) = Len(events) - n /\ Splits(events, first, rest)
    <3> HIDE DEF events
    <3> QED BY ONLY <1>2, n \in 0 .. Len(events), SubSeqSplits
  <2> QED BY ONLY <1>1, <2>1
<1>4. Answered(first, w)
  BY <1>1
<1>a. r.pending \in Queues /\ r.pending.events = then /\ Len(then) <= MaxEvents
  BY <1>2, <1>3 DEF Acknowledged
<1> HIDE DEF first, then, events
<1>5. /\ \A x \in ToSet(first) \cup ToSet(then) : x \in ToSet(events)
      /\ \A x \in ToSet(events) : x \in ToSet(first) \/ x \in ToSet(then)
      /\ Ordered(first) /\ Ordered(then)
  BY <1>3 DEF Splits
<1>6. GoodEvents(first, w.now) /\ GoodEvents(then, w.now)
  BY <1>2, <1>3, <1>5, PartGood
<1>7. GoodQueue(v.queue, v.now)
  BY <1>a, <1>6 DEF GoodQueue
<1>8. ASSUME NEW c \in Ordinary \ w.dropped
      PROVE  /\ Agrees(StateOf(w.checks, c), Said(then, c, w), w)
             /\ Coherent(w.checks, then, c, w)
  <2>1. Agrees(StateOf(w.checks, c), Said(then, c, w), w)
    <3>1. Said(then, c, w) = Said(events, c, w)
      BY <1>2, <1>3, <1>4, <1>6, SaidStays
    <3> QED BY <3>1 DEF Believes, events
  <2>2. Agrees(Recalled(w.checks, then, c), Said(then, c, w), w)
    BY <1>2, <1>6, <2>1, RecalledAgrees
  <2>3. ASSUME NotifyRecovery /\ ~w.restarted PROVE TakeTurns(About(then, c), c, w)
    <3>1. TakeTurns(About(events, c), c, w)
      BY <2>3 DEF Consistent, Coherent, events
    <3> QED BY <1>2, <1>3, <1>4, <1>6, <3>1, TurnsStay
  <2> QED BY <2>1, <2>2, <2>3 DEF Coherent
<1>9. \A c \in Ordinary \ v.dropped : Coherent(v.checks, v.queue.events, c, v)
  BY <1>8, CoherentStill DEF then
<1>10. Believes(v.checks, v)
  BY <1>8, AgreesStill DEF Believes, then
<1>11. \A x \in ToSet(events) \ ToSet(then) : x \in w.delivered
  BY <1>4, <1>5 DEF Answered
<1> QED BY <1>7, <1>9, <1>10, <1>11 DEF Consistent, events, then

\* The server accepts a first part of the queue.
Accepts(first, w, v) ==
  /\ DOMAIN v.received = DOMAIN w.received
  /\ \A x : x \in v.delivered <=> x \in w.delivered \/ x \in ToSet(first)
  /\ \A c, d : Latest(d, About(first, c)) => v.received[c] = d.event
  /\ \A c \in Checks : About(first, c) = {} => v.received[c] = w.received[c]

\* The files agree with what the server has accepted, although no acknowledgement came.
LEMMA BatchAccepted ==
  ASSUME NEW w, Consistent(w), Believes(w.checks, w), NEW n \in 1 .. Len(w.queue.events),
         NEW v, v.queue = w.queue, v.dropped = w.dropped, v.checks = w.checks,
         v.restarted = w.restarted, v.now = w.now,
         Accepts(SubSeq(w.queue.events, 1, n), w, v)
  PROVE  /\ Consistent(v) /\ Believes(v.checks, v)
         /\ Answered(SubSeq(w.queue.events, 1, n), v)
PROOF
<1> DEFINE events == w.queue.events
           first == SubSeq(events, 1, n)
           then == SubSeq(events, n + 1, Len(events))
<1>1. /\ w.now \in Nat /\ GoodEvents(events, w.now)
      /\ events \in Seq(Queued(Events)) /\ Ordered(events) /\ n \in 0 .. Len(events)
  BY DEF Consistent, GoodQueue, GoodEvents
<1>2. Splits(events, first, then)
  BY <1>1, SubSeqSplits
<1>3. Answered(first, v)
  BY DEF Accepts, Answered
<1>a. Accepts(first, w, v)
  OBVIOUS
<1> HIDE DEF first, then, events
<1>4. ASSUME NEW c \in Checks PROVE Said(events, c, v) = Said(events, c, w)
  <2>1. CASE About(events, c) = {}
    <3>1. About(first, c) = {}
      BY <1>2, <2>1 DEF Splits, About
    <3>2. v.received[c] = w.received[c]
      BY <1>a, <3>1 DEF Accepts
    <3> QED BY <3>2 DEF Said
  <2>2. ASSUME NEW d, Latest(d, About(events, c)) PROVE Said(events, c, v) = Said(events, c, w)
    BY <1>1, <2>2, LatestIsSaid
  <2> QED BY <1>1, <2>1, <2>2, SomeIsLatest
<1>5. ASSUME NEW check, NEW c \in Checks, Agrees(check, Said(events, c, w), w)
      PROVE  Agrees(check, Said(events, c, v), v)
  BY <1>4, <1>5 DEF Agrees
<1>6. ASSUME NEW c \in Checks, TakeTurns(About(events, c), c, w) PROVE TakeTurns(About(events, c), c, v)
  <2> SUFFICES ASSUME NEW e \in About(events, c), Before(e, About(events, c)) = {},
                      e \notin v.delivered
               PROVE  Turn(v.received[c], e.event)
    BY <1>6 DEF TakeTurns
  <2>1. e \notin w.delivered /\ e \notin ToSet(first)
    BY <1>a DEF Accepts
  <2>2. e \in ToSet(then) /\ e.event.check = c
    BY <1>2, <2>1 DEF Splits, About
  <2>3. ASSUME NEW x \in About(first, c) PROVE FALSE
    <3>1. x \in ToSet(first) /\ x.event.check = c
      BY DEF About
    <3>2. x.createdAt < e.createdAt /\ x \in ToSet(events)
      BY <1>2, <2>2, <3>1 DEF Splits
    <3>3. x \in Before(e, About(events, c))
      BY <3>1, <3>2 DEF Before, About
    <3> QED BY <3>3
  <2>4. v.received[c] = w.received[c]
    BY <1>a, <2>3 DEF Accepts
  <2> QED BY <1>6, <2>1, <2>4 DEF TakeTurns
<1>7. Consistent(v)
  <2>1. \A c \in Ordinary \ v.dropped : Coherent(v.checks, v.queue.events, c, v)
    BY <1>5, <1>6 DEF Consistent, Coherent, events, Ordinary
  <2>2. DOMAIN v.received = Checks
    BY <1>a DEF Accepts, Consistent
  <2> QED BY <2>1, <2>2 DEF Consistent
<1>8. Believes(v.checks, v)
  BY <1>5 DEF Believes, events, Ordinary
<1> QED BY <1>3, <1>7, <1>8 DEF first, events

-----------------------------------------------------------------------------
(* What the server makes of a batch *)

\* What has been received, before a batch.
Heard == [received |-> received, delivered |-> delivered, surprises |-> surprises,
          settled |-> settled]

AcceptedEach(views, batch) ==
  /\ views[0] = Heard
  /\ \A i \in 1 .. Len(batch) : views[i] = Accept(views[i - 1], batch[i])

\* The server accepts the entries of a batch one after the other.
LEMMA AcceptedSteps ==
  ASSUME received \in [Checks -> Events \cup {Nothing}], NEW batch \in Seq(QueueEntries),
         ServerAccepts(batch)
  PROVE  \E views : /\ AcceptedEach(views, batch)
                    /\ Heard' = views[Len(batch)]
                    /\ dropped' = dropped /\ restarted' = restarted
PROOF
<1> DEFINE n == Len(batch)
           D == delivered \cup ToSet(batch)
           K == surprises \cup EventKinds
           T == settled \cup UNION Occurrences
           X == [received : [Checks -> Events \cup {Nothing}], delivered : SUBSET D,
                 surprises : SUBSET K, settled : SUBSET T]
           Iter(f) == [i \in 0 .. n |-> IF i = 0 THEN Heard ELSE Accept(f[i - 1], batch[i])]
           views == CHOOSE f : f = Iter(f)
           G == [i \in 1 .. n |-> [q \in X |-> Accept(q, batch[i])]]
<1>1. n \in Nat /\ \A i \in 1 .. n : batch[i] \in QueueEntries /\ batch[i] \in D
  BY DEF ToSet
<1>2. ASSUME NEW q \in X, NEW e \in QueueEntries, e \in D PROVE Accept(q, e) \in X
  <2>1. /\ e.event.check \in Checks /\ e.event \in Events /\ e.event.kind \in EventKinds
        /\ e.event.occurrence \in Occurrences
    BY DEF QueueEntries, Events
  <2>2. e.event.occurrence \subseteq T
    BY <2>1
  <2> DEFINE isSurprise == e \notin q.delivered /\ OutOfTurn(q, e.event)
  <2>3. Accept(q, e) = [received |-> [q.received EXCEPT ![e.event.check] = e.event],
                        delivered |-> q.delivered \cup {e},
                        surprises |-> q.surprises \cup
                                        (IF isSurprise THEN {e.event.kind} ELSE {}),
                        settled |-> q.settled \cup e.event.occurrence]
    BY DEF Accept
  <2> HIDE DEF isSurprise, D, T
  <2>4. (IF isSurprise THEN {e.event.kind} ELSE {}) \subseteq K
    BY <2>1
  <2> HIDE DEF K
  <2> QED BY <1>2, <2>1, <2>2, <2>3, <2>4
<1>3. G \in [1 .. n -> [X -> X]]
  BY <1>1, <1>2
<1>4. Heard \in X
  BY DEF Heard
<1>a. /\ received' = views[n].received /\ delivered' = views[n].delivered
      /\ surprises' = views[n].surprises /\ settled' = views[n].settled
      /\ dropped' = dropped /\ restarted' = restarted
  BY DEF ServerAccepts, Heard
<1> HIDE DEF X, n, D, K, T
<1>5. PICK f \in [0 .. n -> X] : Runs(f, Heard, n, G)
  <2> HIDE DEF G
  <2>1. n \in Nat
    BY <1>1
  <2> QED BY ONLY <1>3, <1>4, <2>1, Recursion
<1>6. \A i \in 1 .. n : f[i] = Accept(f[i - 1], batch[i])
  <2> TAKE i \in 1 .. n
  <2>1. i - 1 \in 0 .. n /\ f[i - 1] \in X
    BY <1>1
  <2>2. G[i] = [q \in X |-> Accept(q, batch[i])]
    OBVIOUS
  <2>3. f[i] = G[i][f[i - 1]]
    BY <1>5 DEF Runs
  <2> QED BY <2>1, <2>2, <2>3
<1>7. f = Iter(f)
  <2>1. ASSUME NEW i \in 0 .. n
        PROVE  f[i] = IF i = 0 THEN Heard ELSE Accept(f[i - 1], batch[i])
    BY <1>1, <1>5, <1>6 DEF Runs
  <2> QED BY <1>5, <2>1
<1>8. views = Iter(views)
  BY <1>7
<1>9. /\ DOMAIN views = 0 .. n /\ views[0] = Heard
      /\ \A i \in 1 .. n : views[i] = Accept(views[i - 1], batch[i])
  <2> HIDE DEF views
  <2> QED BY <1>1, <1>8
<1> HIDE DEF views
<1>10. \A i \in 0 .. n : views[i] \in X
  <2> DEFINE S == {i \in Nat : i <= n => views[i] \in X}
  <2>1. 0 \in S
    BY <1>4, <1>9
  <2>2. ASSUME NEW i \in Nat, i \in S PROVE i + 1 \in S
    <3> SUFFICES ASSUME i + 1 <= n PROVE views[i + 1] \in X
      OBVIOUS
    <3>1. views[i] \in X /\ i + 1 \in 1 .. n /\ (i + 1) - 1 = i
      BY <1>1, <2>2
    <3> QED BY <1>1, <1>2, <1>9, <3>1
  <2> HIDE DEF S
  <2>3. Nat \subseteq S
    BY <2>1, <2>2, Induction
  <2> QED BY <1>1, <2>3 DEF S
<1>11. Heard' = views[n]
  <2>1. views[n] \in X
    BY <1>1, <1>10
  <2>2. Heard' = [received |-> views[n].received, delivered |-> views[n].delivered,
                  surprises |-> views[n].surprises, settled |-> views[n].settled]
    BY <1>a DEF Heard
  <2> QED BY <2>1, <2>2 DEF X
<1> QED BY <1>9, <1>11, <1>a DEF AcceptedEach, n

\* What has been received once the first i entries of a batch have.
Hears(view, batch, i) ==
  /\ view.received \in [Checks -> Events \cup {Nothing}]
  /\ \A x : x \in view.delivered <=> x \in delivered \/ \E j \in 1 .. i : x = batch[j]
  /\ \A x : x \in view.settled <=>
       x \in settled \/ \E j \in 1 .. i : x \in batch[j].event.occurrence
  /\ \A c \in Checks : (\A j \in 1 .. i : batch[j].event.check # c) =>
       view.received[c] = received[c]
  /\ \A j \in 1 .. i : (\A k \in 1 .. i : k > j => batch[k].event.check # batch[j].event.check) =>
       view.received[batch[j].event.check] = batch[j].event

\* The last entry about a check is what is received about it.
LEMMA HeardOneByOne ==
  ASSUME received \in [Checks -> Events \cup {Nothing}], NEW batch \in Seq(QueueEntries),
         NEW views, AcceptedEach(views, batch)
  PROVE  \A i \in 0 .. Len(batch) : Hears(views[i], batch, i)
PROOF
<1> DEFINE n == Len(batch)
           S == {i \in Nat : i <= n => Hears(views[i], batch, i)}
<1>1. n \in Nat
  OBVIOUS
<1>a. ASSUME NEW j \in 1 .. n PROVE batch[j].event \in Events /\ batch[j].event.check \in Checks
  <2>1. batch[j] \in QueueEntries
    OBVIOUS
  <2>2. batch[j].event \in Events
    BY <2>1 DEF QueueEntries
  <2> QED BY <2>2 DEF Events
<1>2. 0 \in S
  BY DEF AcceptedEach, Heard, Hears
<1>3. ASSUME NEW i \in Nat, i \in S PROVE i + 1 \in S
  <2> SUFFICES ASSUME i + 1 <= n PROVE Hears(views[i + 1], batch, i + 1)
    OBVIOUS
  <2> DEFINE e == batch[i + 1]
             q == views[i]
             next == views[i + 1]
  <2>1. i + 1 \in 1 .. n /\ (i + 1) - 1 = i /\ Hears(q, batch, i)
    BY <1>1, <1>3
  <2>2. e.event \in Events /\ e.event.check \in Checks
    BY <1>a, <2>1
  <2>3. next = Accept(q, e)
    BY <2>1 DEF AcceptedEach
  <2>4. /\ next.received = [q.received EXCEPT ![e.event.check] = e.event]
        /\ next.delivered = q.delivered \cup {e}
        /\ next.settled = q.settled \cup e.event.occurrence
    BY <2>3 DEF Accept
  <2>5. \A j : j \in 1 .. i + 1 <=> j \in 1 .. i \/ j = i + 1
    OBVIOUS
  <2> HIDE DEF e, q, next
  <2>6. /\ next.received \in [Checks -> Events \cup {Nothing}]
        /\ next.received[e.event.check] = e.event
        /\ \A c \in Checks \ {e.event.check} : next.received[c] = q.received[c]
    BY <2>1, <2>2, <2>4 DEF Hears
  <2>7. \A x : x \in next.delivered <=> x \in delivered \/ \E j \in 1 .. i + 1 : x = batch[j]
    BY <2>1, <2>4, <2>5 DEF Hears, e
  <2>8. \A x : x \in next.settled <=>
          x \in settled \/ \E j \in 1 .. i + 1 : x \in batch[j].event.occurrence
    BY <2>1, <2>4, <2>5 DEF Hears, e
  <2>9. \A c \in Checks : (\A j \in 1 .. i + 1 : batch[j].event.check # c) =>
          next.received[c] = received[c]
    BY <2>1, <2>5, <2>6 DEF Hears, e
  <2>10. ASSUME NEW j \in 1 .. i + 1,
                \A k \in 1 .. i + 1 : k > j => batch[k].event.check # batch[j].event.check
         PROVE  next.received[batch[j].event.check] = batch[j].event
    <3>1. CASE j = i + 1
      BY <2>6, <3>1 DEF e
    <3>2. CASE j \in 1 .. i
      <4>1. batch[j].event.check # e.event.check
        BY <2>10, <2>5, <3>2 DEF e
      <4>2. batch[j].event.check \in Checks
        BY <1>1, <1>a, <2>1, <3>2
      <4>3. q.received[batch[j].event.check] = batch[j].event
        BY <2>1, <2>5, <2>10, <3>2 DEF Hears
      <4> QED BY <2>6, <4>1, <4>2, <4>3
    <3> QED BY <2>5, <3>1, <3>2
  <2>11. Hears(next, batch, i + 1)
    BY <2>6, <2>7, <2>8, <2>9, <2>10 DEF Hears
  <2> QED BY <2>11 DEF next
<1> HIDE DEF S
<1>4. Nat \subseteq S
  BY <1>2, <1>3, Induction
<1> QED BY <1>1, <1>4 DEF S

\* After a batch the server has received the last event about each check in it.
LEMMA BatchHeard ==
  ASSUME received \in [Checks -> Events \cup {Nothing}], NEW batch \in Seq(QueueEntries),
         Ordered(batch), Hears(Heard', batch, Len(batch))
  PROVE  Accepts(batch, World, World')
PROOF
<1> DEFINE n == Len(batch)
<1>0. n \in Nat /\ DOMAIN batch = 1 .. n
  OBVIOUS
<1>1. \A x : x \in ToSet(batch) <=> \E j \in 1 .. n : x = batch[j]
  BY <1>0 DEF ToSet
<1>2. /\ World.received = received /\ World'.received = Heard'.received
      /\ World.delivered = delivered /\ World'.delivered = Heard'.delivered
  BY DEF World, Heard
<1>3. Heard'.received \in [Checks -> Events \cup {Nothing}]
  BY DEF Hears
<1>4. \A x : x \in Heard'.delivered <=> x \in delivered \/ x \in ToSet(batch)
  BY <1>1 DEF Hears
<1>5. ASSUME NEW c, NEW d, Latest(d, About(batch, c)) PROVE Heard'.received[c] = d.event
  <2>1. d \in ToSet(batch) /\ d.event.check = c
    BY <1>5 DEF Latest, About
  <2>2. PICK j \in 1 .. n : d = batch[j]
    BY <1>1, <2>1
  <2>3. ASSUME NEW k \in 1 .. n, k > j PROVE batch[k].event.check # batch[j].event.check
    <3> SUFFICES ASSUME batch[k].event.check = batch[j].event.check PROVE FALSE
      OBVIOUS
    <3>1. batch[j].createdAt < batch[k].createdAt
      BY <1>0, <2>3 DEF Ordered
    <3>2. batch[k] \in About(batch, c)
      BY <1>1, <2>1, <2>2 DEF About
    <3>3. batch[k].createdAt <= batch[j].createdAt
      BY <1>5, <2>2, <3>2 DEF Latest
    <3>4. batch[k].createdAt \in Nat /\ batch[j].createdAt \in Nat
      <4>1. batch[k] \in QueueEntries /\ batch[j] \in QueueEntries
        OBVIOUS
      <4> QED BY <4>1 DEF QueueEntries
    <3> QED BY <3>1, <3>3, <3>4
  <2> QED BY <2>1, <2>2, <2>3 DEF Hears
<1>6. ASSUME NEW c \in Checks, About(batch, c) = {} PROVE Heard'.received[c] = received[c]
  <2>1. \A j \in 1 .. n : batch[j].event.check # c
    BY <1>1, <1>6 DEF About
  <2> QED BY <2>1 DEF Hears
<1>7. DOMAIN Heard'.received = DOMAIN received
  BY <1>3
<1> QED BY <1>2, <1>4, <1>5, <1>6, <1>7 DEF Accepts

\* An alert or a recovery that the server has not seen yet comes in its turn.
LEMMA InTurn ==
  ASSUME NotifyRecovery, Consistent(World), received \in [Checks -> Events \cup {Nothing}],
         NEW n \in 1 .. Len(queueFile.events), NEW i \in 1 .. n,
         NEW batch \in Seq(QueueEntries), batch = SubSeq(queueFile.events, 1, n),
         NEW view, Hears(view, batch, i - 1), batch[i] \notin view.delivered,
         batch[i].event.kind \in {"problem", "recovery"}
  PROVE  ~OutOfTurn(view, batch[i].event)
PROOF
<1> DEFINE events == queueFile.events
           e == events[i]
           c == e.event.check
           entries == About(events, c)
<1>1. /\ GoodEvents(events, now) /\ events \in Seq(Queued(Events)) /\ now \in Nat
      /\ World.delivered = delivered /\ World.received = received
      /\ World.restarted = restarted /\ World.dropped = dropped
      /\ World.queue = queueFile /\ World.checks = stateFile.checks
  BY DEF Consistent, World, GoodQueue, GoodEvents
<1>2. i \in 1 .. Len(events) /\ i \in Nat /\ Len(events) \in Nat
      /\ \A k \in 1 .. i : batch[k] = events[k] /\ k \in 1 .. Len(events)
  BY <1>1
<1>3. /\ \A k \in 1 .. Len(events) : events[k].createdAt \in Nat
      /\ \A j, k \in 1 .. Len(events) : j < k =>
           /\ events[j].createdAt <= events[k].createdAt
           /\ events[j].event.check = events[k].event.check =>
                events[j].createdAt < events[k].createdAt
  <2>1. \A k \in 1 .. Len(events) : events[k] \in Queued(Events)
    BY ONLY <1>1
  <2>2. Ordered(events)
    BY ONLY <1>1 DEF GoodEvents
  <2>3. DOMAIN events = 1 .. Len(events)
    BY ONLY <1>1
  <2>4. \A k \in 1 .. Len(events) : events[k].createdAt \in Nat
    BY ONLY <2>1 DEF Queued
  <2> QED BY ONLY <2>2, <2>3, <2>4 DEF Ordered
<1>4. \A x : x \in entries <=>
        \E k \in 1 .. Len(events) : x = events[k] /\ events[k].event.check = c
  <2>1. DOMAIN events = 1 .. Len(events)
    BY ONLY <1>1
  <2> HIDE DEF events, c
  <2> QED BY ONLY <2>1 DEF About, ToSet, entries
<1> HIDE DEF events, entries
<1>5. /\ WellSaid(e.event) /\ c \in Checks /\ batch[i] = e /\ e \in entries
      /\ e.createdAt \in Nat /\ Turn(view.received[c], e.event) \in BOOLEAN
  <2>1. e \in entries
    BY ONLY <1>2, <1>4
  <2>2. WellSaid(e.event) /\ c \in Checks
    <3> HIDE DEF e, c
    <3> QED BY ONLY <1>1, <2>1, AboutType DEF entries
  <2>3. batch[i] = e /\ e.createdAt \in Nat
    BY ONLY <1>2, <1>3
  <2> QED BY <2>1, <2>2, <2>3 DEF Turn
<1>6. e \notin delivered
  BY <1>5 DEF Hears
<1>7. \A x \in Before(e, entries) : \E k \in 1 .. i - 1 :
        x = events[k] /\ events[k].event.check = c /\ k \in 1 .. Len(events)
  <2> SUFFICES ASSUME NEW x \in Before(e, entries)
               PROVE  \E k \in 1 .. i - 1 :
                        x = events[k] /\ events[k].event.check = c /\ k \in 1 .. Len(events)
    OBVIOUS
  <2> HIDE DEF c
  <2>1. x \in entries /\ x.createdAt < e.createdAt
    BY ONLY x \in Before(e, entries) DEF Before
  <2>2. PICK k \in 1 .. Len(events) : x = events[k] /\ events[k].event.check = c
    BY ONLY <1>4, <2>1
  <2>3. ~ (i < k) /\ k # i
    BY ONLY <1>2, <1>3, <2>1, <2>2
  <2>4. k \in 1 .. i - 1
    BY ONLY <1>2, <2>3, k \in 1 .. Len(events)
  <2> QED BY ONLY <2>2, <2>4, k \in 1 .. Len(events)
<1>8. ASSUME NEW k \in 1 .. i - 1, events[k].event.check = c
      PROVE  events[k] \in Before(e, entries)
  <2>1. k \in 1 .. Len(events) /\ k < i
    BY ONLY <1>2, k \in 1 .. i - 1
  <2>a. e.event.check = c /\ e = events[i]
    OBVIOUS
  <2> HIDE DEF c, e
  <2>2. events[k].createdAt < e.createdAt
    BY ONLY <1>2, <1>3, <1>8, <2>a, <2>1
  <2>3. events[k] \in entries
    BY ONLY <1>4, <1>8, <2>1
  <2> QED BY ONLY <2>2, <2>3 DEF Before
<1>9. ASSUME c \in Undisturbed PROVE Turn(view.received[c], e.event)
  <2>1. TakeTurns(entries, c, World)
    <3>1. c \in Ordinary \ dropped /\ ~restarted
      BY <1>9 DEF Undisturbed
    <3> QED BY <1>1, <3>1 DEF Consistent, Coherent, events, entries
  <2>2. \A k \in 1 .. i - 1 : k \in 1 .. i /\ batch[k] = events[k]
    BY ONLY <1>2
  <2>3. CASE \A k \in 1 .. i - 1 : events[k].event.check # c
    <3> HIDE DEF c, e
    <3>1. Before(e, entries) = {}
      BY ONLY <1>7, <2>3
    <3>2. view.received[c] = received[c]
      <4>1. \A j \in 1 .. i - 1 : batch[j].event.check # c
        BY ONLY <2>2, <2>3
      <4> QED BY ONLY <1>5, <4>1, Hears(view, batch, i - 1) DEF Hears
    <3> QED BY ONLY <1>1, <1>5, <1>6, <2>1, <3>1, <3>2 DEF TakeTurns
  <2>4. ASSUME NEW k \in 1 .. i - 1, events[k].event.check = c PROVE Turn(view.received[c], e.event)
    <3> DEFINE J == {j \in 1 .. i - 1 : events[j].event.check = c}
               m == Max(J)
    <3> HIDE DEF c, e
    <3>1. m \in 1 .. i - 1 /\ events[m].event.check = c
          /\ \A j \in 1 .. i - 1 : events[j].event.check = c => j <= m
      <4>1. J \in SUBSET (1 .. i - 1) /\ J # {} /\ i - 1 \in Nat
        <5>1. i - 1 \in Nat
          BY ONLY <1>2, k \in 1 .. i - 1
        <5>2. k \in J
          BY ONLY <2>4, k \in 1 .. i - 1
        <5> QED BY ONLY <5>1, <5>2
      <4>2. m \in J /\ \A j \in J : j <= m
        <5> HIDE DEF J
        <5> QED BY ONLY <4>1, Greatest
      <4> HIDE DEF m
      <4> QED BY ONLY <4>2
    <3> HIDE DEF m
    <3>2. view.received[c] = events[m].event
      <4>1. batch[m] = events[m]
        BY ONLY <2>2, <3>1
      <4>2. ASSUME NEW j \in 1 .. i - 1, j > m PROVE batch[j].event.check # batch[m].event.check
        <5>1. batch[j] = events[j] /\ ~ (j <= m)
          BY ONLY <1>2, <2>2, <3>1, <4>2, j \in 1 .. i - 1
        <5> QED BY ONLY <3>1, <4>1, <5>1, j \in 1 .. i - 1
      <4>3. view.received[batch[m].event.check] = batch[m].event
        BY ONLY <3>1, <4>2, Hears(view, batch, i - 1) DEF Hears
      <4> QED BY ONLY <3>1, <4>1, <4>3
    <3>3. Latest(events[m], Before(e, entries))
      <4>1. events[m] \in Before(e, entries)
        BY ONLY <1>8, <3>1
      <4>2. ASSUME NEW x \in Before(e, entries) PROVE x.createdAt <= events[m].createdAt
        <5>1. PICK j \in 1 .. i - 1 :
                x = events[j] /\ events[j].event.check = c /\ j \in 1 .. Len(events)
          BY ONLY <1>7, x \in Before(e, entries)
        <5>2. j <= m
          BY ONLY <3>1, <5>1, j \in 1 .. i - 1
        <5>3. m \in 1 .. Len(events)
          BY ONLY <1>2, <3>1
        <5>4. events[m].createdAt \in Nat /\ events[j].createdAt \in Nat
          BY ONLY <1>3, <5>1, <5>3
        <5>5. j < m \/ j = m
          BY ONLY <1>2, <3>1, <5>2, j \in 1 .. i - 1
        <5>6. CASE j < m
          <6>1. events[j].createdAt <= events[m].createdAt
            BY ONLY <1>3, <5>1, <5>3, <5>6
          <6> QED BY ONLY <5>1, <6>1
        <5>7. CASE j = m
          BY ONLY <5>1, <5>4, <5>7
        <5> QED BY <5>5, <5>6, <5>7
      <4> QED BY ONLY <4>1, <4>2 DEF Latest
    <3>4. Turn(events[m].event, e.event)
      BY ONLY <1>5, <2>1, <3>3 DEF TakeTurns
    <3> QED BY ONLY <3>2, <3>4
  <2> QED BY <2>3, <2>4
<1>10. e.event.occurrence = NoOccurrence /\ e.event.kind \in {"problem", "recovery"}
  BY <1>5 DEF WellSaid
<1> QED BY <1>5, <1>9, <1>10 DEF OutOfTurn, Turn, NoOccurrence

\* A batch adds no problem and no recovery to what came out of turn.
LEMMA BatchInTurn ==
  ASSUME NotifyRecovery, Consistent(World), received \in [Checks -> Events \cup {Nothing}],
         NEW n \in 1 .. Len(queueFile.events),
         NEW batch \in Seq(QueueEntries), batch = SubSeq(queueFile.events, 1, n),
         NEW views, AcceptedEach(views, batch)
  PROVE  views[Len(batch)].surprises \cap {"problem", "recovery"} \subseteq surprises
PROOF
<1> DEFINE S == {i \in Nat : i <= n =>
                   views[i].surprises \cap {"problem", "recovery"} \subseteq surprises}
<1>1. Len(batch) = n /\ n \in Nat
  BY DEF Consistent, World, GoodQueue, GoodEvents
<1>2. 0 \in S
  BY DEF AcceptedEach, Heard
<1>3. ASSUME NEW i \in Nat, i \in S PROVE i + 1 \in S
  <2> SUFFICES ASSUME i + 1 <= n
               PROVE  views[i + 1].surprises \cap {"problem", "recovery"} \subseteq surprises
    OBVIOUS
  <2> DEFINE e == batch[i + 1]
  <2>1. i + 1 \in 1 .. n /\ i + 1 \in 1 .. Len(batch) /\ (i + 1) - 1 = i /\ i \in 0 .. Len(batch)
    BY <1>1
  <2>2. /\ views[i].surprises \cap {"problem", "recovery"} \subseteq surprises
        /\ views[i + 1] = Accept(views[i], e) /\ Hears(views[i], batch, i)
    <3>1. Hears(views[i], batch, i)
      BY <2>1, HeardOneByOne
    <3>2. views[i].surprises \cap {"problem", "recovery"} \subseteq surprises
      BY <1>3, <2>1
    <3> QED BY <2>1, <3>1, <3>2 DEF AcceptedEach
  <2>3. e \notin views[i].delivered /\ e.event.kind \in {"problem", "recovery"} =>
          ~OutOfTurn(views[i], e.event)
    BY <2>1, <2>2, InTurn
  <2>4. views[i + 1].surprises =
          views[i].surprises \cup (IF e \notin views[i].delivered /\ OutOfTurn(views[i], e.event)
                                   THEN {e.event.kind} ELSE {})
    BY <2>2 DEF Accept
  <2> QED BY <2>2, <2>3, <2>4
<1> HIDE DEF S
<1>4. Nat \subseteq S
  BY <1>2, <1>3, Induction
<1> QED BY <1>1, <1>4 DEF S

-----------------------------------------------------------------------------
(* The invariant of the files and the memory *)

Bounds ==
  /\ stateFile.lastRun \in Nat
  /\ received \in [Checks -> Events \cup {Nothing}]
  /\ Len(journal) <= MaxEntries
  /\ enabled \subseteq Checks

MemoriesAgree == \A p \in Procs : Holds(run[p], World)

NoTurnMissed == NotifyRecovery => ProblemsAndRecoveriesAlternate

FilesAgree == Bounds /\ Consistent(World) /\ MemoriesAgree /\ NoTurnMissed

\* What is to be shown of a step of p.
Agreement(p) ==
  Bounds' /\ Consistent(World') /\ Holds(run'[p], World') /\ NoTurnMissed'

\* The world before and after a step.
LEMMA WorldIs ==
  /\ World.queue = queueFile /\ World.checks = stateFile.checks /\ World.now = now
  /\ World.received = received /\ World.delivered = delivered
  /\ World.dropped = dropped /\ World.restarted = restarted
  /\ World'.queue = queueFile' /\ World'.checks = stateFile'.checks /\ World'.now = now'
  /\ World'.received = received' /\ World'.delivered = delivered'
  /\ World'.dropped = dropped' /\ World'.restarted = restarted'
BY DEF World

\* A step that changes nothing of the world and leaves the process idle or going on.
LEMMA NothingChanges ==
  ASSUME FilesAgree, NEW p \in Procs, World' = World,
         stateFile' = stateFile, received' = received, Len(journal') <= MaxEntries,
         enabled' \subseteq Checks, surprises' = surprises, Holds(run'[p], World)
  PROVE  Agreement(p)
BY DEF FilesAgree, Bounds, NoTurnMissed, ProblemsAndRecoveriesAlternate, Agreement

\* A run that ends holds nothing.
LEMMA Leaves ==
  ASSUME NEW p \in Procs, DOMAIN run = Procs, Leave(p)
  PROVE  \A w : Holds(run'[p], w)
BY IdleHolds DEF Leave, Idle

\* A run that goes on holds what the step says.
LEMMA Continues ==
  ASSUME NEW p \in Procs, DOMAIN run = Procs, NEW next, Continue(p, next)
  PROVE  run'[p] = next
BY DEF Continue

\* A run loads the files.
LEMMA BeginCheckAgrees ==
  ASSUME IInv, FilesAgree, NEW p \in Procs, NEW mode, BeginCheck(p, mode)
  PROVE  Agreement(p)
PROOF
<1>1. World' = World /\ run'[p] = Loaded(mode)
  BY DEF BeginCheck, World, files, outside, ghosts, IInv, Memory
<1>2. Holds(Loaded(mode), World)
  BY LoadedHolds, WorldIs DEF Loaded, FilesAgree, Bounds, Never
<1> QED BY <1>1, <1>2, NothingChanges DEF BeginCheck, files, outside, ghosts, FilesAgree, Bounds

\* A reset starts: from here on nothing is promised about forgotten alerts.
LEMMA BeginResetAgrees ==
  ASSUME IInv, FilesAgree, NEW p \in Procs, BeginReset(p)
  PROVE  Agreement(p)
PROOF
<1>1. UNCHANGED <<files, outside, received, delivered, surprises, settled, dropped>> /\ restarted'
  BY DEF BeginReset
<1>2. restarted' \in BOOLEAN
  BY DEF BeginReset
<1>3. Consistent(World')
  <2>1. now \in Nat
    BY DEF IInv, CursorInJournal
  <2>2. /\ World'.queue = World.queue /\ World'.checks = World.checks
        /\ World'.received = World.received /\ World.delivered \subseteq World'.delivered
        /\ World'.dropped = World.dropped /\ World'.restarted \in BOOLEAN
        /\ World.restarted => World'.restarted
    BY <1>1, <1>2, WorldIs DEF files
  <2>3. World'.now \in Nat /\ World.now <= World'.now
    BY <1>1, <2>1, WorldIs DEF outside
  <2>4. Consistent(World)
    BY DEF FilesAgree
  <2> QED BY ONLY <2>2, <2>3, <2>4, StillConsistent
<1>4. run'[p].pc = "removeState"
  BY DEF BeginReset, IInv, Memory
<1>5. Holds(run'[p], World')
  BY <1>1, <1>4, WorldIs DEF Holds, CheckSteps
<1> QED BY <1>1, <1>3, <1>5
        DEF Agreement, FilesAgree, Bounds, NoTurnMissed, ProblemsAndRecoveriesAlternate, files, outside

\* What a run reads are entries of the journal.
LEMMA ReadEntries ==
  ASSUME IInv, Bounds, NEW p \in Procs, NEW page \in ReadJournal(p)
  PROVE  page.entries \subseteq 1 .. MaxEntries
PROOF
<1> DEFINE since == Since(WindowStart(run[p].lastRun))
           after == {i \in DOMAIN journal : i > cursorFile}
<1>1. DOMAIN journal \subseteq 1 .. MaxEntries
  BY AgentAssumption DEF IInv, CursorInJournal, Bounds, AgentAssumption
<1>2. since \subseteq DOMAIN journal /\ after \subseteq DOMAIN journal
  BY DEF Since
<1>3. ASSUME NEW entries, NEW cursor, page \in Pages(entries, cursor) PROVE page.entries \subseteq entries
  <2>1. PICK last : page = [failed |-> FALSE, cursor |-> last, entries |-> {i \in entries : i <= last}]
    BY <1>3 DEF Pages
  <2> QED BY <2>1
<1>4. page \in {NoPage, [NoPage EXCEPT !.failed = TRUE]} => page.entries = {}
  BY DEF NoPage
<1>5. \/ page \in {NoPage, [NoPage EXCEPT !.failed = TRUE]}
      \/ page \in Pages(since, NoCursor)
      \/ page \in Pages(after, cursorFile)
  BY DEF ReadJournal
<1> HIDE DEF since, after
<1> QED BY <1>1, <1>2, <1>3, <1>4, <1>5

\* The journal is read.
LEMMA CollectAgrees ==
  ASSUME IInv, FilesAgree, NEW p \in Procs, Collect(p)
  PROVE  Agreement(p)
PROOF
<1>1. PICK page \in ReadJournal(p) :
        Continue(p, [run[p] EXCEPT !.pc = "observe", !.page = page])
  BY DEF Collect
<1> DEFINE r == run[p]
           next == [r EXCEPT !.pc = "observe", !.page = page]
<1>2. /\ DOMAIN run = Procs /\ Formed(r) /\ r.pc = "collect" /\ Holds(r, World)
      /\ UNCHANGED <<files, outside, ghosts>>
  BY DEF Collect, At, IInv, Memory, FilesAgree, MemoriesAgree
<1>3. /\ next.pc = "observe" /\ next.page = page /\ next.mode = r.mode
      /\ next.enabled = r.enabled /\ next.lastRun = r.lastRun /\ next.time = r.time
      /\ next.checks = r.checks /\ next.pending = r.pending
  BY <1>2 DEF Formed, CheckSteps, MemoryFields
<1>4. run'[p] = next
  BY <1>1, <1>2, Continues
<1> HIDE DEF next, r
<1>5. Holds(next, World)
  BY <1>2, <1>3, ReadEntries DEF Holds, CheckSteps, FilesAgree
<1>6. World' = World
  BY <1>2 DEF World, files, outside, ghosts
<1> QED BY <1>2, <1>4, <1>5, <1>6, NothingChanges DEF files, outside, ghosts, FilesAgree, Bounds

-----------------------------------------------------------------------------
(* A run evaluates its results *)

\* Whether a check reads the journal is one of the inputs of its evaluation.
LEMMA OutcomesAre ==
  ASSUME NEW checks, NEW results, NEW t, NEW outcomes,
         outcomes = [c \in DOMAIN results |->
                       EvaluateCheck(StateOf(checks, c), results[c], c \in JournalChecks, t)]
  PROVE  Outcomes(outcomes, checks, results, t)
PROOF
<1> SUFFICES ASSUME NEW c \in DOMAIN results
             PROVE  \E isJournal \in BOOLEAN :
                      /\ isJournal <=> c \in JournalChecks
                      /\ outcomes[c] =
                           EvaluateCheck(StateOf(checks, c), results[c], isJournal, t)
  BY DEF Outcomes
<1>1. outcomes[c] = EvaluateCheck(StateOf(checks, c), results[c], c \in JournalChecks, t)
  BY Zenon
<1>2. (c \in JournalChecks) \in BOOLEAN
  OBVIOUS
<1> QED BY <1>1, <1>2, Zenon

\* What a baseline accepts is a state of the check, and no alert.
LEMMA AcceptedIsGood ==
  ASSUME NEW t \in Nat, NEW result \in Results({"m"}, Occurrences)
  PROVE  GoodCheck(BaselineCheck(result, t), t) /\ ~BaselineCheck(result, t).notified
PROOF
<1> DEFINE check == BaselineCheck(result, t)
<1>1. check \in CheckStates(Nat, Occurrences) /\ ~check.notified /\ check.lastRecoveryAt = 0
      /\ check.lastNotificationAt = Never
  BY DEF BaselineCheck, NewCheck, CheckStates, Results, Statuses, Failing, Never, Occurrences, NoOccurrence
<1> HIDE DEF check
<1> QED BY <1>1 DEF GoodCheck, LoadCheck, check

\* What evaluating its results makes of a run.
Observed(p, results, t) ==
  \/ run[p].mode = "dry-run" /\ run'[p] = Idle
  \/ /\ run[p].mode = "baseline" /\ run'[p].pc = "saveState" /\ run'[p].time = t
     /\ run'[p].checks = [c \in DOMAIN results |-> BaselineCheck(results[c], t)]
  \/ /\ run[p].mode = "check" /\ run'[p].pc = "saveQueue" /\ run'[p].time = t
     /\ \E outcomes : /\ Outcomes(outcomes, run[p].checks, results, t)
                      /\ Computes(run'[p], run[p], results, outcomes, t)

Same(r, next) ==
  /\ next.mode = r.mode /\ next.enabled = r.enabled /\ next.page = r.page
  /\ next.lastRun = r.lastRun

\* The results are those the checks can return.
LEMMA ObserveIs ==
  ASSUME IInv, FilesAgree, NEW p \in Procs, Observe(p)
  PROVE  /\ run'[p] = Idle \/ Same(run[p], run'[p])
         /\ \E results : /\ DOMAIN results = run[p].enabled /\ WellTyped(results)
                         /\ \A c \in run[p].enabled : results[c] \in PossibleResults(p, c)
                         /\ Observed(p, results, now + 1)
PROOF
<1> DEFINE r == run[p]
           t == now + 1
<1>1. /\ DOMAIN run = Procs /\ Formed(r) /\ r.pc = "observe" /\ Holds(r, World)
  BY DEF Observe, At, IInv, Memory, FilesAgree, MemoriesAgree
<1>2. PICK results \in [r.enabled -> UNION {PossibleResults(p, c) : c \in r.enabled}] :
        /\ \A c \in r.enabled : results[c] \in PossibleResults(p, c)
        /\ Evaluate(p, results)
  BY DEF Observe
<1>3. /\ r.enabled \subseteq Checks /\ r.page.entries \subseteq 1 .. MaxEntries
      /\ r.mode \in {"check", "baseline", "dry-run"} /\ DOMAIN results = r.enabled
  BY <1>1, <1>2 DEF Holds, CheckSteps, Formed, AllModes
<1>4. WellTyped(results)
  BY <1>2, <1>3, ResultType, AgentAssumption DEF WellTyped
<1>5. Observed(p, results, t) /\ (run'[p] = Idle \/ Same(r, run'[p]))
  <2>1. CASE r.mode = "dry-run"
    <3>1. Leave(p)
      BY <1>2, <2>1 DEF Evaluate
    <3> QED BY <1>1, <2>1, <3>1 DEF Observed, Leave
  <2>2. CASE r.mode = "baseline"
    <3> DEFINE accepted == [c \in DOMAIN results |-> BaselineCheck(results[c], t)]
               next == [r EXCEPT !.pc = "saveState", !.time = t, !.checks = accepted]
    <3>1. Continue(p, next)
      BY <1>2, <2>2 DEF Evaluate
    <3>2. run'[p] = next
      BY <1>1, <3>1, Continues
    <3>3. next.pc = "saveState" /\ next.time = t /\ next.checks = accepted /\ Same(r, next)
      BY <1>1 DEF Formed, CheckSteps, MemoryFields, Same
    <3> HIDE DEF next
    <3> QED BY <2>2, <3>2, <3>3 DEF Observed
  <2>3. CASE r.mode = "check"
    <3> DEFINE outcomes == [c \in DOMAIN results |->
                              EvaluateCheck(StateOf(r.checks, c), results[c],
                                            c \in JournalChecks, t)]
               events == EventsOf(results, outcomes)
               retained == RetainChecks(r.pending, r.enabled)
               pending == Add(retained, events, t)
               overflow == ToSet(AddAll(retained.events, events, t)) \ Entries(pending)
               checks == [c \in DOMAIN results |-> outcomes[c].check]
               next == [r EXCEPT !.pc = "saveQueue", !.time = t, !.pending = pending,
                                 !.overflow = overflow, !.checks = checks]
    <3>1. Continue(p, next)
      BY <1>2, <2>3 DEF Evaluate
    <3>2. run'[p] = next
      BY <1>1, <3>1, Continues
    <3>3. Outcomes(outcomes, r.checks, results, t)
      BY OutcomesAre
    <3>4. DOMAIN checks = DOMAIN results /\ \A c \in DOMAIN results : checks[c] = outcomes[c].check
      OBVIOUS
    <3> HIDE DEF outcomes, checks
    <3>5. /\ next.pc = "saveQueue" /\ next.time = t /\ next.checks = checks /\ Same(r, next)
          /\ next.pending = pending
          /\ next.overflow = ToSet(AddAll(retained.events, events, t)) \ ToSet(next.pending.events)
      BY <1>1 DEF Formed, CheckSteps, MemoryFields, Entries, Same
    <3> HIDE DEF next
    <3>6. Computes(next, r, results, outcomes, t)
      BY <3>4, <3>5 DEF Computes, Same
    <3>7. r.mode = "check" /\ next.pc = "saveQueue" /\ next.time = t /\ Same(r, next)
      BY <2>3, <3>5
    <3> HIDE DEF r, t, retained, events, pending, overflow
    <3>8. Observed(p, results, t)
      BY ONLY <3>2, <3>3, <3>6, <3>7 DEF Observed, r
    <3> QED BY <3>2, <3>7, <3>8
  <2> QED BY <1>3, <2>1, <2>2, <2>3
<1> QED BY <1>2, <1>3, <1>4, <1>5

\* The results are evaluated: a check has the queue and the states to save, a baseline
\* states that are not notified about.
LEMMA ObserveAgrees ==
  ASSUME IInv, FilesAgree, NEW p \in Procs, Observe(p)
  PROVE  Agreement(p)
PROOF
<1> DEFINE r == run[p]
           t == now + 1
<1>1. /\ DOMAIN run = Procs /\ Formed(r) /\ r.pc = "observe" /\ Holds(r, World)
      /\ UNCHANGED <<files, journal, enabled, stops, toggles, ghosts>> /\ now' = t
  BY DEF Observe, At, IInv, Memory, FilesAgree, MemoriesAgree
<1>2. PICK results : /\ DOMAIN results = r.enabled /\ WellTyped(results)
                     /\ Observed(p, results, t)
  BY ObserveIs
<1>3. /\ r.enabled \subseteq Checks /\ r.lastRun \in Nat /\ r.time \in Nat
      /\ GoodChecks(r.checks, World.now) /\ r.pending = World.queue
      /\ r.mode # "baseline" => Believes(r.checks, World)
  BY <1>1 DEF Holds, CheckSteps
<1>4. run'[p] = Idle \/ Same(r, run'[p])
  BY ObserveIs
<1>5. now \in Nat /\ t \in Nat /\ now <= t /\ t = World.now + 1
  BY WorldIs DEF IInv, CursorInJournal
<1>6. /\ World'.now = t /\ World'.queue = World.queue /\ World'.checks = World.checks
      /\ World'.received = World.received /\ World'.delivered = World.delivered
      /\ World'.dropped = World.dropped /\ World'.restarted = World.restarted
  BY <1>1, WorldIs DEF files, ghosts
<1>7. Consistent(World')
  <2>1. Consistent(World) /\ World'.restarted \in BOOLEAN
    BY <1>6 DEF FilesAgree, Consistent
  <2>2. World.now <= World'.now /\ World'.now \in Nat
    BY <1>5, <1>6, WorldIs
  <2> QED BY ONLY <1>6, <2>1, <2>2, StillConsistent
<1>8. Holds(run'[p], World')
  <2>1. CASE run'[p] = Idle
    BY <2>1, IdleHolds DEF Idle
  <2>2. CASE /\ r.mode = "baseline" /\ run'[p].pc = "saveState" /\ run'[p].time = t
             /\ run'[p].checks = [c \in DOMAIN results |-> BaselineCheck(results[c], t)]
    <3> DEFINE accepted == [c \in DOMAIN results |-> BaselineCheck(results[c], t)]
    <3>1. /\ GoodChecks(accepted, t)
          /\ \A c \in Checks : ~StateOf(accepted, c).notified
      <4>1. \A c \in DOMAIN results :
              /\ c \in Checks /\ GoodCheck(BaselineCheck(results[c], t), t)
              /\ ~BaselineCheck(results[c], t).notified
        BY <1>2, <1>5, AcceptedIsGood DEF WellTyped
      <4>2. ~NewCheck.notified
        BY DEF NewCheck
      <4> QED BY <4>1, <4>2 DEF GoodChecks, StateOf
    <3>2. run'[p].checks = accepted
      BY <2>2
    <3>3. Same(r, run'[p])
      BY <1>4, <2>2 DEF Idle
    <3> HIDE DEF accepted
    <3> QED BY <1>3, <1>5, <1>6, <2>2, <3>1, <3>2, <3>3 DEF Holds, CheckSteps, Same
  <2>3. CASE /\ r.mode = "check" /\ run'[p].pc = "saveQueue" /\ run'[p].time = t
             /\ \E outcomes : /\ Outcomes(outcomes, r.checks, results, t)
                              /\ Computes(run'[p], r, results, outcomes, t)
    <3>1. Evaluated(run'[p], World') /\ GoodChecks(run'[p].checks, t)
      <4>1. Consistent(World) /\ Believes(r.checks, World)
        BY <1>3, <2>3 DEF FilesAgree
      <4>2. PICK outcomes : /\ Outcomes(outcomes, r.checks, results, t)
                            /\ Computes(run'[p], r, results, outcomes, t)
        BY <2>3
      <4>3. Ticks(World, World', t)
        BY <1>5, <1>6 DEF Ticks
      <4> HIDE DEF r, t
      <4> QED BY ONLY <1>2, <1>3, <4>1, <4>2, <4>3, AgentAssumption, CheckEvaluates
    <3>2. Same(r, run'[p])
      BY <1>4, <2>3 DEF Idle
    <3> QED BY <1>3, <1>5, <1>6, <2>3, <3>1, <3>2 DEF Holds, CheckSteps, Same
  <2> QED BY <1>2, <2>1, <2>2, <2>3 DEF Observed
<1> QED BY <1>1, <1>7, <1>8
        DEF Agreement, FilesAgree, Bounds, NoTurnMissed, ProblemsAndRecoveriesAlternate, files, ghosts

-----------------------------------------------------------------------------
(* A run saves what it found *)

\* queue.json is saved before state.json.
LEMMA SaveQueueAgrees ==
  ASSUME IInv, FilesAgree, NEW p \in Procs, SaveQueue(p)
  PROVE  Agreement(p)
PROOF
<1> DEFINE r == run[p]
           next == [r EXCEPT !.pc = "saveState"]
<1>1. /\ DOMAIN run = Procs /\ Formed(r) /\ r.pc = "saveQueue" /\ Holds(r, World)
      /\ Consistent(World)
  BY DEF SaveQueue, At, IInv, Memory, FilesAgree, MemoriesAgree
<1>2. /\ queueFile' = r.pending /\ Continue(p, next)
      /\ delivered' = delivered \cap ToSet(r.pending.events)
      /\ dropped' = dropped \cup Lost(r)
      /\ UNCHANGED <<stateFile, cursorFile, outside, received, surprises, restarted>>
  BY DEF SaveQueue, Entries, Lost
<1>3. /\ next.pc = "saveState" /\ next.mode = r.mode /\ next.time = r.time
      /\ next.checks = r.checks /\ next.enabled = r.enabled /\ next.lastRun = r.lastRun
      /\ next.pending = r.pending
  BY <1>1 DEF Formed, CheckSteps, MemoryFields
<1>4. run'[p] = next
  BY <1>1, <1>2, Continues
<1> HIDE DEF next, r
<1>5. /\ World'.queue = r.pending /\ World'.dropped = World.dropped \cup Lost(r)
      /\ World'.delivered = World.delivered \cap ToSet(r.pending.events)
      /\ World'.checks = World.checks /\ World'.received = World.received
      /\ World'.restarted = World.restarted /\ World'.now = World.now
  BY <1>2, WorldIs DEF outside
<1>6. /\ r.enabled \subseteq Checks /\ r.lastRun \in Nat /\ r.time \in Nat
      /\ GoodChecks(r.checks, World.now) /\ r.mode = "check" /\ Evaluated(r, World)
  BY <1>1 DEF Holds, CheckSteps
<1>7. Consistent(World') /\ Believes(r.checks, World')
  BY ONLY <1>1, <1>5, <1>6, QueueSaved
<1>8. Holds(next, World')
  BY <1>3, <1>5, <1>6, <1>7 DEF Holds, CheckSteps
<1> QED BY <1>2, <1>4, <1>7, <1>8
        DEF Agreement, FilesAgree, Bounds, NoTurnMissed, ProblemsAndRecoveriesAlternate, outside

\* state.json is saved.
LEMMA SaveStateAgrees ==
  ASSUME IInv, FilesAgree, NEW p \in Procs, SaveState(p)
  PROVE  Agreement(p)
PROOF
<1> DEFINE r == run[p]
           next == [r EXCEPT !.pc = "saveCursor"]
<1>1. /\ DOMAIN run = Procs /\ Formed(r) /\ r.pc = "saveState" /\ Holds(r, World)
      /\ Consistent(World)
  BY DEF SaveState, At, IInv, Memory, FilesAgree, MemoriesAgree
<1>2. /\ stateFile' = [lastRun |-> r.time, checks |-> r.checks] /\ Continue(p, next)
      /\ restarted' = IF r.mode = "baseline" THEN TRUE ELSE restarted
      /\ UNCHANGED <<queueFile, cursorFile, outside, received, delivered, surprises, dropped>>
  BY DEF SaveState
<1>3. /\ next.pc = "saveCursor" /\ next.mode = r.mode /\ next.time = r.time
      /\ next.checks = r.checks /\ next.enabled = r.enabled /\ next.lastRun = r.lastRun
      /\ next.pending = r.pending
  BY <1>1 DEF Formed, CheckSteps, MemoryFields
<1>4. run'[p] = next
  BY <1>1, <1>2, Continues
<1> HIDE DEF next, r
<1>5. /\ World'.queue = World.queue /\ World'.dropped = World.dropped
      /\ World'.delivered = World.delivered /\ World'.received = World.received
      /\ World'.now = World.now /\ World'.checks = r.checks
  BY <1>2, WorldIs DEF outside
<1>6. /\ r.enabled \subseteq Checks /\ r.lastRun \in Nat /\ r.time \in Nat
      /\ GoodChecks(r.checks, World.now)
      /\ \/ r.mode = "baseline" /\ \A c \in Checks : ~StateOf(r.checks, c).notified
         \/ r.mode = "check" /\ r.pending = World.queue /\ Believes(r.checks, World)
  BY <1>1 DEF Holds, CheckSteps
<1>7. /\ World'.restarted \in BOOLEAN
      /\ World.restarted => World'.restarted
      /\ r.mode = "baseline" => World'.restarted
  <2>1. restarted \in BOOLEAN
    BY <1>1, WorldIs DEF Consistent
  <2> QED BY <1>2, <2>1, WorldIs
<1>8. Believes(r.checks, World')
  <2>1. CASE r.mode = "baseline"
    BY <1>6, <1>7, <2>1, UntoldAgrees
  <2>2. CASE r.mode = "check"
    BY <1>5, <1>6, <1>7, <2>2, BelievesStill
  <2> QED BY <1>6, <2>1, <2>2
<1>9. Consistent(World')
  <2>1. GoodChecks(World'.checks, World.now) /\ Believes(World'.checks, World')
    BY <1>5, <1>6, <1>8
  <2> QED BY ONLY <1>1, <1>5, <1>7, <2>1, StateSaved
<1>10. Holds(next, World')
  BY <1>3, <1>5, <1>6, <1>8 DEF Holds, CheckSteps
<1> QED BY <1>2, <1>4, <1>6, <1>9, <1>10
        DEF Agreement, FilesAgree, Bounds, NoTurnMissed, ProblemsAndRecoveriesAlternate, outside

\* The cursor is saved, and a check goes on to deliver.
LEMMA SaveCursorAgrees ==
  ASSUME IInv, FilesAgree, NEW p \in Procs, SaveCursor(p)
  PROVE  Agreement(p)
PROOF
<1> DEFINE r == run[p]
           next == [r EXCEPT !.pc = "send"]
<1>1. /\ DOMAIN run = Procs /\ Formed(r) /\ r.pc = "saveCursor" /\ Holds(r, World)
  BY DEF SaveCursor, At, IInv, Memory, FilesAgree, MemoriesAgree
<1>2. /\ Leave(p) \/ (r.mode = "check" /\ Continue(p, next))
      /\ UNCHANGED <<stateFile, queueFile, outside, ghosts>>
  BY DEF SaveCursor
<1>3. /\ next.pc = "send" /\ next.mode = r.mode /\ next.time = r.time
      /\ next.checks = r.checks /\ next.enabled = r.enabled /\ next.lastRun = r.lastRun
      /\ next.pending = r.pending
  BY <1>1 DEF Formed, CheckSteps, MemoryFields
<1>4. (run'[p] = next /\ r.mode = "check") \/ \A w : Holds(run'[p], w)
  BY <1>1, <1>2, Continues, Leaves
<1> HIDE DEF next, r
<1>5. World' = World
  BY <1>2 DEF World, outside, ghosts
<1>6. r.mode = "check" => Holds(next, World)
  BY <1>1, <1>3 DEF Holds, CheckSteps
<1> QED BY <1>2, <1>4, <1>5, <1>6, NothingChanges DEF outside, ghosts, FilesAgree, Bounds

-----------------------------------------------------------------------------
(* A run delivers the queue *)

\* A failed delivery leaves the events as they are.
LEMMA FailureMarked ==
  ASSUME NEW queue \in Queues, NEW t \in Nat
  PROVE  MarkFailure(queue, t) \in Queues /\ MarkFailure(queue, t).events = queue.events
PROOF
<1>1. queue.attempts + 1 \in Nat \ {0}
  BY DEF Queues
<1>2. t + Backoff(queue.attempts + 1) \in Nat
  <2>1. Backoff(queue.attempts + 1) \in 1 .. MaxBackoff
    BY <1>1, BackoffIsLimited
  <2> QED BY <2>1, QueueAssumption
<1> HIDE DEF Backoff
<1> QED BY <1>1, <1>2 DEF MarkFailure, Queues

\* The events left once the first n were delivered.
LEMMA DeliveredMarked ==
  ASSUME NEW queue \in Queues, NEW n \in 1 .. Len(queue.events)
  PROVE  /\ MarkDelivered(queue, n) \in Queues
         /\ MarkDelivered(queue, n).events = SubSeq(queue.events, n + 1, Len(queue.events))
PROOF
<1>1. queue.events \in Seq(Queued(Events)) /\ n \in Nat
  BY DEF Queues
<1>2. SubSeq(queue.events, n + 1, Len(queue.events)) \in Seq(Queued(Events))
  BY <1>1
<1> QED BY <1>2 DEF MarkDelivered, EmptyQueue, Queues, Immediately

\* A batch is sent: acknowledged, lost, or accepted without an acknowledgement.
LEMMA SendAgrees ==
  ASSUME IInv, FilesAgree, NEW p \in Procs, Send(p)
  PROVE  Agreement(p)
PROOF
<1> DEFINE r == run[p]
           failed == [r EXCEPT !.pc = "saveFailure", !.pending = MarkFailure(@, r.time)]
           acknowledged(n) == [r EXCEPT !.pc = "saveDelivered",
                                        !.pending = MarkDelivered(@, n)]
<1>1. /\ DOMAIN run = Procs /\ Formed(r) /\ r.pc = "send" /\ Holds(r, World)
      /\ Consistent(World) /\ UNCHANGED <<files, outside>>
  BY DEF Send, At, IInv, Memory, FilesAgree, MemoriesAgree
<1>2. PICK n \in 1 .. Len(r.pending.events) :
        \/ /\ ServerAccepts(SubSeq(r.pending.events, 1, n))
           /\ Continue(p, acknowledged(n)) \/ Continue(p, failed)
        \/ Continue(p, failed) /\ UNCHANGED ghosts
  BY DEF Send
<1>3. /\ r.enabled \subseteq Checks /\ r.lastRun \in Nat /\ r.time \in Nat
      /\ GoodChecks(r.checks, World.now) /\ r.mode = "check"
      /\ r.pending = World.queue /\ Believes(World.checks, World)
  BY <1>1 DEF Holds, CheckSteps
<1>4. r.pending \in Queues /\ World.queue = queueFile
  BY <1>1, <1>3, WorldIs DEF Consistent, GoodQueue
<1>5. /\ failed.pc = "saveFailure" /\ failed.mode = r.mode /\ failed.time = r.time
      /\ failed.checks = r.checks /\ failed.enabled = r.enabled /\ failed.lastRun = r.lastRun
      /\ failed.pending = MarkFailure(r.pending, r.time)
  BY <1>1 DEF Formed, CheckSteps, MemoryFields
<1>6. /\ acknowledged(n).pc = "saveDelivered" /\ acknowledged(n).mode = r.mode
      /\ acknowledged(n).time = r.time /\ acknowledged(n).checks = r.checks
      /\ acknowledged(n).enabled = r.enabled /\ acknowledged(n).lastRun = r.lastRun
      /\ acknowledged(n).pending = MarkDelivered(r.pending, n)
  BY <1>1 DEF Formed, CheckSteps, MemoryFields
<1>7. Continue(p, failed) => run'[p] = failed
  BY <1>1, Continues
<1>8. Continue(p, acknowledged(n)) => run'[p] = acknowledged(n)
  BY <1>1, Continues
<1> HIDE DEF failed, acknowledged, r
<1>9. /\ failed.pending \in Queues /\ failed.pending.events = r.pending.events
  BY <1>3, <1>4, <1>5, FailureMarked
<1>10. /\ acknowledged(n).pending \in Queues
       /\ acknowledged(n).pending.events =
            SubSeq(r.pending.events, n + 1, Len(r.pending.events))
  BY <1>4, <1>6, DeliveredMarked
<1>11. CASE Continue(p, failed) /\ UNCHANGED ghosts
  <2>1. World' = World
    BY <1>1, <1>11 DEF World, files, outside, ghosts
  <2>2. Holds(failed, World)
    BY <1>3, <1>5, <1>9 DEF Holds, CheckSteps
  <2> QED BY <1>1, <1>7, <1>11, <2>1, <2>2, NothingChanges
          DEF files, outside, ghosts, FilesAgree, Bounds
<1>12. CASE /\ ServerAccepts(SubSeq(r.pending.events, 1, n))
            /\ Continue(p, acknowledged(n)) \/ Continue(p, failed)
  <2> DEFINE batch == SubSeq(queueFile.events, 1, n)
  <2>1. r.pending = queueFile /\ n \in 1 .. Len(queueFile.events) /\ ServerAccepts(batch)
    BY <1>3, <1>4, <1>12
  <2>2. batch \in Seq(QueueEntries) /\ Ordered(batch)
    <3>1. queueFile.events \in Seq(Queued(Events)) /\ Ordered(queueFile.events)
      BY <1>1, <1>4 DEF Consistent, GoodQueue, GoodEvents
    <3>2. n \in 0 .. Len(queueFile.events)
      BY <2>1
    <3>3. batch \in Seq(Queued(Events)) /\ Splits(queueFile.events, batch,
                       SubSeq(queueFile.events, n + 1, Len(queueFile.events)))
      BY <3>1, <3>2, SubSeqSplits
    <3> HIDE DEF batch
    <3>4. Queued(Events) = QueueEntries
      BY DEF Queued, QueueEntries
    <3> QED BY <3>3, <3>4 DEF Splits
  <2>3. received \in [Checks -> Events \cup {Nothing}]
    BY DEF FilesAgree, Bounds
  <2> HIDE DEF batch
  <2>4. PICK views : /\ AcceptedEach(views, batch) /\ Heard' = views[Len(batch)]
                     /\ dropped' = dropped /\ restarted' = restarted
    BY <2>1, <2>2, <2>3, AcceptedSteps
  <2>5. Hears(Heard', batch, Len(batch))
    <3>1. Len(batch) \in 0 .. Len(batch)
      BY <2>2
    <3> QED BY <2>2, <2>3, <2>4, <3>1, HeardOneByOne
  <2>6. Accepts(batch, World, World')
    BY <2>2, <2>3, <2>5, BatchHeard
  <2>7. /\ World'.queue = World.queue /\ World'.dropped = World.dropped
        /\ World'.checks = World.checks /\ World'.restarted = World.restarted
        /\ World'.now = World.now
    BY <1>1, <2>4, WorldIs DEF files, outside
  <2>8. /\ Consistent(World') /\ Believes(World'.checks, World') /\ Answered(batch, World')
    <3>1. n \in 1 .. Len(World.queue.events) /\ batch = SubSeq(World.queue.events, 1, n)
          /\ Believes(World.checks, World)
      BY <1>3, <1>4, <2>1 DEF batch
    <3>2. Accepts(SubSeq(World.queue.events, 1, n), World, World')
      BY <2>6, <3>1
    <3>3. /\ Consistent(World') /\ Believes(World'.checks, World')
          /\ Answered(SubSeq(World.queue.events, 1, n), World')
      BY ONLY <1>1, <2>7, <3>1, <3>2, BatchAccepted
    <3> QED BY <3>1, <3>3
  <2>9. Holds(failed, World')
    BY <1>3, <1>5, <1>9, <2>7, <2>8 DEF Holds, CheckSteps
  <2>10. Holds(acknowledged(n), World')
    <3>1. Acknowledged(acknowledged(n), World')
      <4>1. World'.queue = queueFile
        BY ONLY <1>4, <2>7
      <4>2. n \in 0 .. Len(queueFile.events)
        BY ONLY <2>1
      <4>3. acknowledged(n).pending.events =
              SubSeq(queueFile.events, n + 1, Len(queueFile.events))
        BY ONLY <1>10, <2>1
      <4>4. Answered(SubSeq(queueFile.events, 1, n), World')
        BY ONLY <2>8 DEF batch
      <4> QED BY ONLY <1>10, <4>1, <4>2, <4>3, <4>4 DEF Acknowledged
    <3> QED BY <1>3, <1>6, <2>7, <2>8, <3>1 DEF Holds, CheckSteps
  <2>11. Holds(run'[p], World')
    BY <1>7, <1>8, <1>12, <2>9, <2>10
  <2>12. Bounds'
    <3>1. received' \in [Checks -> Events \cup {Nothing}]
      BY <2>5 DEF Hears, Heard
    <3> QED BY <1>1, <3>1 DEF Bounds, FilesAgree, files, outside
  <2>13. NoTurnMissed'
    <3> SUFFICES ASSUME NotifyRecovery PROVE surprises' \cap {"problem", "recovery"} = {}
      BY DEF NoTurnMissed, ProblemsAndRecoveriesAlternate
    <3>1. views[Len(batch)].surprises \cap {"problem", "recovery"} \subseteq surprises
      BY <1>1, <2>1, <2>2, <2>3, <2>4, BatchInTurn DEF batch
    <3>2. surprises' = views[Len(batch)].surprises
      BY <2>4 DEF Heard
    <3>3. surprises \cap {"problem", "recovery"} = {}
      BY DEF FilesAgree, NoTurnMissed, ProblemsAndRecoveriesAlternate
    <3> QED BY <3>1, <3>2, <3>3
  <2> QED BY <2>8, <2>11, <2>12, <2>13 DEF Agreement
<1> QED BY <1>2, <1>11, <1>12

\* The acknowledged entries are taken out of queue.json; only they leave it.
LEMMA SaveDeliveredAgrees ==
  ASSUME IInv, FilesAgree, NEW p \in Procs, SaveDelivered(p)
  PROVE  /\ Agreement(p)
         /\ \A x \in Entries(queueFile) \ Entries(queueFile') : x \in delivered
PROOF
<1> DEFINE r == run[p]
           next == [r EXCEPT !.pc = "send"]
<1>1. /\ DOMAIN run = Procs /\ Formed(r) /\ r.pc = "saveDelivered" /\ Holds(r, World)
      /\ Consistent(World)
  BY DEF SaveDelivered, At, IInv, Memory, FilesAgree, MemoriesAgree
<1>2. /\ queueFile' = r.pending
      /\ Leave(p) \/ Continue(p, next)
      /\ delivered' = delivered \cap ToSet(r.pending.events)
      /\ UNCHANGED <<stateFile, cursorFile, outside, received, surprises, settled, dropped, restarted>>
  BY DEF SaveDelivered, Entries
<1>3. /\ next.pc = "send" /\ next.mode = r.mode /\ next.time = r.time
      /\ next.checks = r.checks /\ next.enabled = r.enabled /\ next.lastRun = r.lastRun
      /\ next.pending = r.pending
  BY <1>1 DEF Formed, CheckSteps, MemoryFields
<1>4. run'[p] = next \/ \A w : Holds(run'[p], w)
  BY <1>1, <1>2, Continues, Leaves
<1> HIDE DEF next, r
<1>5. /\ World'.queue = r.pending /\ World'.dropped = World.dropped
      /\ World'.delivered = World.delivered \cap ToSet(r.pending.events)
      /\ World'.checks = World.checks /\ World'.received = World.received
      /\ World'.restarted = World.restarted /\ World'.now = World.now
  BY <1>2, WorldIs DEF outside
<1>6. /\ r.enabled \subseteq Checks /\ r.lastRun \in Nat /\ r.time \in Nat
      /\ GoodChecks(r.checks, World.now) /\ r.mode = "check" /\ Acknowledged(r, World)
      /\ Believes(World.checks, World)
  BY <1>1 DEF Holds, CheckSteps
<1>7. /\ Consistent(World') /\ Believes(World'.checks, World')
      /\ \A x \in ToSet(World.queue.events) \ ToSet(r.pending.events) : x \in World.delivered
  BY ONLY <1>1, <1>5, <1>6, DeliveredSaved
<1>8. Holds(next, World')
  BY <1>3, <1>5, <1>6, <1>7 DEF Holds, CheckSteps
<1>9. \A x \in Entries(queueFile) \ Entries(queueFile') : x \in delivered
  BY <1>2, <1>7, WorldIs DEF Entries
<1> QED BY <1>2, <1>4, <1>7, <1>8, <1>9
        DEF Agreement, FilesAgree, Bounds, NoTurnMissed, ProblemsAndRecoveriesAlternate, outside

\* The failed delivery is noted in queue.json, which keeps its events.
LEMMA SaveFailureAgrees ==
  ASSUME IInv, FilesAgree, NEW p \in Procs, SaveFailure(p)
  PROVE  Agreement(p) /\ Entries(queueFile') = Entries(queueFile)
PROOF
<1> DEFINE r == run[p]
<1>1. /\ DOMAIN run = Procs /\ r.pc = "saveFailure" /\ Holds(r, World) /\ Consistent(World)
      /\ queueFile' = r.pending /\ Leave(p)
      /\ UNCHANGED <<stateFile, cursorFile, outside, ghosts>>
  BY DEF SaveFailure, At, IInv, Memory, FilesAgree, MemoriesAgree
<1>2. Holds(run'[p], World')
  BY <1>1, Leaves
<1>3. r.pending \in Queues /\ r.pending.events = queueFile.events
  BY <1>1, WorldIs DEF Holds
<1> HIDE DEF r
<1>4. /\ World'.queue = r.pending /\ World'.dropped = World.dropped
      /\ World'.delivered = World.delivered
      /\ World'.checks = World.checks /\ World'.received = World.received
      /\ World'.restarted = World.restarted /\ World'.now = World.now
      /\ World.queue.events = r.pending.events
  BY <1>1, <1>3, WorldIs DEF outside, ghosts
<1>5. Consistent(World')
  <2>1. GoodQueue(World'.queue, World'.now)
    BY <1>1, <1>3, <1>4 DEF Consistent, GoodQueue
  <2>2. \A c \in Ordinary \ World'.dropped : Coherent(World'.checks, World'.queue.events, c, World')
    BY <1>1, <1>4, CoherentStill DEF Consistent
  <2> QED BY <1>1, <1>4, <2>1, <2>2 DEF Consistent
<1> QED BY <1>1, <1>2, <1>3, <1>5
        DEF Agreement, FilesAgree, Bounds, NoTurnMissed, ProblemsAndRecoveriesAlternate,
            outside, ghosts, Entries

\* A run that is cut short leaves the files as they are.
LEMMA StopAgrees ==
  ASSUME IInv, FilesAgree, NEW p \in Procs, Stop(p)
  PROVE  Agreement(p)
PROOF
<1>1. DOMAIN run = Procs /\ Leave(p) /\ UNCHANGED <<files, journal, now, enabled, ghosts>>
  BY DEF Stop, IInv, Memory
<1>2. World' = World
  BY <1>1 DEF World, files, ghosts
<1>3. Holds(run'[p], World)
  BY <1>1, Leaves
<1> QED BY <1>1, <1>2, <1>3, NothingChanges DEF files, ghosts, FilesAgree, Bounds

-----------------------------------------------------------------------------
(* A reset *)

\* A reset removes the states before the queue.
LEMMA RemoveStateAgrees ==
  ASSUME IInv, FilesAgree, NEW p \in Procs, RemoveState(p)
  PROVE  Agreement(p)
PROOF
<1>1. /\ DOMAIN run = Procs /\ run[p].pc = "removeState" /\ Holds(run[p], World)
      /\ Consistent(World) /\ stateFile' = NewState /\ Continue(p, [pc |-> "removeQueue"])
      /\ UNCHANGED <<queueFile, cursorFile, outside, ghosts>>
  BY DEF RemoveState, At, IInv, Memory, FilesAgree, MemoriesAgree
<1>2. run'[p] = [pc |-> "removeQueue"]
  BY <1>1, Continues
<1>3. /\ World'.queue = World.queue /\ World'.dropped = World.dropped
      /\ World'.delivered = World.delivered /\ World'.received = World.received
      /\ World'.now = World.now /\ World'.restarted = World.restarted
      /\ World'.checks = NewState.checks
  BY <1>1, WorldIs DEF outside, ghosts
<1>4. World.restarted /\ World'.restarted /\ World'.restarted \in BOOLEAN
  BY <1>1, <1>3 DEF Holds, Consistent
<1>5. /\ DOMAIN World'.checks = {} /\ GoodChecks(World'.checks, World.now)
      /\ \A c \in Checks : ~StateOf(World'.checks, c).notified
  BY <1>3, NoState
<1>6. Believes(World'.checks, World')
  BY <1>4, <1>5, UntoldAgrees
<1>7. Consistent(World')
  BY ONLY <1>1, <1>3, <1>4, <1>5, <1>6, StateSaved
<1>8. Holds(run'[p], World')
  BY <1>2, <1>4, <1>5 DEF Holds, CheckSteps
<1>9. stateFile'.lastRun \in Nat
  BY <1>1 DEF NewState, Never
<1> QED BY <1>1, <1>7, <1>8, <1>9
        DEF Agreement, FilesAgree, Bounds, NoTurnMissed, ProblemsAndRecoveriesAlternate,
            outside, ghosts

\* The queue is removed: without states nothing is believed any more.
LEMMA RemoveQueueAgrees ==
  ASSUME IInv, FilesAgree, NEW p \in Procs, RemoveQueue(p)
  PROVE  Agreement(p)
PROOF
<1>1. /\ DOMAIN run = Procs /\ run[p].pc = "removeQueue" /\ Holds(run[p], World)
      /\ Consistent(World) /\ queueFile' = EmptyQueue /\ Continue(p, [pc |-> "removeCursor"])
      /\ UNCHANGED <<stateFile, cursorFile, outside, received, surprises, dropped, restarted>>
  BY DEF RemoveQueue, At, IInv, Memory, FilesAgree, MemoriesAgree
<1>2. run'[p] = [pc |-> "removeCursor"]
  BY <1>1, Continues
<1>3. /\ World'.queue = EmptyQueue /\ World'.dropped = World.dropped
      /\ World'.checks = World.checks /\ World'.received = World.received
      /\ World'.now = World.now /\ World'.restarted = World.restarted
  BY <1>1, WorldIs DEF outside
<1>4. World.restarted /\ DOMAIN World.checks = {}
  BY <1>1 DEF Holds
<1>5. Consistent(World')
  BY ONLY <1>1, <1>3, <1>4, QueueRemoved
<1>6. Holds(run'[p], World')
  BY <1>2, IdleHolds
<1> QED BY <1>1, <1>5, <1>6
        DEF Agreement, FilesAgree, Bounds, NoTurnMissed, ProblemsAndRecoveriesAlternate, outside

\* The cursor is removed.
LEMMA RemoveCursorAgrees ==
  ASSUME IInv, FilesAgree, NEW p \in Procs, RemoveCursor(p)
  PROVE  Agreement(p)
PROOF
<1>1. DOMAIN run = Procs /\ Leave(p) /\ UNCHANGED <<stateFile, queueFile, outside, ghosts>>
  BY DEF RemoveCursor, IInv, Memory
<1>2. World' = World
  BY <1>1 DEF World, outside, ghosts
<1>3. Holds(run'[p], World)
  BY <1>1, Leaves
<1> QED BY <1>1, <1>2, <1>3, NothingChanges DEF outside, ghosts, FilesAgree, Bounds

-----------------------------------------------------------------------------
(* Every step *)

\* A step of one process leaves all the others with an empty memory.
LEMMA StepAgrees ==
  ASSUME IInv, FilesAgree, NEW p \in Procs, Step(p)
  PROVE  FilesAgree'
PROOF
<1>1. Agreement(p)
  BY BeginCheckAgrees, BeginResetAgrees, CollectAgrees, ObserveAgrees, SaveQueueAgrees,
     SaveStateAgrees, SaveCursorAgrees, SendAgrees, SaveDeliveredAgrees, SaveFailureAgrees,
     RemoveStateAgrees, RemoveQueueAgrees, RemoveCursorAgrees, StopAgrees DEF Step
<1>2. ASSUME NEW q \in Procs PROVE Holds(run'[q], World')
  <2>1. CASE q = p
    BY <1>1, <2>1 DEF Agreement
  <2>2. CASE q # p
    <3>1. /\ run'[q] = run[q]
          /\ run[p].pc = "idle" => lock = NoProc
      BY <2>2, StepMoves, AgentAssumption DEF Moves
    <3>2. run[q].pc = "idle"
      BY <2>2, <3>1, AgentAssumption DEF IInv, OneRun, At, AgentAssumption
    <3> QED BY <3>1, <3>2, IdleHolds
  <2> QED BY <2>1, <2>2
<1> QED BY <1>1, <1>2 DEF Agreement, FilesAgree, MemoriesAgree

\* Files and memories agree after every step.
LEMMA NextAgrees == IInv /\ FilesAgree /\ [Next]_vars => FilesAgree'
PROOF
<1> SUFFICES ASSUME IInv, FilesAgree, [Next]_vars PROVE FilesAgree'
  OBVIOUS
<1>1. CASE \E p \in Procs : Step(p)
  BY <1>1, StepAgrees
<1>2. CASE Toggle \/ LogKernelMessage \/ UNCHANGED vars
  <2>1. UNCHANGED <<run, files, now, ghosts>>
    BY <1>2 DEF Toggle, LogKernelMessage, vars, outside
  <2>2. World' = World
    BY <2>1 DEF World, files, ghosts
  <2>3. enabled' \subseteq Checks /\ Len(journal') <= MaxEntries
    <3>1. CASE Toggle
      BY <3>1 DEF Toggle, FilesAgree, Bounds
    <3>2. CASE LogKernelMessage
      <4>1. journal \in Seq(Nat) /\ now \in Nat /\ Len(journal) < MaxEntries
            /\ journal' = Append(journal, now) /\ enabled' = enabled
        BY <3>2 DEF LogKernelMessage, IInv, CursorInJournal
      <4>2. Len(journal') = Len(journal) + 1 /\ Len(journal) \in Nat /\ MaxEntries \in Nat
        BY <4>1, AgentAssumption DEF AgentAssumption
      <4> QED BY <4>1, <4>2 DEF FilesAgree, Bounds
    <3>3. CASE UNCHANGED vars
      BY <3>3 DEF vars, outside, FilesAgree, Bounds
    <3> QED BY <1>2, <3>1, <3>2, <3>3
  <2>4. Bounds'
    BY <2>1, <2>3 DEF FilesAgree, Bounds, files, ghosts
  <2> QED BY <2>1, <2>2, <2>4
          DEF FilesAgree, MemoriesAgree, NoTurnMissed, ProblemsAndRecoveriesAlternate, ghosts
<1> QED BY <1>1, <1>2 DEF Next

\* They do at first: nothing was said and nothing is believed.
LEMMA InitAgrees == Init => FilesAgree
PROOF
<1> SUFFICES ASSUME Init PROVE FilesAgree
  OBVIOUS
<1>1. /\ World.queue = EmptyQueue /\ World.checks = NewState.checks /\ World.now = 1
      /\ World.received = [c \in Checks |-> Nothing] /\ World.delivered = {}
      /\ World.dropped = {} /\ World.restarted = FALSE
  BY WorldIs DEF Init
<1>2. GoodQueue(EmptyQueue, 1) /\ \A c : About(EmptyQueue.events, c) = {}
  <2>1. /\ EmptyQueue \in Queues /\ EmptyQueue.events = <<>> /\ Len(EmptyQueue.events) = 0
    BY DEF EmptyQueue, Queues, Immediately
  <2>2. /\ GoodEvents(<<>>, 1) /\ \A c : About(<<>>, c) = {}
    BY DEF GoodEvents, Ordered, UpTo, ToSet, About
  <2>3. 0 <= MaxEvents
    BY QueueAssumption
  <2> QED BY <2>1, <2>2, <2>3 DEF GoodQueue
<1>3. ASSUME NEW c \in Ordinary PROVE Coherent(World.checks, World.queue.events, c, World)
  <2>1. GoodEvents(World.queue.events, 1) /\ About(World.queue.events, c) = {}
    BY <1>1, <1>2 DEF GoodQueue
  <2>2. /\ Said(World.queue.events, c, World) = World.received[c]
        /\ Recalled(World.checks, World.queue.events, c) = StateOf(World.checks, c)
    BY ONLY <2>1, NothingIsSaid, NothingIsRecalled
  <2>3. World.received[c] = Nothing /\ ~IsOpen(Nothing)
    BY <1>1 DEF Ordinary, Nothing, IsOpen
  <2>4. ~StateOf(World.checks, c).notified
    BY <1>1, NoState
  <2>5. TakeTurns({}, c, World)
    BY DEF TakeTurns
  <2> QED BY <2>1, <2>2, <2>3, <2>4, <2>5 DEF Coherent, Agrees
<1>4. Consistent(World)
  <2>1. GoodQueue(World.queue, World.now) /\ GoodChecks(World.checks, World.now)
    BY <1>1, <1>2, NoState
  <2>2. World.now \in Nat \ {0}
    BY <1>1
  <2>3. World.restarted \in BOOLEAN /\ DOMAIN World.received = Checks
    <3>1. World.restarted \in BOOLEAN
      BY <1>1, Zenon
    <3> QED BY <1>1, <3>1
  <2> QED BY <1>1, <1>3, <2>1, <2>2, <2>3 DEF Consistent
<1>5. MemoriesAgree
  BY IdleHolds DEF Init, MemoriesAgree, Idle
<1>6. Bounds
  BY AgentAssumption DEF Bounds, Init, NewState, Never, AgentAssumption
<1> QED BY <1>4, <1>5, <1>6 DEF FilesAgree, NoTurnMissed, ProblemsAndRecoveriesAlternate, Init

\* They always do.
LEMMA AlwaysAgree == Spec => [](IInv /\ FilesAgree)
PROOF
<1>1. Init => IInv /\ FilesAgree
  BY InitIInv, InitAgrees, AgentAssumption
<1>2. IInv /\ FilesAgree /\ [Next]_vars => (IInv /\ FilesAgree)'
  BY NextIInv, NextAgrees, AgentAssumption
<1> QED BY <1>1, <1>2, PTL DEF Spec

-----------------------------------------------------------------------------
(* Theorems: the files and the reader *)

\* Whatever a run is cut short, the files hold what the code reads back.
THEOREM TypesKept == Spec => []TypeOK
PROOF
<1>1. IInv /\ FilesAgree => TypeOK
  <2> SUFFICES ASSUME IInv, FilesAgree PROVE TypeOK
    OBVIOUS
  <2>1. GoodQueue(queueFile, now) /\ GoodChecks(stateFile.checks, now)
    BY WorldIs DEF FilesAgree, Consistent
  <2>2. Entries(queueFile) \subseteq QueueEntries
    <3>1. queueFile.events \in Seq(Queued(Events))
      BY <2>1 DEF GoodQueue, GoodEvents
    <3>2. Queued(Events) = QueueEntries
      BY DEF Queued, QueueEntries
    <3> QED BY <3>1, <3>2 DEF Entries, ToSet
  <2>3. /\ Len(queueFile.events) <= MaxEvents /\ queueFile.attempts \in Nat
        /\ queueFile.nextAttemptAt \in Nat
    BY <2>1 DEF GoodQueue, Queues
  <2>4. /\ DOMAIN stateFile.checks \subseteq Checks
        /\ \A c \in DOMAIN stateFile.checks :
             stateFile.checks[c] \in CheckStates(Nat, Occurrences)
    BY <2>1 DEF GoodChecks, GoodCheck
  <2>5. cursorFile \in {NoCursor} \cup (0 .. MaxEntries)
    BY AgentAssumption DEF IInv, CursorInJournal, FilesAgree, Bounds, NoCursor, AgentAssumption
  <2>6. OneRun /\ stateFile.lastRun \in Nat
    BY DEF IInv, FilesAgree, Bounds
  <2> QED BY <2>2, <2>3, <2>4, <2>5, <2>6 DEF TypeOK
<1> QED BY <1>1, AlwaysAgree, PTL

\* What a run that starts now believes is what it recalls from the files.
LEMMA BelievedIsRecalled ==
  ASSUME FilesAgree, NEW c \in Checks
  PROVE  Believed(c) = Recalled(stateFile.checks, queueFile.events, c)
PROOF
<1> DEFINE checks == LoadChecks(stateFile.checks)
<1>1. GoodChecks(stateFile.checks, now)
  BY WorldIs DEF FilesAgree, Consistent
<1>2. GoodChecks(checks, now) /\ StateOf(checks, c) = StateOf(stateFile.checks, c)
  BY <1>1, LoadedState
<1> HIDE DEF checks
<1>3. DOMAIN checks \subseteq Checks
  BY <1>2 DEF GoodChecks
<1>4. StateOf(Restore(checks, queueFile.events), c) = Recalled(checks, queueFile.events, c)
  BY <1>3, RestoredState
<1>5. Recalled(checks, queueFile.events, c) = Recalled(stateFile.checks, queueFile.events, c)
  BY <1>2, SameStateSameRecall
<1> QED BY <1>4, <1>5 DEF Believed, checks

\* Neither a crash nor a lost acknowledgement, not even a reset or a baseline cut short,
\* makes a run believe in an alert that its reader was not told of.
THEOREM AlertsAreReal == Spec => []NoImaginedAlert
PROOF
<1>1. FilesAgree => NoImaginedAlert
  <2> SUFFICES ASSUME FilesAgree, NEW c \in Ordinary \ dropped, Believed(c).notified
               PROVE  IsOpen(LastWord(c))
    BY DEF NoImaginedAlert
  <2>1. Agrees(Recalled(stateFile.checks, queueFile.events, c),
               Said(queueFile.events, c, World), World)
    BY WorldIs DEF FilesAgree, Consistent, Coherent
  <2>2. Believed(c) = Recalled(stateFile.checks, queueFile.events, c)
    BY BelievedIsRecalled DEF Ordinary
  <2>3. LastWord(c) = Said(queueFile.events, c, World)
    BY WorldIs DEF LastWord, Said
  <2> QED BY <2>1, <2>2, <2>3 DEF Agrees
<1> QED BY <1>1, AlwaysAgree, PTL

\* With notify_recovery, neither a crash nor a lost acknowledgement makes a run forget
\* an alert either: what it believes in is what its reader was last told of.
THEOREM BeliefsAreKept ==
  ASSUME NotifyRecovery
  PROVE  Spec => []BeliefMatchesMessages
PROOF
<1>1. FilesAgree => BeliefMatchesMessages
  <2> SUFFICES ASSUME FilesAgree, NEW c \in Undisturbed
               PROVE  Believed(c).notified <=> IsOpen(LastWord(c))
    BY DEF BeliefMatchesMessages
  <2>1. c \in Ordinary \ dropped /\ ~restarted
    BY DEF Undisturbed
  <2>2. Agrees(Recalled(stateFile.checks, queueFile.events, c),
               Said(queueFile.events, c, World), World)
    BY <2>1, WorldIs DEF FilesAgree, Consistent, Coherent
  <2>3. Believed(c) = Recalled(stateFile.checks, queueFile.events, c)
    BY <2>1, BelievedIsRecalled DEF Ordinary
  <2>4. LastWord(c) = Said(queueFile.events, c, World)
    BY WorldIs DEF LastWord, Said
  <2> QED BY <2>1, <2>2, <2>3, <2>4, WorldIs DEF Agrees
<1> QED BY <1>1, AlwaysAgree, PTL

\* With notify_recovery, the reader of the alerts sees problems and recoveries take
\* turns, repetitions of a delivery aside.
THEOREM TurnsAreKept ==
  ASSUME NotifyRecovery
  PROVE  Spec => []ProblemsAndRecoveriesAlternate
PROOF
<1>1. FilesAgree => ProblemsAndRecoveriesAlternate
  BY DEF FilesAgree, NoTurnMissed
<1> QED BY <1>1, AlwaysAgree, PTL

\* An entry that leaves the queue file was delivered or dropped, or a newer alert took
\* its place.
LEMMA StepLosesNothing ==
  ASSUME IInv, FilesAgree, NEW p \in Procs, Step(p), ~At(p, "removeQueue"),
         NEW entry \in Entries(queueFile) \ Entries(queueFile')
  PROVE  \/ entry \in delivered
         \/ entry.event.check \in dropped'
         \/ \E newer \in Entries(queueFile') :
              /\ newer.event.check = entry.event.check
              /\ newer.createdAt = entry.createdAt
PROOF
<1>1. CASE SaveQueue(p)
  <2>1. /\ run[p].mode = "check" /\ Evaluated(run[p], World)
        /\ queueFile' = run[p].pending /\ dropped' = dropped \cup Lost(run[p])
    BY <1>1 DEF SaveQueue, At, FilesAgree, MemoriesAgree, Holds, Lost
  <2> QED BY <2>1, WorldIs DEF Evaluated, Entries
<1>2. CASE SaveDelivered(p)
  BY <1>2, SaveDeliveredAgrees
<1>3. CASE SaveFailure(p)
  BY <1>3, SaveFailureAgrees
<1>4. CASE queueFile' = queueFile
  BY <1>4
<1>5. \/ SaveQueue(p) \/ SaveDelivered(p) \/ SaveFailure(p) \/ queueFile' = queueFile
  BY DEF Step, BeginCheck, BeginReset, Collect, Observe, SaveState, SaveCursor, Send,
         RemoveState, RemoveQueue, RemoveCursor, Stop, files
<1> QED BY <1>1, <1>2, <1>3, <1>4, <1>5

\* No alert is lost: queue.json only loses what the server has accepted, what a newer
\* alert about the check replaces, and what Retain or the limit drop.
THEOREM NothingIsLost == Spec => OnlyDeliveredLeaves
PROOF
<1> DEFINE A == \A entry \in Entries(queueFile) \ Entries(queueFile') :
                  \/ entry \in delivered
                  \/ entry.event.check \in dropped'
                  \/ \E p \in Procs : At(p, "removeQueue")
                  \/ \E newer \in Entries(queueFile') :
                       /\ newer.event.check = entry.event.check
                       /\ newer.createdAt = entry.createdAt
<1>1. ASSUME IInv, FilesAgree, NEW p \in Procs, Step(p) PROVE A
  BY <1>1, StepLosesNothing
<1>2. (IInv /\ FilesAgree) /\ [Next]_vars => [A]_vars
  <2> SUFFICES ASSUME IInv, FilesAgree, Next PROVE A
    OBVIOUS
  <2>1. CASE Toggle \/ LogKernelMessage
    BY <2>1 DEF Toggle, LogKernelMessage, files
  <2> HIDE DEF A
  <2> QED BY <1>1, <2>1 DEF Next
<1> QED BY <1>2, AlwaysAgree, PTL DEF Spec, OnlyDeliveredLeaves

\* queue.trim: when the queue is full, what a run drops from it is never newer than what
\* it keeps, whatever the run adds.
THEOREM OldestGoFirst == Spec => OverflowDropsOldest
PROOF
<1> DEFINE A == \A p \in Procs : At(p, "saveQueue") =>
                  \A old \in run[p].overflow, kept \in Entries(queueFile') :
                    queueFile' = run[p].pending => old.createdAt <= kept.createdAt
<1>1. IInv /\ FilesAgree => A
  BY DEF At, FilesAgree, MemoriesAgree, Holds, Evaluated, Entries
<1>2. (IInv /\ FilesAgree) /\ [Next]_vars => [A]_vars
  BY <1>1
<1> QED BY <1>2, AlwaysAgree, PTL DEF Spec, OverflowDropsOldest

-----------------------------------------------------------------------------
(* The pages of the journal *)

\* What a page holds: entries after the cursor that is saved and up to its own and,
\* when there is a cursor, all of them.
Follows(page, active) ==
  /\ \A i \in page.entries : i \in Nat /\ cursorFile < i /\ i <= page.cursor
  /\ page.failed => page.entries = {}
  /\ page.entries # {} => JournalChecks \cap active # {}
  /\ cursorFile # NoCursor /\ page.cursor # NoCursor =>
       \A i \in DOMAIN journal : cursorFile < i /\ i <= page.cursor => i \in page.entries

\* Without a reset, whose steps are left out, a process holds a page as it read it until
\* it saves the cursor.
Holding(r) ==
  /\ r.pc \in CheckSteps \cup {"idle"}
  /\ r.pc \in PageSteps => Follows(r.page, r.enabled)

PagesFollow == \A p \in Procs : Holding(run[p])

\* journalctl takes the cursor, and nobody runs reset-state.
JournalIsRead == "rejected" \notin JournalFaults /\ "reset" \notin Modes

\* A page is all that lies between two places.
LEMMA PageIsCut ==
  ASSUME NEW entries, NEW cursor, NEW page \in Pages(entries, cursor)
  PROVE  page.entries = {i \in entries : i <= page.cursor} /\ ~page.failed
PROOF
<1>1. PICK last : page = [failed |-> FALSE, cursor |-> last, entries |-> {i \in entries : i <= last}]
  BY DEF Pages
<1> QED BY <1>1

\* A page that is read holds what follows the cursor.
LEMMA ReadFollows ==
  ASSUME IInv, JournalIsRead, NEW p \in Procs, NEW page \in ReadJournal(p)
  PROVE  Follows(page, run[p].enabled)
PROOF
<1> DEFINE since == Since(WindowStart(run[p].lastRun))
           after == {i \in DOMAIN journal : i > cursorFile}
<1>1. /\ journal \in Seq(Nat) /\ DOMAIN journal = 1 .. Len(journal) /\ Len(journal) \in Nat
      /\ cursorFile \in Int
  BY DEF IInv, CursorInJournal
<1>2. since \in SUBSET DOMAIN journal /\ after \in SUBSET DOMAIN journal
  BY DEF Since
<1>3. \/ page \in {NoPage, [NoPage EXCEPT !.failed = TRUE]}
      \/ /\ JournalChecks \cap run[p].enabled # {}
         /\ \/ cursorFile = NoCursor /\ page \in Pages(since, NoCursor)
            \/ cursorFile # NoCursor /\ page \in Pages(after, cursorFile)
  BY DEF ReadJournal, JournalIsRead
<1> HIDE DEF since
<1>4. CASE page \in {NoPage, [NoPage EXCEPT !.failed = TRUE]}
  <2>1. page.entries = {} /\ page.cursor = NoCursor
    BY <1>4 DEF NoPage
  <2> QED BY <2>1 DEF Follows
<1>5. CASE /\ JournalChecks \cap run[p].enabled # {}
           /\ cursorFile = NoCursor /\ page \in Pages(since, NoCursor)
  <2>1. page.entries = {i \in since : i <= page.cursor} /\ ~page.failed
    BY <1>5, PageIsCut
  <2>2. \A i \in page.entries : i \in Nat /\ cursorFile < i
    BY <1>1, <1>2, <1>5, <2>1 DEF NoCursor
  <2> QED BY <1>5, <2>1, <2>2 DEF Follows
<1>6. CASE /\ JournalChecks \cap run[p].enabled # {} /\ page \in Pages(after, cursorFile)
  <2>1. page.entries = {i \in after : i <= page.cursor} /\ ~page.failed
    BY <1>6, PageIsCut
  <2>2. /\ \A i \in page.entries : i \in Nat /\ cursorFile < i /\ i <= page.cursor
        /\ \A i \in DOMAIN journal : cursorFile < i /\ i <= page.cursor => i \in page.entries
    BY <1>1, <2>1
  <2> QED BY <1>6, <2>1, <2>2 DEF Follows
<1> QED BY <1>3, <1>4, <1>5, <1>6

\* A run that only goes on to its next step keeps everything else.
LEMMA FieldsStay ==
  ASSUME IInv, NEW p \in Procs, run[p].pc \in CheckSteps, NEW pc \in CheckSteps,
         Continue(p, [run[p] EXCEPT !.pc = pc])
  PROVE  /\ run'[p].pc = pc /\ run'[p].mode = run[p].mode
         /\ run'[p].enabled = run[p].enabled /\ run'[p].page = run[p].page
         /\ run'[p].checks = run[p].checks /\ run'[p].pending = run[p].pending
         /\ run'[p].overflow = run[p].overflow /\ run'[p].lastRun = run[p].lastRun
PROOF
<1>1. Formed(run[p]) /\ run'[p] = [run[p] EXCEPT !.pc = pc]
  BY DEF IInv, Memory, Continue
<1> QED BY <1>1 DEF Formed, MemoryFields

\* While one process takes a step the others hold nothing.
LEMMA OthersIdle ==
  ASSUME IInv, NEW p \in Procs, Step(p), NEW q \in Procs \ {p}
  PROVE  run'[q] = run[q] /\ run[q].pc = "idle"
PROOF
<1>1. run'[q] = run[q] /\ (run[p].pc = "idle" => lock = NoProc)
  BY StepMoves, AgentAssumption DEF Moves
<1> QED BY <1>1, AgentAssumption DEF IInv, OneRun, At, AgentAssumption

\* Where a run sends what it saved, and where it goes after that.
LEMMA Goes ==
  ASSUME IInv, NEW p \in Procs, SaveCursor(p) \/ Send(p) \/ SaveDelivered(p)
  PROVE  run'[p].pc \in {"idle", "send", "saveDelivered", "saveFailure"}
PROOF
<1>1. DOMAIN run = Procs /\ Formed(run[p])
  BY DEF IInv, Memory
<1>2. CASE SaveCursor(p)
  <2>1. Leave(p) \/ Continue(p, [run[p] EXCEPT !.pc = "send"])
    BY <1>2 DEF SaveCursor
  <2> QED BY <1>1, <2>1 DEF Leave, Continue, Idle, Formed
<1>3. CASE SaveDelivered(p)
  <2>1. Leave(p) \/ Continue(p, [run[p] EXCEPT !.pc = "send"])
    BY <1>3 DEF SaveDelivered
  <2> QED BY <1>1, <2>1 DEF Leave, Continue, Idle, Formed
<1>4. CASE Send(p)
  <2>1. PICK n :
          \/ Continue(p, [run[p] EXCEPT !.pc = "saveDelivered",
                            !.pending = MarkDelivered(run[p].pending, n)])
          \/ Continue(p, [run[p] EXCEPT !.pc = "saveFailure",
                            !.pending = MarkFailure(run[p].pending, run[p].time)])
    BY <1>1, <1>4 DEF Send, At, Formed, CheckSteps
  <2> QED BY <1>1, <2>1 DEF Continue, Formed
<1> QED BY <1>2, <1>3, <1>4

\* A page is read after the cursor that is saved, and that one stays until the run
\* saves its own.
LEMMA StepFollows ==
  ASSUME IInv, FilesAgree, JournalIsRead, PagesFollow, NEW p \in Procs, Step(p)
  PROVE  Holding(run[p])'
PROOF
<1>a. DOMAIN run = Procs /\ Formed(run[p]) /\ Holding(run[p])
  BY DEF IInv, Memory, PagesFollow
<1>1. ASSUME UNCHANGED <<cursorFile, journal>>, run[p].pc \in PageSteps, Same(run[p], run'[p]),
             run'[p].pc \in PageSteps
      PROVE  Holding(run[p])'
  BY <1>1, <1>a DEF Holding, Same, Follows, PageSteps, CheckSteps
<1>2. ASSUME run'[p].pc \in {"idle", "collect", "send", "saveDelivered", "saveFailure"}
      PROVE  Holding(run[p])'
  BY <1>2 DEF Holding, PageSteps, CheckSteps
<1>3. CASE \E mode \in Modes \ {"reset"} : BeginCheck(p, mode)
  <2>1. run'[p].pc = "collect"
    BY <1>3, <1>a DEF BeginCheck, Loaded
  <2> QED BY <1>2, <2>1
<1>4. CASE Collect(p)
  <2>1. PICK page \in ReadJournal(p) :
          Continue(p, [run[p] EXCEPT !.pc = "observe", !.page = page])
    BY <1>4 DEF Collect
  <2>2. Follows(page, run[p].enabled)
    BY ReadFollows
  <2>3. /\ run'[p].pc = "observe" /\ run'[p].page = page /\ run'[p].enabled = run[p].enabled
        /\ UNCHANGED <<cursorFile, journal>>
    BY <1>4, <1>a, <2>1 DEF Collect, At, Continue, Formed, CheckSteps, MemoryFields, files, outside
  <2> QED BY <2>2, <2>3 DEF Holding, Follows, CheckSteps
<1>5. CASE Observe(p)
  <2>1. run[p].pc = "observe" /\ UNCHANGED <<cursorFile, journal>>
    BY <1>5 DEF Observe, At, files
  <2>2. /\ run'[p] = Idle \/ Same(run[p], run'[p])
        /\ \E results : Observed(p, results, now + 1)
    BY <1>5, ObserveIs
  <2>3. run'[p] = Idle \/ run'[p].pc \in {"saveQueue", "saveState"}
    BY <2>2 DEF Observed
  <2> QED BY <1>1, <1>2, <2>1, <2>2, <2>3 DEF PageSteps, Idle
<1>6. CASE SaveQueue(p)
  <2>1. run[p].pc = "saveQueue" /\ Continue(p, [run[p] EXCEPT !.pc = "saveState"])
    BY <1>6 DEF SaveQueue, At
  <2>2. Same(run[p], run'[p]) /\ run'[p].pc = "saveState"
    BY <2>1, FieldsStay DEF CheckSteps, Same
  <2> QED BY <1>1, <1>6, <2>1, <2>2 DEF SaveQueue, outside, PageSteps
<1>7. CASE SaveState(p)
  <2>1. run[p].pc = "saveState" /\ Continue(p, [run[p] EXCEPT !.pc = "saveCursor"])
    BY <1>7 DEF SaveState, At
  <2>2. Same(run[p], run'[p]) /\ run'[p].pc = "saveCursor"
    BY <2>1, FieldsStay DEF CheckSteps, Same
  <2> QED BY <1>1, <1>7, <2>1, <2>2 DEF SaveState, outside, PageSteps
<1>8. CASE SaveCursor(p) \/ Send(p) \/ SaveDelivered(p)
  BY <1>2, <1>8, Goes
<1>9. CASE SaveFailure(p) \/ Stop(p)
  <2>1. run'[p].pc = "idle"
    BY <1>9, <1>a DEF SaveFailure, Stop, Leave, Idle
  <2> QED BY <1>2, <2>1
<1>10. ~RemoveState(p) /\ ~RemoveQueue(p) /\ ~RemoveCursor(p)
  BY <1>a DEF RemoveState, RemoveQueue, RemoveCursor, At, Holding, CheckSteps
<1> QED BY <1>3, <1>4, <1>5, <1>6, <1>7, <1>8, <1>9, <1>10 DEF Step, JournalIsRead

\* So does every page a process holds, after any step.
LEMMA NextFollows == IInv /\ FilesAgree /\ JournalIsRead /\ PagesFollow /\ [Next]_vars => PagesFollow'
PROOF
<1> SUFFICES ASSUME IInv, FilesAgree, JournalIsRead, PagesFollow, [Next]_vars, NEW p \in Procs
             PROVE  Holding(run[p])'
  BY DEF PagesFollow
<1>1. CASE \E q \in Procs : Step(q)
  <2>1. PICK q \in Procs : Step(q)
    BY <1>1
  <2>2. CASE q = p
    BY <2>1, <2>2, StepFollows
  <2>3. CASE q # p
    <3>1. run'[p].pc = "idle"
      BY <2>1, <2>3, OthersIdle
    <3> QED BY <3>1 DEF Holding, PageSteps
  <2> QED BY <2>2, <2>3
<1>2. CASE Toggle \/ UNCHANGED vars
  BY <1>2 DEF Toggle, vars, files, outside, PagesFollow, Holding, Follows
<1>3. CASE LogKernelMessage
  <2>1. /\ UNCHANGED <<run, cursorFile>> /\ journal' = Append(journal, now)
        /\ journal \in Seq(Nat) /\ now \in Nat /\ Holding(run[p])
        /\ InOrder(run[p], cursorFile, Len(journal))
    BY <1>3 DEF LogKernelMessage, files, IInv, CursorInJournal, PagesInOrder, PagesFollow
  <2>2. \A i \in DOMAIN journal' : i \in DOMAIN journal \/ i = Len(journal) + 1
    BY <2>1
  <2>3. \A i \in DOMAIN journal' : run[p].pc \in PageSteps /\ i <= run[p].page.cursor => i \in DOMAIN journal
    BY <2>1, <2>2 DEF InOrder
  <2> QED BY <2>1, <2>3 DEF Holding, Follows
<1> QED BY <1>1, <1>2, <1>3 DEF Next

\* With the agreement of the files, in every state.
LEMMA AlwaysFollow ==
  ASSUME JournalIsRead
  PROVE  Spec => [](IInv /\ FilesAgree /\ PagesFollow)
PROOF
<1>1. Init => PagesFollow
  BY DEF Init, PagesFollow, Holding, Idle, PageSteps
<1>2. IInv /\ FilesAgree /\ PagesFollow /\ [Next]_vars => PagesFollow'
  BY NextFollows
<1> QED BY <1>1, <1>2, AlwaysAgree, PTL DEF Spec

-----------------------------------------------------------------------------
(* What a run announces *)

\* A check announces what it reports, unless that is what it reported last; what it
\* remembers is either.
LEMMA EvaluateAnnounces ==
  ASSUME NEW check \in CheckStates(Nat, Occurrences), NEW result, IsResult(result, Occurrences),
         NEW isJournal \in BOOLEAN, NEW t \in Nat, t # Never
  PROVE  LET step == EvaluateCheck(check, result, isJournal, t)
         IN /\ \A i \in step.check.fingerprint : i \in check.fingerprint \/ i \in result.occurrence
            /\ result.occurrence # NoOccurrence /\ step.kind = "none" =>
                 check.fingerprint = result.occurrence
PROOF
<1> DEFINE quiet == IF isJournal THEN CloseOccurrence(check) ELSE check
<1>1. /\ quiet \in CheckStates(Nat, Occurrences) /\ quiet.fingerprint = check.fingerprint
  BY CloseOccurrenceType DEF CloseOccurrence, CheckStates
<1> HIDE DEF quiet
<1>2. CASE result.occurrence # NoOccurrence
  <2>1. EvaluateCheck(check, result, isJournal, t) = OnOccurrence(check, result, t)
    BY <1>2 DEF EvaluateCheck
  <2>2. /\ OnOccurrence(check, result, t).check.fingerprint = result.occurrence
        /\ OnOccurrence(check, result, t).kind = "none" => check.fingerprint = result.occurrence
    BY DEF OnOccurrence, Outcome, CheckStates, IsNewOccurrence
  <2> QED BY <2>1, <2>2
<1>3. CASE result.occurrence = NoOccurrence /\ result.status = "OK"
  <2>1. EvaluateCheck(check, result, isJournal, t) = OnSuccess(quiet, t)
    BY <1>3 DEF EvaluateCheck, quiet
  <2>2. OnSuccess(quiet, t).check.fingerprint = quiet.fingerprint
    BY <1>1 DEF OnSuccess, Outcome, CheckStates
  <2> QED BY <1>1, <1>3, <2>1, <2>2
<1>4. CASE result.occurrence = NoOccurrence /\ result.status # "OK"
  <2>1. EvaluateCheck(check, result, isJournal, t) = OnFailure(quiet, result, t)
    BY <1>4 DEF EvaluateCheck, quiet
  <2>2. OnFailure(quiet, result, t).check.fingerprint = quiet.fingerprint
    BY <1>1 DEF OnFailure, Outcome, CheckStates
  <2> QED BY <1>1, <1>4, <2>1, <2>2
<1> QED BY <1>2, <1>3, <1>4

\* A journal check reports the page that was read, and no other check reports anything.
LEMMA ResultAnnounces ==
  ASSUME NEW p \in Procs, NEW c \in Checks, NEW result \in PossibleResults(p, c),
         run[p].page.failed => run[p].page.entries = {}
  PROVE  result.occurrence = IF c \in JournalChecks THEN run[p].page.entries ELSE {}
PROOF
<1>1. CASE c \in JournalChecks
  <2>1. result = JournalResult(run[p].page)
    BY <1>1 DEF PossibleResults
  <2> QED BY <1>1, <2>1 DEF JournalResult, Unknown, Ok, Problem, Result, NoOccurrence
<1>2. CASE c \in Monitors /\ c \notin JournalChecks
  <2>1. result \in {Ok, Problem("CRITICAL", FALSE), Problem("WARNING", FALSE)}
    BY <1>2 DEF PossibleResults, QueueResult
  <2> QED BY <1>2, <2>1 DEF Ok, Problem, Result, NoOccurrence
<1>3. CASE c \notin Monitors \cup JournalChecks
  <2>1. result \in Results({"m"}, {NoOccurrence})
    BY <1>3, AgentAssumption DEF PossibleResults, AgentAssumption
  <2> QED BY <1>3, <2>1 DEF Results, NoOccurrence
<1> QED BY <1>1, <1>2, <1>3

\* Adding the events of a run loses no entry that mentions a kernel message.
LEMMA MentionIsKept ==
  ASSUME NEW time \in Nat, NEW old, GoodEvents(old, time), NEW active, NEW incoming, NEW t,
         NEW added, NEW new, Renews(old, active, incoming, t, added, new),
         NEW e \in ToSet(old), e.event.check \in active, e.event.occurrence # {}
  PROVE  e \in ToSet(added)
PROOF
<1> DEFINE c == e.event.check
<1>1. e \in About(old, c) /\ c \in active
  BY DEF About
<1>2. \A d \in About(old, c) : WellSaid(d.event)
  BY AboutType
<1> HIDE DEF c
<1>3. e \in About(added, c)
  <2>1. CASE \A i \in 1 .. Len(incoming) : incoming[i].check # c
    BY <1>1, <2>1 DEF Renews
  <2>2. ASSUME NEW i \in 1 .. Len(incoming), incoming[i].check = c
        PROVE  e \in About(added, c)
    <3>1. Adds(About(old, c), About(added, c), incoming[i], t)
      BY <2>2 DEF Renews
    <3>2. ASSUME NEW entry, Latest(entry, About(old, c)),
                 entry.event.kind \notin {"recovery", "occurrence"}
          PROVE  entry # e
      BY <1>2, <3>2 DEF WellSaid, NoOccurrence, Latest
    <3> QED BY <1>1, <3>1, <3>2 DEF Adds
  <2> QED BY <2>1, <2>2
<1> QED BY <1>3 DEF About

\* Every event of a run is in the queue before its limit, as a new entry or as one that
\* was there.
LEMMA EventIsQueued ==
  ASSUME NEW time \in Nat, NEW old, GoodEvents(old, time), NEW active, NEW incoming, NEW t,
         NEW added, NEW new, Renews(old, active, incoming, t, added, new),
         NEW i \in 1 .. Len(incoming)
  PROVE  \E x \in ToSet(added) : x.event = incoming[i]
PROOF
<1> DEFINE c == incoming[i].check
           event == incoming[i]
<1>1. Adds(About(old, c), About(added, c), event, t)
  BY DEF Renews
<1>2. \A d \in About(old, c) : d \in QueueEntries
  BY AboutType
<1> HIDE DEF c, event
<1>3. \E x \in About(added, c) : x.event = event
  <2>1. CASE /\ About(added, c) = About(old, c)
             /\ \E entry \in About(old, c) : entry.event = event
    BY <2>1
  <2>2. ASSUME NEW entry, Latest(entry, About(old, c)),
               About(added, c) = (About(old, c) \ {entry}) \cup {[entry EXCEPT !.event = event]}
        PROVE  \E x \in About(added, c) : x.event = event
    <3>1. [entry EXCEPT !.event = event].event = event
      BY <1>2, <2>2 DEF Latest, QueueEntries
    <3> QED BY <2>2, <3>1
  <2>3. CASE About(added, c) = About(old, c) \cup {Entry(event, t)}
    <3>1. Entry(event, t) \in About(added, c)
      BY <2>3
    <3>2. Entry(event, t).event = event
      BY DEF Entry
    <3> QED BY <3>1, <3>2
  <2> QED BY <1>1, <2>1, <2>2, <2>3 DEF Adds
<1> QED BY <1>3 DEF About, event

\* An entry that mentions a kernel message was queued before the run or announces one of
\* its events.
LEMMA MentionIsOldOrNew ==
  ASSUME NEW time \in Nat, NEW old, GoodEvents(old, time), NEW active, NEW incoming, NEW t,
         NEW added, NEW new, Renews(old, active, incoming, t, added, new),
         \A i \in 1 .. Len(incoming) : WellSaid(incoming[i]),
         NEW x \in ToSet(added), x.event.occurrence # {}
  PROVE  x \in ToSet(old) \/ \E i \in 1 .. Len(incoming) : x = Entry(incoming[i], t)
PROOF
<1> DEFINE c == x.event.check
<1>1. x \in About(added, c) /\ c \in active
  BY DEF About, Renews
<1>2. \A d \in About(old, c) : d \in QueueEntries /\ d \in ToSet(old)
  BY AboutType
<1> HIDE DEF c
<1>3. CASE \A i \in 1 .. Len(incoming) : incoming[i].check # c
  BY <1>1, <1>2, <1>3 DEF Renews
<1>4. ASSUME NEW i \in 1 .. Len(incoming), incoming[i].check = c
      PROVE  x \in ToSet(old) \/ x = Entry(incoming[i], t)
  <2>1. Adds(About(old, c), About(added, c), incoming[i], t) /\ WellSaid(incoming[i])
    BY <1>4 DEF Renews
  <2>2. ASSUME NEW entry, Latest(entry, About(old, c)), incoming[i].kind \in {"reminder", "escalation"}
        PROVE  x # [entry EXCEPT !.event = incoming[i]]
    <3>1. [entry EXCEPT !.event = incoming[i]].event = incoming[i]
      BY <1>2, <2>2 DEF Latest, QueueEntries
    <3>2. incoming[i].occurrence = {}
      BY <2>1, <2>2 DEF WellSaid, NoOccurrence
    <3> QED BY <3>1, <3>2
  <2> QED BY <1>1, <1>2, <2>1, <2>2 DEF Adds
<1> QED BY <1>3, <1>4

\* An entry mentions a kernel message; a check remembers it as what it reported last.
Mentions(entries, i) == \E e \in entries : i \in e.event.occurrence
Remembers(checks, i) == \E c \in DOMAIN checks : i \in checks[c].fingerprint

\* The queue after a run, before its limit.
Uncut(r) == ToSet(r.pending.events) \cup r.overflow

\* The journal checks report what was read, the others nothing.
Reports(results, active, read) ==
  /\ \A c \in DOMAIN results : results[c].occurrence = IF c \in JournalChecks THEN read ELSE {}
  /\ read # {} => JournalChecks \cap active # {}

\* What was read is announced unless it was reported last, what the checks remember was
\* read or remembered, no entry that mentions a kernel message leaves the queue, and only
\* those of a journal check that announce what was read enter it.
Announces(r, next, results, outcomes, t, read) ==
  /\ \A i \in read : Remembers(r.checks, i) \/ Mentions(Uncut(next), i)
  /\ \A i : Remembers(next.checks, i) => Remembers(r.checks, i) \/ i \in read
  /\ \A e \in ToSet(r.pending.events) :
       e.event.check \in r.enabled /\ e.event.occurrence # {} => e \in Uncut(next)
  /\ \A x \in Uncut(next) : x.event.check \in r.enabled
  /\ ToSet(next.pending.events) \cap next.overflow = {}
  /\ \A x \in Uncut(next) : x.event.occurrence # {} =>
       \/ x \in ToSet(r.pending.events)
       \/ \E c \in JournalChecks : /\ x = Entry(EventAbout(results, outcomes, c), t)
                                   /\ x.event.occurrence = read

\* What evaluating the results of a check announces, from what the engine says of one
\* result and what its events make of the queue.
LEMMA RunAnnounces ==
  ASSUME AgentAssumption, NEW w, Consistent(w), NEW t, t = w.now + 1,
         NEW r, r.pending = w.queue, r.enabled \subseteq Checks, GoodChecks(r.checks, w.now),
         NEW results, DOMAIN results = r.enabled, WellTyped(results),
         NEW outcomes, Outcomes(outcomes, r.checks, results, t),
         NEW next, Computes(next, r, results, outcomes, t),
         NEW read, Reports(results, r.enabled, read)
  PROVE  Announces(r, next, results, outcomes, t, read)
PROOF
<1> DEFINE old == w.queue.events
<1>0. PICK incoming, added : Renewal(r, next, results, outcomes, t, incoming, added)
  BY RunRenews
<1>1. /\ IsRaised(incoming, results, outcomes)
      /\ \A i \in 1 .. Len(incoming) :
           /\ WellSaid(incoming[i]) /\ incoming[i].check \in r.enabled
           /\ Raises(results, outcomes, incoming[i].check)
      /\ GoodQueue(next.pending, t)
      /\ Renews(old, r.enabled, incoming, t, added, next.pending.events)
      /\ next.overflow = ToSet(added) \ ToSet(next.pending.events)
  <2>1. r.pending.events = old
    OBVIOUS
  <2> QED BY ONLY <1>0, <2>1 DEF Renewal
<1>2. /\ DOMAIN next.checks = DOMAIN results
      /\ \A c \in DOMAIN results : next.checks[c] = outcomes[c].check
  BY DEF Computes
<1>3. GoodEvents(old, w.now) /\ w.now \in Nat /\ t \in Nat /\ t # Never
  <2>1. w.now \in Nat \ {0} /\ GoodEvents(old, w.now)
    BY DEF Consistent, GoodQueue
  <2> QED BY ONLY <2>1, t = w.now + 1 DEF Never
<1> HIDE DEF old
<1>a. Renews(old, r.enabled, incoming, t, added, next.pending.events)
  BY ONLY <1>1
<1>b. \A i \in 1 .. Len(incoming) : WellSaid(incoming[i])
  BY ONLY <1>1
<1>c. \A i \in 1 .. Len(incoming) : \E x \in ToSet(added) : x.event = incoming[i]
  BY ONLY <1>3, <1>a, EventIsQueued
<1>d. \A e \in ToSet(old) :
        e.event.check \in r.enabled /\ e.event.occurrence # {} => e \in ToSet(added)
  BY ONLY <1>3, <1>a, MentionIsKept
<1>e. \A x \in ToSet(added) : x.event.occurrence # {} =>
        x \in ToSet(old) \/ \E i \in 1 .. Len(incoming) : x = Entry(incoming[i], t)
  BY ONLY <1>3, <1>a, <1>b, MentionIsOldOrNew
<1>4. Uncut(next) = ToSet(added)
  BY <1>1 DEF Uncut, Renews
<1>5. ASSUME NEW c \in DOMAIN results
      PROVE  /\ \A i \in outcomes[c].check.fingerprint :
                  i \in StateOf(r.checks, c).fingerprint \/ i \in results[c].occurrence
             /\ results[c].occurrence # {} /\ outcomes[c].kind = "none" =>
                  StateOf(r.checks, c).fingerprint = results[c].occurrence
  <2>1. PICK isJournal \in BOOLEAN :
          outcomes[c] = EvaluateCheck(StateOf(r.checks, c), results[c], isJournal, t)
    BY DEF Outcomes
  <2>2. StateOf(r.checks, c) \in CheckStates(Nat, Occurrences)
    BY <1>3, StateOfGood DEF GoodCheck
  <2>3. IsResult(results[c], Occurrences)
    BY DEF WellTyped, IsResult, Results
  <2> QED BY <1>3, <2>1, <2>2, <2>3, EvaluateAnnounces DEF NoOccurrence
<1>6. ASSUME NEW c, NEW i \in StateOf(r.checks, c).fingerprint PROVE Remembers(r.checks, i)
  <2>1. NewCheck.fingerprint = {}
    BY DEF NewCheck, NoOccurrence
  <2> QED BY <2>1 DEF StateOf, Remembers
<1>7. ASSUME NEW i \in read PROVE Remembers(r.checks, i) \/ Mentions(Uncut(next), i)
  <2>1. PICK c \in JournalChecks \cap r.enabled : TRUE
    BY DEF Reports
  <2>2. c \in DOMAIN results /\ c \in Checks /\ results[c].occurrence = read
    BY <2>1 DEF Reports
  <2>3. CASE outcomes[c].kind = "none"
    BY <1>5, <1>6, <2>2, <2>3
  <2>4. CASE outcomes[c].kind # "none"
    <3>1. Raises(results, outcomes, c)
      BY <2>2, <2>4 DEF Raises
    <3>2. PICK j \in 1 .. Len(incoming) : incoming[j] = EventAbout(results, outcomes, c)
      BY <1>1, <2>2, <3>1 DEF IsRaised
    <3>3. incoming[j].occurrence = read
      BY <2>2, <3>2 DEF EventAbout, NewEvent
    <3>4. \E x \in ToSet(added) : x.event = incoming[j]
      BY <1>c
    <3> QED BY <1>4, <3>3, <3>4 DEF Mentions
  <2> QED BY <2>3, <2>4
<1>8. ASSUME NEW i, Remembers(next.checks, i) PROVE Remembers(r.checks, i) \/ i \in read
  <2>1. PICK c \in DOMAIN results : i \in outcomes[c].check.fingerprint
    BY <1>2, <1>8 DEF Remembers
  <2>2. results[c].occurrence = read \/ results[c].occurrence = {}
    BY DEF Reports
  <2> QED BY <1>5, <1>6, <2>1, <2>2
<1>9. ASSUME NEW e \in ToSet(old), e.event.check \in r.enabled, e.event.occurrence # {}
      PROVE  e \in Uncut(next)
  BY <1>4, <1>9, <1>d
<1>10. \A x \in Uncut(next) : x.event.check \in r.enabled
  BY <1>1, <1>4 DEF Renews
<1>11. ASSUME NEW x \in Uncut(next), x.event.occurrence # {}, x \notin ToSet(old)
       PROVE  \E c \in JournalChecks : /\ x = Entry(EventAbout(results, outcomes, c), t)
                                       /\ x.event.occurrence = read
  <2>1. PICK j \in 1 .. Len(incoming) : x = Entry(incoming[j], t)
    BY <1>4, <1>11, <1>e
  <2>2. PICK c \in Checks : /\ Raises(results, outcomes, c)
                            /\ incoming[j] = EventAbout(results, outcomes, c)
    BY <1>1 DEF IsRaised
  <2>3. x.event.occurrence = results[c].occurrence /\ c \in DOMAIN results
    BY <2>1, <2>2 DEF Entry, EventAbout, NewEvent, Raises
  <2>4. c \in JournalChecks /\ results[c].occurrence = read
    BY <1>11, <2>3 DEF Reports
  <2> QED BY <2>1, <2>2, <2>3, <2>4
<1>12. \A x \in Uncut(next) : x.event.occurrence # {} =>
         \/ x \in ToSet(old)
         \/ \E c \in JournalChecks : /\ x = Entry(EventAbout(results, outcomes, c), t)
                                     /\ x.event.occurrence = read
  BY ONLY <1>11
<1>13. \A e \in ToSet(old) : e.event.check \in r.enabled /\ e.event.occurrence # {} => e \in Uncut(next)
  BY ONLY <1>9
<1>14. ToSet(next.pending.events) \cap next.overflow = {}
  BY <1>1
<1>15. r.pending.events = old
  BY DEF old
<1> QED BY ONLY <1>7, <1>8, <1>10, <1>12, <1>13, <1>14, <1>15 DEF Announces

-----------------------------------------------------------------------------
(* No kernel message is skipped *)

\* A kernel message is accounted for once it is announced or dropped on purpose, or while
\* an entry of the queue file mentions it.
Accounted(i) == i \in settled \/ Mentions(Entries(queueFile), i)

\* The entries of checks that are disabled, which leave the queue with this run, and all
\* that this run is going to save or to drop.
Unretained(r) == {e \in Entries(queueFile) : e.event.check \notin r.enabled}
Renewed(r) == Uncut(r) \cup Unretained(r)

FilesAccount ==
  /\ cursorFile # NoCursor
  /\ \A i \in DOMAIN journal : i <= cursorFile => Accounted(i)
  /\ \A i : Remembers(stateFile.checks, i) => Accounted(i)
  /\ \A e \in delivered : e.event.occurrence \subseteq settled

\* What a run has read, and what its checks remember, is accounted for by the queue it is
\* going to save and, from then on, by the files.
Accounts(r) ==
  /\ r.pc \in {"collect", "observe"} => \A i : Remembers(r.checks, i) => Accounted(i)
  /\ r.pc = "saveQueue" =>
       \A i : Accounted(i) \/ i \in r.page.entries \/ Remembers(r.checks, i) =>
              i \in settled \/ Mentions(Renewed(r), i)
  /\ r.pc = "saveState" =>
       \A i : i \in r.page.entries \/ Remembers(r.checks, i) =>
              Accounted(i) \/ (r.mode = "baseline" /\ i \in r.page.entries)
  /\ r.pc = "saveCursor" => \A i \in r.page.entries : Accounted(i)

NothingSkipped == FilesAccount /\ \A p \in Procs : Accounts(run[p])

\* A message once accounted for remains so.
LEMMA AccountStays ==
  ASSUME FilesAccount, UNCHANGED <<stateFile, cursorFile, journal>>,
         \A i : Accounted(i) => Accounted(i)',
         \A e \in delivered' : e.event.occurrence \subseteq settled'
  PROVE  FilesAccount'
BY DEF FilesAccount

\* What is accounted for depends on the queue file and on what was announced.
LEMMA SameAccount ==
  ASSUME UNCHANGED <<queueFile, settled>>
  PROVE  \A i : Accounted(i)' <=> Accounted(i)
BY DEF Accounted, Entries

\* Other steps have nothing to account for.
LEMMA NothingToAccount ==
  ASSUME NEW p \in Procs,
         run'[p].pc \notin {"collect", "observe", "saveQueue", "saveState", "saveCursor"}
  PROVE  Accounts(run[p])'
BY DEF Accounts

\* Loading the files changes nothing a check remembers.
LEMMA LoadedRemembers ==
  ASSUME NEW time \in Nat, NEW checks, GoodChecks(checks, time), NEW events,
         NEW i, Remembers(LoadChecks(checks), i) \/ Remembers(Restore(LoadChecks(checks), events), i)
  PROVE  Remembers(checks, i)
PROOF
<1> DEFINE loaded == LoadChecks(checks)
<1>1. GoodChecks(loaded, time) /\ \A c : StateOf(loaded, c) = StateOf(checks, c)
  BY LoadedState
<1>2. DOMAIN loaded = DOMAIN checks
  BY DEF LoadChecks
<1>3. NewCheck.fingerprint = {}
  BY DEF NewCheck, NoOccurrence
<1> HIDE DEF loaded
<1>4. ASSUME NEW c, i \in StateOf(loaded, c).fingerprint PROVE Remembers(checks, i)
  BY <1>1, <1>2, <1>3, <1>4 DEF StateOf, Remembers
<1>5. CASE Remembers(loaded, i)
  BY <1>4, <1>5 DEF Remembers, StateOf
<1>6. CASE Remembers(Restore(loaded, events), i)
  <2>1. PICK c \in DOMAIN Restore(loaded, events) : i \in Restore(loaded, events)[c].fingerprint
    BY <1>6 DEF Remembers
  <2>2. Restore(loaded, events)[c] = Recalled(loaded, events, c)
    BY <1>1, <2>1, RestoredState DEF GoodChecks
  <2>3. StateOf(loaded, c) \in CheckStates(Nat, Occurrences)
    BY <1>1, StateOfGood DEF GoodCheck
  <2>4. \A entry : RestoreCheck(StateOf(loaded, c), entry).fingerprint = StateOf(loaded, c).fingerprint
    <3> DEFINE check == StateOf(loaded, c)
    <3> HIDE DEF check
    <3>1. check \in CheckStates(Nat, Occurrences)
      BY <2>3 DEF check
    <3>2. \A entry : RestoreCheck(check, entry).fingerprint = check.fingerprint
      BY ONLY <3>1 DEF RestoreCheck, CheckStates
    <3> QED BY <3>2 DEF check
  <2>5. Recalled(loaded, events, c).fingerprint = StateOf(loaded, c).fingerprint
    BY <2>4 DEF Recalled
  <2> QED BY <1>4, <2>1, <2>2, <2>5
<1> QED BY <1>5, <1>6 DEF loaded

\* A run that starts remembers what the files say.
LEMMA BeginAccounts ==
  ASSUME IInv, FilesAgree, NothingSkipped, NEW p \in Procs, NEW mode, BeginCheck(p, mode)
  PROVE  FilesAccount' /\ Accounts(run[p])'
PROOF
<1>1. /\ DOMAIN run = Procs /\ run' = [run EXCEPT ![p] = Loaded(mode)]
      /\ UNCHANGED <<files, outside, ghosts>>
  BY DEF BeginCheck, IInv, Memory
<1>2. \A i : Accounted(i)' <=> Accounted(i)
  BY <1>1, SameAccount DEF files, ghosts
<1>3. FilesAccount'
  BY <1>1, <1>2, AccountStays DEF NothingSkipped, FilesAccount, files, outside, ghosts
<1>4. /\ run'[p].pc = "collect"
      /\ run'[p].checks = LoadChecks(stateFile.checks)
         \/ run'[p].checks = Restore(LoadChecks(stateFile.checks), queueFile.events)
  BY <1>1 DEF Loaded
<1>5. now \in Nat /\ GoodChecks(stateFile.checks, now)
  BY WorldIs DEF FilesAgree, Consistent
<1>6. ASSUME NEW i, Remembers(run'[p].checks, i) PROVE Accounted(i)'
  <2>1. Remembers(stateFile.checks, i)
    BY <1>4, <1>5, <1>6, LoadedRemembers
  <2> QED BY <1>2, <2>1 DEF NothingSkipped, FilesAccount
<1> QED BY <1>3, <1>4, <1>6 DEF Accounts

\* Reading a page changes nothing that is remembered.
LEMMA CollectAccounts ==
  ASSUME IInv, NothingSkipped, NEW p \in Procs, Collect(p)
  PROVE  FilesAccount' /\ Accounts(run[p])'
PROOF
<1>1. /\ DOMAIN run = Procs /\ Formed(run[p]) /\ run[p].pc = "collect"
      /\ UNCHANGED <<files, outside, ghosts>>
  BY DEF Collect, At, IInv, Memory
<1>2. PICK page : Continue(p, [run[p] EXCEPT !.pc = "observe", !.page = page])
  BY DEF Collect
<1>3. run'[p].pc = "observe" /\ run'[p].checks = run[p].checks
  BY <1>1, <1>2 DEF Continue, Formed, CheckSteps, MemoryFields
<1>4. \A i : Accounted(i)' <=> Accounted(i)
  BY <1>1, SameAccount DEF files, ghosts
<1>5. FilesAccount'
  BY <1>1, <1>4, AccountStays DEF NothingSkipped, FilesAccount, files, outside, ghosts
<1> QED BY <1>1, <1>3, <1>4, <1>5 DEF Accounts, NothingSkipped

\* The results of a run report what it has read.
LEMMA ReportsPage ==
  ASSUME FilesAgree, PagesFollow, NEW p \in Procs, run[p].pc = "observe",
         NEW results, DOMAIN results = run[p].enabled,
         \A c \in run[p].enabled : results[c] \in PossibleResults(p, c)
  PROVE  Reports(results, run[p].enabled, run[p].page.entries)
PROOF
<1>1. run[p].enabled \subseteq Checks
  BY DEF FilesAgree, MemoriesAgree, Holds, CheckSteps
<1>2. /\ run[p].page.failed => run[p].page.entries = {}
      /\ run[p].page.entries # {} => JournalChecks \cap run[p].enabled # {}
  BY DEF PagesFollow, Holding, PageSteps, Follows
<1>3. ASSUME NEW c \in DOMAIN results
      PROVE  results[c].occurrence = IF c \in JournalChecks THEN run[p].page.entries ELSE {}
  BY <1>1, <1>2, ResultAnnounces
<1> QED BY <1>2, <1>3 DEF Reports

\* A check evaluates its results.
LEMMA CheckAccounts ==
  ASSUME NothingSkipped, NEW p \in Procs, run[p].pc = "observe",
         UNCHANGED <<queueFile, settled>>, run'[p].pc = "saveQueue",
         NEW read, read = run[p].page.entries, Same(run[p], run'[p]), run[p].pending = queueFile,
         NEW results, NEW outcomes, NEW t, Announces(run[p], run'[p], results, outcomes, t, read)
  PROVE  Accounts(run[p])'
PROOF
<1> DEFINE r == run[p]
           next == run'[p]
<1>0. /\ \A i \in read : Remembers(r.checks, i) \/ Mentions(Uncut(next), i)
      /\ \A i : Remembers(next.checks, i) => Remembers(r.checks, i) \/ i \in read
      /\ \A e \in Entries(queueFile) :
           e.event.check \in r.enabled /\ e.event.occurrence # {} => e \in Uncut(next)
  BY DEF Announces, Entries
<1>1. /\ next.enabled = r.enabled /\ next.page.entries = read
      /\ Renewed(r)' = Uncut(next) \cup Unretained(r)
  BY DEF Same, Renewed, Unretained, Entries
<1>2. ASSUME NEW i, Accounted(i) PROVE i \in settled \/ Mentions(Renewed(r)', i)
  <2>1. CASE Mentions(Entries(queueFile), i)
    <3>1. PICK e \in Entries(queueFile) : i \in e.event.occurrence
      BY <2>1 DEF Mentions
    <3>2. e \in Uncut(next) \/ e \in Unretained(r)
      BY <1>0, <3>1 DEF Unretained
    <3> QED BY <1>1, <3>1, <3>2 DEF Mentions
  <2> QED BY <1>2, <2>1 DEF Accounted
<1>3. \A i : Remembers(r.checks, i) => Accounted(i)
  BY DEF NothingSkipped, Accounts
<1>4. ASSUME NEW i \in read PROVE i \in settled \/ Mentions(Renewed(r)', i)
  <2>1. Mentions(Uncut(next), i) => Mentions(Renewed(r)', i)
    BY <1>1 DEF Mentions
  <2> QED BY <1>0, <1>2, <1>3, <2>1
<1>5. ASSUME NEW i, Accounted(i)' \/ i \in next.page.entries \/ Remembers(next.checks, i)
      PROVE  i \in settled' \/ Mentions(Renewed(r)', i)
  <2>1. Accounted(i) \/ i \in read
    BY <1>0, <1>1, <1>3, <1>5, SameAccount
  <2>2. i \in settled \/ Mentions(Renewed(r)', i)
    BY <1>2, <1>4, <2>1
  <2> QED BY <2>2
<1> HIDE DEF r, next
<1>6. next.pc = "saveQueue"
  BY DEF next
<1> QED BY <1>5, <1>6 DEF Accounts, r, next

\* The results of a run: a check announces what it has read, a baseline will accept it.
LEMMA ObserveAccounts ==
  ASSUME AgentAssumption, IInv, FilesAgree, PagesFollow, NothingSkipped, NEW p \in Procs, Observe(p)
  PROVE  FilesAccount' /\ Accounts(run[p])'
PROOF
<1> DEFINE r == run[p]
           t == now + 1
           read == run[p].page.entries
<1>1. /\ run[p].pc = "observe" /\ Holds(r, World) /\ Consistent(World)
      /\ UNCHANGED <<files, journal, ghosts>>
  BY DEF Observe, At, FilesAgree, MemoriesAgree
<1>2. PICK results : /\ DOMAIN results = r.enabled /\ WellTyped(results)
                     /\ \A c \in r.enabled : results[c] \in PossibleResults(p, c)
                     /\ Observed(p, results, t)
  BY ObserveIs
<1>3. run'[p] = Idle \/ Same(r, run'[p])
  BY ObserveIs
<1>4. Reports(results, r.enabled, read)
  BY <1>1, <1>2, ReportsPage
<1>5. \A i : Accounted(i)' <=> Accounted(i)
  BY <1>1, SameAccount DEF files, ghosts
<1>6. FilesAccount'
  BY <1>1, <1>5, AccountStays DEF NothingSkipped, FilesAccount, files, ghosts
<1>7. CASE r.mode = "dry-run" /\ run'[p] = Idle
  BY <1>6, <1>7, NothingToAccount DEF Idle
<1>8. CASE /\ r.mode = "baseline" /\ run'[p].pc = "saveState"
           /\ run'[p].checks = [c \in DOMAIN results |-> BaselineCheck(results[c], t)]
  <2>1. Same(r, run'[p])
    BY <1>3, <1>8 DEF Idle
  <2>2. ASSUME NEW c \in DOMAIN results, NEW i \in run'[p].checks[c].fingerprint PROVE i \in read
    <3>1. run'[p].checks[c] = BaselineCheck(results[c], t)
      BY <1>8
    <3>2. \A result : BaselineCheck(result, t).fingerprint = result.occurrence
      BY DEF BaselineCheck, NewCheck
    <3> QED BY <1>4, <2>2, <3>1, <3>2 DEF Reports
  <2>3. \A i : Remembers(run'[p].checks, i) => i \in read
    BY <1>8, <2>2 DEF Remembers
  <2> QED BY <1>6, <1>8, <2>1, <2>3 DEF Accounts, Same
<1>9. CASE /\ r.mode = "check" /\ run'[p].pc = "saveQueue"
           /\ \E outcomes : /\ Outcomes(outcomes, r.checks, results, t)
                            /\ Computes(run'[p], r, results, outcomes, t)
  <2>1. Same(r, run'[p])
    BY <1>3, <1>9 DEF Idle
  <2>2. PICK outcomes : /\ Outcomes(outcomes, r.checks, results, t)
                        /\ Computes(run'[p], r, results, outcomes, t)
    BY <1>9
  <2>3. /\ r.pending = World.queue /\ r.enabled \subseteq Checks
        /\ GoodChecks(r.checks, World.now) /\ t = World.now + 1
    BY <1>1, WorldIs DEF Holds, CheckSteps
  <2>4. Announces(r, run'[p], results, outcomes, t, read)
    <3> HIDE DEF r, t, read
    <3> QED BY ONLY AgentAssumption, <1>1, <1>2, <1>4, <2>2, <2>3, RunAnnounces
  <2>5. World.queue = queueFile
    BY WorldIs
  <2> QED BY <1>1, <1>6, <1>9, <2>1, <2>3, <2>4, <2>5, CheckAccounts DEF files, ghosts
<1> QED BY <1>2, <1>7, <1>8, <1>9 DEF Observed

\* Saving the queue accounts for all that the run has read and remembers.
LEMMA SaveQueueAccounts ==
  ASSUME IInv, NothingSkipped, NEW p \in Procs, SaveQueue(p)
  PROVE  FilesAccount' /\ Accounts(run[p])'
PROOF
<1> DEFINE r == run[p]
<1>1. /\ run[p].pc = "saveQueue" /\ Continue(p, [run[p] EXCEPT !.pc = "saveState"])
      /\ queueFile' = r.pending /\ delivered' = delivered \cap Entries(r.pending)
      /\ settled' = settled \cup UNION {entry.event.occurrence : entry \in r.overflow \cup Unretained(r)}
      /\ UNCHANGED <<stateFile, cursorFile, journal>>
  BY DEF SaveQueue, At, Unretained, outside
<1>2. /\ run'[p].pc = "saveState" /\ run'[p].checks = r.checks /\ run'[p].page = r.page
  BY <1>1, FieldsStay DEF CheckSteps
<1>3. ASSUME NEW i, i \in settled \/ Mentions(Renewed(r), i) PROVE Accounted(i)'
  <2>1. CASE i \in settled
    BY <1>1, <2>1 DEF Accounted
  <2>2. CASE Mentions(Renewed(r), i)
    <3>1. PICK e \in Renewed(r) : i \in e.event.occurrence
      BY <2>2 DEF Mentions
    <3>2. e \in ToSet(r.pending.events) \/ e \in r.overflow \cup Unretained(r)
      BY <3>1 DEF Renewed, Uncut
    <3> QED BY <1>1, <3>1, <3>2 DEF Accounted, Mentions, Entries
  <2> QED BY <1>3, <2>1, <2>2
<1>4. \A i : Accounted(i) \/ i \in r.page.entries \/ Remembers(r.checks, i) =>
             i \in settled \/ Mentions(Renewed(r), i)
  BY <1>1 DEF NothingSkipped, Accounts
<1>5. \A i : Accounted(i) \/ i \in r.page.entries \/ Remembers(r.checks, i) => Accounted(i)'
  BY <1>3, <1>4
<1>6. \A e \in delivered' : e.event.occurrence \subseteq settled'
  BY <1>1 DEF NothingSkipped, FilesAccount
<1>7. FilesAccount'
  BY <1>1, <1>5, <1>6, AccountStays DEF NothingSkipped
<1> QED BY <1>2, <1>5, <1>7 DEF Accounts

\* Saving the state accounts for what a baseline accepts.
LEMMA SaveStateAccounts ==
  ASSUME IInv, NothingSkipped, NEW p \in Procs, SaveState(p)
  PROVE  FilesAccount' /\ Accounts(run[p])'
PROOF
<1> DEFINE r == run[p]
<1>1. /\ run[p].pc = "saveState" /\ Continue(p, [run[p] EXCEPT !.pc = "saveCursor"])
      /\ stateFile'.checks = r.checks
      /\ settled' = IF r.mode = "baseline" THEN settled \cup r.page.entries ELSE settled
      /\ UNCHANGED <<queueFile, cursorFile, journal, delivered>>
  BY DEF SaveState, At, outside
<1>2. run'[p].pc = "saveCursor" /\ run'[p].page = r.page
  BY <1>1, FieldsStay DEF CheckSteps
<1>3. \A i : Accounted(i) => Accounted(i)'
  BY <1>1 DEF Accounted, Entries
<1>4. ASSUME NEW i, i \in r.page.entries \/ Remembers(r.checks, i) PROVE Accounted(i)'
  <2>1. Accounted(i) \/ (r.mode = "baseline" /\ i \in r.page.entries)
    BY <1>1, <1>4 DEF NothingSkipped, Accounts
  <2> QED BY <1>1, <1>3, <2>1 DEF Accounted
<1>5. FilesAccount'
  BY <1>1, <1>3, <1>4 DEF NothingSkipped, FilesAccount
<1> QED BY <1>2, <1>4, <1>5 DEF Accounts

\* The cursor moves over messages that are accounted for.
LEMMA SaveCursorAccounts ==
  ASSUME IInv, PagesFollow, NothingSkipped, NEW p \in Procs, SaveCursor(p)
  PROVE  FilesAccount' /\ Accounts(run[p])'
PROOF
<1> DEFINE page == run[p].page
<1>1. /\ run[p].pc = "saveCursor" /\ cursorFile' = IF page.cursor = NoCursor THEN cursorFile ELSE page.cursor
      /\ UNCHANGED <<stateFile, queueFile, outside, ghosts>>
  BY DEF SaveCursor, At, CursorAfter
<1>2. \A i : Accounted(i)' <=> Accounted(i)
  BY <1>1, SameAccount DEF ghosts
<1>3. Follows(page, run[p].enabled) /\ \A i \in page.entries : Accounted(i)
  BY <1>1 DEF PagesFollow, Holding, PageSteps, NothingSkipped, Accounts
<1>4. /\ cursorFile # NoCursor /\ cursorFile \in Int /\ DOMAIN journal \subseteq Int
      /\ \A i \in DOMAIN journal : i <= cursorFile => Accounted(i)
  BY DEF NothingSkipped, FilesAccount, IInv, CursorInJournal
<1>5. ASSUME NEW i \in DOMAIN journal, i <= cursorFile' PROVE Accounted(i)
  <2>1. CASE i <= cursorFile
    BY <1>4, <2>1
  <2>2. CASE cursorFile < i
    <3>1. page.cursor # NoCursor /\ i <= page.cursor
      BY <1>1, <1>4, <1>5, <2>2
    <3> QED BY <1>3, <1>4, <2>2, <3>1 DEF Follows
  <2> QED BY <1>4, <2>1, <2>2
<1>6. FilesAccount'
  BY <1>1, <1>2, <1>4, <1>5 DEF NothingSkipped, FilesAccount, outside, ghosts
<1>7. run'[p].pc \in {"idle", "send", "saveDelivered", "saveFailure"}
  BY Goes
<1> QED BY <1>6, <1>7, NothingToAccount

\* What the server is sent are the first entries of the queue file, and it takes them one
\* after the other or none of them.
Sent(batch, views) ==
  /\ batch \in Seq(QueueEntries)
  /\ Len(batch) <= Len(queueFile.events)
  /\ \A i \in 1 .. Len(batch) : batch[i] = queueFile.events[i]
  /\ AcceptedEach(views, batch) /\ Heard' = views[Len(batch)]
  /\ \A i \in 0 .. Len(batch) : Hears(views[i], batch, i)

\* One turn of the delivery, as far as the journal goes.
LEMMA SendIs ==
  ASSUME FilesAgree, NEW p \in Procs, Send(p)
  PROVE  /\ UNCHANGED <<files, outside>>
         /\ UNCHANGED Heard \/ \E batch, views : Sent(batch, views)
PROOF
<1> DEFINE r == run[p]
           events == queueFile.events
<1>1. /\ UNCHANGED <<files, outside>> /\ r.pc = "send" /\ Holds(r, World)
      /\ Consistent(World) /\ received \in [Checks -> Events \cup {Nothing}]
  BY DEF Send, At, FilesAgree, MemoriesAgree, Bounds
<1>2. PICK n \in 1 .. Len(r.pending.events) :
        UNCHANGED ghosts \/ ServerAccepts(SubSeq(r.pending.events, 1, n))
  BY DEF Send
<1>3. r.pending = queueFile
  BY <1>1, WorldIs DEF Holds
<1>4. CASE ServerAccepts(SubSeq(events, 1, n)) /\ n \in 1 .. Len(events)
  <2> DEFINE batch == SubSeq(events, 1, n)
  <2>1. events \in Seq(Queued(Events)) /\ Queued(Events) = QueueEntries
    BY <1>1, WorldIs DEF Consistent, GoodQueue, GoodEvents, Queued, QueueEntries
  <2>2. /\ batch \in Seq(QueueEntries) /\ Len(batch) = n /\ Len(batch) <= Len(events)
        /\ \A i \in 1 .. Len(batch) : batch[i] = events[i]
    BY <1>4, <2>1
  <2>3. ServerAccepts(batch)
    BY <1>4
  <2> HIDE DEF batch
  <2>4. PICK views : AcceptedEach(views, batch) /\ Heard' = views[Len(batch)]
    BY <1>1, <2>2, <2>3, AcceptedSteps
  <2>5. \A i \in 0 .. Len(batch) : Hears(views[i], batch, i)
    BY <1>1, <2>2, <2>4, HeardOneByOne
  <2>6. Sent(batch, views)
    BY <2>2, <2>4, <2>5 DEF Sent
  <2> QED BY <1>1, <2>6
<1> QED BY <1>1, <1>2, <1>3, <1>4 DEF ghosts, Heard

\* What the server has heard once it has taken a batch.
LEMMA SentIsHeard ==
  ASSUME NEW batch, NEW views, Sent(batch, views)
  PROVE  /\ \A x : x \in delivered' <=> x \in delivered \/ \E j \in 1 .. Len(batch) : x = batch[j]
         /\ \A x : x \in settled' <=>
              x \in settled \/ \E j \in 1 .. Len(batch) : x \in batch[j].event.occurrence
PROOF
<1>1. Hears(Heard', batch, Len(batch))
  BY DEF Sent
<1>2. Heard'.delivered = delivered' /\ Heard'.settled = settled'
  BY DEF Heard
<1> QED BY <1>1, <1>2 DEF Hears

\* What the server accepts is announced.
LEMMA SendAccounts ==
  ASSUME IInv, FilesAgree, NothingSkipped, NEW p \in Procs, Send(p)
  PROVE  FilesAccount' /\ Accounts(run[p])'
PROOF
<1>1. UNCHANGED <<files, outside>>
  BY SendIs
<1>2. /\ \A i : i \in settled => i \in settled'
      /\ \A e \in delivered' : e.event.occurrence \subseteq settled'
  <2>1. CASE UNCHANGED Heard
    BY <2>1 DEF Heard, NothingSkipped, FilesAccount
  <2>2. ASSUME NEW batch, NEW views, Sent(batch, views)
        PROVE  /\ \A i : i \in settled => i \in settled'
               /\ \A e \in delivered' : e.event.occurrence \subseteq settled'
    BY <2>2, SentIsHeard DEF NothingSkipped, FilesAccount
  <2> QED BY <2>1, <2>2, SendIs
<1>3. \A i : Accounted(i) => Accounted(i)'
  BY <1>1, <1>2 DEF Accounted, Entries, files
<1>4. FilesAccount'
  BY <1>1, <1>2, <1>3, AccountStays DEF NothingSkipped, files, outside
<1>5. run'[p].pc \in {"idle", "send", "saveDelivered", "saveFailure"}
  BY Goes
<1> QED BY <1>4, <1>5, NothingToAccount

\* Entries leave the queue file once they are announced.
LEMMA SaveDeliveredAccounts ==
  ASSUME IInv, FilesAgree, NothingSkipped, NEW p \in Procs, SaveDelivered(p)
  PROVE  FilesAccount' /\ Accounts(run[p])'
PROOF
<1>1. /\ delivered' \subseteq delivered /\ UNCHANGED <<stateFile, cursorFile, journal, settled>>
  BY DEF SaveDelivered, outside
<1>2. \A x \in Entries(queueFile) \ Entries(queueFile') : x \in delivered
  BY SaveDeliveredAgrees
<1>3. \A e \in delivered : e.event.occurrence \subseteq settled
  BY DEF NothingSkipped, FilesAccount
<1>4. ASSUME NEW i, Accounted(i) PROVE Accounted(i)'
  <2>1. CASE i \in settled
    BY <1>1, <2>1 DEF Accounted
  <2>2. ASSUME NEW e \in Entries(queueFile), i \in e.event.occurrence PROVE Accounted(i)'
    BY <1>1, <1>2, <1>3, <2>2 DEF Accounted, Mentions, Entries
  <2> QED BY <1>4, <2>1, <2>2 DEF Accounted, Mentions
<1>5. FilesAccount'
  BY <1>1, <1>3, <1>4, AccountStays DEF NothingSkipped
<1>6. run'[p].pc \in {"idle", "send", "saveDelivered", "saveFailure"}
  BY Goes
<1> QED BY <1>5, <1>6, NothingToAccount

\* A failed delivery, or a run that is cut short, changes nothing.
LEMMA SaveFailureAccounts ==
  ASSUME IInv, FilesAgree, NothingSkipped, NEW p \in Procs, SaveFailure(p) \/ Stop(p)
  PROVE  FilesAccount' /\ Accounts(run[p])'
PROOF
<1>1. /\ DOMAIN run = Procs /\ Leave(p)
      /\ UNCHANGED <<stateFile, cursorFile, journal, ghosts>>
  BY DEF SaveFailure, Stop, files, outside, IInv, Memory
<1>2. Entries(queueFile') = Entries(queueFile)
  BY SaveFailureAgrees DEF Stop, files
<1>3. \A i : Accounted(i)' <=> Accounted(i)
  BY <1>1, <1>2 DEF Accounted, ghosts, Entries
<1>4. FilesAccount'
  BY <1>1, <1>3, AccountStays DEF NothingSkipped, FilesAccount, ghosts
<1> QED BY <1>1, <1>4, NothingToAccount DEF Leave, Idle

\* Every step of a process accounts for the messages.
LEMMA StepAccounts ==
  ASSUME AgentAssumption, IInv, FilesAgree, JournalIsRead, PagesFollow, NothingSkipped,
         NEW p \in Procs, Step(p)
  PROVE  FilesAccount' /\ Accounts(run[p])'
PROOF
<1>1. ~RemoveState(p) /\ ~RemoveQueue(p) /\ ~RemoveCursor(p)
  BY DEF RemoveState, RemoveQueue, RemoveCursor, At, PagesFollow, Holding, CheckSteps
<1>2. CASE \E mode \in Modes \ {"reset"} : BeginCheck(p, mode)
  BY <1>2, BeginAccounts
<1>3. CASE Collect(p) \/ Observe(p)
  BY <1>3, CollectAccounts, ObserveAccounts
<1>4. CASE SaveQueue(p) \/ SaveState(p) \/ SaveCursor(p)
  BY <1>4, SaveQueueAccounts, SaveStateAccounts, SaveCursorAccounts
<1>5. CASE Send(p) \/ SaveDelivered(p) \/ SaveFailure(p) \/ Stop(p)
  BY <1>5, SendAccounts, SaveDeliveredAccounts, SaveFailureAccounts
<1> QED BY <1>1, <1>2, <1>3, <1>4, <1>5 DEF Step, JournalIsRead

\* Every step does.
LEMMA NextAccounts ==
  /\ AgentAssumption /\ JournalIsRead
  /\ IInv /\ FilesAgree /\ PagesFollow /\ NothingSkipped /\ [Next]_vars
  => NothingSkipped'
PROOF
<1> SUFFICES ASSUME AgentAssumption, JournalIsRead, IInv, FilesAgree, PagesFollow, NothingSkipped,
                    [Next]_vars
             PROVE  NothingSkipped'
  OBVIOUS
<1>1. ASSUME NEW p \in Procs, Step(p) PROVE NothingSkipped'
  <2>1. FilesAccount' /\ Accounts(run[p])'
    BY <1>1, StepAccounts
  <2>2. ASSUME NEW q \in Procs \ {p} PROVE Accounts(run[q])'
    <3>1. run'[q].pc = "idle"
      BY <1>1, <2>2, OthersIdle
    <3> QED BY <3>1, NothingToAccount
  <2> QED BY <2>1, <2>2 DEF NothingSkipped
<1>2. CASE Toggle \/ UNCHANGED vars
  BY <1>2 DEF Toggle, vars, files, outside, ghosts, NothingSkipped, FilesAccount, Accounts, Accounted,
              Renewed, Unretained, Uncut, Entries
<1>3. CASE LogKernelMessage
  <2>1. /\ UNCHANGED <<run, files, ghosts>> /\ journal' = Append(journal, now)
        /\ journal \in Seq(Nat) /\ now \in Nat /\ cursorFile \in Int /\ cursorFile <= Len(journal)
    BY <1>3 DEF LogKernelMessage, IInv, CursorInJournal
  <2>2. \A i \in DOMAIN journal' : i <= cursorFile => i \in DOMAIN journal
    BY <2>1
  <2>3. \A i : Accounted(i)' <=> Accounted(i)
    BY <2>1, SameAccount DEF files, ghosts
  <2>4. FilesAccount'
    BY <2>1, <2>2, <2>3 DEF files, ghosts, NothingSkipped, FilesAccount
  <2>5. ASSUME NEW q \in Procs PROVE Accounts(run[q])'
    BY <2>1, <2>3 DEF files, ghosts, NothingSkipped, Accounts, Renewed, Unretained, Uncut, Entries
  <2> QED BY <2>4, <2>5 DEF NothingSkipped
<1> QED BY <1>1, <1>2, <1>3 DEF Next

\* There are no messages to account for at first.
LEMMA InitAccounts == InitialCursor # NoCursor /\ Init => NothingSkipped
PROOF
<1> SUFFICES ASSUME InitialCursor # NoCursor, Init PROVE NothingSkipped
  OBVIOUS
<1>1. FilesAccount
  BY NoState DEF Init, FilesAccount, Remembers
<1>2. \A p \in Procs : run[p].pc = "idle"
  BY DEF Init, Idle
<1> QED BY <1>1, <1>2 DEF NothingSkipped, Accounts

\* Without a reset, with a cursor that journalctl accepts, every kernel message is announced,
\* queued, dropped on purpose or still to be read, wherever runs were cut short.
THEOREM NoMessageSkipped ==
  ASSUME InitialCursor # NoCursor, JournalIsRead
  PROVE  Spec => []NoEntrySkipped
PROOF
<1>1. Init => NothingSkipped
  BY InitAccounts
<1>2. IInv /\ FilesAgree /\ PagesFollow /\ NothingSkipped /\ [Next]_vars => NothingSkipped'
  BY NextAccounts, AgentAssumption
<1>3. IInv /\ NothingSkipped => NoEntrySkipped
  <2> SUFFICES ASSUME IInv, NothingSkipped PROVE NoEntrySkipped
    OBVIOUS
  <2>1. cursorFile # NoCursor /\ cursorFile \in Int /\ DOMAIN journal \subseteq Int
    BY DEF IInv, CursorInJournal, NothingSkipped, FilesAccount
  <2>2. ASSUME NEW i \in DOMAIN journal, ~(i > cursorFile)
        PROVE  \/ i \in settled
               \/ i \in UNION {entry.event.occurrence : entry \in Entries(queueFile)}
    <3>1. i <= cursorFile
      BY <2>1, <2>2
    <3> QED BY <3>1 DEF NothingSkipped, FilesAccount, Accounted, Mentions
  <2> QED BY <2>1, <2>2 DEF NoEntrySkipped
<1> QED BY <1>1, <1>2, <1>3, AlwaysFollow, PTL DEF Spec

-----------------------------------------------------------------------------
(* No kernel message is announced twice *)

\* Entries that announce different messages, none of which was announced before unless the
\* server has the entry already.
Apart(entries) ==
  /\ \A d, e \in entries : d # e => d.event.occurrence \cap e.event.occurrence = {}
  /\ \A e \in entries \ delivered : e.event.occurrence \cap settled = {}

\* A run that has saved what it read but not the cursor behind it.
Ahead(r) == r.pc = "saveCursor" \/ (r.pc = "saveState" /\ r.mode = "check")

\* A kernel message that no later run reads again.
Reached(r, i) == i \in Int /\ (i <= cursorFile \/ (Ahead(r) /\ i \in r.page.entries))

\* The queue a check is about to save repeats nothing, neither do the entries it drops.
SavesOnce(r) ==
  r.pc = "saveQueue" =>
    /\ Apart(Renewed(r))
    /\ \A i : Mentions(Renewed(r), i) => i \in Int /\ (i <= cursorFile \/ i \in r.page.entries)
    /\ Entries(r.pending) \cap (r.overflow \cup Unretained(r)) = {}

\* While p is the only process that runs.
Once(p) ==
  /\ Apart(Entries(queueFile))
  /\ \A i : Accounted(i) => Reached(run[p], i)
  /\ "occurrence" \notin surprises
  /\ SavesOnce(run[p])

NothingRepeated ==
  /\ Apart(Entries(queueFile))
  /\ \A i : Accounted(i) => i \in Int /\ (i <= cursorFile \/ \E p \in Procs : Reached(run[p], i))
  /\ "occurrence" \notin surprises
  /\ \A p \in Procs : SavesOnce(run[p])

\* Steps that change none of what was announced, and read nothing.
LEMMA OnceStays ==
  ASSUME NEW p \in Procs, Once(p), UNCHANGED <<queueFile, cursorFile, settled, delivered, surprises>>,
         \/ ~Ahead(run[p])
         \/ Ahead(run'[p]) /\ run'[p].page = run[p].page,
         run'[p].pc # "saveQueue"
  PROVE  Once(p)'
PROOF
<1>1. Apart(Entries(queueFile))' /\ "occurrence" \notin surprises'
  BY DEF Once, Apart, Entries
<1>2. ASSUME NEW i, Accounted(i)' PROVE Reached(run[p], i)'
  <2>1. Accounted(i)
    BY <1>2, SameAccount
  <2> QED BY <2>1 DEF Once, Reached
<1> QED BY <1>1, <1>2 DEF Once, SavesOnce

\* A check evaluates its results.
LEMMA CheckOnce ==
  ASSUME IInv, PagesFollow, \A c, d \in JournalChecks : c = d,
         NEW p \in Procs, Once(p), run[p].pc = "observe",
         UNCHANGED <<queueFile, cursorFile, settled, delivered, surprises>>, run'[p].pc = "saveQueue",
         NEW read, read = run[p].page.entries, Same(run[p], run'[p]), run[p].pending = queueFile,
         NEW results, NEW outcomes, NEW t, Announces(run[p], run'[p], results, outcomes, t, read)
  PROVE  Once(p)'
PROOF
<1> DEFINE r == run[p]
           next == run'[p]
           old == Entries(queueFile)
           all == Uncut(next) \cup Unretained(r)
<1>1. /\ next.enabled = r.enabled /\ next.page.entries = read /\ Renewed(r)' = all
      /\ Unretained(r)' = Unretained(r) /\ Unretained(r) \subseteq old
  BY DEF Same, Renewed, Unretained, Entries
<1>2. ASSUME NEW i, Accounted(i) PROVE i \in Int /\ i <= cursorFile
  BY <1>2 DEF Once, Reached, Ahead
<1>3. /\ cursorFile \in Int
      /\ \A i \in read : i \in Nat /\ cursorFile < i
  BY DEF PagesFollow, Holding, PageSteps, Follows, IInv, CursorInJournal
<1>4. ASSUME NEW e \in old, NEW i \in e.event.occurrence PROVE i \in Int /\ i <= cursorFile
  BY <1>2 DEF Accounted, Mentions
<1>5. ASSUME NEW x \in all
      PROVE  \/ x \in old
             \/ x.event.occurrence = {}
             \/ \E c \in JournalChecks : /\ x = Entry(EventAbout(results, outcomes, c), t)
                                         /\ x.event.occurrence = read
  BY <1>1 DEF Announces, Entries
<1>6. Apart(old)
  BY DEF Once
<1>7. ASSUME NEW i, i \in read PROVE ~(i \in Int /\ i <= cursorFile)
  BY <1>3, <1>7
<1> HIDE DEF r, next, old, all
<1>8. ASSUME NEW d \in all, NEW e \in all, d # e PROVE d.event.occurrence \cap e.event.occurrence = {}
  <2> SUFFICES ASSUME NEW i, i \in d.event.occurrence, i \in e.event.occurrence PROVE FALSE
    OBVIOUS
  <2>1. CASE d \in old /\ e \in old
    BY <1>6, <1>8, <2>1 DEF Apart
  <2>2. CASE d \in old /\ e \notin old
    BY <1>4, <1>5, <1>7, <2>2
  <2>3. CASE d \notin old /\ e \in old
    BY <1>4, <1>5, <1>7, <2>3
  <2>4. CASE d \notin old /\ e \notin old
    <3>1. PICK c \in JournalChecks : d = Entry(EventAbout(results, outcomes, c), t)
      BY <1>5, <2>4
    <3>2. PICK c2 \in JournalChecks : e = Entry(EventAbout(results, outcomes, c2), t)
      BY <1>5, <2>4
    <3>3. c = c2
      OBVIOUS
    <3> QED BY <1>8, <3>1, <3>2, <3>3
  <2> QED BY <2>1, <2>2, <2>3, <2>4
<1>9. ASSUME NEW e \in all, e \notin delivered PROVE e.event.occurrence \cap settled = {}
  <2>1. CASE e \in old
    BY <1>6, <1>9, <2>1 DEF Apart
  <2>2. CASE e \notin old
    <3>1. \A i \in settled : i \in Int /\ i <= cursorFile
      BY <1>2 DEF Accounted
    <3> QED BY <1>5, <1>7, <2>2, <3>1
  <2> QED BY <2>1, <2>2
<1>10. Apart(Renewed(r))'
  BY <1>1, <1>8, <1>9 DEF Apart, r
<1>11. ASSUME NEW i, Mentions(all, i) PROVE i \in Int /\ (i <= cursorFile \/ i \in read)
  <2>1. PICK e \in all : i \in e.event.occurrence
    BY <1>11 DEF Mentions
  <2> QED BY <1>3, <1>4, <1>5, <2>1
<1>12. Entries(next.pending) \cap (next.overflow \cup Unretained(r)) = {}
  BY DEF Announces, Uncut, Unretained, Entries, r, next
<1>13. SavesOnce(r)'
  BY <1>1, <1>10, <1>11, <1>12 DEF SavesOnce, Entries, r, next
<1>14. Apart(Entries(queueFile))' /\ "occurrence" \notin surprises'
  BY DEF Once, Apart, Entries
<1>15. \A i : Accounted(i)' => Reached(r, i)'
  BY <1>2, SameAccount DEF Reached
<1> QED BY <1>13, <1>14, <1>15 DEF Once, r

\* The results of a run: only a check announces anything, and that no earlier one has.
LEMMA ObserveOnce ==
  ASSUME AgentAssumption, IInv, FilesAgree, PagesFollow, \A c, d \in JournalChecks : c = d,
         NEW p \in Procs, Once(p), Observe(p)
  PROVE  Once(p)'
PROOF
<1> DEFINE r == run[p]
           t == now + 1
           read == run[p].page.entries
<1>1. /\ run[p].pc = "observe" /\ Holds(r, World) /\ Consistent(World)
      /\ UNCHANGED <<queueFile, cursorFile, settled, delivered, surprises>>
  BY DEF Observe, At, FilesAgree, MemoriesAgree, files, ghosts
<1>2. PICK results : /\ DOMAIN results = r.enabled /\ WellTyped(results)
                     /\ \A c \in r.enabled : results[c] \in PossibleResults(p, c)
                     /\ Observed(p, results, t)
  BY ObserveIs
<1>3. run'[p] = Idle \/ Same(r, run'[p])
  BY ObserveIs
<1>4. Reports(results, r.enabled, read)
  BY <1>1, <1>2, ReportsPage
<1>5. CASE run'[p].pc # "saveQueue"
  BY <1>1, <1>5, OnceStays DEF Ahead
<1>6. CASE /\ r.mode = "check" /\ run'[p].pc = "saveQueue"
           /\ \E outcomes : /\ Outcomes(outcomes, r.checks, results, t)
                            /\ Computes(run'[p], r, results, outcomes, t)
  <2>1. Same(r, run'[p])
    BY <1>3, <1>6 DEF Idle
  <2>2. PICK outcomes : /\ Outcomes(outcomes, r.checks, results, t)
                        /\ Computes(run'[p], r, results, outcomes, t)
    BY <1>6
  <2>3. /\ r.pending = World.queue /\ r.enabled \subseteq Checks
        /\ GoodChecks(r.checks, World.now) /\ t = World.now + 1
    BY <1>1, WorldIs DEF Holds, CheckSteps
  <2>4. Announces(r, run'[p], results, outcomes, t, read)
    <3> HIDE DEF r, t, read
    <3> QED BY ONLY AgentAssumption, <1>1, <1>2, <1>4, <2>2, <2>3, RunAnnounces
  <2>5. World.queue = queueFile
    BY WorldIs
  <2> QED BY <1>1, <1>6, <2>1, <2>3, <2>4, <2>5, CheckOnce
<1> QED BY <1>2, <1>5, <1>6 DEF Observed, Idle

\* What is saved and what is dropped have nothing in common.
LEMMA SaveQueueOnce ==
  ASSUME IInv, FilesAgree, NEW p \in Procs, Once(p), SaveQueue(p)
  PROVE  Once(p)'
PROOF
<1> DEFINE r == run[p]
           kept == Entries(r.pending)
           gone == r.overflow \cup Unretained(r)
<1>1. /\ run[p].pc = "saveQueue" /\ Continue(p, [run[p] EXCEPT !.pc = "saveState"])
      /\ queueFile' = r.pending /\ delivered' = delivered \cap kept
      /\ settled' = settled \cup UNION {entry.event.occurrence : entry \in gone}
      /\ UNCHANGED <<cursorFile, surprises>>
  BY DEF SaveQueue, At, Unretained
<1>2. /\ run'[p].pc = "saveState" /\ run'[p].mode = "check" /\ run'[p].page = r.page
  <2>1. r.mode = "check"
    BY <1>1 DEF FilesAgree, MemoriesAgree, Holds
  <2> QED BY <1>1, <2>1, FieldsStay DEF CheckSteps
<1>3. /\ Apart(Renewed(r)) /\ kept \cap gone = {} /\ Renewed(r) = kept \cup gone
      /\ \A i : Mentions(Renewed(r), i) => i \in Int /\ (i <= cursorFile \/ i \in r.page.entries)
  BY <1>1 DEF Once, SavesOnce, Renewed, Uncut, Entries
<1>4. \A i \in settled : i \in Int /\ i <= cursorFile
  BY <1>1 DEF Once, Accounted, Reached, Ahead
<1>5. Entries(queueFile') = kept
  BY <1>1 DEF Entries
<1> HIDE DEF r, kept, gone
<1>6. Apart(Entries(queueFile))'
  <2>1. \A d, e \in kept : d # e => d.event.occurrence \cap e.event.occurrence = {}
    BY <1>3 DEF Apart
  <2>2. ASSUME NEW e \in kept, e \notin delivered' PROVE e.event.occurrence \cap settled' = {}
    <3>1. e.event.occurrence \cap settled = {}
      BY <1>1, <1>3, <2>2 DEF Apart
    <3>2. \A d \in gone : d.event.occurrence \cap e.event.occurrence = {}
      BY <1>3 DEF Apart
    <3> QED BY <1>1, <3>1, <3>2
  <2>3. Entries(queueFile)' = kept
    BY <1>5 DEF Entries
  <2> QED BY <2>1, <2>2, <2>3 DEF Apart
<1>7. ASSUME NEW i, Accounted(i)' PROVE Reached(r, i)'
  <2>1. i \in settled \/ Mentions(Renewed(r), i)
    <3>1. i \in settled' \/ Mentions(kept, i)
      BY <1>5, <1>7 DEF Accounted, Entries
    <3> QED BY <1>1, <1>3, <3>1 DEF Mentions
  <2> QED BY <1>1, <1>2, <1>3, <1>4, <2>1 DEF Reached, Ahead, r
<1> QED BY <1>1, <1>2, <1>6, <1>7 DEF Once, SavesOnce, r

\* A baseline accepts what was not announced before.
LEMMA SaveStateOnce ==
  ASSUME IInv, FilesAgree, PagesFollow, NEW p \in Procs, Once(p), SaveState(p)
  PROVE  Once(p)'
PROOF
<1> DEFINE r == run[p]
<1>1. /\ run[p].pc = "saveState" /\ Continue(p, [run[p] EXCEPT !.pc = "saveCursor"])
      /\ settled' = IF r.mode = "baseline" THEN settled \cup r.page.entries ELSE settled
      /\ UNCHANGED <<queueFile, cursorFile, delivered, surprises>>
  BY DEF SaveState, At
<1>2. run'[p].pc = "saveCursor" /\ run'[p].page = r.page
  BY <1>1, FieldsStay DEF CheckSteps
<1>3. CASE r.mode = "check"
  BY <1>1, <1>2, <1>3, OnceStays DEF Ahead
<1>4. CASE r.mode = "baseline"
  <2>1. /\ cursorFile \in Int
        /\ \A i \in r.page.entries : i \in Nat /\ cursorFile < i
    BY <1>1 DEF PagesFollow, Holding, PageSteps, Follows, IInv, CursorInJournal
  <2>2. ASSUME NEW i, Accounted(i) PROVE i \in Int /\ i <= cursorFile
    BY <1>1, <1>4, <2>2 DEF Once, Reached, Ahead
  <2>3. ASSUME NEW e \in Entries(queueFile), e \notin delivered
        PROVE  e.event.occurrence \cap settled' = {}
    <3>1. \A i \in e.event.occurrence : i \in Int /\ i <= cursorFile
      BY <2>2 DEF Accounted, Mentions
    <3>2. e.event.occurrence \cap r.page.entries = {}
      BY <2>1, <3>1
    <3>3. e.event.occurrence \cap settled = {}
      BY <2>3 DEF Once, Apart
    <3> QED BY <1>1, <1>4, <3>2, <3>3
  <2>4. Apart(Entries(queueFile))'
    BY <1>1, <2>3 DEF Once, Apart, Entries
  <2>5. ASSUME NEW i, Accounted(i)' PROVE Reached(r, i)'
    <3>1. Accounted(i) \/ i \in r.page.entries
      BY <1>1, <1>4, <2>5 DEF Accounted, Entries
    <3> QED BY <1>1, <1>2, <2>1, <2>2, <3>1 DEF Reached, Ahead
  <2> QED BY <1>1, <1>2, <2>4, <2>5 DEF Once, SavesOnce
<1>5. r.mode \in {"check", "baseline"}
  BY <1>1 DEF FilesAgree, MemoriesAgree, Holds
<1> QED BY <1>3, <1>4, <1>5

\* The cursor passes all that was announced.
LEMMA SaveCursorOnce ==
  ASSUME IInv, JournalIsRead, PagesFollow, NEW p \in Procs, Once(p), SaveCursor(p)
  PROVE  Once(p)'
PROOF
<1> DEFINE page == run[p].page
<1>1. /\ run[p].pc = "saveCursor"
      /\ cursorFile' = IF page.cursor = NoCursor THEN cursorFile ELSE page.cursor
      /\ UNCHANGED <<queueFile, settled, delivered, surprises>>
  BY DEF SaveCursor, At, CursorAfter, ghosts
<1>2. /\ \A i \in page.entries : i \in Nat /\ cursorFile < i /\ i <= page.cursor
      /\ cursorFile \in Int /\ page.cursor \in Int /\ NoCursor <= cursorFile
      /\ page.cursor = NoCursor \/ page.cursor >= cursorFile
  BY <1>1 DEF PagesFollow, Holding, PageSteps, Follows, IInv, CursorInJournal, PagesInOrder, InOrder,
              JournalIsRead
<1>3. run'[p].pc \in {"idle", "send", "saveDelivered", "saveFailure"}
  BY Goes
<1>4. Apart(Entries(queueFile))' /\ "occurrence" \notin surprises'
  BY <1>1 DEF Once, Apart, Entries
<1>5. ASSUME NEW i, Accounted(i)' PROVE Reached(run[p], i)'
  <2>1. i \in Int /\ (i <= cursorFile \/ i \in page.entries)
    BY <1>1, <1>5, SameAccount DEF Once, Reached
  <2>2. i <= cursorFile'
    BY <1>1, <1>2, <2>1 DEF NoCursor
  <2> QED BY <2>1, <2>2 DEF Reached
<1> QED BY <1>3, <1>4, <1>5 DEF Once, SavesOnce

\* The server is not told of a message again.
LEMMA SentOnce ==
  ASSUME NEW batch, NEW views, Sent(batch, views), ToSet(batch) \subseteq Entries(queueFile),
         Apart(Entries(queueFile)), "occurrence" \notin surprises
  PROVE  "occurrence" \notin surprises'
PROOF
<1> DEFINE n == Len(batch)
           S == {i \in Nat : i <= n => "occurrence" \notin views[i].surprises}
<1>1. n \in Nat /\ \A i \in 1 .. n : batch[i] \in Entries(queueFile)
  BY DEF Sent, ToSet
<1>2. 0 \in S
  BY DEF Sent, AcceptedEach, Heard
<1>3. ASSUME NEW i \in Nat, i \in S PROVE i + 1 \in S
  <2> SUFFICES ASSUME i + 1 <= n PROVE "occurrence" \notin views[i + 1].surprises
    OBVIOUS
  <2> DEFINE e == batch[i + 1]
             view == views[i]
  <2>1. i + 1 \in 1 .. n /\ (i + 1) - 1 = i /\ i \in 0 .. n /\ i <= n
    BY <1>1
  <2>2. /\ "occurrence" \notin view.surprises /\ views[i + 1] = Accept(view, e)
        /\ Hears(view, batch, i) /\ e \in Entries(queueFile)
        /\ \A j \in 1 .. i : batch[j] \in Entries(queueFile)
    BY <1>1, <1>3, <2>1 DEF Sent, AcceptedEach
  <2> HIDE DEF e, view
  <2>3. ASSUME e \notin view.delivered PROVE e.event.occurrence \cap view.settled = {}
    <3>1. e \notin delivered /\ \A j \in 1 .. i : e # batch[j]
      BY <2>2, <2>3 DEF Hears
    <3>2. e.event.occurrence \cap settled = {}
      BY <2>2, <3>1 DEF Apart
    <3>3. \A j \in 1 .. i : e.event.occurrence \cap batch[j].event.occurrence = {}
      BY <2>2, <3>1 DEF Apart
    <3> QED BY <2>2, <3>2, <3>3 DEF Hears
  <2>4. e \notin view.delivered /\ e.event.kind = "occurrence" => ~OutOfTurn(view, e.event)
    BY <2>3 DEF OutOfTurn
  <2>5. views[i + 1].surprises =
          view.surprises \cup (IF e \notin view.delivered /\ OutOfTurn(view, e.event)
                               THEN {e.event.kind} ELSE {})
    BY <2>2 DEF Accept
  <2> QED BY <2>2, <2>4, <2>5
<1> HIDE DEF S
<1>4. Nat \subseteq S
  BY <1>2, <1>3, Induction
<1>5. "occurrence" \notin views[n].surprises
  BY <1>1, <1>4 DEF S
<1> QED BY <1>5 DEF Sent, Heard

\* A delivery announces what is queued.
LEMMA SendOnce ==
  ASSUME IInv, FilesAgree, NEW p \in Procs, Once(p), Send(p)
  PROVE  Once(p)'
PROOF
<1>1. run[p].pc = "send" /\ UNCHANGED <<files, outside>>
  <2>1. run[p].pc = "send"
    BY DEF Send, At
  <2> QED BY <2>1, SendIs
<1>2. run'[p].pc \in {"idle", "send", "saveDelivered", "saveFailure"}
  BY Goes
<1>3. CASE UNCHANGED Heard
  BY <1>1, <1>2, <1>3, OnceStays DEF Heard, Ahead, files
<1>4. CASE \E batch, views : Sent(batch, views)
  <2>0. PICK batch, views : Sent(batch, views)
    BY <1>4
  <2>1. \A j \in 1 .. Len(batch) : batch[j] \in Entries(queueFile)
    <3>1. queueFile.events \in Seq(Queued(Events))
      BY WorldIs DEF FilesAgree, Consistent, GoodQueue, GoodEvents
    <3> QED BY <2>0, <3>1 DEF Sent, Entries, ToSet
  <2>2. ToSet(batch) \subseteq Entries(queueFile)
    BY <2>0, <2>1 DEF Sent, ToSet
  <2>3. "occurrence" \notin surprises'
    BY <2>0, <2>2, SentOnce DEF Once
  <2>4. /\ \A x : x \in delivered' <=> x \in delivered \/ \E j \in 1 .. Len(batch) : x = batch[j]
        /\ \A x : x \in settled' <=>
             x \in settled \/ \E j \in 1 .. Len(batch) : x \in batch[j].event.occurrence
    BY <2>0, SentIsHeard
  <2>5. Apart(Entries(queueFile))'
    <3>1. ASSUME NEW e \in Entries(queueFile), e \notin delivered'
          PROVE  e.event.occurrence \cap settled' = {}
      <4>1. e \notin delivered /\ \A j \in 1 .. Len(batch) : e # batch[j]
        BY <2>4, <3>1
      <4>2. /\ e.event.occurrence \cap settled = {}
            /\ \A j \in 1 .. Len(batch) : e.event.occurrence \cap batch[j].event.occurrence = {}
        BY <2>1, <4>1 DEF Once, Apart
      <4> QED BY <2>4, <4>2
    <3> QED BY <1>1, <3>1 DEF Once, Apart, Entries, files
  <2>6. ASSUME NEW i, Accounted(i)' PROVE Reached(run[p], i)'
    <3>1. Accounted(i)
      BY <1>1, <2>1, <2>4, <2>6 DEF Accounted, Mentions, Entries, files
    <3> QED BY <1>1, <3>1 DEF Once, Reached, Ahead, files
  <2> QED BY <1>2, <2>3, <2>5, <2>6 DEF Once, SavesOnce
<1>5. UNCHANGED Heard \/ \E batch, views : Sent(batch, views)
  BY SendIs
<1> QED BY ONLY <1>3, <1>4, <1>5

\* What the delivery leaves of the queue.
LEMMA DeliveryOnce ==
  ASSUME IInv, FilesAgree, NEW p \in Procs, Once(p), SaveDelivered(p) \/ SaveFailure(p)
  PROVE  Once(p)'
PROOF
<1>1. run'[p].pc \in {"idle", "send", "saveDelivered", "saveFailure"}
  BY Goes DEF SaveFailure, Leave, Idle, IInv, Memory
<1>2. /\ Entries(queueFile') \subseteq Entries(queueFile)
      /\ \A e \in Entries(queueFile') : e \in delivered => e \in delivered'
      /\ UNCHANGED <<cursorFile, settled, surprises>> /\ ~Ahead(run[p])
  <2>1. CASE SaveFailure(p)
    BY <2>1, SaveFailureAgrees DEF SaveFailure, At, ghosts, Ahead
  <2>2. CASE SaveDelivered(p)
    <3>1. /\ queueFile' = run[p].pending /\ delivered' = delivered \cap Entries(queueFile')
          /\ UNCHANGED <<cursorFile, settled, surprises>> /\ ~Ahead(run[p])
      BY <2>2 DEF SaveDelivered, At, Ahead, Entries
    <3>2. Acknowledged(run[p], World) /\ World.queue = queueFile
          /\ queueFile.events \in Seq(Queued(Events))
      BY <2>2, WorldIs DEF SaveDelivered, At, FilesAgree, MemoriesAgree, Holds, Consistent, GoodQueue,
                           GoodEvents
    <3>3. PICK n \in 0 .. Len(queueFile.events) :
            run[p].pending.events = SubSeq(queueFile.events, n + 1, Len(queueFile.events))
      BY <3>2 DEF Acknowledged
    <3>4. ToSet(run[p].pending.events) \subseteq ToSet(queueFile.events)
      BY <3>2, <3>3 DEF ToSet
    <3> QED BY <3>1, <3>4 DEF Entries
  <2> QED BY <2>1, <2>2
<1>3. Apart(Entries(queueFile))'
  BY <1>2 DEF Once, Apart, Entries
<1>4. ASSUME NEW i, Accounted(i)' PROVE Reached(run[p], i)'
  <2>1. Accounted(i)
    BY <1>2, <1>4 DEF Accounted, Mentions, Entries
  <2> QED BY <1>2, <2>1 DEF Once, Reached
<1> QED BY <1>1, <1>2, <1>3, <1>4 DEF Once, SavesOnce

\* Every step of a process that is not cut short.
LEMMA StepOnce ==
  ASSUME AgentAssumption, IInv, FilesAgree, JournalIsRead, PagesFollow,
         \A c, d \in JournalChecks : c = d, NEW p \in Procs, Once(p), Step(p), ~Stop(p)
  PROVE  Once(p)'
PROOF
<1>1. ~RemoveState(p) /\ ~RemoveQueue(p) /\ ~RemoveCursor(p)
  BY DEF RemoveState, RemoveQueue, RemoveCursor, At, PagesFollow, Holding, CheckSteps
<1>2. CASE \E mode \in Modes \ {"reset"} : BeginCheck(p, mode)
  <2>1. /\ run[p].pc = "idle" /\ run'[p].pc = "collect"
        /\ UNCHANGED <<queueFile, cursorFile, settled, delivered, surprises>>
    BY <1>2 DEF BeginCheck, At, Loaded, IInv, Memory, files, ghosts
  <2> QED BY <2>1, OnceStays DEF Ahead
<1>3. CASE Collect(p)
  <2>1. /\ run[p].pc = "collect" /\ run'[p].pc = "observe"
        /\ UNCHANGED <<queueFile, cursorFile, settled, delivered, surprises>>
    BY <1>3 DEF Collect, At, Continue, IInv, Memory, Formed, files, ghosts
  <2> QED BY <2>1, OnceStays DEF Ahead
<1>4. CASE Observe(p) \/ SaveQueue(p) \/ SaveState(p) \/ SaveCursor(p)
  BY <1>4, ObserveOnce, SaveQueueOnce, SaveStateOnce, SaveCursorOnce
<1>5. CASE Send(p) \/ SaveDelivered(p) \/ SaveFailure(p)
  BY <1>5, SendOnce, DeliveryOnce
<1> QED BY <1>1, <1>2, <1>3, <1>4, <1>5 DEF Step, JournalIsRead

\* Unless a run is cut short.
OnceSoFar == stops \in Nat /\ (stops = 0 => NothingRepeated)

\* Every step of the system.
LEMMA NextOnce ==
  /\ AgentAssumption /\ JournalIsRead /\ \A c, d \in JournalChecks : c = d
  /\ IInv /\ FilesAgree /\ PagesFollow /\ OnceSoFar /\ [Next]_vars
  => OnceSoFar'
PROOF
<1> SUFFICES ASSUME AgentAssumption, JournalIsRead, \A c, d \in JournalChecks : c = d,
                    IInv, FilesAgree, PagesFollow, OnceSoFar, [Next]_vars
             PROVE  OnceSoFar'
  OBVIOUS
<1>1. ASSUME NEW p \in Procs, Step(p), ~Stop(p) PROVE OnceSoFar'
  <2>1. stops' = stops
    BY <1>1 DEF Step, BeginCheck, BeginReset, Collect, Observe, SaveQueue, SaveState, SaveCursor, Send,
                SaveDelivered, SaveFailure, RemoveState, RemoveQueue, RemoveCursor, outside
  <2>2. ASSUME NothingRepeated PROVE NothingRepeated'
    <3>1. \A q \in Procs \ {p} : run[q].pc = "idle" /\ run'[q].pc = "idle"
      BY <1>1, OthersIdle
    <3>2. Once(p)
      <4>1. ASSUME NEW i, Accounted(i) PROVE Reached(run[p], i)
        BY <2>2, <3>1, <4>1 DEF NothingRepeated, Reached, Ahead
      <4> QED BY <2>2, <4>1 DEF NothingRepeated, Once
    <3>3. Once(p)'
      BY <1>1, <3>2, StepOnce
    <3>4. \A q \in Procs : SavesOnce(run[q])'
      BY <3>1, <3>3 DEF Once, SavesOnce
    <3>5. \A i : Accounted(i)' => i \in Int /\ (i <= cursorFile' \/ \E q \in Procs : Reached(run[q], i)')
      BY <3>3 DEF Once, Reached
    <3> QED BY <3>3, <3>4, <3>5 DEF Once, NothingRepeated
  <2> QED BY <2>1, <2>2 DEF OnceSoFar
<1>2. ASSUME NEW p \in Procs, Stop(p) PROVE OnceSoFar'
  BY <1>2 DEF Stop, OnceSoFar
<1>3. CASE Toggle \/ LogKernelMessage \/ UNCHANGED vars
  <2>1. UNCHANGED <<run, files, ghosts, stops>>
    BY <1>3 DEF Toggle, LogKernelMessage, vars, outside
  <2>2. NothingRepeated => NothingRepeated'
    BY <2>1 DEF files, ghosts, NothingRepeated, Apart, Accounted, Reached, SavesOnce, Renewed, Unretained,
                Uncut, Entries
  <2> QED BY <2>1, <2>2 DEF OnceSoFar
<1> QED BY <1>1, <1>2, <1>3 DEF Next

\* Unless a run is cut short between its saves, one event announces a kernel message, when
\* one check reads the journal, nobody runs reset-state and journalctl accepts the cursor.
THEOREM MessagesAnnouncedOnce ==
  ASSUME JournalIsRead, \A c, d \in JournalChecks : c = d
  PROVE  Spec => []KernelMessagesAnnouncedOnce
PROOF
<1>1. Init => OnceSoFar
  BY DEF Init, OnceSoFar, NothingRepeated, Apart, Accounted, Mentions, SavesOnce, Idle, Entries, EmptyQueue,
         ToSet
<1>2. IInv /\ FilesAgree /\ PagesFollow /\ OnceSoFar /\ [Next]_vars => OnceSoFar'
  BY NextOnce, AgentAssumption
<1>3. OnceSoFar => KernelMessagesAnnouncedOnce
  BY DEF OnceSoFar, NothingRepeated, KernelMessagesAnnouncedOnce
<1> QED BY <1>1, <1>2, <1>3, AlwaysFollow, PTL DEF Spec
================================================================================
