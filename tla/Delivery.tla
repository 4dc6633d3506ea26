------------------------------- MODULE Delivery -------------------------------
(***************************************************************************)
(* From a check to the reader: runs of the agent one after the other, the  *)
(* commands they execute and their deadline (CheckRun), the queue file     *)
(* (Queue), the batches a run sends (notify.BuildBatch), the answers of    *)
(* the server (gotify.Send) and the time until the next attempt.           *)
(* Implements Outbox.                                                      *)
(*                                                                         *)
(* Between any two steps the run may Stop: a crash, the time limit of the  *)
(* service, a save that fails.  Tools hang and recover between runs, the   *)
(* server answers as it likes, the clock may be set back.                  *)
(*                                                                         *)
(* Abstractions.                                                           *)
(*   - Time is relative: now is always 0 and the queue's next attempt      *)
(*     moves towards the past, one unit (the timer's interval) per run.    *)
(*   - What the engine makes of the results is any set of alerts about     *)
(*     checks that failed or that need no command; Agent has the engine.   *)
(*     All checks stay enabled, so RetainChecks keeps everything.          *)
(*   - The seconds are counted from one run to the next only: until the     *)
(*     end of a run since the time it saved, and on to the next one.       *)
(*   - A message is a size; of its parts only the event lines, one header  *)
(*     per section and the frame around them count.                        *)
(***************************************************************************)
EXTENDS Integers, Queue, CheckRun, CheckResults, FiniteSetsExt

CONSTANTS
  Alerting,        \* the checks that may raise an alert, in order
  Section,         \* "CRITICAL", "WARNING" or "RECOVERY" for each of them
  Size,            \* the size of its line in a message
  HeaderSize,      \* the size of a section's header
  FrameSize,       \* the size of what every message ends with
  MaxMessageBytes, \* the largest message (64 KiB)
  SendTimeout,     \* gotify.timeout, in seconds
  Interval,        \* agent.interval, in seconds
  AnswerTimes,     \* the seconds the answering commands may take together:
                   \* each is only bounded by its own limit
  HangingTools,    \* the tools that may hang
  MaxAttempts,     \* bound on the failed deliveries that are counted
  MaxSetbacks      \* bound on the units the clock is set back in all

\* Titles and messages are cut (256 and 4096 bytes) before they are queued and
\* escaping makes a byte at most five: one event always fits in a message.
ASSUME DeliveryAssumption ==
  /\ Alerting \in Seq(STRING) /\ Size \in [ToSet(Alerting) -> Nat]
  /\ {HeaderSize, FrameSize, MaxMessageBytes} \subseteq Nat
  /\ \A c \in ToSet(Alerting) :
       FrameSize + HeaderSize + Size[c] <= MaxMessageBytes
  /\ {SendTimeout, Interval} \subseteq Nat /\ AnswerTimes \subseteq Nat
  /\ IsFiniteSet(HangingTools)
  /\ MaxAttempts \in Nat \ {0} /\ Backoff(MaxAttempts) = MaxBackoff
  /\ MaxSetbacks \in Nat

VARIABLES
  queueFile, \* queue.json
  phase,     \* the point the run has reached
  pending,   \* the queue in memory
  left,      \* the seconds left of the run
  since,     \* ghost: the seconds the last run went on after the time it
             \* saved, Missed if a run since then was cut short or late
  hung,      \* the tools that hang
  setbacks,  \* the units the clock was set back so far
  told,      \* ghost: the alerts in the file the server has stored
  excused,   \* ghost: one of them was stored unnoticed, the answer being lost
             \* or the run cut short
  pause,     \* ghost: the units to wait after the failures saved since the
             \* last news or success, 0 without one
  waited     \* ghost: the units since the last of them, up to MaxBackoff

ghosts == <<told, excused>>
spacing == <<pause, waited>>
vars == <<queueFile, phase, pending, left, since, hung, setbacks, ghosts, spacing>>

Missed == -1
Alert(c) == [check |-> c, kind |-> "problem"]
Checks(events) == [i \in DOMAIN events |-> events[i].event.check]
Measured == ToSet(Alerting) \ CommandChecks

Init ==
  /\ queueFile = EmptyQueue /\ pending = EmptyQueue
  /\ phase = "idle" /\ left = 0 /\ since = Missed
  /\ hung = {} /\ setbacks = 0
  /\ told = {} /\ excused = FALSE
  /\ pause = 0 /\ waited = 0

-----------------------------------------------------------------------------
(* Time *)

Slack == 60      \* AccuracySec and RandomizedDelaySec of the timer
TimeLimit == 120 \* TimeoutStartSec of the service

\* A queue that waits has a next attempt; one that does not has Go's zero time.
Later(queue, units) ==
  IF queue.attempts = 0 THEN queue
  ELSE [queue EXCEPT !.nextAttemptAt = IF @ - units < -MaxSetbacks
                                       THEN -MaxSetbacks ELSE @ - units]

\* The next run comes, whatever the clock says: who waits has waited for longer.
UnitPasses ==
  /\ waited' = IF pause = 0 THEN 0 ELSE Min({waited + 1, MaxBackoff})
  /\ UNCHANGED pause

\* The clock is set back: an attempt that was due may not be any more.
SetBack ==
  /\ phase = "idle"
  /\ setbacks < MaxSetbacks /\ setbacks' = setbacks + 1
  /\ queueFile' = Later(queueFile, -1)
  /\ UNCHANGED <<phase, pending, left, since, hung, ghosts, spacing>>

HangOrRecover ==
  /\ phase = "idle"
  /\ hung' \in SUBSET HangingTools
  /\ UNCHANGED <<queueFile, phase, pending, left, since, setbacks, ghosts, spacing>>

-----------------------------------------------------------------------------
(* Checking *)

\* The alerts of a run, in order.
Raised(alerts) ==
  LET raised[i \in 0 .. Len(Alerting)] ==
        IF i = 0 THEN <<>>
        ELSE IF Alerting[i] \in alerts THEN Append(raised[i - 1], Alert(Alerting[i]))
        ELSE raised[i - 1]
  IN raised[Len(Alerting)]

\* A run up to its saves: it raises alerts, and goes on to deliver if it may.
Check ==
  /\ phase = "idle"
  /\ \E answering \in AnswerTimes :
       /\ ~Expired(hung, answering)
       /\ \E alerts \in SUBSET (ToSet(Alerting) \cap
                                (Measured \cup FailedChecks(hung, answering))) :
            LET queue == Add(Later(queueFile, 1), Raised(alerts), 0)
                kept == told \cap ToSet(Checks(queue.events))
            IN /\ queueFile' = queue
               /\ told' = kept /\ excused' = (excused /\ kept # {})
               /\ IF alerts \subseteq ToSet(Checks(queueFile.events))
                  THEN UnitPasses ELSE pause' = 0 /\ waited' = 0
               /\ IF Ready(queue, 0)
                  THEN /\ phase' = "send" /\ pending' = queue
                       /\ left' = Deadline - Elapsed(hung, answering, Len(Commands))
                  ELSE UNCHANGED <<phase, pending, left>>
  /\ since' = 0
  /\ UNCHANGED <<hung, setbacks>>

\* A run whose time is up after the checks: nothing is evaluated or delivered.
GiveUp ==
  /\ phase = "idle"
  /\ \E answering \in AnswerTimes : Expired(hung, answering)
  /\ phase' = "late"
  /\ queueFile' = Later(queueFile, 1)
  /\ since' = Missed
  /\ UnitPasses
  /\ UNCHANGED <<pending, left, hung, setbacks, ghosts>>

\* A run that fails or is killed before it has saved anything.
FailEarly ==
  /\ phase = "idle"
  /\ queueFile' = Later(queueFile, 1)
  /\ since' = Missed
  /\ UnitPasses
  /\ UNCHANGED <<phase, pending, left, hung, setbacks, ghosts>>

-----------------------------------------------------------------------------
(* Delivering *)

\* notify.Build: the length of the message about these events.
BodySize(events) ==
  LET sections == {Section[c] : c \in ToSet(Checks(events))}
  IN FrameSize + HeaderSize * Cardinality(sections)
       + MapThenSumSet(LAMBDA i : Size[events[i].event.check], DOMAIN events)

Fits(events, n) == BodySize(SubSeq(events, 1, n)) <= MaxMessageBytes

\* Mutant of BatchCount: the event that exceeds the limit is sent, too.
BatchWithOneMore(events) ==
  LET fitting == {n \in 0 .. Len(events) : \A m \in 1 .. n : Fits(events, m)}
  IN IF Max(fitting) < Len(events) THEN Max(fitting) + 1 ELSE Max(fitting)

\* notify.BuildBatch: how many events go into the next message.
BatchCount(events) ==
  Max({n \in 0 .. Len(events) : \A m \in 1 .. n : Fits(events, m)})

\* What may come of a request: whether Gotify stored the message, the class of
\* the status, "none" without an answer, and what the body holds.  Only Gotify
\* sends the identifier of a stored message with a success.
Answers ==
  {a \in [stored : BOOLEAN, status : {"none", "2xx", "other"}, body : {"id", "other"}] :
     /\ a.status = "none" => a.body = "other"
     /\ a.status = "2xx" /\ a.body = "id" => a.stored}

\* Mutant of IsAcknowledged: any successful answer acknowledges the message.
IsSuccess(answer) == answer.status = "2xx"

IsAcknowledged(answer) == answer.status = "2xx" /\ answer.body = "id"

\* gotify.Send fails without a request for a message that is too long, and when
\* the time of the run ends first, though the server may have it by then.
Succeeds(requested, answer, took) ==
  requested /\ IsAcknowledged(answer) /\ took < left

\* One message of deliverQueued.
Send(answer, took) ==
  /\ phase = "send"
  /\ \E count \in {BatchCount(pending.events)} :
       LET requested == Fits(pending.events, count)
           stores == requested /\ answer.stored
           succeeds == Succeeds(requested, answer, took)
           batch == ToSet(Checks(SubSeq(pending.events, 1, count)))
           spent == Min({took, left})
       IN /\ told' = IF stores THEN told \cup batch ELSE told
          /\ left' = left - spent /\ since' = since + spent
          /\ IF succeeds
             THEN /\ phase' = "acknowledged"
                  /\ pending' = MarkDelivered(pending, count)
             ELSE /\ phase' = "failed"
                  /\ pending' = [MarkFailure(pending, 0) EXCEPT
                                   !.attempts = IF @ > MaxAttempts THEN MaxAttempts ELSE @]
          /\ excused' = (excused \/ (stores /\ ~succeeds))
  /\ UNCHANGED <<queueFile, hung, setbacks, spacing>>

\* The next message follows at once, while there is one.
SaveAcknowledgement ==
  /\ phase = "acknowledged"
  /\ queueFile' = pending
  /\ LET kept == told \cap ToSet(Checks(pending.events))
     IN told' = kept /\ excused' = (excused /\ kept # {})
  /\ IF pending.events # <<>>
     THEN phase' = "send" /\ UNCHANGED <<pending, left>>
     ELSE phase' = "idle" /\ pending' = EmptyQueue /\ left' = 0
  /\ pause' = 0 /\ waited' = 0
  /\ UNCHANGED <<since, hung, setbacks>>

Leave == phase' = "idle" /\ pending' = EmptyQueue /\ left' = 0

SaveFailure ==
  /\ phase = "failed"
  /\ queueFile' = pending
  /\ Leave
  /\ pause' = IF pause = 0 THEN 1 ELSE Min({2 * pause, MaxBackoff})
  /\ waited' = 0
  /\ UNCHANGED <<since, hung, setbacks, ghosts>>

\* The end of the process, with or without reason: a crash, or systemd's limit
\* when the run hangs.
Stop ==
  /\ phase # "idle"
  /\ Leave
  /\ since' \in {Missed} \cup {since + left + TimeLimit - Deadline : p \in {phase} \ {"late"}}
  /\ excused' = (excused \/ phase = "acknowledged")
  /\ UNCHANGED <<queueFile, hung, setbacks, told, spacing>>

Next ==
  \/ Check \/ GiveUp \/ FailEarly
  \/ \E answer \in Answers, took \in {0, SendTimeout} : Send(answer, took)
  \/ SaveAcknowledgement \/ SaveFailure \/ Stop
  \/ SetBack \/ HangOrRecover

-----------------------------------------------------------------------------
(* Fairness: the timer starts a run again and again, of those with several   *)
(* hung tools infinitely many are followed by one with at most one, the      *)
(* commands that answer do so in time for a run again and again, the         *)
(* server does not refuse every message for ever, and crashes do not hit     *)
(* every save of an acknowledgement.                                         *)

OneToolHangs == HangOrRecover /\ Cardinality(hung') <= 1

SendSucceeds == \E answer \in Answers : IsAcknowledged(answer) /\ Send(answer, 0)

Fairness ==
  /\ WF_vars(Stop)
  /\ SF_vars(OneToolHangs) /\ SF_vars(Check)
  /\ SF_vars(SendSucceeds) /\ SF_vars(SaveAcknowledgement)

Spec == Init /\ [][Next]_vars /\ Fairness

-----------------------------------------------------------------------------
(* Properties *)

TypeOK ==
  /\ queueFile \in [events : Seq([event : {Alert(c) : c \in ToSet(Alerting)}, createdAt : {0}]),
                    attempts : 0 .. MaxAttempts,
                    nextAttemptAt : -MaxSetbacks .. MaxBackoff + MaxSetbacks]
  /\ Len(queueFile.events) <= MaxEvents
  /\ phase \in {"idle", "late", "send", "acknowledged", "failed"}
  /\ left \in 0 .. Deadline /\ since \in {Missed} \cup 0 .. TimeLimit
  /\ hung \subseteq HangingTools
  /\ setbacks \in 0 .. MaxSetbacks
  /\ told \subseteq ToSet(Checks(queueFile.events))
  /\ {pause, waited} \subseteq 0 .. MaxBackoff

\* A command killed because the run's deadline passed says nothing about its
\* check: an alert raised about a check that runs commands is about a tool that
\* hangs by itself, for all the run had to wait for another.
NoBlameForTheDeadline ==
  [][\A c \in CommandChecks :
       c \in ToSet(Checks(queueFile'.events)) \ ToSet(Checks(queueFile.events)) =>
         \E command \in ToSet(Commands) : c \in command.checks /\ command.tool \in hung]_vars

\* A run that comes when the timer says so, however long this one's checks and
\* the last one's deliveries take, does not alert that the agent has not run
\* for long: intervals from 145 seconds on leave room for both.
OnTimeIsFresh ==
  phase = "idle" /\ since # Missed =>
    \A answering \in AnswerTimes :
      LET spent == Elapsed(hung, answering, Len(Commands) - Len(Services))
      IN Expired(hung, answering)
           \/ FreshnessResult(since + Interval + Slack + spent, Interval) = Ok

\* The reader is told twice only for a reason: an answer that was lost or a run
\* cut short before it saved the acknowledgement.
NoNeedlessRepeat == told # {} /\ phase # "acknowledged" => excused

\* A server that fails is left alone for longer and longer: when deliveries
\* failed one after the other and that was saved, the next request comes after 5
\* minutes, doubled for each failure but the first, up to the longest backoff.
\* Only an alert that was not queued shortens the wait: not one that is raised
\* again while it is queued, a clock that is set back or a run cut short.
RetriesAreSpaced == [][phase = "idle" /\ phase' = "send" => waited' >= pause']_vars

InOutbox ==
  INSTANCE Outbox WITH Alerts <- ToSet(Alerting), Capacity <- MaxEvents,
                       pending <- Checks(queueFile.events), told <- told

\* The queue delivers as an outbox does: in order, nothing forgotten untold but
\* by overflow, whatever the server answers and wherever a run is cut short.
OutboxSafety == InOutbox!Safety

\* Every alert leaves the queue: through backoff that each new alert resets, a
\* clock set back, and a tool that hangs for ever.
EveryAlertLeaves == InOutbox!Liveness
================================================================================
