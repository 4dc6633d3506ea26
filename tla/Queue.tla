--------------------------------- MODULE Queue ---------------------------------
(***************************************************************************)
(* The delivery queue of internal/queue as pure operators on a queue       *)
(* record.  Agent loads, changes and saves such records.                   *)
(*                                                                         *)
(* A queued entry is the event and the time it was queued.  An event's     *)
(* fingerprint is a hash of all its fields (engine.newEvent), so equal     *)
(* fingerprints are equal events.  The 1 MiB limit drops the oldest events *)
(* like the limit on their number and is folded into MaxEvents.            *)
(***************************************************************************)
EXTENDS Naturals, Sequences, SequencesExt

CONSTANTS
  MaxEvents,   \* the most events the queue holds (100)
  MaxBackoff   \* the longest delay between two deliveries (6h), in units of 5m

ASSUME QueueAssumption == MaxEvents \in Nat \ {0} /\ MaxBackoff \in Nat \ {0}

Immediately == 0

EmptyQueue == [events |-> <<>>, attempts |-> 0, nextAttemptAt |-> Immediately]

Entry(event, now) == [event |-> event, createdAt |-> now]

\* The position of the last event of a check, 0 if it has none.
LastIndex(events, id) ==
  SelectLastInSeq(events, LAMBDA entry : entry.event.check = id)

\* Mutant of Trim: a full queue refuses the newest events.
TrimNewest(events) ==
  IF Len(events) > MaxEvents THEN SubSeq(events, 1, MaxEvents) ELSE events

Trim(events) ==
  IF Len(events) > MaxEvents
  THEN SubSeq(events, Len(events) - MaxEvents + 1, Len(events))
  ELSE events

\* An event is news unless the queue ends with the same event for its check, or,
\* for a kernel event, holds it anywhere.
IsNews(events, incoming) ==
  LET last == LastIndex(events, incoming.check)
  IN /\ last # 0 => events[last].event # incoming
     /\ incoming.kind = "occurrence" =>
          \A i \in DOMAIN events : events[i].event # incoming

\* A reminder or an escalation takes the place of the alert it updates, which
\* keeps its time; every other event goes to the end.
AddOne(events, incoming, now) ==
  LET last == LastIndex(events, incoming.check)
      updates == /\ last # 0
                 /\ incoming.kind \in {"reminder", "escalation"}
                 /\ events[last].event.kind \notin {"recovery", "occurrence"}
  IN IF ~IsNews(events, incoming) THEN events
     ELSE IF updates THEN [events EXCEPT ![last].event = incoming]
     ELSE Append(events, Entry(incoming, now))

\* The events of a run are added one after the other.
AddAll(events, incoming, now) ==
  LET after[i \in 0 .. Len(incoming)] ==
        IF i = 0 THEN events ELSE AddOne(after[i - 1], incoming[i], now)
  IN after[Len(incoming)]

\* Mutant of Add: an alert that is queued already is taken for news.
AddAlwaysResets(queue, incoming, now) ==
  LET added == AddAll(queue.events, incoming, now)
  IN IF incoming = <<>> THEN [queue EXCEPT !.events = Trim(@)]
     ELSE [events |-> Trim(added), attempts |-> 0, nextAttemptAt |-> Immediately]

\* News makes the whole queue deliverable at once.
Add(queue, incoming, now) ==
  LET added == AddAll(queue.events, incoming, now)
  IN IF added = queue.events THEN [queue EXCEPT !.events = Trim(@)]
     ELSE [events |-> Trim(added), attempts |-> 0, nextAttemptAt |-> Immediately]

Ready(queue, now) == queue.events # <<>> /\ now >= queue.nextAttemptAt

\* Mutant of Backoff: the delay has no limit.
UnlimitedBackoff(attempts) == 2 ^ (attempts - 1)

\* 5 minutes, doubled for every failure but the first until it has reached the
\* limit, and at most the limit.
Backoff(attempts) ==
  LET delay[i \in 0 .. attempts - 1] ==
        IF i = 0 THEN 1
        ELSE IF delay[i - 1] < MaxBackoff THEN 2 * delay[i - 1] ELSE delay[i - 1]
  IN IF delay[attempts - 1] > MaxBackoff THEN MaxBackoff ELSE delay[attempts - 1]

MarkFailure(queue, now) ==
  [queue EXCEPT !.attempts = @ + 1,
                !.nextAttemptAt = now + Backoff(queue.attempts + 1)]

\* Mutants of MarkDelivered: the queue is cleared after the first batch, the last
\* event of the batch stays.
MarkAllDelivered(queue, n) == EmptyQueue
MarkAllButLast(queue, n) ==
  [EmptyQueue EXCEPT !.events = SubSeq(queue.events, n, Len(queue.events))]

\* The first n events were delivered.
MarkDelivered(queue, n) ==
  [EmptyQueue EXCEPT !.events = SubSeq(queue.events, n + 1, Len(queue.events))]

\* Mutant of RetainChecks: one disabled check empties the queue.
RetainAllOrNothing(queue, active) ==
  IF \E i \in DOMAIN queue.events : queue.events[i].event.check \notin active
  THEN EmptyQueue ELSE queue

\* The entries about active checks, in their order.
Retained(events, active) ==
  LET kept[i \in 0 .. Len(events)] ==
        IF i = 0 THEN <<>>
        ELSE IF events[i].event.check \in active THEN Append(kept[i - 1], events[i])
        ELSE kept[i - 1]
  IN kept[Len(events)]

\* Events of checks that were not run are dropped.
RetainChecks(queue, active) ==
  LET kept == Retained(queue.events, active)
  IN IF kept = <<>> THEN EmptyQueue ELSE [queue EXCEPT !.events = kept]
================================================================================
