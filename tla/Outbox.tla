-------------------------------- MODULE Outbox --------------------------------
(***************************************************************************)
(* What the delivery of alerts promises, without runs, files, retries or   *)
(* clocks: alerts are posted in order, told from the oldest on, and        *)
(* forgotten once told.  Only an outbox that is full forgets an alert      *)
(* nobody was told of, the oldest first.  Delivery implements it.          *)
(***************************************************************************)
EXTENDS Naturals, Sequences, SequencesExt

CONSTANTS
  Alerts,    \* what can be posted
  Capacity   \* the most alerts the outbox holds

VARIABLES
  pending,   \* the alerts not forgotten yet, without repetition, oldest first
  told       \* those of them the reader has seen

vars == <<pending, told>>

Init == pending = <<>> /\ told = {}

First(n) == {pending[i] : i \in 1 .. n}

\* An outbox that is full forgets its oldest alerts, told or not.
Post(new) ==
  LET all == pending \o new
      kept == IF Len(all) > Capacity
              THEN SubSeq(all, Len(all) - Capacity + 1, Len(all)) ELSE all
  IN /\ pending' = kept
     /\ told' = told \cap ToSet(kept)

\* The reader may see an alert more than once.
Tell(n) ==
  /\ told' = told \cup First(n)
  /\ UNCHANGED pending

Forget(n) ==
  /\ First(n) \subseteq told
  /\ pending' = SubSeq(pending, n + 1, Len(pending))
  /\ told' = told \ First(n)

Next ==
  \/ \E new \in SetToAllKPermutations(Alerts \ ToSet(pending)) : Post(new)
  \/ \E n \in 1 .. Len(pending) : Tell(n) \/ Forget(n)

Safety == Init /\ [][Next]_vars

\* Every alert is told or, when newer ones fill the outbox, given up.
Liveness == \A a \in Alerts : a \in ToSet(pending) ~> a \notin ToSet(pending)

Spec == Safety /\ Liveness
================================================================================
