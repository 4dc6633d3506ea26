------------------------------- MODULE AtomicFile -------------------------------
(***************************************************************************)
(* What the agent relies on when it saves a file: a call installs its      *)
(* content as a whole or reports an error and changes nothing, and a power *)
(* cut leaves the present content or one that was never settled away.      *)
(* SecureFile implements it with system calls.                             *)
(***************************************************************************)
CONSTANTS
  Calls,    \* the calls that replace the file, each with a content of its own
  Original  \* the content before them

VARIABLES
  value,     \* whose content a reader finds
  fallbacks, \* whose content a power cut may leave
  outcome    \* what became of each call

vars == <<value, fallbacks, outcome>>

Init ==
  /\ value = Original
  /\ fallbacks = {Original}
  /\ outcome = [c \in Calls |-> "pending"]

Install(c) ==
  /\ outcome[c] = "pending"
  /\ outcome' = [outcome EXCEPT ![c] = "installed"]
  /\ value' = c
  /\ fallbacks' = fallbacks \cup {c}

Refuse(c) ==
  /\ outcome[c] = "pending"
  /\ outcome' = [outcome EXCEPT ![c] = "failed"]
  /\ UNCHANGED <<value, fallbacks>>

Settle == fallbacks' = {value} /\ UNCHANGED <<value, outcome>>

Revert ==
  /\ value' \in fallbacks
  /\ fallbacks' = {value'}
  /\ UNCHANGED outcome

Next ==
  \/ \E c \in Calls : Install(c) \/ Refuse(c)
  \/ Settle
  \/ Revert

Spec == Init /\ [][Next]_vars
================================================================================
