------------------------------- MODULE Lifecycle -------------------------------
(***************************************************************************)
(* What the agent promises about the alerts of one check, in the words of  *)
(* README.md line 83: an incident sends one problem alert, at most one     *)
(* escalation from WARNING to CRITICAL and one recovery; a later failure   *)
(* is a new incident.  Incident implements it for every ordinary check.    *)
(***************************************************************************)
CONSTANT NotifyRecovery

VARIABLES
  open,  \* the severity of the open incident, "none" if there is none
  said   \* the alert of the last step, "none", or "dropped" by an operator

vars == <<open, said>>

Severities == {"WARNING", "CRITICAL"}

Init == open = "none" /\ said = "none"

Open(severity) == open = "none" /\ open' = severity /\ said' = "problem"

Escalate == open = "WARNING" /\ open' = "CRITICAL" /\ said' = "escalation"

Remind == open # "none" /\ open' = open /\ said' = "reminder"

Close ==
  /\ open # "none"
  /\ open' = "none"
  /\ said' = IF NotifyRecovery THEN "recovery" ELSE "none"

Quiet == open' = open /\ said' = "none"

\* A baseline, a reset or a disabled check ends the incident without a word.
Drop == open' = "none" /\ said' = "dropped"

Next ==
  \/ \E severity \in Severities : Open(severity)
  \/ Escalate
  \/ Remind
  \/ Close
  \/ Quiet
  \/ Drop

Spec == Init /\ [][Next]_vars
================================================================================
