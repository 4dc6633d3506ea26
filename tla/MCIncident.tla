------------------------------ MODULE MCIncident ------------------------------
(* Instances of Incident for TLC: an ordinary check and a journal check. *)
EXTENDS Incident

DiskLimit == [warning |-> 85, critical |-> 95]

\* Results with and without immediate ones, at both severities.
OrdinaryInputs ==
  {UsageResult({Reading(n)}, DiskLimit) : n \in {50, 85, 95}}
    \cup {LoadResult(Reading(n), [warning |-> 2, critical |-> 4]) : n \in {1, 4}}
    \cup {FreshnessResult(age, 5) : age \in {7, 20}}

\* The journal: nothing new, unreadable, or the entries of one page.
JournalInputs == {Ok, Unknown, Result("CRITICAL", TRUE, {1}), Result("CRITICAL", TRUE, {2})}

OneOrTwo == {1, 2}
================================================================================
