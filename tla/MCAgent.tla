------------------------------- MODULE MCAgent -------------------------------
(* Instances of Agent for TLC. *)
EXTENDS Agent

CONSTANTS p1, p2

OneProc == {p1}
TwoProcs == {p1, p2}

\* An ordinary check such as memory.available, and one whose failures are
\* immediately CRITICAL, such as a service.
Memory == <<"memory">>
MemoryAndService == <<"memory", "service">>
Kernel == <<"kernel">>
KernelOnly == {"kernel"}
MemoryAndQueue == <<"memory", "queue">>
QueueOnly == {"queue"}

Symmetry == Permutations(TwoProcs)

None == {}
NoFile == NoCursor

\* Available memory above, at and below thresholds of 20 and 10 percent; a
\* service that runs, and one of which systemctl says nothing.
ResultsOfChecks ==
  [memory |-> {MemoryResult(Reading(n), [warning |-> 20, critical |-> 10])
                 : n \in {50, 20, 5}},
   service |-> {ServiceResult([ran |-> TRUE, output |-> "active"]), ServiceResult(NotRun)}]

CheckOnly == {"check"}
CheckAndBaseline == {"check", "baseline"}
EveryMode == AllModes
FailedOrLong == {"failed", "backlog"}
===============================================================================
