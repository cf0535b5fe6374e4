------------------------ MODULE MC_DatasetGeneration ------------------------
(* One dataset, the task that generates it and the task that resumes it.   *)
EXTENDS DatasetGeneration

CONSTANTS T1, T2, D

MCKey == [t \in Tasks |-> D]
=============================================================================
