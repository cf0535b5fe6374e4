------------------------- MODULE MC_KnowledgeFile -------------------------
(* One file, the task that ingests it and a task that indexes it again.    *)
EXTENDS KnowledgeFile

CONSTANTS T1, T2, F

MCKey == [t \in Tasks |-> NoKey]

MCOps == [t \in Tasks |-> IF t = T1 THEN {"add", "parse", "index"} ELSE {"index"}]

MCFilesOf == [t \in Tasks |-> Files]
=============================================================================
