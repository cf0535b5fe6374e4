--------------------------- MODULE MC_DurableTask ---------------------------
(* A task with a dedupe key, a task without one and a task that an older   *)
(* release left behind.  Two tasks of one key are in MC_DatasetGeneration. *)
EXTENDS DurableTask

CONSTANTS T1, U, L, SomeKey

MCKey == [t \in Tasks |-> IF t = T1 THEN SomeKey ELSE NoKey]
=============================================================================
