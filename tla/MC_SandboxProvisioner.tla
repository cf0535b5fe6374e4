----------------------- MODULE MC_SandboxProvisioner -----------------------
(* Sandboxes of one user and two threads that serve requests.              *)
EXTENDS SandboxProvisioner

CONSTANTS S1, S2, C1, C2

Busy == Cardinality({p \in Procs : call[p] # NoCall})

(* Of the first container, three threads may be busy at once; while there  *)
(* is a second one, or a pin that was leaked, two.                         *)
FewBusy ==
  Busy <= IF leaked # {} \/ \E s \in Sandboxes : made[s] > 1 THEN 2 ELSE 3

MCUidOf == [s \in Sandboxes |-> "uid"]
=============================================================================
