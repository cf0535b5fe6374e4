---------------------------- MODULE MC_AgentRun ----------------------------
(* Small execution trees for TLC: a chat run A, the subagent run S that it *)
(* starts, and the run R that resumes it in the same thread.  A            *)
(* configuration chooses which of them exist.                              *)
EXTENDS AgentRun

CONSTANTS A, R, S

MCKind ==
  [r \in Runs |-> IF r = S THEN "subagent" ELSE IF r = R THEN "resume" ELSE "chat"]

MCCreator == [r \in Runs |-> IF r = A THEN NoRun ELSE A]

Exist(r) == r \in Runs /\ status[r] # "absent"

(* Small families instead of everything at once: A alone with every retry, *)
(* or A with its subagent or with the run that resumes it, one attempt     *)
(* each.                                                                   *)
RetriesOrTwo ==
  /\ ~(Exist(R) /\ Exist(S))
  /\ Exist(R) \/ Exist(S) => \A r \in Runs : last[r] <= 1
=============================================================================
