------------------------ MODULE MC_KnowledgeGraph ------------------------
(* A build and a reconciliation; two files that mention the same entity.   *)
EXTENDS KnowledgeGraph

CONSTANTS B, C, F, G, E

MCMode == [j \in Jobs |-> IF j = B THEN "failed" ELSE "all_vectors"]

MCRecordsOf == [f \in Files |-> {E}]

(* Three families instead of everything at once: F alone with two builds,  *)
(* each of which may outlive its job; F with two builds and something      *)
(* taken away; F and G with one build before and while F is deleted.       *)
SmallFamilies ==
  /\ chunks = {G} => removals = 1
  /\ purge[G] = "none"
  /\ unsettled = {} \/ G \notin chunks
  /\ removals = 1 => \A j \in Jobs : InFlight(j) => Owns(j)
  /\ G \in chunks \/ unsettled # {} =>
       /\ state[C] = "absent"
       /\ InFlight(B) => Owns(B) /\ vstatus[E] # "overdue"

(* Workers die where one build is on its own.                              *)
FewDeaths ==
  /\ SmallFamilies
  /\ state[C] # "absent" =>
       \A j \in Jobs : Lost(j) = {} /\ batch[j].phase # "broken"
=============================================================================
