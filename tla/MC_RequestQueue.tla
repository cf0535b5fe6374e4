-------------------------- MODULE MC_RequestQueue --------------------------
(* Requests of one Conversation for TLC; the second one comes from a       *)
(* channel, where it may steer from the start but not later.               *)
EXTENDS RequestQueue

MCSource == [i \in Requests |-> IF i = 2 THEN "channel" ELSE "chat"]
=============================================================================
