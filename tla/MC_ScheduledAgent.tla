------------------------- MODULE MC_ScheduledAgent -------------------------
(* Jobs of one user and two invocations that may dispatch at a time.       *)
EXTENDS ScheduledAgent

CONSTANTS J, W1, W2
=============================================================================
