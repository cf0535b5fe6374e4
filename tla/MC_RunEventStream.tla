------------------------- MODULE MC_RunEventStream -------------------------
(* One run, one page, and a stream that takes a few events: a third one    *)
(* only for a top-level run, whose end waits for a cleanup, while nothing  *)
(* has expired and no reset is late, but that of a page which has settled. *)
EXTENDS RunEventStream

ThreeOfTopLevel ==
  Len(log) = 3 =>
    /\ run.top
    /\ first = 1
    /\ page.from = 0
    /\ late = 0 \/ (late = 1 /\ page.view = "settled")
=============================================================================
