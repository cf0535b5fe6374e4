----------------------------- MODULE OneShotJob -----------------------------
(***************************************************************************)
(* What the Durable Tasks promise to the code that enqueues one: a job is  *)
(* started at most once and only while there is a slot, it ends once, a    *)
(* cancellation that was asked for keeps it from succeeding, and a result  *)
(* that is there stays until it is deleted.  Nothing is said of workers,   *)
(* leases, messages or attempts: DurableTask implements this module.       *)
(***************************************************************************)
EXTENDS Naturals, FiniteSets

CONSTANTS
  Jobs,    \* everything that may be enqueued
  Leftover, \* jobs of an older release, waiting or running at the start
  Slots    \* how many jobs may run at a time

VARIABLES
  state,   \* "absent", "pending", "running", a result, or "deleted"
  asked,   \* a cancellation was asked for
  starts   \* how often the job was started

jobVars == <<state, asked, starts>>

Results == {"success", "failed", "cancelled"}

JobInit ==
  /\ state \in [Jobs -> {"absent", "pending", "running"}]
  /\ asked \in [Jobs -> BOOLEAN]
  /\ starts = [j \in Jobs |-> 0]
  /\ \A j \in Jobs \ Leftover : state[j] = "absent" /\ ~asked[j]

Submit(j) ==
  /\ state[j] = "absent"
  /\ state' = [state EXCEPT ![j] = "pending"]
  /\ UNCHANGED <<asked, starts>>

(* Started once, and only when a slot is free.                             *)
Start(j) ==
  /\ state[j] = "pending"
  /\ starts[j] = 0
  /\ Cardinality({i \in Jobs : state[i] = "running"}) < Slots
  /\ state' = [state EXCEPT ![j] = "running"]
  /\ starts' = [starts EXCEPT ![j] = 1]
  /\ UNCHANGED asked

(* A job that waits is cancelled at once.                                  *)
AskToStop(j) ==
  /\ state[j] \in {"pending", "running"}
  /\ asked' = [asked EXCEPT ![j] = TRUE]
  /\ state' = [state EXCEPT ![j] = IF @ = "pending" THEN "cancelled" ELSE @]
  /\ UNCHANGED starts

(* A job succeeds only if it runs and nobody asked it to stop, and it is   *)
(* cancelled only if somebody did.  It may fail at any time.               *)
End(j, r) ==
  /\ state[j] = "running" \/ (state[j] = "pending" /\ r # "success")
  /\ r = "success" => ~asked[j]
  /\ r = "cancelled" => asked[j]
  /\ state' = [state EXCEPT ![j] = r]
  /\ UNCHANGED <<asked, starts>>

Delete(j) ==
  /\ state[j] \in Results
  /\ state' = [state EXCEPT ![j] = "deleted"]
  /\ UNCHANGED <<asked, starts>>

JobNext ==
  \E j \in Jobs :
    \/ Submit(j)
    \/ Start(j)
    \/ AskToStop(j)
    \/ \E r \in Results : End(j, r)
    \/ Delete(j)

JobSpec == JobInit /\ [][JobNext]_jobVars
=============================================================================
