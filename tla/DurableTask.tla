---------------------------- MODULE DurableTask ----------------------------
(***************************************************************************)
(* Durable Tasks: the rows of the table tasks (task_repository.py), the    *)
(* worker invocations that claim and execute them (task_service.py) and    *)
(* the publisher and reconciler that keep them moving                      *)
(* (task_queue_service.py).                                                *)
(*                                                                         *)
(* As in AgentRun the owner token of an attempt is a fresh uuid, so        *)
(* owner[t] = k says that worker_id of task t is the token of attempt k.   *)
(* A task is meant to have one attempt; the model has room for a second    *)
(* one, so that a second one is a state it could reach.                    *)
(***************************************************************************)
EXTENDS Naturals, FiniteSets

CONSTANTS
  Tasks,       \* task ids
  Legacy,      \* tasks of an older release: handler_version = 0
  NoKey,       \* dedupe_key is NULL
  Key,         \* <<type, dedupe_key>> of a task, when it is enqueued
  MaxRunning   \* durable_task_max_running

ASSUME TasksAssumption ==
  /\ Legacy \subseteq Tasks
  /\ IsFiniteSet(Tasks)

ASSUME MaxRunningAssumption == MaxRunning \in Nat \ {0}

AttemptNos == 1..2

VARIABLES
  status,     \* TaskRecord.status; "absent" before the row exists, "deleted" after
  owner,      \* TaskRecord.worker_id
  lease,      \* TaskRecord.lease_expires_at seen from now
  cancelReq,  \* TaskRecord.cancel_requested
  keyed,      \* TaskRecord.dedupe_key is not NULL
  attempts,   \* TaskRecord.attempt_count
  msg,        \* ARQ holds a process_task message for the task
  pc          \* where the invocation of process_task that claimed it is

rows == <<status, owner, lease, cancelReq, keyed, attempts>>
vars == <<rows, msg, pc>>

Terminal == {"success", "failed", "cancelled"}
Ended    == Terminal \cup {"deleted"}
LiveLease == {"fresh", "aging"}

(* An invocation that still has to write its task's end.                   *)
Settling == {"returned", "failing", "cancelling", "releasing"}
Busy     == {"loading", "executing"} \cup Settling

Active(t) == status[t] \in {"pending", "running"}
Running   == {t \in Tasks : status[t] = "running"}

TypeOK ==
  /\ status    \in [Tasks -> {"absent", "pending", "running"} \cup Ended]
  /\ owner     \in [Tasks -> {0} \cup AttemptNos]
  /\ lease     \in [Tasks -> LiveLease \cup {"none", "expired"}]
  /\ cancelReq \in [Tasks -> BOOLEAN]
  /\ keyed     \in [Tasks -> BOOLEAN]
  /\ attempts  \in [Tasks -> {0} \cup AttemptNos]
  /\ msg       \in [Tasks -> BOOLEAN]
  /\ pc        \in [Tasks -> [AttemptNos -> {"none", "done", "dead"} \cup Busy]]

(* The migration keeps the tasks that the older release left pending or    *)
(* running, with their cancellations, and gives them no key and no owner.  *)
Init ==
  /\ \E old \in [Legacy -> {"pending", "running"}] :
       status = [t \in Tasks |-> IF t \in Legacy THEN old[t] ELSE "absent"]
  /\ \E asked \in SUBSET Legacy : cancelReq = [t \in Tasks |-> t \in asked]
  /\ owner    = [t \in Tasks |-> 0]
  /\ lease    = [t \in Tasks |-> "none"]
  /\ keyed    = [t \in Tasks |-> FALSE]
  /\ attempts = [t \in Tasks |-> 0]
  /\ msg      = [t \in Tasks |-> FALSE]
  /\ pc       = [t \in Tasks |-> [k \in AttemptNos |-> "none"]]

Goto(t, k, p) == pc' = [pc EXCEPT ![t][k] = p]

-----------------------------------------------------------------------------
(* The row's transitions                                                   *)

(* Mutant: the lease is not looked at.                                     *)
IsLiveOwner_NoLease(t, k) == status[t] = "running" /\ owner[t] = k

(* _is_live_owner.                                                         *)
IsLiveOwner(t, k) ==
  /\ status[t] = "running"
  /\ owner[t] = k
  /\ lease[t] \in LiveLease

(* Mutant: the key is kept.                                                *)
EndTask_KeepsKey(t, s) ==
  /\ status' = [status EXCEPT ![t] = s]
  /\ owner'  = [owner EXCEPT ![t] = 0]
  /\ lease'  = [lease EXCEPT ![t] = "none"]
  /\ UNCHANGED keyed

(* Mutant: a task that failed is put back for another worker.              *)
EndTask_Requeued(t, s) ==
  /\ status' = [status EXCEPT ![t] = IF s = "failed" THEN "pending" ELSE s]
  /\ owner'  = [owner EXCEPT ![t] = 0]
  /\ lease'  = [lease EXCEPT ![t] = "none"]
  /\ keyed'  = [keyed EXCEPT ![t] = FALSE]

(* _clear_execution and the terminal status, in one transaction.           *)
EndTask(t, s) ==
  /\ status' = [status EXCEPT ![t] = s]
  /\ owner'  = [owner EXCEPT ![t] = 0]
  /\ lease'  = [lease EXCEPT ![t] = "none"]
  /\ keyed'  = [keyed EXCEPT ![t] = FALSE]

(* create_or_get_in_session: uq_tasks_active_dedupe refuses the second     *)
(* task of a key, and the caller gets the first one instead.  The message  *)
(* is sent after the commit; if that fails it is as good as lost.          *)
Enqueue(t) ==
  /\ status[t] = "absent"
  /\ Key[t] # NoKey => \A u \in Tasks : keyed[u] => Key[u] # Key[t]
  /\ status' = [status EXCEPT ![t] = "pending"]
  /\ keyed' = [keyed EXCEPT ![t] = Key[t] # NoKey]
  /\ msg' = [msg EXCEPT ![t] = TRUE]
  /\ UNCHANGED <<owner, lease, cancelReq, attempts, pc>>

(* publish_pending_tasks, one row at a time: at startup, every 30 seconds  *)
(* and whenever a worker's slot is released.  A task it cannot rebuild is  *)
(* ended instead.                                                          *)
PublishPending(t) ==
  /\ status[t] = "pending"
  /\ IF t \in Legacy
     THEN /\ EndTask(t, IF cancelReq[t] THEN "cancelled" ELSE "failed")
          /\ UNCHANGED msg
     ELSE /\ msg' = [msg EXCEPT ![t] = TRUE]
          /\ UNCHANGED <<status, owner, lease, keyed>>
  /\ UNCHANGED <<cancelReq, attempts, pc>>

LoseMsg(t) ==
  /\ msg[t]
  /\ msg' = [msg EXCEPT ![t] = FALSE]
  /\ UNCHANGED <<rows, pc>>

(* cancel_task and request_cancel: a task nobody executes is cancelled at  *)
(* once, the owner of a running one is told by its heartbeat.              *)
RequestCancel(t) ==
  /\ Active(t)
  /\ cancelReq' = [cancelReq EXCEPT ![t] = TRUE]
  /\ IF status[t] = "pending" THEN EndTask(t, "cancelled")
     ELSE UNCHANGED <<status, owner, lease, keyed>>
  /\ UNCHANGED <<attempts, msg, pc>>

HasCapacity == Cardinality(Running) < MaxRunning

(* claim under the advisory lock durable-task-capacity.                    *)
Claim(t) ==
  LET k == attempts[t] + 1 IN
  /\ msg[t]
  /\ t \notin Legacy
  /\ status[t] = "pending"
  /\ HasCapacity
  /\ k \in AttemptNos
  /\ status'   = [status EXCEPT ![t] = "running"]
  /\ owner'    = [owner EXCEPT ![t] = k]
  /\ lease'    = [lease EXCEPT ![t] = "fresh"]
  /\ attempts' = [attempts EXCEPT ![t] = k]
  /\ msg'      = [msg EXCEPT ![t] = FALSE]
  /\ Goto(t, k, "loading")
  /\ UNCHANGED <<cancelReq, keyed>>

(* Every other delivery of process_task ends without a trace: the message  *)
(* of a task that is running or over, or of one that finds no capacity.    *)
ClaimRefused(t) ==
  /\ status[t] # "pending" \/ ~HasCapacity
  /\ LoseMsg(t)

-----------------------------------------------------------------------------
(* One invocation of process_task that made attempt k of task t            *)

Move(t, k, from, to) ==
  /\ pc[t][k] = from
  /\ Goto(t, k, to)
  /\ UNCHANGED <<rows, msg>>

(* The registry's handler is loaded, or cannot be.                         *)
Load(t, k) == \E p \in {"executing", "failing"} : Move(t, k, "loading", p)

(* The handler comes back; it may have ignored that it was asked to stop.  *)
Return(t, k) == Move(t, k, "executing", "returned")

(* The handler raises, or exceeds timeout_seconds; a success hook raises.  *)
Raise(t, k) == \E p \in {"executing", "returned"} : Move(t, k, p, "failing")

(* Mutant: a heartbeat that comes late renews all the same.                *)
Heartbeat_Late(t, k) ==
  /\ pc[t][k] = "executing"
  /\ IsLiveOwner_NoLease(t, k)
  /\ lease' = [lease EXCEPT ![t] = "fresh"]
  /\ IF cancelReq[t] THEN Goto(t, k, "cancelling") ELSE UNCHANGED pc
  /\ UNCHANGED <<status, owner, cancelReq, keyed, attempts, msg>>

(* _heartbeat_task renews while the handler executes and hands it the      *)
(* cancellation.                                                           *)
Heartbeat(t, k) ==
  /\ pc[t][k] = "executing"
  /\ IsLiveOwner(t, k)
  /\ lease' = [lease EXCEPT ![t] = "fresh"]
  /\ IF cancelReq[t] THEN Goto(t, k, "cancelling") ELSE UNCHANGED pc
  /\ UNCHANGED <<status, owner, cancelReq, keyed, attempts, msg>>

(* A heartbeat that cannot renew or cannot reach the database, or a write  *)
(* of the handler that is refused: lease_lost, nothing more is written.    *)
LoseLease(t, k) == Move(t, k, "executing", "done")

(* raise_if_cancelled in the handler, or the heartbeat's word while the    *)
(* result is being written.                                                *)
NoticeCancel(t, k) ==
  /\ cancelReq[t]
  /\ \E p \in {"executing", "returned"} : Move(t, k, p, "cancelling")

(* The worker stops, or ARQ's own timeout: process_task is cancelled.      *)
Shutdown(t, k) == \E p \in {"executing", "returned"} : Move(t, k, p, "releasing")

(* Mutant: a status that no reader of the table knows.                     *)
FinalStatus_Aborted(t, s) == IF cancelReq[t] THEN "aborted" ELSE s

(* A cancellation that was requested first wins over any other end.        *)
FinalStatus(t, s) == IF cancelReq[t] THEN "cancelled" ELSE s

(* finish_owned.  The domain hook runs in the transaction, and the lease   *)
(* is checked before and after it.                                         *)
FinishOwned(t, k, s) ==
  /\ IF IsLiveOwner(t, k) THEN EndTask(t, FinalStatus(t, s))
     ELSE UNCHANGED <<status, owner, lease, keyed>>
  /\ Goto(t, k, "done")
  /\ UNCHANGED <<cancelReq, attempts, msg>>

FinishSuccess(t, k) == pc[t][k] = "returned" /\ FinishOwned(t, k, "success")

FinishTaskFailure(t, k) ==
  \/ pc[t][k] = "failing" /\ FinishOwned(t, k, "failed")
  \/ pc[t][k] = "cancelling" /\ FinishOwned(t, k, "cancelled")

(* release_interrupted_owner: failed, whether a cancellation was requested *)
(* or not, because the effects are unknown.                                *)
ReleaseInterruptedOwner(t, k) ==
  /\ pc[t][k] = "releasing"
  /\ IF IsLiveOwner(t, k) THEN EndTask(t, "failed")
     ELSE UNCHANGED <<status, owner, lease, keyed>>
  /\ Goto(t, k, "done")
  /\ UNCHANGED <<cancelReq, attempts, msg>>

(* The process dies, or the end of the task cannot be written.  ARQ may    *)
(* deliver the message again.                                              *)
Crash(t, k) ==
  /\ pc[t][k] \in Busy
  /\ Goto(t, k, "dead")
  /\ msg' = [msg EXCEPT ![t] = TRUE]
  /\ UNCHANGED rows

-----------------------------------------------------------------------------
(* Time and the reconciler                                                 *)

LeaseAges(t) ==
  /\ lease[t] \in LiveLease
  /\ lease' = [lease EXCEPT ![t] = IF @ = "fresh" THEN "aging" ELSE "expired"]
  /\ UNCHANGED <<status, owner, cancelReq, keyed, attempts, msg, pc>>

(* Mutant: rows that never had a lease are not looked at.                  *)
LeaseOver_Expired(t) == lease[t] = "expired"

LeaseOver(t) == lease[t] \in {"none", "expired"}

(* reconcile_expired_leases.  The code ends the rows of one query in one   *)
(* transaction and skips locked ones; one at a time reaches the same       *)
(* states.                                                                 *)
ReconcileExpiredLease(t) ==
  /\ status[t] = "running"
  /\ LeaseOver(t)
  /\ EndTask(t, "failed")
  /\ UNCHANGED <<cancelReq, attempts, msg, pc>>

(* delete_terminal and prune_terminal.                                     *)
DeleteTerminal(t) ==
  /\ status[t] \in Terminal
  /\ status' = [status EXCEPT ![t] = "deleted"]
  /\ UNCHANGED <<owner, lease, cancelReq, keyed, attempts, msg, pc>>

-----------------------------------------------------------------------------
(* What an invocation does by itself.                                      *)
Proceed(t, k) ==
  \/ Load(t, k)
  \/ Return(t, k)
  \/ Raise(t, k)
  \/ FinishSuccess(t, k)
  \/ FinishTaskFailure(t, k)
  \/ ReleaseInterruptedOwner(t, k)

Attempt(t, k) ==
  \/ Proceed(t, k)
  \/ Heartbeat(t, k)
  \/ LoseLease(t, k)
  \/ NoticeCancel(t, k)
  \/ Shutdown(t, k)
  \/ Crash(t, k)

Queue(t) ==
  \/ Enqueue(t)
  \/ PublishPending(t)
  \/ LoseMsg(t)
  \/ Claim(t)
  \/ ClaimRefused(t)

Environment(t) ==
  \/ RequestCancel(t)
  \/ LeaseAges(t)
  \/ ReconcileExpiredLease(t)
  \/ DeleteTerminal(t)

Next ==
  \E t \in Tasks :
    \/ Queue(t)
    \/ Environment(t)
    \/ \E k \in AttemptNos : Attempt(t, k)

Spec == Init /\ [][Next]_vars

(* An invocation ends, because a handler that does not return is stopped   *)
(* at timeout_seconds.  Time passes.  The periodic job publishes and       *)
(* reconciles again and again; ARQ may lose messages, but not all of them, *)
(* and the oldest pending task is published first.                         *)
Fairness ==
  \A t \in Tasks :
    /\ \A k \in AttemptNos : WF_vars(Proceed(t, k))
    /\ WF_vars(LeaseAges(t))
    /\ WF_vars(ReconcileExpiredLease(t))
    /\ WF_vars(PublishPending(t))
    /\ SF_vars(Claim(t))

FairSpec == Spec /\ Fairness

-----------------------------------------------------------------------------
(* Properties                                                              *)

(* Two active tasks never share a key, and a task holds its key exactly as *)
(* long as it is active, so that the next one can be enqueued.             *)
DedupeKeyHeldWhileActive ==
  \A t \in Tasks :
    /\ keyed[t] => \A u \in Tasks \ {t} : keyed[u] => Key[u] # Key[t]
    /\ t \notin Legacy => (keyed[t] <=> Active(t) /\ Key[t] # NoKey)

(* The handler, whose effects may be unknown, is entered at most once per  *)
(* task, whatever is delivered twice, crashes, expires or shuts down.      *)
ExecutedAtMostOnce == \A t \in Tasks : attempts[t] <= 1

(* A task whose cancellation was requested never succeeds.                 *)
CancelledNeverSucceeds ==
  \A t \in Tasks : status[t] = "success" => ~cancelReq[t]

(* A claim never takes more than the slots of the Durable Tasks, so that   *)
(* the other slots of the worker are left to AgentRuns.                    *)
CapacityKept ==
  [][\A t \in Tasks : status[t] = "pending" /\ status'[t] = "running" =>
       Cardinality(Running') <= MaxRunning]_vars

(* What an owner writes: all but the user's cancel_requested.              *)
Owned(t) == <<status[t], owner[t], lease[t], keyed[t], attempts[t]>>

(* Once its lease is over an attempt changes nothing of its row, whatever  *)
(* it still does: a late heartbeat does not revive the lease, a late end   *)
(* or release is refused.  Only the reconciler, and no step of an          *)
(* attempt, touches the row, and it ends the task as failed.               *)
ExpiredOwnerIsFenced ==
  [][\A t \in Tasks : status[t] = "running" /\ lease[t] = "expired" =>
       \/ Owned(t)' = Owned(t) /\ (pc' # pc => cancelReq' = cancelReq)
       \/ status'[t] = "failed" /\ pc' = pc]_vars

(* Claims, redeliveries, leases, crashes and reconcilers together are the  *)
(* job that starts once, ends once and does not succeed when it was asked  *)
(* to stop (OneShotJob).                                                   *)
Job == INSTANCE OneShotJob WITH
  Jobs <- Tasks, Leftover <- Legacy, Slots <- MaxRunning,
  state <- status, asked <- cancelReq, starts <- attempts

ImplementsOneShotJob == Job!JobSpec

(* Every task comes to an end and gives its slot back.                     *)
EveryTaskEnds ==
  \A t \in Tasks : status[t] # "absent" ~> status[t] \in Ended
=============================================================================
