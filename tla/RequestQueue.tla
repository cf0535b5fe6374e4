---------------------------- MODULE RequestQueue ----------------------------
(***************************************************************************)
(* The request queue of one Conversation (agent_request_queue_service.py,  *)
(* agent_request_service.py, agent_run_request_repository.py): submitting, *)
(* steering and cancelling requests, continuing a paused queue, and the    *)
(* relay that dispatches the head.                                         *)
(*                                                                         *)
(* Requests are numbered in the order of (created_at, id).  Of the runs    *)
(* the queue looks at the latest chat or resume run only; `run' is that    *)
(* run, and AgentRun models what it goes through in detail.                *)
(*                                                                         *)
(* A transaction that holds the Conversation's row lock is one step, with  *)
(* two exceptions that come from SQLAlchemy's identity map: a row that the *)
(* session has already loaded keeps the attributes it was loaded with when *)
(* it is selected again, even FOR UPDATE.  Submitting therefore judges the *)
(* latest run as it was first read, and cancelling and steering judge the  *)
(* request as it was before the lock.                                      *)
(***************************************************************************)
EXTENDS Naturals, FiniteSets

CONSTANTS
  MaxRequests,  \* how many requests are ever saved; bounds the model
  Source        \* AgentRunRequest.source of a request

Requests == 1..MaxRequests

ASSUME RequestsAssumption ==
  /\ MaxRequests \in Nat \ {0}
  /\ Source \in [Requests -> {"chat", "channel", "other"}]

VARIABLES
  req,      \* the rows of agent_run_requests
  run,      \* the latest chat or resume run of the Conversation, and who
            \* created it: run.by is only written, for the properties
  before,   \* requests queued when that run failed or was cancelled
  child,    \* an active subagent run shares the runtime scope
  asked,    \* cancel and steer calls that have read their request
  intake    \* the submission that holds the Conversation's lock

vars == <<req, run, before, child, asked, intake>>

Policies  == {"enqueue", "reject", "steer"}
Statuses  == {"absent", "queued", "dispatched", "cancelled", "rejected"}
Terminal  == {"completed", "failed", "cancelled", "interrupted"}
RunStatus == {"none", "pending", "running", "cancel_requested"} \cup Terminal
Creators  == {"submission", "relay", "user"}
NoRequest == 0
NoIntake  == [policy |-> "none", seen |-> "none", refused |-> FALSE]

TypeOK ==
  /\ req \in [Requests -> [status : Statuses, policy : Policies]]
  /\ run \in [status : RunStatus, type : {"chat", "resume"},
              of : Requests \cup {NoRequest},
              started : BOOLEAN, fence : BOOLEAN, job : BOOLEAN,
              by : Creators \cup {"nobody"}]
  /\ before \subseteq Requests
  /\ child \in BOOLEAN
  /\ asked \in [Requests -> SUBSET {"cancel", "cancel_steer", "steer"}]
  /\ intake \in [policy : Policies \cup {"none"}, seen : RunStatus,
                 refused : BOOLEAN]

Init ==
  /\ req = [i \in Requests |-> [status |-> "absent", policy |-> "enqueue"]]
  /\ run = [status |-> "none", type |-> "chat", of |-> NoRequest,
            started |-> FALSE, fence |-> FALSE, job |-> FALSE, by |-> "nobody"]
  /\ before = {}
  /\ child = FALSE
  /\ asked = [i \in Requests |-> {}]
  /\ intake = NoIntake

Unlocked == intake = NoIntake

-----------------------------------------------------------------------------
(* The queue's order and state                                             *)

Queued(rq) == {i \in Requests : rq[i].status = "queued"}

PendingSteers(rq) == {i \in Queued(rq) : rq[i].policy = "steer"}

(* Mutant: the steer waits for its turn like any other.                    *)
HeadOf_Fifo(rq) == CHOOSE i \in Queued(rq) : \A j \in Queued(rq) : i <= j

(* _queued_for_thread_query: a steer first, the others in their order.     *)
HeadOf(rq) ==
  LET first == IF PendingSteers(rq) # {} THEN PendingSteers(rq) ELSE Queued(rq)
  IN  CHOOSE i \in first : \A j \in first : i <= j

RunActive == run.status \notin Terminal \cup {"none"}

(* get_active_run_by_thread_for_user.                                      *)
ThreadActive == RunActive \/ run.fence

(* get_active_run_by_runtime_scope_for_user.                               *)
ScopeActive == ThreadActive \/ child

(* Mutant: the requests from before the failure go on.                     *)
QueueState_NoPause(rq, seen) ==
  IF ScopeActive THEN "running"
  ELSE IF seen = "interrupted" THEN "interrupted"
  ELSE "ready"

(* _get_queue_state of a queue that is not empty; `seen' is the latest     *)
(* run's status in the eyes of the transaction.                            *)
QueueState(rq, seen) ==
  IF ScopeActive THEN "running"
  ELSE IF seen = "interrupted" THEN "interrupted"
  ELSE IF seen \in {"failed", "cancelled"} /\ HeadOf(rq) \in before THEN "paused"
  ELSE "ready"

Ready(rq, seen) == Queued(rq) # {} /\ QueueState(rq, seen) = "ready"

(* is_steerable_message_run.                                               *)
Steerable ==
  /\ run.status = "running"
  /\ run.type = "chat"
  /\ Source[run.of] \in {"chat", "channel"}

NewRun(type, i, by) ==
  [status |-> "pending", type |-> type, of |-> i,
   started |-> FALSE, fence |-> FALSE, job |-> TRUE, by |-> by]

(* _dispatch_locked_head.  uq_agent_runs_one_active_per_thread refuses     *)
(* nothing here, because every caller found the thread idle under the lock.*)
DispatchHead(rq, by) ==
  /\ req' = [rq EXCEPT ![HeadOf(rq)].status = "dispatched"]
  /\ run' = NewRun("chat", HeadOf(rq), by)
  /\ before' = {}

-----------------------------------------------------------------------------
(* submit_agent_request and _persist_request                               *)

(* Up to the checks: the Conversation is locked, the queue and the latest  *)
(* run are read.  Every refusal (409, 422) leaves no trace.                *)
SubmitRead(policy) ==
  LET i == Cardinality({j \in Requests : req[j].status # "absent"}) + 1 IN
  /\ Unlocked
  /\ i \in Requests
  /\ run.status # "interrupted"
  /\ policy = "steer" =>
       /\ Source[i] \in {"chat", "channel"}
       /\ ThreadActive => Steerable
       /\ PendingSteers(req) = {}
  /\ intake' = [policy |-> policy, seen |-> run.status,
                refused |-> policy = "reject" /\ (ThreadActive \/ Queued(req) # {})]
  /\ UNCHANGED <<req, run, before, child, asked>>

(* Mutant: a reject is recorded like a run that did not succeed.           *)
Unserved_Failed(policy) == IF policy = "reject" THEN "failed" ELSE "queued"

(* What a request becomes that is not dispatched at once.                  *)
Unserved(policy) == IF policy = "reject" THEN "rejected" ELSE "queued"

(* The rest: the request is saved, and dispatch_ready_head dispatches the  *)
(* head, which need not be the new request; a reject dispatches itself or  *)
(* nothing.                                                                *)
SubmitWrite ==
  LET i     == Cardinality({j \in Requests : req[j].status # "absent"}) + 1
      p     == intake.policy
      saved == [req EXCEPT ![i] = [status |-> "queued", policy |-> p]]
  IN
  /\ ~Unlocked
  /\ IF ~intake.refused /\ Ready(saved, intake.seen) /\ (p = "reject" => HeadOf(saved) = i)
     THEN DispatchHead(saved, "submission")
     ELSE /\ req' = [saved EXCEPT ![i].status = Unserved(p)]
          /\ UNCHANGED <<run, before>>
  /\ intake' = NoIntake
  /\ UNCHANGED <<child, asked>>

(* An invalid configuration, a missing attachment, a crash.                *)
SubmitRollback ==
  /\ ~Unlocked
  /\ intake' = NoIntake
  /\ UNCHANGED <<req, run, before, child, asked>>

-----------------------------------------------------------------------------
(* cancel_queued_request and steer_queued_request: the request is read,    *)
(* then the Conversation is locked, then the request is judged.  Another   *)
(* answer than queued at the first read changes nothing.                   *)

Ask(i, op) ==
  /\ req[i].status = "queued"
  /\ asked' = [asked EXCEPT ![i] = @ \cup {op}]
  /\ UNCHANGED <<req, run, before, child, intake>>

CancelRead(i) == Ask(i, IF req[i].policy = "steer" THEN "cancel_steer" ELSE "cancel")

SteerRead(i) ==
  /\ req[i].policy = "enqueue"
  /\ Source[i] = "chat"
  /\ Ask(i, "steer")

CancelQueued(i, op) ==
  /\ Unlocked
  /\ op \in asked[i] \ {"steer"}
  /\ req' = IF op = "cancel_steer" /\ ThreadActive THEN req
            ELSE [req EXCEPT ![i].status = "cancelled"]
  /\ asked' = [asked EXCEPT ![i] = @ \ {op}]
  /\ UNCHANGED <<run, before, child, intake>>

(* Mutant: another steer may be waiting.                                   *)
MaySteer_Another(i) == ThreadActive /\ Steerable

MaySteer(i) ==
  /\ PendingSteers(req) \subseteq {i}
  /\ ThreadActive /\ Steerable

SteerQueued(i) ==
  /\ Unlocked
  /\ "steer" \in asked[i]
  /\ req' = IF MaySteer(i) THEN [req EXCEPT ![i].policy = "steer"] ELSE req
  /\ asked' = [asked EXCEPT ![i] = @ \ {"steer"}]
  /\ UNCHANGED <<run, before, child, intake>>

-----------------------------------------------------------------------------
(* Continuing, relaying, resuming                                          *)

ContinueThreadQueue ==
  /\ Unlocked
  /\ Queued(req) # {}
  /\ QueueState(req, run.status) = "paused"
  /\ DispatchHead(req, "user")
  /\ UNCHANGED <<child, asked, intake>>

(* Mutant: a run that is there already is left alone.                      *)
Reenqueue_Never == FALSE

Reenqueue == RunActive /\ run.status = "pending"

(* dispatch_next_request, by the worker when a run is completed and by the *)
(* recovery scan at any time.  A pending run is handed to ARQ once more.   *)
DispatchNext ==
  /\ Unlocked
  /\ \/ /\ Reenqueue
        /\ run' = [run EXCEPT !.job = TRUE]
        /\ UNCHANGED <<req, before>>
     \/ Ready(req, run.status) /\ DispatchHead(req, "relay")
  /\ UNCHANGED <<child, asked, intake>>

(* create_resume_run_view: it does not pass through the queue.             *)
Resume ==
  /\ Unlocked
  /\ run.status = "interrupted"
  /\ ~ThreadActive
  /\ run' = NewRun("resume", NoRequest, "user")
  /\ UNCHANGED <<req, before, child, asked, intake>>

-----------------------------------------------------------------------------
(* What happens to the latest run meanwhile: the steps of AgentRun that    *)
(* the queue can tell apart.  None of them takes the Conversation's lock.  *)

RunOnly == UNCHANGED <<req, child, asked, intake>>

LoseJob ==
  /\ run.job
  /\ run' = [run EXCEPT !.job = FALSE]
  /\ UNCHANGED before /\ RunOnly

StartRun ==
  /\ run.job /\ ~run.fence
  /\ run.status \in {"pending", "cancel_requested"}
  /\ run' = [run EXCEPT !.status = IF @ = "pending" THEN "running" ELSE @,
                        !.started = TRUE, !.job = FALSE]
  /\ UNCHANGED before /\ RunOnly

RetryRun ==
  /\ run.status = "running"
  /\ run' = [run EXCEPT !.status = "pending", !.fence = TRUE, !.job = TRUE]
  /\ UNCHANGED before /\ RunOnly

(* A run that fails or is cancelled ends later than every queued request   *)
(* was created: created_at <= finished_at.                                 *)
EndRun(s) ==
  /\ \/ run.status = "running" /\ s # "cancelled"
     \/ run.status = "cancel_requested" /\ s \in {"cancelled", "failed"}
  /\ run' = [run EXCEPT !.status = s, !.fence = TRUE]
  /\ before' = IF s \in {"failed", "cancelled"} THEN Queued(req) ELSE {}
  /\ RunOnly

CancelRun ==
  /\ run.status \in {"pending", "running"}
  /\ IF run.started
     THEN run' = [run EXCEPT !.status = "cancel_requested"] /\ UNCHANGED before
     ELSE run' = [run EXCEPT !.status = "cancelled"] /\ before' = Queued(req)
  /\ RunOnly

(* Mutant: the subagents in the scope are forgotten.                       *)
RuntimeIdle_Thread == run.fence

RuntimeIdle == run.fence /\ ~child

(* _release_runtime_if_idle.                                               *)
LowerFence ==
  /\ RuntimeIdle
  /\ run' = [run EXCEPT !.fence = FALSE]
  /\ UNCHANGED before /\ RunOnly

StartChild ==
  /\ run.status = "running" /\ ~child
  /\ child' = TRUE
  /\ UNCHANGED <<req, run, before, asked, intake>>

EndChild ==
  /\ child
  /\ child' = FALSE
  /\ UNCHANGED <<req, run, before, asked, intake>>

-----------------------------------------------------------------------------
Run ==
  \/ LoseJob
  \/ StartRun
  \/ RetryRun
  \/ \E s \in Terminal : EndRun(s)
  \/ CancelRun
  \/ LowerFence
  \/ StartChild
  \/ EndChild

Next ==
  \/ \E p \in Policies : SubmitRead(p)
  \/ SubmitWrite
  \/ SubmitRollback
  \/ \E i \in Requests :
       \/ CancelRead(i)
       \/ SteerRead(i)
       \/ \E op \in {"cancel", "cancel_steer"} : CancelQueued(i, op)
       \/ SteerQueued(i)
  \/ ContinueThreadQueue
  \/ DispatchNext
  \/ Resume
  \/ Run

Spec == Init /\ [][Next]_vars

(* The recovery scan runs again and again and skips a Conversation that is *)
(* locked at that moment; a transaction comes to its end; a run and its    *)
(* subagents come to theirs (EveryRunEnds of AgentRun).                    *)
Fairness ==
  /\ WF_vars(SubmitWrite)
  /\ SF_vars(DispatchNext)
  /\ SF_vars(StartRun)
  /\ SF_vars(\E s \in Terminal : EndRun(s))
  /\ SF_vars(LowerFence)
  /\ WF_vars(EndChild)

FairSpec == Spec /\ Fairness

-----------------------------------------------------------------------------
(* Properties                                                              *)

Overtakes(rq, j, i) ==
  IF rq[i].policy # rq[j].policy /\ "steer" \in {rq[i].policy, rq[j].policy}
  THEN rq[j].policy = "steer"
  ELSE j < i

(* Whoever dispatches (a submission, the relay, the user who continues),   *)
(* no request that stays in the queue was entitled to go first: the steer, *)
(* then the order of creation.                                             *)
SteerThenFifo ==
  [][\A i \in Requests :
       req[i].status # "dispatched" /\ req'[i].status = "dispatched" =>
         \A j \in Queued(req') : ~Overtakes(req', j, i)]_vars

(* get_pending_steer calls scalar_one_or_none, which raises when two       *)
(* requests match: a second steer would make every later call fail.        *)
OneSteerPending == Cardinality(PendingSteers(req)) <= 1

(* The caller of a reject is told at once: it never waits in the queue,    *)
(* neither behind a run nor behind other requests nor behind a pause.      *)
RejectNeverWaits == \A i \in Queued(req) : req[i].policy # "reject"

(* A run that has not started yet, dispatched or resumed, has its runtime  *)
(* for itself: no subagent of an earlier run still works in the sandbox.   *)
FreshRuntime == run.status = "pending" /\ ~run.started => ~child

(* After a failure or a cancellation the requests that were waiting wait   *)
(* for the user: the relay dispatches none of them, whoever else acts, and *)
(* a submission only if it read the run before that end.  Who dispatched   *)
(* is what the new run says, not what the step looks like: the relay's     *)
(* dispatch of the head changes the rows like the user's.                  *)
PausedUntilContinued ==
  [][run.status \in {"failed", "cancelled"} =>
       \A i \in before :
         req[i].status = "queued" /\ req'[i].status = "dispatched" =>
           \/ run'.by = "user"
           \/ run'.by = "submission" /\ intake.seen \notin Terminal]_vars

AwaitsUser ==
  \/ run.status = "interrupted"
  \/ Queued(req) # {} /\ QueueState(req, run.status) = "paused"

(* A request does not wait for ever on a lost message, a lost relay, a     *)
(* pending cleanup or a subagent: it leaves the queue or the queue waits   *)
(* for the user.                                                           *)
QueueMovesOn ==
  \A i \in Requests :
    req[i].status = "queued" ~> (req[i].status # "queued" \/ AwaitsUser)

(* "Waiting for approval or an answer, the queue is kept"                  *)
(* (docs/mechanisms/agent-request-queue.md): only a resume run follows an  *)
(* interrupted run.                                                        *)
InterruptedWaitsForResume ==
  [][run.status = "interrupted" /\ run'.status # "interrupted" =>
       run'.type = "resume"]_vars

(* cancel_queued_request: "a dispatched request cannot be cancelled".      *)
DispatchedStays ==
  [][\A i \in Requests : req[i].status = "dispatched" =>
       req'[i].status = "dispatched"]_vars
=============================================================================
