------------------------------ MODULE AgentRun ------------------------------
(***************************************************************************)
(* The execution of AgentRuns: the rows of agent_runs and                  *)
(* agent_run_attempts (agent_run_repository.py), the worker invocations    *)
(* that claim, renew, settle and release them (run_worker.py), the user's  *)
(* cancellation and the reconcilers.                                       *)
(*                                                                         *)
(* Runs are the runs of ONE root Conversation: its chat and resume runs    *)
(* share the Conversation's thread, every subagent run has a child thread  *)
(* of its own, and all of them share one runtime scope (one sandbox).      *)
(*                                                                         *)
(* The owner token of an attempt is a fresh uuid, so it identifies the     *)
(* attempt: owner[r] = k says that worker_id of run r is the token of      *)
(* attempt number k, and owner[r] = 0 that worker_id is NULL.              *)
(* A transaction that locks the run's row (SELECT ... FOR UPDATE) is one   *)
(* step; what a worker does between two transactions is several steps.     *)
(***************************************************************************)
EXTENDS Naturals, FiniteSets

CONSTANTS
  Runs,      \* the runs of one root Conversation
  NoRun,     \* created_by_run_id is NULL
  Kind,      \* run_type of a run
  Creator,   \* created_by_run_id of a run
  MaxTries   \* WorkerSettings.max_tries

TopLevel(r) == Kind[r] # "subagent"

(* ck_agent_runs_shape: a chat run has no creator, resume and subagent     *)
(* runs have one; a subagent run creates no run (SubagentRunService.start) *)
(* and only a chat or resume run is resumed.  A creator is older than the  *)
(* runs it creates, so nothing creates itself or its creator.              *)
ASSUME RunsAssumption ==
  /\ NoRun \notin Runs
  /\ Kind \in [Runs -> {"chat", "resume", "subagent"}]
  /\ Creator \in [Runs -> Runs \cup {NoRun}]
  /\ \A r \in Runs : (Kind[r] = "chat") <=> (Creator[r] = NoRun)
  /\ \A r \in Runs : Creator[r] # NoRun =>
       /\ Kind[Creator[r]] # "subagent"
       /\ Creator[r] # r
       /\ Creator[Creator[r]] # r

ASSUME MaxTriesAssumption == MaxTries \in Nat \ {0}

(* One attempt more than the budget, so that exceeding it is a state the   *)
(* model can reach.                                                        *)
AttemptNos == 1..(MaxTries + 1)

VARIABLES
  status,    \* AgentRun.status; "absent" before the row exists
  owner,     \* AgentRun.worker_id
  lease,     \* AgentRun.lease_expires_at seen from now
  started,   \* AgentRun.started_at is not NULL
  cleanup,   \* AgentRun.runtime_cleanup_pending
  output,    \* AgentRun.output_message_id is not NULL
  last,      \* the largest attempt_no of the run's attempts
  outcome,   \* AgentRunAttempt.outcome; "open" while finished_at is NULL
  job,       \* ARQ holds a process_agent_run message for the run
  pc,        \* where the invocation that made the attempt is
  executed,  \* its local variable execution_started
  latest     \* the newest chat or resume run of the Conversation

vars == <<status, owner, lease, started, cleanup, output, last, outcome,
          job, pc, executed, latest>>

Terminal  == {"completed", "failed", "cancelled", "interrupted"}
Leased    == {"running", "cancel_requested"}
RunStatus == {"absent", "pending"} \cup Leased \cup Terminal
LiveLease == {"fresh", "aging"}
Outcomes  == {"none", "open", "retry_released", "lease_expired"} \cup Terminal

(* An invocation before its finally block, then that block, then its end.  *)
Working == {"claimed", "preparing", "manifest", "exec", "stopping",
            "cancelling", "giveup"}
Busy    == Working \cup {"closing", "final"}
PCs     == Busy \cup {"none", "done", "dead"}

Active(r) == status[r] \notin Terminal \cup {"absent"}

TypeOK ==
  /\ status   \in [Runs -> RunStatus]
  /\ owner    \in [Runs -> {0} \cup AttemptNos]
  /\ lease    \in [Runs -> LiveLease \cup {"none", "expired"}]
  /\ started  \in [Runs -> BOOLEAN]
  /\ cleanup  \in [Runs -> BOOLEAN]
  /\ output   \in [Runs -> BOOLEAN]
  /\ last     \in [Runs -> {0} \cup AttemptNos]
  /\ outcome  \in [Runs -> [AttemptNos -> Outcomes]]
  /\ job      \in [Runs -> BOOLEAN]
  /\ pc       \in [Runs -> [AttemptNos -> PCs]]
  /\ executed \in [Runs -> [AttemptNos -> BOOLEAN]]
  /\ latest   \in Runs \cup {NoRun}

Init ==
  /\ status   = [r \in Runs |-> "absent"]
  /\ owner    = [r \in Runs |-> 0]
  /\ lease    = [r \in Runs |-> "none"]
  /\ started  = [r \in Runs |-> FALSE]
  /\ cleanup  = [r \in Runs |-> FALSE]
  /\ output   = [r \in Runs |-> FALSE]
  /\ last     = [r \in Runs |-> 0]
  /\ outcome  = [r \in Runs |-> [k \in AttemptNos |-> "none"]]
  /\ job      = [r \in Runs |-> FALSE]
  /\ pc       = [r \in Runs |-> [k \in AttemptNos |-> "none"]]
  /\ executed = [r \in Runs |-> [k \in AttemptNos |-> FALSE]]
  /\ latest   = NoRun

Goto(r, k, p) == pc' = [pc EXCEPT ![r][k] = p]

-----------------------------------------------------------------------------
(* Ownership and the cascade over the execution tree                       *)

(* _require_lease_owner and the owner checks of renew, release, terminal.  *)
IsLiveOwner(r, k) ==
  /\ status[r] \in Leased
  /\ owner[r] = k
  /\ lease[r] \in LiveLease

IsRunningOwner(r, k) == status[r] = "running" /\ IsLiveOwner(r, k)

(* Mutant: the run's status, whose values are others, is recorded.         *)
FinishAttempt_RunStatus(r, k, o) ==
  [outcome EXCEPT ![r][k] = IF @ = "open" THEN status[r] ELSE @]

(* _finish_open_attempt of the attempt that owns the run.                  *)
FinishAttempt(r, k, o) ==
  [outcome EXCEPT ![r][k] = IF @ = "open" THEN o ELSE @]

(* Mutant: the attempts are left open.                                     *)
CloseOpenAttempts_Forgotten(f, o) == f

(* _close_open_attempts: every attempt that is still open.                 *)
CloseOpenAttempts(f, o) ==
  [k \in AttemptNos |-> IF f[k] = "open" THEN o ELSE f[k]]

Unstarted(r) == status[r] = "pending" /\ owner[r] = 0 /\ ~started[r]

(* Mutant: only the children that a worker already runs are found.         *)
ChildrenOf_Running(P) == {c \in Runs : Creator[c] \in P /\ status[c] = "running"}

ChildrenOf(P) == {c \in Runs : Creator[c] \in P /\ Active(c)}

(* The walk of cancel_active_execution_tree_descendants, which follows     *)
(* active runs only.  It needs two rounds: a run is resumed when it is     *)
(* terminal, so only a first child that is a running resume has active     *)
(* children, and those are subagent runs.                                  *)
Descendants(r) ==
  IF TopLevel(r) THEN ChildrenOf({r}) \cup ChildrenOf(ChildrenOf({r})) ELSE {}

(* Descendants that never started become cancelled, the others             *)
(* cancel_requested; st and oc are the rows the transaction wrote before.  *)
CancelledStatus(st, r) ==
  [c \in Runs |-> IF c \notin Descendants(r) THEN st[c]
                  ELSE IF Unstarted(c) THEN "cancelled"
                  ELSE "cancel_requested"]

CancelledOutcome(oc, r) ==
  [c \in Runs |-> IF c \in Descendants(r) /\ Unstarted(c)
                  THEN CloseOpenAttempts(oc[c], "cancelled") ELSE oc[c]]

(* Mutants: anyone may finish the run; a requested cancellation is         *)
(* overtaken; the answer is not looked for.                                *)
MaySetTerminal_NotOwner(r, k, s) ==
  /\ s = "completed" => output[r]
  /\ (status[r] = "cancel_requested") <=> (s = "cancelled")

MaySetTerminal_NotCancelled(r, k, s) ==
  IsLiveOwner(r, k) /\ (s = "completed" => output[r])

MaySetTerminal_NoOutput(r, k, s) ==
  IsLiveOwner(r, k) /\ ((status[r] = "cancel_requested") <=> (s = "cancelled"))

(* The guards of set_terminal_status for the owner token of attempt k.     *)
MaySetTerminal(r, k, s) ==
  /\ IsLiveOwner(r, k)
  /\ (status[r] = "cancel_requested") <=> (s = "cancelled")
  /\ s = "completed" => output[r]

(* Every caller of set_terminal_status cancels the descendants in the same *)
(* transaction.  Only a run that is not a subagent owns the runtime.       *)
SetTerminal(r, k, s) ==
  /\ status'  = CancelledStatus([status EXCEPT ![r] = s], r)
  /\ owner'   = [owner EXCEPT ![r] = 0]
  /\ lease'   = [lease EXCEPT ![r] = "none"]
  /\ cleanup' = [cleanup EXCEPT ![r] = TopLevel(r)]
  /\ outcome' = CancelledOutcome(FinishAttempt(r, k, s), r)

-----------------------------------------------------------------------------
(* Creating runs.  The row is committed before ARQ is told; a message that *)
(* is never sent or is lost is LoseJob.                                    *)

(* Mutant: the cleanup fence is not part of the question.                  *)
ThreadIdle_NoFence == \A q \in Runs : TopLevel(q) => ~Active(q)

(* get_active_run_by_thread_for_user for the Conversation's own thread.    *)
ThreadIdle ==
  \A q \in Runs : TopLevel(q) => ~Active(q) /\ ~cleanup[q]

CreateRow(r) ==
  /\ status[r] = "absent"
  /\ status' = [status EXCEPT ![r] = "pending"]
  /\ job' = [job EXCEPT ![r] = TRUE]
  /\ latest' = IF TopLevel(r) THEN r ELSE latest
  /\ UNCHANGED <<owner, lease, started, cleanup, output, last, outcome, pc,
                 executed>>

(* _dispatch_locked_head, when nothing is active in the runtime scope.  It *)
(* also looks at the latest run's status, but may know an old one only     *)
(* (RequestQueue).                                                         *)
CreateChat(r) ==
  /\ Kind[r] = "chat"
  /\ ThreadIdle
  /\ \A q \in Runs : ~Active(q)
  /\ CreateRow(r)

(* create_resume_run_view of the latest run, which is interrupted.         *)
CreateResume(r) ==
  /\ Kind[r] = "resume"
  /\ status[Creator[r]] = "interrupted"
  /\ latest = Creator[r]
  /\ ThreadIdle
  /\ CreateRow(r)

(* SubagentRunService.start, called by a tool of the creator's execution:  *)
(* it locks the creator's row and asks only that the status is running.    *)
CreateSubagent(r) ==
  /\ Kind[r] = "subagent"
  /\ status[Creator[r]] = "running"
  /\ \E k \in AttemptNos : pc[Creator[r]][k] = "exec"
  /\ CreateRow(r)

-----------------------------------------------------------------------------
(* Delivery.  ARQ may lose a message, and recover_pending_dispatches sends *)
(* a new one for every run that is still pending.                          *)

EnqueueAgentRun(r) ==
  /\ status[r] = "pending"
  /\ job' = [job EXCEPT ![r] = TRUE]
  /\ UNCHANGED <<latest, status, owner, lease, started, cleanup, output, last,
                 outcome, pc, executed>>

LoseJob(r) ==
  /\ job[r]
  /\ job' = [job EXCEPT ![r] = FALSE]
  /\ UNCHANGED <<latest, status, owner, lease, started, cleanup, output, last,
                 outcome, pc, executed>>

(* initial_claim of mark_running.                                          *)
Claimable(r) ==
  /\ status[r] = "pending" \/ (status[r] = "cancel_requested" /\ owner[r] = 0)
  /\ ~cleanup[r]

(* mark_running by a fresh token: a new attempt with the next number.  A   *)
(* run whose cancellation is requested stays cancel_requested.             *)
MarkRunning(r) ==
  LET k == last[r] + 1 IN
  /\ job[r]
  /\ Claimable(r)
  /\ k \in AttemptNos
  /\ status'  = [status EXCEPT ![r] = IF @ = "pending" THEN "running" ELSE @]
  /\ owner'   = [owner EXCEPT ![r] = k]
  /\ lease'   = [lease EXCEPT ![r] = "fresh"]
  /\ started' = [started EXCEPT ![r] = TRUE]
  /\ last'    = [last EXCEPT ![r] = k]
  /\ outcome' = [outcome EXCEPT ![r] =
                   [CloseOpenAttempts(@, "lease_expired") EXCEPT ![k] = "open"]]
  /\ job'     = [job EXCEPT ![r] = FALSE]
  /\ Goto(r, k, "claimed")
  /\ UNCHANGED <<latest, cleanup, output, executed>>

(* process_agent_run whose claim is refused returns.  While the cleanup of *)
(* an earlier attempt is pending it is asked to run again instead.         *)
ClaimRefused(r) ==
  /\ job[r]
  /\ Active(r) /\ ~Claimable(r) /\ ~cleanup[r]
  /\ job' = [job EXCEPT ![r] = FALSE]
  /\ UNCHANGED <<latest, status, owner, lease, started, cleanup, output, last,
                 outcome, pc, executed>>

(* _finish_execution_tree_children, a transaction of its own.              *)
FinishExecutionTreeChildren(r) ==
  /\ status'  = CancelledStatus(status, r)
  /\ outcome' = CancelledOutcome(outcome, r)

(* process_agent_run of a run that is already terminal: it cancels what is *)
(* left of the tree.  The cleanup it then waits for is ReleaseRuntime; if  *)
(* that fails the message comes back.                                      *)
RedeliverTerminal(r) ==
  /\ job[r]
  /\ status[r] \in Terminal
  /\ FinishExecutionTreeChildren(r)
  /\ job' \in {[job EXCEPT ![r] = again] : again \in {FALSE, cleanup[r]}}
  /\ UNCHANGED <<latest, owner, lease, started, cleanup, output, last, pc, executed>>

-----------------------------------------------------------------------------
(* One invocation of process_agent_run that made attempt k of run r        *)

(* _heartbeat_lease, which runs from the claim to the finally block.       *)
RenewLease(r, k) ==
  /\ pc[r][k] \in Working \cup {"closing"}
  /\ IsLiveOwner(r, k)
  /\ lease' = [lease EXCEPT ![r] = "fresh"]
  /\ UNCHANGED <<latest, status, owner, started, cleanup, output, last, outcome, job,
                 pc, executed>>

(* The heartbeat could not renew, or could not reach the database, and the *)
(* attempt did not itself commit the terminal status: the stream is closed *)
(* and the invocation leaves without writing.                              *)
LoseLease(r, k) ==
  /\ pc[r][k] \in {"exec", "stopping"}
  /\ Goto(r, k, "final")
  /\ UNCHANGED <<latest, status, owner, lease, started, cleanup, output, last,
                 outcome, job, executed>>

(* The task is cancelled (shutdown, job timeout, cancel_event of the       *)
(* watchers) or a retryable exception reaches process_agent_run.           *)
Interrupt(r, k) ==
  /\ pc[r][k] \in {"claimed", "preparing", "manifest", "exec"}
  /\ Goto(r, k, "stopping")
  /\ UNCHANGED <<latest, status, owner, lease, started, cleanup, output, last,
                 outcome, job, executed>>

(* The first checks after the claim: cancellation, then the budget.        *)
CheckBudget(r, k) ==
  /\ pc[r][k] = "claimed"
  /\ Goto(r, k, IF status[r] = "cancel_requested" THEN "stopping"
                ELSE IF k > MaxTries THEN "giveup" ELSE "preparing")
  /\ UNCHANGED <<latest, status, owner, lease, started, cleanup, output, last,
                 outcome, job, executed>>

(* Invalid input, a missing user or Workdir, a manifest that cannot be     *)
(* recorded: mark_run_terminal("failed").  If the write is refused because *)
(* of a cancellation, only the manifest's path notices it.                 *)
FailPreparation(r, k) ==
  /\ pc[r][k] = "preparing"
  /\ IF MaySetTerminal(r, k, "failed")
     THEN SetTerminal(r, k, "failed") /\ Goto(r, k, "final")
     ELSE /\ \E p \in {"final"} \cup
                  (IF status[r] = "cancel_requested" THEN {"stopping"} ELSE {}) :
               Goto(r, k, p)
          /\ UNCHANGED <<status, owner, lease, cleanup, outcome>>
  /\ UNCHANGED <<latest, started, output, last, job, executed>>

(* An exception that is not retryable, before or while the run executes:   *)
(* _finish_run("failed") by the handlers of process_agent_run.  Refused,   *)
(* it leaves the run to whoever owns it or to the reconciler.              *)
FailUnexpectedly(r, k) ==
  /\ pc[r][k] \in {"claimed", "preparing", "manifest", "exec"}
  /\ IF MaySetTerminal(r, k, "failed")
     THEN SetTerminal(r, k, "failed") /\ Goto(r, k, "closing")
     ELSE /\ Goto(r, k, IF status[r] \in Terminal THEN "closing" ELSE "final")
          /\ UNCHANGED <<status, owner, lease, cleanup, outcome>>
  /\ UNCHANGED <<latest, started, output, last, job, executed>>

(* record_run_manifest needs the lease of a running run.                   *)
RecordManifest(r, k) ==
  /\ pc[r][k] = "preparing"
  /\ IsRunningOwner(r, k)
  /\ Goto(r, k, "manifest")
  /\ UNCHANGED <<latest, status, owner, lease, started, cleanup, output, last,
                 outcome, job, executed>>

(* The last look at the cancellation, then execution_started.  It does not *)
(* look at the lease: an invocation that was paused may start to execute a *)
(* run that was failed meanwhile.                                          *)
StartExecution(r, k) ==
  /\ pc[r][k] = "manifest"
  /\ IF status[r] = "cancel_requested"
     THEN Goto(r, k, "stopping") /\ UNCHANGED executed
     ELSE /\ Goto(r, k, "exec")
          /\ executed' = [executed EXCEPT ![r][k] = TRUE]
  /\ UNCHANGED <<latest, status, owner, lease, started, cleanup, output, last,
                 outcome, job>>

(* save_partial_message: an output message bound during the execution.     *)
SetOutputMessage(r, k) ==
  /\ pc[r][k] = "exec"
  /\ IsRunningOwner(r, k)
  /\ output' = [output EXCEPT ![r] = TRUE]
  /\ UNCHANGED <<latest, status, owner, lease, started, cleanup, last, outcome, job,
                 pc, executed>>

(* save_messages_from_langgraph_state: messages, output and the terminal   *)
(* status in one transaction under the run's row lock.                     *)
CommitOutput(r, k) ==
  /\ pc[r][k] = "exec"
  /\ IsRunningOwner(r, k)
  /\ output' = [output EXCEPT ![r] = TRUE]
  /\ \E s \in {"completed", "interrupted"} : SetTerminal(r, k, s)
  /\ Goto(r, k, "closing")
  /\ UNCHANGED <<latest, started, last, job, executed>>

(* _finish_run at the end of the stream: an error, an interruption, an     *)
(* answer already bound.  Refused, it goes on with the status it found.    *)
FinishRun(r, k) ==
  /\ pc[r][k] = "exec"
  /\ \E s \in Terminal :
       /\ MaySetTerminal(r, k, s)
       /\ SetTerminal(r, k, s)
  /\ Goto(r, k, "closing")
  /\ UNCHANGED <<latest, started, output, last, job, executed>>

FinishRunRefused(r, k) ==
  /\ pc[r][k] = "exec"
  /\ ~IsRunningOwner(r, k)
  /\ Goto(r, k, IF status[r] \in Terminal THEN "closing" ELSE "final")
  /\ UNCHANGED <<latest, status, owner, lease, started, cleanup, output, last,
                 outcome, job, executed>>

(* _confirmed_user_cancel; a read that fails counts as not confirmed.      *)
ConfirmUserCancel(r, k) ==
  /\ pc[r][k] = "stopping"
  /\ \E p \in {"giveup"} \cup
          (IF status[r] = "cancel_requested" THEN {"cancelling"} ELSE {}) :
       Goto(r, k, p)
  /\ UNCHANGED <<latest, status, owner, lease, started, cleanup, output, last,
                 outcome, job, executed>>

FinishUserCancel(r, k) ==
  /\ pc[r][k] = "cancelling"
  /\ IF MaySetTerminal(r, k, "cancelled")
     THEN SetTerminal(r, k, "cancelled")
     ELSE UNCHANGED <<status, owner, lease, cleanup, outcome>>
  /\ Goto(r, k, "closing")
  /\ UNCHANGED <<latest, started, output, last, job, executed>>

(* Mutant: an execution that started is repeated.                          *)
RetryAllowed_Started(r, k) == k < MaxTries

(* Only an attempt that started nothing is repeated, within the budget.    *)
RetryAllowed(r, k) == ~executed[r][k] /\ k < MaxTries

(* _finish_uncertain_execution and _finish_retry_exhausted: failed, or the *)
(* cancellation that came first.                                           *)
FinishNonretryableFailure(r, k) ==
  /\ pc[r][k] = "giveup"
  /\ ~RetryAllowed(r, k)
  /\ IF MaySetTerminal(r, k, "failed")
     THEN SetTerminal(r, k, "failed") /\ Goto(r, k, "closing")
     ELSE /\ Goto(r, k, IF status[r] = "cancel_requested"
                        THEN "cancelling" ELSE "closing")
          /\ UNCHANGED <<status, owner, lease, cleanup, outcome>>
  /\ UNCHANGED <<latest, started, output, last, job, executed>>

(* release_run_lease_for_retry, with the cascade over the children.        *)
ReleaseLeaseForRetry(r, k) ==
  /\ pc[r][k] = "giveup"
  /\ RetryAllowed(r, k)
  /\ IF IsRunningOwner(r, k)
     THEN /\ status'  = CancelledStatus([status EXCEPT ![r] = "pending"], r)
          /\ owner'   = [owner EXCEPT ![r] = 0]
          /\ lease'   = [lease EXCEPT ![r] = "none"]
          /\ cleanup' = [cleanup EXCEPT ![r] = TopLevel(r)]
          /\ outcome' = CancelledOutcome(FinishAttempt(r, k, "retry_released"), r)
          /\ job'     = [job EXCEPT ![r] = TRUE]
          /\ Goto(r, k, "final")
     ELSE /\ Goto(r, k, IF status[r] = "cancel_requested"
                        THEN "cancelling" ELSE "final")
          /\ UNCHANGED <<status, owner, lease, cleanup, outcome, job>>
  /\ UNCHANGED <<latest, started, output, last, executed>>

-----------------------------------------------------------------------------
(* The runtime shared by the runs, and the end of an invocation            *)

(* _release_runtime_if_idle: under an advisory lock, when no other run of  *)
(* the scope is active, the sandbox is destroyed and the fence lowered.    *)
(* Mutant: the subagents in the scope are forgotten.                       *)
ScopeIdle_TopLevel(r) == \A q \in Runs \ {r} : TopLevel(q) => ~Active(q)

ScopeIdle(r) == \A q \in Runs \ {r} : ~Active(q)

LowerFence(r) == cleanup' = [cleanup EXCEPT ![r] = FALSE]

(* reconcile_pending_runtime_cleanups, or the delivery that waits for it.  *)
ReleaseRuntime(r) ==
  /\ cleanup[r]
  /\ ScopeIdle(r)
  /\ LowerFence(r)
  /\ UNCHANGED <<latest, status, owner, lease, started, output, last, outcome, job,
                 pc, executed>>

(* The release before the end event is published.  When it is not possible *)
(* (active children, the provisioner fails) RuntimeCleanupPendingError     *)
(* asks ARQ to deliver the run again: Abandon.                             *)
CloseRun(r, k) ==
  /\ pc[r][k] = "closing"
  /\ cleanup[r] => ScopeIdle(r)
  /\ LowerFence(r)
  /\ Goto(r, k, "final")
  /\ UNCHANGED <<latest, status, owner, lease, started, output, last, outcome, job,
                 executed>>

(* The finally block of process_agent_run.                                 *)
Finally(r, k) ==
  /\ pc[r][k] = "final"
  /\ IF status[r] \in Terminal THEN FinishExecutionTreeChildren(r)
     ELSE UNCHANGED <<status, outcome>>
  /\ Goto(r, k, "done")
  /\ UNCHANGED <<latest, owner, lease, started, cleanup, output, last, job, executed>>

(* A handler is interrupted in its turn, or cannot reach the database or   *)
(* the provisioner: the exception leaves through the finally block and ARQ *)
(* may deliver the run again.                                              *)
Abandon(r, k) ==
  /\ pc[r][k] \in {"stopping", "cancelling", "giveup", "closing"}
  /\ Goto(r, k, "final")
  /\ job' = [job EXCEPT ![r] = TRUE]
  /\ UNCHANGED <<latest, status, owner, lease, started, cleanup, output, last,
                 outcome, executed>>

(* The process dies; ARQ runs the message again.                           *)
Crash(r, k) ==
  /\ pc[r][k] \in Busy
  /\ Goto(r, k, "dead")
  /\ job' = [job EXCEPT ![r] = TRUE]
  /\ UNCHANGED <<latest, status, owner, lease, started, cleanup, output, last,
                 outcome, executed>>

-----------------------------------------------------------------------------
(* Time, the user and the reconciler                                       *)

(* A quarter of the lease (heartbeat) and then the rest of it pass.        *)
LeaseAges(r) ==
  /\ lease[r] \in LiveLease
  /\ lease' = [lease EXCEPT ![r] = IF @ = "fresh" THEN "aging" ELSE "expired"]
  /\ UNCHANGED <<latest, status, owner, started, cleanup, output, last, outcome, job,
                 pc, executed>>

(* request_cancel_execution_tree; the HTTP route cascades, the tool that   *)
(* stops a subagent run does not.                                          *)
RequestCancel(r, cascade) ==
  LET asked == IF ~Active(r) THEN status
               ELSE [status EXCEPT ![r] = IF Unstarted(r) THEN "cancelled"
                                          ELSE "cancel_requested"]
  IN
  /\ status[r] # "absent"
  /\ status'  = IF cascade THEN CancelledStatus(asked, r) ELSE asked
  /\ outcome' = IF cascade THEN CancelledOutcome(outcome, r) ELSE outcome
  /\ cleanup' = [cleanup EXCEPT ![r] = @ /\ ~Unstarted(r)]
  /\ UNCHANGED <<latest, owner, lease, started, output, last, job, pc, executed>>

(* Mutants: only what a worker owns is looked at; a run whose cancellation *)
(* was requested is left to its worker.                                    *)
Ownerless_Running(r) == status[r] = "running" /\ lease[r] = "expired"

Ownerless_Owned(r) == status[r] \in Leased /\ owner[r] # 0 /\ lease[r] = "expired"

(* A run whose owner is gone: its lease is over, or its cancellation was   *)
(* requested between two attempts.                                         *)
Ownerless(r) ==
  \/ status[r] = "running" /\ lease[r] \in {"none", "expired"}
  \/ status[r] = "cancel_requested" /\ owner[r] # 0 /\ lease[r] \in {"none", "expired"}
  \/ status[r] = "cancel_requested" /\ owner[r] = 0 /\ started[r]

(* reconcile_expired_leases.  The code takes the rows of one query, the    *)
(* parents first, and skips locked ones: one run at a time reaches the     *)
(* same states.                                                            *)
ReconcileExpiredLease(r) ==
  /\ Ownerless(r)
  /\ status'  = CancelledStatus([status EXCEPT ![r] = "failed"], r)
  /\ owner'   = [owner EXCEPT ![r] = 0]
  /\ lease'   = [lease EXCEPT ![r] = "none"]
  /\ cleanup' = [cleanup EXCEPT ![r] = TopLevel(r)]
  /\ outcome' = CancelledOutcome(
                  [outcome EXCEPT ![r] = CloseOpenAttempts(@, "lease_expired")], r)
  /\ UNCHANGED <<latest, started, output, last, job, pc, executed>>

-----------------------------------------------------------------------------
Create(r) == CreateChat(r) \/ CreateResume(r) \/ CreateSubagent(r)

Deliver(r) == MarkRunning(r) \/ ClaimRefused(r) \/ RedeliverTerminal(r)

(* What an invocation does by itself when it is not interrupted.           *)
Proceed(r, k) ==
  \/ CheckBudget(r, k)
  \/ FailPreparation(r, k)
  \/ RecordManifest(r, k)
  \/ StartExecution(r, k)
  \/ CommitOutput(r, k)
  \/ FinishRun(r, k)
  \/ FinishRunRefused(r, k)
  \/ ConfirmUserCancel(r, k)
  \/ FinishUserCancel(r, k)
  \/ FinishNonretryableFailure(r, k)
  \/ ReleaseLeaseForRetry(r, k)
  \/ CloseRun(r, k)
  \/ Finally(r, k)

Attempt(r, k) ==
  \/ Proceed(r, k)
  \/ SetOutputMessage(r, k)
  \/ RenewLease(r, k)
  \/ LoseLease(r, k)
  \/ Interrupt(r, k)
  \/ FailUnexpectedly(r, k)
  \/ Abandon(r, k)
  \/ Crash(r, k)

Environment(r) ==
  \/ EnqueueAgentRun(r)
  \/ LoseJob(r)
  \/ LeaseAges(r)
  \/ \E cascade \in BOOLEAN : RequestCancel(r, cascade)
  \/ ReconcileExpiredLease(r)
  \/ ReleaseRuntime(r)

Next ==
  \E r \in Runs :
    \/ Create(r)
    \/ Deliver(r)
    \/ Environment(r)
    \/ \E k \in AttemptNos : Attempt(r, k)

Spec == Init /\ [][Next]_vars

(* The code's reasons to make progress.  An invocation ends: job_timeout   *)
(* cancels one that does not.  Time passes.  The cron jobs and startup run *)
(* the reconcilers and the recovery of pending runs again and again, and   *)
(* the provisioner does not fail for ever.  ARQ may lose messages, but not *)
(* all of them.                                                            *)
Fairness ==
  \A r \in Runs :
    /\ \A k \in AttemptNos : WF_vars(Proceed(r, k))
    /\ WF_vars(LeaseAges(r))
    /\ WF_vars(ReconcileExpiredLease(r))
    /\ WF_vars(ReleaseRuntime(r))
    /\ WF_vars(EnqueueAgentRun(r))
    /\ SF_vars(MarkRunning(r))

FairSpec == Spec /\ Fairness

-----------------------------------------------------------------------------
(* Properties                                                              *)

(* The run's columns and the attempts table agree whatever crashes,        *)
(* reclaims and cascades happen: an attempt is open exactly while it owns  *)
(* the run, a running run is owned and an owned run has a lease.           *)
OwnershipMatchesAttempts ==
  \A r \in Runs :
    /\ \A k \in AttemptNos : (outcome[r][k] = "open") <=> (owner[r] = k)
    /\ status[r] = "running" => owner[r] # 0
    /\ owner[r] # 0 => status[r] \in Leased
    /\ (owner[r] = 0) <=> (lease[r] = "none")

(* An execution whose effects may have happened is never repeated: once an *)
(* attempt started to execute, the run makes no other attempt              *)
(* (execution_outcome_unknown).                                            *)
NoReplay ==
  \A r \in Runs, k \in AttemptNos : executed[r][k] => k = last[r]

(* A run that keeps losing its worker before it executes stops after       *)
(* max_tries attempts, counted in the table and not by ARQ.                *)
AttemptBudget == \A r \in Runs : last[r] <= MaxTries

(* A completed run has an answer, and the attempt that executed it is the  *)
(* one recorded as having completed it.                                    *)
CompletedByItsExecution ==
  \A r \in Runs : status[r] = "completed" =>
    /\ output[r]
    /\ executed[r][last[r]]
    /\ outcome[r][last[r]] = "completed"

(* The Conversation's own thread runs one thing at a time, and nothing     *)
(* runs in it until the runtime of the run before has been cleaned up.     *)
ThreadExclusive ==
  \A q, r \in Runs : q # r /\ TopLevel(q) /\ TopLevel(r) /\ Active(r) =>
    ~Active(q) /\ ~cleanup[q]

(* A subagent run that is not asked to stop has a creator that still runs: *)
(* when the creator ends, in whatever way, its tree is closed with it.     *)
TreeClosed ==
  \A c \in Runs : Kind[c] = "subagent" /\ status[c] \in {"pending", "running"} =>
    status[Creator[c]] \in Leased

(* What was written at the end stays: a terminal status and the outcome of *)
(* a closed attempt are never overwritten by a late worker, a cascade, a   *)
(* cancellation or a reconciler.                                           *)
KeepsEnds(r) ==
  /\ status[r] \in Terminal => status'[r] = status[r]
  /\ \A k \in AttemptNos : outcome[r][k] \notin {"none", "open"} =>
       outcome'[r][k] = outcome[r][k]

EndsAreFinal == [][\A r \in Runs : KeepsEnds(r)]_vars

(* A requested cancellation ends in cancelled, unless the worker that had  *)
(* to confirm it is gone: nothing completes, interrupts or restarts it.    *)
HonoursCancel(r) ==
  status[r] = "cancel_requested" /\ status'[r] # status[r] =>
    \/ status'[r] = "cancelled"
    \/ status'[r] = "failed" /\ Ownerless(r)

CancellationWins == [][\A r \in Runs : HonoursCancel(r)]_vars

(* The sandbox is not destroyed under an attempt that holds its lease, of  *)
(* whatever run of the scope.  An attempt that has lost its lease and      *)
(* executes on all the same has no claim to it: the code lets the cleanup  *)
(* of its run go ahead.                                                    *)
RuntimeKeptWhileUsed ==
  [][\A r \in Runs : cleanup[r] /\ ~cleanup'[r] =>
       \A q \in Runs, k \in AttemptNos : ~IsLiveOwner(q, k)]_vars

(* Every run that exists comes to an end, and its runtime is released.     *)
EveryRunEnds ==
  \A r \in Runs :
    status[r] # "absent" ~> (status[r] \in Terminal /\ ~cleanup[r])

(* "interrupted: waiting for the user's answer, can be recovered by a      *)
(* resume request" and "only an explicit user cancellation converges to    *)
(* cancelled" (docs/mechanisms/agent-request-queue.md): a resume run is    *)
(* stopped by a cancellation only if a user asks for it.                   *)
ResumeCancelledByUser ==
  [][\A r \in Runs :
       Kind[r] = "resume" /\ status[r] = "pending" /\ status'[r] = "cancelled" =>
         \E q \in Runs, c \in BOOLEAN : RequestCancel(q, c)]_vars
=============================================================================
