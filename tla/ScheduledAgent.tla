--------------------------- MODULE ScheduledAgent ---------------------------
(***************************************************************************)
(* Scheduled agents of one user (scheduled_agent_service.py and            *)
(* scheduled_agent_repository.py): jobs that become due, the occurrences   *)
(* (rows of scheduled_agent_runs) they produce, and the invocations that   *)
(* hand an occurrence to submit_agent_request.                             *)
(*                                                                         *)
(* An occurrence is claimed in one transaction and dispatched in two more: *)
(* submit_agent_request commits the session it is given, and with it gives *)
(* the occurrence's row lock away before the occurrence is recorded as     *)
(* submitted.  Whoever dispatches it in between finds it dispatching.      *)
(*                                                                         *)
(* Every occurrence has a request id and a thread of its own, so that its  *)
(* request is dispatched at once and `exec' is the state of its run.       *)
(***************************************************************************)
EXTENDS Naturals, FiniteSets

CONSTANTS
  Jobs,            \* ids of scheduled_agent_jobs
  Workers,         \* worker loops and API handlers that may dispatch
  MaxOccurrences   \* how many occurrences are ever recorded; bounds the model

ASSUME OccurrencesAssumption == MaxOccurrences \in Nat

Occurrences == 1..MaxOccurrences

VARIABLES
  job,     \* the rows of scheduled_agent_jobs; due is next_run_at <= now
  occ,     \* the rows of scheduled_agent_runs
  exec,    \* the AgentRunRequest of an occurrence and what became of its run
  at,      \* where an invocation of dispatch_scheduled_run is
  orphan   \* history: recorded as cancelled when the request was there

vars == <<job, occ, exec, at, orphan>>

Absent == [status |-> "absent", job |-> "none", manual |-> FALSE]
Idle   == [pc |-> "idle", occ |-> 0]

Settled == {"submitted", "skipped", "failed", "cancelled"}

TypeOK ==
  /\ job \in [Jobs -> [state : {"absent", "on", "off", "deleted", "gone"},
                       due : BOOLEAN]]
  /\ occ \in [Occurrences ->
                [status : {"absent", "dispatching", "gone"} \cup Settled,
                 job : Jobs \cup {"none"}, manual : BOOLEAN]]
  /\ exec \in [Occurrences -> {"none", "active", "over", "interrupted", "resumed"}]
  /\ at \in [Workers ->
               {Idle} \cup [pc : {"called", "locked", "saved", "refused", "broken"},
                           occ : Occurrences]]
  /\ orphan \subseteq Occurrences

Init ==
  /\ job = [j \in Jobs |-> [state |-> "absent", due |-> FALSE]]
  /\ occ = [o \in Occurrences |-> Absent]
  /\ exec = [o \in Occurrences |-> "none"]
  /\ at = [w \in Workers |-> Idle]
  /\ orphan = {}

-----------------------------------------------------------------------------
(* The jobs                                                                *)

Present(j) == job[j].state \in {"on", "off"}

JobOnly == UNCHANGED <<occ, exec, at, orphan>>

(* create_scheduled_job; a replay of the creation request changes nothing. *)
CreateJob(j) ==
  /\ job[j].state = "absent"
  /\ \E s \in {"on", "off"} : job' = [job EXCEPT ![j].state = s]
  /\ JobOnly

(* update_scheduled_job: switched on again or given another plan, the job  *)
(* is due from now on only.                                                *)
UpdateJob(j) ==
  /\ Present(j)
  /\ \E s \in {"on", "off"}, replanned \in BOOLEAN :
       job' = [job EXCEPT ![j] =
                 [state |-> s,
                  due |-> @.due /\ ~replanned /\ ~(s = "on" /\ @.state = "off")]]
  /\ JobOnly

(* delete_scheduled_job: the occurrences stay.                             *)
DeleteJob(j) ==
  /\ Present(j)
  /\ job' = [job EXCEPT ![j].state = "deleted"]
  /\ JobOnly

TimePasses(j) ==
  /\ Present(j)
  /\ job' = [job EXCEPT ![j].due = TRUE]
  /\ JobOnly

-----------------------------------------------------------------------------
(* Recording an occurrence                                                 *)

RequestExists(o) == exec[o] # "none"

(* Mutant: only occurrences that are not handed over yet count.            *)
HasActiveRun_Dispatching(j) ==
  \E o \in Occurrences : occ[o].job = j /\ occ[o].status = "dispatching"

(* has_active_run: it looks at the run the request was dispatched as, not  *)
(* at one that resumes it.                                                 *)
HasActiveRun(j) ==
  \E o \in Occurrences :
    /\ occ[o].job = j
    /\ \/ occ[o].status = "dispatching"
       \/ occ[o].status = "submitted" /\ exec[o] \in {"none", "active"}

(* _new_scheduled_run and the commit; the caller goes on to dispatch it.   *)
RecordOccurrence(w, j, manual) ==
  LET o == Cardinality({p \in Occurrences : occ[p].status # "absent"}) + 1
      s == IF HasActiveRun(j) THEN "skipped" ELSE "dispatching"
  IN
  /\ at[w] = Idle
  /\ o \in Occurrences
  /\ occ' = [occ EXCEPT ![o] = [status |-> s, job |-> j, manual |-> manual]]
  /\ at' = [at EXCEPT ![w] = IF s = "dispatching" THEN [pc |-> "called", occ |-> o] ELSE Idle]
  /\ UNCHANGED <<exec, orphan>>

(* _claim_due_run under the job's row lock.                                *)
ClaimDueRun(w, j) ==
  /\ job[j].state = "on"
  /\ job[j].due
  /\ job' = [job EXCEPT ![j].due = FALSE]
  /\ RecordOccurrence(w, j, FALSE)

(* The same, when no next time can be computed for the job's plan.         *)
ClaimBrokenPlan(j) ==
  /\ job[j].state = "on"
  /\ job[j].due
  /\ job' = [job EXCEPT ![j].state = "off"]
  /\ JobOnly

(* run_scheduled_job_now with a request id of its own; the job may be off. *)
RunJobNow(w, j) ==
  /\ Present(j)
  /\ RecordOccurrence(w, j, TRUE)
  /\ UNCHANGED job

(* dispatch_scheduled_run is called for an occurrence that is recorded.    *)
CallDispatch(w, o) ==
  /\ at[w] = Idle
  /\ occ[o].status = "dispatching"
  /\ at' = [at EXCEPT ![w] = [pc |-> "called", occ |-> o]]
  /\ UNCHANGED <<job, occ, exec, orphan>>

(* run_scheduled_job_now with a request id it has seen before.             *)
ReplayRunNow(w, o) ==
  /\ occ[o].status = "dispatching"
  /\ occ[o].manual
  /\ Present(occ[o].job)
  /\ CallDispatch(w, o)

(* Mutant: only the occurrences that the plan has produced are recovered.  *)
RecoverDispatch_Planned(w, o) == ~occ[o].manual /\ CallDispatch(w, o)

(* recover_scheduled_dispatches, at startup and every reconciliation.  It  *)
(* leaves out occurrences younger than 30 seconds, which says nothing of   *)
(* how long ago somebody began to dispatch one.                            *)
RecoverDispatch(w, o) == CallDispatch(w, o)

-----------------------------------------------------------------------------
(* dispatch_scheduled_run                                                  *)

RowFree(o) == \A w \in Workers : at[w].pc = "locked" => at[w].occ # o

Goto(w, p) == at' = [at EXCEPT ![w].pc = p]
Done(w)    == at' = [at EXCEPT ![w] = Idle]

Set(o, s) == occ' = [occ EXCEPT ![o].status = s]

(* The row is locked and the occurrence judged by what the job is now.     *)
LockOccurrence(w) ==
  LET o == at[w].occ
      stopped == ~occ[o].manual /\ job[occ[o].job].state # "on"
  IN
  /\ at[w].pc = "called"
  /\ RowFree(o)
  /\ IF occ[o].status # "dispatching"
     THEN Done(w) /\ UNCHANGED <<occ, orphan>>
     ELSE IF stopped
     THEN /\ Set(o, "cancelled")
          /\ orphan' = IF RequestExists(o) THEN orphan \cup {o} ELSE orphan
          /\ Done(w)
     ELSE Goto(w, "locked") /\ UNCHANGED <<occ, orphan>>
  /\ UNCHANGED <<job, exec>>

(* _validate_project, _validate_agent or submit_agent_request answers with *)
(* an HTTPException; the transaction is rolled back.                       *)
Refuse(w) ==
  /\ at[w].pc = "locked"
  /\ Goto(w, "refused")
  /\ UNCHANGED <<job, occ, exec, orphan>>

(* submit_agent_request commits: the request is there, or was already.     *)
SubmitRequest(w) ==
  LET o == at[w].occ IN
  /\ at[w].pc = "locked"
  /\ exec' = [exec EXCEPT ![o] = IF RequestExists(o) THEN @ ELSE "active"]
  /\ Goto(w, "saved")
  /\ UNCHANGED <<job, occ, orphan>>

(* Any other exception, before that commit or after it.                    *)
Break(w) ==
  /\ at[w].pc \in {"locked", "saved"}
  /\ Goto(w, "broken")
  /\ UNCHANGED <<job, occ, exec, orphan>>

(* The second commit writes the row by its key, whatever it holds by now.  *)
RecordSubmitted(w) ==
  LET o == at[w].occ IN
  /\ at[w].pc = "saved"
  /\ RowFree(o)
  /\ IF occ[o].status = "gone" THEN Goto(w, "broken") /\ UNCHANGED occ
     ELSE Done(w) /\ Set(o, "submitted")
  /\ UNCHANGED <<job, exec, orphan>>

(* Mutants: the request is not looked for; an unknown error puts the       *)
(* occurrence back for the next round.                                     *)
Outcome_Blind(w, o) == IF at[w].pc = "refused" THEN "failed" ELSE occ[o].status
Outcome_PutBack(w, o) ==
  IF RequestExists(o) THEN "submitted"
  ELSE IF at[w].pc = "refused" THEN "failed" ELSE "dispatching"

(* What _settle_dispatch_error makes of the occurrence.                    *)
Outcome(w, o) ==
  IF occ[o].status # "dispatching" THEN occ[o].status
  ELSE IF RequestExists(o) THEN "submitted"
  ELSE IF at[w].pc = "refused" THEN "failed"
  ELSE "dispatching"

SettleDispatchError(w) ==
  LET o == at[w].occ IN
  /\ at[w].pc \in {"refused", "broken"}
  /\ RowFree(o)
  /\ Set(o, Outcome(w, o))
  /\ Done(w)
  /\ UNCHANGED <<job, exec, orphan>>

(* The process dies; an open transaction is rolled back.                   *)
Crash(w) ==
  /\ at[w] # Idle
  /\ Done(w)
  /\ UNCHANGED <<job, occ, exec, orphan>>

-----------------------------------------------------------------------------
(* Around it                                                               *)

(* The account is deleted, and with it the jobs and their occurrences; the *)
(* row of the user is locked while a request is submitted.                 *)
DeleteAccount ==
  /\ \A w \in Workers : at[w].pc # "locked"
  /\ \E j \in Jobs : job[j].state \in {"on", "off", "deleted"}
  /\ job' = [j \in Jobs |-> [state |-> "gone", due |-> FALSE]]
  /\ occ' = [o \in Occurrences |->
               IF occ[o].status = "absent" THEN occ[o] ELSE [occ[o] EXCEPT !.status = "gone"]]
  /\ UNCHANGED <<exec, at, orphan>>

RunStops(o) ==
  /\ exec[o] \in {"active", "resumed"}
  /\ \E e \in {"over", "interrupted"} : exec' = [exec EXCEPT ![o] = e]
  /\ UNCHANGED <<job, occ, at, orphan>>

ResumeRun(o) ==
  /\ exec[o] = "interrupted"
  /\ exec' = [exec EXCEPT ![o] = "resumed"]
  /\ UNCHANGED <<job, occ, at, orphan>>

JobAction(j) ==
  \/ CreateJob(j)
  \/ UpdateJob(j)
  \/ DeleteJob(j)
  \/ TimePasses(j)
  \/ ClaimBrokenPlan(j)

Call(w) ==
  \/ \E j \in Jobs : ClaimDueRun(w, j) \/ RunJobNow(w, j)
  \/ \E o \in Occurrences : ReplayRunNow(w, o) \/ RecoverDispatch(w, o)

Dispatch(w) ==
  \/ LockOccurrence(w)
  \/ Refuse(w)
  \/ SubmitRequest(w)
  \/ RecordSubmitted(w)
  \/ SettleDispatchError(w)

Next ==
  \/ \E j \in Jobs : JobAction(j)
  \/ \E w \in Workers : Call(w) \/ Dispatch(w) \/ Break(w) \/ Crash(w)
  \/ DeleteAccount
  \/ \E o \in Occurrences : RunStops(o) \/ ResumeRun(o)

Spec == Init /\ [][Next]_vars

(* An invocation goes on, and the recovery comes again and again to every  *)
(* occurrence that is still dispatching.  Invocations may break or die any *)
(* number of times, but not for ever.                                      *)
Trouble == \E w \in Workers : Break(w) \/ Crash(w)

Fairness ==
  /\ \A w \in Workers : WF_vars(Dispatch(w))
  /\ \A o \in Occurrences : WF_vars(\E w \in Workers : RecoverDispatch(w, o))
  /\ <>[][~Trouble]_vars

FairSpec == Spec /\ Fairness

-----------------------------------------------------------------------------
(* Properties                                                              *)

(* An occurrence recorded as failed or skipped has no request, and never   *)
(* gets one: whoever fails looks for the request that a crashed or slower  *)
(* invocation may have left.                                               *)
FailedNeverExecuted ==
  \A o \in Occurrences : occ[o].status \in {"failed", "skipped"} => exec[o] = "none"

(* Two executions of one job never run at the same time, but for the two   *)
(* kinds that has_active_run does not see: a run that was interrupted and  *)
(* resumed, and one whose occurrence was cancelled after its submission.   *)
NoOverlap ==
  \A o, p \in Occurrences :
    /\ o # p
    /\ occ[o].job = occ[p].job
    /\ exec[o] = "active"
    /\ exec[p] = "active"
    => o \in orphan \/ p \in orphan

(* What is recorded of a settled occurrence stays, with one exception: an  *)
(* invocation that has submitted it overwrites a cancellation.             *)
SettledStaysSettled ==
  [][\A o \in Occurrences :
       occ[o].status \in Settled /\ occ'[o].status \notin {occ[o].status, "gone"} =>
         occ[o].status = "cancelled" /\ occ'[o].status = "submitted" /\ exec[o] # "none"]_vars

(* A claimed occurrence is settled in the end, whatever dies on the way,   *)
(* when the trouble that makes its submission raise comes to an end.       *)
EveryOccurrenceSettles ==
  \A o \in Occurrences : occ[o].status = "dispatching" ~> occ[o].status # "dispatching"
=============================================================================
