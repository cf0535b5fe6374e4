--------------------------- MODULE AgentRun_proofs ---------------------------
(* Theorems about AgentRun for every set of runs of a Conversation and     *)
(* every attempt budget.                                                   *)
EXTENDS AgentRun, TLAPS

-----------------------------------------------------------------------------
(* The operators                                                           *)

(* The cascade types: rows stay rows.                                      *)
LEMMA CascadeType ==
  ASSUME TypeOK, NEW r \in Runs,
         NEW st \in [Runs -> RunStatus],
         NEW oc \in [Runs -> [AttemptNos -> Outcomes]]
  PROVE  /\ CancelledStatus(st, r) \in [Runs -> RunStatus]
         /\ CancelledOutcome(oc, r) \in [Runs -> [AttemptNos -> Outcomes]]
<1>1. CancelledStatus(st, r) \in [Runs -> RunStatus]
  BY DEF CancelledStatus, RunStatus, Terminal, Leased
<1>2. \A c \in Runs : CloseOpenAttempts(oc[c], "cancelled") \in [AttemptNos -> Outcomes]
  BY DEF CloseOpenAttempts, Outcomes, Terminal
<1>3. CancelledOutcome(oc, r) \in [Runs -> [AttemptNos -> Outcomes]]
  BY <1>2 DEF CancelledOutcome
<1> QED BY <1>1, <1>3

(* Closing an attempt keeps the table's vocabulary.                        *)
LEMMA FinishAttemptType ==
  ASSUME TypeOK, NEW r \in Runs, NEW k \in AttemptNos, NEW o \in Outcomes
  PROVE  FinishAttempt(r, k, o) \in [Runs -> [AttemptNos -> Outcomes]]
BY DEF TypeOK, FinishAttempt

(* A terminal transition of any attempt types.                             *)
LEMMA SetTerminalType ==
  ASSUME TypeOK, NEW r \in Runs, NEW k \in AttemptNos, NEW s \in Terminal,
         SetTerminal(r, k, s)
  PROVE  /\ status' \in [Runs -> RunStatus]
         /\ owner' \in [Runs -> {0} \cup AttemptNos]
         /\ lease' \in [Runs -> LiveLease \cup {"none", "expired"}]
         /\ cleanup' \in [Runs -> BOOLEAN]
         /\ outcome' \in [Runs -> [AttemptNos -> Outcomes]]
<1> DEFINE st == [status EXCEPT ![r] = s]
<1>1. st \in [Runs -> RunStatus]
  BY DEF TypeOK, RunStatus
<1>2. s \in Outcomes
  BY DEF Outcomes
<1>3. FinishAttempt(r, k, s) \in [Runs -> [AttemptNos -> Outcomes]]
  BY <1>2, FinishAttemptType
<1>4. /\ CancelledStatus(st, r) \in [Runs -> RunStatus]
      /\ CancelledOutcome(FinishAttempt(r, k, s), r)
           \in [Runs -> [AttemptNos -> Outcomes]]
  <2> HIDE DEF st
  <2> QED BY <1>1, <1>3, CascadeType
<1>5. TopLevel(r) \in BOOLEAN
  BY DEF TopLevel
<1> QED BY <1>4, <1>5 DEF SetTerminal, TypeOK

-----------------------------------------------------------------------------
(* Type correctness                                                        *)

(* The empty tables are well typed.                                        *)
LEMMA TypeInit == Init => TypeOK
BY DEF Init, TypeOK, RunStatus, LiveLease, Outcomes, PCs

(* Every step keeps the types.                                             *)
LEMMA TypeStep == TypeOK /\ [Next]_vars => TypeOK'
<1> SUFFICES ASSUME TypeOK, [Next]_vars PROVE TypeOK'
  OBVIOUS
<1> USE DEF RunStatus, Terminal, Leased, LiveLease, PCs, Busy, Working
<1>1. ASSUME NEW r \in Runs, Create(r) PROVE TypeOK'
  BY <1>1 DEF Create, CreateChat, CreateResume, CreateSubagent, CreateRow, TypeOK
<1>2. ASSUME NEW r \in Runs, Deliver(r) PROVE TypeOK'
  <2>1. CASE MarkRunning(r)
    <3> DEFINE k == last[r] + 1
    <3>1. k \in AttemptNos
      BY <2>1 DEF MarkRunning
    <3>2. CloseOpenAttempts(outcome[r], "lease_expired") \in [AttemptNos -> Outcomes]
      BY DEF CloseOpenAttempts, Outcomes, TypeOK
    <3>3. [CloseOpenAttempts(outcome[r], "lease_expired") EXCEPT ![k] = "open"]
            \in [AttemptNos -> Outcomes]
      BY <3>2 DEF Outcomes
    <3>4. outcome' \in [Runs -> [AttemptNos -> Outcomes]]
      BY <2>1, <3>3 DEF MarkRunning, TypeOK
    <3>5. pc' \in [Runs -> [AttemptNos -> PCs]]
      BY <2>1, <3>1 DEF MarkRunning, Goto, TypeOK
    <3> QED BY <2>1, <3>1, <3>4, <3>5 DEF MarkRunning, TypeOK
  <2>2. CASE ClaimRefused(r)
    BY <2>2 DEF ClaimRefused, TypeOK
  <2>3. CASE RedeliverTerminal(r)
    <3>1. job' \in [Runs -> BOOLEAN]
      BY <2>3 DEF RedeliverTerminal, TypeOK
    <3>2. /\ status' \in [Runs -> RunStatus]
          /\ outcome' \in [Runs -> [AttemptNos -> Outcomes]]
      BY <2>3, CascadeType DEF RedeliverTerminal, FinishExecutionTreeChildren, TypeOK
    <3> QED BY <2>3, <3>1, <3>2 DEF RedeliverTerminal, TypeOK
  <2> QED BY <1>2, <2>1, <2>2, <2>3 DEF Deliver
<1>3. ASSUME NEW r \in Runs, Environment(r) PROVE TypeOK'
  <2>1. CASE EnqueueAgentRun(r)
    BY <2>1 DEF EnqueueAgentRun, TypeOK
  <2>2. CASE LoseJob(r)
    BY <2>2 DEF LoseJob, TypeOK
  <2>3. CASE LeaseAges(r)
    BY <2>3 DEF LeaseAges, TypeOK
  <2>4. ASSUME NEW cascade \in BOOLEAN, RequestCancel(r, cascade) PROVE TypeOK'
    <3> DEFINE asked == IF ~Active(r) THEN status
                        ELSE [status EXCEPT ![r] = IF Unstarted(r) THEN "cancelled"
                                                   ELSE "cancel_requested"]
    <3>1. asked \in [Runs -> RunStatus]
      BY DEF TypeOK
    <3>2. status' = IF cascade THEN CancelledStatus(asked, r) ELSE asked
      BY <2>4 DEF RequestCancel
    <3> HIDE DEF asked
    <3>3. status' \in [Runs -> RunStatus]
      BY <3>1, <3>2, CascadeType DEF TypeOK
    <3>4. outcome' \in [Runs -> [AttemptNos -> Outcomes]]
      BY <2>4, CascadeType DEF RequestCancel, TypeOK
    <3>5. cleanup' \in [Runs -> BOOLEAN]
      BY <2>4 DEF RequestCancel, TypeOK, Unstarted
    <3> QED BY <2>4, <3>3, <3>4, <3>5 DEF RequestCancel, TypeOK
  <2>5. CASE ReconcileExpiredLease(r)
    <3> DEFINE st == [status EXCEPT ![r] = "failed"]
               oc == [outcome EXCEPT ![r] = CloseOpenAttempts(@, "lease_expired")]
    <3>1. st \in [Runs -> RunStatus]
      BY DEF TypeOK
    <3>2. CloseOpenAttempts(outcome[r], "lease_expired") \in [AttemptNos -> Outcomes]
      BY DEF CloseOpenAttempts, Outcomes, TypeOK
    <3>3. oc \in [Runs -> [AttemptNos -> Outcomes]]
      BY <3>2 DEF TypeOK
    <3>4. status' = CancelledStatus(st, r) /\ outcome' = CancelledOutcome(oc, r)
      BY <2>5 DEF ReconcileExpiredLease
    <3> HIDE DEF st, oc
    <3>5. /\ status' \in [Runs -> RunStatus]
          /\ outcome' \in [Runs -> [AttemptNos -> Outcomes]]
      BY <3>1, <3>3, <3>4, CascadeType
    <3>6. cleanup' \in [Runs -> BOOLEAN]
      BY <2>5 DEF ReconcileExpiredLease, TypeOK, TopLevel
    <3> QED BY <2>5, <3>5, <3>6 DEF ReconcileExpiredLease, TypeOK
  <2>6. CASE ReleaseRuntime(r)
    BY <2>6 DEF ReleaseRuntime, LowerFence, TypeOK
  <2> QED BY <1>3, <2>1, <2>2, <2>3, <2>4, <2>5, <2>6 DEF Environment
<1>4. ASSUME NEW r \in Runs, NEW k \in AttemptNos, Attempt(r, k) PROVE TypeOK'
  <2>1. ASSUME NEW p \in PCs, Goto(r, k, p) PROVE pc' \in [Runs -> [AttemptNos -> PCs]]
    BY <2>1 DEF Goto, TypeOK
  <2>2. CASE CheckBudget(r, k)
    BY <2>1, <2>2 DEF CheckBudget, TypeOK
  <2>3. CASE FailPreparation(r, k)
    <3>1. pc' \in [Runs -> [AttemptNos -> PCs]]
      BY <2>1, <2>3 DEF FailPreparation
    <3>2. CASE MaySetTerminal(r, k, "failed")
      BY <2>3, <3>1, <3>2, SetTerminalType DEF FailPreparation, TypeOK
    <3>3. CASE ~MaySetTerminal(r, k, "failed")
      BY <2>3, <3>1, <3>3 DEF FailPreparation, TypeOK
    <3> QED BY <3>2, <3>3
  <2>4. CASE RecordManifest(r, k)
    BY <2>1, <2>4 DEF RecordManifest, TypeOK
  <2>5. CASE StartExecution(r, k)
    <3>1. pc' \in [Runs -> [AttemptNos -> PCs]]
      BY <2>1, <2>5 DEF StartExecution
    <3>2. executed \in [Runs -> [AttemptNos -> BOOLEAN]]
      BY DEF TypeOK
    <3>3. executed' \in {executed, [executed EXCEPT ![r][k] = TRUE]}
      BY <2>5 DEF StartExecution
    <3>4. [executed[r] EXCEPT ![k] = TRUE] \in [AttemptNos -> BOOLEAN]
      BY <3>2
    <3>5. [executed EXCEPT ![r][k] = TRUE] \in [Runs -> [AttemptNos -> BOOLEAN]]
      BY <3>2, <3>4
    <3>6. executed' \in [Runs -> [AttemptNos -> BOOLEAN]]
      BY <3>2, <3>3, <3>5
    <3> QED BY <2>5, <3>1, <3>6 DEF StartExecution, TypeOK
  <2>6. CASE CommitOutput(r, k)
    <3>1. pc' \in [Runs -> [AttemptNos -> PCs]]
      BY <2>1, <2>6 DEF CommitOutput
    <3> QED BY <2>6, <3>1, SetTerminalType DEF CommitOutput, TypeOK
  <2>7. CASE FinishRun(r, k)
    <3>1. pc' \in [Runs -> [AttemptNos -> PCs]]
      BY <2>1, <2>7 DEF FinishRun
    <3> QED BY <2>7, <3>1, SetTerminalType DEF FinishRun, TypeOK
  <2>8. CASE FinishRunRefused(r, k)
    BY <2>1, <2>8 DEF FinishRunRefused, TypeOK
  <2>9. CASE ConfirmUserCancel(r, k)
    BY <2>1, <2>9 DEF ConfirmUserCancel, TypeOK
  <2>10. CASE FinishUserCancel(r, k)
    <3>1. pc' \in [Runs -> [AttemptNos -> PCs]]
      BY <2>1, <2>10 DEF FinishUserCancel
    <3>2. CASE MaySetTerminal(r, k, "cancelled")
      BY <2>10, <3>1, <3>2, SetTerminalType DEF FinishUserCancel, TypeOK
    <3>3. CASE ~MaySetTerminal(r, k, "cancelled")
      BY <2>10, <3>1, <3>3 DEF FinishUserCancel, TypeOK
    <3> QED BY <3>2, <3>3
  <2>11. CASE FinishNonretryableFailure(r, k)
    <3>1. pc' \in [Runs -> [AttemptNos -> PCs]]
      BY <2>1, <2>11 DEF FinishNonretryableFailure
    <3>2. CASE MaySetTerminal(r, k, "failed")
      BY <2>11, <3>1, <3>2, SetTerminalType DEF FinishNonretryableFailure, TypeOK
    <3>3. CASE ~MaySetTerminal(r, k, "failed")
      BY <2>11, <3>1, <3>3 DEF FinishNonretryableFailure, TypeOK
    <3> QED BY <3>2, <3>3
  <2>12. CASE ReleaseLeaseForRetry(r, k)
    <3>1. pc' \in [Runs -> [AttemptNos -> PCs]]
      BY <2>1, <2>12 DEF ReleaseLeaseForRetry
    <3>2. CASE IsRunningOwner(r, k)
      <4> DEFINE st == [status EXCEPT ![r] = "pending"]
      <4>1. st \in [Runs -> RunStatus]
        BY DEF TypeOK
      <4>2. FinishAttempt(r, k, "retry_released") \in [Runs -> [AttemptNos -> Outcomes]]
        BY FinishAttemptType DEF Outcomes
      <4>3. /\ status' = CancelledStatus(st, r)
            /\ outcome' = CancelledOutcome(FinishAttempt(r, k, "retry_released"), r)
        BY <2>12, <3>2 DEF ReleaseLeaseForRetry
      <4> HIDE DEF st
      <4>4. /\ status' \in [Runs -> RunStatus]
            /\ outcome' \in [Runs -> [AttemptNos -> Outcomes]]
        BY <4>1, <4>2, <4>3, CascadeType
      <4>5. cleanup' \in [Runs -> BOOLEAN]
        BY <2>12, <3>2 DEF ReleaseLeaseForRetry, TypeOK, TopLevel
      <4> QED BY <2>12, <3>1, <3>2, <4>4, <4>5 DEF ReleaseLeaseForRetry, TypeOK
    <3>3. CASE ~IsRunningOwner(r, k)
      BY <2>12, <3>1, <3>3 DEF ReleaseLeaseForRetry, TypeOK
    <3> QED BY <3>2, <3>3
  <2>13. CASE CloseRun(r, k)
    <3>1. pc' \in [Runs -> [AttemptNos -> PCs]]
      BY <2>1, <2>13 DEF CloseRun
    <3> QED BY <2>13, <3>1 DEF CloseRun, LowerFence, TypeOK
  <2>14. CASE Finally(r, k)
    <3>1. pc' \in [Runs -> [AttemptNos -> PCs]]
      BY <2>1, <2>14 DEF Finally
    <3>2. /\ status' \in [Runs -> RunStatus]
          /\ outcome' \in [Runs -> [AttemptNos -> Outcomes]]
      <4>1. CASE status[r] \in Terminal
        <5>1. /\ status' = CancelledStatus(status, r)
              /\ outcome' = CancelledOutcome(outcome, r)
          BY <2>14, <4>1 DEF Finally, FinishExecutionTreeChildren
        <5> QED BY <5>1, CascadeType DEF TypeOK
      <4>2. CASE status[r] \notin Terminal
        BY <2>14, <4>2 DEF Finally, TypeOK
      <4> QED BY <4>1, <4>2
    <3> QED BY <2>14, <3>1, <3>2 DEF Finally, TypeOK
  <2>15. CASE SetOutputMessage(r, k)
    BY <2>15 DEF SetOutputMessage, TypeOK
  <2>16. CASE RenewLease(r, k)
    BY <2>16 DEF RenewLease, TypeOK
  <2>17. CASE LoseLease(r, k) \/ Interrupt(r, k)
    BY <2>1, <2>17 DEF LoseLease, Interrupt, TypeOK
  <2>18. CASE Crash(r, k) \/ Abandon(r, k)
    BY <2>1, <2>18 DEF Crash, Abandon, TypeOK
  <2>19. CASE FailUnexpectedly(r, k)
    <3>1. pc' \in [Runs -> [AttemptNos -> PCs]]
      BY <2>1, <2>19 DEF FailUnexpectedly
    <3>2. CASE MaySetTerminal(r, k, "failed")
      BY <2>19, <3>1, <3>2, SetTerminalType DEF FailUnexpectedly, TypeOK
    <3>3. CASE ~MaySetTerminal(r, k, "failed")
      BY <2>19, <3>1, <3>3 DEF FailUnexpectedly, TypeOK
    <3> QED BY <3>2, <3>3
  <2> QED
    BY <1>4, <2>2, <2>3, <2>4, <2>5, <2>6, <2>7, <2>8, <2>9, <2>10, <2>11,
       <2>12, <2>13, <2>14, <2>15, <2>16, <2>17, <2>18, <2>19
    DEF Attempt, Proceed
<1>5. CASE UNCHANGED vars
  BY <1>5 DEF vars, TypeOK
<1> QED BY <1>1, <1>2, <1>3, <1>4, <1>5 DEF Next

(* Every reachable state is one the tables and the worker can be in.       *)
THEOREM TypeCorrect == Spec => []TypeOK
<1>1. Init => TypeOK BY TypeInit
<1>2. TypeOK /\ [Next]_vars => TypeOK' BY TypeStep
<1> QED BY <1>1, <1>2, PTL DEF Spec

-----------------------------------------------------------------------------
(* The inductive invariant: what one run's row, its attempts and the       *)
(* invocations that made them know of each other                           *)

(* A row that a delivery can claim, now or once it is created.             *)
MayBeClaimed(r) ==
  \/ status[r] \in {"absent", "pending"}
  \/ status[r] = "cancel_requested" /\ owner[r] = 0

Numbered(r) ==
  /\ \A k \in AttemptNos : (outcome[r][k] = "none") <=> (k > last[r])
  /\ \A k \in AttemptNos : (pc[r][k] = "none") <=> (k > last[r])
  /\ last[r] <= MaxTries
  /\ MayBeClaimed(r) => last[r] < MaxTries

Owned(r) ==
  /\ \A k \in AttemptNos : (outcome[r][k] = "open") <=> (owner[r] = k)
  /\ status[r] = "running" => owner[r] # 0
  /\ owner[r] # 0 => status[r] \in Leased
  /\ (owner[r] = 0) <=> (lease[r] = "none")

(* An invocation that may still write is the last attempt, and owns the    *)
(* run unless the run ended without it.  That is why a row that can be     *)
(* claimed has no execution behind it.                                     *)
Once(r) ==
  /\ \A k \in AttemptNos : pc[r][k] \in Working =>
       k = last[r] /\ (owner[r] = k \/ status[r] \in Terminal)
  /\ \A k \in AttemptNos : pc[r][k] = "exec" => executed[r][k]
  /\ \A k \in AttemptNos : executed[r][k] => k = last[r]
  /\ MayBeClaimed(r) => \A k \in AttemptNos : ~executed[r][k]

Completed(r) ==
  status[r] = "completed" =>
    /\ last[r] # 0
    /\ output[r]
    /\ executed[r][last[r]]
    /\ outcome[r][last[r]] = "completed"

RunInv(r) == Numbered(r) /\ Owned(r) /\ Once(r) /\ Completed(r)

Inv == TypeOK /\ \A r \in Runs : RunInv(r)

(* What a step does to one run: the invariant again, and nothing that the  *)
(* two action properties forbid.                                           *)
StepOK(r) == RunInv(r)' /\ KeepsEnds(r) /\ HonoursCancel(r)

(* Attempts are numbered from one: 0 is the missing owner.                 *)
LEMMA AttemptNosFact == \A k \in AttemptNos : k \in Nat /\ k # 0
BY MaxTriesAssumption DEF AttemptNos

(* A cascade never reaches the run it starts from.                         *)
LEMMA NotItsDescendant == ASSUME NEW r \in Runs PROVE r \notin Descendants(r)
BY RunsAssumption DEF Descendants, ChildrenOf

(* A row the step leaves alone, or that a cascade asked to stop.           *)
SameRow(q) ==
  /\ owner'[q] = owner[q] /\ lease'[q] = lease[q]
  /\ output'[q] = output[q] /\ last'[q] = last[q]
  /\ outcome'[q] = outcome[q] /\ pc'[q] = pc[q] /\ executed'[q] = executed[q]

Cascaded(q) ==
  \/ status'[q] = status[q]
  \/ Active(q) /\ status'[q] = (IF Unstarted(q) THEN "cancelled" ELSE "cancel_requested")

(* Such a row keeps the invariant: a cascade takes no owner away.          *)
LEMMA OtherRow ==
  ASSUME TypeOK, NEW q \in Runs, RunInv(q), SameRow(q), Cascaded(q)
  PROVE  StepOK(q)
<1> USE DEF SameRow
<1>1. CASE status'[q] = status[q]
  BY <1>1 DEF StepOK, RunInv, Numbered, MayBeClaimed, Owned, Once, Completed,
              KeepsEnds, HonoursCancel
<1>2. CASE Unstarted(q) /\ status'[q] = "cancelled"
  <2>1. \A k \in AttemptNos : pc[q][k] \notin Working
    BY <1>2, AttemptNosFact DEF Unstarted, RunInv, Once, Terminal
  <2>2. RunInv(q)'
    BY <1>2, <2>1
    DEF Unstarted, RunInv, Numbered, MayBeClaimed, Owned, Once, Completed, Leased
  <2> QED BY <1>2, <2>2 DEF Unstarted, StepOK, KeepsEnds, HonoursCancel, Terminal
<1>3. CASE Active(q) /\ ~Unstarted(q) /\ status'[q] = "cancel_requested"
  <2>1. status[q] \in {"pending", "running", "cancel_requested"}
    BY <1>3 DEF TypeOK, RunStatus, Leased, Active
  <2>2. Numbered(q)' /\ Owned(q)' /\ Completed(q)'
    BY <1>3, <2>1 DEF RunInv, Numbered, MayBeClaimed, Owned, Completed, Leased
  <2>3. Once(q)'
    BY <1>3, <2>1 DEF RunInv, MayBeClaimed, Owned, Once, Terminal
  <2>4. KeepsEnds(q) /\ HonoursCancel(q)
    BY <1>3, <2>1 DEF KeepsEnds, HonoursCancel, Terminal
  <2> QED BY <2>2, <2>3, <2>4 DEF StepOK, RunInv
<1> QED BY <1>1, <1>2, <1>3 DEF Cascaded

(* A cascade spares the run it starts from, reaches active rows only, and  *)
(* finds no open attempt to close in a run that never started.             *)
LEMMA CascadeRows ==
  ASSUME TypeOK, \A q \in Runs : RunInv(q), NEW r \in Runs,
         NEW st \in [Runs -> RunStatus],
         NEW oc \in [Runs -> [AttemptNos -> Outcomes]],
         \A q \in Runs \ {r} : st[q] = status[q] /\ oc[q] = outcome[q],
         status' = CancelledStatus(st, r), outcome' = CancelledOutcome(oc, r)
  PROVE  /\ status'[r] = st[r] /\ outcome'[r] = oc[r]
         /\ \A q \in Runs \ {r} : Cascaded(q) /\ outcome'[q] = outcome[q]
<1>1. status'[r] = st[r] /\ outcome'[r] = oc[r]
  BY NotItsDescendant DEF CancelledStatus, CancelledOutcome
<1>2. ASSUME NEW q \in Runs \ {r} PROVE Cascaded(q) /\ outcome'[q] = outcome[q]
  <2>1. q \in Descendants(r) => Active(q)
    BY DEF Descendants, ChildrenOf
  <2>2. Cascaded(q)
    BY <2>1 DEF CancelledStatus, Cascaded
  <2>3. Unstarted(q) => CloseOpenAttempts(oc[q], "cancelled") = outcome[q]
    <3>1. outcome[q] \in [AttemptNos -> Outcomes] /\ oc[q] = outcome[q]
      BY DEF TypeOK
    <3>2. Unstarted(q) => \A k \in AttemptNos : outcome[q][k] # "open"
      BY AttemptNosFact DEF Unstarted, RunInv, Owned
    <3> QED BY <3>1, <3>2 DEF CloseOpenAttempts
  <2> QED BY <2>2, <2>3 DEF CancelledOutcome
<1> QED BY <1>1, <1>2

-----------------------------------------------------------------------------
(* The run an action is about                                              *)

(* An invocation that only moves: its row stays as it is, it does not come *)
(* back to work, and it says so when it starts to execute.                 *)
LEMMA MovedRow ==
  ASSUME TypeOK, NEW r \in Runs, RunInv(r), NEW k \in AttemptNos,
         NEW p \in PCs \ {"none"},
         pc[r][k] # "none",
         p \in Working => pc[r][k] \in Working,
         pc'[r] = [pc[r] EXCEPT ![k] = p],
         p = "exec" => executed'[r] = [executed[r] EXCEPT ![k] = TRUE],
         p # "exec" => executed'[r] = executed[r],
         status'[r] = status[r], owner'[r] = owner[r], lease'[r] = lease[r],
         last'[r] = last[r], outcome'[r] = outcome[r], output'[r] = output[r]
  PROVE  StepOK(r)
<1>1. /\ pc'[r][k] = p
      /\ \A j \in AttemptNos \ {k} : pc'[r][j] = pc[r][j]
  BY DEF TypeOK
<1>2. /\ executed'[r][k] <=> (executed[r][k] \/ p = "exec")
      /\ \A j \in AttemptNos \ {k} : executed'[r][j] = executed[r][j]
  <2>1. executed[r] \in [AttemptNos -> BOOLEAN]
    BY DEF TypeOK
  <2>2. CASE p = "exec"
    <3>1. executed'[r] = [executed[r] EXCEPT ![k] = TRUE]
      BY <2>2
    <3>2. executed'[r][k] = TRUE
      BY <2>1, <3>1
    <3> QED BY <2>1, <2>2, <3>1, <3>2
  <2>3. CASE p # "exec"
    BY <2>3
  <2> QED BY <2>2, <2>3
<1>3. Numbered(r)'
  BY <1>1 DEF RunInv, Numbered, MayBeClaimed
<1>4. Owned(r)'
  BY DEF RunInv, Owned
<1>5. p = "exec" => k = last[r] /\ ~MayBeClaimed(r)
  BY AttemptNosFact DEF RunInv, Once, Owned, MayBeClaimed, Working, Terminal, Leased
<1>6. /\ \A j \in AttemptNos : pc'[r][j] \in Working => pc[r][j] \in Working
      /\ MayBeClaimed(r)' <=> MayBeClaimed(r)
  BY <1>1 DEF MayBeClaimed
<1>7. Once(r)'
  <2>1. \A j \in AttemptNos : pc'[r][j] \in Working =>
          j = last'[r] /\ (owner'[r] = j \/ status'[r] \in Terminal)
    BY <1>6 DEF RunInv, Once
  <2>2. \A j \in AttemptNos : pc'[r][j] = "exec" => executed'[r][j]
    BY <1>1, <1>2 DEF RunInv, Once
  <2>3. \A j \in AttemptNos : executed'[r][j] => j = last'[r]
    BY <1>2, <1>5 DEF RunInv, Once
  <2>4. MayBeClaimed(r)' => \A j \in AttemptNos : ~executed'[r][j]
    BY <1>2, <1>5, <1>6 DEF RunInv, Once
  <2> QED BY <2>1, <2>2, <2>3, <2>4 DEF Once
<1>8. Completed(r)'
  <2>1. SUFFICES ASSUME status[r] = "completed" PROVE Completed(r)'
    BY DEF Completed
  <2>2. last[r] \in AttemptNos /\ executed[r][last[r]]
    BY <2>1 DEF RunInv, Completed, TypeOK
  <2>3. executed'[r][last[r]]
    BY <1>2, <2>2
  <2> QED BY <2>1, <2>3 DEF RunInv, Completed
<1> QED BY <1>3, <1>4, <1>7, <1>8 DEF StepOK, RunInv, KeepsEnds, HonoursCancel

(* A live owner ends its run.  Only an execution with an answer completes. *)
LEMMA EndedRow ==
  ASSUME TypeOK, NEW r \in Runs, RunInv(r), NEW k \in AttemptNos,
         NEW s \in Terminal, NEW p \in PCs \ (Working \cup {"none"}),
         IsLiveOwner(r, k),
         (status[r] = "cancel_requested") <=> (s = "cancelled"),
         s = "completed" => pc[r][k] = "exec" /\ output'[r],
         pc[r][k] # "none",
         pc'[r] = [pc[r] EXCEPT ![k] = p],
         outcome'[r] = FinishAttempt(r, k, s)[r],
         status'[r] = s, owner'[r] = 0, lease'[r] = "none",
         last'[r] = last[r], executed'[r] = executed[r]
  PROVE  StepOK(r)
<1>1. /\ pc'[r][k] = p
      /\ \A j \in AttemptNos \ {k} : pc'[r][j] = pc[r][j]
  BY DEF TypeOK
<1>2. /\ owner[r] = k /\ status[r] \in Leased
      /\ outcome[r][k] = "open"
      /\ \A j \in AttemptNos \ {k} : outcome[r][j] # "open"
  BY DEF IsLiveOwner, RunInv, Owned
<1>3. /\ outcome'[r][k] = s
      /\ \A j \in AttemptNos \ {k} : outcome'[r][j] = outcome[r][j]
  BY <1>2 DEF FinishAttempt, TypeOK
<1>4. s \notin {"none", "open", "absent", "pending", "running", "cancel_requested"}
  BY DEF Terminal
<1>5. Numbered(r)'
  <2>1. \A j \in AttemptNos : (outcome'[r][j] = "none") <=> (j > last'[r])
    BY <1>2, <1>3, <1>4 DEF RunInv, Numbered
  <2>2. \A j \in AttemptNos : (pc'[r][j] = "none") <=> (j > last'[r])
    BY <1>1 DEF RunInv, Numbered
  <2> QED BY <1>4, <2>1, <2>2 DEF RunInv, Numbered, MayBeClaimed
<1>6. Owned(r)'
  <2>1. \A j \in AttemptNos : outcome'[r][j] # "open" /\ j # 0
    BY <1>2, <1>3, <1>4, AttemptNosFact
  <2> QED BY <1>4, <2>1 DEF Owned
<1>7. Once(r)'
  <2>1. \A j \in AttemptNos : pc'[r][j] \in Working => pc[r][j] \in Working
    BY <1>1
  <2>2. \A j \in AttemptNos : pc'[r][j] = "exec" => pc[r][j] = "exec"
    BY <1>1 DEF Working
  <2> QED BY <1>4, <2>1, <2>2 DEF RunInv, Once, MayBeClaimed
<1>8. Completed(r)'
  BY <1>3, AttemptNosFact DEF RunInv, Once, Completed
<1>9. KeepsEnds(r) /\ HonoursCancel(r)
  BY <1>2, <1>3 DEF KeepsEnds, HonoursCancel, Leased, Terminal
<1> QED BY <1>5, <1>6, <1>7, <1>8, <1>9 DEF StepOK, RunInv

-----------------------------------------------------------------------------
(* The steps                                                               *)

(* Moving one invocation leaves every other one where it is.               *)
LEMMA GotoRow ==
  ASSUME TypeOK, NEW r \in Runs, NEW k \in AttemptNos, NEW p, Goto(r, k, p)
  PROVE  /\ pc'[r] = [pc[r] EXCEPT ![k] = p]
         /\ \A q \in Runs \ {r} : pc'[q] = pc[q]
BY DEF Goto, TypeOK

(* A step that moves an invocation and at most cancels descendants.        *)
LEMMA MoveStep ==
  ASSUME TypeOK, \A q \in Runs : RunInv(q), NEW r \in Runs, NEW k \in AttemptNos,
         NEW p \in PCs \ {"none"},
         pc[r][k] # "none",
         p \in Working => pc[r][k] \in Working,
         Goto(r, k, p),
         executed' = IF p = "exec" THEN [executed EXCEPT ![r][k] = TRUE] ELSE executed,
         \/ UNCHANGED <<status, outcome>>
         \/ FinishExecutionTreeChildren(r),
         UNCHANGED <<owner, lease, output, last>>
  PROVE  \A q \in Runs : StepOK(q)
<1>1. /\ status'[r] = status[r] /\ outcome'[r] = outcome[r]
      /\ \A q \in Runs \ {r} : Cascaded(q) /\ outcome'[q] = outcome[q]
  <2>1. CASE UNCHANGED <<status, outcome>>
    BY <2>1 DEF Cascaded
  <2>2. CASE FinishExecutionTreeChildren(r)
    BY <2>2, CascadeRows DEF FinishExecutionTreeChildren, TypeOK
  <2> QED BY <2>1, <2>2
<1>2. /\ p = "exec" => executed'[r] = [executed[r] EXCEPT ![k] = TRUE]
      /\ p # "exec" => executed'[r] = executed[r]
  BY DEF TypeOK
<1>3. \A q \in Runs \ {r} : executed'[q] = executed[q]
  BY DEF TypeOK
<1>4. StepOK(r)
  <2>1. pc'[r] = [pc[r] EXCEPT ![k] = p]
    BY GotoRow
  <2>2. /\ owner'[r] = owner[r] /\ lease'[r] = lease[r]
        /\ last'[r] = last[r] /\ output'[r] = output[r]
    OBVIOUS
  <2> QED BY <1>1, <1>2, <2>1, <2>2, MovedRow
<1>5. ASSUME NEW q \in Runs \ {r} PROVE StepOK(q)
  <2>1. SameRow(q)
    BY <1>1, <1>3, GotoRow DEF SameRow
  <2> QED BY <1>1, <2>1, OtherRow
<1> QED BY <1>4, <1>5

(* A step that ends a run, with its descendants.                           *)
LEMMA EndStep ==
  ASSUME TypeOK, \A q \in Runs : RunInv(q), NEW r \in Runs, NEW k \in AttemptNos,
         NEW s \in Terminal, NEW p \in {"closing", "final"},
         IsLiveOwner(r, k),
         (status[r] = "cancel_requested") <=> (s = "cancelled"),
         s = "completed" => pc[r][k] = "exec" /\ output'[r],
         pc[r][k] # "none",
         SetTerminal(r, k, s), Goto(r, k, p),
         output' \in {output, [output EXCEPT ![r] = TRUE]},
         UNCHANGED <<last, executed>>
  PROVE  \A q \in Runs : StepOK(q)
<1> DEFINE st == [status EXCEPT ![r] = s]
           oc == FinishAttempt(r, k, s)
<1>1. /\ st \in [Runs -> RunStatus]
      /\ st[r] = s
      /\ \A q \in Runs \ {r} : st[q] = status[q]
  BY DEF TypeOK, RunStatus
<1>2. /\ oc \in [Runs -> [AttemptNos -> Outcomes]]
      /\ \A q \in Runs \ {r} : oc[q] = outcome[q]
  BY FinishAttemptType DEF Outcomes, FinishAttempt, TypeOK
<1>3. status' = CancelledStatus(st, r) /\ outcome' = CancelledOutcome(oc, r)
  BY DEF SetTerminal
<1>4. /\ owner'[r] = 0 /\ lease'[r] = "none"
      /\ \A q \in Runs \ {r} : owner'[q] = owner[q] /\ lease'[q] = lease[q]
                              /\ output'[q] = output[q]
  BY DEF SetTerminal, TypeOK
<1>5. p \in PCs \ (Working \cup {"none"})
  BY DEF PCs, Busy, Working
<1> HIDE DEF st, oc
<1>6. /\ status'[r] = s /\ outcome'[r] = oc[r]
      /\ \A q \in Runs \ {r} : Cascaded(q) /\ outcome'[q] = outcome[q]
  BY <1>1, <1>2, <1>3, CascadeRows
<1>7. StepOK(r)
  <2>1. pc'[r] = [pc[r] EXCEPT ![k] = p]
    BY GotoRow
  <2>2. last'[r] = last[r] /\ executed'[r] = executed[r]
    OBVIOUS
  <2>3. outcome'[r] = FinishAttempt(r, k, s)[r]
    BY <1>6 DEF oc
  <2> QED BY <1>4, <1>5, <1>6, <2>1, <2>2, <2>3, EndedRow
<1>8. ASSUME NEW q \in Runs \ {r} PROVE StepOK(q)
  <2>1. SameRow(q)
    BY <1>4, <1>6, GotoRow DEF SameRow
  <2> QED BY <1>6, <2>1, OtherRow
<1> QED BY <1>7, <1>8

(* A step that leaves every row but, perhaps, one alone.                   *)
LEMMA RowStep ==
  ASSUME TypeOK, \A q \in Runs : RunInv(q), NEW r \in Runs,
         \A q \in Runs \ {r} : SameRow(q) /\ status'[q] = status[q],
         StepOK(r)
  PROVE  \A q \in Runs : StepOK(q)
<1>1. \A q \in Runs \ {r} : StepOK(q)
  BY OtherRow DEF Cascaded
<1> QED BY <1>1

(* A new row has no attempts yet.                                          *)
LEMMA CreateStep ==
  ASSUME TypeOK, \A q \in Runs : RunInv(q), NEW r \in Runs, CreateRow(r)
  PROVE  \A q \in Runs : StepOK(q)
<1>1. status[r] = "absent" /\ status'[r] = "pending" /\ SameRow(r)
  BY DEF CreateRow, SameRow, TypeOK
<1>2. \A q \in Runs \ {r} : SameRow(q) /\ status'[q] = status[q]
  BY DEF CreateRow, SameRow, TypeOK
<1>3. RunInv(r)'
  BY <1>1 DEF SameRow, RunInv, Numbered, MayBeClaimed, Owned, Once, Completed,
              Leased, Terminal
<1>4. KeepsEnds(r) /\ HonoursCancel(r)
  BY <1>1 DEF SameRow, KeepsEnds, HonoursCancel, Terminal
<1> QED BY <1>2, <1>3, <1>4, RowStep DEF StepOK

(* A claim makes the next attempt of a run that nothing executes.          *)
LEMMA ClaimStep ==
  ASSUME TypeOK, \A q \in Runs : RunInv(q), NEW r \in Runs, MarkRunning(r)
  PROVE  \A q \in Runs : StepOK(q)
<1> DEFINE k == last[r] + 1
<1>1. /\ MayBeClaimed(r) /\ owner[r] = 0
      /\ status[r] \in {"pending", "cancel_requested"}
  BY DEF MarkRunning, Claimable, MayBeClaimed, RunInv, Owned, Leased
<1>2. k \in AttemptNos /\ last[r] \in Nat /\ k # 0 /\ k > last[r]
  <2>1. k \in AttemptNos
    BY DEF MarkRunning
  <2>2. last[r] \in {0} \cup AttemptNos
    BY DEF TypeOK
  <2>3. last[r] \in Nat
    <3> HIDE DEF k
    <3> QED BY <2>2, AttemptNosFact
  <2>4. k # 0 /\ k > last[r]
    BY <2>3
  <2> QED BY <2>1, <2>3, <2>4
<1>3. /\ status'[r] \in Leased
      /\ status[r] = "cancel_requested" => status'[r] = status[r]
      /\ owner'[r] = k /\ lease'[r] = "fresh" /\ last'[r] = k
      /\ output'[r] = output[r] /\ executed'[r] = executed[r]
  BY <1>1 DEF MarkRunning, TypeOK, Leased
<1>4. /\ pc'[r][k] = "claimed"
      /\ \A j \in AttemptNos \ {k} : pc'[r][j] = pc[r][j]
  BY <1>2 DEF MarkRunning, Goto, TypeOK
<1>5. /\ outcome[r][k] = "none"
      /\ \A j \in AttemptNos : outcome[r][j] # "open"
  <2> HIDE DEF k
  <2> QED BY <1>1, <1>2, AttemptNosFact DEF RunInv, Numbered, Owned
<1>6. /\ outcome'[r][k] = "open"
      /\ \A j \in AttemptNos \ {k} : outcome'[r][j] = outcome[r][j]
  BY <1>2, <1>5 DEF MarkRunning, CloseOpenAttempts, TypeOK
<1>7. \A q \in Runs \ {r} : SameRow(q) /\ status'[q] = status[q]
  BY DEF MarkRunning, Goto, SameRow, TypeOK
<1>8. ~MayBeClaimed(r)'
  BY <1>2, <1>3 DEF MayBeClaimed, Leased
<1>9. Numbered(r)'
  <2>1. last[r] < MaxTries
    BY <1>1 DEF RunInv, Numbered
  <2>2. \A j \in AttemptNos \ {k} : (j > last[r]) <=> (j > k)
    BY <1>2, AttemptNosFact
  <2>3. \A j \in AttemptNos : (outcome'[r][j] = "none") <=> (j > last'[r])
    BY <1>2, <1>3, <1>6, <2>2 DEF RunInv, Numbered
  <2>4. \A j \in AttemptNos : (pc'[r][j] = "none") <=> (j > last'[r])
    BY <1>2, <1>3, <1>4, <2>2 DEF RunInv, Numbered
  <2>5. last'[r] <= MaxTries
    BY <1>2, <1>3, <2>1, MaxTriesAssumption
  <2> QED BY <1>8, <2>3, <2>4, <2>5 DEF Numbered
<1>10. Owned(r)'
  BY <1>2, <1>3, <1>5, <1>6 DEF Owned
<1>11. Once(r)'
  <2>1. \A j \in AttemptNos : ~executed[r][j]
    BY <1>1 DEF RunInv, Once
  <2>2. \A j \in AttemptNos : pc[r][j] \notin Working
    BY <1>1, AttemptNosFact DEF RunInv, Once, Terminal
  <2>3. \A j \in AttemptNos : pc'[r][j] # "exec"
    BY <1>4, <2>2 DEF Working
  <2> QED BY <1>3, <1>4, <1>8, <2>1, <2>2, <2>3 DEF Once
<1>12. Completed(r)'
  BY <1>3 DEF Completed, Leased
<1>13. KeepsEnds(r) /\ HonoursCancel(r)
  BY <1>1, <1>3, <1>5, <1>6 DEF KeepsEnds, HonoursCancel, Terminal
<1>14. StepOK(r)
  BY <1>9, <1>10, <1>11, <1>12, <1>13 DEF StepOK, RunInv
<1> QED BY <1>7, <1>14, RowStep

(* A claim makes the attempt the owner; the other deliveries write nothing *)
(* the invariant does not allow a cascade to write.                        *)
LEMMA DeliverStep ==
  ASSUME TypeOK, \A q \in Runs : RunInv(q), NEW r \in Runs, Deliver(r)
  PROVE  \A q \in Runs : StepOK(q)
<1>1. CASE MarkRunning(r)
  BY <1>1, ClaimStep
<1>2. CASE ClaimRefused(r)
  BY <1>2, OtherRow DEF ClaimRefused, SameRow, Cascaded
<1>3. CASE RedeliverTerminal(r)
  <2>1. /\ status'[r] = status[r] /\ outcome'[r] = outcome[r]
        /\ \A q \in Runs \ {r} : Cascaded(q) /\ outcome'[q] = outcome[q]
    BY <1>3, CascadeRows DEF RedeliverTerminal, FinishExecutionTreeChildren, TypeOK
  <2>2. ASSUME NEW q \in Runs PROVE SameRow(q) /\ Cascaded(q)
    BY <1>3, <2>1 DEF RedeliverTerminal, SameRow, Cascaded
  <2> QED BY <2>2, OtherRow
<1> QED BY <1>1, <1>2, <1>3 DEF Deliver

(* The user asks: a run nothing ever claimed is cancelled at once.         *)
LEMMA RequestCancelStep ==
  ASSUME TypeOK, \A q \in Runs : RunInv(q), NEW r \in Runs, NEW cascade \in BOOLEAN,
         RequestCancel(r, cascade)
  PROVE  \A q \in Runs : StepOK(q)
<1> DEFINE asked == IF ~Active(r) THEN status
                    ELSE [status EXCEPT ![r] = IF Unstarted(r) THEN "cancelled"
                                               ELSE "cancel_requested"]
<1>1. /\ asked \in [Runs -> RunStatus]
      /\ \A q \in Runs \ {r} : asked[q] = status[q]
      /\ \/ asked[r] = status[r]
         \/ /\ Active(r)
            /\ asked[r] = (IF Unstarted(r) THEN "cancelled" ELSE "cancel_requested")
  BY DEF TypeOK, RunStatus, Terminal, Leased
<1>2. /\ status' = IF cascade THEN CancelledStatus(asked, r) ELSE asked
      /\ outcome' = IF cascade THEN CancelledOutcome(outcome, r) ELSE outcome
  BY DEF RequestCancel
<1> HIDE DEF asked
<1>3. /\ status'[r] = asked[r] /\ outcome'[r] = outcome[r]
      /\ \A q \in Runs \ {r} : Cascaded(q) /\ outcome'[q] = outcome[q]
  <2>1. CASE cascade
    <3>1. status' = CancelledStatus(asked, r) /\ outcome' = CancelledOutcome(outcome, r)
      BY <1>2, <2>1
    <3> QED BY <1>1, <3>1, CascadeRows DEF TypeOK
  <2>2. CASE ~cascade
    BY <1>1, <1>2, <2>2 DEF Cascaded
  <2> QED BY <2>1, <2>2
<1>4. ASSUME NEW q \in Runs PROVE SameRow(q) /\ Cascaded(q)
  BY <1>1, <1>3 DEF RequestCancel, SameRow, Cascaded
<1> QED BY <1>4, OtherRow

(* A row that loses its owner without it: the reconciler's transaction.    *)
LEMMA ReconcileStep ==
  ASSUME TypeOK, \A q \in Runs : RunInv(q), NEW r \in Runs, ReconcileExpiredLease(r)
  PROVE  \A q \in Runs : StepOK(q)
<1> DEFINE st == [status EXCEPT ![r] = "failed"]
           oc == [outcome EXCEPT ![r] = CloseOpenAttempts(@, "lease_expired")]
<1>1. /\ st \in [Runs -> RunStatus] /\ st[r] = "failed"
      /\ \A q \in Runs \ {r} : st[q] = status[q]
  BY DEF TypeOK, RunStatus, Terminal
<1>2. CloseOpenAttempts(outcome[r], "lease_expired") \in [AttemptNos -> Outcomes]
  BY DEF CloseOpenAttempts, Outcomes, TypeOK
<1>3. /\ oc \in [Runs -> [AttemptNos -> Outcomes]]
      /\ oc[r] = CloseOpenAttempts(outcome[r], "lease_expired")
      /\ \A q \in Runs \ {r} : oc[q] = outcome[q]
  BY <1>2 DEF TypeOK
<1>4. status' = CancelledStatus(st, r) /\ outcome' = CancelledOutcome(oc, r)
  BY DEF ReconcileExpiredLease
<1> HIDE DEF st, oc
<1>5. /\ status'[r] = "failed" /\ outcome'[r] = CloseOpenAttempts(outcome[r], "lease_expired")
      /\ \A q \in Runs \ {r} : Cascaded(q) /\ outcome'[q] = outcome[q]
  BY <1>1, <1>3, <1>4, CascadeRows
<1>6. \A k \in AttemptNos :
        /\ outcome[r][k] = "open" => outcome'[r][k] = "lease_expired"
        /\ outcome[r][k] # "open" => outcome'[r][k] = outcome[r][k]
  BY <1>5 DEF CloseOpenAttempts
<1>7. /\ owner'[r] = 0 /\ lease'[r] = "none"
      /\ last'[r] = last[r] /\ pc'[r] = pc[r] /\ executed'[r] = executed[r]
      /\ output'[r] = output[r]
  BY DEF ReconcileExpiredLease, TypeOK
<1>8. status[r] \in Leased
  BY DEF ReconcileExpiredLease, Ownerless, Leased
<1>9. Numbered(r)'
  BY <1>5, <1>6, <1>7 DEF RunInv, Numbered, MayBeClaimed
<1>10. Owned(r)'
  BY <1>5, <1>6, <1>7, AttemptNosFact DEF RunInv, Owned
<1>11. Once(r)' /\ Completed(r)'
  BY <1>5, <1>7 DEF RunInv, Once, Completed, MayBeClaimed, Terminal
<1>12. KeepsEnds(r) /\ HonoursCancel(r)
  BY <1>5, <1>6, <1>8 DEF KeepsEnds, HonoursCancel, Leased, Terminal, ReconcileExpiredLease
<1>13. StepOK(r)
  BY <1>9, <1>10, <1>11, <1>12 DEF StepOK, RunInv
<1>14. ASSUME NEW q \in Runs \ {r} PROVE StepOK(q)
  <2>1. SameRow(q)
    BY <1>5 DEF ReconcileExpiredLease, SameRow, TypeOK
  <2> QED BY <1>5, <2>1, OtherRow
<1> QED BY <1>13, <1>14

(* Time, the user and the reconcilers.                                     *)
LEMMA EnvironmentStep ==
  ASSUME TypeOK, \A q \in Runs : RunInv(q), NEW r \in Runs, Environment(r)
  PROVE  \A q \in Runs : StepOK(q)
<1>1. CASE EnqueueAgentRun(r) \/ LoseJob(r) \/ ReleaseRuntime(r)
  BY <1>1, OtherRow
  DEF EnqueueAgentRun, LoseJob, ReleaseRuntime, SameRow, Cascaded
<1>2. CASE LeaseAges(r)
  <2>1. /\ lease[r] # "none" /\ lease'[r] # "none"
        /\ \A q \in Runs \ {r} : lease'[q] = lease[q]
    BY <1>2 DEF LeaseAges, LiveLease, TypeOK
  <2>2. UNCHANGED <<status, owner, output, last, outcome, pc, executed>>
    BY <1>2 DEF LeaseAges
  <2>3. RunInv(r)'
    BY <2>1, <2>2 DEF RunInv, Numbered, MayBeClaimed, Owned, Once, Completed
  <2>4. StepOK(r)
    BY <2>2, <2>3 DEF StepOK, KeepsEnds, HonoursCancel
  <2>5. \A q \in Runs \ {r} : SameRow(q) /\ status'[q] = status[q]
    BY <2>1, <2>2 DEF SameRow
  <2> QED BY <2>4, <2>5, RowStep
<1>3. CASE \E cascade \in BOOLEAN : RequestCancel(r, cascade)
  BY <1>3, RequestCancelStep
<1>4. CASE ReconcileExpiredLease(r)
  BY <1>4, ReconcileStep
<1> QED BY <1>1, <1>2, <1>3, <1>4 DEF Environment

(* An attempt gives the run back: only one that executed nothing may.      *)
LEMMA ReleaseStep ==
  ASSUME TypeOK, \A q \in Runs : RunInv(q), NEW r \in Runs, NEW k \in AttemptNos,
         ReleaseLeaseForRetry(r, k), IsRunningOwner(r, k)
  PROVE  \A q \in Runs : StepOK(q)
<1> DEFINE st == [status EXCEPT ![r] = "pending"]
           oc == FinishAttempt(r, k, "retry_released")
<1>1. /\ st \in [Runs -> RunStatus] /\ st[r] = "pending"
      /\ \A q \in Runs \ {r} : st[q] = status[q]
  BY DEF TypeOK, RunStatus
<1>2. /\ oc \in [Runs -> [AttemptNos -> Outcomes]]
      /\ \A q \in Runs \ {r} : oc[q] = outcome[q]
      /\ \A j \in AttemptNos :
           oc[r][j] = IF j = k /\ outcome[r][j] = "open" THEN "retry_released"
                                                         ELSE outcome[r][j]
  BY FinishAttemptType DEF Outcomes, FinishAttempt, TypeOK
<1>3. status' = CancelledStatus(st, r) /\ outcome' = CancelledOutcome(oc, r)
  BY DEF ReleaseLeaseForRetry
<1> HIDE DEF st, oc
<1>4. /\ status'[r] = "pending" /\ outcome'[r] = oc[r]
      /\ \A q \in Runs \ {r} : Cascaded(q) /\ outcome'[q] = outcome[q]
  BY <1>1, <1>2, <1>3, CascadeRows
<1>5. /\ owner'[r] = 0 /\ lease'[r] = "none"
      /\ last'[r] = last[r] /\ executed'[r] = executed[r] /\ output'[r] = output[r]
      /\ \A q \in Runs \ {r} : owner'[q] = owner[q] /\ lease'[q] = lease[q]
  BY DEF ReleaseLeaseForRetry, TypeOK
<1>6. /\ pc'[r][k] = "final"
      /\ \A j \in AttemptNos \ {k} : pc'[r][j] = pc[r][j]
      /\ \A q \in Runs \ {r} : pc'[q] = pc[q]
  BY DEF ReleaseLeaseForRetry, Goto, TypeOK
<1>7. /\ owner[r] = k /\ status[r] = "running" /\ k < MaxTries /\ ~executed[r][k]
      /\ pc[r][k] = "giveup" /\ k = last[r]
  BY DEF ReleaseLeaseForRetry, RetryAllowed, IsRunningOwner, IsLiveOwner, RunInv,
         Once, Working
<1>8. Numbered(r)'
  <2>1. \A j \in AttemptNos : (outcome'[r][j] = "none") <=> (outcome[r][j] = "none")
    BY <1>2, <1>4
  <2>2. \A j \in AttemptNos : (pc'[r][j] = "none") <=> (pc[r][j] = "none")
    BY <1>6, <1>7
  <2> QED BY <1>5, <1>7, <2>1, <2>2 DEF RunInv, Numbered
<1>9. Owned(r)'
  BY <1>2, <1>4, <1>5, <1>7, AttemptNosFact DEF RunInv, Owned
<1>10. Once(r)'
  <2>1. \A j \in AttemptNos : ~executed[r][j]
    BY <1>7 DEF RunInv, Once
  <2>2. \A j \in AttemptNos : pc'[r][j] \notin Working
    BY <1>6, <1>7 DEF RunInv, Once, Working
  <2> QED BY <1>5, <2>1, <2>2 DEF Once, Working
<1>11. Completed(r)'
  BY <1>4 DEF Completed
<1>12. KeepsEnds(r) /\ HonoursCancel(r)
  BY <1>2, <1>4, <1>7 DEF KeepsEnds, HonoursCancel, Terminal
<1>13. StepOK(r)
  BY <1>8, <1>9, <1>10, <1>11, <1>12 DEF StepOK, RunInv
<1>14. ASSUME NEW q \in Runs \ {r} PROVE StepOK(q)
  <2>1. SameRow(q)
    BY <1>4, <1>5, <1>6 DEF ReleaseLeaseForRetry, SameRow
  <2> QED BY <1>4, <2>1, OtherRow
<1> QED BY <1>13, <1>14

(* Whatever an invocation does, at any moment.                             *)
LEMMA AttemptStep ==
  ASSUME TypeOK, \A q \in Runs : RunInv(q), NEW r \in Runs, NEW k \in AttemptNos,
         Attempt(r, k)
  PROVE  \A q \in Runs : StepOK(q)
(* A step that changes no column of the invariant and moves to p.          *)
<1>1. ASSUME NEW p \in (Busy \cup {"done", "dead"}) \ {"exec"}, Goto(r, k, p),
             pc[r][k] # "none", p \in Working => pc[r][k] \in Working,
             UNCHANGED <<status, outcome, owner, lease, output, last, executed>>
      PROVE  \A q \in Runs : StepOK(q)
  BY <1>1, MoveStep DEF PCs, Busy, Working
<1> USE DEF Working, Busy
<1>2. CASE CheckBudget(r, k)
  BY <1>1, <1>2 DEF CheckBudget
<1>3. CASE FailPreparation(r, k)
  <2>1. CASE MaySetTerminal(r, k, "failed")
    BY <1>3, <2>1, EndStep DEF FailPreparation, MaySetTerminal, Terminal
  <2>2. CASE ~MaySetTerminal(r, k, "failed")
    BY <1>1, <1>3, <2>2 DEF FailPreparation
  <2> QED BY <2>1, <2>2
<1>4. CASE RecordManifest(r, k)
  BY <1>1, <1>4 DEF RecordManifest
<1>5. CASE StartExecution(r, k)
  <2>1. CASE status[r] = "cancel_requested"
    BY <1>1, <1>5, <2>1 DEF StartExecution
  <2>2. CASE status[r] # "cancel_requested"
    BY <1>5, <2>2, MoveStep DEF StartExecution, PCs
  <2> QED BY <2>1, <2>2
<1>6. CASE CommitOutput(r, k)
  <2>1. PICK s \in {"completed", "interrupted"} : SetTerminal(r, k, s)
    BY <1>6 DEF CommitOutput
  <2>2. /\ IsLiveOwner(r, k) /\ status[r] = "running" /\ pc[r][k] = "exec"
        /\ output'[r] /\ Goto(r, k, "closing")
        /\ output' = [output EXCEPT ![r] = TRUE] /\ UNCHANGED <<last, executed>>
    BY <1>6 DEF CommitOutput, IsRunningOwner, TypeOK
  <2>3. s \in Terminal /\ s # "cancelled"
    BY DEF Terminal
  <2> QED BY <2>1, <2>2, <2>3, EndStep
<1>7. CASE FinishRun(r, k)
  <2>1. PICK s \in Terminal : MaySetTerminal(r, k, s) /\ SetTerminal(r, k, s)
    BY <1>7 DEF FinishRun
  <2>2. /\ pc[r][k] = "exec" /\ Goto(r, k, "closing")
        /\ UNCHANGED <<output, last, executed>>
    BY <1>7 DEF FinishRun
  <2> QED BY <2>1, <2>2, EndStep DEF MaySetTerminal
<1>8. CASE FinishRunRefused(r, k)
  BY <1>1, <1>8 DEF FinishRunRefused
<1>9. CASE ConfirmUserCancel(r, k)
  BY <1>1, <1>9 DEF ConfirmUserCancel
<1>10. CASE FinishUserCancel(r, k)
  <2>1. CASE MaySetTerminal(r, k, "cancelled")
    BY <1>10, <2>1, EndStep DEF FinishUserCancel, MaySetTerminal, Terminal
  <2>2. CASE ~MaySetTerminal(r, k, "cancelled")
    BY <1>1, <1>10, <2>2 DEF FinishUserCancel
  <2> QED BY <2>1, <2>2
<1>11. CASE FinishNonretryableFailure(r, k)
  <2>1. CASE MaySetTerminal(r, k, "failed")
    BY <1>11, <2>1, EndStep DEF FinishNonretryableFailure, MaySetTerminal, Terminal
  <2>2. CASE ~MaySetTerminal(r, k, "failed")
    BY <1>1, <1>11, <2>2 DEF FinishNonretryableFailure
  <2> QED BY <2>1, <2>2
<1>12. CASE ReleaseLeaseForRetry(r, k)
  <2>1. CASE IsRunningOwner(r, k)
    BY <1>12, <2>1, ReleaseStep
  <2>2. CASE ~IsRunningOwner(r, k)
    BY <1>1, <1>12, <2>2 DEF ReleaseLeaseForRetry
  <2> QED BY <2>1, <2>2
<1>13. CASE CloseRun(r, k)
  BY <1>1, <1>13 DEF CloseRun
<1>14. CASE Finally(r, k)
  BY <1>14, MoveStep DEF Finally, PCs
<1>15. CASE SetOutputMessage(r, k)
  <2>1. status[r] = "running" /\ status' = status
    BY <1>15 DEF SetOutputMessage, IsRunningOwner
  <2>2. /\ UNCHANGED <<owner, lease, last, outcome, pc, executed>>
        /\ \A q \in Runs \ {r} : output'[q] = output[q]
    BY <1>15 DEF SetOutputMessage, TypeOK
  <2>3. RunInv(r)'
    BY <2>1, <2>2 DEF RunInv, Numbered, MayBeClaimed, Owned, Once, Completed
  <2>4. StepOK(r)
    BY <2>1, <2>2, <2>3 DEF StepOK, KeepsEnds, HonoursCancel
  <2>5. \A q \in Runs \ {r} : SameRow(q) /\ status'[q] = status[q]
    BY <2>1, <2>2 DEF SameRow
  <2> QED BY <2>4, <2>5, RowStep
<1>16. CASE RenewLease(r, k)
  <2>1. /\ lease[r] # "none" /\ lease'[r] # "none"
        /\ \A q \in Runs \ {r} : lease'[q] = lease[q]
    BY <1>16 DEF RenewLease, IsLiveOwner, LiveLease, TypeOK
  <2>2. UNCHANGED <<status, owner, output, last, outcome, pc, executed>>
    BY <1>16 DEF RenewLease
  <2>3. RunInv(r)'
    BY <2>1, <2>2 DEF RunInv, Numbered, MayBeClaimed, Owned, Once, Completed
  <2>4. StepOK(r)
    BY <2>2, <2>3 DEF StepOK, KeepsEnds, HonoursCancel
  <2>5. \A q \in Runs \ {r} : SameRow(q) /\ status'[q] = status[q]
    BY <2>1, <2>2 DEF SameRow
  <2> QED BY <2>4, <2>5, RowStep
<1>17. CASE LoseLease(r, k)
  BY <1>1, <1>17 DEF LoseLease
<1>18. CASE Interrupt(r, k)
  BY <1>1, <1>18 DEF Interrupt
<1>19. CASE Crash(r, k) \/ Abandon(r, k)
  BY <1>1, <1>19 DEF Crash, Abandon
<1>20. CASE FailUnexpectedly(r, k)
  <2>1. CASE MaySetTerminal(r, k, "failed")
    BY <1>20, <2>1, EndStep DEF FailUnexpectedly, MaySetTerminal, Terminal
  <2>2. CASE ~MaySetTerminal(r, k, "failed")
    BY <1>1, <1>20, <2>2 DEF FailUnexpectedly
  <2> QED BY <2>1, <2>2
<1> QED
  BY <1>2, <1>3, <1>4, <1>5, <1>6, <1>7, <1>8, <1>9, <1>10, <1>11, <1>12, <1>13,
     <1>14, <1>15, <1>16, <1>17, <1>18, <1>19, <1>20 DEF Attempt, Proceed

-----------------------------------------------------------------------------
(* The theorems                                                            *)

(* The invariant is inductive, and no step does what the action properties *)
(* forbid.                                                                 *)
LEMMA NextStep ==
  ASSUME Inv, [Next]_vars
  PROVE  Inv' /\ \A r \in Runs : KeepsEnds(r) /\ HonoursCancel(r)
<1> USE DEF Inv
<1>1. TypeOK'
  BY TypeStep
<1>2. \A r \in Runs : StepOK(r)
  <2>1. ASSUME NEW r \in Runs, Create(r) PROVE \A q \in Runs : StepOK(q)
    BY <2>1, CreateStep DEF Create, CreateChat, CreateResume, CreateSubagent
  <2>2. ASSUME NEW r \in Runs, Deliver(r) PROVE \A q \in Runs : StepOK(q)
    BY <2>2, DeliverStep
  <2>3. ASSUME NEW r \in Runs, Environment(r) PROVE \A q \in Runs : StepOK(q)
    BY <2>3, EnvironmentStep
  <2>4. ASSUME NEW r \in Runs, NEW k \in AttemptNos, Attempt(r, k)
        PROVE  \A q \in Runs : StepOK(q)
    BY <2>4, AttemptStep
  <2>5. CASE UNCHANGED vars
    BY <2>5, OtherRow DEF vars, SameRow, Cascaded
  <2> QED BY <2>1, <2>2, <2>3, <2>4, <2>5 DEF Next
<1> QED BY <1>1, <1>2 DEF StepOK

(* It holds of the empty tables.                                           *)
LEMMA InitInv == Init => Inv
<1> SUFFICES ASSUME Init PROVE Inv
  OBVIOUS
<1>1. TypeOK
  BY TypeInit
<1>2. ASSUME NEW r \in Runs PROVE RunInv(r)
  BY AttemptNosFact, MaxTriesAssumption
  DEF Init, RunInv, Numbered, MayBeClaimed, Owned, Once, Completed, Working
<1> QED BY <1>1, <1>2 DEF Inv

(* The invariant holds in every reachable state.                           *)
THEOREM Invariance == Spec => []Inv
<1>1. Inv /\ [Next]_vars => Inv'
  BY NextStep
<1> QED BY <1>1, InitInv, PTL DEF Spec

(* The row and the attempts table agree on who owns a run.                 *)
THEOREM Ownership == Spec => []OwnershipMatchesAttempts
<1>1. Inv => OwnershipMatchesAttempts
  BY DEF Inv, RunInv, Owned, OwnershipMatchesAttempts
<1> QED BY <1>1, Invariance, PTL

(* No execution is ever replayed.                                          *)
THEOREM ExecutedOnce == Spec => []NoReplay
<1>1. Inv => NoReplay
  BY DEF Inv, RunInv, Once, NoReplay
<1> QED BY <1>1, Invariance, PTL

(* No run takes more attempts than max_tries.                              *)
THEOREM BudgetKept == Spec => []AttemptBudget
<1>1. Inv => AttemptBudget
  BY DEF Inv, RunInv, Numbered, AttemptBudget
<1> QED BY <1>1, Invariance, PTL

(* A completed run was completed by the attempt that executed it.          *)
THEOREM CompletedHonestly == Spec => []CompletedByItsExecution
<1>1. Inv => CompletedByItsExecution
  BY DEF Inv, RunInv, Completed, CompletedByItsExecution
<1> QED BY <1>1, Invariance, PTL

(* Terminal statuses and closed attempts are never overwritten.            *)
THEOREM EndsStay == Spec => EndsAreFinal
<1>1. Inv /\ [Next]_vars => [\A r \in Runs : KeepsEnds(r)]_vars
  BY NextStep
<1> QED BY <1>1, Invariance, PTL DEF Spec, EndsAreFinal

(* A requested cancellation is overtaken by nothing but a lost worker.     *)
THEOREM CancellationStays == Spec => CancellationWins
<1>1. Inv /\ [Next]_vars => [\A r \in Runs : HonoursCancel(r)]_vars
  BY NextStep
<1> QED BY <1>1, Invariance, PTL DEF Spec, CancellationWins

-----------------------------------------------------------------------------
(* What the runs of one Conversation mean to each other: the thread runs   *)
(* one of them at a time, and no subagent outlives its creator.            *)

Scope == TypeOK /\ ThreadExclusive /\ TreeClosed

(* A step that creates no run makes none active, and raises the cleanup    *)
(* fence of an active run only.                                            *)
Calm == \A q \in Runs :
  /\ Active(q)' => Active(q)
  /\ cleanup'[q] => cleanup[q] \/ Active(q)

-----------------------------------------------------------------------------
(* A calm step keeps the thread exclusive.                                 *)
LEMMA CalmThread == ASSUME ThreadExclusive, Calm PROVE ThreadExclusive'
BY DEF ThreadExclusive, Calm

(* What may happen to the status of the run that an action is about, when  *)
(* a cascade follows.                                                      *)
Ends(st, r) ==
  /\ \A q \in Runs \ {r} : st[q] = status[q]
  /\ st[r] \notin Terminal \cup {"absent"} => Active(r)
  /\ st[r] \in {"pending", "running"} => status[r] \in {"pending", "running"}

(* And when none does: what is leased stays leased.                        *)
Stays(st, r) == Ends(st, r) /\ (status[r] \in Leased => st[r] \in Leased)

(* The cascade of an end closes the tree below it.                         *)
LEMMA CascadeScope ==
  ASSUME TypeOK, TreeClosed, NEW r \in Runs, NEW st \in [Runs -> RunStatus],
         Ends(st, r), status' = CancelledStatus(st, r)
  PROVE  TreeClosed' /\ \A q \in Runs : Active(q)' => Active(q)
<1> USE DEF CancelledStatus
<1>1. ASSUME NEW q \in Runs, Active(q)' PROVE Active(q)
  <2>1. q \in Descendants(r) => Active(q)
    BY DEF Descendants, ChildrenOf
  <2> QED BY <1>1, <2>1 DEF Ends, Active
<1>2. ASSUME NEW c \in Runs, Kind[c] = "subagent", status'[c] \in {"pending", "running"}
      PROVE  status'[Creator[c]] \in Leased
  <2>1. c \notin Descendants(r) /\ status'[c] = st[c]
    BY <1>2
  <2>2. Creator[c] \in Runs /\ Kind[Creator[c]] # "subagent" /\ Creator[c] # c
    BY <1>2, RunsAssumption
  <2>3. CASE c = r
    <3>1. Descendants(r) = {}
      BY <1>2, <2>3 DEF Descendants, TopLevel
    <3>2. status[Creator[c]] \in Leased
      BY <1>2, <2>1, <2>3 DEF Ends, TreeClosed
    <3> QED BY <2>2, <2>3, <3>1, <3>2 DEF Ends
  <2>4. CASE c # r
    <3>1. status[c] \in {"pending", "running"} /\ status[Creator[c]] \in Leased
      BY <1>2, <2>1, <2>4 DEF Ends, TreeClosed
    <3>2. Creator[c] # r
      <4>1. Active(c)
        BY <3>1 DEF Active, Terminal
      <4> QED BY <2>1, <2>2, <4>1 DEF Descendants, ChildrenOf, TopLevel
    <3>3. ~Unstarted(Creator[c])
      BY <3>1 DEF Unstarted, Leased
    <3> QED BY <2>2, <3>1, <3>2, <3>3 DEF Ends, Leased
  <2> QED BY <2>3, <2>4
<1> QED BY <1>1, <1>2 DEF TreeClosed

(* A step without a cascade.                                               *)
LEMMA StayScope ==
  ASSUME TypeOK, TreeClosed, NEW r \in Runs, Stays(status', r)
  PROVE  TreeClosed' /\ \A q \in Runs : Active(q)' => Active(q)
<1>1. ASSUME NEW c \in Runs, Kind[c] = "subagent", status'[c] \in {"pending", "running"}
      PROVE  status'[Creator[c]] \in Leased
  <2>1. Creator[c] \in Runs
    BY <1>1, RunsAssumption
  <2> QED BY <1>1, <2>1 DEF TreeClosed, Stays, Ends
<1> QED BY <1>1 DEF TreeClosed, Stays, Ends, Active

(* A step that leaves every status alone.                                  *)
LEMMA SameScope ==
  ASSUME Scope, UNCHANGED status, \A q \in Runs : cleanup'[q] => cleanup[q] \/ Active(q)
  PROVE  ThreadExclusive' /\ TreeClosed'
BY CalmThread DEF Scope, TreeClosed, Calm, Active

(* The end of a run by its live owner, with its cascade.                   *)
LEMMA TerminalScope ==
  ASSUME Scope, NEW r \in Runs, NEW k \in AttemptNos, NEW s \in Terminal,
         Active(r), SetTerminal(r, k, s)
  PROVE  ThreadExclusive' /\ TreeClosed'
<1> DEFINE st == [status EXCEPT ![r] = s]
<1>1. st \in [Runs -> RunStatus] /\ Ends(st, r)
  BY DEF Scope, TypeOK, RunStatus, Ends, Terminal
<1>2. status' = CancelledStatus(st, r)
  BY DEF SetTerminal
<1>3. \A q \in Runs : cleanup'[q] => cleanup[q] \/ Active(q)
  BY DEF SetTerminal, Scope, TypeOK
<1> HIDE DEF st
<1> QED BY <1>1, <1>2, <1>3, CascadeScope, CalmThread DEF Scope, Calm

(* The cascade that a transaction of its own repeats.                      *)
LEMMA ChildrenScope ==
  ASSUME Scope, NEW r \in Runs, FinishExecutionTreeChildren(r), UNCHANGED cleanup
  PROVE  ThreadExclusive' /\ TreeClosed'
<1>1. status \in [Runs -> RunStatus] /\ Ends(status, r)
  BY DEF Scope, TypeOK, Ends, Active
<1>2. status' = CancelledStatus(status, r)
  BY DEF FinishExecutionTreeChildren
<1> QED BY <1>1, <1>2, CascadeScope, CalmThread DEF Scope, Calm

-----------------------------------------------------------------------------
(* The actions                                                             *)

(* A run is created in an idle thread, or by an execution that goes on.    *)
LEMMA CreateScope ==
  ASSUME Scope, NEW r \in Runs, Create(r)
  PROVE  ThreadExclusive' /\ TreeClosed'
<1>1. /\ status[r] = "absent" /\ status' = [status EXCEPT ![r] = "pending"]
      /\ UNCHANGED cleanup
  BY DEF Create, CreateChat, CreateResume, CreateSubagent, CreateRow
<1>2. /\ status'[r] = "pending"
      /\ \A q \in Runs \ {r} : status'[q] = status[q] /\ (Active(q)' <=> Active(q))
  BY <1>1 DEF Scope, TypeOK, Active
<1>3. /\ TopLevel(r) => ThreadIdle
      /\ ~TopLevel(r) => status[Creator[r]] = "running"
  BY DEF Create, CreateChat, CreateResume, CreateSubagent, TopLevel
<1>4. ThreadExclusive'
  BY <1>1, <1>2, <1>3 DEF Scope, ThreadExclusive, ThreadIdle
<1>5. TreeClosed'
  <2>1. ASSUME NEW c \in Runs, Kind[c] = "subagent", status'[c] \in {"pending", "running"}
        PROVE  status'[Creator[c]] \in Leased
    <3>1. Creator[c] \in Runs
      BY <2>1, RunsAssumption
    <3>2. status[Creator[c]] \in Leased
      BY <1>2, <1>3, <2>1 DEF Scope, TreeClosed, TopLevel, Leased
    <3>3. Creator[c] # r
      BY <1>1, <3>2 DEF Leased
    <3> QED BY <1>2, <3>1, <3>2, <3>3
  <2> QED BY <2>1 DEF TreeClosed
<1> QED BY <1>4, <1>5

(* A delivery claims a run, is refused, or repeats a cascade.              *)
LEMMA DeliverScope ==
  ASSUME Scope, NEW r \in Runs, Deliver(r)
  PROVE  ThreadExclusive' /\ TreeClosed'
<1>1. CASE MarkRunning(r)
  <2>1. Stays(status', r)
    BY <1>1 DEF MarkRunning, Claimable, Scope, TypeOK, Stays, Ends, Active, Terminal, Leased
  <2>2. UNCHANGED cleanup
    BY <1>1 DEF MarkRunning
  <2> QED BY <2>1, <2>2, StayScope, CalmThread DEF Scope, Calm
<1>2. CASE ClaimRefused(r)
  BY <1>2, SameScope DEF ClaimRefused
<1>3. CASE RedeliverTerminal(r)
  BY <1>3, ChildrenScope DEF RedeliverTerminal
<1> QED BY <1>1, <1>2, <1>3 DEF Deliver

(* The user, time, the recovery scan and the reconcilers.                  *)
LEMMA EnvironmentScope ==
  ASSUME Scope, NEW r \in Runs, Environment(r)
  PROVE  ThreadExclusive' /\ TreeClosed'
<1>1. CASE EnqueueAgentRun(r) \/ LoseJob(r) \/ LeaseAges(r)
  BY <1>1, SameScope DEF EnqueueAgentRun, LoseJob, LeaseAges
<1>2. CASE ReleaseRuntime(r)
  BY <1>2, SameScope DEF ReleaseRuntime, LowerFence, Scope, TypeOK
<1>3. ASSUME NEW cascade \in BOOLEAN, RequestCancel(r, cascade)
      PROVE  ThreadExclusive' /\ TreeClosed'
  <2> DEFINE asked == IF ~Active(r) THEN status
                      ELSE [status EXCEPT ![r] = IF Unstarted(r) THEN "cancelled"
                                                 ELSE "cancel_requested"]
  <2>1. asked \in [Runs -> RunStatus] /\ Stays(asked, r)
    BY DEF Scope, TypeOK, RunStatus, Leased, Terminal, Stays, Ends, Active, Unstarted
  <2>2. status' = IF cascade THEN CancelledStatus(asked, r) ELSE asked
    BY <1>3 DEF RequestCancel
  <2>3. \A q \in Runs : cleanup'[q] => cleanup[q]
    BY <1>3 DEF RequestCancel, Scope, TypeOK
  <2> HIDE DEF asked
  <2>4. TreeClosed' /\ \A q \in Runs : Active(q)' => Active(q)
    <3>1. CASE cascade
      BY <2>1, <2>2, <3>1, CascadeScope DEF Scope, Stays
    <3>2. CASE ~cascade
      BY <2>1, <2>2, <3>2, StayScope DEF Scope
    <3> QED BY <3>1, <3>2
  <2> QED BY <2>3, <2>4, CalmThread DEF Scope, Calm
<1>4. CASE ReconcileExpiredLease(r)
  <2> DEFINE st == [status EXCEPT ![r] = "failed"]
  <2>1. st \in [Runs -> RunStatus] /\ Ends(st, r)
    BY DEF Scope, TypeOK, RunStatus, Ends, Terminal
  <2>2. status' = CancelledStatus(st, r)
    BY <1>4 DEF ReconcileExpiredLease
  <2>3. Active(r)
    BY <1>4 DEF ReconcileExpiredLease, Ownerless, Active, Terminal
  <2>4. \A q \in Runs : cleanup'[q] => cleanup[q] \/ Active(q)
    BY <1>4, <2>3 DEF ReconcileExpiredLease, Scope, TypeOK
  <2> HIDE DEF st
  <2> QED BY <2>1, <2>2, <2>4, CascadeScope, CalmThread DEF Scope, Calm
<1> QED BY <1>1, <1>2, <1>3, <1>4 DEF Environment

(* The live owner's run is active.                                         *)
LEMMA OwnerActive ==
  ASSUME NEW r \in Runs, NEW k \in AttemptNos, IsLiveOwner(r, k)
  PROVE  Active(r)
BY DEF IsLiveOwner, Active, Leased, Terminal

(* An invocation.                                                          *)
LEMMA AttemptScope ==
  ASSUME Scope, NEW r \in Runs, NEW k \in AttemptNos, Attempt(r, k)
  PROVE  ThreadExclusive' /\ TreeClosed'
<1>1. CASE UNCHANGED <<status, cleanup>>
  BY <1>1, SameScope
<1>2. ASSUME NEW s \in Terminal, MaySetTerminal(r, k, s), SetTerminal(r, k, s)
      PROVE  ThreadExclusive' /\ TreeClosed'
  BY <1>2, OwnerActive, TerminalScope DEF MaySetTerminal
<1>3. CASE CheckBudget(r, k) \/ RecordManifest(r, k) \/ StartExecution(r, k)
           \/ FinishRunRefused(r, k) \/ ConfirmUserCancel(r, k) \/ SetOutputMessage(r, k)
           \/ RenewLease(r, k) \/ LoseLease(r, k) \/ Interrupt(r, k)
           \/ Abandon(r, k) \/ Crash(r, k)
  BY <1>1, <1>3
  DEF CheckBudget, RecordManifest, StartExecution, FinishRunRefused, ConfirmUserCancel,
      SetOutputMessage, RenewLease, LoseLease, Interrupt, Abandon, Crash
<1>4. CASE FailPreparation(r, k) \/ FailUnexpectedly(r, k)
  BY <1>1, <1>2, <1>4 DEF FailPreparation, FailUnexpectedly, Terminal
<1>5. CASE CommitOutput(r, k)
  BY <1>5, OwnerActive, TerminalScope DEF CommitOutput, IsRunningOwner, Terminal
<1>6. CASE FinishRun(r, k)
  BY <1>2, <1>6 DEF FinishRun
<1>7. CASE FinishUserCancel(r, k) \/ FinishNonretryableFailure(r, k)
  BY <1>1, <1>2, <1>7 DEF FinishUserCancel, FinishNonretryableFailure, Terminal
<1>8. CASE ReleaseLeaseForRetry(r, k)
  <2>1. CASE IsRunningOwner(r, k)
    <3> DEFINE st == [status EXCEPT ![r] = "pending"]
    <3>1. /\ status[r] = "running" /\ status' = CancelledStatus(st, r)
          /\ cleanup' = [cleanup EXCEPT ![r] = TopLevel(r)]
      BY <1>8, <2>1 DEF ReleaseLeaseForRetry, IsRunningOwner
    <3>2. st \in [Runs -> RunStatus] /\ Ends(st, r) /\ Active(r)
      BY <3>1 DEF Scope, TypeOK, RunStatus, Ends, Active, Terminal
    <3>3. \A q \in Runs : cleanup'[q] => cleanup[q] \/ Active(q)
      BY <3>1, <3>2 DEF Scope, TypeOK
    <3> HIDE DEF st
    <3> QED BY <3>1, <3>2, <3>3, CascadeScope, CalmThread DEF Scope, Calm
  <2>2. CASE ~IsRunningOwner(r, k)
    BY <1>1, <1>8, <2>2 DEF ReleaseLeaseForRetry
  <2> QED BY <2>1, <2>2
<1>9. CASE CloseRun(r, k)
  BY <1>9, SameScope DEF CloseRun, LowerFence, Scope, TypeOK
<1>10. CASE Finally(r, k)
  <2>1. CASE status[r] \in Terminal
    BY <1>10, <2>1, ChildrenScope DEF Finally
  <2>2. CASE status[r] \notin Terminal
    BY <1>1, <1>10, <2>2 DEF Finally
  <2> QED BY <2>1, <2>2
<1> QED
  BY <1>3, <1>4, <1>5, <1>6, <1>7, <1>8, <1>9, <1>10 DEF Attempt, Proceed

-----------------------------------------------------------------------------
(* The cleanup fence                                                       *)

(* A runtime that waits for its cleanup has no owner any more, and belongs *)
(* to a run of the thread that was started.                                *)
FenceOK == \A r \in Runs :
  /\ cleanup[r] => owner[r] = 0 /\ started[r] /\ TopLevel(r)
  /\ owner[r] # 0 => started[r]

Released(r) == cleanup[r] /\ ~cleanup'[r]

KeptWhileUsed == \A r \in Runs : Released(r) =>
  \A q \in Runs, k \in AttemptNos : ~IsLiveOwner(q, k)

(* A step that gives no run an owner.                                      *)
LEMMA FenceStep ==
  ASSUME Inv, FenceOK, UNCHANGED started,
         \A q \in Runs : owner'[q] \in {owner[q], 0},
         \A q \in Runs : cleanup'[q] => cleanup[q] \/ (owner'[q] = 0 /\ started[q] /\ TopLevel(q)),
         \A q \in Runs : Released(q) => ScopeIdle(q)
  PROVE  FenceOK' /\ KeptWhileUsed
<1>1. FenceOK'
  BY DEF FenceOK
<1>2. ASSUME NEW r \in Runs, Released(r), NEW q \in Runs, NEW k \in AttemptNos
      PROVE  ~IsLiveOwner(q, k)
  <2>1. ScopeIdle(r) /\ owner[r] = 0
    BY <1>2 DEF Released, FenceOK
  <2>2. CASE q = r
    BY <2>1, <2>2, AttemptNosFact DEF IsLiveOwner
  <2>3. CASE q # r
    BY <2>1, <2>3, OwnerActive DEF ScopeIdle
  <2> QED BY <2>2, <2>3
<1> QED BY <1>1, <1>2 DEF KeptWhileUsed

(* A step that leaves owners and fences alone.                             *)
LEMMA SameFence ==
  ASSUME Inv, FenceOK, UNCHANGED <<started, owner, cleanup>>
  PROVE  FenceOK' /\ KeptWhileUsed
BY DEF FenceOK, KeptWhileUsed, Released

(* The owner of a run gives it up, and raises its fence.                   *)
LEMMA GiveUpFence ==
  ASSUME Inv, FenceOK, NEW r \in Runs, owner[r] # 0 \/ (started[r] /\ ~cleanup[r]),
         UNCHANGED started, owner' = [owner EXCEPT ![r] = 0],
         cleanup' = [cleanup EXCEPT ![r] = TopLevel(r)]
  PROVE  FenceOK' /\ KeptWhileUsed
<1>1. ~cleanup[r] /\ started[r]
  BY DEF FenceOK
<1>2. \A q \in Runs : /\ owner'[q] \in {owner[q], 0}
                      /\ cleanup'[q] => cleanup[q] \/ (owner'[q] = 0 /\ started[q] /\ TopLevel(q))
                      /\ ~Released(q)
  BY <1>1 DEF Inv, TypeOK, Released
<1> QED BY <1>2, FenceStep

(* A fence is lowered in an idle scope.                                    *)
LEMMA LowerStep ==
  ASSUME Inv, FenceOK, NEW r \in Runs, cleanup[r] => ScopeIdle(r), LowerFence(r),
         UNCHANGED <<started, owner>>
  PROVE  FenceOK' /\ KeptWhileUsed
<1>1. \A q \in Runs : (cleanup'[q] => cleanup[q]) /\ (Released(q) => ScopeIdle(q))
  BY DEF LowerFence, Inv, TypeOK, Released
<1> QED BY <1>1, FenceStep

(* Every step keeps the fence's meaning.                                   *)
LEMMA FenceNext ==
  ASSUME Inv, FenceOK, [Next]_vars
  PROVE  FenceOK' /\ KeptWhileUsed
<1>1. CASE UNCHANGED <<started, owner, cleanup>>
  BY <1>1, SameFence
<1>2. ASSUME NEW r \in Runs, Deliver(r) PROVE FenceOK' /\ KeptWhileUsed
  <2>1. CASE MarkRunning(r)
    BY <2>1, AttemptNosFact
    DEF MarkRunning, Claimable, Inv, TypeOK, FenceOK, KeptWhileUsed, Released
  <2> QED BY <1>1, <1>2, <2>1 DEF Deliver, ClaimRefused, RedeliverTerminal
<1>3. ASSUME NEW r \in Runs, Environment(r) PROVE FenceOK' /\ KeptWhileUsed
  <2>1. ASSUME NEW c \in BOOLEAN, RequestCancel(r, c) PROVE FenceOK' /\ KeptWhileUsed
    <3>1. UNCHANGED <<started, owner>> /\ cleanup' = [cleanup EXCEPT ![r] = @ /\ ~Unstarted(r)]
      BY <2>1 DEF RequestCancel
    <3>2. \A q \in Runs : (cleanup'[q] => cleanup[q]) /\ ~Released(q)
      BY <3>1 DEF Inv, TypeOK, Released, FenceOK, Unstarted
    <3> QED BY <3>1, <3>2, FenceStep
  <2>2. CASE ReconcileExpiredLease(r)
    <3>1. owner[r] # 0 \/ (started[r] /\ owner[r] = 0 /\ status[r] = "cancel_requested")
      BY <2>2 DEF ReconcileExpiredLease, Ownerless, Inv, RunInv, Owned
    <3>2. /\ UNCHANGED started /\ owner' = [owner EXCEPT ![r] = 0]
          /\ cleanup' = [cleanup EXCEPT ![r] = TopLevel(r)]
      BY <2>2 DEF ReconcileExpiredLease
    <3>3. CASE owner[r] # 0
      BY <3>2, <3>3, GiveUpFence
    <3>4. CASE owner[r] = 0
      <4>1. /\ started[r] /\ \A q \in Runs : owner'[q] = owner[q]
            /\ \A q \in Runs \ {r} : cleanup'[q] = cleanup[q]
            /\ cleanup'[r] = TopLevel(r)
        BY <3>1, <3>2, <3>4 DEF Inv, TypeOK
      <4>2. \A q \in Runs :
              /\ cleanup'[q] => cleanup[q] \/ (owner'[q] = 0 /\ started[q] /\ TopLevel(q))
              /\ ~Released(q)
        BY <3>4, <4>1 DEF FenceOK, Released
      <4> QED BY <3>2, <4>1, <4>2, FenceStep
    <3> QED BY <3>3, <3>4
  <2>3. CASE ReleaseRuntime(r)
    BY <2>3, LowerStep DEF ReleaseRuntime
  <2> QED
    BY <1>1, <1>3, <2>1, <2>2, <2>3 DEF Environment, EnqueueAgentRun, LoseJob, LeaseAges
<1>4. ASSUME NEW r \in Runs, NEW k \in AttemptNos, Attempt(r, k)
      PROVE  FenceOK' /\ KeptWhileUsed
  <2>1. ASSUME NEW s \in Terminal, IsLiveOwner(r, k), SetTerminal(r, k, s), UNCHANGED started
        PROVE  FenceOK' /\ KeptWhileUsed
    BY <2>1, GiveUpFence, AttemptNosFact DEF SetTerminal, IsLiveOwner
  <2>2. CASE FailPreparation(r, k) \/ FailUnexpectedly(r, k)
    BY <1>1, <2>1, <2>2 DEF FailPreparation, FailUnexpectedly, MaySetTerminal, Terminal
  <2>3. CASE CommitOutput(r, k) \/ FinishRun(r, k)
    BY <2>1, <2>3 DEF CommitOutput, FinishRun, MaySetTerminal, IsRunningOwner, Terminal
  <2>4. CASE FinishUserCancel(r, k) \/ FinishNonretryableFailure(r, k)
    BY <1>1, <2>1, <2>4 DEF FinishUserCancel, FinishNonretryableFailure, MaySetTerminal, Terminal
  <2>5. CASE ReleaseLeaseForRetry(r, k)
    BY <1>1, <2>5, GiveUpFence, AttemptNosFact
    DEF ReleaseLeaseForRetry, IsRunningOwner, IsLiveOwner
  <2>6. CASE CloseRun(r, k)
    BY <2>6, LowerStep DEF CloseRun
  <2>7. CASE CheckBudget(r, k) \/ RecordManifest(r, k) \/ StartExecution(r, k)
             \/ FinishRunRefused(r, k) \/ ConfirmUserCancel(r, k) \/ Finally(r, k)
             \/ SetOutputMessage(r, k) \/ RenewLease(r, k) \/ LoseLease(r, k)
             \/ Interrupt(r, k) \/ Abandon(r, k) \/ Crash(r, k)
    BY <1>1, <2>7
    DEF CheckBudget, RecordManifest, StartExecution, FinishRunRefused, ConfirmUserCancel,
        Finally, SetOutputMessage, RenewLease, LoseLease, Interrupt, Abandon, Crash
  <2> QED BY <1>4, <2>2, <2>3, <2>4, <2>5, <2>6, <2>7 DEF Attempt, Proceed
<1>5. ASSUME NEW r \in Runs, Create(r) PROVE FenceOK' /\ KeptWhileUsed
  BY <1>1, <1>5 DEF Create, CreateChat, CreateResume, CreateSubagent, CreateRow
<1> QED BY <1>1, <1>2, <1>3, <1>4, <1>5 DEF Next, vars

-----------------------------------------------------------------------------
(* The theorems                                                            *)

(* The scope's invariant is inductive.                                     *)
THEOREM ScopeInvariant == Spec => []Scope
<1>1. Init => Scope
  BY TypeInit, RunsAssumption DEF Init, Scope, ThreadExclusive, TreeClosed, Active
<1>2. Scope /\ [Next]_vars => Scope'
  <2> SUFFICES ASSUME Scope, [Next]_vars PROVE Scope'
    OBVIOUS
  <2>1. TypeOK'
    BY TypeStep DEF Scope
  <2>2. ThreadExclusive' /\ TreeClosed'
    <3>1. CASE UNCHANGED vars
      BY <3>1, SameScope DEF vars
    <3> QED BY <3>1, CreateScope, DeliverScope, EnvironmentScope, AttemptScope DEF Next
  <2> QED BY <2>1, <2>2 DEF Scope
<1> QED BY <1>1, <1>2, PTL DEF Spec

(* The Conversation's thread runs one run at a time, and none before the   *)
(* runtime of the one before is cleaned up.                                *)
THEOREM OneRunPerThread == Spec => []ThreadExclusive
<1>1. Scope => ThreadExclusive
  BY DEF Scope
<1> QED BY <1>1, ScopeInvariant, PTL

(* A creator that ends, in whatever way, leaves no subagent behind that    *)
(* nobody asked to stop.                                                   *)
THEOREM NoOrphans == Spec => []TreeClosed
<1>1. Scope => TreeClosed
  BY DEF Scope
<1> QED BY <1>1, ScopeInvariant, PTL

(* The cleanup fence is never lowered while an attempt of whatever run of  *)
(* the scope holds its lease.  A late attempt without a lease is outside.  *)
THEOREM RuntimeKept == Spec => RuntimeKeptWhileUsed
<1>1. Init => FenceOK
  BY DEF Init, FenceOK
<1>2. Inv /\ FenceOK /\ [Next]_vars => FenceOK' /\ [KeptWhileUsed]_vars
  BY FenceNext
<1>3. KeptWhileUsed => \A r \in Runs : cleanup[r] /\ ~cleanup'[r] =>
                          \A q \in Runs, k \in AttemptNos : ~IsLiveOwner(q, k)
  BY DEF KeptWhileUsed, Released
<1> QED BY <1>1, <1>2, <1>3, Invariance, PTL DEF Spec, RuntimeKeptWhileUsed
=============================================================================
