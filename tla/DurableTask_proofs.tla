------------------------- MODULE DurableTask_proofs -------------------------
(* Theorems about DurableTask for every set of tasks and every capacity.   *)
EXTENDS DurableTask, FiniteSetTheorems, TLAPS

-----------------------------------------------------------------------------
(* Type correctness                                                        *)

(* The tables a migration leaves behind are well typed.                    *)
LEMMA TypeInit == Init => TypeOK
BY TasksAssumption DEF Init, TypeOK, AttemptNos, LiveLease, Ended, Terminal, Busy

(* Ending a task keeps the types.                                          *)
LEMMA EndTaskType ==
  ASSUME TypeOK, NEW t \in Tasks, NEW s \in Terminal, EndTask(t, s)
  PROVE  /\ status' \in [Tasks -> {"absent", "pending", "running"} \cup Ended]
         /\ owner' \in [Tasks -> {0} \cup AttemptNos]
         /\ lease' \in [Tasks -> LiveLease \cup {"none", "expired"}]
         /\ keyed' \in [Tasks -> BOOLEAN]
BY DEF EndTask, TypeOK, Ended

(* Every step keeps the types.                                             *)
LEMMA TypeStep == TypeOK /\ [Next]_vars => TypeOK'
<1> SUFFICES ASSUME TypeOK, [Next]_vars PROVE TypeOK'
  OBVIOUS
<1> USE DEF Terminal, Ended, LiveLease
<1>1. ASSUME NEW t \in Tasks, NEW k \in AttemptNos,
             NEW p \in {"none", "done", "dead"} \cup Busy, Goto(t, k, p)
      PROVE  pc' \in [Tasks -> [AttemptNos -> {"none", "done", "dead"} \cup Busy]]
  BY <1>1 DEF Goto, TypeOK
<1>2. ASSUME NEW t \in Tasks, Queue(t) PROVE TypeOK'
  <2>1. CASE Enqueue(t)
    <3>1. (Key[t] # NoKey) \in BOOLEAN
      OBVIOUS
    <3> QED BY <2>1, <3>1 DEF Enqueue, TypeOK
  <2>2. CASE PublishPending(t)
    <3>1. CASE t \in Legacy
      BY <2>2, <3>1, EndTaskType DEF PublishPending, TypeOK
    <3>2. CASE t \notin Legacy
      BY <2>2, <3>2 DEF PublishPending, TypeOK
    <3> QED BY <3>1, <3>2
  <2>3. CASE LoseMsg(t) \/ ClaimRefused(t)
    BY <2>3 DEF LoseMsg, ClaimRefused, rows, TypeOK
  <2>4. CASE Claim(t)
    <3> DEFINE k == attempts[t] + 1
    <3>1. k \in AttemptNos /\ Goto(t, k, "loading")
      BY <2>4 DEF Claim
    <3>2. pc' \in [Tasks -> [AttemptNos -> {"none", "done", "dead"} \cup Busy]]
      BY <1>1, <3>1 DEF Busy
    <3>3. /\ owner' = [owner EXCEPT ![t] = k]
          /\ attempts' = [attempts EXCEPT ![t] = k]
      BY <2>4 DEF Claim
    <3> HIDE DEF k
    <3>4. /\ owner' \in [Tasks -> {0} \cup AttemptNos]
          /\ attempts' \in [Tasks -> {0} \cup AttemptNos]
      BY <3>1, <3>3 DEF TypeOK
    <3>5. /\ status' = [status EXCEPT ![t] = "running"]
          /\ lease' = [lease EXCEPT ![t] = "fresh"]
          /\ msg' = [msg EXCEPT ![t] = FALSE]
          /\ UNCHANGED <<cancelReq, keyed>>
      BY <2>4 DEF Claim
    <3> QED BY <3>2, <3>4, <3>5 DEF TypeOK
  <2> QED BY <1>2, <2>1, <2>2, <2>3, <2>4 DEF Queue
<1>3. ASSUME NEW t \in Tasks, Environment(t) PROVE TypeOK'
  <2>1. CASE RequestCancel(t)
    <3>1. CASE status[t] = "pending"
      BY <2>1, <3>1, EndTaskType DEF RequestCancel, TypeOK
    <3>2. CASE status[t] # "pending"
      BY <2>1, <3>2 DEF RequestCancel, TypeOK
    <3> QED BY <3>1, <3>2
  <2>2. CASE LeaseAges(t)
    BY <2>2 DEF LeaseAges, TypeOK
  <2>3. CASE ReconcileExpiredLease(t)
    BY <2>3, EndTaskType DEF ReconcileExpiredLease, TypeOK
  <2>4. CASE DeleteTerminal(t)
    BY <2>4 DEF DeleteTerminal, TypeOK
  <2> QED BY <1>3, <2>1, <2>2, <2>3, <2>4 DEF Environment
<1>4. ASSUME NEW t \in Tasks, NEW k \in AttemptNos, Attempt(t, k) PROVE TypeOK'
  <2>1. ASSUME NEW p, NEW q \in {"none", "done", "dead"} \cup Busy, Move(t, k, p, q)
        PROVE  TypeOK'
    BY <1>1, <2>1 DEF Move, rows, TypeOK
  <2>2. ASSUME NEW s \in Terminal, FinishOwned(t, k, s) PROVE TypeOK'
    <3>1. FinalStatus(t, s) \in Terminal
      BY DEF FinalStatus
    <3>2. pc' \in [Tasks -> [AttemptNos -> {"none", "done", "dead"} \cup Busy]]
      BY <1>1, <2>2 DEF FinishOwned
    <3> QED BY <2>2, <3>1, <3>2, EndTaskType DEF FinishOwned, TypeOK
  <2>3. CASE Load(t, k) \/ Return(t, k) \/ Raise(t, k) \/ LoseLease(t, k)
             \/ NoticeCancel(t, k) \/ Shutdown(t, k)
    BY <2>1, <2>3
    DEF Load, Return, Raise, LoseLease, NoticeCancel, Shutdown, Busy, Settling
  <2>4. CASE Heartbeat(t, k)
    <3>1. pc' \in [Tasks -> [AttemptNos -> {"none", "done", "dead"} \cup Busy]]
      BY <1>1, <2>4 DEF Heartbeat, Busy, Settling, TypeOK
    <3> QED BY <2>4, <3>1 DEF Heartbeat, TypeOK
  <2>5. CASE FinishSuccess(t, k) \/ FinishTaskFailure(t, k)
    BY <2>2, <2>5 DEF FinishSuccess, FinishTaskFailure
  <2>6. CASE ReleaseInterruptedOwner(t, k)
    <3>1. pc' \in [Tasks -> [AttemptNos -> {"none", "done", "dead"} \cup Busy]]
      BY <1>1, <2>6 DEF ReleaseInterruptedOwner
    <3> QED BY <2>6, <3>1, EndTaskType DEF ReleaseInterruptedOwner, TypeOK
  <2>7. CASE Crash(t, k)
    BY <1>1, <2>7 DEF Crash, rows, TypeOK
  <2> QED
    BY <1>4, <2>3, <2>4, <2>5, <2>6, <2>7 DEF Attempt, Proceed
<1>5. CASE UNCHANGED vars
  BY <1>5 DEF vars, rows, TypeOK
<1> QED BY <1>2, <1>3, <1>4, <1>5 DEF Next

(* The columns of tasks and the places of the invocations have their types *)
(* in every reachable state.                                               *)
THEOREM TypeCorrect == Spec => []TypeOK
<1> QED BY TypeInit, TypeStep, PTL DEF Spec

-----------------------------------------------------------------------------
(* The inductive invariant                                                 *)

(* A row is owned exactly while it runs, by its only attempt; a task of    *)
(* the older release is never claimed and has no key.                      *)
RowOK(t) ==
  /\ status[t] # "running" => owner[t] = 0 /\ lease[t] = "none"
  /\ status[t] = "running" /\ t \notin Legacy => owner[t] = 1 /\ attempts[t] = 1
  /\ status[t] \in {"absent", "pending"} => attempts[t] = 0
  /\ attempts[t] <= 1
  /\ t \in Legacy => /\ status[t] # "absent" /\ attempts[t] = 0
                     /\ ~keyed[t] /\ owner[t] = 0 /\ lease[t] = "none"

(* A cancellation that an invocation acts upon is in the row, and a task   *)
(* that waits has none unless it is an old one.                            *)
CancelOK(t) ==
  /\ t \notin Legacy /\ status[t] \in {"absent", "pending"} => ~cancelReq[t]
  /\ status[t] = "success" => ~cancelReq[t]
  /\ \A k \in AttemptNos : pc[t][k] = "cancelling" => cancelReq[t]

KeyOK(t) ==
  /\ keyed[t] => Active(t) /\ Key[t] # NoKey
  /\ t \notin Legacy /\ Active(t) /\ Key[t] # NoKey => keyed[t]
  /\ keyed[t] => \A u \in Tasks \ {t} : keyed[u] => Key[u] # Key[t]

IInv ==
  /\ TypeOK
  /\ \A t \in Tasks : RowOK(t) /\ CancelOK(t) /\ KeyOK(t)

(* What a step may do to the rows, the action properties and the refined   *)
(* job included.                                                           *)
FencedStep(t) ==
  status[t] = "running" /\ lease[t] = "expired" =>
    \/ Owned(t)' = Owned(t) /\ (pc' # pc => cancelReq' = cancelReq)
    \/ status'[t] = "failed" /\ pc' = pc

(* A lease that is over stays over, and a row without one gets none.       *)
LeaseKept ==
  \A u \in Tasks : /\ lease'[u] = "none" <=> lease[u] = "none"
                   /\ lease[u] = "expired" => lease'[u] = "expired"

StepOK ==
  /\ \A t \in Tasks : RowOK(t)' /\ CancelOK(t)' /\ KeyOK(t)'
  /\ \A t \in Tasks : FencedStep(t)
  /\ \A t \in Tasks : status[t] = "pending" /\ status'[t] = "running" =>
       /\ HasCapacity
       /\ Running' = Running \cup {t}
  /\ [Job!JobNext]_(Job!jobVars)

(* It holds of the tables a migration leaves behind.                       *)
LEMMA InitInv == Init => IInv
<1> SUFFICES ASSUME Init PROVE IInv
  OBVIOUS
<1>1. ASSUME NEW t \in Tasks PROVE RowOK(t) /\ CancelOK(t) /\ KeyOK(t)
  <2>1. /\ owner[t] = 0 /\ lease[t] = "none" /\ ~keyed[t] /\ attempts[t] = 0
        /\ \A k \in AttemptNos : pc[t][k] = "none"
        /\ \A u \in Tasks : ~keyed[u]
    BY DEF Init
  <2>2. /\ t \notin Legacy => status[t] = "absent" /\ ~cancelReq[t]
        /\ t \in Legacy => status[t] \in {"pending", "running"}
    BY DEF Init
  <2> QED BY <2>1, <2>2 DEF RowOK, CancelOK, KeyOK, Active
<1> QED BY <1>1, TypeInit DEF IInv

-----------------------------------------------------------------------------
(* Steps                                                                   *)

(* A step that leaves the rows alone and moves an invocation.              *)
LEMMA MoveOK ==
  ASSUME IInv, NEW t \in Tasks, NEW k \in AttemptNos, NEW p,
         Goto(t, k, p), UNCHANGED <<status, owner, cancelReq, keyed, attempts>>,
         LeaseKept,
         p = "cancelling" => cancelReq[t]
  PROVE  StepOK
<1>1. ASSUME NEW u \in Tasks PROVE RowOK(u)' /\ CancelOK(u)' /\ KeyOK(u)'
  <2>1. RowOK(u)'
    BY DEF IInv, RowOK, LeaseKept
  <2>2. ASSUME NEW l \in AttemptNos, pc'[u][l] = "cancelling" PROVE cancelReq[u]
    BY <2>2 DEF Goto, IInv, TypeOK, CancelOK
  <2>3. CancelOK(u)'
    BY <2>2 DEF IInv, CancelOK
  <2>4. KeyOK(u)'
    BY DEF IInv, KeyOK, Active
  <2> QED BY <2>1, <2>3, <2>4
<1>2. UNCHANGED Job!jobVars
  BY DEF Job!jobVars
<1>3. \A u \in Tasks : FencedStep(u)
  BY DEF FencedStep, Owned, LeaseKept, IInv, TypeOK
<1> QED BY <1>1, <1>2, <1>3 DEF StepOK

(* A step that only touches messages and invocations that are not told to  *)
(* cancel, or nothing at all.                                              *)
LEMMA QuietOK ==
  ASSUME IInv, UNCHANGED <<status, owner, cancelReq, keyed, attempts, pc>>,
         LeaseKept
  PROVE  StepOK
<1>1. ASSUME NEW u \in Tasks PROVE RowOK(u)' /\ CancelOK(u)' /\ KeyOK(u)'
  BY DEF LeaseKept, IInv, RowOK, CancelOK, KeyOK, Active
<1>2. UNCHANGED Job!jobVars
  BY DEF Job!jobVars
<1>3. \A u \in Tasks : FencedStep(u)
  BY DEF FencedStep, Owned, LeaseKept, IInv, TypeOK
<1> QED BY <1>1, <1>2, <1>3 DEF StepOK

(* A task is ended by whoever may: its live owner, the reconciler, the     *)
(* user who cancels it while it waits, or the publisher.                   *)
LEMMA EndOK ==
  ASSUME IInv, NEW t \in Tasks, NEW s \in Terminal, EndTask(t, s),
         Active(t), UNCHANGED <<cancelReq, attempts>>,
         \A u \in Tasks, l \in AttemptNos : pc'[u][l] = "cancelling" => pc[u][l] = "cancelling",
         s = "success" => status[t] = "running" /\ ~cancelReq[t],
         s = "cancelled" => cancelReq[t],
         lease[t] = "expired" => s = "failed" /\ pc' = pc
  PROVE  StepOK
<1> USE DEF IInv, TypeOK, EndTask
<1>1. \A u \in Tasks \ {t} : /\ status'[u] = status[u] /\ owner'[u] = owner[u]
                              /\ lease'[u] = lease[u] /\ keyed'[u] = keyed[u]
  OBVIOUS
<1>2. status'[t] = s /\ owner'[t] = 0 /\ lease'[t] = "none" /\ ~keyed'[t]
  OBVIOUS
<1>3. ASSUME NEW u \in Tasks PROVE RowOK(u)'
  BY <1>1, <1>2 DEF RowOK, Terminal, Active
<1>4. ASSUME NEW u \in Tasks PROVE CancelOK(u)'
  BY <1>1, <1>2 DEF CancelOK, Terminal, Active
<1>5. ASSUME NEW u \in Tasks PROVE KeyOK(u)'
  BY <1>1, <1>2 DEF KeyOK, Terminal, Active
<1>6. Job!End(t, s)
  BY DEF Job!End, Active, Terminal
<1>7. Job!JobNext
  BY <1>6 DEF Job!JobNext, Job!Results, Terminal
<1> QED BY <1>1, <1>2, <1>3, <1>4, <1>5, <1>7 DEF StepOK, FencedStep, Owned, Terminal

(* What the queue does to a task.                                          *)
LEMMA QueueStep ==
  ASSUME IInv, NEW t \in Tasks, Queue(t)
  PROVE  StepOK
<1>1. CASE Enqueue(t)
  <2> USE <1>1 DEF Enqueue, IInv, TypeOK
  <2>1. /\ t \notin Legacy /\ attempts[t] = 0 /\ ~cancelReq[t] /\ ~keyed[t]
        /\ owner[t] = 0 /\ lease[t] = "none"
    BY DEF RowOK, CancelOK, KeyOK, Active
  <2>2. /\ status'[t] = "pending"
        /\ keyed'[t] => Key[t] # NoKey /\ \A u \in Tasks : keyed[u] => Key[u] # Key[t]
        /\ Key[t] # NoKey => keyed'[t]
        /\ \A u \in Tasks \ {t} : status'[u] = status[u] /\ keyed'[u] = keyed[u]
    OBVIOUS
  <2>3. ASSUME NEW u \in Tasks PROVE RowOK(u)' /\ CancelOK(u)' /\ KeyOK(u)'
    <3>1. RowOK(u)'
      BY <2>1, <2>2 DEF RowOK
    <3>2. CancelOK(u)'
      BY <2>1, <2>2 DEF CancelOK
    <3>3. KeyOK(u)'
      BY <2>1, <2>2 DEF KeyOK, Active
    <3> QED BY <3>1, <3>2, <3>3
  <2>4. Job!JobNext
    BY DEF Job!JobNext, Job!Submit
  <2> QED BY <2>2, <2>3, <2>4 DEF StepOK, FencedStep, Owned
<1>2. CASE PublishPending(t)
  <2>1. CASE t \in Legacy
    BY <1>2, <2>1, EndOK DEF PublishPending, Active, Terminal, IInv, RowOK
  <2>2. CASE t \notin Legacy
    BY <1>2, <2>2, QuietOK DEF LeaseKept, PublishPending
  <2> QED BY <2>1, <2>2
<1>3. CASE LoseMsg(t) \/ ClaimRefused(t)
  BY <1>3, QuietOK DEF LeaseKept, LoseMsg, ClaimRefused, rows
<1>4. CASE Claim(t)
  <2> USE DEF IInv, TypeOK
  <2>1. attempts[t] = 0 /\ status[t] = "pending" /\ t \notin Legacy /\ HasCapacity
    BY <1>4 DEF Claim, RowOK
  <2>2. /\ status' = [status EXCEPT ![t] = "running"]
        /\ owner' = [owner EXCEPT ![t] = 1] /\ attempts' = [attempts EXCEPT ![t] = 1]
        /\ lease' = [lease EXCEPT ![t] = "fresh"] /\ Goto(t, 1, "loading")
        /\ UNCHANGED <<cancelReq, keyed>>
    BY <1>4, <2>1 DEF Claim
  <2>3. \A u \in Tasks, l \in AttemptNos : pc'[u][l] = "cancelling" => pc[u][l] = "cancelling"
    BY <2>2 DEF Goto
  <2>4. ASSUME NEW u \in Tasks PROVE RowOK(u)' /\ CancelOK(u)' /\ KeyOK(u)'
    <3>1. RowOK(u)'
      BY <2>1, <2>2 DEF RowOK
    <3>2. CancelOK(u)'
      BY <2>1, <2>2, <2>3 DEF CancelOK
    <3>3. Active(u)' <=> Active(u)
      BY <2>1, <2>2 DEF Active
    <3>4. KeyOK(u)'
      BY <2>2, <3>3 DEF KeyOK
    <3> QED BY <3>1, <3>2, <3>4
  <2>5. Job!Start(t)
    BY <2>1, <2>2 DEF Job!Start, HasCapacity, Running, Cardinality, Job!Cardinality
  <2>7. Job!JobNext
    BY <2>5 DEF Job!JobNext
  <2>6. Running' = Running \cup {t}
    BY <2>2 DEF Running
  <2> QED BY <2>1, <2>2, <2>4, <2>6, <2>7 DEF StepOK, FencedStep, Owned
<1> QED BY <1>1, <1>2, <1>3, <1>4 DEF Queue

(* What the user, time and the reconciler do to a task.                    *)
LEMMA EnvironmentStep ==
  ASSUME IInv, NEW t \in Tasks, Environment(t)
  PROVE  StepOK
<1> USE DEF IInv, TypeOK
<1>1. CASE RequestCancel(t)
  <2>1. /\ Active(t) /\ cancelReq' = [cancelReq EXCEPT ![t] = TRUE]
        /\ status' = [status EXCEPT ![t] = IF @ = "pending" THEN "cancelled" ELSE @]
        /\ UNCHANGED <<attempts, pc>>
    BY <1>1 DEF RequestCancel, EndTask
  <2>2. /\ \A u \in Tasks \ {t} : /\ owner'[u] = owner[u] /\ lease'[u] = lease[u]
                                  /\ keyed'[u] = keyed[u]
        /\ status[t] = "pending" => owner'[t] = 0 /\ lease'[t] = "none" /\ ~keyed'[t]
        /\ status[t] # "pending" => owner'[t] = owner[t] /\ lease'[t] = lease[t]
                                    /\ keyed'[t] = keyed[t]
    BY <1>1 DEF RequestCancel, EndTask
  <2>3. ASSUME NEW u \in Tasks PROVE RowOK(u)' /\ CancelOK(u)' /\ KeyOK(u)'
    <3>1. RowOK(u)'
      BY <2>1, <2>2 DEF RowOK, Active
    <3>2. CancelOK(u)'
      BY <2>1, <2>2 DEF CancelOK, Active
    <3>3. KeyOK(u)'
      BY <2>1, <2>2 DEF KeyOK, Active
    <3> QED BY <3>1, <3>2, <3>3
  <2>4. Job!JobNext
    BY <2>1 DEF Job!JobNext, Job!AskToStop, Active
  <2>5. \A u \in Tasks : status[u] = "running" => Owned(u)' = Owned(u)
    BY <2>1, <2>2 DEF Owned
  <2>6. \A u \in Tasks : FencedStep(u)
    BY <2>1, <2>5 DEF FencedStep
  <2> QED BY <2>1, <2>3, <2>4, <2>6 DEF StepOK
<1>2. CASE LeaseAges(t)
  BY <1>2, QuietOK DEF LeaseKept, LeaseAges, LiveLease
<1>3. CASE ReconcileExpiredLease(t)
  BY <1>3, EndOK DEF ReconcileExpiredLease, Terminal, Active
<1>4. CASE DeleteTerminal(t)
  <2>1. /\ status[t] \in Terminal /\ status' = [status EXCEPT ![t] = "deleted"]
        /\ UNCHANGED <<owner, lease, cancelReq, keyed, attempts, msg, pc>>
    BY <1>4 DEF DeleteTerminal
  <2>2. ASSUME NEW u \in Tasks PROVE RowOK(u)' /\ CancelOK(u)' /\ KeyOK(u)'
    BY <2>1 DEF RowOK, CancelOK, KeyOK, Active, Terminal
  <2>3. Job!JobNext
    BY <2>1 DEF Job!JobNext, Job!Delete, Job!Results, Terminal
  <2> QED BY <2>1, <2>2, <2>3 DEF StepOK, FencedStep, Owned, Terminal
<1> QED BY <1>1, <1>2, <1>3, <1>4 DEF Environment

(* What an invocation does.                                                *)
LEMMA AttemptStep ==
  ASSUME IInv, NEW t \in Tasks, NEW k \in AttemptNos, Attempt(t, k)
  PROVE  StepOK
<1>1. ASSUME NEW p, NEW q, Move(t, k, p, q), q = "cancelling" => cancelReq[t]
      PROVE  StepOK
  BY <1>1, MoveOK DEF LeaseKept, Move, rows
<1>2. ASSUME Goto(t, k, "done")
      PROVE  \A u \in Tasks, l \in AttemptNos : pc'[u][l] = "cancelling" => pc[u][l] = "cancelling"
  BY <1>2 DEF Goto, IInv, TypeOK
<1>3. ASSUME NEW s \in Terminal, FinishOwned(t, k, s), s = "cancelled" => cancelReq[t]
      PROVE  StepOK
  <2>1. CASE IsLiveOwner(t, k)
    <3> DEFINE f == FinalStatus(t, s)
    <3>1. /\ f \in Terminal /\ (f = "success" => ~cancelReq[t])
          /\ f = "cancelled" => cancelReq[t]
      BY <1>3 DEF FinalStatus, Terminal
    <3>2. /\ EndTask(t, f) /\ UNCHANGED <<cancelReq, attempts>> /\ Goto(t, k, "done")
          /\ status[t] = "running" /\ lease[t] # "expired"
      BY <1>3, <2>1 DEF FinishOwned, IsLiveOwner, LiveLease
    <3> HIDE DEF f
    <3> QED BY <1>2, <3>1, <3>2, EndOK DEF Active
  <2>2. CASE ~IsLiveOwner(t, k)
    BY <1>3, <2>2, MoveOK DEF LeaseKept, FinishOwned
  <2> QED BY <2>1, <2>2
<1>4. CASE Load(t, k) \/ Return(t, k) \/ Raise(t, k) \/ LoseLease(t, k)
           \/ NoticeCancel(t, k) \/ Shutdown(t, k)
  BY <1>1, <1>4 DEF Load, Return, Raise, LoseLease, NoticeCancel, Shutdown
<1>5. CASE Heartbeat(t, k)
  <2>1. /\ UNCHANGED <<status, owner, cancelReq, keyed, attempts>>
        /\ LeaseKept
    BY <1>5 DEF Heartbeat, IsLiveOwner, LiveLease, LeaseKept, IInv, TypeOK
  <2>2. CASE cancelReq[t]
    BY <1>5, <2>1, <2>2, MoveOK DEF Heartbeat
  <2>3. CASE ~cancelReq[t]
    BY <1>5, <2>1, <2>3, QuietOK DEF Heartbeat
  <2> QED BY <2>2, <2>3
<1>6. CASE FinishSuccess(t, k) \/ FinishTaskFailure(t, k)
  BY <1>3, <1>6 DEF FinishSuccess, FinishTaskFailure, IInv, CancelOK, Terminal
<1>7. CASE ReleaseInterruptedOwner(t, k)
  <2>1. CASE IsLiveOwner(t, k)
    <3>1. /\ EndTask(t, "failed") /\ UNCHANGED <<cancelReq, attempts>>
          /\ Goto(t, k, "done") /\ status[t] = "running" /\ lease[t] # "expired"
      BY <1>7, <2>1 DEF ReleaseInterruptedOwner, IsLiveOwner, LiveLease
    <3> QED BY <1>2, <3>1, EndOK DEF Active, Terminal
  <2>2. CASE ~IsLiveOwner(t, k)
    BY <1>7, <2>2, MoveOK DEF LeaseKept, ReleaseInterruptedOwner
  <2> QED BY <2>1, <2>2
<1>8. CASE Crash(t, k)
  BY <1>8, MoveOK DEF LeaseKept, Crash, rows
<1> QED BY <1>4, <1>5, <1>6, <1>7, <1>8 DEF Attempt, Proceed

(* The invariant is inductive and every step is a good one.                *)
LEMMA NextStep ==
  ASSUME IInv, [Next]_vars
  PROVE  IInv' /\ StepOK
<1>1. TypeOK'
  BY TypeStep DEF IInv
<1>2. StepOK
  <2>1. CASE UNCHANGED vars
    BY <2>1, QuietOK DEF LeaseKept, vars, rows
  <2> QED BY <2>1, QueueStep, EnvironmentStep, AttemptStep DEF Next
<1> QED BY <1>1, <1>2 DEF IInv, StepOK

-----------------------------------------------------------------------------
(* The theorems                                                            *)

(* The rows, the invocations and the keys stay consistent.                 *)
THEOREM Invariance == Spec => []IInv
<1>1. IInv /\ [Next]_vars => IInv'
  BY NextStep
<1> QED BY <1>1, InitInv, PTL DEF Spec

(* No task's handler is entered twice, whatever is delivered, crashes or   *)
(* expires.                                                                *)
THEOREM ExecutedOnce == Spec => []ExecutedAtMostOnce
<1>1. IInv => ExecutedAtMostOnce
  BY DEF IInv, RowOK, ExecutedAtMostOnce
<1> QED BY <1>1, Invariance, PTL

(* A task that was asked to stop never succeeds.                           *)
THEOREM CancelKept == Spec => []CancelledNeverSucceeds
<1>1. IInv => CancelledNeverSucceeds
  BY DEF IInv, CancelOK, CancelledNeverSucceeds
<1> QED BY <1>1, Invariance, PTL

(* A dedupe key is held by one task, exactly while it is active.           *)
THEOREM KeyHeld == Spec => []DedupeKeyHeldWhileActive
<1>1. IInv => DedupeKeyHeldWhileActive
  BY DEF IInv, TypeOK, RowOK, KeyOK, DedupeKeyHeldWhileActive
<1> QED BY <1>1, Invariance, PTL

(* An attempt whose lease is over changes nothing any more.                *)
THEOREM Fenced == Spec => ExpiredOwnerIsFenced
<1>1. IInv /\ [Next]_vars =>
        [\A t \in Tasks : status[t] = "running" /\ lease[t] = "expired" =>
           \/ Owned(t)' = Owned(t) /\ (pc' # pc => cancelReq' = cancelReq)
           \/ status'[t] = "failed" /\ pc' = pc]_vars
  BY NextStep DEF StepOK, FencedStep
<1> QED BY <1>1, Invariance, PTL DEF Spec, ExpiredOwnerIsFenced

(* A claim never takes more than the configured number of slots.           *)
THEOREM SlotsKept == Spec => CapacityKept
<1>1. ASSUME IInv, [Next]_vars, NEW t \in Tasks,
             status[t] = "pending", status'[t] = "running"
      PROVE  Cardinality(Running') <= MaxRunning
  <2>1. HasCapacity /\ Running' = Running \cup {t}
    BY <1>1, NextStep DEF StepOK
  <2>2. IsFiniteSet(Running)
    BY TasksAssumption, FS_Subset DEF Running
  <2>3. t \notin Running
    BY <1>1 DEF Running
  <2>4. Cardinality(Running') = Cardinality(Running) + 1 /\ Cardinality(Running) \in Nat
    BY <2>1, <2>2, <2>3, FS_AddElement, FS_CardinalityType
  <2> QED BY <2>1, <2>4, MaxRunningAssumption DEF HasCapacity
<1>2. IInv /\ [Next]_vars =>
        [\A t \in Tasks : status[t] = "pending" /\ status'[t] = "running" =>
           Cardinality(Running') <= MaxRunning]_vars
  BY <1>1
<1> QED BY <1>2, Invariance, PTL DEF Spec, CapacityKept

(* The table, its workers and its reconciler implement the job that starts *)
(* once and ends once.                                                     *)
THEOREM Refinement == Spec => ImplementsOneShotJob
<1>1. Init => Job!JobInit
  <2> SUFFICES ASSUME Init PROVE Job!JobInit
    OBVIOUS
  <2>1. PICK old \in [Legacy -> {"pending", "running"}] :
          status = [t \in Tasks |-> IF t \in Legacy THEN old[t] ELSE "absent"]
    BY DEF Init
  <2>2. PICK asked \in SUBSET Legacy : cancelReq = [t \in Tasks |-> t \in asked]
    BY DEF Init
  <2>3. status \in [Tasks -> {"absent", "pending", "running"}]
    BY <2>1
  <2>4. cancelReq \in [Tasks -> BOOLEAN]
    BY TypeInit DEF TypeOK
  <2>5. \A t \in Tasks \ Legacy : status[t] = "absent" /\ ~cancelReq[t]
    BY <2>1, <2>2
  <2> QED BY <2>3, <2>4, <2>5 DEF Init, Job!JobInit
<1>2. IInv /\ [Next]_vars => [Job!JobNext]_(Job!jobVars)
  BY NextStep DEF StepOK
<1> QED BY <1>1, <1>2, Invariance, PTL DEF Spec, Job!JobSpec, ImplementsOneShotJob

-----------------------------------------------------------------------------
(* For the modules of the domains: what it means that a task ends          *)

(* Task t ends, or an invocation of it finds that it is not its any more.  *)
Ending(t) ==
  /\ \A u \in Tasks \ {t} :
       status'[u] = status[u] /\ owner'[u] = owner[u] /\ pc'[u] = pc[u]
  /\ \/ status'[t] = status[t] /\ owner'[t] = owner[t]
     \/ status'[t] \in Terminal /\ status[t] \in {"pending", "running"} /\ owner'[t] = 0
  /\ \A k \in AttemptNos :
       pc'[t][k] = pc[t][k] \/ (pc[t][k] # "none" /\ pc'[t][k] = "done")

LEMMA FinishIsEnding ==
  ASSUME IInv, NEW t \in Tasks, NEW k \in AttemptNos, NEW s \in Terminal,
         FinishOwned(t, k, s), pc[t][k] # "none"
  PROVE  /\ Ending(t)
         /\ status'[t] = "success" /\ status[t] # "success" =>
              s = "success" /\ IsLiveOwner(t, k)
<1>1. /\ pc' = [pc EXCEPT ![t][k] = "done"]
      /\ status \in [Tasks -> {"absent", "pending", "running"} \cup Ended]
      /\ owner \in [Tasks -> {0} \cup AttemptNos]
      /\ pc \in [Tasks -> [AttemptNos -> {"none", "done", "dead"} \cup Busy]]
  BY DEF FinishOwned, Goto, IInv, TypeOK
<1>2. /\ \A u \in Tasks \ {t} : pc'[u] = pc[u]
      /\ \A l \in AttemptNos : pc'[t][l] = pc[t][l] \/ (pc[t][l] # "none" /\ pc'[t][l] = "done")
  BY <1>1
<1>3. CASE IsLiveOwner(t, k)
  <2>1. /\ status' = [status EXCEPT ![t] = FinalStatus(t, s)]
        /\ owner' = [owner EXCEPT ![t] = 0] /\ status[t] = "running"
        /\ FinalStatus(t, s) \in Terminal /\ FinalStatus(t, s) \in {"cancelled", s}
    BY <1>3 DEF FinishOwned, EndTask, FinalStatus, IsLiveOwner, Terminal
  <2> QED BY <1>1, <1>2, <1>3, <2>1 DEF Ending
<1>4. CASE ~IsLiveOwner(t, k)
  BY <1>2, <1>4 DEF FinishOwned, Ending
<1> QED BY <1>3, <1>4

(* Only the live owner ends a task as a success.                           *)
LEMMA SuccessIsEnding ==
  ASSUME IInv, NEW t \in Tasks, NEW k \in AttemptNos, FinishSuccess(t, k)
  PROVE  Ending(t) /\ (status'[t] = "success" /\ status[t] # "success" => IsLiveOwner(t, k))
BY FinishIsEnding DEF FinishSuccess, Terminal

(* Every other transaction that ends a task.                               *)
LEMMA FailureIsEnding ==
  ASSUME IInv, NEW t \in Tasks,
         \/ \E k \in AttemptNos : FinishTaskFailure(t, k) \/ ReleaseInterruptedOwner(t, k)
         \/ RequestCancel(t) \/ ReconcileExpiredLease(t)
  PROVE  Ending(t) /\ (status'[t] = "success" => status[t] = "success")
<1>1. /\ status \in [Tasks -> {"absent", "pending", "running"} \cup Ended]
      /\ owner \in [Tasks -> {0} \cup AttemptNos]
  BY DEF IInv, TypeOK
<1>2. ASSUME NEW s \in {"cancelled", "failed"}, EndTask(t, s),
             status[t] \in {"pending", "running"}, pc' = pc
      PROVE  Ending(t) /\ status'[t] # "success"
  <2>1. status' = [status EXCEPT ![t] = s] /\ owner' = [owner EXCEPT ![t] = 0]
    BY <1>2 DEF EndTask
  <2> QED BY <1>1, <1>2, <2>1 DEF Ending, Terminal
<1>3. CASE RequestCancel(t)
  <2>1. CASE status[t] = "pending"
    BY <1>2, <1>3, <2>1 DEF RequestCancel
  <2>2. CASE status[t] # "pending"
    BY <1>3, <2>2 DEF RequestCancel, Ending
  <2> QED BY <2>1, <2>2
<1>4. CASE ReconcileExpiredLease(t)
  BY <1>2, <1>4 DEF ReconcileExpiredLease
<1>5. ASSUME NEW k \in AttemptNos, FinishTaskFailure(t, k)
      PROVE  Ending(t) /\ (status'[t] = "success" => status[t] = "success")
  BY <1>5, FinishIsEnding DEF FinishTaskFailure, Terminal
<1>6. ASSUME NEW k \in AttemptNos, ReleaseInterruptedOwner(t, k)
      PROVE  Ending(t) /\ (status'[t] = "success" => status[t] = "success")
  <2>1. /\ pc' = [pc EXCEPT ![t][k] = "done"] /\ pc[t][k] = "releasing"
        /\ pc \in [Tasks -> [AttemptNos -> {"none", "done", "dead"} \cup Busy]]
    BY <1>6 DEF ReleaseInterruptedOwner, Goto, IInv, TypeOK
  <2>2. /\ \A u \in Tasks \ {t} : pc'[u] = pc[u]
        /\ \A l \in AttemptNos :
             pc'[t][l] = pc[t][l] \/ (pc[t][l] # "none" /\ pc'[t][l] = "done")
    BY <2>1
  <2>3. CASE IsLiveOwner(t, k)
    <3>1. /\ status' = [status EXCEPT ![t] = "failed"]
          /\ owner' = [owner EXCEPT ![t] = 0] /\ status[t] = "running"
      BY <1>6, <2>3 DEF ReleaseInterruptedOwner, EndTask, IsLiveOwner
    <3> QED BY <1>1, <2>2, <3>1 DEF Ending, Terminal
  <2>4. CASE ~IsLiveOwner(t, k)
    BY <1>6, <2>2, <2>4 DEF ReleaseInterruptedOwner, Ending
  <2> QED BY <2>3, <2>4
<1> QED BY <1>3, <1>4, <1>5, <1>6
=============================================================================
