---------------------- MODULE DatasetGeneration_proofs ----------------------
(* Theorems about DatasetGeneration for any datasets, tasks and counts.    *)
EXTENDS DatasetGeneration, DurableTask_proofs

-----------------------------------------------------------------------------
(* A dataset's task is a Durable Task                                      *)

LEMMA StepIsTaskStep == DatasetNext => [Next]_vars
<1> SUFFICES ASSUME DatasetNext PROVE [Next]_vars
  OBVIOUS
<1>1. ASSUME NEW d \in Datasets, Dataset(d) PROVE [Next]_vars
  BY <1>1
  DEF Dataset, ResumeFull, DeleteDataset, SyncReadDataset, SyncReadTask, SyncWrite,
      GenerateDataset, ResumeWithNewTask, ResumeWithActiveTask, Next, Queue
<1>2. ASSUME NEW t \in Tasks, EndTaskAndDataset(t) PROVE Next
  BY <1>2 DEF EndTaskAndDataset, Finish, Next, Attempt, Proceed, Environment
<1>3. ASSUME NEW t \in Tasks, TaskOnly(t) PROVE Next
  BY <1>3 DEF TaskOnly, Next, Attempt, Proceed, Environment, Queue
<1>4. ASSUME NEW t \in Tasks, NEW k \in AttemptNos, Handler(t, k) PROVE UNCHANGED vars
  BY <1>4 DEF Handler, CountItems, PersistBuildMetadata, FlushItems
<1> QED BY <1>1, <1>2, <1>3, <1>4 DEF DatasetNext

LEMMA DatasetIsTask == DatasetSpec => Spec
<1>1. DatasetInit => Init
  BY DEF DatasetInit
<1>2. [DatasetNext]_allVars => [Next]_vars
  BY StepIsTaskStep DEF allVars
<1> QED BY <1>1, <1>2, PTL DEF DatasetSpec, Spec

(* Of two tasks of a dataset at most one runs.                             *)
LEMMA OneRuns ==
  ASSUME IInv, NEW t \in Tasks, NEW u \in Tasks, Key[t] = Key[u],
         status[t] = "running", status[u] = "running"
  PROVE  t = u
<1>1. t \notin Legacy /\ u \notin Legacy /\ Key[t] # NoKey /\ Key[u] # NoKey
  BY DatasetsAssumption
<1>2. keyed[t] /\ keyed[u]
  BY <1>1 DEF IInv, KeyOK, Active
<1> QED BY <1>2 DEF IInv, KeyOK

-----------------------------------------------------------------------------
(* The inductive invariant                                                 *)

(* A handler has counted only if it was entered, and returned only if its  *)
(* dataset was full.                                                       *)
StartOK(t) ==
  /\ status[t] \in {"absent", "pending"} => \A k \in AttemptNos : pc[t][k] = "none"
  /\ \A k \in AttemptNos :
       /\ pc[t][k] \in {"none", "loading"} => start[t][k] = Uncounted
       /\ pc[t][k] = "returned" => start[t][k] = Total

Owns(t, k) ==
  /\ pc[t][k] \in {"executing", "returned"}
  /\ status[t] = "running"
  /\ owner[t] = k

(* What the owner knows of the items, even when its lease is over, and     *)
(* what its success promised.                                              *)
CursorOK(t) ==
  /\ \A k \in AttemptNos : Owns(t, k) /\ start[t][k] # Uncounted /\ state[Key[t]] # "absent" =>
       items[Key[t]] = 1..start[t][k]
  /\ status[t] = "success" /\ state[Key[t]] # "absent" => items[Key[t]] = Indices

(* The items have no gaps, and the metadata names a task of the dataset.   *)
DatasetOK(d) ==
  /\ \E n \in 0..Total : items[d] = 1..n
  /\ state[d] = "completed" => items[d] = Indices
  /\ state[d] # "absent" =>
       names[d] \in Tasks /\ Key[names[d]] = d /\ status[names[d]] # "absent"

(* A reader has found a task of the dataset and its state at some time.    *)
ViewOK(d) ==
  view[d].found # "nothing" =>
    /\ view[d].task \in Tasks /\ Key[view[d].task] = d /\ status[view[d].task] # "absent"
    /\ view[d].found # "absent"
    /\ view[d].found = "completed" /\ state[d] # "absent" => items[d] = Indices

DatasetInv ==
  /\ IInv
  /\ DatasetTypeOK
  /\ \A t \in Tasks : StartOK(t) /\ CursorOK(t)
  /\ \A d \in Datasets : DatasetOK(d) /\ ViewOK(d)

LEMMA DatasetInitInv == DatasetInit => DatasetInv
<1> SUFFICES ASSUME DatasetInit PROVE DatasetInv
  OBVIOUS
<1>1. IInv /\ TypeOK
  BY InitInv DEF DatasetInit, IInv
<1>2. /\ Uncounted \in 0..Uncounted /\ Uncounted \in Nat
      /\ 0 \in 0..Total /\ 1..0 = {} /\ Total \in Nat
  BY DatasetsAssumption DEF Uncounted
<1>3. DatasetTypeOK
  BY <1>1, <1>2 DEF DatasetInit, DatasetTypeOK, NoView, States
<1>4. ASSUME NEW t \in Tasks PROVE StartOK(t) /\ CursorOK(t)
  <2>1. Key[t] \in Datasets /\ t \notin Legacy
    BY DatasetsAssumption
  <2> QED BY <2>1 DEF DatasetInit, Init, StartOK, CursorOK
<1>5. ASSUME NEW d \in Datasets PROVE DatasetOK(d) /\ ViewOK(d)
  BY <1>2 DEF DatasetInit, DatasetOK, ViewOK, NoView
<1> QED BY <1>1, <1>3, <1>4, <1>5 DEF DatasetInv

-----------------------------------------------------------------------------
(* Steps that leave the items and the cursors alone                        *)

(* A dataset's metadata is as before, or rightly describes it anew.        *)
DescribedOK(d) ==
  \/ state'[d] = state[d] /\ names'[d] = names[d]
  \/ /\ state[d] # "absent" /\ state'[d] \in States \ {"absent"}
     /\ names'[d] \in Tasks /\ Key[names'[d]] = d /\ status'[names'[d]] # "absent"
     /\ state'[d] = "completed" => items[d] = Indices

(* No task starts to own, or succeeds, without what that promises.         *)
TaskOK(t) ==
  /\ status[t] # "absent" => status'[t] # "absent"
  /\ StartOK(t)'
  /\ \A k \in AttemptNos : Owns(t, k)' => Owns(t, k) \/ start[t][k] = Uncounted
  /\ status'[t] = "success" =>
       status[t] = "success" \/ state[Key[t]] = "absent" \/ items[Key[t]] = Indices

LEMMA DescribeStep ==
  ASSUME DatasetInv, IInv', UNCHANGED <<items, start>>,
         state' \in [Datasets -> States], names' \in [Datasets -> Tasks \cup {NoTask}],
         view'  \in [Datasets -> [task : Tasks \cup {NoTask},
                                  found : {"nothing", "unread"} \cup States]],
         \A t \in Tasks : TaskOK(t),
         \A d \in Datasets : DescribedOK(d) /\ (view'[d] = view[d] \/ ViewOK(d)')
  PROVE  DatasetInv'
<1>1. DatasetTypeOK'
  BY DEF DatasetInv, DatasetTypeOK, IInv
<1>2. \A d \in Datasets : state'[d] = "absent" <=> state[d] = "absent"
  BY DEF DescribedOK
<1>3. ASSUME NEW t \in Tasks PROVE CursorOK(t)'
  <2>1. CursorOK(t) /\ TaskOK(t) /\ Key[t] \in Datasets
    BY DatasetsAssumption DEF DatasetInv
  <2>2. state'[Key[t]] = "absent" <=> state[Key[t]] = "absent"
    BY <1>2, <2>1
  <2>3. ASSUME NEW k \in AttemptNos, Owns(t, k)', start[t][k] # Uncounted,
               state[Key[t]] # "absent"
        PROVE  items[Key[t]] = 1..start[t][k]
    BY <2>1, <2>3 DEF CursorOK, TaskOK
  <2> QED BY <2>1, <2>2, <2>3 DEF CursorOK, TaskOK
<1>4. ASSUME NEW d \in Datasets PROVE DatasetOK(d)' /\ ViewOK(d)'
  <2>1. /\ DatasetOK(d) /\ ViewOK(d) /\ DescribedOK(d)
        /\ \A t \in Tasks : status[t] # "absent" => status'[t] # "absent"
    BY DEF DatasetInv, TaskOK
  <2>2. DatasetOK(d)'
    BY <2>1 DEF DatasetOK, DescribedOK
  <2>3. view'[d] = view[d] => ViewOK(d)'
    BY <1>2, <2>1 DEF ViewOK
  <2> QED BY <2>2, <2>3
<1> QED BY <1>1, <1>3, <1>4 DEF DatasetInv, TaskOK

(* What stays of a task that a step does not touch.                        *)
LEMMA TaskSame ==
  ASSUME DatasetInv, NEW t \in Tasks, start' = start,
         status'[t] = status[t], owner'[t] = owner[t], pc'[t] = pc[t]
  PROVE  TaskOK(t)
BY DEF DatasetInv, TaskOK, StartOK, Owns

-----------------------------------------------------------------------------
(* The steps of the task                                                   *)

(* A step that moves one invocation and leaves rows that are not over.     *)
LEMMA MovedTask ==
  ASSUME DatasetInv, NEW t \in Tasks, NEW k \in AttemptNos, NEW q, Goto(t, k, q),
         UNCHANGED <<status, owner, start>>,
         pc[t][k] \in Busy,
         q \in {"none", "loading"} => FALSE,
         q = "executing" => pc[t][k] = "loading",
         q = "returned" => pc[t][k] = "executing" /\ start[t][k] = Total
  PROVE  \A u \in Tasks : TaskOK(u)
<1>1. /\ pc' = [pc EXCEPT ![t][k] = q]
      /\ pc \in [Tasks -> [AttemptNos -> {"none", "done", "dead"} \cup Busy]]
  BY DEF Goto, DatasetInv, IInv, TypeOK
<1>2. \A u \in Tasks \ {t} : pc'[u] = pc[u]
  BY <1>1
<1>3. \A l \in AttemptNos \ {k} : pc'[t][l] = pc[t][l]
  BY <1>1
<1>4. pc'[t][k] = q
  BY <1>1
<1>5. StartOK(t) /\ pc[t][k] # "none"
  BY DEF DatasetInv, Busy, Settling
<1>6. TaskOK(t)
  BY <1>3, <1>4, <1>5 DEF TaskOK, StartOK, Owns
<1>7. ASSUME NEW u \in Tasks \ {t} PROVE TaskOK(u)
  BY <1>2, <1>7, TaskSame
<1> QED BY <1>6, <1>7

LEMMA TaskOnlyStep ==
  ASSUME DatasetInv, NEW t \in Tasks, TaskOnly(t), IInv'
  PROVE  DatasetInv'
<1>1. /\ UNCHANGED domain
      /\ \A d \in Datasets : DescribedOK(d)
      /\ state \in [Datasets -> States] /\ names \in [Datasets -> Tasks \cup {NoTask}]
      /\ view  \in [Datasets -> [task : Tasks \cup {NoTask},
                                 found : {"nothing", "unread"} \cup States]]
  BY DEF TaskOnly, domain, DescribedOK, DatasetInv, DatasetTypeOK
<1>2. SUFFICES \A u \in Tasks : TaskOK(u)
  BY <1>1, DescribeStep DEF domain
<1>3. /\ start' = start /\ t \notin Legacy
      /\ status \in [Tasks -> {"absent", "pending", "running"} \cup Ended]
      /\ owner \in [Tasks -> {0} \cup AttemptNos]
      /\ pc \in [Tasks -> [AttemptNos -> {"none", "done", "dead"} \cup Busy]]
  BY <1>1, DatasetsAssumption DEF domain, DatasetInv, IInv, TypeOK
<1>4. CASE PublishPending(t) \/ LoseMsg(t) \/ ClaimRefused(t) \/ LeaseAges(t)
  <2>1. UNCHANGED <<status, owner, pc>>
    BY <1>3, <1>4 DEF PublishPending, LoseMsg, ClaimRefused, LeaseAges, rows
  <2> QED BY <1>3, <2>1, TaskSame
<1>5. CASE Claim(t)
  <2> DEFINE k == attempts[t] + 1
  <2>1. /\ k \in AttemptNos /\ status[t] = "pending"
        /\ status' = [status EXCEPT ![t] = "running"]
        /\ owner' = [owner EXCEPT ![t] = k]
        /\ pc' = [pc EXCEPT ![t][k] = "loading"]
    BY <1>5 DEF Claim, Goto
  <2> HIDE DEF k
  <2>2. status'[t] = "running" /\ owner'[t] = k /\ pc'[t][k] = "loading"
    BY <1>3, <2>1
  <2>3. \A l \in AttemptNos \ {k} : pc'[t][l] = pc[t][l]
    BY <1>3, <2>1
  <2>4. \A l \in AttemptNos : pc[t][l] = "none" /\ start[t][l] = Uncounted
    BY <2>1 DEF DatasetInv, StartOK
  <2>5. TaskOK(t)
    BY <1>3, <2>1, <2>2, <2>3, <2>4 DEF TaskOK, StartOK, Owns
  <2>6. ASSUME NEW u \in Tasks \ {t} PROVE TaskOK(u)
    <3>1. status'[u] = status[u] /\ owner'[u] = owner[u] /\ pc'[u] = pc[u]
      BY <1>3, <2>1
    <3> QED BY <1>3, <3>1, TaskSame
  <2> QED BY <2>5, <2>6
<1>6. CASE DeleteTerminal(t)
  <2>1. /\ status' = [status EXCEPT ![t] = "deleted"] /\ status[t] \in Terminal
        /\ UNCHANGED <<owner, pc>>
    BY <1>6 DEF DeleteTerminal
  <2>2. TaskOK(t)
    BY <1>3, <2>1 DEF TaskOK, StartOK, Owns, DatasetInv, Terminal
  <2>3. ASSUME NEW u \in Tasks \ {t} PROVE TaskOK(u)
    BY <1>3, <2>1, TaskSame
  <2> QED BY <2>2, <2>3
<1>7. ASSUME NEW k \in AttemptNos,
             \/ Load(t, k) \/ (Return(t, k) /\ IsFull(t, k)) \/ Raise(t, k) \/ Heartbeat(t, k)
             \/ LoseLease(t, k) \/ NoticeCancel(t, k) \/ Shutdown(t, k) \/ Crash(t, k)
      PROVE  \A u \in Tasks : TaskOK(u)
  <2>1. CASE Heartbeat(t, k) /\ UNCHANGED pc
    BY <1>3, <2>1, TaskSame DEF Heartbeat
  <2>2. CASE Heartbeat(t, k) /\ Goto(t, k, "cancelling")
    BY <1>3, <2>2, MovedTask DEF Heartbeat, Busy
  <2>3. CASE Return(t, k) /\ IsFull(t, k)
    BY <1>3, <2>3, MovedTask DEF Return, IsFull, Move, rows, Busy
  <2>4. CASE Load(t, k)
    BY <1>3, <2>4, MovedTask DEF Load, Move, rows, Busy
  <2>5. CASE Crash(t, k)
    BY <1>3, <2>5, MovedTask DEF Crash, rows
  <2>6. ASSUME NEW from \in Busy, NEW to \in (Settling \ {"returned"}) \cup {"done"},
               Move(t, k, from, to)
        PROVE  \A u \in Tasks : TaskOK(u)
    <3>1. to \notin {"none", "loading", "executing", "returned"}
      BY DEF Settling
    <3> QED BY <1>3, <2>6, <3>1, MovedTask DEF Move, rows
  <2>7. CASE Raise(t, k) \/ LoseLease(t, k) \/ NoticeCancel(t, k) \/ Shutdown(t, k)
    <3>1. PICK from \in Busy, to \in (Settling \ {"returned"}) \cup {"done"} : Move(t, k, from, to)
      BY <2>7 DEF Raise, LoseLease, NoticeCancel, Shutdown, Busy, Settling
    <3> QED BY <2>6, <3>1
  <2> QED BY <1>7, <2>1, <2>2, <2>3, <2>4, <2>5, <2>7 DEF Heartbeat
<1> QED BY <1>4, <1>5, <1>6, <1>7 DEF TaskOnly

LEMMA EndEffect ==
  ASSUME DatasetInv, NEW t \in Tasks, EndTaskAndDataset(t)
  PROVE  /\ Ending(t)
         /\ status'[t] = "success" /\ status[t] # "success" =>
              state[Key[t]] # "absent" /\ items[Key[t]] = Indices
<1>1. IInv
  BY DEF DatasetInv
<1>2. ASSUME NEW k \in AttemptNos, FinishSuccess(t, k),
             status'[t] = "success" => state[Key[t]] # "absent"
      PROVE  /\ Ending(t)
             /\ status'[t] = "success" /\ status[t] # "success" =>
                  state[Key[t]] # "absent" /\ items[Key[t]] = Indices
  <2>1. /\ Ending(t)
        /\ status'[t] = "success" /\ status[t] # "success" => IsLiveOwner(t, k)
    BY <1>1, <1>2, SuccessIsEnding
  <2>2. pc[t][k] = "returned" /\ start[t][k] = Total /\ Total # Uncounted
    BY <1>2, DatasetsAssumption DEF FinishSuccess, DatasetInv, StartOK, Uncounted
  <2>3. IsLiveOwner(t, k) => Owns(t, k)
    BY <2>2 DEF IsLiveOwner, Owns
  <2>4. Owns(t, k) /\ state[Key[t]] # "absent" => items[Key[t]] = Indices
    BY <2>2 DEF DatasetInv, CursorOK, Indices
  <2> QED BY <1>2, <2>1, <2>3, <2>4
<1> QED BY <1>1, <1>2, FailureIsEnding DEF EndTaskAndDataset, Finish

(* The end of a task and what the hook writes with it.                     *)
LEMMA EndStep ==
  ASSUME DatasetInv, NEW t \in Tasks, EndTaskAndDataset(t), IInv'
  PROVE  DatasetInv'
<1> DEFINE d == Key[t]
<1>1. /\ UNCHANGED <<items, start, view>> /\ EndHook(t) /\ d \in Datasets
      /\ state \in [Datasets -> States] /\ names \in [Datasets -> Tasks \cup {NoTask}]
      /\ view  \in [Datasets -> [task : Tasks \cup {NoTask},
                                 found : {"nothing", "unread"} \cup States]]
  BY DatasetsAssumption DEF EndTaskAndDataset, DatasetInv, DatasetTypeOK
<1>2. /\ Ending(t)
      /\ status'[t] = "success" /\ status[t] # "success" =>
           state[d] # "absent" /\ items[d] = Indices
  BY EndEffect
<1>3. TaskOK(t)
  BY <1>1, <1>2 DEF TaskOK, Ending, StartOK, Owns, DatasetInv, Terminal
<1>4. \A u \in Tasks : TaskOK(u)
  BY <1>1, <1>2, <1>3, TaskSame DEF Ending
<1>5. status'[t] # status[t] => status'[t] \in Terminal
  BY <1>2 DEF Ending
<1>6. /\ state' \in [Datasets -> States] /\ names' \in [Datasets -> Tasks \cup {NoTask}]
      /\ \A e \in Datasets : DescribedOK(e)
  <2>1. CASE UNCHANGED <<state, names>>
    BY <1>1, <2>1 DEF DescribedOK
  <2>2. CASE Describe(d, "completed", t) /\ status'[t] = "success" /\ status[t] # "success"
    BY <1>1, <1>2, <2>2 DEF Describe, DescribedOK, States
  <2>3. CASE Describe(d, "failed", t) /\ status'[t] # status[t] /\ state[d] # "absent"
    BY <1>1, <1>5, <2>3 DEF Describe, DescribedOK, States, Terminal
  <2> QED BY <1>1, <2>1, <2>2, <2>3 DEF EndHook, FailHook
<1> QED BY <1>1, <1>4, <1>6, DescribeStep

-----------------------------------------------------------------------------
(* What requests and readers do to a dataset                               *)

LEMMA Kept ==
  ASSUME DatasetInv
  PROVE  /\ state \in [Datasets -> States] /\ names \in [Datasets -> Tasks \cup {NoTask}]
         /\ view  \in [Datasets -> [task : Tasks \cup {NoTask},
                                    found : {"nothing", "unread"} \cup States]]
BY DEF DatasetInv, DatasetTypeOK

LEMMA TasksSame ==
  ASSUME DatasetInv, UNCHANGED <<status, owner, pc, start>>
  PROVE  \A t \in Tasks : TaskOK(t)
BY TaskSame

LEMMA EnqueueOK ==
  ASSUME DatasetInv, NEW t \in Tasks, Enqueue(t), start' = start
  PROVE  \A u \in Tasks : TaskOK(u)
<1>1. /\ status \in [Tasks -> {"absent", "pending", "running"} \cup Ended]
      /\ status[t] = "absent" /\ status' = [status EXCEPT ![t] = "pending"]
      /\ UNCHANGED <<owner, pc>>
  BY DEF DatasetInv, IInv, TypeOK, Enqueue
<1>2. TaskOK(t)
  BY <1>1 DEF TaskOK, StartOK, Owns, DatasetInv
<1>3. ASSUME NEW u \in Tasks \ {t} PROVE TaskOK(u)
  BY <1>1, TaskSame
<1> QED BY <1>2, <1>3

(* A step that only describes one dataset.                                 *)
LEMMA OneDescribed ==
  ASSUME DatasetInv, IInv', NEW d \in Datasets, NEW s \in States \ {"absent"}, NEW t \in Tasks,
         Describe(d, s, t), state[d] # "absent", UNCHANGED <<items, start, view>>,
         Key[t] = d, status'[t] # "absent", s = "completed" => items[d] = Indices,
         \A u \in Tasks : TaskOK(u)
  PROVE  DatasetInv'
<1>1. /\ state' \in [Datasets -> States] /\ names' \in [Datasets -> Tasks \cup {NoTask}]
      /\ \A e \in Datasets : DescribedOK(e)
  BY Kept DEF Describe, DescribedOK
<1> QED BY <1>1, Kept, DescribeStep

LEMMA ResumeStep ==
  ASSUME DatasetInv, IInv', NEW d \in Datasets,
         \/ ResumeFull(d)
         \/ \E t \in Tasks : ResumeWithNewTask(d, t) \/ ResumeWithActiveTask(d, t)
  PROVE  DatasetInv'
<1>1. CASE ResumeFull(d)
  <2>1. /\ names[d] \in Tasks /\ Key[names[d]] = d /\ status[names[d]] # "absent"
        /\ state[d] # "absent"
    BY <1>1 DEF ResumeFull, DatasetInv, DatasetOK
  <2>2. "completed" \in States \ {"absent"} /\ UNCHANGED <<status, owner, pc, start>>
    BY <1>1 DEF States, ResumeFull, vars, rows
  <2> QED BY <1>1, <2>1, <2>2, TasksSame, OneDescribed DEF ResumeFull, vars, rows
<1>2. ASSUME NEW t \in Tasks, ResumeWithNewTask(d, t) PROVE DatasetInv'
  <2>1. status'[t] = "pending" /\ start' = start
    BY <1>2 DEF ResumeWithNewTask, Enqueue, DatasetInv, IInv, TypeOK
  <2>2. "pending" \in States \ {"absent"}
    BY DEF States, Unsettled
  <2> QED BY <1>2, <2>1, <2>2, EnqueueOK, OneDescribed DEF ResumeWithNewTask
<1>3. ASSUME NEW t \in Tasks, ResumeWithActiveTask(d, t) PROVE DatasetInv'
  <2>1. status[t] # "absent"
    BY <1>3 DEF ResumeWithActiveTask, DatasetInv, IInv, KeyOK, Active
  <2>2. "pending" \in States \ {"absent"} /\ UNCHANGED <<status, owner, pc, start>>
    BY <1>3 DEF States, Unsettled, ResumeWithActiveTask, vars, rows
  <2> QED BY <1>3, <2>1, <2>2, TasksSame, OneDescribed DEF ResumeWithActiveTask
<1> QED BY <1>1, <1>2, <1>3

LEMMA SyncStep ==
  ASSUME DatasetInv, IInv', NEW d \in Datasets,
         SyncReadDataset(d) \/ SyncReadTask(d) \/ SyncWrite(d)
  PROVE  DatasetInv'
<1>1. UNCHANGED <<status, owner, pc, start, items>>
  BY DEF SyncReadDataset, SyncReadTask, SyncWrite, vars, rows
<1>2. \A t \in Tasks : TaskOK(t)
  BY <1>1, TasksSame
<1>3. DatasetOK(d) /\ ViewOK(d)
  BY DEF DatasetInv
<1>4. CASE SyncReadDataset(d)
  <2>1. /\ view' = [view EXCEPT ![d] = [task |-> names[d], found |-> "unread"]]
        /\ UNCHANGED <<state, names>> /\ state[d] # "absent"
    BY <1>4 DEF SyncReadDataset, Unsettled
  <2>2. view'[d].task = names[d] /\ view'[d].found = "unread"
    BY <2>1, Kept
  <2>3. ViewOK(d)'
    BY <1>1, <1>3, <2>1, <2>2 DEF ViewOK, DatasetOK
  <2>4. view' \in [Datasets -> [task : Tasks \cup {NoTask},
                                found : {"nothing", "unread"} \cup States]]
    BY <2>1, Kept
  <2>5. \A e \in Datasets : DescribedOK(e) /\ (view'[e] = view[e] \/ ViewOK(e)')
    BY <2>1, <2>3, Kept DEF DescribedOK
  <2> QED BY <1>1, <1>2, <2>1, <2>4, <2>5, Kept, DescribeStep
<1>5. CASE SyncReadTask(d)
  <2> DEFINE s == StateOfTask(view[d].task)
  <2>1. /\ view' = [view EXCEPT ![d].found = s]
        /\ UNCHANGED <<state, names>> /\ view[d].found = "unread"
    BY <1>5 DEF SyncReadTask
  <2>2. /\ s \in States \ {"absent"}
        /\ s = "completed" => status[view[d].task] = "success"
    BY DEF StateOfTask, States, Unsettled
  <2> HIDE DEF s
  <2>3. view'[d].task = view[d].task /\ view'[d].found = s
    BY <2>1, Kept
  <2>4. /\ view[d].task \in Tasks /\ Key[view[d].task] = d /\ status[view[d].task] # "absent"
        /\ CursorOK(view[d].task)
    BY <1>3, <2>1 DEF ViewOK, DatasetInv
  <2>5. ViewOK(d)'
    BY <1>1, <2>1, <2>2, <2>3, <2>4 DEF ViewOK, CursorOK
  <2>6. view' \in [Datasets -> [task : Tasks \cup {NoTask},
                                found : {"nothing", "unread"} \cup States]]
    BY <2>1, <2>2, Kept
  <2>7. \A e \in Datasets : DescribedOK(e) /\ (view'[e] = view[e] \/ ViewOK(e)')
    BY <2>1, <2>5, Kept DEF DescribedOK
  <2> QED BY <1>1, <1>2, <2>1, <2>6, <2>7, Kept, DescribeStep
<1>6. CASE SyncWrite(d)
  <2>1. view' = [view EXCEPT ![d] = NoView] /\ view[d].found \in States
    BY <1>6 DEF SyncWrite
  <2>2. view'[d] = NoView /\ view[d].found # "nothing"
    BY <2>1, Kept DEF States, Unsettled
  <2>3. ViewOK(d)'
    BY <2>2 DEF ViewOK, NoView
  <2>4. NoView \in [task : Tasks \cup {NoTask}, found : {"nothing", "unread"} \cup States]
    BY DEF NoView
  <2>5. view' \in [Datasets -> [task : Tasks \cup {NoTask},
                                found : {"nothing", "unread"} \cup States]]
    BY <2>1, <2>4, Kept
  <2>6. \A e \in Datasets : view'[e] = view[e] \/ ViewOK(e)'
    BY <2>1, <2>3, Kept
  <2>7. CASE state[d] = "absent"
    <3>1. UNCHANGED <<state, names>>
      BY <1>6, <2>7 DEF SyncWrite
    <3> QED BY <1>1, <1>2, <2>5, <2>6, <3>1, Kept, DescribeStep DEF DescribedOK
  <2>8. CASE state[d] # "absent"
    <3>1. Describe(d, view[d].found, view[d].task)
      BY <1>6, <2>8 DEF SyncWrite
    <3>2. /\ view[d].task \in Tasks /\ Key[view[d].task] = d /\ status[view[d].task] # "absent"
          /\ view[d].found \in States \ {"absent"}
          /\ view[d].found = "completed" => items[d] = Indices
      BY <1>3, <2>1, <2>2, <2>8 DEF ViewOK
    <3>3. /\ state' \in [Datasets -> States] /\ names' \in [Datasets -> Tasks \cup {NoTask}]
          /\ \A e \in Datasets : DescribedOK(e)
      BY <1>1, <2>8, <3>1, <3>2, Kept DEF Describe, DescribedOK
    <3> QED BY <1>1, <1>2, <2>5, <2>6, <3>3, DescribeStep
  <2> QED BY <2>7, <2>8
<1> QED BY <1>4, <1>5, <1>6

LEMMA PersistStep ==
  ASSUME DatasetInv, IInv', NEW t \in Tasks, NEW k \in AttemptNos, PersistBuildMetadata(t, k)
  PROVE  DatasetInv'
<1>1. /\ UNCHANGED <<status, owner, pc, start, items, view>> /\ status[t] = "running"
      /\ state[Key[t]] # "absent" /\ Describe(Key[t], "running", t)
  BY DEF PersistBuildMetadata, MayCheckpoint, IsLiveOwner, vars, rows
<1>2. "running" \in States \ {"absent"} /\ Key[t] \in Datasets
  BY DatasetsAssumption DEF States, Unsettled
<1> QED BY <1>1, <1>2, TasksSame, OneDescribed

-----------------------------------------------------------------------------
(* Steps that change the items or a cursor, and new and deleted datasets   *)

LEMMA CountStep ==
  ASSUME DatasetInv, IInv', NEW t \in Tasks, NEW k \in AttemptNos, CountItems(t, k)
  PROVE  DatasetInv'
<1> DEFINE n == Cardinality(items[Key[t]])
<1>1. /\ UNCHANGED <<status, owner, pc, state, names, items, view>>
      /\ pc[t][k] = "executing"
      /\ start' = [start EXCEPT ![t][k] = n]
      /\ start \in [Tasks -> [AttemptNos -> 0..Uncounted]]
      /\ Key[t] \in Datasets
  BY DatasetsAssumption DEF CountItems, vars, rows, DatasetInv, DatasetTypeOK
<1>2. n \in 0..Total /\ items[Key[t]] = 1..n /\ Total \in Nat
  <2>1. PICK m \in 0..Total : items[Key[t]] = 1..m
    BY <1>1 DEF DatasetInv, DatasetOK
  <2>2. Total \in Nat
    BY DatasetsAssumption
  <2>3. Cardinality(1..m) = m
    BY <2>1, <2>2, FS_Interval
  <2> QED BY <2>1, <2>2, <2>3
<1> HIDE DEF n
<1>3. /\ start' \in [Tasks -> [AttemptNos -> 0..Uncounted]]
      /\ start'[t][k] = n
      /\ \A u \in Tasks \ {t} : start'[u] = start[u]
      /\ \A l \in AttemptNos \ {k} : start'[t][l] = start[t][l]
  BY <1>1, <1>2 DEF Uncounted
<1>4. DatasetTypeOK'
  BY <1>1, <1>3 DEF DatasetInv, DatasetTypeOK, IInv
<1>5. ASSUME NEW u \in Tasks PROVE StartOK(u)' /\ CursorOK(u)'
  <2>1. StartOK(u) /\ CursorOK(u)
    BY DEF DatasetInv
  <2>2. CASE u # t
    BY <1>1, <1>3, <2>1, <2>2 DEF StartOK, CursorOK, Owns
  <2>3. CASE u = t
    BY <1>1, <1>2, <1>3, <2>1, <2>3 DEF StartOK, CursorOK, Owns
  <2> QED BY <2>2, <2>3
<1>6. ASSUME NEW d \in Datasets PROVE DatasetOK(d)' /\ ViewOK(d)'
  BY <1>1 DEF DatasetInv, DatasetOK, ViewOK
<1> QED BY <1>4, <1>5, <1>6 DEF DatasetInv

LEMMA FlushStep ==
  ASSUME DatasetInv, IInv', NEW t \in Tasks, NEW k \in AttemptNos, FlushItems(t, k)
  PROVE  DatasetInv'
<1> DEFINE n == start[t][k] + 1
           d == Key[t]
<1>1. /\ UNCHANGED <<status, owner, pc, state, names, view>>
      /\ pc[t][k] = "executing" /\ status[t] = "running" /\ owner[t] = k
      /\ state[d] # "absent" /\ n \in Indices /\ n \notin items[d]
      /\ items' = [items EXCEPT ![d] = items[d] \cup {n}]
      /\ start' = [start EXCEPT ![t][k] = n]
      /\ start \in [Tasks -> [AttemptNos -> 0..Uncounted]]
      /\ items \in [Datasets -> SUBSET Indices]
      /\ d \in Datasets
  BY DatasetsAssumption
  DEF FlushItems, MayCheckpoint, IsLiveOwner, vars, rows, DatasetInv, DatasetTypeOK
<1>2. /\ Total \in Nat /\ n \in 1..Total /\ start[t][k] \in Nat
      /\ start[t][k] # Uncounted /\ n # Uncounted /\ n \in 0..Uncounted
  BY <1>1, DatasetsAssumption DEF Indices, Uncounted
<1>3. items[d] = 1..start[t][k]
  BY <1>1, <1>2 DEF DatasetInv, CursorOK, Owns
<1>4. items[d] \cup {n} = 1..n
  BY <1>2, <1>3
<1> HIDE DEF n, d
<1>5. /\ start' \in [Tasks -> [AttemptNos -> 0..Uncounted]]
      /\ start'[t][k] = n
      /\ \A u \in Tasks \ {t} : start'[u] = start[u]
      /\ \A l \in AttemptNos \ {k} : start'[t][l] = start[t][l]
  BY <1>1, <1>2
<1>6. /\ items'[d] = 1..n
      /\ \A e \in Datasets \ {d} : items'[e] = items[e]
      /\ items' \in [Datasets -> SUBSET Indices]
  BY <1>1, <1>4
<1>7. items[d] # Indices
  BY <1>1
<1>8. DatasetTypeOK'
  BY <1>1, <1>5, <1>6 DEF DatasetInv, DatasetTypeOK, IInv
<1>9. ASSUME NEW u \in Tasks PROVE StartOK(u)' /\ CursorOK(u)'
  <2>1. StartOK(u) /\ CursorOK(u) /\ Key[u] \in Datasets
    BY DatasetsAssumption DEF DatasetInv
  <2>2. StartOK(u)'
    <3>1. u # t => start'[u] = start[u]
      BY <1>5
    <3> QED BY <1>1, <1>5, <2>1, <3>1 DEF StartOK
  <2>3. CASE Key[u] # d
    <3>1. u # t
      BY <2>3 DEF d
    <3> QED BY <1>1, <1>5, <1>6, <2>1, <2>2, <2>3, <3>1 DEF CursorOK, Owns
  <2>4. CASE Key[u] = d
    <3>1. status[u] # "success"
      BY <1>1, <1>7, <2>1, <2>4 DEF CursorOK
    <3>2. status[u] = "running" => u = t
      BY <1>1, <2>4, OneRuns DEF d, DatasetInv
    <3> QED BY <1>1, <1>5, <1>6, <2>2, <2>4, <3>1, <3>2 DEF CursorOK, Owns
  <2> QED BY <2>2, <2>3, <2>4
<1>10. ASSUME NEW e \in Datasets PROVE DatasetOK(e)' /\ ViewOK(e)'
  <2>1. DatasetOK(e) /\ ViewOK(e)
    BY DEF DatasetInv
  <2>2. CASE e # d
    BY <1>1, <1>6, <2>1, <2>2 DEF DatasetOK, ViewOK
  <2>3. CASE e = d
    <3>1. n \in 0..Total /\ items'[e] = 1..n
      BY <1>2, <1>6, <2>3
    <3>2. state'[e] # "completed" /\ view[e].found # "completed"
      BY <1>1, <1>7, <2>1, <2>3 DEF DatasetOK, ViewOK
    <3> QED BY <1>1, <2>1, <3>1, <3>2 DEF DatasetOK, ViewOK
  <2> QED BY <2>2, <2>3
<1> QED BY <1>8, <1>9, <1>10 DEF DatasetInv

LEMMA GenerateStep ==
  ASSUME DatasetInv, IInv', NEW d \in Datasets, NEW t \in Tasks, GenerateDataset(d, t)
  PROVE  DatasetInv'
<1>1. /\ Key[t] = d /\ \A u \in Tasks : Key[u] = d => status[u] = "absent"
      /\ status' = [status EXCEPT ![t] = "pending"]
      /\ status \in [Tasks -> {"absent", "pending", "running"} \cup Ended]
      /\ UNCHANGED <<owner, pc, items, start, view>>
      /\ Describe(d, "pending", t)
      /\ Enqueue(t)
  BY DEF GenerateDataset, Enqueue, DatasetInv, IInv, TypeOK
<1>2. /\ \A e \in Datasets \ {d} : state'[e] = state[e] /\ names'[e] = names[e]
      /\ state'[d] = "pending" /\ names'[d] = t
      /\ state' \in [Datasets -> States] /\ names' \in [Datasets -> Tasks \cup {NoTask}]
  BY <1>1, Kept DEF Describe, States, Unsettled
<1>3. status'[t] = "pending" /\ \A u \in Tasks \ {t} : status'[u] = status[u]
  BY <1>1
<1>4. DatasetTypeOK'
  BY <1>1, <1>2 DEF DatasetInv, DatasetTypeOK, IInv
<1>5. ASSUME NEW u \in Tasks PROVE StartOK(u)' /\ CursorOK(u)'
  <2>1. StartOK(u) /\ CursorOK(u) /\ Key[u] \in Datasets
    BY DatasetsAssumption DEF DatasetInv
  <2>2. StartOK(u)'
    BY <1>1, <1>3, <2>1 DEF StartOK
  <2>3. CASE Key[u] = d
    <3>1. status'[u] \in {"absent", "pending"}
      BY <1>1, <1>3, <2>3
    <3> QED BY <2>2, <3>1 DEF CursorOK, Owns
  <2>4. CASE Key[u] # d
    BY <1>1, <1>2, <1>3, <2>1, <2>2, <2>4 DEF CursorOK, Owns
  <2> QED BY <2>3, <2>4
<1>6. ASSUME NEW e \in Datasets PROVE DatasetOK(e)' /\ ViewOK(e)'
  <2>1. DatasetOK(e) /\ ViewOK(e)
    BY DEF DatasetInv
  <2>2. CASE e = d
    <3>1. view[e].found = "nothing"
      BY <1>1, <2>1, <2>2 DEF ViewOK
    <3> QED BY <1>1, <1>2, <1>3, <2>1, <2>2, <3>1 DEF DatasetOK, ViewOK
  <2>3. CASE e # d
    BY <1>1, <1>2, <1>3, <2>1, <2>3 DEF DatasetOK, ViewOK
  <2> QED BY <2>2, <2>3
<1> QED BY <1>4, <1>5, <1>6 DEF DatasetInv

LEMMA DeleteStep ==
  ASSUME DatasetInv, IInv', NEW d \in Datasets, DeleteDataset(d)
  PROVE  DatasetInv'
<1>1. /\ UNCHANGED <<status, owner, pc, start, view>>
      /\ items' = [items EXCEPT ![d] = {}]
      /\ items \in [Datasets -> SUBSET Indices]
      /\ Describe(d, "absent", NoTask)
  BY DEF DeleteDataset, vars, rows, DatasetInv, DatasetTypeOK
<1>2. /\ \A e \in Datasets \ {d} :
           state'[e] = state[e] /\ names'[e] = names[e] /\ items'[e] = items[e]
      /\ state'[d] = "absent" /\ items'[d] = {}
      /\ state' \in [Datasets -> States] /\ names' \in [Datasets -> Tasks \cup {NoTask}]
      /\ items' \in [Datasets -> SUBSET Indices]
  BY <1>1, Kept DEF Describe, States
<1>3. DatasetTypeOK'
  BY <1>1, <1>2 DEF DatasetInv, DatasetTypeOK, IInv
<1>4. ASSUME NEW u \in Tasks PROVE StartOK(u)' /\ CursorOK(u)'
  <2>1. StartOK(u) /\ CursorOK(u) /\ Key[u] \in Datasets
    BY DatasetsAssumption DEF DatasetInv
  <2> QED BY <1>1, <1>2, <2>1 DEF StartOK, CursorOK, Owns
<1>5. ASSUME NEW e \in Datasets PROVE DatasetOK(e)' /\ ViewOK(e)'
  <2>1. DatasetOK(e) /\ ViewOK(e)
    BY DEF DatasetInv
  <2>2. 0 \in 0..Total /\ 1..0 = {}
    BY DatasetsAssumption
  <2> QED BY <1>1, <1>2, <2>1, <2>2 DEF DatasetOK, ViewOK
<1> QED BY <1>3, <1>4, <1>5 DEF DatasetInv

-----------------------------------------------------------------------------
(* The theorems                                                            *)

LEMMA DatasetNextStep == DatasetInv /\ [DatasetNext]_allVars => DatasetInv'
<1> SUFFICES ASSUME DatasetInv, [DatasetNext]_allVars PROVE DatasetInv'
  OBVIOUS
<1>1. IInv'
  BY StepIsTaskStep, NextStep DEF DatasetInv, allVars, StepOK
<1>2. CASE UNCHANGED allVars
  BY <1>1, <1>2, Kept, TasksSame, DescribeStep
  DEF allVars, domain, vars, rows, DescribedOK
<1>3. ASSUME NEW d \in Datasets, Dataset(d) PROVE DatasetInv'
  BY <1>1, <1>3, ResumeStep, SyncStep, GenerateStep, DeleteStep DEF Dataset
<1>4. ASSUME NEW t \in Tasks, NEW k \in AttemptNos, Handler(t, k) PROVE DatasetInv'
  BY <1>1, <1>4, CountStep, PersistStep, FlushStep DEF Handler
<1> QED BY <1>1, <1>2, <1>3, <1>4, EndStep, TaskOnlyStep DEF DatasetNext

THEOREM DatasetInvariance == DatasetSpec => []DatasetInv
BY DatasetInitInv, DatasetNextStep, PTL DEF DatasetSpec

(* Tasks and datasets keep their types.                                    *)
THEOREM DatasetTypeCorrect == DatasetSpec => []DatasetTypeOK
<1>1. DatasetInv => DatasetTypeOK
  BY DEF DatasetInv
<1> QED BY <1>1, DatasetInvariance, PTL

(* start_index, counted once outside the fence, is the number of items for *)
(* as long as the handler may write: a dataset never gets two handlers.    *)
THEOREM CursorExact == DatasetSpec => []CursorIsExact
<1>1. DatasetInv => CursorIsExact
  BY DEF DatasetInv, CursorOK, Owns, IsLiveOwner, CursorIsExact
<1> QED BY <1>1, DatasetInvariance, PTL

(* The hook, a resume and a reader only ever call a full dataset completed. *)
THEOREM CompletedFull == DatasetSpec => []CompletedIsFull
<1>1. DatasetInv => CompletedIsFull
  BY DEF DatasetInv, DatasetOK, CompletedIsFull
<1> QED BY <1>1, DatasetInvariance, PTL

(* The transaction that ends a task settles its dataset.                   *)
THEOREM Settled == DatasetSpec => SettledWithTask
<1> DEFINE A == \A t \in Tasks : Active(t) /\ status'[t] \in Terminal =>
                  state'[Key[t]] \notin Unsettled
<1>1. ASSUME DatasetInv, DatasetNext PROVE A
  <2>0. /\ status \in [Tasks -> {"absent", "pending", "running"} \cup Ended]
        /\ \A u \in Tasks : Key[u] \in Datasets /\ u \notin Legacy
    BY <1>1, DatasetsAssumption DEF DatasetInv, IInv, TypeOK
  <2>1. ASSUME NEW t \in Tasks, EndTaskAndDataset(t) PROVE A
    <3>1. Ending(t) /\ EndHook(t)
      BY <1>1, <2>1, EndEffect DEF EndTaskAndDataset
    <3>2. ASSUME NEW s \in {"completed", "failed"}, Describe(Key[t], s, t)
          PROVE  state'[Key[t]] \notin Unsettled
      BY <1>1, <2>0, <3>2, Kept DEF Describe, Unsettled
    <3>3. status'[t] # status[t] => state'[Key[t]] \notin Unsettled
      BY <3>1, <3>2 DEF EndHook, FailHook, Unsettled
    <3>4. \A u \in Tasks : Active(u) /\ status'[u] \in Terminal => u = t /\ status'[t] # status[t]
      BY <3>1 DEF Ending, Active, Terminal
    <3> QED BY <3>3, <3>4
  <2>2. ASSUME NEW t \in Tasks,
               \/ UNCHANGED status
               \/ \E s \in {"pending", "running", "deleted"} : status' = [status EXCEPT ![t] = s]
        PROVE  A
    BY <2>0, <2>2 DEF Active, Terminal
  <2>3. ASSUME NEW t \in Tasks, TaskOnly(t) PROVE A
    <3>1. \/ UNCHANGED status
          \/ \E s \in {"pending", "running", "deleted"} : status' = [status EXCEPT ![t] = s]
      BY <2>0, <2>3
      DEF TaskOnly, PublishPending, LoseMsg, Claim, ClaimRefused, LeaseAges, DeleteTerminal,
          Load, Return, Raise, Heartbeat, LoseLease, NoticeCancel, Shutdown, Crash, Move, rows
    <3> QED BY <2>2, <3>1
  <2>4. ASSUME NEW t \in Tasks, NEW k \in AttemptNos, Handler(t, k) PROVE A
    BY <2>2, <2>4
    DEF Handler, CountItems, PersistBuildMetadata, FlushItems, vars, rows
  <2>5. ASSUME NEW d \in Datasets, Dataset(d) PROVE A
    <3>1. \A t \in Tasks : Enqueue(t) => status' = [status EXCEPT ![t] = "pending"]
      BY DEF Enqueue
    <3>2. UNCHANGED status => A
      BY DEF Active, Terminal
    <3> QED BY <2>2, <2>5, <3>1, <3>2
      DEF Dataset, ResumeFull, DeleteDataset, SyncReadDataset, SyncReadTask, SyncWrite,
          GenerateDataset, ResumeWithNewTask, ResumeWithActiveTask, vars, rows
  <2> QED BY <1>1, <2>1, <2>3, <2>4, <2>5 DEF DatasetNext
<1>2. DatasetInv /\ [DatasetNext]_allVars =>
        [\A t \in Tasks : Active(t) /\ status'[t] \in Terminal =>
           state'[Key[t]] \notin Unsettled]_allVars
  BY <1>1
<1> QED BY <1>2, DatasetInvariance, PTL DEF DatasetSpec, SettledWithTask
=============================================================================
