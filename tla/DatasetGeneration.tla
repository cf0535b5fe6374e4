------------------------- MODULE DatasetGeneration -------------------------
(***************************************************************************)
(* Generated evaluation datasets on top of Durable Tasks                   *)
(* (knowledge/eval/service.py, evaluation_repository.py).                  *)
(*                                                                         *)
(* A dataset is built by one task at a time, keyed by the dataset.  When   *)
(* the task ends before the dataset is full a user may resume it, which    *)
(* makes a new task that goes on from the items that are there.  The       *)
(* dataset's metadata names its task and repeats its state: the hooks of   *)
(* the task write it in the transaction that ends the task, and readers    *)
(* that show the dataset bring it up to date too.                          *)
(***************************************************************************)
EXTENDS DurableTask

CONSTANTS
  Datasets,  \* dataset ids
  Total,     \* params.count, the items a dataset is to have
  NoTask     \* the metadata names no task

ASSUME DatasetsAssumption ==
  /\ Key \in [Tasks -> Datasets]
  /\ NoKey \notin Datasets
  /\ Legacy = {}
  /\ Total \in Nat \ {0}
  /\ NoTask \notin Tasks

VARIABLES
  state,   \* build_metadata["status"]; "absent" when there is no dataset
  names,   \* build_metadata["task_id"]
  items,   \* item_index of the dataset's items
  start,   \* start_index of the handler of an attempt, once it has counted
  view     \* what _sync_dataset_build_metadata of a reader found so far

domain == <<state, names, items, start, view>>
allVars == <<vars, domain>>

NoView    == [task |-> NoTask, found |-> "nothing"]
Uncounted == Total + 1
Indices   == 1..Total
Unsettled == {"pending", "running"}
States    == Unsettled \cup {"absent", "completed", "failed"}

DatasetTypeOK ==
  /\ TypeOK
  /\ state \in [Datasets -> States]
  /\ names \in [Datasets -> Tasks \cup {NoTask}]
  /\ items \in [Datasets -> SUBSET Indices]
  /\ start \in [Tasks -> [AttemptNos -> 0..Uncounted]]
  /\ view  \in [Datasets -> [task : Tasks \cup {NoTask},
                             found : {"nothing", "unread"} \cup States]]

DatasetInit ==
  /\ Init
  /\ state = [d \in Datasets |-> "absent"]
  /\ names = [d \in Datasets |-> NoTask]
  /\ items = [d \in Datasets |-> {}]
  /\ start = [t \in Tasks |-> [k \in AttemptNos |-> Uncounted]]
  /\ view  = [d \in Datasets |-> NoView]

Describe(d, s, t) ==
  /\ state' = [state EXCEPT ![d] = s]
  /\ names' = [names EXCEPT ![d] = t]

-----------------------------------------------------------------------------
(* Creating, resuming and deleting a dataset                               *)

(* generate_dataset: the dataset and its task in one transaction.          *)
GenerateDataset(d, t) ==
  /\ Key[t] = d
  /\ \A u \in Tasks : Key[u] = d => status[u] = "absent"
  /\ Enqueue(t)
  /\ Describe(d, "pending", t)
  /\ UNCHANGED <<items, start, view>>

(* resume_dataset_generation of a dataset that turns out to be full.  Its  *)
(* two reads and its write, a transaction each, are one step here: that it *)
(* is full stays true, the task_id it writes back may be older in the code.*)
ResumeFull(d) ==
  /\ state[d] # "absent"
  /\ items[d] = Indices
  /\ Describe(d, "completed", names[d])
  /\ UNCHANGED <<vars, items, start, view>>

(* The transaction with a new task.  attach_dataset_generation_task finds  *)
(* out that the dataset was completed meanwhile, and then the task is not  *)
(* created.  It reads the dataset again, and the reads before it, which    *)
(* are transactions of their own, are part of the step.                    *)
ResumeWithNewTask(d, t) ==
  /\ Key[t] = d
  /\ state[d] \notin {"absent", "completed"}
  /\ Enqueue(t)
  /\ Describe(d, "pending", t)
  /\ UNCHANGED <<items, start, view>>

(* The same when the dataset has an active task: it is attached again.     *)
ResumeWithActiveTask(d, t) ==
  /\ Key[t] = d
  /\ keyed[t]
  /\ state[d] \notin {"absent", "completed"}
  /\ names[d] # t
  /\ Describe(d, "pending", t)
  /\ UNCHANGED <<vars, items, start, view>>

DeleteDataset(d) ==
  /\ state[d] # "absent"
  /\ Describe(d, "absent", NoTask)
  /\ items' = [items EXCEPT ![d] = {}]
  /\ UNCHANGED <<vars, start, view>>

-----------------------------------------------------------------------------
(* The handler _generate_dataset_task of attempt k of task t               *)

(* Mutant: a checkpoint is written whoever owns the task now.              *)
MayCheckpoint_Unfenced(t, k) == pc[t][k] = "executing"

(* run_owned_transaction lets the handler of a live owner write.           *)
MayCheckpoint(t, k) == pc[t][k] = "executing" /\ IsLiveOwner(t, k)

(* count_dataset_items, read outside any transaction of the task.          *)
CountItems(t, k) ==
  /\ pc[t][k] = "executing"
  /\ start[t][k] = Uncounted
  /\ start' = [start EXCEPT ![t][k] = Cardinality(items[Key[t]])]
  /\ UNCHANGED <<vars, state, names, items, view>>

(* persist_build_metadata.                                                 *)
PersistBuildMetadata(t, k) ==
  /\ MayCheckpoint(t, k)
  /\ start[t][k] # Uncounted
  /\ state[Key[t]] # "absent"
  /\ Describe(Key[t], "running", t)
  /\ UNCHANGED <<vars, items, start, view>>

(* flush_items: the items after start_index, which must not exist yet.     *)
(* start_index lives in the memory of the attempt and moves with them.     *)
FlushItems(t, k) ==
  LET n == start[t][k] + 1 IN
  /\ MayCheckpoint(t, k)
  /\ state[Key[t]] # "absent"
  /\ n \in Indices \ items[Key[t]]
  /\ items' = [items EXCEPT ![Key[t]] = @ \cup {n}]
  /\ start' = [start EXCEPT ![t][k] = n]
  /\ UNCHANGED <<vars, state, names, view>>

(* Mutant: fewer items than asked for are as good.                         *)
IsFull_Any(t, k) == start[t][k] <= Total

IsFull(t, k) == start[t][k] = Total

-----------------------------------------------------------------------------
(* The hooks, in the transaction that ends the task                        *)

(* fail_dataset_generation_task.                                           *)
FailHook(t) ==
  IF state[Key[t]] \in {"absent", "completed"} THEN UNCHANGED <<state, names>>
  ELSE Describe(Key[t], "failed", t)

(* Mutant: only the worker's own failures reach the dataset.               *)
EndHook_Success(t) ==
  IF status'[t] = "success" THEN Describe(Key[t], "completed", t)
  ELSE UNCHANGED <<state, names>>

(* The hook of the end that a transaction gives to task t, if it does.     *)
EndHook(t) ==
  IF status'[t] = status[t] THEN UNCHANGED <<state, names>>
  ELSE IF status'[t] = "success" THEN Describe(Key[t], "completed", t)
  ELSE FailHook(t)

(* finish_dataset_generation_task raises when the dataset is gone.         *)
Finish(t, k) ==
  \/ FinishSuccess(t, k) /\ (status'[t] = "success" => state[Key[t]] # "absent")
  \/ FinishTaskFailure(t, k)
  \/ ReleaseInterruptedOwner(t, k)

EndTaskAndDataset(t) ==
  /\ \/ \E k \in AttemptNos : Finish(t, k)
     \/ RequestCancel(t)
     \/ ReconcileExpiredLease(t)
  /\ EndHook(t)
  /\ UNCHANGED <<items, start, view>>

(* The steps of the task that the dataset has no part in.                  *)
TaskOnly(t) ==
  /\ \/ PublishPending(t)
     \/ LoseMsg(t)
     \/ Claim(t)
     \/ ClaimRefused(t)
     \/ LeaseAges(t)
     \/ DeleteTerminal(t)
     \/ \E k \in AttemptNos :
          \/ Load(t, k)
          \/ Return(t, k) /\ IsFull(t, k)
          \/ Raise(t, k)
          \/ Heartbeat(t, k)
          \/ LoseLease(t, k)
          \/ NoticeCancel(t, k)
          \/ Shutdown(t, k)
          \/ Crash(t, k)
  /\ UNCHANGED domain

-----------------------------------------------------------------------------
(* A reader brings the metadata up to date, in three transactions: the     *)
(* dataset, its task, and the metadata written back as a whole.            *)

SyncReadDataset(d) ==
  /\ view[d] = NoView
  /\ state[d] \in Unsettled
  /\ view' = [view EXCEPT ![d] = [task |-> names[d], found |-> "unread"]]
  /\ UNCHANGED <<vars, state, names, items, start>>

(* What the task's status means for the dataset.                           *)
StateOfTask(t) ==
  IF status[t] = "success" THEN "completed"
  ELSE IF status[t] \in Unsettled THEN status[t]
  ELSE "failed"

SyncReadTask(d) ==
  /\ view[d].found = "unread"
  /\ view' = [view EXCEPT ![d].found = StateOfTask(view[d].task)]
  /\ UNCHANGED <<vars, state, names, items, start>>

SyncWrite(d) ==
  /\ view[d].found \in States
  /\ IF state[d] = "absent" THEN UNCHANGED <<state, names>>
     ELSE Describe(d, view[d].found, view[d].task)
  /\ view' = [view EXCEPT ![d] = NoView]
  /\ UNCHANGED <<vars, items, start>>

-----------------------------------------------------------------------------
Handler(t, k) ==
  \/ CountItems(t, k)
  \/ PersistBuildMetadata(t, k)
  \/ FlushItems(t, k)

Dataset(d) ==
  \/ ResumeFull(d)
  \/ DeleteDataset(d)
  \/ SyncReadDataset(d)
  \/ SyncReadTask(d)
  \/ SyncWrite(d)
  \/ \E t \in Tasks :
       \/ GenerateDataset(d, t)
       \/ ResumeWithNewTask(d, t)
       \/ ResumeWithActiveTask(d, t)

DatasetNext ==
  \/ \E d \in Datasets : Dataset(d)
  \/ \E t \in Tasks :
       \/ EndTaskAndDataset(t)
       \/ TaskOnly(t)
       \/ \E k \in AttemptNos : Handler(t, k)

DatasetSpec == DatasetInit /\ [][DatasetNext]_allVars

-----------------------------------------------------------------------------
(* Properties                                                              *)

(* The handler that may write always knows where the dataset ends: its     *)
(* start_index, read once at the beginning and kept in memory, is the      *)
(* number of items in the table, across lost leases and resumes.           *)
CursorIsExact ==
  \A t \in Tasks, k \in AttemptNos :
    /\ pc[t][k] = "executing" /\ IsLiveOwner(t, k)
    /\ start[t][k] # Uncounted
    /\ state[Key[t]] # "absent"
    => items[Key[t]] = 1..start[t][k]

(* A dataset that calls itself completed, and may be evaluated, has all    *)
(* its items, whoever wrote that: the hook, a resume or a reader.          *)
CompletedIsFull ==
  \A d \in Datasets : state[d] = "completed" => items[d] = Indices

(* When a task ends, by its worker, a cancellation, a shutdown or the      *)
(* reconciler, its dataset is settled in the same transaction.             *)
SettledWithTask ==
  [][\A t \in Tasks : Active(t) /\ status'[t] \in Terminal =>
       state'[Key[t]] \notin Unsettled]_allVars

(* finish_dataset_generation_task and fail_dataset_generation_task settle  *)
(* the dataset "in the transaction of the Task's success" and "failure":   *)
(* a dataset whose task is over is not shown as being generated.           *)
NotGeneratingAfterTask ==
  \A d \in Datasets : names[d] # NoTask /\ status[names[d]] \in Terminal =>
    state[d] \notin Unsettled
=============================================================================
