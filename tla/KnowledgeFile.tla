--------------------------- MODULE KnowledgeFile ---------------------------
(***************************************************************************)
(* Files of a knowledge base on top of Durable Tasks: parsing              *)
(* (knowledge/base.py) and indexing (implementations/milvus.py) by the     *)
(* handlers of knowledge_task_service.py, the conditional writes of        *)
(* knowledge_file_repository.py, and the chunks in PostgreSQL.  The        *)
(* vectors in Milvus are derived from the chunks and left out.             *)
(*                                                                         *)
(* A file's status is written by the live attempt of the task that claimed *)
(* the file only.  Its chunks are deleted and stored with no such check.   *)
(***************************************************************************)
EXTENDS DurableTask

CONSTANTS
  Files,     \* file ids
  Ops,       \* what the task does to its files: an ingestion adds and parses
             \* them, and may index them; other tasks do one of the two
  FilesOf,   \* the files of the task's payload, by task
  NoFile, NoOwner

ASSUME FilesAssumption ==
  /\ Ops \in [Tasks -> {{"add", "parse"}, {"add", "parse", "index"}, {"parse"}, {"index"}}]
  /\ FilesOf \in [Tasks -> SUBSET Files]
  /\ Legacy = {}
  /\ NoFile \notin Files
  /\ NoOwner \notin Tasks \X AttemptNos

VARIABLES
  fstate,      \* KnowledgeFile.status; "absent" without a row
  fowner,      \* processing_task_id and processing_owner
  chunks,      \* the tasks whose chunks of the file are in knowledge_chunks
  deleting,    \* delete_file has deleted the chunks and not yet the row
  work,        \* what the handler of an attempt is doing, and to which file
  todo,        \* what is left of the task's payload
  faulty,      \* tasks one of whose items failed
  unrecorded,  \* history: processing ended and that could not be written
  spoiled      \* history: chunks were written by one who has no claim to it

domain  == <<fstate, fowner, chunks, deleting, work, todo, faulty, unrecorded, spoiled>>
allVars == <<vars, domain>>

Processing == {"parsing", "indexing"}
FileStates == Processing \cup {"uploaded", "parsed", "indexed",
                "error_parsing", "error_indexing", "absent"}
Attempts   == Tasks \X AttemptNos
Ingests    == {t \in Tasks : "add" \in Ops[t]}
NoWork     == [file |-> NoFile, op |-> "none", phase |-> "none"]

Doing(op)  == IF op = "parse" THEN "parsing" ELSE "indexing"
Done(op)   == IF op = "parse" THEN "parsed" ELSE "indexed"

Failed(op) == IF op = "parse" THEN "error_parsing" ELSE "error_indexing"

(* allowed_statuses of parse_file and index_file.                          *)
Allowed(op) ==
  IF op = "parse" THEN {"uploaded", "error_parsing"}
  ELSE {"parsed", "error_indexing", "indexed"}

FileTypeOK ==
  /\ TypeOK
  /\ fstate \in [Files -> FileStates]
  /\ fowner \in [Files -> Attempts \cup {NoOwner}]
  /\ chunks \in [Files -> SUBSET Tasks]
  /\ work \in [Tasks -> [AttemptNos ->
       [file : Files \cup {NoFile}, op : {"none", "parse", "index"},
        phase : {"none", "claimed", "dropped", "ready", "raised"}]]]
  /\ todo \in [Tasks -> SUBSET ({"add", "parse", "index"} \X Files)]
  /\ faulty \subseteq Tasks
  /\ deleting \subseteq Files
  /\ unrecorded \subseteq Files
  /\ spoiled \subseteq Files

FileInit ==
  /\ Init
  /\ \E old \in [Files -> {"uploaded", "parsed"}] :
       fstate = [f \in Files |-> IF \E t \in Ingests : f \in FilesOf[t] THEN "absent" ELSE old[f]]
  /\ fowner = [f \in Files |-> NoOwner]
  /\ chunks = [f \in Files |-> {}]
  /\ work = [t \in Tasks |-> [k \in AttemptNos |-> NoWork]]
  /\ todo = [t \in Tasks |-> Ops[t] \X FilesOf[t]]
  /\ faulty = {}
  /\ deleting = {}
  /\ unrecorded = {}
  /\ spoiled = {}

-----------------------------------------------------------------------------
(* The row of a file                                                       *)

(* Mutant: the owner is not looked at, only the file's status.             *)
MayRecord_AnyOwner(t, k) == fstate[work[t][k].file] = Doing(work[t][k].op)

(* The filters of update_fields_if_status for a claimed file: the task is  *)
(* still the attempt's, and the file still the task's.                     *)
MayRecord(t, k) ==
  LET f == work[t][k].file IN
  /\ IsLiveOwner(t, k)
  /\ fstate[f] = Doing(work[t][k].op)
  /\ fowner[f] = <<t, k>>

Record(f, s, o) ==
  /\ fstate' = [fstate EXCEPT ![f] = s]
  /\ fowner' = [fowner EXCEPT ![f] = o]

RecordNothing == UNCHANGED <<fstate, fowner>>

SetWork(t, k, w) == work' = [work EXCEPT ![t][k] = w]
Phase(t, k, p)   == work' = [work EXCEPT ![t][k].phase = p]

(* An item is dealt with; of an ingestion, nothing more is done to a file  *)
(* that failed.                                                            *)
Strike(t, op, f, ok) ==
  /\ todo' = [todo EXCEPT ![t] =
                @ \ ((IF ~ok /\ t \in Ingests THEN Ops[t] ELSE {op}) \X {f})]
  /\ faulty' = IF ok THEN faulty ELSE faulty \cup {t}

-----------------------------------------------------------------------------
(* The handler of attempt k of task t, one file at a time                  *)

Before(op) == CASE op = "add" -> {} [] op = "parse" -> {"add"} [] op = "index" -> {"add", "parse"}

(* The next item; an ingestion is through with one step for all files      *)
(* before it takes the next.                                               *)
AtItem(t, k, op, f) ==
  /\ pc[t][k] = "executing"
  /\ work[t][k] = NoWork
  /\ <<op, f>> \in todo[t]
  /\ \A o \in Before(op), g \in Files : <<o, g>> \notin todo[t]

(* add_file_record.                                                        *)
AddFile(t, k, f) ==
  /\ AtItem(t, k, "add", f)
  /\ \/ Record(f, "uploaded", NoOwner) /\ Strike(t, "add", f, TRUE)
     \/ RecordNothing /\ Strike(t, "add", f, FALSE)
  /\ UNCHANGED <<vars, chunks, deleting, work, unrecorded, spoiled>>

(* The claim.  A file that cannot be claimed is one failed item of many.   *)
ClaimFile(t, k, op, f) ==
  /\ AtItem(t, k, op, f)
  /\ IF IsLiveOwner(t, k) /\ fstate[f] \in Allowed(op)
     THEN /\ Record(f, Doing(op), <<t, k>>)
          /\ SetWork(t, k, [file |-> f, op |-> op, phase |-> "claimed"])
          /\ UNCHANGED <<todo, faulty>>
     ELSE /\ Strike(t, op, f, FALSE)
          /\ RecordNothing
          /\ UNCHANGED work
  /\ UNCHANGED <<vars, chunks, deleting, unrecorded, spoiled>>

Working(t, k, op, phase) ==
  /\ pc[t][k] = "executing"
  /\ work[t][k].op = op
  /\ work[t][k].phase = phase

(* parse_document and the Markdown in MinIO.                               *)
ParseDocument(t, k) ==
  /\ Working(t, k, "parse", "claimed")
  /\ Phase(t, k, "ready")
  /\ UNCHANGED <<vars, fstate, fowner, chunks, deleting, todo, faulty, unrecorded, spoiled>>

Claims(t, k, f) == IsLiveOwner(t, k) /\ fowner[f] = <<t, k>>

(* Mutant: the chunks of an earlier indexing stay.                         *)
ChunksDropped_Kept(f) == chunks[f]

ChunksDropped(f) == {}

(* delete_file_chunks_only before the new chunks are stored.               *)
DropChunks(t, k) ==
  LET f == work[t][k].file IN
  /\ Working(t, k, "index", "claimed")
  /\ chunks' = [chunks EXCEPT ![f] = ChunksDropped(f)]
  /\ spoiled' = IF Claims(t, k, f) THEN spoiled \ {f} ELSE spoiled \cup {f}
  /\ Phase(t, k, "dropped")
  /\ UNCHANGED <<vars, fstate, fowner, deleting, todo, faulty, unrecorded>>

(* _embed_and_store_chunks, all batches in one step, of a document that    *)
(* has chunks; their foreign key needs the file's row.                     *)
StoreChunks(t, k) ==
  LET f == work[t][k].file IN
  /\ Working(t, k, "index", "dropped")
  /\ fstate[f] # "absent"
  /\ chunks' = [chunks EXCEPT ![f] = @ \cup {t}]
  /\ spoiled' = IF Claims(t, k, f) THEN spoiled ELSE spoiled \cup {f}
  /\ Phase(t, k, "ready")
  /\ UNCHANGED <<vars, fstate, fowner, deleting, todo, faulty, unrecorded>>

(* Anything raises on the way, the write of the result included.           *)
ProcessingRaises(t, k) ==
  /\ pc[t][k] = "executing"
  /\ work[t][k].phase \in {"claimed", "dropped", "ready"}
  /\ Phase(t, k, "raised")
  /\ UNCHANGED <<vars, fstate, fowner, chunks, deleting, todo, faulty, unrecorded, spoiled>>

(* A refused write means that the owner was lost: CancelledError leaves    *)
(* the handler, and process_task takes it for a shutdown.                  *)
OwnerLost(t, k) ==
  /\ Goto(t, k, "releasing")
  /\ RecordNothing
  /\ UNCHANGED <<todo, faulty>>

RecordOutcome(t, k, s, ok) ==
  LET w == work[t][k] IN
  /\ IF MayRecord(t, k)
     THEN /\ Record(w.file, s, NoOwner)
          /\ Strike(t, w.op, w.file, ok)
          /\ UNCHANGED pc
     ELSE OwnerLost(t, k)
  /\ SetWork(t, k, NoWork)
  /\ UNCHANGED <<rows, msg, chunks, deleting, unrecorded, spoiled>>

RecordDone(t, k) ==
  /\ pc[t][k] = "executing"
  /\ work[t][k].phase = "ready"
  /\ RecordOutcome(t, k, Done(work[t][k].op), TRUE)

RecordError(t, k) ==
  /\ pc[t][k] = "executing"
  /\ work[t][k].phase = "raised"
  /\ RecordOutcome(t, k, Failed(work[t][k].op), FALSE)

(* The database does not take the error either: one more failed item for   *)
(* the handler, which goes on, and the file stays as it is.                *)
RecordFails(t, k) ==
  LET w == work[t][k] IN
  /\ pc[t][k] = "executing"
  /\ w.phase = "raised"
  /\ unrecorded' = IF fowner[w.file] = <<t, k>> THEN unrecorded \cup {w.file} ELSE unrecorded
  /\ Strike(t, w.op, w.file, FALSE)
  /\ SetWork(t, k, NoWork)
  /\ UNCHANGED <<vars, fstate, fowner, chunks, deleting, spoiled>>

(* index_file of a file that has no Markdown gives it back to the parsers. *)
RecordUnparsed(t, k) ==
  /\ Working(t, k, "index", "claimed")
  /\ RecordOutcome(t, k, "uploaded", FALSE)

(* The handler is cancelled in the middle of a file: process_task waits    *)
(* while it records that, if it can.                                       *)
Unwind(t, k) ==
  LET w == work[t][k] IN
  /\ pc[t][k] \in {"failing", "cancelling", "releasing", "done"}
  /\ w # NoWork
  /\ \/ MayRecord(t, k) /\ Record(w.file, Failed(w.op), NoOwner)
     \/ RecordNothing
  /\ SetWork(t, k, NoWork)
  /\ UNCHANGED <<vars, chunks, deleting, todo, faulty, unrecorded, spoiled>>

Handler(t, k) ==
  \/ \E f \in FilesOf[t] :
       \/ AddFile(t, k, f)
       \/ \E op \in {"parse", "index"} : ClaimFile(t, k, op, f)
  \/ ParseDocument(t, k)
  \/ DropChunks(t, k)
  \/ StoreChunks(t, k)
  \/ ProcessingRaises(t, k)
  \/ RecordDone(t, k)
  \/ RecordError(t, k)
  \/ RecordUnparsed(t, k)
  \/ RecordFails(t, k)
  \/ Unwind(t, k)

-----------------------------------------------------------------------------
(* The tasks                                                               *)

(* Mutant: a handler that was cancelled leaves its files to themselves.    *)
FilesOfEnd_FailedOnly(t) ==
  IF status'[t] = "failed" THEN {f \in Files : fowner[f] \in {t} \X AttemptNos} ELSE {}

(* The files that fail_knowledge_file_task finds when its task ends in     *)
(* any other way than success.                                             *)
FilesOfEnd(t) ==
  IF status'[t] \in {"failed", "cancelled"}
  THEN {f \in Files : fowner[f] \in {t} \X AttemptNos /\ fstate[f] \in Processing}
  ELSE {}

FailFiles(fs) ==
  /\ fstate' = [f \in Files |->
                  IF f \notin fs THEN fstate[f]
                  ELSE IF fstate[f] = "parsing" THEN "error_parsing" ELSE "error_indexing"]
  /\ fowner' = [f \in Files |-> IF f \in fs THEN NoOwner ELSE fowner[f]]
  /\ unrecorded' = unrecorded \ fs

Hook(t) ==
  /\ IF status'[t] = status[t] THEN RecordNothing /\ UNCHANGED unrecorded
     ELSE FailFiles(FilesOfEnd(t))
  /\ UNCHANGED <<chunks, deleting, work, todo, faulty, spoiled>>

FinishTask(t, k) ==
  /\ work[t][k] = NoWork
  /\ \/ FinishSuccess(t, k)
     \/ FinishTaskFailure(t, k)
     \/ ReleaseInterruptedOwner(t, k)
  /\ Hook(t)

CancelTask(t) == RequestCancel(t) /\ Hook(t)

ReconcileTask(t) == ReconcileExpiredLease(t) /\ Hook(t)

(* An ingestion raises in the end when an item failed.                     *)
HandlerIsThrough(t, k) ==
  /\ todo[t] = {}
  /\ work[t][k] = NoWork
  /\ ~(t \in Ingests /\ t \in faulty)

(* The steps of the task that its files have no part in.                   *)
TaskOnly(t) ==
  /\ \/ Queue(t)
     \/ LeaseAges(t)
     \/ DeleteTerminal(t)
     \/ \E k \in AttemptNos :
          \/ Return(t, k) /\ HandlerIsThrough(t, k)
          \/ Raise(t, k)
          \/ Heartbeat(t, k)
          \/ LoseLease(t, k)
          \/ NoticeCancel(t, k)
          \/ Shutdown(t, k)
          \/ Crash(t, k)
  /\ UNCHANGED domain

LoadHandler(t, k) == Load(t, k) /\ UNCHANGED domain

-----------------------------------------------------------------------------
(* delete_file, which asks nobody: the chunks, then the row and with it    *)
(* whatever chunks were stored in between.                                 *)

DeleteChunks(f) ==
  /\ fstate[f] # "absent"
  /\ f \notin deleting
  /\ deleting' = deleting \cup {f}
  /\ chunks' = [chunks EXCEPT ![f] = {}]
  /\ UNCHANGED <<vars, fstate, fowner, work, todo, faulty, unrecorded, spoiled>>

DeleteRow(f) ==
  /\ f \in deleting
  /\ Record(f, "absent", NoOwner)
  /\ chunks' = [chunks EXCEPT ![f] = {}]
  /\ deleting' = deleting \ {f}
  /\ unrecorded' = unrecorded \ {f}
  /\ UNCHANGED <<vars, work, todo, faulty, spoiled>>

FileNext ==
  \/ \E t \in Tasks :
       \/ CancelTask(t)
       \/ ReconcileTask(t)
       \/ TaskOnly(t)
       \/ \E k \in AttemptNos : LoadHandler(t, k) \/ Handler(t, k) \/ FinishTask(t, k)
  \/ \E f \in Files : DeleteChunks(f) \/ DeleteRow(f)

FileSpec == FileInit /\ [][FileNext]_allVars

-----------------------------------------------------------------------------
(* Properties                                                              *)

(* A file that is shown as being processed belongs to a task that runs,    *)
(* and to its attempt; an attempt that goes on is at that file right now.  *)
(* The exception is a file whose failure the database did not take.        *)
ProcessingIsOwned ==
  \A f \in Files : fstate[f] \in Processing =>
    \E t \in Tasks, k \in AttemptNos :
      /\ fowner[f] = <<t, k>>
      /\ f \notin unrecorded =>
           /\ status[t] = "running" /\ owner[t] = k
           /\ pc[t][k] = "executing" => work[t][k].file = f

(* A file in processing becomes parsed or indexed only when the attempt    *)
(* recorded as its owner is at that file and has done the work: the write  *)
(* of one that lost it is refused.                                         *)
ResultOfItsClaim ==
  [][\A f \in Files :
       fstate[f] \in Processing /\ fstate'[f] \in {"parsed", "indexed"} =>
         \E t \in Tasks, k \in AttemptNos :
           /\ fowner[f] = <<t, k>>
           /\ work[t][k].file = f
           /\ work[t][k].phase = "ready"]_allVars

(* The chunks of an indexed file come from one indexing, all of them.  Two *)
(* kinds of files are exceptions: those whose chunks an attempt wrote that *)
(* had lost the file, and those that are being deleted.                    *)
IndexedHasItsChunks ==
  \A f \in Files : fstate[f] = "indexed" /\ f \notin spoiled \cup deleting =>
    Cardinality(chunks[f]) = 1
=============================================================================
