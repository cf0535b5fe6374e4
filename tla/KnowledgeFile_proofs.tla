------------------------ MODULE KnowledgeFile_proofs ------------------------
(* Theorems about KnowledgeFile for any files, tasks and payloads.         *)
EXTENDS KnowledgeFile, DurableTask_proofs

-----------------------------------------------------------------------------
(* The tasks of files are Durable Tasks                                    *)

LEMMA FileStepIsTaskStep == FileNext => [Next]_vars
<1> SUFFICES ASSUME FileNext PROVE [Next]_vars
  OBVIOUS
<1>1. ASSUME NEW t \in Tasks, NEW k \in AttemptNos, Handler(t, k) PROVE [Next]_vars
  <2>1. CASE RecordDone(t, k) \/ RecordError(t, k) \/ RecordUnparsed(t, k)
    <3>1. pc[t][k] = "executing" /\ UNCHANGED <<rows, msg>>
      BY <2>1 DEF RecordDone, RecordError, RecordUnparsed, Working, RecordOutcome
    <3>2. UNCHANGED pc \/ Goto(t, k, "releasing")
      BY <2>1 DEF RecordDone, RecordError, RecordUnparsed, RecordOutcome, OwnerLost
    <3>3. CASE Goto(t, k, "releasing")
      BY <3>1, <3>3 DEF Next, Attempt, Shutdown, Move
    <3> QED BY <3>1, <3>2, <3>3 DEF vars
  <2>2. CASE \/ \E f \in FilesOf[t] :
                  AddFile(t, k, f) \/ \E op \in {"parse", "index"} : ClaimFile(t, k, op, f)
             \/ ParseDocument(t, k) \/ DropChunks(t, k) \/ StoreChunks(t, k)
             \/ ProcessingRaises(t, k) \/ RecordFails(t, k) \/ Unwind(t, k)
    BY <2>2
    DEF AddFile, ClaimFile, ParseDocument, DropChunks, StoreChunks, ProcessingRaises,
        RecordFails, Unwind
  <2> QED BY <1>1, <2>1, <2>2 DEF Handler
<1>2. ASSUME NEW t \in Tasks,
             \/ CancelTask(t) \/ ReconcileTask(t) \/ TaskOnly(t)
             \/ \E k \in AttemptNos : LoadHandler(t, k) \/ FinishTask(t, k)
      PROVE  Next
  BY <1>2
  DEF CancelTask, ReconcileTask, TaskOnly, LoadHandler, FinishTask, Next, Attempt, Proceed,
      Environment
<1>3. ASSUME NEW f \in Files, DeleteChunks(f) \/ DeleteRow(f) PROVE UNCHANGED vars
  BY <1>3 DEF DeleteChunks, DeleteRow
<1> QED BY <1>1, <1>2, <1>3 DEF FileNext

-----------------------------------------------------------------------------
(* The inductive invariant                                                 *)

(* An attempt is at a file only while its handler runs or unwinds.         *)
WorkOK(t) ==
  /\ status[t] \in {"absent", "pending"} => \A k \in AttemptNos : pc[t][k] = "none"
  /\ \A k \in AttemptNos :
       /\ pc[t][k] \in {"none", "loading", "returned"} => work[t][k] = NoWork
       /\ \/ work[t][k] = NoWork
          \/ /\ work[t][k].file \in Files
             /\ work[t][k].op \in {"parse", "index"}
             /\ work[t][k].phase # "none"

(* The attempt runs, and if it goes on it is at the file.                  *)
Holds(t, k, f) ==
  /\ status[t] = "running"
  /\ owner[t] = k
  /\ pc[t][k] \in {"none", "loading", "executing", "returned"} => work[t][k].file = f

OwnedOK(f) ==
  /\ fstate[f] \in Processing <=> fowner[f] \in Attempts
  /\ f \notin unrecorded =>
       \A t \in Tasks, k \in AttemptNos : fowner[f] = <<t, k>> => Holds(t, k, f)

(* While nobody writes who may not, the chunks are those of the attempt    *)
(* that has the file, as far as it has come, or of the last indexing.      *)
ChunksOK(f) ==
  f \notin spoiled \cup deleting =>
    /\ fstate[f] = "indexed" => \E t \in Tasks : chunks[f] = {t}
    /\ \A t \in Tasks, k \in AttemptNos :
         fowner[f] = <<t, k>> /\ work[t][k].file = f /\ work[t][k].op = "index" =>
           /\ work[t][k].phase = "dropped" => chunks[f] = {}
           /\ work[t][k].phase = "ready" => chunks[f] = {t}

FileInv ==
  /\ IInv
  /\ FileTypeOK
  /\ \A t \in Tasks : WorkOK(t)
  /\ \A f \in Files : OwnedOK(f) /\ ChunksOK(f)

LEMMA FileInitInv == FileInit => FileInv
<1> SUFFICES ASSUME FileInit PROVE FileInv
  OBVIOUS
<1>1. IInv /\ TypeOK
  BY InitInv DEF FileInit, IInv
<1>2. \A f \in Files : fstate[f] \in {"absent", "uploaded", "parsed"} /\ fowner[f] = NoOwner
  BY DEF FileInit
<1>3. FileTypeOK
  <2>1. fstate \in [Files -> FileStates]
    BY DEF FileInit, FileStates
  <2>2. todo \in [Tasks -> SUBSET ({"add", "parse", "index"} \X Files)]
    BY FilesAssumption DEF FileInit
  <2> QED BY <1>1, <2>1, <2>2 DEF FileInit, FileTypeOK, NoWork
<1>4. \A t \in Tasks : WorkOK(t)
  BY DEF FileInit, Init, WorkOK
<1>5. \A f \in Files : OwnedOK(f) /\ ChunksOK(f)
  <2>1. NoOwner \notin Attempts /\ \A t \in Tasks, k \in AttemptNos : <<t, k>> # NoOwner
    BY FilesAssumption DEF Attempts
  <2>2. \A f \in Files : fstate[f] \notin Processing /\ fstate[f] # "indexed"
    BY <1>2 DEF Processing
  <2> QED BY <1>2, <2>1, <2>2 DEF OwnedOK, ChunksOK
<1> QED BY <1>1, <1>3, <1>4, <1>5 DEF FileInv

-----------------------------------------------------------------------------
(* The steps of the tasks                                                  *)

(* Files do not notice a step that keeps every hold.                       *)
LEMMA HoldsStep ==
  ASSUME FileInv, IInv', UNCHANGED domain, \A t \in Tasks : WorkOK(t)',
         \A t \in Tasks, k \in AttemptNos, f \in Files : Holds(t, k, f) => Holds(t, k, f)'
  PROVE  FileInv'
<1>1. FileTypeOK'
  BY DEF FileInv, FileTypeOK, IInv, domain
<1>2. ASSUME NEW f \in Files PROVE OwnedOK(f)' /\ ChunksOK(f)'
  <2>1. OwnedOK(f) /\ ChunksOK(f)
    BY DEF FileInv
  <2> QED BY <2>1 DEF OwnedOK, ChunksOK, domain
<1> QED BY <1>1, <1>2 DEF FileInv

LEMMA HoldsSame ==
  ASSUME FileInv, work' = work, NEW t \in Tasks,
         status'[t] = status[t], owner'[t] = owner[t], pc'[t] = pc[t]
  PROVE  /\ WorkOK(t)'
         /\ \A k \in AttemptNos, f \in Files : Holds(t, k, f) => Holds(t, k, f)'
BY DEF FileInv, WorkOK, Holds

LEMMA SameStep ==
  ASSUME FileInv, IInv', UNCHANGED domain, UNCHANGED <<status, owner, pc>>
  PROVE  FileInv'
BY HoldsSame, HoldsStep DEF domain

(* A step of one invocation.                                               *)
LEMMA MovedFileStep ==
  ASSUME FileInv, IInv', UNCHANGED domain, NEW t \in Tasks, NEW k \in AttemptNos, NEW q,
         Goto(t, k, q), UNCHANGED <<status, owner>>, pc[t][k] \in Busy,
         q \notin {"none", "loading"},
         q = "executing" => pc[t][k] = "loading",
         q = "returned" => pc[t][k] = "executing" /\ work[t][k] = NoWork
  PROVE  FileInv'
<1>1. /\ pc' = [pc EXCEPT ![t][k] = q]
      /\ pc \in [Tasks -> [AttemptNos -> {"none", "done", "dead"} \cup Busy]]
  BY DEF Goto, FileInv, IInv, TypeOK
<1>2. \A u \in Tasks \ {t} : pc'[u] = pc[u]
  BY <1>1
<1>3. pc'[t][k] = q /\ \A l \in AttemptNos \ {k} : pc'[t][l] = pc[t][l]
  BY <1>1
<1>4. WorkOK(t) /\ pc[t][k] # "none" /\ work' = work
  BY DEF FileInv, Busy, Settling, domain
<1>5. WorkOK(t)'
  BY <1>3, <1>4 DEF WorkOK
<1>6. NoFile \notin Files /\ NoWork.file = NoFile
  BY FilesAssumption DEF NoWork
<1>7. ASSUME NEW f \in Files, NEW l \in AttemptNos, Holds(t, l, f) PROVE Holds(t, l, f)'
  BY <1>3, <1>4, <1>6, <1>7 DEF Holds, WorkOK
<1>8. ASSUME NEW u \in Tasks \ {t}
      PROVE  /\ WorkOK(u)'
             /\ \A l \in AttemptNos, f \in Files : Holds(u, l, f) => Holds(u, l, f)'
  BY <1>2, <1>4, <1>8, HoldsSame
<1> QED BY <1>5, <1>7, <1>8, HoldsStep

LEMMA TaskOnlyFileStep ==
  ASSUME FileInv, IInv', NEW t \in Tasks,
         TaskOnly(t) \/ \E k \in AttemptNos : LoadHandler(t, k)
  PROVE  FileInv'
<1>1. UNCHANGED domain
  BY DEF TaskOnly, LoadHandler
<1>2. /\ t \notin Legacy /\ work' = work
      /\ status \in [Tasks -> {"absent", "pending", "running"} \cup Ended]
      /\ owner \in [Tasks -> {0} \cup AttemptNos]
      /\ pc \in [Tasks -> [AttemptNos -> {"none", "done", "dead"} \cup Busy]]
  BY <1>1, FilesAssumption DEF domain, FileInv, IInv, TypeOK
<1>3. CASE PublishPending(t) \/ LoseMsg(t) \/ ClaimRefused(t) \/ LeaseAges(t)
  <2>1. UNCHANGED <<status, owner, pc>>
    BY <1>2, <1>3 DEF PublishPending, LoseMsg, ClaimRefused, LeaseAges, rows
  <2> QED BY <1>1, <2>1, SameStep
<1>4. CASE Claim(t)
  <2> DEFINE k == attempts[t] + 1
  <2>1. /\ k \in AttemptNos /\ status[t] = "pending"
        /\ status' = [status EXCEPT ![t] = "running"]
        /\ owner' = [owner EXCEPT ![t] = k]
        /\ pc' = [pc EXCEPT ![t][k] = "loading"]
    BY <1>4 DEF Claim, Goto
  <2> HIDE DEF k
  <2>2. status'[t] = "running" /\ pc'[t][k] = "loading"
    BY <1>2, <2>1
  <2>3. \A l \in AttemptNos \ {k} : pc'[t][l] = pc[t][l]
    BY <1>2, <2>1
  <2>4. \A l \in AttemptNos : pc[t][l] = "none" /\ work[t][l] = NoWork
    BY <2>1 DEF FileInv, WorkOK
  <2>5. /\ WorkOK(t)'
        /\ \A l \in AttemptNos, f \in Files : Holds(t, l, f) => Holds(t, l, f)'
    BY <1>2, <2>1, <2>2, <2>3, <2>4 DEF WorkOK, Holds
  <2>6. ASSUME NEW u \in Tasks \ {t}
        PROVE  /\ WorkOK(u)'
               /\ \A l \in AttemptNos, f \in Files : Holds(u, l, f) => Holds(u, l, f)'
    <3>1. status'[u] = status[u] /\ owner'[u] = owner[u] /\ pc'[u] = pc[u]
      BY <1>2, <2>1
    <3> QED BY <1>2, <3>1, HoldsSame
  <2> QED BY <1>1, <2>5, <2>6, HoldsStep
<1>5. CASE Enqueue(t) \/ DeleteTerminal(t)
  <2>1. /\ \/ status[t] = "absent" /\ status' = [status EXCEPT ![t] = "pending"]
           \/ status[t] \in Terminal /\ status' = [status EXCEPT ![t] = "deleted"]
        /\ UNCHANGED <<owner, pc>>
    BY <1>5 DEF Enqueue, DeleteTerminal
  <2>2. /\ WorkOK(t)'
        /\ \A l \in AttemptNos, f \in Files : Holds(t, l, f) => Holds(t, l, f)'
    BY <1>2, <2>1 DEF FileInv, WorkOK, Holds, Terminal
  <2>3. ASSUME NEW u \in Tasks \ {t}
        PROVE  /\ WorkOK(u)'
               /\ \A l \in AttemptNos, f \in Files : Holds(u, l, f) => Holds(u, l, f)'
    <3>1. status'[u] = status[u] /\ owner'[u] = owner[u] /\ pc'[u] = pc[u]
      BY <1>2, <2>1
    <3> QED BY <1>2, <3>1, HoldsSame
  <2> QED BY <1>1, <2>2, <2>3, HoldsStep
<1>6. ASSUME NEW k \in AttemptNos,
             \/ Load(t, k) \/ (Return(t, k) /\ HandlerIsThrough(t, k)) \/ Raise(t, k)
             \/ Heartbeat(t, k) \/ LoseLease(t, k) \/ NoticeCancel(t, k) \/ Shutdown(t, k)
             \/ Crash(t, k)
      PROVE  FileInv'
  <2>1. CASE Heartbeat(t, k) /\ UNCHANGED pc
    BY <1>1, <2>1, SameStep DEF Heartbeat
  <2>2. CASE Heartbeat(t, k) /\ Goto(t, k, "cancelling")
    BY <1>1, <2>2, MovedFileStep DEF Heartbeat, Busy
  <2>3. CASE Return(t, k) /\ HandlerIsThrough(t, k)
    BY <1>1, <2>3, MovedFileStep DEF Return, HandlerIsThrough, Move, rows, Busy
  <2>4. CASE Load(t, k)
    BY <1>1, <2>4, MovedFileStep DEF Load, Move, rows, Busy
  <2>5. CASE Crash(t, k)
    BY <1>1, <2>5, MovedFileStep DEF Crash, rows
  <2>6. ASSUME NEW from \in Busy, NEW to \in (Settling \ {"returned"}) \cup {"done"},
               Move(t, k, from, to)
        PROVE  FileInv'
    <3>1. to \notin {"none", "loading", "executing", "returned"}
      BY DEF Settling
    <3> QED BY <1>1, <2>6, <3>1, MovedFileStep DEF Move, rows
  <2>7. CASE Raise(t, k) \/ LoseLease(t, k) \/ NoticeCancel(t, k) \/ Shutdown(t, k)
    <3>1. PICK from \in Busy, to \in (Settling \ {"returned"}) \cup {"done"} :
                 Move(t, k, from, to)
      BY <2>7 DEF Raise, LoseLease, NoticeCancel, Shutdown, Busy, Settling
    <3> QED BY <2>6, <3>1
  <2> QED BY <1>6, <2>1, <2>2, <2>3, <2>4, <2>5, <2>7 DEF Heartbeat
<1> QED BY <1>3, <1>4, <1>5, <1>6 DEF TaskOnly, LoadHandler, Queue

(* The end of a task and its hook: every file it still has is failed, and  *)
(* a task that succeeds has none.                                          *)
LEMMA HookStep ==
  ASSUME FileInv, IInv', NEW t \in Tasks, Ending(t), Hook(t),
         status'[t] = "success" /\ status[t] # "success" =>
           \E k \in AttemptNos : pc[t][k] = "returned" /\ IsLiveOwner(t, k)
  PROVE  FileInv'
<1>1. UNCHANGED <<chunks, deleting, work, todo, faulty, spoiled>>
  BY DEF Hook
<1>2. NoFile \notin Files /\ NoWork.file = NoFile /\ NoOwner \notin Attempts
  BY FilesAssumption DEF NoWork, Attempts
<1>3. \A u \in Tasks : WorkOK(u)'
  <2>1. WorkOK(t)'
    BY <1>1 DEF Ending, WorkOK, FileInv, Terminal
  <2>2. ASSUME NEW u \in Tasks \ {t} PROVE WorkOK(u)'
    BY <1>1, HoldsSame DEF Ending
  <2> QED BY <2>1, <2>2
<1>4. ASSUME NEW u \in Tasks, NEW k \in AttemptNos, NEW f \in Files, Holds(u, k, f),
             u # t \/ status'[t] = status[t]
      PROVE  Holds(u, k, f)'
  <2>1. /\ status'[u] = status[u] /\ owner'[u] = owner[u]
        /\ pc'[u][k] = pc[u][k] \/ pc'[u][k] = "done"
    BY <1>4 DEF Ending, Terminal
  <2> QED BY <1>1, <1>4, <2>1 DEF Holds
<1>5. CASE status'[t] = status[t]
  <2>1. UNCHANGED domain
    BY <1>5 DEF Hook, RecordNothing, domain
  <2> QED BY <1>3, <1>4, <1>5, <2>1, HoldsStep
<1>6. CASE status'[t] # status[t]
  <2>1. status'[t] \in Terminal /\ FailFiles(FilesOfEnd(t))
    BY <1>6 DEF Ending, Hook
  <2>2. /\ \A f \in Files :
             IF f \in FilesOfEnd(t)
             THEN fstate'[f] \in {"error_parsing", "error_indexing"} /\ fowner'[f] = NoOwner
             ELSE /\ fstate'[f] = fstate[f] /\ fowner'[f] = fowner[f]
                  /\ f \in unrecorded' <=> f \in unrecorded
        /\ fstate' \in [Files -> FileStates]
        /\ fowner' \in [Files -> Attempts \cup {NoOwner}]
        /\ unrecorded' \subseteq Files
    BY <2>1 DEF FailFiles, FileInv, FileTypeOK, FileStates
  <2>3. FileTypeOK'
    BY <1>1, <2>2 DEF FileInv, FileTypeOK, IInv
  <2>4. ASSUME NEW f \in Files PROVE OwnedOK(f)' /\ ChunksOK(f)'
    <3>1. OwnedOK(f) /\ ChunksOK(f)
      BY DEF FileInv
    <3>2. CASE f \in FilesOfEnd(t)
      <4>1. fstate'[f] \notin Processing /\ fstate'[f] # "indexed" /\ fowner'[f] = NoOwner
        BY <2>2, <3>2 DEF Processing
      <4>2. \A u \in Tasks, k \in AttemptNos : fowner'[f] # <<u, k>>
        BY <1>2, <4>1 DEF Attempts
      <4> QED BY <1>2, <4>1, <4>2 DEF OwnedOK, ChunksOK
    <3>3. CASE f \notin FilesOfEnd(t)
      <4>1. /\ fstate'[f] = fstate[f] /\ fowner'[f] = fowner[f]
            /\ f \in unrecorded' <=> f \in unrecorded
        BY <2>2, <3>3
      <4>2. ChunksOK(f)'
        BY <1>1, <3>1, <4>1 DEF ChunksOK
      <4>3. ASSUME NEW u \in Tasks, NEW k \in AttemptNos, fowner[f] = <<u, k>>, f \notin unrecorded
            PROVE  Holds(u, k, f)'
        <5>1. Holds(u, k, f) /\ fstate[f] \in Processing
          BY <3>1, <4>3 DEF OwnedOK, Attempts
        <5>2. u # t
          <6> SUFFICES ASSUME u = t PROVE FALSE
            OBVIOUS
          <6>1. status'[t] = "success"
            BY <2>1, <3>3, <4>3, <5>1 DEF FilesOfEnd, Terminal
          <6>2. PICK l \in AttemptNos : pc[t][l] = "returned" /\ IsLiveOwner(t, l)
            BY <1>6, <6>1
          <6>3. l = k /\ work[t][k].file = f
            BY <5>1, <6>2 DEF Holds, IsLiveOwner
          <6>4. work[t][k] = NoWork
            BY <6>2, <6>3 DEF FileInv, WorkOK
          <6> QED BY <1>2, <6>3, <6>4
        <5> QED BY <1>4, <5>1, <5>2
      <4> QED BY <3>1, <4>1, <4>2, <4>3 DEF OwnedOK
    <3> QED BY <3>2, <3>3
  <2> QED BY <1>3, <2>3, <2>4 DEF FileInv
<1> QED BY <1>5, <1>6

LEMMA EndFileStep ==
  ASSUME FileInv, IInv', NEW t \in Tasks,
         CancelTask(t) \/ ReconcileTask(t) \/ \E k \in AttemptNos : FinishTask(t, k)
  PROVE  FileInv'
<1>1. IInv
  BY DEF FileInv
<1>2. ASSUME NEW k \in AttemptNos, FinishSuccess(t, k), Hook(t) PROVE FileInv'
  BY <1>1, <1>2, SuccessIsEnding, HookStep DEF FinishSuccess
<1>3. ASSUME Hook(t),
             \/ \E k \in AttemptNos : FinishTaskFailure(t, k) \/ ReleaseInterruptedOwner(t, k)
             \/ RequestCancel(t) \/ ReconcileExpiredLease(t)
      PROVE  FileInv'
  BY <1>1, <1>3, FailureIsEnding, HookStep
<1> QED BY <1>2, <1>3 DEF CancelTask, ReconcileTask, FinishTask

-----------------------------------------------------------------------------
(* The steps of a handler at file f                                        *)

WorkRecords == [file : Files \cup {NoFile}, op : {"none", "parse", "index"},
                phase : {"none", "claimed", "dropped", "ready", "raised"}]

(* What such a step leaves alone.                                          *)
Frame(t, k, f) ==
  /\ UNCHANGED <<rows, msg>>
  /\ pc[t][k] \notin {"none", "loading", "returned"}
  /\ UNCHANGED pc \/ (pc[t][k] = "executing" /\ Goto(t, k, "releasing"))
  /\ work[t][k].file \in {f, NoFile}
  /\ \E w \in WorkRecords :
       /\ work' = [work EXCEPT ![t][k] = w]
       /\ w = NoWork \/ (w.file = f /\ w.op \in {"parse", "index"} /\ w.phase # "none")
  /\ \A g \in Files \ {f} :
       /\ fstate'[g] = fstate[g] /\ fowner'[g] = fowner[g] /\ chunks'[g] = chunks[g]
       /\ g \in deleting' <=> g \in deleting
       /\ g \in unrecorded' <=> g \in unrecorded
       /\ g \in spoiled' <=> g \in spoiled
  /\ fstate' \in [Files -> FileStates]
  /\ fowner' \in [Files -> Attempts \cup {NoOwner}]
  /\ chunks' \in [Files -> SUBSET Tasks]
  /\ todo' \in [Tasks -> SUBSET ({"add", "parse", "index"} \X Files)]
  /\ faulty' \subseteq Tasks /\ deleting' \subseteq Files
  /\ unrecorded' \subseteq Files /\ spoiled' \subseteq Files

(* What it does to its own invocation and to no other.                     *)
LEMMA FrameWork ==
  ASSUME FileInv, NEW t \in Tasks, NEW k \in AttemptNos, NEW f \in Files, Frame(t, k, f)
  PROVE  /\ work' \in [Tasks -> [AttemptNos -> WorkRecords]]
         /\ work'[t][k] = NoWork \/ (work'[t][k].file = f /\ work'[t][k].op \in {"parse", "index"}
                                       /\ work'[t][k].phase # "none")
         /\ pc'[t][k] = pc[t][k] \/ (pc[t][k] = "executing" /\ pc'[t][k] = "releasing")
         /\ \A u \in Tasks, l \in AttemptNos : <<u, l>> # <<t, k>> =>
              work'[u][l] = work[u][l] /\ pc'[u][l] = pc[u][l]
<1>1. /\ work \in [Tasks -> [AttemptNos -> WorkRecords]]
      /\ pc \in [Tasks -> [AttemptNos -> {"none", "done", "dead"} \cup Busy]]
  BY DEF FileInv, FileTypeOK, IInv, TypeOK, WorkRecords
<1>2. PICK w \in WorkRecords :
        /\ work' = [work EXCEPT ![t][k] = w]
        /\ w = NoWork \/ (w.file = f /\ w.op \in {"parse", "index"} /\ w.phase # "none")
  BY DEF Frame
<1>3. /\ work' \in [Tasks -> [AttemptNos -> WorkRecords]] /\ work'[t][k] = w
      /\ \A u \in Tasks, l \in AttemptNos : <<u, l>> # <<t, k>> => work'[u][l] = work[u][l]
  BY <1>1, <1>2
<1>4. /\ pc'[t][k] = pc[t][k] \/ (pc[t][k] = "executing" /\ pc'[t][k] = "releasing")
      /\ \A u \in Tasks, l \in AttemptNos : <<u, l>> # <<t, k>> => pc'[u][l] = pc[u][l]
  <2>1. CASE UNCHANGED pc
    BY <2>1
  <2>2. CASE pc[t][k] = "executing" /\ Goto(t, k, "releasing")
    BY <1>1, <2>2 DEF Goto
  <2> QED BY <2>1, <2>2 DEF Frame
<1> QED BY <1>2, <1>3, <1>4

LEMMA FrameStep ==
  ASSUME FileInv, IInv', NEW t \in Tasks, NEW k \in AttemptNos, NEW f \in Files,
         Frame(t, k, f), OwnedOK(f)', ChunksOK(f)'
  PROVE  FileInv'
<1>1. /\ work' \in [Tasks -> [AttemptNos -> WorkRecords]]
      /\ work'[t][k] = NoWork \/ (work'[t][k].file = f /\ work'[t][k].op \in {"parse", "index"}
                                    /\ work'[t][k].phase # "none")
      /\ pc'[t][k] = pc[t][k] \/ (pc[t][k] = "executing" /\ pc'[t][k] = "releasing")
      /\ \A u \in Tasks, l \in AttemptNos : <<u, l>> # <<t, k>> =>
           work'[u][l] = work[u][l] /\ pc'[u][l] = pc[u][l]
      /\ UNCHANGED <<status, owner>>
      /\ pc[t][k] \notin {"none", "loading", "returned"} /\ work[t][k].file \in {f, NoFile}
  <2>1. /\ UNCHANGED <<status, owner>>
        /\ pc[t][k] \notin {"none", "loading", "returned"} /\ work[t][k].file \in {f, NoFile}
    BY DEF Frame, rows
  <2> QED BY <2>1, FrameWork
<1>2. NoFile \notin Files /\ NoWork.file = NoFile
  BY FilesAssumption DEF NoWork
<1>3. FileTypeOK'
  <2>1. /\ fstate' \in [Files -> FileStates]
        /\ fowner' \in [Files -> Attempts \cup {NoOwner}]
        /\ chunks' \in [Files -> SUBSET Tasks]
        /\ todo' \in [Tasks -> SUBSET ({"add", "parse", "index"} \X Files)]
        /\ faulty' \subseteq Tasks /\ deleting' \subseteq Files
        /\ unrecorded' \subseteq Files /\ spoiled' \subseteq Files
    BY DEF Frame
  <2>2. TypeOK'
    BY DEF IInv
  <2>3. work' \in [Tasks -> [AttemptNos ->
          [file : Files \cup {NoFile}, op : {"none", "parse", "index"},
           phase : {"none", "claimed", "dropped", "ready", "raised"}]]]
    BY <1>1 DEF WorkRecords
  <2> QED BY <2>1, <2>2, <2>3 DEF FileTypeOK
<1>4. ASSUME NEW u \in Tasks PROVE WorkOK(u)'
  <2>1. WorkOK(u)
    BY DEF FileInv
  <2>2. CASE u # t
    <3>1. \A l \in AttemptNos : work'[u][l] = work[u][l] /\ pc'[u][l] = pc[u][l]
      BY <1>1, <2>2
    <3> QED BY <1>1, <2>1, <3>1 DEF WorkOK
  <2>3. CASE u = t
    <3>1. \A l \in AttemptNos \ {k} : work'[t][l] = work[t][l] /\ pc'[t][l] = pc[t][l]
      BY <1>1
    <3>2. status[t] \notin {"absent", "pending"}
      BY <1>1, <2>1, <2>3 DEF WorkOK
    <3>3. pc'[t][k] \notin {"none", "loading", "returned"}
      BY <1>1
    <3> QED BY <1>1, <2>1, <2>3, <3>1, <3>2, <3>3 DEF WorkOK
  <2> QED BY <2>2, <2>3
<1>5. ASSUME NEW g \in Files \ {f} PROVE OwnedOK(g)' /\ ChunksOK(g)'
  <2>1. /\ OwnedOK(g) /\ ChunksOK(g)
        /\ fstate'[g] = fstate[g] /\ fowner'[g] = fowner[g] /\ chunks'[g] = chunks[g]
        /\ g \in deleting' <=> g \in deleting
        /\ g \in unrecorded' <=> g \in unrecorded
        /\ g \in spoiled' <=> g \in spoiled
    BY DEF FileInv, Frame
  <2>2. work[t][k].file # g /\ work'[t][k].file # g
    BY <1>1, <1>2
  <2>3. ASSUME NEW u \in Tasks, NEW l \in AttemptNos, Holds(u, l, g) PROVE Holds(u, l, g)'
    <3>1. CASE <<u, l>> = <<t, k>>
      BY <1>1, <2>2, <2>3, <3>1 DEF Holds
    <3>2. CASE <<u, l>> # <<t, k>>
      BY <1>1, <2>3, <3>2 DEF Holds
    <3> QED BY <3>1, <3>2
  <2>4. OwnedOK(g)'
    BY <2>1, <2>3 DEF OwnedOK
  <2>5. ASSUME NEW u \in Tasks, NEW l \in AttemptNos, work'[u][l].file = g
        PROVE  work'[u][l] = work[u][l]
    BY <1>1, <2>2, <2>5
  <2>6. ChunksOK(g)'
    BY <2>1, <2>5 DEF ChunksOK
  <2> QED BY <2>4, <2>6
<1> QED BY <1>3, <1>4, <1>5 DEF FileInv

(* Nobody has the file any more, and its state is not that of an index.    *)
LEMMA GivenUp ==
  ASSUME NEW f \in Files, fstate'[f] \notin Processing, fowner'[f] = NoOwner,
         fstate'[f] = "indexed" =>
           f \in spoiled' \cup deleting' \/ \E t \in Tasks : chunks'[f] = {t}
  PROVE  OwnedOK(f)' /\ ChunksOK(f)'
<1>1. NoOwner \notin Attempts /\ \A t \in Tasks, k \in AttemptNos : <<t, k>> # NoOwner
  BY FilesAssumption DEF Attempts
<1> QED BY <1>1 DEF OwnedOK, ChunksOK

(* Of an owner there is the attempt itself and, if it is another, one that *)
(* this step does not touch.                                               *)
LEMMA SameOwner ==
  ASSUME FileInv, NEW t \in Tasks, NEW k \in AttemptNos, NEW f \in Files, Frame(t, k, f),
         fstate'[f] = fstate[f], fowner'[f] = fowner[f], f \in unrecorded => f \in unrecorded',
         \/ work'[t][k].file = work[t][k].file
         \/ pc'[t][k] \notin {"none", "loading", "executing", "returned"}
         \/ fowner[f] = <<t, k>> => f \in unrecorded'
  PROVE  OwnedOK(f)'
<1>1. OwnedOK(f) /\ UNCHANGED <<status, owner>>
  BY DEF FileInv, Frame, rows
<1>2. ASSUME NEW u \in Tasks, NEW l \in AttemptNos, fowner[f] = <<u, l>>, f \notin unrecorded'
      PROVE  Holds(u, l, f)'
  <2>1. Holds(u, l, f)
    BY <1>1, <1>2 DEF OwnedOK
  <2>2. CASE <<u, l>> = <<t, k>>
    <3>1. pc'[t][k] = pc[t][k] \/ (pc[t][k] = "executing" /\ pc'[t][k] = "releasing")
      BY FrameWork
    <3> QED BY <1>1, <1>2, <2>1, <2>2, <3>1 DEF Holds
  <2>3. CASE <<u, l>> # <<t, k>>
    <3>1. work'[u][l] = work[u][l] /\ pc'[u][l] = pc[u][l]
      BY <2>3, FrameWork
    <3> QED BY <1>1, <2>1, <3>1 DEF Holds
  <2> QED BY <2>2, <2>3
<1> QED BY <1>1, <1>2 DEF OwnedOK

LEMMA SameChunks ==
  ASSUME FileInv, NEW t \in Tasks, NEW k \in AttemptNos, NEW f \in Files, Frame(t, k, f),
         fstate'[f] = fstate[f], fowner'[f] = fowner[f], chunks'[f] = chunks[f],
         f \in spoiled' <=> f \in spoiled, f \in deleting' <=> f \in deleting,
         \/ work'[t][k] = NoWork \/ work'[t][k].op = "parse"
         \/ work'[t][k].phase \in {"claimed", "raised"}
  PROVE  ChunksOK(f)'
<1>1. ChunksOK(f)
  BY DEF FileInv
<1>2. NoFile \notin Files /\ NoWork.file = NoFile
  BY FilesAssumption DEF NoWork
<1>3. \A u \in Tasks, l \in AttemptNos : <<u, l>> # <<t, k>> => work'[u][l] = work[u][l]
  BY FrameWork
<1> QED BY <1>1, <1>2, <1>3 DEF ChunksOK

(* The file an attempt is at, and its invocation.                          *)
LEMMA AtFile ==
  ASSUME FileInv, NEW t \in Tasks, NEW k \in AttemptNos, work[t][k] # NoWork
  PROVE  /\ work[t][k] \in WorkRecords /\ work[t][k].file \in Files
         /\ work[t][k].op \in {"parse", "index"} /\ work[t][k].phase # "none"
         /\ pc[t][k] \notin {"none", "loading", "returned"}
  BY DEF FileInv, FileTypeOK, WorkOK, WorkRecords

-----------------------------------------------------------------------------
(* The items of the handler                                                *)

LEMMA StrikeType ==
  ASSUME FileInv, NEW t \in Tasks, NEW op, NEW f \in Files, NEW ok \in BOOLEAN, Strike(t, op, f, ok)
  PROVE  todo' \in [Tasks -> SUBSET ({"add", "parse", "index"} \X Files)] /\ faulty' \subseteq Tasks
  BY DEF Strike, FileInv, FileTypeOK

LEMMA AddFileStep ==
  ASSUME FileInv, IInv', NEW t \in Tasks, NEW k \in AttemptNos, NEW f \in FilesOf[t],
         AddFile(t, k, f)
  PROVE  FileInv'
<1>1. f \in Files
  BY FilesAssumption
<1>2. FileTypeOK /\ UNCHANGED vars /\ UNCHANGED <<chunks, deleting, work, unrecorded, spoiled>>
  BY DEF AddFile, FileInv
<1>3. /\ pc[t][k] = "executing" /\ work[t][k] = NoWork /\ NoWork.file = NoFile
      /\ NoWork \in WorkRecords
  BY DEF AddFile, AtItem, NoWork, WorkRecords
<1>4. work' = [work EXCEPT ![t][k] = NoWork]
  BY <1>2, <1>3 DEF FileTypeOK
<1>5. /\ todo' \in [Tasks -> SUBSET ({"add", "parse", "index"} \X Files)]
      /\ faulty' \subseteq Tasks
  BY <1>1, StrikeType DEF AddFile
<1>6. CASE Record(f, "uploaded", NoOwner)
  <2>1. /\ fstate' \in [Files -> FileStates] /\ fowner' \in [Files -> Attempts \cup {NoOwner}]
        /\ fstate'[f] = "uploaded" /\ fowner'[f] = NoOwner
        /\ \A g \in Files \ {f} : fstate'[g] = fstate[g] /\ fowner'[g] = fowner[g]
    BY <1>1, <1>2, <1>6 DEF Record, FileTypeOK, FileStates
  <2>2. Frame(t, k, f)
    BY <1>2, <1>3, <1>4, <1>5, <2>1 DEF Frame, FileTypeOK, vars
  <2>3. OwnedOK(f)' /\ ChunksOK(f)'
    BY <1>1, <2>1, GivenUp DEF Processing
  <2> QED BY <1>1, <2>2, <2>3, FrameStep
<1>7. CASE RecordNothing
  <2>1. Frame(t, k, f)
    BY <1>2, <1>3, <1>4, <1>5, <1>7 DEF Frame, FileTypeOK, vars, RecordNothing
  <2>2. OwnedOK(f)' /\ ChunksOK(f)'
    BY <1>1, <1>2, <1>3, <1>7, <2>1, SameOwner, SameChunks DEF RecordNothing
  <2> QED BY <1>1, <2>1, <2>2, FrameStep
<1> QED BY <1>6, <1>7 DEF AddFile

LEMMA ClaimFileStep ==
  ASSUME FileInv, IInv', NEW t \in Tasks, NEW k \in AttemptNos, NEW f \in FilesOf[t],
         NEW op \in {"parse", "index"}, ClaimFile(t, k, op, f)
  PROVE  FileInv'
<1>1. f \in Files
  BY FilesAssumption
<1>2. FileTypeOK /\ UNCHANGED vars /\ UNCHANGED <<chunks, deleting, unrecorded, spoiled>>
  BY DEF ClaimFile, FileInv
<1>3. /\ pc[t][k] = "executing" /\ work[t][k] = NoWork /\ NoWork.file = NoFile
      /\ NoWork \in WorkRecords
  BY DEF ClaimFile, AtItem, NoWork, WorkRecords
<1>4. CASE IsLiveOwner(t, k) /\ fstate[f] \in Allowed(op)
  <2> DEFINE w == [file |-> f, op |-> op, phase |-> "claimed"]
  <2>1. /\ Record(f, Doing(op), <<t, k>>)
        /\ work' = [work EXCEPT ![t][k] = w] /\ UNCHANGED <<todo, faulty>>
    BY <1>4 DEF ClaimFile, SetWork
  <2>2. <<t, k>> \in Attempts /\ Doing(op) \in Processing /\ Doing(op) \in FileStates
    BY DEF Attempts, Doing, Processing, FileStates
  <2>3. /\ fstate' \in [Files -> FileStates] /\ fowner' \in [Files -> Attempts \cup {NoOwner}]
        /\ fstate'[f] = Doing(op) /\ fowner'[f] = <<t, k>>
        /\ \A g \in Files \ {f} : fstate'[g] = fstate[g] /\ fowner'[g] = fowner[g]
    BY <1>1, <1>2, <2>1, <2>2 DEF Record, FileTypeOK
  <2>4. w \in WorkRecords /\ work'[t][k] = w
    BY <1>1, <1>2, <2>1 DEF WorkRecords, FileTypeOK
  <2>5. Frame(t, k, f)
    BY <1>1, <1>2, <1>3, <2>1, <2>3, <2>4 DEF Frame, FileTypeOK, vars
  <2>6. OwnedOK(f)'
    <3>1. status'[t] = "running" /\ owner'[t] = k /\ work'[t][k].file = f
      BY <1>2, <1>4, <2>4 DEF IsLiveOwner, vars, rows
    <3>2. \A u \in Tasks, l \in AttemptNos : <<t, k>> = <<u, l>> => Holds(u, l, f)'
      BY <3>1 DEF Holds
    <3> QED BY <2>2, <2>3, <3>2 DEF OwnedOK
  <2>7. ChunksOK(f)'
    <3>1. fstate'[f] # "indexed" /\ work'[t][k].phase = "claimed"
      BY <2>3, <2>4 DEF Doing
    <3> QED BY <2>3, <3>1 DEF ChunksOK
  <2> QED BY <1>1, <2>5, <2>6, <2>7, FrameStep
<1>5. CASE ~(IsLiveOwner(t, k) /\ fstate[f] \in Allowed(op))
  <2>1. Strike(t, op, f, FALSE) /\ RecordNothing /\ UNCHANGED work
    BY <1>5 DEF ClaimFile
  <2>2. work' = [work EXCEPT ![t][k] = NoWork]
    BY <1>2, <1>3, <2>1 DEF FileTypeOK
  <2>3. /\ todo' \in [Tasks -> SUBSET ({"add", "parse", "index"} \X Files)]
        /\ faulty' \subseteq Tasks
    BY <1>1, <2>1, StrikeType
  <2>4. Frame(t, k, f)
    BY <1>2, <1>3, <2>1, <2>2, <2>3 DEF Frame, FileTypeOK, vars, RecordNothing
  <2>5. OwnedOK(f)' /\ ChunksOK(f)'
    BY <1>1, <1>2, <1>3, <2>1, <2>4, SameOwner, SameChunks DEF RecordNothing
  <2> QED BY <1>1, <2>4, <2>5, FrameStep
<1> QED BY <1>4, <1>5

LEMMA ParseDocumentStep ==
  ASSUME FileInv, IInv', NEW t \in Tasks, NEW k \in AttemptNos,
         ParseDocument(t, k) \/ ProcessingRaises(t, k)
  PROVE  FileInv'
<1>1. /\ UNCHANGED vars
      /\ UNCHANGED <<fstate, fowner, chunks, deleting, todo, faulty, unrecorded, spoiled>>
      /\ work[t][k].phase # "none" /\ FileTypeOK
  BY DEF ParseDocument, ProcessingRaises, Working, FileInv
<1>0. PICK f \in Files : f = work[t][k].file
  BY <1>1, AtFile DEF NoWork
<1>2. PICK p \in {"ready", "raised"} :
        /\ work' = [work EXCEPT ![t][k].phase = p]
        /\ p = "ready" => work[t][k].op = "parse"
  BY DEF ParseDocument, ProcessingRaises, Phase, Working
<1>3. /\ work[t][k] \in WorkRecords /\ work[t][k].op \in {"parse", "index"}
      /\ pc[t][k] \notin {"none", "loading", "returned"}
  BY <1>1, AtFile DEF NoWork
<1> DEFINE w == [work[t][k] EXCEPT !.phase = p]
<1>4. /\ w \in WorkRecords /\ w.file = f /\ w.op = work[t][k].op /\ w.phase = p
      /\ work' = [work EXCEPT ![t][k] = w] /\ work'[t][k] = w
  BY <1>0, <1>1, <1>2, <1>3 DEF WorkRecords, FileTypeOK
<1> HIDE DEF w
<1>5. Frame(t, k, f)
  BY <1>0, <1>1, <1>3, <1>4 DEF Frame, FileTypeOK, vars
<1>6. OwnedOK(f)'
  BY <1>0, <1>1, <1>4, <1>5, SameOwner
<1>7. ChunksOK(f)'
  <2>1. work'[t][k].op = "parse" \/ work'[t][k].phase \in {"claimed", "raised"}
    BY <1>2, <1>4
  <2> QED BY <1>1, <1>5, <2>1, SameChunks
<1> QED BY <1>5, <1>6, <1>7, FrameStep

(* The steps of an indexing.  An attempt that has the file leaves exactly  *)
(* its own chunks; one that has not marks the file.                        *)
LEMMA ChunkStep ==
  ASSUME FileInv, IInv', NEW t \in Tasks, NEW k \in AttemptNos,
         DropChunks(t, k) \/ StoreChunks(t, k)
  PROVE  FileInv'
<1>1. /\ UNCHANGED vars
      /\ UNCHANGED <<fstate, fowner, deleting, todo, faulty, unrecorded>>
      /\ work[t][k].phase # "none" /\ work[t][k].op = "index" /\ FileTypeOK
  BY DEF DropChunks, StoreChunks, Working, FileInv
<1>0. PICK f \in Files : f = work[t][k].file
  BY <1>1, AtFile DEF NoWork
<1>2. PICK p \in {"dropped", "ready"}, c \in SUBSET Tasks :
        /\ work' = [work EXCEPT ![t][k].phase = p]
        /\ chunks' = [chunks EXCEPT ![f] = c]
        /\ spoiled' \in SUBSET (spoiled \cup {f}) /\ spoiled \subseteq spoiled' \cup {f}
        /\ f \notin spoiled' => Claims(t, k, f)
        /\ p = "dropped" => c = {}
        /\ p = "ready" => /\ c = chunks[f] \cup {t} /\ work[t][k].phase = "dropped"
                          /\ f \in spoiled => f \in spoiled'
  <2>1. ASSUME DropChunks(t, k)
        PROVE  /\ work' = [work EXCEPT ![t][k].phase = "dropped"]
               /\ chunks' = [chunks EXCEPT ![f] = {}]
               /\ spoiled' \in SUBSET (spoiled \cup {f}) /\ spoiled \subseteq spoiled' \cup {f}
               /\ f \notin spoiled' => Claims(t, k, f)
    BY <1>0, <2>1 DEF DropChunks, Phase, ChunksDropped
  <2>2. ASSUME StoreChunks(t, k)
        PROVE  /\ work' = [work EXCEPT ![t][k].phase = "ready"]
               /\ chunks' = [chunks EXCEPT ![f] = chunks[f] \cup {t}]
               /\ spoiled' \in SUBSET (spoiled \cup {f}) /\ spoiled \subseteq spoiled' \cup {f}
               /\ f \notin spoiled' => Claims(t, k, f)
               /\ work[t][k].phase = "dropped" /\ (f \in spoiled => f \in spoiled')
               /\ chunks[f] \cup {t} \in SUBSET Tasks
    <3>1. chunks[f] \in SUBSET Tasks
      BY <1>1 DEF FileTypeOK
    <3> QED BY <1>0, <2>2, <3>1 DEF StoreChunks, Phase, Working
  <2> QED BY <2>1, <2>2
<1>3. /\ work[t][k] \in WorkRecords
      /\ pc[t][k] \notin {"none", "loading", "returned"}
  BY <1>1, AtFile DEF NoWork
<1> DEFINE w == [work[t][k] EXCEPT !.phase = p]
<1>4. /\ w \in WorkRecords /\ w.file = f /\ w.op = "index" /\ w.phase = p
      /\ work' = [work EXCEPT ![t][k] = w] /\ work'[t][k] = w
  BY <1>0, <1>1, <1>2, <1>3 DEF WorkRecords, FileTypeOK
<1> HIDE DEF w
<1>5. /\ chunks' \in [Files -> SUBSET Tasks] /\ chunks'[f] = c
      /\ \A g \in Files \ {f} : chunks'[g] = chunks[g]
      /\ spoiled' \subseteq Files /\ \A g \in Files \ {f} : g \in spoiled' <=> g \in spoiled
  BY <1>1, <1>2 DEF FileTypeOK
<1>6. Frame(t, k, f)
  BY <1>0, <1>1, <1>3, <1>4, <1>5 DEF Frame, FileTypeOK, vars
<1>7. OwnedOK(f)'
  BY <1>0, <1>1, <1>4, <1>6, SameOwner
<1>8. ChunksOK(f)'
  <2> SUFFICES ASSUME f \notin spoiled' \cup deleting' PROVE ChunksOK(f)'
    BY DEF ChunksOK
  <2>1. fowner'[f] = <<t, k>> /\ fowner[f] = <<t, k>>
    BY <1>1, <1>2 DEF Claims
  <2>2. fstate'[f] # "indexed"
    <3>1. OwnedOK(f) /\ <<t, k>> \in Attempts
      BY DEF FileInv, Attempts
    <3> QED BY <1>1, <2>1, <3>1 DEF OwnedOK, Processing
  <2>3. p = "ready" => chunks'[f] = {t}
    <3>1. ChunksOK(f)
      BY DEF FileInv
    <3>2. p = "ready" => chunks[f] = {}
      BY <1>0, <1>1, <1>2, <2>1, <3>1 DEF ChunksOK
    <3> QED BY <1>2, <1>5, <3>2
  <2>4. p = "dropped" => chunks'[f] = {}
    BY <1>2, <1>5
  <2>5. \A u \in Tasks, l \in AttemptNos : fowner'[f] = <<u, l>> => u = t /\ l = k
    BY <2>1
  <2> QED BY <1>4, <2>2, <2>3, <2>4, <2>5 DEF ChunksOK
<1> QED BY <1>6, <1>7, <1>8, FrameStep

(* An attempt leaves its file: it gave the file a state of rest, or it     *)
(* wrote nothing and is not to go on with it.                              *)
LEMMA LeaveStep ==
  ASSUME FileInv, IInv', NEW t \in Tasks, NEW k \in AttemptNos, work[t][k] # NoWork,
         work' = [work EXCEPT ![t][k] = NoWork],
         UNCHANGED <<rows, msg, chunks, deleting, spoiled>>,
         UNCHANGED pc \/ (pc[t][k] = "executing" /\ Goto(t, k, "releasing")),
         todo' \in [Tasks -> SUBSET ({"add", "parse", "index"} \X Files)],
         faulty' \subseteq Tasks,
         \/ \E s \in FileStates \ Processing :
              /\ Record(work[t][k].file, s, NoOwner) /\ UNCHANGED unrecorded
              /\ s = "indexed" => /\ fowner[work[t][k].file] = <<t, k>>
                                  /\ work[t][k].op = "index" /\ work[t][k].phase = "ready"
         \/ /\ RecordNothing /\ UNCHANGED unrecorded
            /\ pc'[t][k] \notin {"none", "loading", "executing", "returned"}
         \/ /\ RecordNothing
            /\ unrecorded' = IF fowner[work[t][k].file] = <<t, k>>
                             THEN unrecorded \cup {work[t][k].file} ELSE unrecorded
  PROVE  FileInv'
<1>1. FileTypeOK
  BY DEF FileInv
<1>2. PICK f \in Files : f = work[t][k].file
  BY AtFile
<1>3. /\ NoWork.file = NoFile /\ NoWork \in WorkRecords /\ work'[t][k] = NoWork
      /\ pc[t][k] \notin {"none", "loading", "returned"}
  BY <1>1, AtFile DEF NoWork, WorkRecords, FileTypeOK
<1>4. ASSUME NEW s \in FileStates \ Processing, Record(f, s, NoOwner), UNCHANGED unrecorded,
             s = "indexed" => /\ fowner[f] = <<t, k>>
                              /\ work[t][k].op = "index" /\ work[t][k].phase = "ready"
      PROVE  FileInv'
  <2>1. /\ fstate' \in [Files -> FileStates] /\ fowner' \in [Files -> Attempts \cup {NoOwner}]
        /\ fstate'[f] = s /\ fowner'[f] = NoOwner
        /\ \A g \in Files \ {f} : fstate'[g] = fstate[g] /\ fowner'[g] = fowner[g]
    BY <1>1, <1>4 DEF Record, FileTypeOK
  <2>2. Frame(t, k, f)
    BY <1>1, <1>2, <1>3, <1>4, <2>1 DEF Frame, FileTypeOK
  <2>3. s = "indexed" => f \in spoiled' \cup deleting' \/ \E u \in Tasks : chunks'[f] = {u}
    <3>1. ChunksOK(f)
      BY DEF FileInv
    <3> QED BY <1>2, <1>4, <3>1 DEF ChunksOK
  <2>4. OwnedOK(f)' /\ ChunksOK(f)'
    BY <2>1, <2>3, GivenUp
  <2> QED BY <2>2, <2>4, FrameStep
<1>5. ASSUME RecordNothing, unrecorded' \subseteq Files,
             \A g \in Files \ {f} : g \in unrecorded' <=> g \in unrecorded,
             f \in unrecorded => f \in unrecorded',
             \/ pc'[t][k] \notin {"none", "loading", "executing", "returned"}
             \/ fowner[f] = <<t, k>> => f \in unrecorded'
      PROVE  FileInv'
  <2>1. Frame(t, k, f)
    BY <1>1, <1>2, <1>3, <1>5 DEF Frame, FileTypeOK, RecordNothing
  <2>2. OwnedOK(f)' /\ ChunksOK(f)'
    BY <1>3, <1>5, <2>1, SameOwner, SameChunks DEF RecordNothing
  <2> QED BY <2>1, <2>2, FrameStep
<1>6. unrecorded \subseteq Files
  BY <1>1 DEF FileTypeOK
<1> QED BY <1>2, <1>4, <1>5, <1>6

LEMMA OutcomeStep ==
  ASSUME FileInv, IInv', NEW t \in Tasks, NEW k \in AttemptNos,
         RecordDone(t, k) \/ RecordError(t, k) \/ RecordUnparsed(t, k)
  PROVE  FileInv'
<1>1. FileTypeOK /\ pc[t][k] = "executing" /\ work[t][k].phase # "none"
  BY DEF FileInv, RecordDone, RecordError, RecordUnparsed, Working
<1>2. work[t][k] # NoWork /\ work[t][k].op \in {"parse", "index"} /\ work[t][k].file \in Files
  BY <1>1, AtFile DEF NoWork
<1>3. PICK s \in FileStates \ Processing, ok \in BOOLEAN :
        /\ RecordOutcome(t, k, s, ok)
        /\ s = "indexed" => work[t][k].op = "index" /\ work[t][k].phase = "ready"
  <2>1. /\ {"parsed", "indexed", "uploaded"} \subseteq FileStates \ Processing
        /\ \A op : Failed(op) \in FileStates \ Processing /\ Failed(op) # "indexed"
        /\ Done("parse") = "parsed" /\ Done("index") = "indexed"
    BY DEF FileStates, Processing, Failed, Done
  <2>2. CASE RecordDone(t, k)
    <3>1. /\ RecordOutcome(t, k, Done(work[t][k].op), TRUE) /\ work[t][k].phase = "ready"
          /\ Done(work[t][k].op) \in FileStates \ Processing
          /\ Done(work[t][k].op) = "indexed" => work[t][k].op = "index"
      BY <1>2, <2>1, <2>2 DEF RecordDone
    <3> QED BY <3>1
  <2>3. CASE RecordError(t, k)
    <3>1. RecordOutcome(t, k, Failed(work[t][k].op), FALSE)
      BY <2>3 DEF RecordError
    <3> QED BY <2>1, <3>1
  <2>4. CASE RecordUnparsed(t, k)
    <3>1. RecordOutcome(t, k, "uploaded", FALSE)
      BY <2>4 DEF RecordUnparsed
    <3> QED BY <2>1, <3>1
  <2> QED BY <2>2, <2>3, <2>4
<1>4. /\ work' = [work EXCEPT ![t][k] = NoWork]
      /\ UNCHANGED <<rows, msg, chunks, deleting, spoiled>> /\ UNCHANGED unrecorded
  BY <1>3 DEF RecordOutcome, SetWork
<1>5. CASE MayRecord(t, k)
  <2>1. /\ fowner[work[t][k].file] = <<t, k>> /\ Record(work[t][k].file, s, NoOwner)
        /\ Strike(t, work[t][k].op, work[t][k].file, ok) /\ UNCHANGED pc
    BY <1>3, <1>5 DEF RecordOutcome, MayRecord
  <2>2. /\ todo' \in [Tasks -> SUBSET ({"add", "parse", "index"} \X Files)]
        /\ faulty' \subseteq Tasks
    BY <1>2, <2>1, StrikeType
  <2> QED BY <1>2, <1>3, <1>4, <2>1, <2>2, LeaveStep
<1>6. CASE ~MayRecord(t, k)
  <2>1. Goto(t, k, "releasing") /\ RecordNothing /\ UNCHANGED <<todo, faulty>>
    BY <1>3, <1>6 DEF RecordOutcome, OwnerLost
  <2>2. pc'[t][k] = "releasing"
    BY <1>1, <2>1 DEF FileTypeOK, TypeOK, Goto
  <2>3. /\ todo' \in [Tasks -> SUBSET ({"add", "parse", "index"} \X Files)]
        /\ faulty' \subseteq Tasks
    BY <1>1, <2>1 DEF FileTypeOK
  <2> QED BY <1>1, <1>2, <1>4, <2>1, <2>2, <2>3, LeaveStep
<1> QED BY <1>5, <1>6

LEMMA RecordFailsStep ==
  ASSUME FileInv, IInv', NEW t \in Tasks, NEW k \in AttemptNos, RecordFails(t, k)
  PROVE  FileInv'
<1>1. work[t][k].phase # "none" /\ UNCHANGED vars
  BY DEF RecordFails
<1>2. work[t][k] # NoWork /\ work[t][k].file \in Files
  BY <1>1, AtFile DEF NoWork
<1>3. /\ todo' \in [Tasks -> SUBSET ({"add", "parse", "index"} \X Files)]
      /\ faulty' \subseteq Tasks
  BY <1>2, StrikeType DEF RecordFails
<1>4. /\ work' = [work EXCEPT ![t][k] = NoWork] /\ UNCHANGED <<chunks, deleting, spoiled>>
      /\ RecordNothing
      /\ unrecorded' = IF fowner[work[t][k].file] = <<t, k>>
                       THEN unrecorded \cup {work[t][k].file} ELSE unrecorded
  BY DEF RecordFails, SetWork, RecordNothing
<1> QED BY <1>1, <1>2, <1>3, <1>4, LeaveStep DEF vars

LEMMA UnwindStep ==
  ASSUME FileInv, IInv', NEW t \in Tasks, NEW k \in AttemptNos, Unwind(t, k)
  PROVE  FileInv'
<1>1. /\ work[t][k] # NoWork /\ UNCHANGED vars
      /\ work' = [work EXCEPT ![t][k] = NoWork]
      /\ UNCHANGED <<chunks, deleting, spoiled>> /\ UNCHANGED unrecorded
      /\ UNCHANGED <<todo, faulty>>
      /\ pc[t][k] \notin {"none", "loading", "executing", "returned"}
  BY DEF Unwind, SetWork
<1>2. /\ todo' \in [Tasks -> SUBSET ({"add", "parse", "index"} \X Files)]
      /\ faulty' \subseteq Tasks
  BY <1>1 DEF FileInv, FileTypeOK
<1>3. \A op : Failed(op) \in FileStates \ Processing /\ Failed(op) # "indexed"
  BY DEF Failed, FileStates, Processing
<1>4. RecordNothing \/ Record(work[t][k].file, Failed(work[t][k].op), NoOwner)
  BY DEF Unwind
<1> QED BY <1>1, <1>2, <1>3, <1>4, LeaveStep DEF vars

(* delete_file.                                                            *)
LEMMA DeleteStep ==
  ASSUME FileInv, IInv', NEW f \in Files, DeleteChunks(f) \/ DeleteRow(f)
  PROVE  FileInv'
<1>1. /\ FileTypeOK /\ UNCHANGED <<status, owner, pc>> /\ UNCHANGED <<work, todo, faulty, spoiled>>
  BY DEF FileInv, DeleteChunks, DeleteRow, vars, rows
<1>2. /\ chunks' \in [Files -> SUBSET Tasks] /\ deleting' \subseteq Files
      /\ fstate' \in [Files -> FileStates] /\ fowner' \in [Files -> Attempts \cup {NoOwner}]
      /\ unrecorded' \subseteq Files
      /\ \A g \in Files \ {f} :
           /\ fstate'[g] = fstate[g] /\ fowner'[g] = fowner[g] /\ chunks'[g] = chunks[g]
           /\ g \in deleting' <=> g \in deleting
           /\ g \in unrecorded' <=> g \in unrecorded
  BY <1>1 DEF DeleteChunks, DeleteRow, Record, FileTypeOK, FileStates
<1>3. FileTypeOK'
  BY <1>1, <1>2 DEF FileTypeOK, IInv
<1>4. ASSUME NEW t \in Tasks
      PROVE  /\ WorkOK(t)'
             /\ \A k \in AttemptNos, g \in Files : Holds(t, k, g) => Holds(t, k, g)'
  BY <1>1, HoldsSame
<1>5. ASSUME NEW g \in Files \ {f} PROVE OwnedOK(g)' /\ ChunksOK(g)'
  <2>1. OwnedOK(g) /\ ChunksOK(g)
    BY DEF FileInv
  <2>2. OwnedOK(g)'
    BY <1>2, <1>4, <2>1 DEF OwnedOK
  <2>3. ChunksOK(g)'
    BY <1>1, <1>2, <2>1 DEF ChunksOK
  <2> QED BY <2>2, <2>3
<1>6. CASE DeleteChunks(f)
  <2>1. /\ fstate' = fstate /\ fowner' = fowner /\ unrecorded' = unrecorded
        /\ f \in deleting' /\ OwnedOK(f)
    BY <1>6 DEF DeleteChunks, FileInv
  <2>2. OwnedOK(f)'
    BY <1>4, <2>1 DEF OwnedOK
  <2>3. ChunksOK(f)'
    BY <2>1 DEF ChunksOK
  <2> QED BY <1>3, <1>4, <1>5, <2>2, <2>3 DEF FileInv
<1>7. CASE DeleteRow(f)
  <2>1. fstate'[f] = "absent" /\ fowner'[f] = NoOwner
    BY <1>1, <1>7 DEF DeleteRow, Record, FileTypeOK
  <2>2. OwnedOK(f)' /\ ChunksOK(f)'
    BY <2>1, GivenUp DEF Processing
  <2> QED BY <1>3, <1>4, <1>5, <2>2 DEF FileInv
<1> QED BY <1>6, <1>7

-----------------------------------------------------------------------------
(* The theorems                                                            *)

LEMMA FileNextStep ==
  ASSUME FileInv, [FileNext]_allVars
  PROVE  FileInv'
<1>1. IInv'
  <2>1. IInv /\ [Next]_vars
    BY FileStepIsTaskStep DEF FileInv, allVars
  <2> QED BY <2>1, NextStep
<1>2. CASE UNCHANGED allVars
  BY <1>1, <1>2, SameStep DEF allVars, vars, rows
<1>3. ASSUME NEW t \in Tasks, NEW k \in AttemptNos, Handler(t, k) PROVE FileInv'
  <2>1. CASE \E f \in FilesOf[t] :
               AddFile(t, k, f) \/ \E op \in {"parse", "index"} : ClaimFile(t, k, op, f)
    BY <1>1, <2>1, AddFileStep, ClaimFileStep
  <2>2. CASE ParseDocument(t, k) \/ ProcessingRaises(t, k)
    BY <1>1, <2>2, ParseDocumentStep
  <2>3. CASE DropChunks(t, k) \/ StoreChunks(t, k)
    BY <1>1, <2>3, ChunkStep
  <2>4. CASE RecordDone(t, k) \/ RecordError(t, k) \/ RecordUnparsed(t, k)
    BY <1>1, <2>4, OutcomeStep
  <2> QED BY <1>1, <1>3, <2>1, <2>2, <2>3, <2>4, RecordFailsStep, UnwindStep DEF Handler
<1>4. ASSUME NEW t \in Tasks,
             \/ CancelTask(t) \/ ReconcileTask(t) \/ TaskOnly(t)
             \/ \E k \in AttemptNos : LoadHandler(t, k) \/ FinishTask(t, k)
      PROVE  FileInv'
  BY <1>1, <1>4, EndFileStep, TaskOnlyFileStep
<1>5. ASSUME NEW f \in Files, DeleteChunks(f) \/ DeleteRow(f) PROVE FileInv'
  BY <1>1, <1>5, DeleteStep
<1> QED BY <1>2, <1>3, <1>4, <1>5 DEF FileNext

(* The invariant of files and their tasks together.                        *)
THEOREM FileInvariance == FileSpec => []FileInv
<1>1. FileInv /\ [FileNext]_allVars => FileInv'
  BY FileNextStep
<1> QED BY <1>1, FileInitInv, PTL DEF FileSpec

(* Rows, claims and chunks keep the shapes that the repository writes.     *)
THEOREM FileTypeCorrect == FileSpec => []FileTypeOK
<1>1. FileInv => FileTypeOK
  BY DEF FileInv
<1> QED BY <1>1, FileInvariance, PTL

(* No file is left in processing by an attempt that went on to another     *)
(* file or ended, unless the database did not take the file's failure.     *)
THEOREM ProcessingOwned == FileSpec => []ProcessingIsOwned
<1>1. ASSUME FileInv, NEW f \in Files, fstate[f] \in Processing
      PROVE  \E t \in Tasks, k \in AttemptNos :
               /\ fowner[f] = <<t, k>>
               /\ f \notin unrecorded =>
                    /\ status[t] = "running" /\ owner[t] = k
                    /\ pc[t][k] = "executing" => work[t][k].file = f
  <2>1. OwnedOK(f)
    BY <1>1 DEF FileInv
  <2>2. PICK t \in Tasks, k \in AttemptNos : fowner[f] = <<t, k>>
    BY <1>1, <2>1 DEF OwnedOK, Attempts
  <2> QED BY <2>1, <2>2 DEF OwnedOK, Holds
<1>2. FileInv => ProcessingIsOwned
  BY <1>1 DEF ProcessingIsOwned
<1> QED BY <1>2, FileInvariance, PTL

(* An indexed file that nobody without a claim wrote to has the chunks of  *)
(* one indexing.                                                           *)
THEOREM IndexedComplete == FileSpec => []IndexedHasItsChunks
<1>1. \A c : (\E t \in Tasks : c = {t}) => Cardinality(c) = 1
  BY FS_Singleton
<1>2. FileInv => IndexedHasItsChunks
  BY <1>1 DEF FileInv, ChunksOK, IndexedHasItsChunks
<1> QED BY <1>2, FileInvariance, PTL

(* Only the attempt that claimed a file makes it parsed or indexed.        *)
THEOREM ResultClaimed == FileSpec => ResultOfItsClaim
<1> DEFINE Own(f) == fstate[f] \in Processing /\ fstate'[f] \in {"parsed", "indexed"} =>
                       \E t \in Tasks, k \in AttemptNos :
                         /\ fowner[f] = <<t, k>>
                         /\ work[t][k].file = f
                         /\ work[t][k].phase = "ready"
<1>1. ASSUME FileInv, [FileNext]_allVars, NEW f \in Files PROVE Own(f)
  <2>0. fstate \in [Files -> FileStates]
    BY <1>1 DEF FileInv, FileTypeOK
  <2>1. CASE UNCHANGED fstate
    BY <2>1 DEF Processing
  <2>2. ASSUME NEW g, NEW s \in FileStates \ {"parsed", "indexed"},
               fstate' = [fstate EXCEPT ![g] = s]
        PROVE  Own(f)
    BY <2>0, <2>2 DEF Processing
  <2>3. ASSUME NEW t \in Tasks, NEW k \in AttemptNos,
               RecordDone(t, k) \/ RecordError(t, k) \/ RecordUnparsed(t, k)
        PROVE  Own(f)
    <3>1. CASE ~MayRecord(t, k)
      BY <2>1, <2>3, <3>1
      DEF RecordDone, RecordError, RecordUnparsed, RecordOutcome, OwnerLost, RecordNothing
    <3>2. CASE MayRecord(t, k) /\ ~RecordDone(t, k)
      <4>1. \A op : Failed(op) \in FileStates \ {"parsed", "indexed"}
        BY DEF Failed, FileStates
      <4> QED BY <2>2, <2>3, <3>2, <4>1
        DEF RecordError, RecordUnparsed, RecordOutcome, Record, FileStates
    <3>3. CASE MayRecord(t, k) /\ RecordDone(t, k)
      <4>1. /\ fowner[work[t][k].file] = <<t, k>> /\ work[t][k].phase = "ready"
            /\ \E s : fstate' = [fstate EXCEPT ![work[t][k].file] = s]
        BY <3>3 DEF MayRecord, RecordDone, RecordOutcome, Record
      <4>2. CASE f = work[t][k].file
        BY <4>1, <4>2
      <4>3. CASE f # work[t][k].file
        <5>1. fstate'[f] = fstate[f]
          BY <2>0, <4>1, <4>3
        <5> QED BY <5>1 DEF Processing
      <4> QED BY <4>2, <4>3
    <3> QED BY <2>3, <3>1, <3>2, <3>3
  <2>4. ASSUME NEW t \in Tasks, NEW k \in AttemptNos, Handler(t, k) PROVE Own(f)
    <3>1. ASSUME NEW g \in FilesOf[t], NEW op \in {"parse", "index"},
                 AddFile(t, k, g) \/ ClaimFile(t, k, op, g)
          PROVE  Own(f)
      <4>1. {"uploaded", Doing(op)} \subseteq FileStates \ {"parsed", "indexed"}
        BY DEF Doing, FileStates, Processing
      <4> QED BY <2>1, <2>2, <3>1, <4>1 DEF AddFile, ClaimFile, Record, RecordNothing
    <3>2. CASE Unwind(t, k)
      <4>1. \A op : Failed(op) \in FileStates \ {"parsed", "indexed"}
        BY DEF Failed, FileStates
      <4> QED BY <2>1, <2>2, <3>2, <4>1 DEF Unwind, Record, RecordNothing
    <3>3. CASE \/ ParseDocument(t, k) \/ DropChunks(t, k) \/ StoreChunks(t, k)
               \/ ProcessingRaises(t, k) \/ RecordFails(t, k)
      BY <2>1, <3>3 DEF ParseDocument, DropChunks, StoreChunks, ProcessingRaises, RecordFails
    <3>4. "parse" \in {"parse", "index"}
      OBVIOUS
    <3> HIDE DEF Own
    <3> QED BY <2>3, <2>4, <3>1, <3>2, <3>3, <3>4 DEF Handler
  <2>5. ASSUME NEW t \in Tasks, Hook(t) PROVE Own(f)
    <3>1. CASE RecordNothing
      BY <2>1, <3>1 DEF RecordNothing
    <3>2. CASE FailFiles(FilesOfEnd(t))
      BY <3>2 DEF FailFiles, Processing
    <3> QED BY <2>5, <3>1, <3>2 DEF Hook
  <2>6. ASSUME NEW g \in Files, DeleteChunks(g) \/ DeleteRow(g) PROVE Own(f)
    <3>1. "absent" \in FileStates \ {"parsed", "indexed"}
      BY DEF FileStates
    <3> QED BY <2>1, <2>2, <2>6, <3>1 DEF DeleteChunks, DeleteRow, Record
  <2>7. ASSUME NEW t \in Tasks, TaskOnly(t) \/ \E k \in AttemptNos : LoadHandler(t, k) PROVE Own(f)
    BY <2>1, <2>7 DEF TaskOnly, LoadHandler, domain
  <2>8. CASE UNCHANGED allVars
    BY <2>1, <2>8 DEF allVars, domain
  <2> HIDE DEF Own
  <2> QED BY <1>1, <2>4, <2>5, <2>6, <2>7, <2>8
    DEF FileNext, CancelTask, ReconcileTask, FinishTask
<1>2. FileInv /\ [FileNext]_allVars =>
        [\A f \in Files :
           fstate[f] \in Processing /\ fstate'[f] \in {"parsed", "indexed"} =>
             \E t \in Tasks, k \in AttemptNos :
               /\ fowner[f] = <<t, k>>
               /\ work[t][k].file = f
               /\ work[t][k].phase = "ready"]_allVars
  BY <1>1
<1> QED BY <1>2, FileInvariance, PTL DEF FileSpec, ResultOfItsClaim
=============================================================================
