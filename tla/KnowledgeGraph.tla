--------------------------- MODULE KnowledgeGraph ---------------------------
(***************************************************************************)
(* The knowledge graph of one Milvus knowledge base: build_pending_chunks  *)
(* of milvus_graph_service.py with its extractors, its writer and its      *)
(* vector worker, the claims on vector records and the flags of chunks     *)
(* (knowledge_graph_repository.py, knowledge_chunk_repository.py), and the *)
(* three that take a graph away: the deletion of a file's chunks, the      *)
(* reset and the reconciliation of all vectors.                            *)
(*                                                                         *)
(* A build is a job of OneShotJob, which the Durable Tasks implement: when *)
(* its lease expires the job is over, and its handler may not know yet.    *)
(* Entities and triples are both records.  A file has one chunk.           *)
(***************************************************************************)
EXTENDS OneShotJob

CONSTANTS
  Mode,       \* what a job does first: "build", or "failed" or "all_vectors"
  Files,      \* files of the knowledge base, each with one chunk
  Records,    \* entities and triples
  RecordsOf,  \* what extraction finds in the chunk of a file
  NoJob,
  Workers,    \* extraction workers of a build
  QueueSize,  \* bound of their queue, which is twice their number in the code
  MaxRemovals \* bound: how often chunks are deleted or the graph is reset

ASSUME GraphAssumption ==
  /\ Mode \in [Jobs -> {"build", "failed", "all_vectors"}]
  /\ RecordsOf \in [Files -> SUBSET Records]
  /\ NoJob \notin Jobs
  /\ Leftover = {}
  /\ Workers \in Nat \ {0} /\ QueueSize \in Nat /\ QueueSize >= Workers
  /\ MaxRemovals \in Nat

VectorMaxAttempts == 3

VARIABLES
  chunks,      \* files whose chunk is in knowledge_chunks
  extracted,   \* chunks with an extraction_result
  unextracted, \* chunks whose graph_extraction_details say failed
  structured,  \* graph_structure_indexed
  indexed,     \* graph_indexed
  mentions,    \* which record is mentioned in the chunk of which file
  nodes,       \* chunks in Neo4j
  vstatus,     \* vector_status of a record, "overdue" when its lock is too old
  holder,      \* vector_lock_token: the build whose batch it is
  tries,       \* vector_attempt_count, up to the number that matters
  vectors,     \* records in the Milvus collections
  stage,       \* where a build is
  at,          \* where the build is with each chunk, "lost" when the worker
               \* that took it died of it
  batch,       \* what its vector worker is doing, "broken" when it died
  writeFailed, \* builds that counted a write_failed
  purge,       \* what the deletion of a file's chunks is about to do
  orphans,     \* the orphaned records that it found
  resetAt,     \* what a reset is about to do
  removals,
  unsettled    \* history: files whose graph was taken away during a build, or
               \* in part

rowVars    == <<chunks, extracted, unextracted, structured, indexed>>
graphVars  == <<mentions, nodes, vstatus, holder, tries, vectors>>
buildVars  == <<stage, at, batch, writeFailed>>
removeVars == <<purge, orphans, resetAt, removals>>
graphAllVars == <<jobVars, rowVars, graphVars, buildVars, removeVars, unsettled>>

Building == {"mending", "dropping", "listing", "draining"}
NoBatch  == [phase |-> "idle", recs |-> {}]

GraphTypeOK ==
  /\ \A s \in {chunks, extracted, unextracted, structured, indexed, nodes, unsettled} :
       s \subseteq Files
  /\ mentions \subseteq Files \X Records
  /\ vstatus \in [Records -> {"absent", "pending", "processing", "overdue", "indexed", "failed"}]
  /\ holder \in [Records -> Jobs \cup {NoJob}]
  /\ tries \in [Records -> 0..VectorMaxAttempts]
  /\ vectors \subseteq Records
  /\ stage \in [Jobs -> Building \cup {"none", "over", "stopped"}]
  /\ at \in [Jobs -> [Files -> {"none", "queued", "lost", "extracting", "toWrite",
                                "reextracting", "read", "noded", "rowed", "done"}]]
  /\ batch \in [Jobs -> [phase : {"idle", "claimed", "stored", "flush", "counted", "last", "broken"},
                         recs : SUBSET Records]]
  /\ writeFailed \subseteq Jobs
  /\ purge \in [Files -> {"none", "half", "refs", "commit", "vectors", "nodes", "chunks"}]
  /\ orphans \in [Files -> SUBSET Records]
  /\ resetAt \in {"none", "half", "nodes", "vectors", "rows", "flags"}
  /\ removals \in 0..MaxRemovals

GraphInit ==
  /\ JobInit
  /\ chunks \in SUBSET Files
  /\ extracted = {} /\ unextracted = {} /\ structured = {} /\ indexed = {}
  /\ mentions = {} /\ nodes = {} /\ vectors = {}
  /\ vstatus = [r \in Records |-> "absent"]
  /\ holder = [r \in Records |-> NoJob]
  /\ tries = [r \in Records |-> 0]
  /\ stage = [j \in Jobs |-> "none"]
  /\ at = [j \in Jobs |-> [f \in Files |-> "none"]]
  /\ batch = [j \in Jobs |-> NoBatch]
  /\ writeFailed = {}
  /\ purge = [f \in Files |-> "none"]
  /\ orphans = [f \in Files |-> {}]
  /\ resetAt = "none"
  /\ removals = 0
  /\ unsettled = {}

-----------------------------------------------------------------------------
(* The job                                                                 *)

ActiveJob == \E j \in Jobs : state[j] \in {"pending", "running"}

(* What raise_if_cancelled asks before each step that it guards.           *)
Owns(j) == state[j] = "running"

InFlight(j) == stage[j] \in Building

(* Files that have a record in common with f.                              *)
Sharing(f) == {g \in Files : g = f \/ RecordsOf[g] \cap RecordsOf[f] # {}}

(* Files of which something is taken away, or was in part, while somebody  *)
(* else builds.                                                            *)
Disturbed ==
  LET dropped(j) == \E i \in Jobs \ {j} : stage[i] = "dropping"
      removed == UNION {Sharing(f) : f \in {g \in Files : purge[g] # "none"}}
  IN
  UNION {IF dropped(j) \/ resetAt # "none" THEN Files ELSE removed : j \in {i \in Jobs : InFlight(i)}}

Account == unsettled' = unsettled \cup Disturbed'

(* enqueue_unique_by_payload.                                              *)
EnqueueBuild(j) ==
  /\ ~ActiveJob
  /\ Submit(j)
  /\ UNCHANGED <<rowVars, graphVars, buildVars, removeVars>>
  /\ Account

StartBuild(j) ==
  /\ Start(j)
  /\ stage' = [stage EXCEPT ![j] = IF Mode[j] = "build" THEN "listing" ELSE "mending"]
  /\ UNCHANGED <<rowVars, graphVars, at, batch, writeFailed, removeVars>>
  /\ Account

(* The job ends behind its handler's back: it waited too long, its lease   *)
(* expired or it was cancelled.                                            *)
LoseJob(j) ==
  /\ End(j, "failed")
  /\ UNCHANGED <<rowVars, graphVars, buildVars, removeVars>>
  /\ Account

-----------------------------------------------------------------------------
(* reconcile_vectors                                                       *)

(* reconcile_vector_records: one transaction.                              *)
ReconcileRecords(j) ==
  LET mended == {r \in Records :
                   vstatus[r] \in (IF Mode[j] = "failed" THEN {"failed", "overdue"}
                                   ELSE {"pending", "processing", "overdue", "indexed", "failed"})}
  IN
  /\ stage[j] = "mending"
  /\ vstatus' = [r \in Records |-> IF r \in mended THEN "pending" ELSE vstatus[r]]
  /\ holder' = [r \in Records |-> IF r \in mended THEN NoJob ELSE holder[r]]
  /\ tries' = [r \in Records |-> IF r \in mended THEN 0 ELSE tries[r]]
  /\ indexed' = IF Mode[j] = "all_vectors" THEN {} ELSE indexed
  /\ stage' = [stage EXCEPT ![j] = IF Mode[j] = "failed" THEN "listing" ELSE "dropping"]
  /\ UNCHANGED <<jobVars, chunks, extracted, unextracted, structured, mentions, nodes, vectors,
                 at, batch, writeFailed, removeVars>>
  /\ Account

(* drop_graph_collections.                                                 *)
DropVectors(j) ==
  /\ stage[j] = "dropping"
  /\ vectors' = {}
  /\ stage' = [stage EXCEPT ![j] = "listing"]
  /\ UNCHANGED <<jobVars, rowVars, mentions, nodes, vstatus, holder, tries,
                 at, batch, writeFailed, removeVars>>
  /\ Account

-----------------------------------------------------------------------------
(* build_pending_chunks: the chunks                                        *)

SetAt(j, f, p) == at' = [at EXCEPT ![j][f] = p]

Step(j, f, from, to) ==
  /\ InFlight(j)
  /\ at[j][f] = from
  /\ SetAt(j, f, to)

(* The extraction queue, and the workers that are idle: neither busy with  *)
(* a chunk nor dead.                                                       *)
Queued(j) == {f \in Files : at[j][f] = "queued"}
Lost(j)   == {f \in Files : at[j][f] = "lost"}

WorkerIsIdle(j) ==
  Cardinality(Lost(j)) + Cardinality({f \in Files : at[j][f] = "extracting"}) < Workers

(* The pages of list_graph_pending_by_kb_id, one chunk at a time.  A chunk *)
(* without a result waits in put_queue_item while the queue is full.       *)
ListChunk(j, f) ==
  /\ stage[j] = "listing"
  /\ f \in chunks \ indexed
  /\ at[j][f] = "none"
  /\ \/ f \in structured /\ SetAt(j, f, "done")
     \/ f \in extracted \ structured /\ SetAt(j, f, "toWrite")
     \/ /\ f \notin structured \cup extracted
        /\ Cardinality(Queued(j)) < QueueSize
        /\ SetAt(j, f, "queued")
  /\ UNCHANGED <<jobVars, rowVars, graphVars, stage, batch, writeFailed, removeVars>>
  /\ Account

(* One None for each worker goes into the queue as well; one that is busy  *)
(* takes it after its chunk, and that of a dead one stays.                 *)
NonesFit(j) == Cardinality(Queued(j)) + Workers <= QueueSize

ListingEnds(j) ==
  /\ stage[j] = "listing"
  /\ NonesFit(j)
  /\ \A f \in chunks \ indexed : at[j][f] # "none"
  /\ stage' = [stage EXCEPT ![j] = "draining"]
  /\ UNCHANGED <<jobVars, rowVars, graphVars, at, batch, writeFailed, removeVars>>
  /\ Account

(* mark_graph_extraction_pending, for a chunk that failed before.          *)
BeginExtraction(j, f) ==
  /\ Owns(j)
  /\ WorkerIsIdle(j)
  /\ Step(j, f, "queued", "extracting")
  /\ unextracted' = unextracted \ {f}
  /\ UNCHANGED <<jobVars, chunks, extracted, structured, indexed, graphVars,
                 stage, batch, writeFailed, removeVars>>
  /\ Account

(* The check before it fails, as the database may: that is not caught, the *)
(* worker dies, and nobody hears of it before its end is awaited.          *)
WorkerDies(j, f) ==
  /\ WorkerIsIdle(j)
  /\ Step(j, f, "queued", "lost")
  /\ UNCHANGED <<jobVars, rowVars, graphVars, stage, batch, writeFailed, removeVars>>
  /\ Account

(* update_extraction_result, or mark_graph_extraction_failed after the     *)
(* last attempt, which the database may refuse: by chunk_id, whatever      *)
(* chunk has that id now.                                                  *)
RecordExtraction(f, ok) ==
  IF ok THEN /\ extracted' = extracted \cup ({f} \cap chunks)
             /\ unextracted' = unextracted \ {f}
  ELSE /\ unextracted' \in {unextracted, unextracted \cup ({f} \cap chunks)}
       /\ UNCHANGED extracted

(* What was extracted may still fail to get into the writer's queue.       *)
EndExtraction(j, f, ok) ==
  /\ \/ ok /\ Step(j, f, "extracting", "toWrite")
     \/ Step(j, f, "extracting", "done")
  /\ RecordExtraction(f, ok)
  /\ UNCHANGED <<jobVars, chunks, structured, indexed, graphVars,
                 stage, batch, writeFailed, removeVars>>
  /\ Account

WriterIsFree(j) == \A f \in Files : at[j][f] \notin {"reextracting", "read", "noded", "rowed"}

WriteFails(j, f) ==
  /\ SetAt(j, f, "done")
  /\ writeFailed' = writeFailed \cup {j}

(* The writer takes a chunk from its queue and reads its row again.        *)
ReadChunk(j, f) ==
  /\ InFlight(j)
  /\ Owns(j)
  /\ WriterIsFree(j)
  /\ at[j][f] = "toWrite"
  /\ IF f \notin chunks THEN WriteFails(j, f)
     ELSE /\ SetAt(j, f, IF f \in extracted THEN "read" ELSE "reextracting")
          /\ UNCHANGED writeFailed
  /\ UNCHANGED <<jobVars, rowVars, graphVars, stage, batch, removeVars>>
  /\ Account

(* The chunk was stored again in the meantime and has no result any more.  *)
ExtractAgain(j, f, ok) ==
  /\ InFlight(j)
  /\ at[j][f] = "reextracting"
  /\ RecordExtraction(f, ok)
  /\ IF ok THEN SetAt(j, f, "read") /\ UNCHANGED writeFailed ELSE WriteFails(j, f)
  /\ UNCHANGED <<jobVars, chunks, structured, indexed, graphVars, stage, batch, removeVars>>
  /\ Account

(* write_chunk_graph: one transaction in Neo4j.                            *)
WriteNode(j, f) ==
  /\ Step(j, f, "read", "noded")
  /\ nodes' = nodes \cup {f}
  /\ UNCHANGED <<jobVars, rowVars, mentions, vstatus, holder, tries, vectors,
                 stage, batch, writeFailed, removeVars>>
  /\ Account

(* upsert_chunk_graph: a record that is there keeps its vector_status, and *)
(* the foreign keys of its mentions need the chunk.                        *)
UpsertRecords(j, f) ==
  /\ InFlight(j)
  /\ at[j][f] = "noded"
  /\ IF f \in chunks
     THEN /\ SetAt(j, f, "rowed")
          /\ mentions' = mentions \cup ({f} \X RecordsOf[f])
          /\ vstatus' = [r \in Records |->
               IF r \in RecordsOf[f] /\ vstatus[r] = "absent" THEN "pending" ELSE vstatus[r]]
          /\ UNCHANGED writeFailed
     ELSE WriteFails(j, f) /\ UNCHANGED <<mentions, vstatus>>
  /\ UNCHANGED <<jobVars, rowVars, nodes, holder, tries, vectors, stage, batch, removeVars>>
  /\ Account

(* mark_graph_structure_indexed: by chunk_id again.                        *)
MarkStructured(j, f) ==
  /\ Step(j, f, "rowed", "done")
  /\ structured' = structured \cup ({f} \cap chunks)
  /\ UNCHANGED <<jobVars, chunks, extracted, unextracted, indexed, graphVars,
                 stage, batch, writeFailed, removeVars>>
  /\ Account

(* Neo4j or PostgreSQL fails while the writer is at a chunk or takes it.   *)
WriterFails(j, f) ==
  /\ InFlight(j)
  /\ \/ at[j][f] \in {"read", "noded", "rowed"}
     \/ at[j][f] = "toWrite" /\ WriterIsFree(j)
  /\ WriteFails(j, f)
  /\ UNCHANGED <<jobVars, rowVars, graphVars, stage, batch, removeVars>>
  /\ Account

-----------------------------------------------------------------------------
(* build_pending_chunks: the vectors                                       *)

(* Mutant: a record that somebody claimed and left is not claimed again.   *)
Claimable_Pending == {r \in Records : vstatus[r] = "pending"}

Claimable == {r \in Records : vstatus[r] \in {"pending", "overdue"}}

SetBatch(j, p, rs) == batch' = [batch EXCEPT ![j] = [phase |-> p, recs |-> rs]]

(* claim_vector_records, with a token of its own.                          *)
ClaimVectors(j) ==
  /\ InFlight(j)
  /\ stage[j] \in {"listing", "draining"}
  /\ Owns(j)
  /\ batch[j].phase = "idle"
  /\ Claimable # {}
  /\ SetBatch(j, "claimed", Claimable)
  /\ vstatus' = [r \in Records |-> IF r \in Claimable THEN "processing" ELSE vstatus[r]]
  /\ holder' = [r \in Records |-> IF r \in Claimable THEN j ELSE holder[r]]
  /\ tries' = [r \in Records |->
       IF r \in Claimable /\ tries[r] < VectorMaxAttempts THEN tries[r] + 1 ELSE tries[r]]
  /\ UNCHANGED <<jobVars, rowVars, mentions, nodes, vectors, stage, at, writeFailed, removeVars>>
  /\ Account

(* upsert_graph_records.                                                   *)
StoreVectors(j) ==
  /\ InFlight(j)
  /\ batch[j].phase = "claimed"
  /\ vectors' = vectors \cup batch[j].recs
  /\ SetBatch(j, "stored", batch[j].recs)
  /\ UNCHANGED <<jobVars, rowVars, mentions, nodes, vstatus, holder, tries,
                 stage, at, writeFailed, removeVars>>
  /\ Account

(* The records of the batch that still have its token.                     *)
Held(j) == {r \in batch[j].recs : holder[r] = j}

Release(rs, status) ==
  /\ vstatus' = [r \in Records |-> IF r \in rs THEN status[r] ELSE vstatus[r]]
  /\ holder' = [r \in Records |-> IF r \in rs THEN NoJob ELSE holder[r]]
  /\ UNCHANGED tries

(* mark_vector_records_indexed.                                            *)
MarkVectorsIndexed(j) ==
  /\ InFlight(j)
  /\ batch[j].phase = "stored"
  /\ Release(Held(j), [r \in Records |-> "indexed"])
  /\ SetBatch(j, "flush", {})
  /\ UNCHANGED <<jobVars, rowVars, mentions, nodes, vectors, stage, at, writeFailed, removeVars>>
  /\ Account

AfterFailure(r) == IF tries[r] >= VectorMaxAttempts THEN "failed" ELSE "pending"

(* mark_vector_records_failed.                                             *)
ReleaseFailed(j) == Release(Held(j), [r \in Records |-> AfterFailure(r)])

VectorsFail(j) ==
  /\ InFlight(j)
  /\ batch[j].phase \in {"claimed", "stored"}
  /\ ReleaseFailed(j)
  /\ SetBatch(j, "flush", {})
  /\ UNCHANGED <<jobVars, rowVars, mentions, nodes, vectors, stage, at, writeFailed, removeVars>>
  /\ Account

Searchable(f) == \A r \in Records : <<f, r>> \in mentions => vstatus[r] = "indexed"

(* finalize_graph_indexed_chunks after a batch, and once more at the end.  *)
Finalize(j) ==
  /\ InFlight(j)
  /\ batch[j].phase \in {"flush", "last"}
  /\ indexed' = indexed \cup {f \in structured \cap chunks : Searchable(f)}
  /\ SetBatch(j, "idle", {})
  /\ stage' = [stage EXCEPT ![j] = IF batch[j].phase = "last" THEN "over" ELSE @]
  /\ UNCHANGED <<jobVars, chunks, extracted, unextracted, structured, graphVars,
                 at, writeFailed, removeVars>>
  /\ Account

(* Nothing to claim, and count_vector_statuses_by_kb_id has nothing open.  *)
CountVectors(j) ==
  /\ stage[j] \in {"listing", "draining"}
  /\ Owns(j)
  /\ batch[j].phase = "idle"
  /\ \A r \in Records : vstatus[r] \in {"absent", "indexed", "failed"}
  /\ SetBatch(j, "counted", {})
  /\ UNCHANGED <<jobVars, rowVars, graphVars, stage, at, writeFailed, removeVars>>
  /\ Account

StructureDone(j) == stage[j] = "draining" /\ \A f \in Files : at[j][f] \in {"none", "done"}

(* Its own check, a claim, a count or the finalisation fails, or it cannot *)
(* even give its records back: the vector worker dies.                     *)
VectorWorkerDies(j) ==
  /\ stage[j] \in {"listing", "draining"}
  /\ batch[j].phase # "broken"
  /\ SetBatch(j, "broken", {})
  /\ UNCHANGED <<jobVars, rowVars, graphVars, stage, at, writeFailed, removeVars>>
  /\ Account

(* structure_done is looked at after the count, which may be old by then.  *)
VectorsEnd(j) ==
  /\ InFlight(j)
  /\ batch[j].phase = "counted"
  /\ SetBatch(j, IF StructureDone(j) THEN "last" ELSE "idle", {})
  /\ UNCHANGED <<jobVars, rowVars, graphVars, stage, at, writeFailed, removeVars>>
  /\ Account

-----------------------------------------------------------------------------
(* The end of a build                                                      *)

(* The three counts of the end.                                            *)
Complete(j) ==
  /\ Cardinality(chunks \ indexed) <= Cardinality(chunks \cap unextracted)
  /\ j \notin writeFailed
  /\ \A r \in Records : vstatus[r] # "failed"

HandlerIsGone(j) ==
  /\ stage' = [stage EXCEPT ![j] = "stopped"]
  /\ at' = [at EXCEPT ![j] = [f \in Files |-> "none"]]
  /\ batch' = [batch EXCEPT ![j] = NoBatch]
  /\ writeFailed' = writeFailed \ {j}

BuildReturns(j) ==
  /\ stage[j] = "over"
  /\ IF Owns(j) THEN End(j, IF Complete(j) THEN "success" ELSE "failed") ELSE UNCHANGED jobVars
  /\ HandlerIsGone(j)
  /\ UNCHANGED <<rowVars, graphVars, removeVars>>
  /\ Account

(* The build is interrupted: its heartbeat or a check finds the job lost,  *)
(* something raises, or the process dies.  Only a process that lives can   *)
(* give its batch back.                                                    *)
StopBuild(j) ==
  /\ InFlight(j)
  /\ ReleaseFailed(j) \/ UNCHANGED <<vstatus, holder, tries>>
  /\ HandlerIsGone(j)
  /\ UNCHANGED <<jobVars, rowVars, mentions, nodes, vectors, removeVars>>
  /\ Account

NoticeLoss(j) == ~Owns(j) /\ StopBuild(j)

(* The build awaits its extraction workers when all is listed, and its     *)
(* vector worker when all is written: the exception of a dead one is       *)
(* raised there.                                                           *)
DeathIsRaised(j) ==
  /\ stage[j] = "draining"
  /\ Lost(j) # {} \/ (StructureDone(j) /\ batch[j].phase = "broken")
  /\ StopBuild(j)

(* Nobody takes anything from the extraction queue any more, and what has  *)
(* still to be put there does not fit.                                     *)
Jammed(j) ==
  /\ stage[j] = "listing"
  /\ Cardinality(Lost(j)) = Workers
  /\ ~NonesFit(j)

(* process_task cancels a handler that is not done in timeout_seconds.     *)
TimesOut(j) == Jammed(j) /\ StopBuild(j)

(* vector_locked_until is over.                                            *)
LockExpires(r) ==
  /\ vstatus[r] = "processing"
  /\ vstatus' = [vstatus EXCEPT ![r] = "overdue"]
  /\ UNCHANGED <<jobVars, rowVars, mentions, nodes, holder, tries, vectors,
                 buildVars, removeVars>>
  /\ Account

-----------------------------------------------------------------------------
(* delete_file_chunks_only, which asks no build                            *)

SetPurge(f, p) == purge' = [purge EXCEPT ![f] = p]

(* Only the graph of a chunk that is indexed is cleaned up.                *)
PurgeBegins(f) ==
  /\ removals < MaxRemovals
  /\ removals' = removals + 1
  /\ purge[f] \in {"none", "half"}
  /\ f \in chunks
  /\ SetPurge(f, IF f \in indexed THEN "refs" ELSE "chunks")
  /\ UNCHANGED <<jobVars, rowVars, graphVars, buildVars, orphans, resetAt>>
  /\ Account

(* Mutant: a record is an orphan whoever else mentions it.                 *)
Orphaned_Shared(f) == {r \in Records : <<f, r>> \in mentions}

Orphaned(f) ==
  {r \in Records : <<f, r>> \in mentions /\ \A g \in Files \ {f} : <<g, r>> \notin mentions}

(* delete_file_references looks for the records nobody else mentions ...   *)
PurgeFindsOrphans(f) ==
  /\ purge[f] = "refs"
  /\ orphans' = [orphans EXCEPT ![f] = Orphaned(f)]
  /\ SetPurge(f, "commit")
  /\ UNCHANGED <<jobVars, rowVars, graphVars, buildVars, resetAt, removals>>
  /\ Account

(* ... and commits their deletion, which takes new mentions along.         *)
PurgeReferences(f) ==
  /\ purge[f] = "commit"
  /\ mentions' = {m \in mentions : m[1] # f /\ m[2] \notin orphans[f]}
  /\ vstatus' = [r \in Records |-> IF r \in orphans[f] THEN "absent" ELSE vstatus[r]]
  /\ holder' = [r \in Records |-> IF r \in orphans[f] THEN NoJob ELSE holder[r]]
  /\ tries' = [r \in Records |-> IF r \in orphans[f] THEN 0 ELSE tries[r]]
  /\ SetPurge(f, "vectors")
  /\ UNCHANGED <<jobVars, rowVars, nodes, vectors, buildVars, orphans, resetAt, removals>>
  /\ Account

(* delete_graph_records, for the orphans found before.                     *)
PurgeVectors(f) ==
  /\ purge[f] = "vectors"
  /\ vectors' = vectors \ orphans[f]
  /\ orphans' = [orphans EXCEPT ![f] = {}]
  /\ SetPurge(f, "nodes")
  /\ UNCHANGED <<jobVars, rowVars, mentions, nodes, vstatus, holder, tries, buildVars,
                 resetAt, removals>>
  /\ Account

PurgeNodes(f) ==
  /\ purge[f] = "nodes"
  /\ nodes' = nodes \ {f}
  /\ SetPurge(f, "chunks")
  /\ UNCHANGED <<jobVars, rowVars, mentions, vstatus, holder, tries, vectors, buildVars,
                 orphans, resetAt, removals>>
  /\ Account

(* delete_by_file_id, and the mentions with their foreign key.             *)
PurgeChunks(f) ==
  /\ purge[f] = "chunks"
  /\ chunks' = chunks \ {f}
  /\ extracted' = extracted \ {f} /\ unextracted' = unextracted \ {f}
  /\ structured' = structured \ {f} /\ indexed' = indexed \ {f}
  /\ mentions' = {m \in mentions : m[1] # f}
  /\ SetPurge(f, "none")
  /\ UNCHANGED <<jobVars, nodes, vstatus, holder, tries, vectors, buildVars,
                 orphans, resetAt, removals>>
  /\ Account

(* Milvus or Neo4j fails, or the process dies: the file keeps its chunk.   *)
PurgeFails(f) ==
  /\ purge[f] \notin {"none", "half"}
  /\ SetPurge(f, "half")
  /\ orphans' = [orphans EXCEPT ![f] = {}]
  /\ UNCHANGED <<jobVars, rowVars, graphVars, buildVars, resetAt, removals>>
  /\ Account

(* The file is indexed again: a chunk with the same id and a new row.      *)
StoreChunk(f) ==
  /\ f \notin chunks
  /\ chunks' = chunks \cup {f}
  /\ at' = [j \in Jobs |-> [at[j] EXCEPT ![f] = IF @ = "done" THEN "none" ELSE @]]
  /\ UNCHANGED <<jobVars, extracted, unextracted, structured, indexed, graphVars,
                 stage, batch, writeFailed, removeVars>>
  /\ Account

-----------------------------------------------------------------------------
(* reset, which looks for a build only before it begins                    *)

ResetStep(from, to) ==
  /\ resetAt \in from
  /\ resetAt' = to
  /\ UNCHANGED <<jobVars, buildVars, purge, orphans>>

ResetBegins ==
  /\ ~ActiveJob
  /\ removals < MaxRemovals
  /\ removals' = removals + 1
  /\ ResetStep({"none", "half"}, "nodes")
  /\ UNCHANGED <<rowVars, graphVars>>
  /\ Account

ResetNodes ==
  /\ ResetStep({"nodes"}, "vectors")
  /\ nodes' = {}
  /\ UNCHANGED <<rowVars, mentions, vstatus, holder, tries, vectors, removals>>
  /\ Account

ResetVectors ==
  /\ ResetStep({"vectors"}, "rows")
  /\ vectors' = {}
  /\ UNCHANGED <<rowVars, mentions, nodes, vstatus, holder, tries, removals>>
  /\ Account

(* delete_by_kb_id.                                                        *)
ResetRecords ==
  /\ ResetStep({"rows"}, "flags")
  /\ mentions' = {}
  /\ vstatus' = [r \in Records |-> "absent"]
  /\ holder' = [r \in Records |-> NoJob]
  /\ tries' = [r \in Records |-> 0]
  /\ UNCHANGED <<rowVars, nodes, vectors, removals>>
  /\ Account

(* reset_graph_state_by_kb_id, with the extraction results or without.     *)
ResetFlags ==
  /\ ResetStep({"flags"}, "none")
  /\ structured' = {} /\ indexed' = {}
  /\ \/ extracted' = {} /\ unextracted' = {}
     \/ UNCHANGED <<extracted, unextracted>>
  /\ UNCHANGED <<chunks, graphVars, removals>>
  /\ Account

ResetFails ==
  /\ resetAt \notin {"none", "half"}
  /\ resetAt' = "half"
  /\ UNCHANGED <<jobVars, rowVars, graphVars, buildVars, purge, orphans, removals>>
  /\ Account

-----------------------------------------------------------------------------
(* The two lines of work of a build, which are coroutines of their own:    *)
(* the chunks, with the build's beginning and end, and the vectors.        *)
Chunks(j) ==
  \/ ReconcileRecords(j)
  \/ DropVectors(j)
  \/ ListingEnds(j)
  \/ \E f \in Files :
       \/ ListChunk(j, f)
       \/ BeginExtraction(j, f)
       \/ \E ok \in BOOLEAN : EndExtraction(j, f, ok) \/ ExtractAgain(j, f, ok)
       \/ ReadChunk(j, f)
       \/ WriteNode(j, f)
       \/ UpsertRecords(j, f)
       \/ MarkStructured(j, f)
       \/ WriterFails(j, f)
  \/ BuildReturns(j)

Vectors(j) ==
  \/ ClaimVectors(j)
  \/ StoreVectors(j)
  \/ MarkVectorsIndexed(j)
  \/ VectorsFail(j)
  \/ Finalize(j)
  \/ CountVectors(j)
  \/ VectorsEnd(j)

Deaths(j) == VectorWorkerDies(j) \/ \E f \in Files : WorkerDies(j, f)

Purge(f) ==
  \/ PurgeBegins(f)
  \/ PurgeFindsOrphans(f)
  \/ PurgeReferences(f)
  \/ PurgeVectors(f)
  \/ PurgeNodes(f)
  \/ PurgeChunks(f)
  \/ PurgeFails(f)
  \/ StoreChunk(f)

Reset ==
  \/ ResetBegins
  \/ ResetNodes
  \/ ResetVectors
  \/ ResetRecords
  \/ ResetFlags
  \/ ResetFails

GraphNext ==
  \/ \E j \in Jobs :
       \/ EnqueueBuild(j)
       \/ StartBuild(j)
       \/ LoseJob(j)
       \/ Chunks(j)
       \/ Vectors(j)
       \/ Deaths(j)
       \/ StopBuild(j)
  \/ \E r \in Records : LockExpires(r)
  \/ \E f \in Files : Purge(f)
  \/ Reset

GraphSpec == GraphInit /\ [][GraphNext]_graphAllVars

(* Both lines of work of a build go on, a build whose job is lost learns   *)
(* of it from its heartbeat, one that awaits a dead worker raises its      *)
(* exception, and the locks on vector records expire.  The timeout of the  *)
(* task is there for a build that is jammed and for no other.              *)
GraphFairness ==
  /\ \A j \in Jobs :
       /\ WF_graphAllVars(Chunks(j) \/ NoticeLoss(j) \/ DeathIsRaised(j))
       /\ WF_graphAllVars(Vectors(j))
       /\ WF_graphAllVars(TimesOut(j))
  /\ \A r \in Records : WF_graphAllVars(LockExpires(r))

GraphFairSpec == GraphSpec /\ GraphFairness

-----------------------------------------------------------------------------
(* Properties                                                              *)

(* A chunk that counts as indexed in the graph has its node, its mentions  *)
(* and for each of them a vector: whatever builds crash, lose their job    *)
(* and go on beside the next one, and whatever other files are deleted.    *)
(* Exceptions are the files that a deletion, a reset or a reconciliation   *)
(* touched while a build was going on, or left half way.                   *)
IndexedIsSearchable ==
  \A f \in indexed \ unsettled : purge[f] = "none" /\ resetAt = "none" =>
    /\ f \in nodes
    /\ \A r \in RecordsOf[f] :
         <<f, r>> \in mentions /\ vstatus[r] = "indexed" /\ r \in vectors

(* A build comes to its end, however often writing and storing fail,       *)
(* whoever left records locked and whichever of its workers die: by        *)
(* itself, or, when all extraction workers are dead before their queue is  *)
(* empty enough, by the timeout of its task.                               *)
BuildEnds == \A j \in Jobs : stage[j] \in Building ~> stage[j] \notin Building
=============================================================================
