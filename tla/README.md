# Formal models of Yuxi's background execution

TLA+ modules for the parts of Yuxi where concurrency, crashes and lost messages
decide whether the program is right: the execution of AgentRuns and their event
stream, the request queue of a Conversation, scheduled agents, Durable Tasks and
what is built on them (evaluation datasets, knowledge files and their graph),
and the sandbox provisioner. TLC model-checks small instances; TLAPS proves the safety of the
central modules for every instance. Paths below are relative to
`backend/package/yuxi` unless they start with `docs/`, `docker/` or `web/`.

## 1. The system

API processes commit facts to PostgreSQL and then tell ARQ (Redis) to deliver a
job; worker processes take jobs and own a row by a lease that a heartbeat
renews. Messages may be lost or delivered twice; workers crash, are stopped, or
are paused beyond their lease. PostgreSQL row locks make a transaction one step;
everything between two transactions is open to interleaving. Redis carries
events to the web page and is never authoritative. The Agents work in containers
that a separate provisioner process creates and removes.

| Component | State | Operations | Talks to | Correct when |
| --- | --- | --- | --- | --- |
| AgentRun and worker (`repositories/agent_run_repository.py`, `services/run_worker.py`) | `agent_runs`, `agent_run_attempts`; per invocation: phase, `execution_started` | claim, renew, retry release, manifest, execute, save output, end, cancel tree, clean up runtime, reconcile | queue (relay on completion), ARQ, sandbox, events | one owner, one execution, honest and final ends, no orphan subagents, runtime destroyed only when idle, everything ends |
| Run creation, resume, cancel (`services/agent_run_service.py`, `services/subagent_run_service.py`) | the same rows | create chat/resume/subagent run, request cancellation | runs, Conversation lock | one active top-level run per thread |
| Request queue (`services/agent_request_queue_service.py`, `services/agent_request_service.py`, `repositories/agent_run_request_repository.py`) | `agent_run_requests` | submit, steer, cancel, continue, relay, recovery scan | runs (latest run, scope) | order of dispatch, one pending steer, no waiting reject, pause after failure, progress |
| Scheduled agents (`services/scheduled_agent_service.py`, `repositories/scheduled_agent_repository.py`) | jobs, occurrences | claim due, run now, dispatch, settle, recover | request queue | each occurrence is executed once or recorded as not executed, no overlap, none forgotten |
| Durable Tasks (`repositories/task_repository.py`, `services/task_service.py`, `services/task_queue_service.py`, `services/task_registry.py`) | `tasks` | enqueue, publish, claim, heartbeat, cancel, finish, release, reconcile, delete | ARQ, domain hooks | a job that is started at most once and ends once, dedupe key, capacity, fencing, every task ends |
| Dataset generation (`knowledge/eval/service.py`, `repositories/evaluation_repository.py`) | dataset metadata and items | generate, resume, checkpoint, hooks, reader's sync, delete | Durable Tasks | cursor, "completed" means full, settled with the task |
| RAG evaluation runs (same files) | evaluation run and items | run, checkpoint, hooks, sync | Durable Tasks | as for datasets |
| Knowledge files (`knowledge/base.py`, `knowledge/implementations/milvus.py`, `repositories/knowledge_file_repository.py`, `services/knowledge_task_service.py`) | file status, processing owner, chunks | add, parse, index, fail, delete | Durable Tasks, Milvus, MinIO | only the live owner records a result, no file processed by nobody, an indexed file has one indexing's chunks |
| Knowledge graphs (`knowledge/graphs/milvus_graph_service.py`, `repositories/knowledge_graph_repository.py`, `repositories/knowledge_chunk_repository.py`) | flags of chunks, entities, triples and mentions in PostgreSQL, nodes in Neo4j, vectors in Milvus | build, claim vector records, reconcile, reset, delete a file's graph | Durable Tasks, knowledge files, the model that extracts | what counts as indexed is there in all three stores, a build ends |
| Run events (`services/run_queue_service.py`, SSE generator in `services/agent_run_service.py`) and the page (`web/src/composables/useAgentRunStream.js`, `web/src/utils/runStreamResume.js`) | Redis stream, connection, cursor in the browser | append, buffer, close, read, check status, reconnect, resume, settle | worker, reconciler, PostgreSQL | an end is said of ended and cleaned-up runs only, nothing shown twice or skipped, the page learns of the end |
| Sandbox provisioner (`docker/sandbox_provisioner/app.py`) | containers, pins, locks, gate, activity | create, use, delete, reap, quiesce | Docker, provider in the worker | no removal under a request, limits, empty after quiescence, no call waits for ever |
| Sandbox client (`agents/backends/sandbox/`) | handles per process | ensure, file and shell operations | provisioner | scope and generation match |
| Agents, middlewares, tools, MCP, Skills (`agents/`, `services/skills/`) | LangGraph state | a run's execution | all of the above | behaviour of a graph, external here |
| Context compression, chunking, parsing | none | pure functions | agents, knowledge | text algorithms |
| Users, roles, auth, providers, config, workspaces, projects, attachments | their tables, files | CRUD | routers | authorisation and uniqueness |
| Storage and migrations (`storage/`, `storage_migrations/`) | schema | one-off migrations | start-up | - |
| Routers, rest of the web frontend, CLI | - | adapters and clients | services | - |

`PROJECT.json` lists every component with its status, and under `hazards` what
is hard to test in this code, each at its line with the property that would
catch it.

## 2. Modules and how they correspond to the code

| Module | Models | Extends |
| --- | --- | --- |
| `AgentRun` | the runs of one root Conversation | - |
| `RequestQueue` | the request queue of one Conversation | - |
| `ScheduledAgent` | the scheduled jobs of a user and their occurrences | - |
| `RunEventStream` | a run's events from the worker to the page | - |
| `SandboxProvisioner` | the threads of the provisioner | - |
| `OneShotJob` | what a Durable Task promises (abstract) | - |
| `DurableTask` | the `tasks` table, its workers, publisher and reconciler; implements `OneShotJob` | - |
| `DatasetGeneration` | datasets built by Durable Tasks | `DurableTask` |
| `KnowledgeFile` | files parsed and indexed by Durable Tasks | `DurableTask` |
| `KnowledgeGraph` | the graph of one knowledge base: builds, reconciliation, reset, deletion | `OneShotJob` |
| `*_proofs` | theorems and proofs about the module of that name | that module, `TLAPS` |
| `DerivedState_proofs` | theorems and proofs about `RunEventStream` and `KnowledgeGraph` | both, `TLAPS` |
| `MC_*` | small instances for TLC | the module of that name |

Operators whose name ends in an underscore and a word (`ScopeIdle_TopLevel`) are
plausible bugs: the definition before the underscore is replaced by them to see
that a property would notice. No specification uses them.

### AgentRun

Variables are the columns: `status`, `owner` (`worker_id`), `lease`
(`lease_expires_at` seen from now: fresh, aging, expired), `started`
(`started_at` set), `cleanup` (`runtime_cleanup_pending`), `output`
(`output_message_id` set), and per attempt `outcome`. A worker's token is a
fresh uuid per invocation, so it is represented by the number of the attempt it
made. `pc[r][k]` is the phase of the invocation of `process_agent_run` that made
attempt `k`; `executed` is its local `execution_started`; `job` says that ARQ has
a message for the run; `latest` is the run `get_latest_chat_or_resume_run`
returns.

Phases: `claimed` (cancellation and budget checks) - `preparing` (validation,
Workdir, manifest) - `manifest` (last look at the cancellation) - `exec` (the
stream) - `closing` (runtime cleanup before the end event) - `final` (the
`finally` block). `stopping`, `cancelling` and `giveup` are the exception
handlers: is it a user's cancellation, confirm it, or decide between retry and
failure. `Interrupt`, `LoseLease`, `Abandon` and `Crash` may strike in between.

Every guard of the repository that refuses a write is kept (`IsLiveOwner`,
`MaySetTerminal`, `Claimable`), and so is what the worker does when it is
refused. Ending a run cancels its active descendants in the same transaction
(`SetTerminal` with `CancelledStatus`); a redelivery and the `finally` block do
it again in a transaction of their own.

`RunsAssumption` says that a creator is older than the runs it creates; the kinds
follow `ck_agent_runs_shape`.

### RequestQueue

One Conversation. `req` holds the status and policy of each request, `run` what
the queue can see of the latest top-level run, `before` which queued requests
are older than its failure, `child` whether a subagent run still uses the scope.
The Conversation's row lock makes a call one step except where the code depends
on something it loaded earlier: `intake` is a submission that has read the
latest run and not yet dispatched, `asked` are cancel and steer calls that have
read their request before waiting for the lock. SQLAlchemy keeps the attributes
of a row that is already in the session's identity map, so what was read first
is what is judged (`expire_on_commit` is off and these selects do not use
`populate_existing`).

`run.by` says whether the relay, a submission or the user's continue created the
latest run. It is written by the dispatch and read by the properties only:
`PausedUntilContinued` asks it, because the relay's dispatch of an unlocked head
changes the rows like the user's.

The steps of the run (`StartRun`, `EndRun`, `LowerFence`, ...) are the steps of
`AgentRun` as the queue sees them. `SteerMiddleware`, which ends a run at a safe
point, is one way for `EndRun("completed")` to happen.

### ScheduledAgent

`job` is a row of `scheduled_agent_jobs` (`due` is `next_run_at <= now`), `occ` a
row of `scheduled_agent_runs`, `exec` the request that an occurrence was handed
over as and what became of its run. `at[w]` is where an invocation of
`dispatch_scheduled_run` is: it locks the occurrence (`LockOccurrence`), calls
`submit_agent_request`, which commits the session (`SubmitRequest`) and with it
gives the row lock away, and records `submitted` in a second transaction
(`RecordSubmitted`); any exception goes to `_settle_dispatch_error`
(`SettleDispatchError`). Claiming (`ClaimDueRun`), a manual run (`RunJobNow`),
its replay and the recovery all end in that dispatch. `orphan` is a history
variable, see the known divergences.

### DurableTask, OneShotJob, DatasetGeneration and KnowledgeFile

`DurableTask` follows a row of `tasks` through `claim` (capacity under an
advisory lock), the heartbeat, `finish_owned`, `release_interrupted_owner`,
`request_cancel`, the reconciler and deletion; `pc` is the phase of
`process_task`. `Legacy` are rows the migration keeps from a release without
handler versions: they have no owner, no lease and no key, and no worker may run
them.

`OneShotJob` has a job's state, whether a cancellation was asked for and how
often it was started. `ImplementsOneShotJob` maps a task to a job: the state is
the status, `asked` the cancellation flag, `starts` the number of attempts. It
subsumes the properties `ExecutedAtMostOnce`, `CancelledNeverSucceeds` and
`CapacityKept` of `DurableTask`, which are proved and have no run of their own.

`DatasetGeneration` conjoins its own variables to those steps: the hooks
`finish_/fail_dataset_generation_task` run in the transaction that ends the task
(`EndHook`), the handler's checkpoints need a live owner (`MayCheckpoint`), and
a reader's `_sync_dataset_build_metadata` is three steps because the code uses
three transactions. `ResumeFull` is one step where the code has three
transactions, and `FlushItems` joins the commit with the assignment of the
cursor in memory that follows it: nobody reads what lies in between.

`KnowledgeFile` does the same for files. `fstate` and `fowner` are the columns
`status` and `processing_task_id`/`processing_owner`, `chunks` the tasks whose
chunks are in `knowledge_chunks`, `work` what the handler of an attempt is at,
`todo` the rest of its payload. A status is written under
`update_fields_if_status` (`MayRecord`); chunks are deleted and stored with no
owner in the condition (`DropChunks`, `StoreChunks`); the batches of one storing
are one step, and a file has chunks. The failure hook is part of
the step that ends the task (`Hook`). `delete_file` is two steps.

### KnowledgeGraph

A build is a job of `OneShotJob`: of the task that runs it only its state
matters, and `DurableTask` implements that job. When the job ends behind the
handler's back (`LoseJob`) the handler goes on until it notices (`NoticeLoss`),
next to the build that was enqueued since. `stage` is where a build is, `at`
where it is with each chunk, `batch` what its vector worker does: extractors,
writer and vector worker are coroutines, so their steps interleave. The writer
goes through Neo4j (`WriteNode`), the rows (`UpsertRecords`) and the flag of the
chunk (`MarkStructured`); the vector worker through `claim_vector_records`
(`ClaimVectors`), Milvus (`StoreVectors`), `mark_vector_records_indexed` and
`finalize_graph_indexed_chunks` (`Finalize`). What `raise_if_cancelled` guards
asks `Owns`; the rest does not.

The extraction queue is bounded (`QueueSize`): the producer stands still while it
is full (`ListChunk`, `ListingEnds`). A worker dies when the check before an
extraction raises (`WorkerDies`), the vector worker when its own check, a claim or
a count does (`VectorWorkerDies`). Nobody hears of it before the build awaits
them (`DeathIsRaised`); if all extraction workers are dead while the queue is full
the build is `Jammed` until its task's timeout (`TimesOut`). The writer catches
everything, so its queue has no bound in the model.

`chunks`, `extracted`, `unextracted`, `structured` and `indexed` are columns of
`knowledge_chunks`; `vstatus`, `holder` and `tries` those of entities and
triples (`Records`), with `overdue` for a lock that is too old; `mentions`,
`nodes` and `vectors` the mention tables, Neo4j and Milvus. The two kinds of
records are claimed side by side by the same code and are not told apart. The
deletion of a file's chunks (`Purge...`), the reset and the reconciliation of all
vectors are steps of their own, each store by itself, and each may fail half way.

### SandboxProvisioner

One process and its threads. `gen` is the container of a sandbox (by a number
for its Docker id), `activity` the reaper's `_last_activity_at`, `deleting` the
set `_deleting`, `quiesce` the gate and the progress of `quiesce_sandboxes`.
Pins, the per-sandbox lock and the number of creations are held by threads, so
they are derived from `call` (`Pins`, `Locked`, `Creating`). `_deleting` is a
variable because the code keeps a set, not a count.

Creating, touching and deleting are synchronous handlers with a thread of the
AnyIO pool from beginning to end. A proxied request is a coroutine: it waits for
one of the `Workers` threads of asyncio's default executor to get its pin
(`queued`, `pin`), holds the pin without a thread (`pinned`) and waits for a
thread again to look the container up (`discover`). `Cancel` may strike at every
await: a job that has a thread goes on alone, and the pin of an acquire that is
cancelled is kept by nobody (`leaked`).
 A restart forgets all of
that: an initial state may have containers, stale ones too.

### RunEventStream

`log` is everything ever appended to the run's Redis stream and `first` the
oldest entry that has not expired; `worker` is the invocation with its
`ChunkedEventWriter` buffer; `closer` a reconciler or redelivery that has lowered
the fence and is about to publish the end. `conn` is the generator
`stream_agent_run_events` (load, read a batch, check the status every five
seconds, idle), `pipe` what is on the wire, `page` the composable: its view, its
cursor `seq`, what it has `shown`, and `from`, behind which that begins. Settling
is two steps: the page takes the run for ended at once (`Settle`), and clears what
was streamed when a delay and a fetch are over (`late`, `LateReset`); a stream that
was started meanwhile for the same run is aborted and the page is `stalled`. The
worker's buffer is the main thread's. The run's own columns are reduced to what the
stream and the page can tell apart.

## 3. Runs

| Run | Instance | States | Question | Result |
| --- | --- | --- | --- | --- |
| `run_tree` | chat run A alone with 2 tries, or with its subagent run or its resume run, 1 try each | 66 500 | ownership, no replay, honest completion, one run per thread, closed tree, final ends, cancellation, runtime under live attempts, and does every run end with its cleanup | holds |
| `run_resume` | A and its resume run | - | is a resume run cancelled by users only | **violated** |
| `tasks` | 2 tasks + 1 legacy task, 1 slot | 43 743 | fencing, refinement of `OneShotJob`, progress | holds |
| `dataset_safety` | 1 dataset of 2 items, 2 tasks of one key | 1 807 658 | key, cursor, completion, settling | holds |
| `files` | 1 file, an ingestion and an indexing task, 1 slot | 1 470 510 | who owns a file in processing, who records its result, its chunks | holds |
| `queue` | 3 requests of every policy | 131 221 | types, order, one steer, fresh runtime, pause, progress | holds |
| `queue_cancel` | 2 requests | - | does a dispatched request stay dispatched | **violated** |
| `scheduled` | 1 job, 2 occurrences, 2 invocations | 106 848 | failed means never executed, no overlap, settled stays, all settle | holds |
| `sandbox` | 1 sandbox, 2 containers one after the other, 2 requests, 1 executor thread, reaper, quiescence | 438 442 | deletion and requests, quiescence, the reaper's memory, does every call end but for leaked pins and a full executor | holds |
| `sandbox_capacity` | 2 sandboxes, limit 1 | - | are the limits kept | **violated** |
| `stream` | 1 run, 3 events (2 of a subagent run), batches of 2, 1 page | 429 488 | what an end means, output before it, exact page, no early end, the page settles | holds |
| `graph` | 2 files that mention one entity, a build and a reconciliation, 1 extraction worker, a queue of 1, 1 removal | 161 762 | is what counts as indexed searchable, does a build end | holds |

### What the violated runs show

- `run_resume`: run A is interrupted and its cleanup delayed, so ARQ will
  deliver it again; the user resumes it with R; the late delivery (or A's late
  `finally`) follows `created_by_run_id` and cancels R. The cascade has no filter
  on `run_type`.
- `queue_cancel`: a cancellation reads a queued request, waits for the
  Conversation's lock while the request is dispatched, and then judges the stale
  object: the request becomes cancelled and its run goes on.
- `sandbox_capacity`: `check_capacity` counts containers under the lock of one
  sandbox; two creations of different sandboxes hold different locks, both count
  the same containers and both start one more.

### Known divergences that no run repeats

They were met while modelling. Where a property would fail because of one, its
exception is named in the property and carried by a history variable.

- A reader of a dataset (`knowledge/eval/service.py:146`) writes back the state
  it read before the task ended; another reader repairs it.
- A submission that read a running run judges the stale object ready after the
  run was interrupted and dispatches a chat run over it
  (`services/agent_request_service.py:299`).
- A scheduled occurrence is recorded as cancelled although its request was
  submitted, when the job is switched off between the two transactions and
  another invocation finds the occurrence dispatching
  (`services/scheduled_agent_service.py:414-423`; `orphan`). `has_active_run`
  does not see an execution that was interrupted and resumed.
- A file stays in parsing or indexing with no task when writing its error fails
  as well (`unrecorded`); an indexing that lost its file goes on deleting and
  storing chunks (`spoiled`); deleting a file during its processing ends the rest
  of the batch, because the refused write raises `CancelledError`.
- Builds, deletions and resets of a graph do not ask about each other. A
  reconciliation of all vectors that has lost its job drops the collections
  after the next build has filled them (`milvus_graph_service.py:723`); a
  deletion removes a vector that a build has just stored again, or takes its new
  mentions along (`knowledge_graph_repository.py:290`); a reset looks for a build
  before it begins and not afterwards (`knowledge_router.py:558`). The files
  concerned are in `unsettled`. A file whose chunks are not indexed yet is
  deleted without its nodes, entities and vectors (`milvus.py:1212`), while
  `docs/develop-guides/changelog.md:319` says that deleting a file clears
  graph references and orphaned vectors. The vector worker looks at
  `structure_done` after it has counted, so a build may end before the last
  chunk is finalised, and fails with `chunk_incomplete`; the next build goes on.
- The first of two deletions of one sandbox to end clears `_deleting` for both
  (`overlapped`). A creation tells the reaper after it has given up its pin, so
  the reaper may keep an entry for a container that is gone; it is harmless
  because the reaper deletes by generation.
- A removal inside a create (of a stale or failed container, `app.py:1131-1177`) and
  the discard of a stale container by `discover` (`app.py:1322-1368`) pass by the
  gate and take the container whoever has a pin; `DeletionWaitsForRequests` speaks
  of deletions that were asked for.
- A proxied request runs `acquire` (`app.py:2440`) and `discover` (`:2442`) as two jobs
  of asyncio's bounded default executor. A deletion waits for the pin of a request
  that still has to discover (`:509`); acquires wait for the deletion (`:493`); when
  these have all threads of the executor, none of them ever goes on (`Jammed`),
  although the docstring at `:484` says that deletions let requests drain. TLC finds
  it when `Jammed` is taken out of `CallsEnd`.
- A cancellation at the await of `acquire` (`app.py:2440`, outside the `try`) leaks a
  pin, and every later deletion of that sandbox waits for ever (`leaked`, the other
  exception of `CallsEnd`).
- A build of a graph whose extraction workers all died (the check at
  `milvus_graph_service.py:274` is outside the inner `try`) stands still in
  `put_queue_item` (`:257-265`) until its task's timeout.
- When the page has taken a live run for ended and follows the same run again, the
  reset of that settlement, which comes after a delay and a fetch
  (`web/src/composables/useAgentRunStream.js:236-244`), clears what is shown and
  aborts the new stream: it looks only for another run, although the comment at
  `:239` says that output that is streaming is not cleared.
  After that the page follows nothing, although it shows the run as going
  on, until the user acts (`stalled`); `PageSettles` leaves it out, and
  `PageIsExact` speaks of what is shown behind `page.from`. The buffers of
  subagent threads are published after the end (`run_worker.py:1318`).
- An attempt that executes on after it lost its lease does not hold the cleanup of
  its own run back (`RuntimeKeptWhileUsed` speaks of attempts with a lease).
- A scheduled occurrence whose dispatch raises the same exception each time before
  its commit stays dispatching; `EveryOccurrenceSettles` assumes that trouble
  stops.
- The page takes the event "stream unavailable, please reconnect" for the end of
  a live run (`page.cut`) until the user comes back to the thread. A generator
  that read the stream empty may make up an end although the last events were
  published before it looked at the status; the design
  (`docs/develop-guides/decisions/implemented/2026-09-23-run-sse-fallback-cursor.md`)
  lets the history replace what was streamed.

### Bounds and why they are enough

- *Runs.* The cascade follows a run to its children and, through a running
  resume, to theirs; TLC's instances contain a creator with a child of either
  kind. `RetriesOrTwo` (a state constraint) explores families of runs separately:
  the creator by itself with several attempts, or once with its subagent, or once
  with its resume run. The theorems below have no such bound.
- *Attempts.* `MaxTries + 1` numbers exist so that exceeding the budget is
  reachable; two tries let a first attempt be released, expire or crash while a
  second one runs.
- *Leases* have three ages, so that a heartbeat can be late once and in time
  once. Clocks are not modelled further: all comparisons in the code use the
  time of the transaction.
- *Tasks.* One slot and several tasks make the pool full; the second attempt
  number exists so that a second execution is reachable.
- *Items.* Two items give an empty, a partial and a full dataset.
- *Files.* One file: handlers work file by file, and batches meet only through
  the task's end. Two tasks make every competition for it.
- *Graphs.* One entity that two files share makes orphans and shared records;
  two jobs make one build outlive its job beside the next. `MaxRemovals` bounds
  deletions and resets, of which one is enough to meet a build. `SmallFamilies`
  (a state constraint) explores one file with two builds that may outlive their
  jobs, one file with two builds and a removal, and two files with one build
  before and while one of them is deleted. A build that mends nothing is the
  reconciliation of failed vectors when there are none. One extraction worker and a
  queue of one (twice the workers in the code, but there are two files) make the
  queue full with one chunk and let all workers be dead. `FewDeaths` lets workers
  die where one build is on its own.
- *Requests.* `MaxRequests` bounds how many are ever saved. Three allow one in
  execution, a steer, and one that it overtakes; the second request comes from
  a channel, where it may steer from the start but not later (`MCSource`).
- *Occurrences.* `MaxOccurrences` bounds how many are ever recorded; two overlap
  or not, and two invocations meet at one occurrence.
- *Containers.* `MaxGen` bounds how many are made for one sandbox. Two let a
  late call about the first meet the second. `Workers` is the size of the executor:
  one thread is full with one waiting request, as the code's is with as many as
  its threads. `FewBusy` (a state constraint) lets three threads be busy at the
  first container, which is enough for a pinned request, a deletion and a request
  that waits for it, and two once there is a second container or a leaked pin.
- *Events.* `MaxEvents` bounds what Redis takes in all; three events with batches
  of two need a second batch and leave room for output, an error and an end. The
  third event is explored for a top-level run with an unexpired stream and no
  reset but that of a page that has settled (`ThreeOfTopLevel`). `MaxLate` bounds the resets that are still to come; with two, one
  may be late for a page that has settled again.

`CHECK_DEADLOCK FALSE` is set where the system really stops: when all tasks are
over and deleted, the requests or occurrences are used up, the builds are over, no
sandbox may be made any more, or the run and its page have come to rest. The runs of `AgentRun`
check for deadlock. No symmetry is used: the elements of an instance have
different roles, and liveness is checked.

### Fairness

- An invocation goes on (`WF` of `Proceed`, `Dispatch`): `job_timeout` and
  `timeout_seconds` stop one that does not, and a crash disables it.
- Time passes (`WF` of `LeaseAges`).
- The reconcilers, publishers and recovery scans run periodically and at start-up
  (`_reconcile_agent_run_leases_forever`, `_reconcile_durable_tasks_forever`,
  `recover_pending_dispatches`, `recover_scheduled_dispatches`), so what they do
  is weakly fair; where another party may hold a lock at the moment they look,
  strongly fair.
- ARQ may lose any message but not all of them: claiming is strongly fair.
- The coroutines of a build go on: its chunks and its vectors are weakly fair,
  each line by itself, a build whose job is lost learns of it from its heartbeat,
  a build that awaits a dead worker raises its exception, and locks on records
  expire. The task's timeout is assumed for a jammed build and no other
  (`TimesOut`), so `BuildEnds` says that every other build ends by itself. No
  death of a worker is fair.
- Threads of the provisioner run, Docker answers and proxied answers end (`WF` of
  a thread's steps), and a job of the executor gets a thread when one is free
  (`TakeWorker`). That a call ends (`CallsEnd`) is claimed under the premise
  that nothing new is asked for ever (`<>[][~NewWork]`): a deletion waits for the
  pins of the requests, however many come before it. It leaves out a sandbox
  with a leaked pin and an executor that is full of waiting requests, which are
  known divergences.
- Scheduled dispatch may break or die any number of times but not for ever
  (`<>[][~Trouble]`); the same holds for connections and the user's coming and
  going in the stream (`<>[][~Trouble /\ ~User]`). Looking at the status
  (`CheckStatus(TRUE)`, every five seconds) is strongly fair because batches may
  always come in between; nothing is assumed of the page's watchdog and of the
  connection's expiry, nor of `LateReset`, so the page settles without them.
- Nothing is assumed of users: no cancellation, resume or continue is fair.

Liveness of runs needs the assumption that the provisioner does not fail for ever
(`WF` of `ReleaseRuntime`).

## 4. Proofs

TLAPS proves the following for every value of the constants that satisfies the
named assumptions of the modules (`RunsAssumption`, `TasksAssumption`,
`MaxRunningAssumption`, `SandboxAssumption`, `DatasetsAssumption`,
`FilesAssumption`, `EventsAssumption`, `GraphAssumption`, the assumptions of
`RequestQueue` and `ScheduledAgent`). None of the state constraints of the runs
plays a part.

- **`AgentRun_proofs`**: types, ownership, no replay, the retry budget, honest
  completion, final ends and that a cancellation wins, for any number of runs;
  then one active top-level run per thread, no orphan subagent runs, and a
  cleanup fence that is not lowered while an attempt of the scope holds its lease.
  No invariant among the first is inductive by itself. That an execution is never
  repeated depends on three facts at once: attempts are numbered without gaps
  (`Numbered`); an invocation that may still write is the last attempt and owns
  the run, unless the run ended without it (`Once`); hence a row that may be
  claimed has no execution behind it. `Owned` links the row with its attempts and
  `Completed` says what a completed run keeps. All of `Inv` speaks of one run at
  a time, so the proof goes run by run: a step that concerns a run is matched
  against the few forms a run's columns can change in, and each form preserves
  the invariant. The last three properties relate several runs; `Scope` = types,
  `ThreadExclusive` and `TreeClosed` is inductive given `Inv`. The cascade is
  taken as the set of runs it closes over, so trees have any shape and depth.
- **`RequestQueue_proofs`**: types, one waiting steer, no waiting reject, a fresh
  runtime for each run, the order of dispatch, and that after a failure only the
  user, or a submission that read the run before it, goes on (`PauseKept`).
  `IInv` ties the queue, the run that was dispatched last, its scope and the
  submissions that are under way.
- **`DurableTask_proofs`**: types, at most one execution, cancellation, the dedupe
  key, the fence of expired owners (no step of theirs, a late heartbeat included,
  changes the row), the limit of running tasks, and that the
  module implements `OneShotJob` (`Refinement`: the first state and every step
  map to the abstract ones). `IInv` ties status, owner, lease, key and the
  positions of all invocations. The domain modules extend `DurableTask` and each
  of their steps is a step of it or leaves its variables alone.
- **`ScheduledAgent_proofs`**: types, that what is recorded as failed or skipped
  was never executed, that executions of a job do not overlap except for the
  orphans described above, and that settled records stay. `IInv` says where each
  invocation may be and what it has locked (`Invocation`), what each record
  implies for its request (`Record`), that occurrences are numbered without gaps,
  and that at most one occurrence of a job blocks the next (`OneBlocks`).
- **`SandboxProvisioner_proofs`**: types, that a provisioner that was reported
  empty stays empty, that deletions wait for the pins, and that the reaper
  forgets no container that is there. `IInv` says of each thread where it may be
  (`CallOK`): one that deletes keeps its sandbox in `deleting` and, once admitted,
  finds nobody else pinned, unless another deletion ended beside it; one that is
  about to tell the reaper names a container that is gone for good. That needs
  containers to be numbered in the order they are made (`GenOK`), and the gate
  needs that a shut gate with no creation before it has none after (`GateOK`).
- **`DatasetGeneration_proofs`**: types, the exact cursor, that completed means
  full, and that the end of a task settles its dataset. A step of the module is a
  step of `DurableTask` or leaves its variables alone (`StepIsTaskStep`), so
  `IInv` carries over; `DatasetInv` adds what a handler has read when it starts
  (`StartOK`), that the live owner's cursor agrees with the rows (`CursorOK`), and
  what the row and a reader's snapshot may say (`DatasetOK`, `ViewOK`). The cursor
  is exact because nobody else writes meanwhile, and that rests on the dedupe key:
  two tasks of one dataset are never both active.
- **`KnowledgeFile_proofs`**: types, that a file in processing is held by a live
  attempt that is at it, that only the claimant records a result, and the chunks of
  an indexed file. `FileInv` says of each file who may hold it (`OwnedOK`) and how
  far its chunks are (`ChunksOK`), and of each attempt that it is at no file before
  its handler starts and after it returned (`WorkOK`). A task that succeeds leaves
  no file behind for this reason; any other end runs the hook, which finds all it
  holds. The history variables `unrecorded` and `spoiled` name the two exceptions.

- **`DerivedState_proofs`** holds two proofs that share nothing but their theme:
  PostgreSQL decides, and what is kept elsewhere has to agree with it.
  - *The event stream in Redis and the page* (`RunEventStream`): types, that an
    end means the run is over, that output comes before the end, that the page
    is exact from `page.from` on, and when it may settle. `IInv` says who may still publish
    (`WorkerOK`), what is in the stream (`LogOK`), on the wire and known to the
    connection (`WireOK`), and on the page (`PageOK`). That the run is over and
    cleaned up (`Clean`) is never undone, so an end stays true on its way to
    the page. The page is exact because an event that is not expired and not
    yet on the page but before the connection's cursor is still on the wire.
  - *The graph in Neo4j and Milvus* (`KnowledgeGraph`): types, and that what
    counts as indexed is searchable. `GraphInv` says of a file outside
    `unsettled` what its chunks' flags promise (`ChunkOK`), that its records
    marked as indexed have vectors (`VectorsOK`), that a deletion of another
    file does not take what it still mentions (`OrphansOK`), and that what a
    build has written of it so far is still there (`BuildsOK`). It is inductive
    because a removal during a build puts the files that share a record with it
    into `unsettled` at once (`Disturbed`): of the other files a build finds
    again what it has written.

Every invariant and every action property of the runs that hold is a theorem for
all values of the constants. Only model-checked is liveness: that runs, tasks,
requests, occurrences, builds, calls and pages come to their end. It
rests on fairness, which is out of the prover's reach (it has no rule for
`ENABLED`). That containers stay within the limits is not so (section 3).

## 5. What is left out

- Of `AgentRun`: audit rows, timing columns, token usage, Langfuse, memory
  writes; the retired `pi` executor and the storage-migration sweeps.
- `CreateChat` only looks at active runs: the queue's other conditions are in
  `RequestQueue`.
- Of the queue: submitting a `request_id` again (it returns what is there and
  changes nothing); the status `failed`, which no code writes; scope checks and
  attachments, which can only refuse (`SubmitRollback`). A request's
  `created_at` and a run's `finished_at` are taken at the time of their commits.
- Of the scheduled agents: time zones and the computation of the next time (a
  plan is due or not, or broken), titles, and who may see a job.
- Of the datasets: uploads, which have no task; the question generator, which
  delivers items or raises; progress and messages.
- Of the files: vectors in Milvus and objects in MinIO, which follow the chunks
  and the file; folders, read-only connectors, retrieval, and the administration
  of knowledge bases.
- Of the provisioner: the Kubernetes and memory backends, mounts, networks,
  health probes, and the HTTP of the proxy.
- Of the events: the stream of requests (SSE of the queue), the streams of
  subagent threads (`SubagentThreadView`, `useSubagentRuns`), whose buffers may
  be flushed after the end, and the cancellation hint in Redis, which PostgreSQL
  backs up.
- Of the graphs: the locked configuration of the extraction, what it finds,
  retry delays, batches of 100 records, queries and their ranking; calls into
  Neo4j and Milvus that outlive a build that was stopped, which only add what
  nobody looks for.
- RAG evaluation runs are Durable Tasks with checkpoints of their own; see the
  plan.
- The sandbox client keeps handles per process and repeats an operation when the
  provisioner says that the container is gone; its safety rests on the fence
  (`AgentRun`) and the pins (`SandboxProvisioner`).
- The rest of the repository is CRUD in single transactions, HTTP adapters, file
  system and network I/O, prompts, text algorithms, and the user interface: it
  has no interleaving of its own to check. That is also most of its lines, so
  the modules cover a small share of the implementation and most of its
  concurrent part.

## 6. Plan

Done: `AgentRun`, `RequestQueue`, `DurableTask` with its refinement of
`OneShotJob`, `DatasetGeneration`, `KnowledgeFile`, `KnowledgeGraph`,
`ScheduledAgent`, `SandboxProvisioner`, `RunEventStream`, and the proofs of
section 4, which cover all their invariants and action properties.

Next, in this order:

1. `RagEvaluation`, as a sibling of `DatasetGeneration`.
2. The request's own event stream and the page's subagent threads.
3. The sandbox client's cache of handles on top of `SandboxProvisioner`.
