--------------------------- MODULE RunEventStream ---------------------------
(***************************************************************************)
(* The events of one AgentRun on their way to the page that shows them:    *)
(* the worker and the cleanups append to a Redis stream (run_worker.py,    *)
(* run_queue_service.py), an SSE connection polls the stream and, seldom,  *)
(* PostgreSQL (stream_agent_run_events), and the page follows, reconnects, *)
(* asks for the run or starts again (useAgentRunStream.js).                *)
(*                                                                         *)
(* Only PostgreSQL is authoritative.  Redis may refuse an event, its       *)
(* stream expires, the connection breaks with events in flight.            *)
(***************************************************************************)
EXTENDS Naturals, Sequences, SequencesExt

CONSTANTS
  MaxEvents,  \* how many events Redis takes in all; bounds the model
  MaxLate,    \* bound: settlements of the page whose reset is still to come
  Limit       \* events of one batch (200 in the code)

ASSUME EventsAssumption ==
  MaxEvents \in Nat /\ MaxLate \in Nat \ {0} /\ Limit \in Nat \ {0}

VARIABLES
  run,     \* the row: status, runtime_cleanup_pending, whether it is top level
  log,     \* what was ever appended to the stream; an id is a position
  first,   \* the oldest id Redis still has
  worker,  \* the invocation of process_agent_run: where it is, its buffer,
           \* and the event it publishes before the end
  closer,  \* a reconciler or redelivery lowered the fence and publishes the end
  conn,    \* the SSE connection: where its generator is, its cursor, the run
           \* as it was last loaded
  pipe,    \* events on the wire
  page,    \* the page: its view, cursor, what it shows and behind which id that
           \* begins; cut: it was told that the stream is unavailable
  late     \* settlements of the page whose reset is still to come

vars == <<run, log, first, worker, closer, conn, pipe, page, late>>

Ids      == 1..MaxEvents
Kinds    == {"data", "retry", "error", "interrupt", "end", "closing"}
IsEnd(k) == k \in {"end", "closing"}

Event(id, kind) == [id |-> id, kind |-> kind]

NoWorker == [pc |-> "idle", buffer |-> FALSE, says |-> "none"]
NoConn   == [pc |-> "off", cursor |-> 0, seen |-> "live"]

(* The generator has returned, or was cancelled with the connection.       *)
Returned(pc) == [NoConn EXCEPT !.pc = pc]

TypeOK ==
  /\ run \in [status : {"pending", "running", "interrupted", "over"},
              fence : BOOLEAN, top : BOOLEAN, claimed : BOOLEAN]
  /\ log \in Seq(Kinds) /\ Len(log) <= MaxEvents
  /\ first \in 1..(MaxEvents + 1)
  /\ worker \in [pc : {"idle", "prepare", "release", "execute", "flushed", "drain",
                       "committed", "cleaned", "said", "ended"},
                 buffer : BOOLEAN, says : {"none", "error", "interrupt"}]
  /\ closer \in BOOLEAN
  /\ conn \in [pc : {"off", "load", "read", "check", "idle", "closed", "broken"},
               cursor : {0} \cup Ids, seen : {"live", "fenced", "over"}]
  /\ pipe \in Seq([id : {0} \cup Ids, kind : Kinds \cup {"unavailable"}])
  /\ page \in [view : {"waiting", "streaming", "asking", "away", "settled", "stalled"},
               seq : {0} \cup Ids, shown : Seq(Ids), from : {0} \cup Ids, cut : BOOLEAN]
  /\ late \in 0..MaxLate

(* A page that begins with the run.                                        *)
Fresh(view) == [view |-> view, seq |-> 0, shown |-> <<>>, from |-> 0, cut |-> FALSE]

Init ==
  /\ run \in [status : {"pending"}, fence : {FALSE}, top : BOOLEAN, claimed : {FALSE}]
  /\ log = <<>>
  /\ first = 1
  /\ worker = NoWorker
  /\ closer = FALSE
  /\ conn = NoConn
  /\ pipe = <<>>
  /\ page = Fresh("waiting")
  /\ late = 0

-----------------------------------------------------------------------------
(* The run and the worker                                                  *)

Ended == run.status \in {"interrupted", "over"}
Live  == ~Ended

Reader == <<conn, pipe, page, late>>

(* append_run_stream_event, best effort: Redis may not take it.            *)
Publish(kind) ==
  \/ UNCHANGED log
  \/ Len(log) < MaxEvents /\ log' = Append(log, kind)

Goto(pc) == worker' = [worker EXCEPT !.pc = pc]

(* mark_running; a pending cleanup is settled first.                       *)
Claim ==
  /\ worker = NoWorker
  /\ run.status = "pending"
  /\ ~run.fence
  /\ run' = [run EXCEPT !.status = "running", !.claimed = TRUE]
  /\ Goto("prepare")
  /\ UNCHANGED <<log, first, closer, Reader>>

(* The preparation fails in a way that is retried: the lease is released,  *)
(* the runtime cleaned up, the page told.                                  *)
ReleaseForRetry ==
  /\ worker.pc = "prepare"
  /\ IF run.status = "running"
     THEN /\ run' = [run EXCEPT !.status = "pending", !.fence = run.top]
          /\ Goto("release")
     ELSE worker' = NoWorker /\ UNCHANGED run
  /\ UNCHANGED <<log, first, closer, Reader>>

SayRetry ==
  /\ worker.pc = "release"
  /\ \/ run' = [run EXCEPT !.fence = FALSE] /\ Publish("retry")
     \/ run.fence /\ UNCHANGED <<run, log>>
  /\ worker' = NoWorker
  /\ UNCHANGED <<first, closer, Reader>>

(* The metadata event and the start of the execution.                      *)
StartExecution ==
  /\ worker.pc = "prepare"
  /\ Publish("data")
  /\ Goto("execute")
  /\ UNCHANGED <<run, first, closer, Reader>>

(* A chunk goes into the buffer of the ChunkedEventWriter ...              *)
BufferChunk ==
  /\ worker.pc = "execute"
  /\ worker' = [worker EXCEPT !.buffer = TRUE]
  /\ UNCHANGED <<run, log, first, closer, Reader>>

PublishBuffer == IF worker.buffer THEN Publish("data") ELSE UNCHANGED log

(* ... and out of it by size, by time, and once more when all is done.     *)
Flush ==
  /\ worker.pc \in {"execute", "ended"}
  /\ PublishBuffer
  /\ worker' = IF worker.pc = "ended" THEN NoWorker ELSE [worker EXCEPT !.buffer = FALSE]
  /\ UNCHANGED <<run, first, closer, Reader>>

(* Mutant: what is buffered is left to that last flush.                    *)
LastChunks_Later(pc) == UNCHANGED log /\ Goto(pc)

(* The chunks that are left are published before the run's end is.         *)
LastChunks(pc) ==
  /\ PublishBuffer
  /\ worker' = [worker EXCEPT !.pc = pc, !.buffer = FALSE]

(* The worker is about to end the run itself, whatever became of the       *)
(* preparation or the execution.                                           *)
Conclude ==
  /\ worker.pc \in {"prepare", "execute"}
  /\ LastChunks("flushed")
  /\ UNCHANGED <<run, first, closer, Reader>>

(* _finish_run writes the terminal status, unless somebody else has.       *)
Commit ==
  /\ worker.pc = "flushed"
  /\ IF run.status = "running"
     THEN \E s \in {"interrupted", "over"}, k \in {"none", "error", "interrupt"} :
            /\ s = "interrupted" => k = "interrupt"
            /\ run' = [run EXCEPT !.status = s, !.fence = run.top]
            /\ worker' = [worker EXCEPT !.pc = "committed", !.says = k]
     ELSE worker' = NoWorker /\ UNCHANGED run
  /\ UNCHANGED <<log, first, closer, Reader>>

(* chat_service commits an answer or an interrupt before the worker sees   *)
(* the last chunk of the stream; the buffer is flushed after it.           *)
CommitInStream ==
  /\ worker.pc = "execute"
  /\ run.status = "running"
  /\ \E s \in {"interrupted", "over"} :
       /\ run' = [run EXCEPT !.status = s, !.fence = run.top]
       /\ worker' = [worker EXCEPT !.pc = "drain",
                        !.says = IF s = "interrupted" THEN "interrupt" ELSE "none"]
  /\ UNCHANGED <<log, first, closer, Reader>>

Drain ==
  /\ worker.pc = "drain"
  /\ LastChunks("committed")
  /\ UNCHANGED <<run, first, closer, Reader>>

(* _release_runtime_before_terminal_event lowers the fence or finds it     *)
(* lowered; if it cannot, the end is left to the next delivery.            *)
ReleaseRuntime ==
  /\ worker.pc = "committed"
  /\ \/ run' = [run EXCEPT !.fence = FALSE] /\ Goto("cleaned")
     \/ run.fence /\ worker' = NoWorker /\ UNCHANGED run
  /\ UNCHANGED <<log, first, closer, Reader>>

(* The error or the interrupt, then the end.                               *)
SayWhy ==
  /\ worker.pc = "cleaned"
  /\ IF worker.says = "none" THEN UNCHANGED log ELSE Publish(worker.says)
  /\ worker' = [worker EXCEPT !.pc = "said", !.says = "none"]
  /\ UNCHANGED <<run, first, closer, Reader>>

SayEnd ==
  /\ worker.pc = "said"
  /\ Publish("end")
  /\ Goto("ended")
  /\ UNCHANGED <<run, first, closer, Reader>>

(* A process dies.                                                         *)
Crash ==
  /\ \/ worker # NoWorker /\ worker' = NoWorker /\ UNCHANGED closer
     \/ closer /\ closer' = FALSE /\ UNCHANGED worker
  /\ UNCHANGED <<run, log, first, Reader>>

(* A run that lost its worker, or whose worker only seems lost, fails.     *)
ReconcileExpiredLease ==
  /\ Live
  /\ run.claimed
  /\ run' = [run EXCEPT !.status = "over", !.fence = run.top]
  /\ UNCHANGED <<log, first, worker, closer, Reader>>

(* A cancellation before the first claim; nobody publishes anything.       *)
CancelUnclaimed ==
  /\ run.status = "pending"
  /\ ~run.claimed
  /\ run' = [run EXCEPT !.status = "over"]
  /\ UNCHANGED <<log, first, worker, closer, Reader>>

(* Mutant: the end is published for every run that was cleaned up.         *)
PublishesEnd_Always == TRUE

PublishesEnd == Ended

(* A redelivery of the run or the periodic cleanup lowers the fence.       *)
CleanUp ==
  /\ run.fence
  /\ run' = [run EXCEPT !.fence = FALSE]
  /\ closer' = (closer \/ PublishesEnd)
  /\ UNCHANGED <<log, first, worker, Reader>>

PublishClosing ==
  /\ closer
  /\ Publish("closing")
  /\ closer' = FALSE
  /\ UNCHANGED <<run, first, worker, Reader>>

(* The stream expires, two hours after the last event.                     *)
ExpireStream ==
  /\ first' = Len(log) + 1
  /\ first' # first
  /\ UNCHANGED <<run, log, worker, closer, Reader>>

-----------------------------------------------------------------------------
(* stream_agent_run_events                                                 *)

Backend == <<run, log, first, worker, closer>>

(* What a connection keeps of the run it loads.                            *)
Judged == IF Live THEN "live" ELSE IF run.fence THEN "fenced" ELSE "over"

(* The database or Redis fails: the connection says so and ends.           *)
Unavailable ==
  /\ conn.pc \in {"load", "read", "check", "idle"}
  /\ conn' = Returned("closed")
  /\ pipe' = Append(pipe, Event(0, "unavailable"))
  /\ UNCHANGED <<Backend, page, late>>

LoadRun ==
  /\ conn.pc = "load"
  /\ conn' = [conn EXCEPT !.pc = "read", !.seen = Judged]
  /\ UNCHANGED <<Backend, pipe, page, late>>

(* The first Limit events behind the cursor.                               *)
Batch ==
  LET from == IF conn.cursor < first THEN first ELSE conn.cursor + 1
      to   == IF from + Limit - 1 < Len(log) THEN from + Limit - 1 ELSE Len(log)
  IN  [n \in 1..(to + 1 - from) |-> Event(from + n - 1, log[from + n - 1])]

ReadEvents ==
  /\ conn.pc = "read"
  /\ pipe' = pipe \o Batch
  /\ conn' = IF \E n \in DOMAIN Batch : IsEnd(Batch[n].kind) THEN Returned("closed")
             ELSE IF Batch = <<>> THEN [conn EXCEPT !.pc = "idle"]
             ELSE [conn EXCEPT !.pc = "check", !.cursor = Last(Batch).id]
  /\ UNCHANGED <<Backend, page, late>>

(* Mutant: the end is left to the stream.                                  *)
MayEnd_Never(seen) == FALSE

(* Nothing came, and the run is over with its runtime cleaned up.          *)
MayEnd(seen) == seen = "over"

(* The rest of a round.  Every five seconds the run is loaded again; an    *)
(* end that Redis lost is made up, without an id.                          *)
CheckStatus(loads) ==
  LET seen == IF loads THEN Judged ELSE conn.seen IN
  /\ conn.pc \in {"check", "idle"}
  /\ IF conn.pc = "idle" /\ MayEnd(seen)
     THEN /\ pipe' = Append(pipe, Event(0, "end"))
          /\ conn' = Returned("closed")
     ELSE /\ conn' = [conn EXCEPT !.pc = "read", !.seen = seen]
          /\ UNCHANGED pipe
  /\ UNCHANGED <<Backend, page, late>>

(* After SSE_MAX_CONNECTION_MINUTES.                                       *)
Expire ==
  /\ conn.pc \in {"check", "idle"}
  /\ conn' = Returned("closed")
  /\ UNCHANGED <<Backend, pipe, page, late>>

(* The network breaks; events in flight are lost.                          *)
Break ==
  /\ conn.pc \notin {"off", "broken"}
  /\ \E n \in 0..Len(pipe) : pipe' = SubSeq(pipe, 1, n)
  /\ conn' = Returned("broken")
  /\ UNCHANGED <<Backend, page, late>>

-----------------------------------------------------------------------------
(* useAgentRunStream                                                       *)

Hangup == conn' = NoConn /\ pipe' = <<>>

(* finalizeRunStream: the page takes the run for ended at once and loads   *)
(* the history.  What was streamed is cleared when that has come.          *)
Settle(cut) ==
  /\ page' = [page EXCEPT !.view = "settled", !.cut = cut]
  /\ late' = late + 1
  /\ Hangup

(* resetOnGoingConv at the end of settleThreadAfterTerminal.  It looks     *)
(* only for another run: when this one was taken up again meanwhile, it    *)
(* clears what is shown and aborts the stream, and nothing reconnects it.  *)
LateReset ==
  /\ late > 0
  /\ late' = late - 1
  /\ IF page.view = "streaming"
     THEN /\ page' = [page EXCEPT !.view = "stalled", !.shown = <<>>, !.from = page.seq]
          /\ Hangup
     ELSE /\ page' = [page EXCEPT !.shown = <<>>, !.from = page.seq]
          /\ UNCHANGED <<conn, pipe>>
  /\ UNCHANGED Backend

(* preserveInterruptedRun: the page has the question of the run.  That it  *)
(* has is a free choice here: it comes with the stream or the agent state. *)
Preserve ==
  /\ run.status = "interrupted"
  /\ page' = [page EXCEPT !.view = "settled", !.cut = FALSE]
  /\ Hangup
  /\ UNCHANGED late

(* startRunStream from the cursor.                                         *)
Connect ==
  /\ page.view = "waiting"
  /\ page' = [page EXCEPT !.view = "streaming"]
  /\ conn' = [pc |-> "load", cursor |-> page.seq, seen |-> "live"]
  /\ pipe' = <<>>
  /\ UNCHANGED <<Backend, late>>

(* Mutant: a retry that is announced ends the run.                         *)
Ending_Retry(kind) == IsEnd(kind) \/ kind \in {"error", "unavailable", "retry"}

(* What makes the page take the run for ended: any error that will not be  *)
(* retried, the connection's own among them.                               *)
Ending(kind) == IsEnd(kind) \/ kind \in {"error", "unavailable"}

(* An event without an id, or with one the page has not seen.              *)
IsNews(e) == e.id = 0 \/ e.id > page.seq

Receive ==
  LET e == Head(pipe) IN
  /\ page.view = "streaming"
  /\ pipe # <<>>
  /\ IF IsNews(e) /\ Ending(e.kind)
     THEN Settle(e.kind = "unavailable")
     ELSE /\ page' = IF ~IsNews(e) THEN page
                     ELSE [page EXCEPT !.seq = e.id,
                             !.shown = IF e.kind = "retry" THEN @ ELSE Append(@, e.id)]
          /\ pipe' = Tail(pipe)
          /\ UNCHANGED <<conn, late>>
  /\ UNCHANGED Backend

(* The stream is over without an end: the page asks for the run.           *)
StreamEnds ==
  /\ page.view = "streaming"
  /\ pipe = <<>>
  /\ conn.pc \in {"closed", "broken"}
  /\ page' = [page EXCEPT !.view = IF conn.pc = "closed" THEN "asking" ELSE "waiting"]
  /\ Hangup
  /\ UNCHANGED <<Backend, late>>

AskForRun ==
  /\ page.view = "asking"
  /\ \/ Ended /\ Settle(FALSE)
     \/ Preserve
     \/ Live /\ page' = [page EXCEPT !.view = "waiting"] /\ UNCHANGED <<conn, pipe, late>>
  /\ UNCHANGED Backend

AskingFails ==
  /\ page.view = "asking"
  /\ page' = [page EXCEPT !.view = "waiting"]
  /\ UNCHANGED <<Backend, conn, pipe, late>>

(* Nothing came for 45 seconds; an interrupted run is none of the          *)
(* watchdog's terminal statuses.                                           *)
Watchdog ==
  /\ page.view = "streaming"
  /\ run.status = "over"
  /\ Settle(FALSE)
  /\ UNCHANGED Backend

(* The user goes to another thread, which hangs up, or loads the page      *)
(* again, which forgets everything.                                        *)
Leave ==
  /\ \/ page.view = "streaming" /\ page' = [page EXCEPT !.view = "away"] /\ UNCHANGED late
     \/ page' = Fresh("away") /\ late' = 0
  /\ Hangup
  /\ UNCHANGED Backend

(* Mutant: what is shown is read again.                                    *)
ResumeCursor_Start == 0

(* resolveRunResumeAfterSeq: without anything on the page, from the start. *)
ResumeCursor == IF page.shown = <<>> THEN 0 ELSE page.seq

(* The stream of the run goes on, or begins again on a page that has       *)
(* settled and does not know any more which run it followed.               *)
Resume ==
  IF page.view = "settled" THEN Fresh("waiting")
  ELSE [page EXCEPT !.view = "waiting", !.seq = ResumeCursor,
                    !.from = IF page.shown = <<>> THEN 0 ELSE @]

(* resumeActiveRunForThread when the page comes back without a stream.     *)
Return ==
  /\ page.view \in {"away", "settled", "stalled", "waiting"}
  /\ late < MaxLate
  /\ \/ Live /\ page' = Resume /\ UNCHANGED <<conn, pipe, late>>
     \/ run.status = "interrupted" /\ page' = Fresh("waiting") /\ UNCHANGED <<conn, pipe, late>>
     \/ Preserve
     \/ run.status = "over" /\ Settle(FALSE)
  /\ UNCHANGED Backend

(* And with one: a question the page has not got is read again from the    *)
(* start.                                                                  *)
Revisit ==
  /\ page.view = "streaming"
  /\ \/ run.status = "over" /\ Settle(FALSE)
     \/ Preserve
     \/ run.status = "interrupted" /\ page' = Fresh("waiting") /\ Hangup /\ UNCHANGED late
  /\ UNCHANGED Backend

-----------------------------------------------------------------------------

Work ==
  \/ Claim \/ ReleaseForRetry \/ SayRetry \/ StartExecution \/ BufferChunk \/ Flush
  \/ Conclude \/ Commit \/ CommitInStream \/ Drain \/ ReleaseRuntime \/ SayWhy \/ SayEnd

Closing == ReconcileExpiredLease \/ CancelUnclaimed \/ CleanUp \/ PublishClosing

Serve == LoadRun \/ ReadEvents \/ (\E loads \in BOOLEAN : CheckStatus(loads))

Follow == Connect \/ Receive \/ StreamEnds \/ AskForRun

Trouble == Crash \/ ExpireStream \/ Unavailable \/ Break \/ AskingFails

User == Leave \/ Return \/ Revisit

Next ==
  Work \/ Closing \/ Serve \/ Follow \/ Trouble \/ User \/ Expire \/ Watchdog \/ LateReset

Spec == Init /\ [][Next]_vars

(* The periodic cleanup comes again and again, the generator and the page  *)
(* go on, and a connection loads the run again and again.  Connections     *)
(* fail, and the user comes and goes, any number of times, but not for     *)
(* ever.                                                                   *)
Fairness ==
  /\ WF_vars(CleanUp)
  /\ WF_vars(Serve)
  /\ SF_vars(CheckStatus(TRUE))
  /\ WF_vars(Follow)
  /\ <>[][~Trouble /\ ~User]_vars

FairSpec == Spec /\ Fairness

-----------------------------------------------------------------------------
(* Properties                                                              *)

(* Whoever reads an end, from the stream or made up, can rely on it: the   *)
(* run is over, and its runtime is not destroyed under the next run.       *)
EndMeansOver ==
  (\E n \in DOMAIN log : IsEnd(log[n])) \/ (\E n \in DOMAIN pipe : IsEnd(pipe[n].kind))
    => Ended /\ ~run.fence

(* The end that the worker publishes is behind the execution's events, as  *)
(* far as they are in the main thread's buffer: a subagent's own buffer is *)
(* not modelled, and what is left in it is published after the end.        *)
OutputBeforeEnd ==
  \A m, n \in DOMAIN log : log[m] = "end" /\ log[n] = "data" => n < m

(* What the page shows are the events in their order, each of them once,   *)
(* through every reconnection.                                             *)
ShownOnce ==
  \A m, n \in DOMAIN page.shown : m < n => page.shown[m] < page.shown[n]

(* And none is missing: what Redis still has up to the page's cursor is on *)
(* the page, from its beginning or from the last late reset on.            *)
NothingSkipped ==
  \A i \in first..page.seq :
    i > page.from /\ log[i] # "retry" => \E n \in DOMAIN page.shown : page.shown[n] = i

(* Through retries, broken connections, reloads and late resets the page   *)
(* shows exactly what the stream holds between page.from and its cursor.   *)
PageIsExact == ShownOnce /\ NothingSkipped

(* The page takes a run for ended only when it is: neither a retry nor a   *)
(* connection that just closes is an end.  The one exception is the event  *)
(* that says the stream is unavailable.                                    *)
SettledMeansOver == page.view = "settled" => Ended \/ page.cut

(* When the run is over, the page that follows it finds out, whatever end  *)
(* event Redis or the network has lost.  A page whose stream a late reset  *)
(* aborted follows nothing until the user acts.                            *)
PageSettles == Ended ~> page.view \in {"settled", "away", "stalled"}
=============================================================================
