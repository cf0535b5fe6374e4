------------------------ MODULE DerivedState_proofs -------------------------
(***************************************************************************)
(* PostgreSQL is authoritative, and what is kept elsewhere agrees with it: *)
(* a run's events in Redis, on the wire and on the page (RunEventStream),  *)
(* and the graph of a knowledge base in Neo4j and Milvus (KnowledgeGraph). *)
(* The two components share nothing, and each half is about one of them,   *)
(* for streams and batches of any length and for any builds, files and     *)
(* records.                                                                *)
(***************************************************************************)
EXTENDS RunEventStream, KnowledgeGraph, SequenceTheorems, TLAPS


-----------------------------------------------------------------------------
(* RunEventStream: the inductive invariant                                 *)

(* The run is over and nobody destroys its runtime any more.  No step      *)
(* leaves this state.                                                      *)
Clean == Ended /\ ~run.fence

(* Who is about to publish or to make up an end knows that.                *)
WorkerOK ==
  /\ worker.pc \in {"drain", "committed"} => Ended
  /\ worker.pc \in {"cleaned", "said", "ended"} \/ closer \/ conn.seen = "over" => Clean
  /\ worker.pc \notin {"execute", "drain"} => ~worker.buffer

LogOK ==
  /\ first <= Len(log) + 1
  /\ \A n \in 1..Len(log) :
       /\ IsEnd(log[n]) => Clean
       /\ log[n] = "error" => Ended
       /\ log[n] = "end" => worker.pc \in {"idle", "ended"}
  /\ \A m, n \in 1..Len(log) : log[m] = "end" /\ log[n] = "data" => n < m

(* What is on the wire is what was appended, and together with what the    *)
(* page has it is all that Redis still has up to the connection's cursor.  *)
WireOK ==
  /\ \A n \in 1..Len(pipe) :
       \/ pipe[n].id = 0 /\ (pipe[n].kind = "unavailable" \/ (pipe[n].kind = "end" /\ Clean))
       \/ pipe[n].id \in 1..Len(log) /\ pipe[n].kind = log[pipe[n].id]
  /\ page.view # "streaming" => pipe = <<>> /\ conn = NoConn
  /\ \A n \in 1..Len(pipe), i \in first..MaxEvents :
       i < pipe[n].id => i <= page.seq \/ \E m \in 1..Len(pipe) : m < n /\ pipe[m].id = i
  /\ conn.cursor <= Len(log)
  /\ \A i \in first..MaxEvents :
       i <= conn.cursor => i <= page.seq \/ \E m \in 1..Len(pipe) : pipe[m].id = i

PageOK ==
  /\ page.seq <= Len(log)
  /\ \A m, n \in 1..Len(page.shown) : m < n => page.shown[m] < page.shown[n]
  /\ \A n \in 1..Len(page.shown) : page.shown[n] <= page.seq
  /\ \A i \in first..MaxEvents :
       page.from < i /\ i <= page.seq /\ log[i] # "retry" =>
         \E n \in 1..Len(page.shown) : page.shown[n] = i
  /\ page.view = "settled" => Ended \/ page.cut
  /\ page.view # "settled" => late < MaxLate

IInv == TypeOK /\ WorkerOK /\ LogOK /\ WireOK /\ PageOK

LEMMA Sequences ==
  ASSUME TypeOK
  PROVE  /\ Len(log) \in Nat /\ DOMAIN log = 1..Len(log) /\ \A n \in 1..Len(log) : log[n] \in Kinds
         /\ Len(pipe) \in Nat /\ DOMAIN pipe = 1..Len(pipe)
         /\ \A n \in 1..Len(pipe) :
              pipe[n] \in [id : {0} \cup Ids, kind : Kinds \cup {"unavailable"}]
         /\ Len(page.shown) \in Nat /\ DOMAIN page.shown = 1..Len(page.shown)
         /\ \A n \in 1..Len(page.shown) : page.shown[n] \in Ids
<1>1. /\ log \in Seq(Kinds) /\ pipe \in Seq([id : {0} \cup Ids, kind : Kinds \cup {"unavailable"}])
      /\ page.shown \in Seq(Ids)
  BY DEF TypeOK
<1> QED BY <1>1, LenProperties, ElementOfSeq

LEMMA InitInv == Init => IInv
<1> SUFFICES ASSUME Init PROVE IInv
  OBVIOUS
<1>1. Len(<<>>) = 0 /\ \A S : <<>> \in Seq(S)
  BY EmptySeq
<1>2. TypeOK
  <2>1. log \in Seq(Kinds) /\ Len(log) <= MaxEvents /\ first \in 1..(MaxEvents + 1)
    BY <1>1, EventsAssumption DEF Init
  <2>2. pipe \in Seq([id : {0} \cup Ids, kind : Kinds \cup {"unavailable"}])
    BY <1>1 DEF Init
  <2>3. page \in [view : {"waiting", "streaming", "asking", "away", "settled", "stalled"},
                 seq : {0} \cup Ids, shown : Seq(Ids), from : {0} \cup Ids, cut : BOOLEAN]
    BY <1>1 DEF Init, Fresh
  <2>4. late \in 0..MaxLate
    BY EventsAssumption DEF Init
  <2> QED BY <2>1, <2>2, <2>3, <2>4 DEF Init, TypeOK, NoWorker, NoConn
<1>3. WorkerOK /\ LogOK
  BY <1>1 DEF Init, WorkerOK, LogOK, NoWorker, NoConn
<1>4. WireOK /\ PageOK
  <2>1. /\ Len(log) = 0 /\ Len(pipe) = 0 /\ Len(page.shown) = 0
        /\ first = 1 /\ pipe = <<>> /\ conn = NoConn /\ conn.cursor = 0
        /\ page.seq = 0 /\ page.view = "waiting" /\ late = 0
    BY <1>1 DEF Init, NoConn, Fresh
  <2>2. WireOK
    BY <2>1, EventsAssumption DEF WireOK
  <2>3. PageOK
    BY <2>1, EventsAssumption DEF PageOK
  <2> QED BY <2>2, <2>3
<1> QED BY <1>2, <1>3, <1>4 DEF IInv

-----------------------------------------------------------------------------
(* The run and the stream                                                  *)

(* Events of some kinds are appended, or nothing is.                       *)
Grows(kinds) ==
  /\ log' \in Seq(Kinds) /\ Len(log') <= MaxEvents
  /\ Len(log') \in Nat /\ Len(log) <= Len(log')
  /\ \A i \in 1..Len(log) : log'[i] = log[i]
  /\ \A i \in 1..Len(log') : i > Len(log) => log'[i] \in kinds

LEMMA PublishGrows ==
  ASSUME TypeOK, NEW kind \in Kinds, Publish(kind)
  PROVE  Grows({kind})
<1>1. log \in Seq(Kinds) /\ Len(log) \in Nat /\ Len(log) <= MaxEvents
  BY Sequences DEF TypeOK
<1>2. CASE UNCHANGED log
  BY <1>1, <1>2 DEF Grows
<1>3. CASE Len(log) < MaxEvents /\ log' = Append(log, kind)
  <2>1. /\ log' \in Seq(Kinds) /\ Len(log') = Len(log) + 1
        /\ \A i \in 1..Len(log) : log'[i] = log[i]
        /\ log'[Len(log) + 1] = kind
    BY <1>1, <1>3, AppendProperties
  <2> QED BY <1>1, <1>3, <2>1, EventsAssumption DEF Grows
<1> QED BY <1>2, <1>3 DEF Publish

LEMMA QuietGrows ==
  ASSUME TypeOK, UNCHANGED log, NEW kinds
  PROVE  Grows(kinds)
BY Sequences DEF TypeOK, Grows

LEMMA BufferGrows ==
  ASSUME TypeOK, PublishBuffer
  PROVE  Grows(IF worker.buffer THEN {"data"} ELSE {})
<1>1. CASE worker.buffer
  BY <1>1, PublishGrows DEF PublishBuffer, Kinds
<1>2. CASE ~worker.buffer
  BY <1>2, QuietGrows DEF PublishBuffer
<1> QED BY <1>1, <1>2

(* What a step of the run, its worker or its cleanup has to show.          *)
BackendOK ==
  /\ run' \in [status : {"pending", "running", "interrupted", "over"},
               fence : BOOLEAN, top : BOOLEAN, claimed : BOOLEAN]
  /\ worker' \in [pc : {"idle", "prepare", "release", "execute", "flushed", "drain",
                        "committed", "cleaned", "said", "ended"},
                  buffer : BOOLEAN, says : {"none", "error", "interrupt"}]
  /\ closer' \in BOOLEAN
  /\ Ended => Ended'
  /\ Clean => Clean'
  /\ worker'.pc \in {"drain", "committed"} => Ended'
  /\ worker'.pc \in {"cleaned", "said", "ended"} \/ closer' => Clean'
  /\ worker'.pc \notin {"execute", "drain"} => ~worker'.buffer

(* And what it may append.                                                 *)
MayAppend(kinds) ==
  /\ {"end", "closing"} \cap kinds # {} => Clean
  /\ "error" \in kinds => Ended
  /\ "end" \in kinds => "data" \notin kinds /\ worker'.pc = "ended"
  /\ "data" \in kinds => worker.pc \notin {"idle", "ended"}
  /\ worker.pc \in {"idle", "ended"} /\ Ended => worker'.pc \in {"idle", "ended"}
LEMMA BackendStep ==
  ASSUME IInv, NEW kinds, BackendOK, Grows(kinds), MayAppend(kinds), UNCHANGED Reader,
         first' = first \/ first' = Len(log') + 1
  PROVE  IInv'
<1>1. /\ first \in 1..(MaxEvents + 1) /\ first <= Len(log) + 1
      /\ Len(log) \in Nat /\ Len(log') \in Nat /\ Len(log) <= Len(log') /\ Len(log') <= MaxEvents
      /\ MaxEvents \in Nat
  BY Sequences, EventsAssumption DEF IInv, TypeOK, LogOK, Grows
<1>2. first' \in 1..(MaxEvents + 1) /\ first <= first' /\ first' <= Len(log') + 1
  BY <1>1
<1>3. TypeOK'
  BY <1>2 DEF IInv, TypeOK, BackendOK, Grows, Reader, Ids
<1>4. WorkerOK'
  BY DEF IInv, WorkerOK, BackendOK, Reader
<1>5. LogOK'
  <2>1. \A i \in 1..Len(log') : (i \in 1..Len(log) /\ log'[i] = log[i]) \/ (i > Len(log) /\ log'[i] \in kinds)
    BY <1>1 DEF Grows
  <2>2. ASSUME NEW n \in 1..Len(log')
        PROVE  /\ IsEnd(log'[n]) => Clean'
               /\ log'[n] = "error" => Ended'
               /\ log'[n] = "end" => worker'.pc \in {"idle", "ended"}
    <3>1. CASE n \in 1..Len(log) /\ log'[n] = log[n]
      BY <3>1 DEF IInv, LogOK, BackendOK, MayAppend, Clean, IsEnd
    <3>2. CASE log'[n] \in kinds
      BY <3>2 DEF BackendOK, MayAppend, IsEnd
    <3> QED BY <2>1, <3>1, <3>2
  <2>3. ASSUME NEW m \in 1..Len(log'), NEW n \in 1..Len(log'), log'[m] = "end", log'[n] = "data"
        PROVE  n < m
    <3>1. CASE m \in 1..Len(log) /\ log'[m] = log[m]
      <4>1. worker.pc \in {"idle", "ended"}
        BY <2>3, <3>1 DEF IInv, LogOK
      <4>2. n \in 1..Len(log) /\ log'[n] = log[n]
        BY <2>1, <2>3, <4>1 DEF MayAppend
      <4> QED BY <2>3, <3>1, <4>2 DEF IInv, LogOK
    <3>2. CASE m > Len(log) /\ log'[m] \in kinds
      <4>1. n \in 1..Len(log)
        BY <2>1, <2>3, <3>2 DEF MayAppend
      <4> QED BY <1>1, <3>2, <4>1
    <3> QED BY <2>1, <3>1, <3>2
  <2> QED BY <1>2, <2>2, <2>3 DEF LogOK
<1>6. WireOK'
  <2>1. /\ pipe' = pipe /\ conn' = conn /\ page' = page /\ late' = late
    BY DEF Reader
  <2>2. \A i \in 1..Len(log) : i \in 1..Len(log') /\ log'[i] = log[i]
    BY <1>1 DEF Grows
  <2>3. conn.cursor <= Len(log) /\ conn.cursor \in Nat
    BY DEF IInv, TypeOK, WireOK, Ids
  <2>4. \A i \in first'..MaxEvents : i \in first..MaxEvents
    BY <1>1, <1>2
  <2> QED BY <1>1, <2>1, <2>2, <2>3, <2>4 DEF IInv, WireOK, BackendOK
<1>7. PageOK'
  <2>1. page' = page /\ late' = late /\ page.seq <= Len(log) /\ page.seq \in Nat
    BY DEF Reader, IInv, TypeOK, PageOK, Ids
  <2>2. \A i \in first'..MaxEvents :
          i <= page.seq => i \in first..MaxEvents /\ log'[i] = log[i]
    BY <1>1, <1>2, <2>1 DEF Grows
  <2>3. \A i \in first'..MaxEvents :
          page.from < i /\ i <= page.seq /\ log'[i] # "retry" =>
            \E n \in 1..Len(page.shown) : page.shown[n] = i
    BY <2>2 DEF IInv, PageOK
  <2>4. /\ \A m, n \in 1..Len(page.shown) : m < n => page.shown[m] < page.shown[n]
        /\ \A n \in 1..Len(page.shown) : page.shown[n] <= page.seq
        /\ page.view = "settled" => Ended' \/ page.cut
        /\ page.view # "settled" => late < MaxLate
    BY DEF IInv, PageOK, BackendOK
  <2>5. page.seq <= Len(log')
    BY <1>1, <2>1
  <2> QED BY <2>1, <2>3, <2>4, <2>5 DEF PageOK
<1> QED BY <1>3, <1>4, <1>5, <1>6, <1>7 DEF IInv

LEMMA WorkerGone ==
  ASSUME IInv, worker' = NoWorker, UNCHANGED <<run, closer>>
  PROVE  BackendOK
<1>1. /\ worker'.pc = "idle" /\ worker'.buffer = FALSE
      /\ worker' \in [pc : {"idle", "prepare", "release", "execute", "flushed", "drain",
                            "committed", "cleaned", "said", "ended"},
                      buffer : BOOLEAN, says : {"none", "error", "interrupt"}]
  BY DEF NoWorker
<1>2. Ended' = Ended /\ Clean' = Clean
  BY DEF Ended, Clean
<1> QED BY <1>1, <1>2 DEF IInv, TypeOK, WorkerOK, BackendOK

LEMMA WorkStep ==
  ASSUME IInv, Work
  PROVE  IInv'
<1> USE DEF Ended, Live, Clean, Goto, NoWorker, MayAppend
<1>0. /\ TypeOK /\ WorkerOK /\ closer \in BOOLEAN
      /\ run \in [status : {"pending", "running", "interrupted", "over"},
                  fence : BOOLEAN, top : BOOLEAN, claimed : BOOLEAN]
      /\ worker \in [pc : {"idle", "prepare", "release", "execute", "flushed", "drain",
                           "committed", "cleaned", "said", "ended"},
                     buffer : BOOLEAN, says : {"none", "error", "interrupt"}]
  BY DEF IInv, TypeOK
<1>1. ASSUME Claim \/ ReleaseForRetry \/ BufferChunk \/ Commit \/ CommitInStream \/ ReleaseRuntime
      PROVE  IInv'
  <2>1. UNCHANGED <<log, first>> /\ UNCHANGED Reader
    BY <1>1 DEF Claim, ReleaseForRetry, BufferChunk, Commit, CommitInStream, ReleaseRuntime
  <2>2. BackendOK
    <3>1. CASE Claim
      BY <1>0, <3>1 DEF Claim, BackendOK, WorkerOK
    <3>2. CASE ReleaseForRetry
      <4>1. CASE run.status = "running"
        BY <1>0, <3>2, <4>1 DEF ReleaseForRetry, BackendOK, WorkerOK
      <4>2. CASE run.status # "running"
        BY <3>2, <4>2, WorkerGone DEF ReleaseForRetry
      <4> QED BY <4>1, <4>2
    <3>3. CASE BufferChunk
      BY <1>0, <3>3 DEF BufferChunk, BackendOK, WorkerOK
    <3>4. CASE Commit
      <4>1. CASE run.status = "running"
        BY <1>0, <3>4, <4>1 DEF Commit, BackendOK, WorkerOK
      <4>2. CASE run.status # "running"
        BY <3>4, <4>2, WorkerGone DEF Commit
      <4> QED BY <4>1, <4>2
    <3>5. CASE CommitInStream
      BY <1>0, <3>5 DEF CommitInStream, BackendOK, WorkerOK
    <3>6. CASE ReleaseRuntime
      <4>1. CASE run' = [run EXCEPT !.fence = FALSE] /\ Goto("cleaned")
        BY <1>0, <3>6, <4>1 DEF ReleaseRuntime, BackendOK, WorkerOK
      <4>2. CASE worker' = NoWorker /\ UNCHANGED run
        BY <3>6, <4>2, WorkerGone DEF ReleaseRuntime
      <4> QED BY <3>6, <4>1, <4>2 DEF ReleaseRuntime
    <3> QED BY <1>1, <3>1, <3>2, <3>3, <3>4, <3>5, <3>6
  <2>3. MayAppend({})
    BY <1>0, <1>1
    DEF Claim, ReleaseForRetry, BufferChunk, Commit, CommitInStream, ReleaseRuntime
  <2> QED BY <1>0, <2>1, <2>2, <2>3, QuietGrows, BackendStep
<1>2. CASE SayRetry
  <2>1. BackendOK
    BY <1>0, <1>2 DEF SayRetry, BackendOK, WorkerOK
  <2>2. Grows({"retry"})
    BY <1>0, <1>2, PublishGrows, QuietGrows DEF SayRetry, Kinds
  <2>3. MayAppend({"retry"})
    BY <1>0, <1>2 DEF SayRetry
  <2> QED BY <1>2, <2>1, <2>2, <2>3, BackendStep DEF SayRetry
<1>3. CASE StartExecution
  <2>1. BackendOK
    BY <1>0, <1>3 DEF StartExecution, BackendOK, WorkerOK
  <2>2. Grows({"data"})
    BY <1>0, <1>3, PublishGrows DEF StartExecution, Kinds
  <2>3. MayAppend({"data"})
    BY <1>0, <1>3 DEF StartExecution
  <2> QED BY <1>3, <2>1, <2>2, <2>3, BackendStep DEF StartExecution
<1>4. CASE Flush \/ Conclude \/ Drain
  <2>1. BackendOK
    <3>1. CASE Flush
      BY <1>0, <3>1 DEF Flush, BackendOK, WorkerOK
    <3>2. CASE Conclude
      BY <1>0, <3>2 DEF Conclude, LastChunks, BackendOK, WorkerOK
    <3>3. CASE Drain
      BY <1>0, <3>3 DEF Drain, LastChunks, BackendOK, WorkerOK
    <3> QED BY <1>4, <3>1, <3>2, <3>3
  <2> DEFINE kinds == IF worker.buffer THEN {"data"} ELSE {}
  <2>2. Grows(kinds)
    BY <1>0, <1>4, BufferGrows DEF Flush, Conclude, Drain, LastChunks
  <2>3. MayAppend(kinds)
    BY <1>0, <1>4 DEF Flush, Conclude, Drain, LastChunks, WorkerOK
  <2>4. UNCHANGED first /\ UNCHANGED Reader
    BY <1>4 DEF Flush, Conclude, Drain
  <2> HIDE DEF kinds
  <2> QED BY <2>1, <2>2, <2>3, <2>4, BackendStep
<1>5. CASE SayWhy
  <2>1. BackendOK
    BY <1>0, <1>5 DEF SayWhy, BackendOK, WorkerOK
  <2>2. Grows({worker.says})
    BY <1>0, <1>5, PublishGrows, QuietGrows DEF SayWhy, Kinds
  <2>3. MayAppend({worker.says})
    BY <1>0, <1>5 DEF SayWhy, WorkerOK
  <2> QED BY <1>5, <2>1, <2>2, <2>3, BackendStep DEF SayWhy
<1>6. CASE SayEnd
  <2>1. BackendOK
    BY <1>0, <1>6 DEF SayEnd, BackendOK, WorkerOK
  <2>2. Grows({"end"})
    BY <1>0, <1>6, PublishGrows DEF SayEnd, Kinds
  <2>3. MayAppend({"end"})
    BY <1>0, <1>6 DEF SayEnd, WorkerOK
  <2> QED BY <1>6, <2>1, <2>2, <2>3, BackendStep DEF SayEnd
<1> QED BY <1>1, <1>2, <1>3, <1>4, <1>5, <1>6 DEF Work

LEMMA ClosingStep ==
  ASSUME IInv, Closing \/ Crash \/ ExpireStream
  PROVE  IInv'
<1> USE DEF Ended, Live, Clean, NoWorker, MayAppend
<1>0. /\ TypeOK /\ WorkerOK /\ closer \in BOOLEAN
      /\ run \in [status : {"pending", "running", "interrupted", "over"},
                  fence : BOOLEAN, top : BOOLEAN, claimed : BOOLEAN]
      /\ worker \in [pc : {"idle", "prepare", "release", "execute", "flushed", "drain",
                           "committed", "cleaned", "said", "ended"},
                     buffer : BOOLEAN, says : {"none", "error", "interrupt"}]
  BY DEF IInv, TypeOK
<1>1. CASE PublishClosing
  <2>1. BackendOK
    BY <1>0, <1>1 DEF PublishClosing, BackendOK, WorkerOK
  <2>2. Grows({"closing"})
    BY <1>0, <1>1, PublishGrows DEF PublishClosing, Kinds
  <2>3. MayAppend({"closing"})
    BY <1>0, <1>1 DEF PublishClosing, WorkerOK
  <2> QED BY <1>1, <2>1, <2>2, <2>3, BackendStep DEF PublishClosing
<1>2. ASSUME ReconcileExpiredLease \/ CancelUnclaimed \/ CleanUp \/ Crash \/ ExpireStream
      PROVE  IInv'
  <2>1. UNCHANGED log /\ UNCHANGED Reader /\ (first' = first \/ first' = Len(log') + 1)
    BY <1>2 DEF ReconcileExpiredLease, CancelUnclaimed, CleanUp, Crash, ExpireStream
  <2>2. BackendOK
    <3>1. CASE ReconcileExpiredLease
      BY <1>0, <3>1 DEF ReconcileExpiredLease, BackendOK, WorkerOK
    <3>2. CASE CancelUnclaimed
      BY <1>0, <3>2 DEF CancelUnclaimed, BackendOK, WorkerOK
    <3>3. CASE CleanUp
      BY <1>0, <3>3 DEF CleanUp, PublishesEnd, BackendOK, WorkerOK
    <3>4. CASE Crash
      <4>1. CASE worker' = NoWorker /\ UNCHANGED closer
        BY <3>4, <4>1, WorkerGone DEF Crash
      <4>2. CASE closer' = FALSE /\ UNCHANGED worker
        BY <1>0, <3>4, <4>2 DEF Crash, BackendOK, WorkerOK
      <4> QED BY <3>4, <4>1, <4>2 DEF Crash
    <3>5. CASE ExpireStream
      BY <1>0, <3>5 DEF ExpireStream, BackendOK, WorkerOK
    <3> QED BY <1>2, <3>1, <3>2, <3>3, <3>4, <3>5
  <2>3. MayAppend({})
    BY <1>0, <1>2 DEF ReconcileExpiredLease, CancelUnclaimed, CleanUp, Crash, ExpireStream
  <2> QED BY <1>0, <2>1, <2>2, <2>3, QuietGrows, BackendStep
<1> QED BY <1>1, <1>2 DEF Closing

-----------------------------------------------------------------------------
(* The connection and the page                                             *)

Conns  == [pc : {"off", "load", "read", "check", "idle", "closed", "broken"},
           cursor : {0} \cup Ids, seen : {"live", "fenced", "over"}]
Events == [id : {0} \cup Ids, kind : Kinds \cup {"unavailable"}]
Pages  == [view : {"waiting", "streaming", "asking", "away", "settled", "stalled"},
           seq : {0} \cup Ids, shown : Seq(Ids), from : {0} \cup Ids, cut : BOOLEAN]

LEMMA ReaderStep ==
  ASSUME IInv, UNCHANGED Backend, conn' \in Conns, pipe' \in Seq(Events), page' \in Pages,
         late' \in 0..MaxLate, conn'.seen = "over" => Clean, WireOK', PageOK'
  PROVE  IInv'
<1>1. /\ run' = run /\ log' = log /\ first' = first /\ worker' = worker /\ closer' = closer
      /\ Ended' = Ended /\ Clean' = Clean
  BY DEF Backend, Ended, Clean
<1>2. TypeOK'
  BY <1>1 DEF IInv, TypeOK, Conns, Events, Pages
<1>3. WorkerOK'
  BY <1>1 DEF IInv, WorkerOK
<1>4. LogOK'
  BY <1>1 DEF IInv, LogOK
<1> QED BY <1>2, <1>3, <1>4 DEF IInv

LEMMA EmptyWire ==
  ASSUME IInv, UNCHANGED Backend, pipe' = <<>>, conn' \in Conns,
         conn' = NoConn \/ page'.view = "streaming",
         conn'.cursor \in {0, page'.seq}, page'.seq \in 0..Len(log)
  PROVE  pipe' \in Seq(Events) /\ WireOK'
<1>1. Len(pipe') = 0 /\ pipe' \in Seq(Events)
  BY EmptySeq
<1>2. log' = log /\ first' = first /\ Len(log) \in Nat /\ first \in Nat \ {0}
  BY Sequences DEF Backend, IInv, TypeOK
<1> QED BY <1>1, <1>2, EventsAssumption DEF WireOK

LEMMA FreshPage ==
  ASSUME IInv, UNCHANGED Backend, page'.seq = 0, page'.shown = <<>>,
         page'.view # "settled", late' < MaxLate
  PROVE  PageOK'
<1>1. log' = log /\ first' = first /\ Ended' = Ended /\ Len(log) \in Nat /\ first \in Nat \ {0}
  BY Sequences DEF Backend, Ended, IInv, TypeOK
<1>2. Len(page'.shown) = 0
  BY EmptySeq
<1> QED BY <1>1, <1>2, EventsAssumption DEF PageOK

(* The page keeps what it has.                                             *)
LEMMA SamePage ==
  ASSUME IInv, UNCHANGED Backend, page'.seq = page.seq, page'.shown = page.shown,
         page'.from = page.from, page'.view = "settled" => Ended \/ page'.cut,
         page'.view # "settled" => late' < MaxLate
  PROVE  PageOK'
<1>1. log' = log /\ first' = first /\ Ended' = Ended
  BY DEF Backend, Ended
<1> QED BY <1>1 DEF IInv, PageOK

LEMMA PageTypes ==
  ASSUME IInv
  PROVE  /\ page \in Pages /\ pipe \in Seq(Events) /\ conn \in Conns
         /\ Len(log) \in Nat /\ page.seq \in 0..Len(log) /\ conn.cursor \in 0..Len(log)
         /\ first \in 1..(Len(log) + 1) /\ Len(log) <= MaxEvents
         /\ NoConn \in Conns /\ NoConn.cursor = 0 /\ NoConn.seen = "live"
BY Sequences DEF IInv, TypeOK, PageOK, WireOK, LogOK, Pages, Events, Conns, NoConn, Ids

LEMMA LateBound ==
  ASSUME IInv
  PROVE  /\ late \in 0..MaxLate /\ late \in Nat /\ MaxLate \in Nat /\ 0 < MaxLate
         /\ page.view # "settled" => late < MaxLate
BY EventsAssumption DEF IInv, TypeOK, PageOK

LEMMA SettleStep ==
  ASSUME IInv, UNCHANGED Backend, NEW cut \in BOOLEAN, Settle(cut), Ended \/ cut, late < MaxLate
  PROVE  IInv'
<1>1. /\ page' \in Pages /\ page'.view = "settled" /\ page'.seq = page.seq
      /\ page'.shown = page.shown /\ page'.from = page.from /\ page'.cut = cut
  BY PageTypes DEF Settle, Pages
<1>2. PageOK'
  BY <1>1, SamePage
<1>3. late' \in 0..MaxLate
  BY LateBound DEF Settle
<1>4. conn' = NoConn /\ pipe' = <<>>
  BY DEF Settle, Hangup
<1>5. pipe' \in Seq(Events) /\ WireOK'
  BY <1>1, <1>4, PageTypes, EmptyWire
<1> QED BY <1>1, <1>2, <1>3, <1>4, <1>5, PageTypes, ReaderStep

(* The page goes on without a connection.                                  *)
LEMMA AloneStep ==
  ASSUME IInv, UNCHANGED Backend, pipe' = <<>>, conn' = NoConn, late' \in 0..MaxLate,
         page' \in Pages, page'.seq \in 0..Len(log), PageOK'
  PROVE  IInv'
<1>1. pipe' \in Seq(Events) /\ WireOK'
  BY PageTypes, EmptyWire
<1> QED BY <1>1, PageTypes, ReaderStep

(* It changes its view, and keeps what it shows.                           *)
LEMMA ViewStep ==
  ASSUME IInv, UNCHANGED Backend, pipe' = <<>>, conn' = NoConn, late' = late,
         NEW v \in {"waiting", "asking", "away"}, page' = [page EXCEPT !.view = v],
         page.view # "settled"
  PROVE  IInv'
<1>1. /\ page' \in Pages /\ page'.view = v /\ page'.seq = page.seq
      /\ page'.shown = page.shown /\ page'.from = page.from
  BY PageTypes DEF Pages
<1>2. PageOK'
  BY <1>1, SamePage, LateBound
<1> QED BY <1>1, <1>2, AloneStep, PageTypes, LateBound

LEMMA FreshStep ==
  ASSUME IInv, UNCHANGED Backend, pipe' = <<>>, conn' = NoConn, late' \in {0, late},
         NEW v \in {"waiting", "away"}, page' = Fresh(v), late' < MaxLate
  PROVE  IInv'
<1>1. page' \in Pages /\ page'.view = v /\ page'.seq = 0 /\ page'.shown = <<>>
  BY EmptySeq DEF Fresh, Pages
<1>2. PageOK'
  BY <1>1, FreshPage
<1> QED BY <1>1, <1>2, AloneStep, PageTypes, LateBound

LEMMA PreserveStep ==
  ASSUME IInv, UNCHANGED Backend, Preserve
  PROVE  IInv'
<1>1. /\ page' \in Pages /\ page'.view = "settled" /\ page'.seq = page.seq
      /\ page'.shown = page.shown /\ page'.from = page.from
  BY PageTypes DEF Preserve, Pages
<1>2. Ended /\ late' = late /\ pipe' = <<>> /\ conn' = NoConn
  BY DEF Preserve, Hangup, Ended
<1>3. PageOK'
  BY <1>1, <1>2, SamePage
<1> QED BY <1>1, <1>2, <1>3, AloneStep, PageTypes, LateBound

(* The page shows nothing from its cursor on.                              *)
LEMMA ClearedPage ==
  ASSUME IInv, UNCHANGED Backend, page'.seq \in 0..Len(log), page'.shown = <<>>,
         page'.from = page'.seq, page'.view = "settled" => Ended \/ page'.cut,
         page'.view # "settled" => late' < MaxLate
  PROVE  PageOK'
<1>1. log' = log /\ first' = first /\ Ended' = Ended /\ Len(log) \in Nat /\ first \in Nat
  BY Sequences DEF Backend, Ended, IInv, TypeOK
<1>2. Len(page'.shown) = 0
  BY EmptySeq
<1>3. \A i \in first..MaxEvents : ~(page'.from < i /\ i <= page'.seq)
  BY <1>1, EventsAssumption
<1> QED BY <1>1, <1>2, <1>3 DEF PageOK

LEMMA LateResetStep ==
  ASSUME IInv, LateReset
  PROVE  IInv'
<1>1. /\ UNCHANGED Backend /\ late > 0 /\ late' = late - 1
      /\ page.view # "streaming" => pipe = <<>> /\ conn = NoConn
  BY DEF LateReset, IInv, WireOK
<1>2. late' \in 0..MaxLate /\ late' < MaxLate
  BY <1>1, LateBound
<1>3. /\ page' \in Pages /\ page'.seq = page.seq /\ page'.shown = <<>>
      /\ page'.from = page.seq /\ page'.cut = page.cut
      /\ page'.view = IF page.view = "streaming" THEN "stalled" ELSE page.view
  BY PageTypes, EmptySeq DEF LateReset, Pages
<1>4. PageOK'
  BY <1>1, <1>2, <1>3, PageTypes, ClearedPage DEF IInv, PageOK
<1>5. pipe' = <<>> /\ conn' = NoConn
  BY <1>1 DEF LateReset, Hangup
<1> QED BY <1>1, <1>2, <1>3, <1>4, <1>5, PageTypes, AloneStep

LEMMA ConnectStep ==
  ASSUME IInv, Connect
  PROVE  IInv'
<1>1. /\ page.view = "waiting" /\ page' = [page EXCEPT !.view = "streaming"]
      /\ conn' = [pc |-> "load", cursor |-> page.seq, seen |-> "live"] /\ pipe' = <<>>
      /\ UNCHANGED Backend /\ late' = late
  BY DEF Connect
<1>2. /\ page' \in Pages /\ page'.view = "streaming" /\ page'.seq = page.seq
      /\ page'.shown = page.shown /\ page'.from = page.from
  BY <1>1, PageTypes DEF Pages
<1>3. PageOK'
  BY <1>1, <1>2, SamePage, LateBound
<1>4. conn' \in Conns /\ conn'.cursor = page'.seq /\ conn'.seen = "live"
  BY <1>1, <1>2, PageTypes DEF Conns, Pages
<1>5. pipe' \in Seq(Events) /\ WireOK'
  BY <1>1, <1>2, <1>4, PageTypes, EmptyWire
<1> QED BY <1>1, <1>2, <1>3, <1>4, <1>5, ReaderStep, LateBound

LEMMA ReturnStep ==
  ASSUME IInv, Return
  PROVE  IInv'
<1>1. /\ UNCHANGED Backend /\ late < MaxLate /\ pipe = <<>> /\ conn = NoConn
      /\ page.view \in {"away", "settled", "stalled", "waiting"}
  BY DEF Return, IInv, WireOK
<1>2. ASSUME page' = Fresh("waiting"), UNCHANGED <<conn, pipe, late>>
      PROVE  IInv'
  BY <1>1, <1>2, FreshStep
<1>3. ASSUME page.view # "settled", page' = Resume, UNCHANGED <<conn, pipe, late>>
      PROVE  IInv'
  <2>1. page' = [page EXCEPT !.view = "waiting", !.seq = ResumeCursor,
                             !.from = IF page.shown = <<>> THEN 0 ELSE page.from]
    BY <1>3 DEF Resume
  <2>2. CASE page.shown = <<>>
    <3>1. /\ page' \in Pages /\ page'.view = "waiting" /\ page'.seq = 0 /\ page'.shown = <<>>
      BY <2>1, <2>2, PageTypes DEF Pages, ResumeCursor
    <3>2. PageOK'
      BY <1>1, <1>3, <3>1, FreshPage
    <3> QED BY <1>1, <1>3, <3>1, <3>2, AloneStep, PageTypes, LateBound
  <2>3. CASE page.shown # <<>>
    <3>1. /\ page' \in Pages /\ page'.view = "waiting" /\ page'.seq = page.seq
          /\ page'.shown = page.shown /\ page'.from = page.from
      BY <2>1, <2>3, PageTypes DEF Pages, ResumeCursor
    <3>2. PageOK'
      BY <1>1, <1>3, <3>1, SamePage
    <3> QED BY <1>1, <1>3, <3>1, <3>2, AloneStep, PageTypes, LateBound
  <2> QED BY <2>2, <2>3
<1>4. CASE run.status = "over" /\ Settle(FALSE)
  BY <1>1, <1>4, SettleStep DEF Ended
<1>5. CASE page' = Resume /\ UNCHANGED <<conn, pipe, late>>
  BY <1>2, <1>3, <1>5 DEF Resume
<1> QED BY <1>1, <1>2, <1>4, <1>5, PreserveStep DEF Return

LEMMA UserStep ==
  ASSUME IInv, User \/ Watchdog \/ AskForRun \/ AskingFails \/ StreamEnds \/ Connect
  PROVE  IInv'
<1>0. /\ page.view # "streaming" => pipe = <<>> /\ conn = NoConn
      /\ page.view # "settled" => late < MaxLate
      /\ 0 < MaxLate
  BY LateBound DEF IInv, WireOK
<1>1. UNCHANGED Backend
  BY DEF User, Watchdog, AskForRun, AskingFails, StreamEnds, Connect, Leave, Return, Revisit
<1>2. CASE Watchdog
  BY <1>0, <1>1, <1>2, SettleStep DEF Watchdog, Ended
<1>3. CASE AskForRun \/ AskingFails
  <2>1. page.view = "asking"
    BY <1>3 DEF AskForRun, AskingFails
  <2>2. CASE Ended /\ Settle(FALSE)
    BY <1>0, <1>1, <2>1, <2>2, SettleStep
  <2>3. CASE page' = [page EXCEPT !.view = "waiting"] /\ UNCHANGED <<conn, pipe, late>>
    BY <1>0, <1>1, <2>1, <2>3, ViewStep
  <2> QED BY <1>1, <1>3, <2>2, <2>3, PreserveStep DEF AskForRun, AskingFails
<1>4. CASE StreamEnds
  <2>1. PICK v \in {"waiting", "asking"} : page' = [page EXCEPT !.view = v]
    BY <1>4 DEF StreamEnds
  <2>2. pipe' = <<>> /\ conn' = NoConn /\ late' = late /\ page.view = "streaming"
    BY <1>4 DEF StreamEnds, Hangup
  <2> QED BY <1>1, <2>1, <2>2, ViewStep
<1>5. CASE Leave
  <2>1. pipe' = <<>> /\ conn' = NoConn
    BY <1>5 DEF Leave, Hangup
  <2>2. CASE page.view = "streaming" /\ page' = [page EXCEPT !.view = "away"] /\ UNCHANGED late
    BY <1>1, <2>1, <2>2, ViewStep
  <2>3. CASE page' = Fresh("away") /\ late' = 0
    BY <1>0, <1>1, <2>1, <2>3, FreshStep
  <2> QED BY <1>5, <2>2, <2>3 DEF Leave
<1>6. CASE Revisit
  <2>1. page.view = "streaming"
    BY <1>6 DEF Revisit
  <2>2. CASE run.status = "over" /\ Settle(FALSE)
    BY <1>0, <1>1, <2>1, <2>2, SettleStep DEF Ended
  <2>3. CASE page' = Fresh("waiting") /\ Hangup /\ UNCHANGED late
    BY <1>0, <1>1, <2>1, <2>3, FreshStep DEF Hangup
  <2> QED BY <1>1, <1>6, <2>2, <2>3, PreserveStep DEF Revisit
<1> QED BY <1>2, <1>3, <1>4, <1>5, <1>6, ReturnStep, ConnectStep DEF User

(* A step of the generator.                                                *)
LEMMA ServedStep ==
  ASSUME IInv, UNCHANGED Backend, page' = page, late' = late, conn' \in Conns, pipe' \in Seq(Events),
         conn'.seen = "over" => Clean, WireOK'
  PROVE  IInv'
<1>1. page' \in Pages /\ PageOK'
  BY PageTypes DEF IInv, PageOK, Backend, Ended
<1> QED BY <1>1, ReaderStep, LateBound

LEMMA ReturnedConn ==
  ASSUME NEW pc \in {"closed", "broken"}
  PROVE  Returned(pc) \in Conns /\ Returned(pc).cursor = 0 /\ Returned(pc).seen = "live"
BY DEF Returned, NoConn, Conns

LEMMA ConnectedStreams ==
  ASSUME IInv, conn.pc # "off"
  PROVE  page.view = "streaming"
BY DEF IInv, WireOK, NoConn

(* The wire gets what has no id, or keeps what it has.                     *)
LEMMA SayStep ==
  ASSUME IInv, UNCHANGED Backend, page' = page, late' = late, conn.pc # "off", conn' \in Conns,
         conn'.cursor \in {0, conn.cursor}, conn'.seen = "over" => Clean,
         \/ pipe' = pipe
         \/ \E k \in {"unavailable", "end"} :
              pipe' = Append(pipe, Event(0, k)) /\ (k = "end" => Clean)
  PROVE  IInv'
<1>1. /\ pipe \in Seq(Events) /\ Len(pipe) \in Nat /\ page.view = "streaming"
      /\ log' = log /\ first' = first /\ Clean' = Clean
      /\ Len(log) \in Nat /\ conn.cursor \in 0..Len(log) /\ first \in 1..(Len(log) + 1)
      /\ page.seq \in 0..Len(log) /\ MaxEvents \in Nat
  BY PageTypes, Sequences, ConnectedStreams, EventsAssumption
  DEF Backend, Clean, Ended, IInv
<1>2. CASE pipe' = pipe
  <2>1. \A n \in 1..Len(pipe') :
          \/ pipe'[n].id = 0 /\ (pipe'[n].kind = "unavailable" \/ (pipe'[n].kind = "end" /\ Clean))
          \/ pipe'[n].id \in 1..Len(log) /\ pipe'[n].kind = log[pipe'[n].id]
    BY <1>2 DEF IInv, WireOK
  <2>2. \A n \in 1..Len(pipe'), i \in first..MaxEvents :
          i < pipe'[n].id => i <= page.seq \/ \E m \in 1..Len(pipe') : m < n /\ pipe'[m].id = i
    BY <1>2 DEF IInv, WireOK
  <2>3. ASSUME NEW i \in first..MaxEvents, i <= conn'.cursor
        PROVE  i <= page.seq \/ \E m \in 1..Len(pipe') : pipe'[m].id = i
    <3>1. i <= conn.cursor
      BY <1>1, <2>3
    <3> QED BY <1>2, <3>1 DEF IInv, WireOK
  <2>4. conn'.cursor <= Len(log)
    BY <1>1
  <2>5. WireOK'
    BY <1>1, <2>1, <2>2, <2>3, <2>4 DEF WireOK
  <2> QED BY <1>1, <1>2, <2>5, ServedStep
<1>3. ASSUME NEW k \in {"unavailable", "end"},
             pipe' = Append(pipe, Event(0, k)), k = "end" => Clean
      PROVE  IInv'
  <2>1. Event(0, k) \in Events /\ Event(0, k).id = 0 /\ Event(0, k).kind = k
    BY DEF Event, Events, Kinds
  <2>2. /\ pipe' \in Seq(Events) /\ Len(pipe') = Len(pipe) + 1
        /\ \A i \in 1..Len(pipe) : pipe'[i] = pipe[i]
        /\ pipe'[Len(pipe) + 1] = Event(0, k)
    BY <1>1, <1>3, <2>1, AppendProperties
  <2>3. \A n \in 1..Len(pipe') : n \in 1..Len(pipe) \/ n = Len(pipe) + 1
    BY <1>1, <2>2
  <2>4. \A n \in 1..Len(pipe') :
          \/ pipe'[n].id = 0 /\ (pipe'[n].kind = "unavailable" \/ (pipe'[n].kind = "end" /\ Clean))
          \/ pipe'[n].id \in 1..Len(log) /\ pipe'[n].kind = log[pipe'[n].id]
    BY <1>3, <2>1, <2>2, <2>3 DEF IInv, WireOK
  <2>5. ASSUME NEW n \in 1..Len(pipe'), NEW i \in first..MaxEvents, i < pipe'[n].id
        PROVE  i <= page.seq \/ \E m \in 1..Len(pipe') : m < n /\ pipe'[m].id = i
    <3>1. n \in 1..Len(pipe)
      BY <1>1, <2>1, <2>2, <2>3, <2>5
    <3>2. i <= page.seq \/ \E m \in 1..Len(pipe) : m < n /\ pipe[m].id = i
      BY <2>2, <2>5, <3>1 DEF IInv, WireOK
    <3> QED BY <1>1, <2>2, <3>2
  <2>6. ASSUME NEW i \in first..MaxEvents, i <= conn'.cursor
        PROVE  i <= page.seq \/ \E m \in 1..Len(pipe') : pipe'[m].id = i
    <3>1. i <= conn.cursor
      BY <1>1, <2>6
    <3>2. i <= page.seq \/ \E m \in 1..Len(pipe) : pipe[m].id = i
      BY <3>1 DEF IInv, WireOK
    <3> QED BY <1>1, <2>2, <3>2
  <2>7. WireOK'
    BY <1>1, <2>4, <2>5, <2>6 DEF WireOK
  <2> QED BY <2>2, <2>7, ServedStep
<1> QED BY <1>2, <1>3

LEMMA BreakStep ==
  ASSUME IInv, Break
  PROVE  IInv'
<1>1. /\ pipe \in Seq(Events) /\ Len(pipe) \in Nat /\ page.view = "streaming"
      /\ log' = log /\ first' = first /\ Clean' = Clean
      /\ Len(log) \in Nat /\ first \in 1..(Len(log) + 1)
      /\ UNCHANGED Backend /\ page' = page /\ late' = late /\ conn' = Returned("broken")
  BY PageTypes, Sequences, ConnectedStreams DEF Backend, Clean, Ended, IInv, Break
<1>2. PICK l \in 0..Len(pipe) : pipe' = SubSeq(pipe, 1, l)
  BY DEF Break
<1>3. /\ pipe' \in Seq(Events) /\ Len(pipe') = l
      /\ \A i \in 1..l : pipe'[i] = pipe[i]
  <2>1. \A i \in 1..l : pipe[i] \in Events
    BY <1>1, ElementOfSeq
  <2> QED BY <1>1, <1>2, <2>1, SubSeqProperties
<1>4. conn' \in Conns /\ conn'.cursor = 0 /\ conn'.seen = "live"
  BY <1>1, ReturnedConn
<1>5. WireOK'
  <2>1. \A n \in 1..Len(pipe') : n \in 1..Len(pipe) /\ pipe'[n] = pipe[n]
    BY <1>1, <1>3
  <2>2. \A n \in 1..Len(pipe') :
          \/ pipe'[n].id = 0 /\ (pipe'[n].kind = "unavailable" \/ (pipe'[n].kind = "end" /\ Clean))
          \/ pipe'[n].id \in 1..Len(log) /\ pipe'[n].kind = log[pipe'[n].id]
    BY <2>1 DEF IInv, WireOK
  <2>3. ASSUME NEW n \in 1..Len(pipe'), NEW i \in first..MaxEvents, i < pipe'[n].id
        PROVE  i <= page.seq \/ \E m \in 1..Len(pipe') : m < n /\ pipe'[m].id = i
    <3>1. i <= page.seq \/ \E m \in 1..Len(pipe) : m < n /\ pipe[m].id = i
      BY <2>1, <2>3 DEF IInv, WireOK
    <3>2. \A m \in 1..Len(pipe) : m < n => m \in 1..Len(pipe') /\ pipe'[m] = pipe[m]
      BY <1>1, <1>3
    <3> QED BY <3>1, <3>2
  <2>4. \A i \in first..MaxEvents : ~(i <= conn'.cursor)
    BY <1>1, <1>4
  <2> QED BY <1>1, <1>4, <2>2, <2>3, <2>4 DEF WireOK
<1> QED BY <1>1, <1>3, <1>4, <1>5, ServedStep

(* The page takes an event off the wire and goes on.                       *)
LEMMA ReceiveStep ==
  ASSUME IInv, Receive
  PROVE  IInv'
<1> DEFINE e == Head(pipe)
<1>1. /\ pipe \in Seq(Events) /\ Len(pipe) \in Nat /\ page.view = "streaming" /\ pipe # <<>>
      /\ log' = log /\ first' = first /\ Clean' = Clean /\ UNCHANGED Backend
      /\ Len(log) \in Nat /\ first \in 1..(Len(log) + 1) /\ Len(log) <= MaxEvents
      /\ page \in Pages /\ page.seq \in 0..Len(log) /\ MaxEvents \in Nat
      /\ conn \in Conns /\ conn.cursor \in 0..Len(log)
  BY PageTypes, Sequences, EventsAssumption DEF Backend, Clean, Ended, IInv, Receive
<1>2. /\ Len(pipe) >= 1 /\ e = pipe[1] /\ e \in Events
      /\ Tail(pipe) \in Seq(Events) /\ Len(Tail(pipe)) = Len(pipe) - 1
      /\ \A n \in 1..Len(Tail(pipe)) : Tail(pipe)[n] = pipe[n + 1]
  <2>1. Len(pipe) >= 1 /\ e = pipe[1]
    BY <1>1, EmptySeq
  <2> QED BY <1>1, <2>1, HeadTailProperties
<1>3. \/ e.id = 0 /\ (e.kind = "unavailable" \/ (e.kind = "end" /\ Clean))
      \/ e.id \in 1..Len(log) /\ e.kind = log[e.id]
  BY <1>1, <1>2 DEF IInv, WireOK
<1>4. CASE IsNews(e) /\ Ending(e.kind)
  <2>1. Settle(e.kind = "unavailable")
    BY <1>4 DEF Receive
  <2>2. Ended \/ e.kind = "unavailable"
    BY <1>1, <1>3, <1>4 DEF Ending, IsEnd, Clean, IInv, LogOK
  <2> QED BY <1>1, <2>1, <2>2, SettleStep, LateBound
<1>5. CASE ~(IsNews(e) /\ Ending(e.kind))
  <2>1. /\ page' = IF ~IsNews(e) THEN page
                   ELSE [page EXCEPT !.seq = e.id,
                           !.shown = IF e.kind = "retry" THEN page.shown ELSE Append(page.shown, e.id)]
        /\ pipe' = Tail(pipe) /\ conn' = conn /\ late' = late
    BY <1>5 DEF Receive
  <2>2. e.id \in 1..Len(log) /\ e.kind = log[e.id] /\ e.id \in Ids
    BY <1>1, <1>3, <1>5 DEF IsNews, Ending, IsEnd, Ids
  <2>3. /\ page' \in Pages /\ page'.view = "streaming"
        /\ page'.seq \in 0..Len(log) /\ page.seq <= page'.seq /\ e.id <= page'.seq
        /\ page' = page \/ (page.seq < e.id /\ page'.seq = e.id)
        /\ page'.from = page.from
    <3>1. page' \in Pages /\ page'.view = "streaming" /\ page'.seq \in {page.seq, e.id}
          /\ page'.from = page.from
      <4>1. Append(page.shown, e.id) \in Seq(Ids)
        BY <1>1, <2>2, AppendProperties DEF Pages
      <4> QED BY <1>1, <2>1, <2>2, <4>1 DEF Pages
    <3> QED BY <1>1, <2>1, <2>2, <3>1 DEF IsNews, Pages
  <2> HIDE DEF e
  <2>4. WireOK'
    <3>1. \A n \in 1..Len(pipe') : n + 1 \in 1..Len(pipe) /\ pipe'[n] = pipe[n + 1]
      BY <1>1, <1>2, <2>1
    <3>2. ASSUME NEW i \in first..MaxEvents, NEW m \in 1..Len(pipe), pipe[m].id = i
          PROVE  i <= page'.seq \/ (m - 1 \in 1..Len(pipe') /\ pipe'[m - 1].id = i)
      <4>1. CASE m = 1
        BY <1>2, <2>3, <3>2, <4>1
      <4>2. CASE m # 1
        <5>1. m - 1 \in 1..Len(pipe') /\ (m - 1) + 1 = m
          BY <1>1, <1>2, <2>1, <4>2
        <5>2. pipe'[m - 1] = pipe[m]
          BY <3>1, <5>1
        <5> QED BY <3>2, <5>1, <5>2
      <4> QED BY <4>1, <4>2
    <3>3. \A n \in 1..Len(pipe') :
            \/ /\ pipe'[n].id = 0
               /\ pipe'[n].kind = "unavailable" \/ (pipe'[n].kind = "end" /\ Clean)
            \/ pipe'[n].id \in 1..Len(log) /\ pipe'[n].kind = log[pipe'[n].id]
      BY <3>1 DEF IInv, WireOK
    <3>4. ASSUME NEW n \in 1..Len(pipe'), NEW i \in first..MaxEvents, i < pipe'[n].id
          PROVE  i <= page'.seq \/ \E m \in 1..Len(pipe') : m < n /\ pipe'[m].id = i
      <4>1. i <= page.seq \/ \E m \in 1..Len(pipe) : m < n + 1 /\ pipe[m].id = i
        BY <3>1, <3>4 DEF IInv, WireOK
      <4>2. CASE i <= page.seq
        BY <1>1, <2>3, <4>2
      <4>3. ASSUME NEW m \in 1..Len(pipe), m < n + 1, pipe[m].id = i
            PROVE  i <= page'.seq \/ \E l \in 1..Len(pipe') : l < n /\ pipe'[l].id = i
        <5>1. m - 1 < n
          BY <4>3
        <5> QED BY <3>2, <4>3, <5>1
      <4> QED BY <4>1, <4>2, <4>3
    <3>5. ASSUME NEW i \in first..MaxEvents, i <= conn.cursor
          PROVE  i <= page'.seq \/ \E m \in 1..Len(pipe') : pipe'[m].id = i
      <4>1. i <= page.seq \/ \E m \in 1..Len(pipe) : pipe[m].id = i
        BY <3>5 DEF IInv, WireOK
      <4> QED BY <1>1, <2>3, <3>2, <4>1
    <3> QED BY <1>1, <2>1, <2>3, <3>3, <3>4, <3>5 DEF WireOK
  <2>5. PageOK'
    <3>1. CASE page' = page
      BY <1>1, <2>1, <3>1, SamePage, LateBound
    <3>2. CASE page.seq < e.id /\ page'.seq = e.id
      <4>1. page'.shown = IF e.kind = "retry" THEN page.shown ELSE Append(page.shown, e.id)
        BY <1>1, <2>1, <3>2 DEF Pages
      <4>2. /\ page.shown \in Seq(Ids) /\ Len(page.shown) \in Nat
            /\ \A n \in 1..Len(page.shown) : page.shown[n] \in Nat /\ page.shown[n] <= page.seq
        BY <1>1, Sequences DEF Pages, IInv, PageOK, Ids
      <4>3. /\ Len(page'.shown) \in Nat /\ Len(page.shown) <= Len(page'.shown)
            /\ Len(page'.shown) <= Len(page.shown) + 1
            /\ \A n \in 1..Len(page.shown) : page'.shown[n] = page.shown[n]
            /\ Len(page'.shown) = Len(page.shown) + 1 => page'.shown[Len(page.shown) + 1] = e.id
            /\ e.kind # "retry" => Len(page'.shown) = Len(page.shown) + 1
        BY <2>2, <4>1, <4>2, AppendProperties
      <4>4. \A n \in 1..Len(page'.shown) :
              \/ n \in 1..Len(page.shown) /\ page'.shown[n] = page.shown[n]
              \/ n = Len(page.shown) + 1 /\ page'.shown[n] = e.id
        BY <4>2, <4>3
      <4>5. \A m, n \in 1..Len(page'.shown) : m < n => page'.shown[m] < page'.shown[n]
        <5> SUFFICES ASSUME NEW m \in 1..Len(page'.shown), NEW n \in 1..Len(page'.shown), m < n
                     PROVE  page'.shown[m] < page'.shown[n]
          OBVIOUS
        <5>1. m \in 1..Len(page.shown) /\ page'.shown[m] = page.shown[m]
          BY <4>2, <4>3, <4>4
        <5>2. CASE n \in 1..Len(page.shown) /\ page'.shown[n] = page.shown[n]
          BY <5>1, <5>2 DEF IInv, PageOK
        <5>3. CASE n = Len(page.shown) + 1 /\ page'.shown[n] = e.id
          <6>1. page.shown[m] \in Nat /\ page.shown[m] <= page.seq
            BY <4>2, <5>1
          <6>2. page.seq \in Nat /\ e.id \in Nat /\ page.seq < e.id
            BY <1>1, <2>2, <3>2
          <6>3. page.shown[m] < e.id
            BY <6>1, <6>2
          <6> QED BY <5>1, <5>3, <6>3
        <5> QED BY <4>4, <5>2, <5>3
      <4>6. ASSUME NEW n \in 1..Len(page'.shown)
            PROVE  page'.shown[n] <= page'.seq
        <5>1. page.seq \in Nat /\ e.id \in Nat /\ page.seq < e.id /\ page'.seq = e.id
          BY <1>1, <2>2, <3>2
        <5>2. CASE n \in 1..Len(page.shown) /\ page'.shown[n] = page.shown[n]
          <6>1. page.shown[n] \in Nat /\ page.shown[n] <= page.seq
            BY <4>2, <5>2
          <6>2. page.shown[n] <= e.id
            BY <5>1, <6>1
          <6> QED BY <5>1, <5>2, <6>2
        <5>3. CASE page'.shown[n] = e.id
          BY <5>1, <5>3
        <5> QED BY <4>4, <5>2, <5>3
      <4>7. ASSUME NEW i \in first..MaxEvents, page'.from < i, i <= page'.seq, log[i] # "retry"
            PROVE  \E n \in 1..Len(page'.shown) : page'.shown[n] = i
        <5>1. CASE i <= page.seq
          <6>1. \E n \in 1..Len(page.shown) : page.shown[n] = i
            BY <1>1, <2>3, <4>7, <5>1 DEF IInv, PageOK
          <6> QED BY <4>2, <4>3, <6>1
        <5>2. CASE i < e.id
          BY <1>1, <1>2, <4>7, <5>1, <5>2 DEF IInv, WireOK
        <5>3. CASE i = e.id
          BY <2>2, <4>2, <4>3, <4>7, <5>3
        <5> QED BY <1>1, <2>2, <3>2, <4>7, <5>1, <5>2, <5>3
      <4>8. page'.seq <= Len(log') /\ page'.view # "settled" /\ late' < MaxLate
        BY <1>1, <2>1, <2>3, LateBound
      <4> QED BY <1>1, <4>5, <4>6, <4>7, <4>8 DEF PageOK
    <3> QED BY <2>3, <3>1, <3>2
  <2>6. conn.seen = "over" => Clean
    BY DEF IInv, WorkerOK
  <2> QED BY <1>1, <1>2, <2>1, <2>3, <2>4, <2>5, <2>6, ReaderStep, LateBound
<1> QED BY <1>4, <1>5

-----------------------------------------------------------------------------
(* The generator                                                           *)

LEMMA JudgedOver == Judged = "over" => Clean
BY DEF Judged, Live, Clean

LEMMA GeneratorStep ==
  ASSUME IInv, LoadRun \/ Unavailable \/ Expire \/ \E loads \in BOOLEAN : CheckStatus(loads)
  PROVE  IInv'
<1>1. conn \in Conns /\ (conn.seen = "over" => Clean)
  BY PageTypes DEF IInv, WorkerOK
<1>2. CASE LoadRun
  <2>1. /\ UNCHANGED Backend /\ page' = page /\ late' = late /\ pipe' = pipe /\ conn.pc # "off"
        /\ conn' = [conn EXCEPT !.pc = "read", !.seen = Judged]
    BY <1>2 DEF LoadRun
  <2>2. Judged \in {"live", "fenced", "over"}
    BY DEF Judged
  <2>3. conn' \in Conns /\ conn'.cursor = conn.cursor /\ conn'.seen = Judged
    BY <1>1, <2>1, <2>2 DEF Conns
  <2> QED BY <2>1, <2>3, JudgedOver, SayStep
<1>3. CASE Unavailable
  <2>1. /\ UNCHANGED Backend /\ page' = page /\ late' = late /\ conn.pc # "off" /\ conn' = Returned("closed")
        /\ pipe' = Append(pipe, Event(0, "unavailable"))
    BY <1>3 DEF Unavailable
  <2> QED BY <2>1, ReturnedConn, SayStep
<1>4. CASE Expire
  <2>1. /\ UNCHANGED Backend /\ page' = page /\ late' = late /\ conn.pc # "off" /\ conn' = Returned("closed")
        /\ pipe' = pipe
    BY <1>4 DEF Expire
  <2> QED BY <2>1, ReturnedConn, SayStep
<1>5. ASSUME NEW loads \in BOOLEAN, CheckStatus(loads)
      PROVE  IInv'
  <2>1. UNCHANGED Backend /\ page' = page /\ late' = late /\ conn.pc # "off"
    BY <1>5 DEF CheckStatus
  <2>2. PICK seen : seen = IF loads THEN Judged ELSE conn.seen
    OBVIOUS
  <2>3. seen \in {"live", "fenced", "over"} /\ (seen = "over" => Clean)
    BY <1>1, <2>2, JudgedOver DEF Judged, Conns
  <2>4. \/ seen = "over" /\ pipe' = Append(pipe, Event(0, "end")) /\ conn' = Returned("closed")
        \/ conn' = [conn EXCEPT !.pc = "read", !.seen = seen] /\ pipe' = pipe
    BY <1>5, <2>2 DEF CheckStatus, MayEnd
  <2>5. CASE pipe' = Append(pipe, Event(0, "end")) /\ conn' = Returned("closed") /\ seen = "over"
    BY <2>1, <2>3, <2>5, ReturnedConn, SayStep
  <2>6. CASE conn' = [conn EXCEPT !.pc = "read", !.seen = seen] /\ pipe' = pipe
    <3>1. conn' \in Conns /\ conn'.cursor = conn.cursor /\ conn'.seen = seen
      BY <1>1, <2>3, <2>6 DEF Conns
    <3> QED BY <2>1, <2>3, <2>6, <3>1, SayStep
  <2> QED BY <2>4, <2>5, <2>6
<1> QED BY <1>2, <1>3, <1>4, <1>5

(* What one read of the stream gives: its events, one after the other,     *)
(* from the first that the connection has not read.                        *)
LEMMA BatchEvents ==
  ASSUME IInv
  PROVE  \E from \in 1..(Len(log) + 1), n \in Nat :
           /\ from = IF conn.cursor < first THEN first ELSE conn.cursor + 1
           /\ from + n <= Len(log) + 1
           /\ Batch \in Seq(Events) /\ Len(Batch) = n /\ DOMAIN Batch = 1..n
           /\ \A m \in 1..n : /\ Batch[m].id = from + m - 1
                              /\ from + m - 1 \in 1..Len(log)
                              /\ Batch[m].kind = log[from + m - 1]
<1>1. /\ log \in Seq(Kinds) /\ Len(log) \in Nat /\ conn.cursor \in 0..Len(log)
      /\ first \in 1..(Len(log) + 1) /\ Len(log) <= MaxEvents
      /\ Limit \in Nat \ {0} /\ MaxEvents \in Nat
      /\ \A i \in 1..Len(log) : log[i] \in Kinds
  BY PageTypes, Sequences, EventsAssumption DEF IInv, TypeOK
<1>2. PICK from : from = IF conn.cursor < first THEN first ELSE conn.cursor + 1
  OBVIOUS
<1>3. PICK to : to = IF from + Limit - 1 < Len(log) THEN from + Limit - 1 ELSE Len(log)
  OBVIOUS
<1>4. PICK n : n = to + 1 - from
  OBVIOUS
<1>5. from \in 1..(Len(log) + 1)
  BY <1>1, <1>2
<1>6. n \in Nat /\ from + n <= Len(log) + 1
  BY <1>1, <1>3, <1>4, <1>5
<1>7. Batch = [m \in 1..n |-> Event(from + m - 1, log[from + m - 1])]
  BY <1>2, <1>3, <1>4 DEF Batch
<1>8. ASSUME NEW m \in 1..n
      PROVE  /\ from + m - 1 \in 1..Len(log)
             /\ Batch[m] = Event(from + m - 1, log[from + m - 1])
             /\ Batch[m] \in Events
  <2>1. from + m - 1 \in 1..Len(log)
    BY <1>5, <1>6, <1>1
  <2>2. Batch[m] = Event(from + m - 1, log[from + m - 1])
    BY <1>7
  <2>3. from + m - 1 \in Ids /\ log[from + m - 1] \in Kinds
    BY <1>1, <2>1 DEF Ids
  <2> QED BY <2>1, <2>2, <2>3 DEF Event, Events
<1>9. Batch \in Seq(Events)
  <2>1. Batch \in [1..n -> Events]
    BY <1>7, <1>8
  <2> QED BY <1>6, <2>1, SeqDef
<1>10. DOMAIN Batch = 1..n /\ Len(Batch) = n
  <2>1. DOMAIN Batch = 1..n /\ DOMAIN Batch = 1..Len(Batch) /\ Len(Batch) \in Nat
    BY <1>7, <1>9, LenProperties
  <2>2. 1..n = 1..Len(Batch)
    BY <2>1
  <2> QED BY <1>6, <2>1, <2>2
<1>11. \A m \in 1..n : /\ Batch[m].id = from + m - 1
                       /\ from + m - 1 \in 1..Len(log)
                       /\ Batch[m].kind = log[from + m - 1]
  <2> SUFFICES ASSUME NEW m \in 1..n
               PROVE  /\ Batch[m].id = from + m - 1
                      /\ from + m - 1 \in 1..Len(log)
                      /\ Batch[m].kind = log[from + m - 1]
    OBVIOUS
  <2>1. /\ Event(from + m - 1, log[from + m - 1]).id = from + m - 1
        /\ Event(from + m - 1, log[from + m - 1]).kind = log[from + m - 1]
    BY DEF Event
  <2> QED BY <1>8, <2>1
<1> QED BY <1>2, <1>5, <1>6, <1>9, <1>10, <1>11

LEMMA Offset ==
  ASSUME NEW i \in Nat, NEW from \in Nat, NEW size \in Nat, from <= i, i < from + size
  PROVE  i + 1 - from \in 1..size /\ from + (i + 1 - from) - 1 = i
OBVIOUS

LEMMA ReadEventsStep ==
  ASSUME IInv, ReadEvents
  PROVE  IInv'
<1>1. /\ pipe \in Seq(Events) /\ Len(pipe) \in Nat /\ page.view = "streaming"
      /\ UNCHANGED Backend /\ log' = log /\ first' = first /\ Clean' = Clean /\ page' = page /\ late' = late
      /\ Len(log) \in Nat /\ conn \in Conns /\ conn.cursor \in 0..Len(log)
      /\ first \in 1..(Len(log) + 1) /\ Len(log) <= MaxEvents /\ MaxEvents \in Nat
      /\ page.seq \in 0..Len(log) /\ pipe' = pipe \o Batch
      /\ conn.seen = "over" => Clean
  BY PageTypes, Sequences, ConnectedStreams, EventsAssumption
  DEF Backend, Clean, Ended, IInv, WorkerOK, ReadEvents
<1>2. PICK from \in 1..(Len(log) + 1), size \in Nat :
        /\ from = IF conn.cursor < first THEN first ELSE conn.cursor + 1
        /\ from + size <= Len(log) + 1
        /\ Batch \in Seq(Events) /\ Len(Batch) = size /\ DOMAIN Batch = 1..size
        /\ \A m \in 1..size : /\ Batch[m].id = from + m - 1
                              /\ from + m - 1 \in 1..Len(log)
                              /\ Batch[m].kind = log[from + m - 1]
  BY BatchEvents
<1>0. /\ from \in Nat /\ size \in Nat /\ Len(pipe) \in Nat /\ page.seq \in Nat
      /\ conn.cursor \in Nat /\ first..MaxEvents \subseteq Nat
      /\ from = IF conn.cursor < first THEN first ELSE conn.cursor + 1
  BY <1>1, <1>2
<1>3. /\ pipe' \in Seq(Events) /\ Len(pipe') = Len(pipe) + size
      /\ \A i \in 1..Len(pipe) : i \in 1..Len(pipe') /\ pipe'[i] = pipe[i]
      /\ \A m \in 1..size : Len(pipe) + m \in 1..Len(pipe') /\ pipe'[Len(pipe) + m] = Batch[m]
  <2>1. /\ pipe' \in Seq(Events) /\ Len(pipe') = Len(pipe) + size
        /\ \A i \in 1..(Len(pipe) + size) :
             pipe'[i] = IF i <= Len(pipe) THEN pipe[i] ELSE Batch[i - Len(pipe)]
    BY <1>1, <1>2, ConcatProperties
  <2>2. ASSUME NEW m \in 1..size
        PROVE  Len(pipe) + m \in 1..Len(pipe') /\ pipe'[Len(pipe) + m] = Batch[m]
    <3>1. /\ Len(pipe) + m \in 1..(Len(pipe) + size) /\ ~(Len(pipe) + m <= Len(pipe))
          /\ (Len(pipe) + m) - Len(pipe) = m
      BY <1>1, <1>2
    <3> QED BY <2>1, <3>1
  <2> QED BY <1>1, <2>1, <2>2
<1>4. ASSUME NEW n \in 1..Len(pipe')
      PROVE  \/ n \in 1..Len(pipe) /\ pipe'[n] = pipe[n]
             \/ \E m \in 1..size : n = Len(pipe) + m /\ pipe'[n] = Batch[m]
  <2>1. CASE n <= Len(pipe)
    BY <1>1, <1>3, <2>1
  <2>2. CASE n > Len(pipe)
    <3>1. n - Len(pipe) \in 1..size /\ n = Len(pipe) + (n - Len(pipe))
      BY <1>1, <1>3, <2>2
    <3> QED BY <1>3, <3>1
  <2> QED BY <1>1, <1>3, <2>1, <2>2
(* What is behind the cursor is on its way already.                        *)
<1>5. ASSUME NEW i \in first..MaxEvents, i < from
      PROVE  i <= page.seq \/ \E m \in 1..Len(pipe) : pipe'[m].id = i
  <2>1. i <= conn.cursor
    BY <1>1, <1>2, <1>5
  <2>2. i <= page.seq \/ \E m \in 1..Len(pipe) : pipe[m].id = i
    BY <2>1 DEF IInv, WireOK
  <2> QED BY <1>3, <2>2
<1>6. ASSUME NEW i \in first..MaxEvents, from <= i, i < from + size
      PROVE  i + 1 - from \in 1..size /\ pipe'[Len(pipe) + (i + 1 - from)].id = i
  <2>1. i + 1 - from \in 1..size /\ from + (i + 1 - from) - 1 = i
    <3>1. i \in Nat
      BY <1>0
    <3> QED BY <1>0, <1>6, <3>1, Offset
  <2> QED BY <1>2, <1>3, <2>1
<1>7. /\ conn' \in Conns /\ conn'.cursor \in 0..Len(log) /\ conn'.cursor < from + size
      /\ conn'.seen = "over" => Clean
  <2>1. CASE conn' = Returned("closed")
    BY <1>1, <1>2, <2>1, ReturnedConn
  <2>2. CASE conn' = [conn EXCEPT !.pc = "idle"]
    <3>1. conn' \in Conns /\ conn'.cursor = conn.cursor /\ conn'.seen = conn.seen
      BY <1>1, <2>2 DEF Conns
    <3> QED BY <1>1, <1>2, <3>1
  <2>3. CASE Batch # <<>> /\ conn' = [conn EXCEPT !.pc = "check", !.cursor = Last(Batch).id]
    <3>1. size \in 1..size
      BY <1>2, <2>3, EmptySeq
    <3>2. Last(Batch).id = from + size - 1 /\ from + size - 1 \in 1..Len(log)
      BY <1>2, <3>1 DEF Last
    <3>3. /\ conn' \in Conns /\ conn'.cursor = from + size - 1 /\ conn'.seen = conn.seen
      <4>1. from + size - 1 \in Ids
        BY <1>1, <3>2 DEF Ids
      <4> QED BY <1>1, <2>3, <3>2, <4>1 DEF Conns
    <3> QED BY <1>1, <1>2, <3>2, <3>3
  <2> QED BY <2>1, <2>2, <2>3 DEF ReadEvents
<1>8. WireOK'
  <2>1. ASSUME NEW n \in 1..Len(pipe')
        PROVE  \/ /\ pipe'[n].id = 0
                  /\ pipe'[n].kind = "unavailable" \/ (pipe'[n].kind = "end" /\ Clean)
               \/ pipe'[n].id \in 1..Len(log) /\ pipe'[n].kind = log[pipe'[n].id]
    <3>1. CASE n \in 1..Len(pipe) /\ pipe'[n] = pipe[n]
      BY <3>1 DEF IInv, WireOK
    <3>2. ASSUME NEW m \in 1..size, pipe'[n] = Batch[m]
          PROVE  pipe'[n].id \in 1..Len(log) /\ pipe'[n].kind = log[pipe'[n].id]
      <4>1. /\ pipe'[n].id = from + m - 1 /\ from + m - 1 \in 1..Len(log)
            /\ pipe'[n].kind = log[from + m - 1]
        BY <1>2, <3>2
      <4> QED BY <4>1
    <3> QED BY <1>4, <3>1, <3>2
  <2>2. ASSUME NEW n \in 1..Len(pipe'), NEW i \in first..MaxEvents, i < pipe'[n].id
        PROVE  i <= page.seq \/ \E m \in 1..Len(pipe') : m < n /\ pipe'[m].id = i
    <3>1. CASE n \in 1..Len(pipe) /\ pipe'[n] = pipe[n]
      <4>1. i <= page.seq \/ \E m \in 1..Len(pipe) : m < n /\ pipe[m].id = i
        BY <2>2, <3>1 DEF IInv, WireOK
      <4> QED BY <1>3, <4>1
    <3>2. ASSUME NEW k \in 1..size, n = Len(pipe) + k, pipe'[n] = Batch[k]
          PROVE  i <= page.seq \/ \E m \in 1..Len(pipe') : m < n /\ pipe'[m].id = i
      <4>1. i < from + k - 1
        BY <1>2, <2>2, <3>2
      <4>2. CASE i < from
        <5>1. \A m \in 1..Len(pipe) : m < n /\ m \in 1..Len(pipe')
          BY <1>1, <1>3, <3>2
        <5> QED BY <1>5, <4>2, <5>1
      <4>3. CASE from <= i
        <5>1. i < from + size /\ Len(pipe) + (i + 1 - from) < n
          <6>1. i \in Nat /\ k \in Nat /\ k <= size
            BY <1>0
          <6>2. i < from + size
            BY <1>0, <4>1, <6>1
          <6>3. i + 1 - from < k
            BY <1>0, <4>1, <6>1
          <6>4. Len(pipe) + (i + 1 - from) < Len(pipe) + k
            BY <1>0, <6>1, <6>3
          <6> QED BY <3>2, <6>2, <6>4
        <5>2. i + 1 - from \in 1..size /\ pipe'[Len(pipe) + (i + 1 - from)].id = i
          BY <1>6, <4>3, <5>1
        <5>3. Len(pipe) + (i + 1 - from) \in 1..Len(pipe')
          BY <1>3, <5>2
        <5> QED BY <5>1, <5>2, <5>3
      <4>4. i \in Nat
        BY <1>0
      <4> QED BY <1>0, <4>2, <4>3, <4>4
    <3> QED BY <1>4, <3>1, <3>2
  <2>3. ASSUME NEW i \in first..MaxEvents, i <= conn'.cursor
        PROVE  i <= page.seq \/ \E m \in 1..Len(pipe') : pipe'[m].id = i
    <3>1. i < from + size
      <4>1. i \in Nat /\ conn'.cursor \in Nat
        BY <1>0, <1>7
      <4> QED BY <1>0, <1>7, <2>3, <4>1
    <3>2. CASE i < from
      BY <1>3, <1>5, <3>2
    <3>3. CASE from <= i
      BY <1>3, <1>6, <3>1, <3>3
    <3>4. i \in Nat
      BY <1>0
    <3> QED BY <1>0, <3>2, <3>3, <3>4
  <2>4. page'.view = "streaming" /\ conn'.cursor <= Len(log')
    BY <1>1, <1>7
  <2> QED BY <1>1, <2>1, <2>2, <2>3, <2>4 DEF WireOK
<1> QED BY <1>1, <1>3, <1>7, <1>8, ServedStep

LEMMA NextStep == IInv /\ [Next]_vars => IInv'
<1> SUFFICES ASSUME IInv, [Next]_vars PROVE IInv'
  OBVIOUS
<1>1. CASE Work
  BY <1>1, WorkStep
<1>2. CASE Closing \/ Crash \/ ExpireStream
  BY <1>2, ClosingStep
<1>3. CASE User \/ Watchdog \/ AskForRun \/ AskingFails \/ StreamEnds \/ Connect
  BY <1>3, UserStep
<1>4. CASE LoadRun \/ Unavailable \/ Expire \/ \E loads \in BOOLEAN : CheckStatus(loads)
  BY <1>4, GeneratorStep
<1>5. CASE ReadEvents
  BY <1>5, ReadEventsStep
<1>6. CASE Break
  BY <1>6, BreakStep
<1>7. CASE Receive
  BY <1>7, ReceiveStep
<1>8. CASE UNCHANGED vars
  <2>1. UNCHANGED Backend /\ page' = page /\ late' = late /\ conn' = conn /\ pipe' = pipe
    BY <1>8 DEF vars, Backend
  <2>2. WireOK'
    BY <2>1 DEF IInv, WireOK, Backend, Clean, Ended
  <2>3. conn.seen = "over" => Clean
    BY DEF IInv, WorkerOK
  <2> QED BY <2>1, <2>2, <2>3, PageTypes, ServedStep
<1> QED BY <1>1, <1>2, <1>3, <1>4, <1>5, <1>6, <1>7, <1>8, LateResetStep
    DEF Next, Serve, Follow, Trouble

-----------------------------------------------------------------------------
(* RunEventStream: the theorems                                            *)

(* The inductive invariant holds throughout: who publishes an end knows    *)
(* that the run is over, and no event that Redis has is lost between the   *)
(* stream and the page.                                                    *)
THEOREM Invariance == Spec => []IInv
BY InitInv, NextStep, PTL DEF Spec

(* The variables keep their types: positions in the stream, wire and page  *)
(* made of events that were appended, or made up without an id.            *)
THEOREM TypeCorrect == Spec => []TypeOK
<1>1. IInv => TypeOK
  BY DEF IInv
<1> QED BY <1>1, Invariance, PTL

(* Whoever reads an end, from the stream or made up by the connection, can *)
(* rely on it: the run is over, and its runtime is cleaned up.             *)
THEOREM EndIsEnd == Spec => []EndMeansOver
<1>1. IInv => EndMeansOver
  <2> SUFFICES ASSUME IInv PROVE EndMeansOver
    OBVIOUS
  <2>1. DOMAIN log = 1..Len(log) /\ DOMAIN pipe = 1..Len(pipe)
    BY Sequences DEF IInv
  <2>2. ASSUME NEW n \in DOMAIN log, IsEnd(log[n])
        PROVE  Clean
    BY <2>1, <2>2 DEF IInv, LogOK
  <2>3. ASSUME NEW n \in DOMAIN pipe, IsEnd(pipe[n].kind)
        PROVE  Clean
    BY <2>1, <2>3 DEF IInv, LogOK, WireOK, IsEnd
  <2> QED BY <2>2, <2>3 DEF EndMeansOver, Clean
<1> QED BY <1>1, Invariance, PTL

(* The end that the worker publishes is behind every event of the          *)
(* execution: the buffer of the ChunkedEventWriter is empty by then.       *)
THEOREM OutputFirst == Spec => []OutputBeforeEnd
<1>1. IInv => OutputBeforeEnd
  BY Sequences DEF IInv, LogOK, OutputBeforeEnd
<1> QED BY <1>1, Invariance, PTL

(* Through reconnections, reloads, retries, lost events and late resets    *)
(* the page shows each event of the stream once, in their order, from      *)
(* where it begins (page.from) up to its cursor.                           *)
THEOREM PageExact == Spec => []PageIsExact
<1>1. IInv => PageIsExact
  <2> SUFFICES ASSUME IInv PROVE PageIsExact
    OBVIOUS
  <2>1. /\ DOMAIN page.shown = 1..Len(page.shown) /\ page.seq \in 0..Len(log)
        /\ Len(log) \in Nat /\ Len(log) <= MaxEvents /\ first \in 1..(Len(log) + 1)
        /\ MaxEvents \in Nat
    BY Sequences, PageTypes, EventsAssumption DEF IInv
  <2>2. ShownOnce
    BY <2>1 DEF IInv, PageOK, ShownOnce
  <2>3. \A i \in first..page.seq : i \in first..MaxEvents /\ i <= page.seq
    BY <2>1
  <2>4. NothingSkipped
    BY <2>1, <2>3 DEF IInv, PageOK, NothingSkipped
  <2> QED BY <2>2, <2>4 DEF PageIsExact
<1> QED BY <1>1, Invariance, PTL

(* The page takes the run for ended only when it is, or when it was told   *)
(* that the stream is unavailable.                                         *)
THEOREM SettledOver == Spec => []SettledMeansOver
<1>1. IInv => SettledMeansOver
  BY DEF IInv, PageOK, SettledMeansOver
<1> QED BY <1>1, Invariance, PTL


-----------------------------------------------------------------------------
(* KnowledgeGraph: the inductive invariant                                 *)

JobsOK ==
  /\ state \in [Jobs -> {"absent", "pending", "running", "deleted"} \cup Results]
  /\ \A j \in Jobs :
       /\ state[j] \in {"absent", "pending"} => stage[j] = "none"
       /\ stage[j] = "none" => \A f \in Files : at[j][f] = "none"
       /\ stage[j] \in {"none", "mending", "dropping"} => batch[j].phase = "idle"
       /\ stage[j] = "mending" => Mode[j] # "build"

(* A record that is in a batch has no result yet, and what a deletion      *)
(* takes away belongs to its file.                                         *)
RecordsOK ==
  /\ \A r \in Records : holder[r] # NoJob => vstatus[r] \in {"processing", "overdue"}
  /\ \A f \in Files, r \in Records : <<f, r>> \in mentions => r \in RecordsOf[f]
  /\ \A g \in Files : /\ orphans[g] \subseteq RecordsOf[g]
                      /\ purge[g] \notin {"commit", "vectors"} => orphans[g] = {}

(* The rest is about a file that nothing was taken away from during a      *)
(* build.  The flags of its chunk are true ...                             *)
ChunkOK(f) ==
  purge[f] = "none" /\ resetAt = "none" =>
    /\ f \in structured => f \in nodes /\ \A r \in RecordsOf[f] : <<f, r>> \in mentions
    /\ f \in indexed => f \in structured /\ \A r \in RecordsOf[f] : vstatus[r] = "indexed"

(* ... and so is the status of its records.                                *)
VectorsOK(f) ==
  \A r \in RecordsOf[f] :
    /\ resetAt = "none" /\ vstatus[r] = "indexed" => r \in vectors
    /\ resetAt = "flags" => vstatus[r] = "absent"

(* The deletion of another file takes no record that it mentions.          *)
OrphansOK(f) ==
  \A g \in Files : \A r \in RecordsOf[f] \cap orphans[g] :
    /\ f # g => <<f, r>> \notin mentions
    /\ purge[g] = "vectors" => vstatus[r] = "absent"

(* What a build has written of it is still there, and while one drops all  *)
(* vectors nothing counts as indexed.                                      *)
BuildsOK(f) ==
  \A j \in Jobs : InFlight(j) =>
    /\ at[j][f] \in {"noded", "rowed"} => f \in nodes
    /\ at[j][f] = "rowed" => \A r \in RecordsOf[f] : <<f, r>> \in mentions
    /\ \A r \in RecordsOf[f] :
         /\ batch[j].phase = "stored" /\ r \in batch[j].recs => r \in vectors
         /\ stage[j] = "dropping" => vstatus[r] # "indexed"

SettledOK(f) == ChunkOK(f) /\ VectorsOK(f) /\ OrphansOK(f) /\ BuildsOK(f)

GraphInv ==
  /\ GraphTypeOK
  /\ JobsOK
  /\ RecordsOK
  /\ Disturbed \subseteq unsettled
  /\ \A f \in Files \ unsettled : SettledOK(f)

LEMMA GraphInitInv == GraphInit => GraphInv
<1> SUFFICES ASSUME GraphInit PROVE GraphInv
  OBVIOUS
<1>1. GraphTypeOK
  BY GraphAssumption DEF GraphInit, GraphTypeOK, NoBatch, VectorMaxAttempts
<1>2. \A j \in Jobs : state[j] = "absent" /\ stage[j] = "none" /\ ~InFlight(j)
  BY GraphAssumption DEF GraphInit, JobInit, InFlight, Building
<1>3. JobsOK
  BY <1>2 DEF GraphInit, JobInit, JobsOK, NoBatch
<1>4. RecordsOK
  BY DEF GraphInit, RecordsOK
<1>5. Disturbed \subseteq unsettled
  BY <1>2 DEF Disturbed
<1>6. ASSUME NEW f \in Files
      PROVE  SettledOK(f)
  BY <1>2, GraphAssumption
  DEF GraphInit, SettledOK, ChunkOK, VectorsOK, OrphansOK, BuildsOK
<1> QED BY <1>1, <1>3, <1>4, <1>5, <1>6 DEF GraphInv

-----------------------------------------------------------------------------
(* Steps                                                                   *)

(* While a build is going on, a file that is not touched has neither a     *)
(* reset nor a deletion beside it, nor that of a file that shares a record *)
(* with it.                                                                *)
LEMMA Undisturbed ==
  ASSUME Disturbed \subseteq unsettled, NEW f \in Files \ unsettled, NEW j \in Jobs, InFlight(j)
  PROVE  /\ resetAt = "none"
         /\ \A i \in Jobs \ {j} : stage[i] # "dropping"
         /\ purge[f] = "none"
         /\ \A g \in Files : RecordsOf[g] \cap RecordsOf[f] # {} => purge[g] = "none"
<1> DEFINE D == IF (\E i \in Jobs \ {j} : stage[i] = "dropping") \/ resetAt # "none" THEN Files
                ELSE UNION {Sharing(g) : g \in {h \in Files : purge[h] # "none"}}
<1>1. D \subseteq Disturbed
  BY DEF Disturbed
<1>2. f \notin D
  BY <1>1
<1>3. /\ resetAt = "none" /\ \A i \in Jobs \ {j} : stage[i] # "dropping"
  BY <1>2
<1>4. \A g \in Files : purge[g] # "none" => f \notin Sharing(g)
  BY <1>2, <1>3
<1> QED BY <1>3, <1>4 DEF Sharing

LEMMA AccountFiles ==
  ASSUME GraphInv, Account
  PROVE  unsettled' \subseteq Files /\ unsettled \subseteq unsettled' /\ Disturbed' \subseteq unsettled'
<1>1. Disturbed' \subseteq Files
  BY DEF Disturbed, Sharing
<1> QED BY <1>1 DEF Account, GraphInv, GraphTypeOK

(* No build gets further with what it has to do to a chunk.                *)
BuildsGoOn ==
  \A i \in Jobs : InFlight(i)' =>
    /\ \A f \in Files : at'[i][f] \in {"noded", "rowed"} => InFlight(i) /\ at'[i][f] = at[i][f]
    /\ batch'[i].phase = "stored" =>
         InFlight(i) /\ batch[i].phase = "stored" /\ batch'[i].recs = batch[i].recs
    /\ stage'[i] = "dropping" => stage[i] = "dropping"

LEMMA BuildsPreserved ==
  ASSUME NEW f \in Files, BuildsOK(f), BuildsGoOn,
         f \in nodes => f \in nodes',
         \A r \in RecordsOf[f] :
           /\ <<f, r>> \in mentions => <<f, r>> \in mentions'
           /\ r \in vectors => r \in vectors'
           /\ vstatus'[r] = "indexed" => vstatus[r] = "indexed"
  PROVE  BuildsOK(f)'
<1> SUFFICES ASSUME NEW j \in Jobs, InFlight(j)'
             PROVE  /\ at'[j][f] \in {"noded", "rowed"} => f \in nodes'
                    /\ at'[j][f] = "rowed" => \A r \in RecordsOf[f] : <<f, r>> \in mentions'
                    /\ \A r \in RecordsOf[f] :
                         /\ batch'[j].phase = "stored" /\ r \in batch'[j].recs => r \in vectors'
                         /\ stage'[j] = "dropping" => vstatus'[r] # "indexed"
  BY DEF BuildsOK
<1>1. stage'[j] = "dropping" => InFlight(j)
  BY DEF BuildsGoOn, InFlight, Building
<1> QED BY <1>1 DEF BuildsGoOn, BuildsOK

(* A step that changes no flag, no mention, no node and no vector, and     *)
(* which records are there and which are indexed only for records in a     *)
(* batch.                                                                  *)
LEMMA RecordStep ==
  ASSUME GraphInv, GraphTypeOK', JobsOK', Account, BuildsGoOn,
         UNCHANGED <<structured, indexed, mentions, nodes, vectors, purge, orphans, resetAt>>,
         \A r \in Records :
           /\ vstatus'[r] = "indexed" <=> vstatus[r] = "indexed"
           /\ vstatus'[r] = "absent" <=> vstatus[r] = "absent"
           /\ holder'[r] # NoJob => vstatus'[r] \in {"processing", "overdue"}
  PROVE  GraphInv'
<1>1. unsettled \subseteq unsettled' /\ Disturbed' \subseteq unsettled'
  BY AccountFiles
<1>2. RecordsOK'
  BY DEF GraphInv, RecordsOK
<1>3. ASSUME NEW f \in Files \ unsettled'
      PROVE  SettledOK(f)'
  <2>1. SettledOK(f) /\ RecordsOf[f] \subseteq Records
    BY <1>1, <1>3, GraphAssumption DEF GraphInv
  <2>2. ChunkOK(f)'
    BY <2>1 DEF SettledOK, ChunkOK
  <2>3. VectorsOK(f)' /\ OrphansOK(f)'
    BY <2>1 DEF SettledOK, VectorsOK, OrphansOK
  <2>4. BuildsOK(f)'
    BY <2>1, BuildsPreserved DEF SettledOK
  <2> QED BY <2>2, <2>3, <2>4 DEF SettledOK
<1> QED BY <1>1, <1>2, <1>3 DEF GraphInv

Positions == {"none", "queued", "lost", "extracting", "toWrite", "reextracting", "read", "noded",
              "rowed", "done"}

LEMMA AtStep ==
  ASSUME GraphTypeOK, NEW j \in Jobs, NEW f \in Files, NEW p \in Positions, SetAt(j, f, p)
  PROVE  /\ at' \in [Jobs -> [Files -> Positions]]
         /\ \A i \in Jobs, g \in Files : at'[i][g] = IF i = j /\ g = f THEN p ELSE at[i][g]
BY DEF GraphTypeOK, SetAt, Positions

Phases  == {"idle", "claimed", "stored", "flush", "counted", "last", "broken"}
Batches == [phase : Phases, recs : SUBSET Records]

LEMMA BatchStep ==
  ASSUME GraphTypeOK, NEW j \in Jobs, NEW p, NEW rs \in SUBSET Records, SetBatch(j, p, rs),
         p \in Phases
  PROVE  /\ batch' \in [Jobs -> Batches]
         /\ batch'[j].phase = p /\ batch'[j].recs = rs
         /\ \A i \in Jobs \ {j} : batch'[i] = batch[i]
BY DEF GraphTypeOK, SetBatch, Batches, Phases

Stages == Building \cup {"none", "over", "stopped"}

LEMMA StageStep ==
  ASSUME GraphTypeOK, NEW j \in Jobs, NEW p \in Stages, stage' = [stage EXCEPT ![j] = p]
  PROVE  /\ stage' \in [Jobs -> Stages] /\ stage'[j] = p
         /\ \A i \in Jobs \ {j} : stage'[i] = stage[i]
BY DEF GraphTypeOK, Stages

(* The same for a step that concerns no record at all.                     *)
LEMMA QuietStep ==
  ASSUME GraphInv, GraphTypeOK', JobsOK', Account, BuildsGoOn, UNCHANGED graphVars,
         UNCHANGED <<structured, indexed, purge, orphans, resetAt>>
  PROVE  GraphInv'
BY RecordStep DEF graphVars, GraphInv, RecordsOK

-----------------------------------------------------------------------------
(* The job and the end of a build                                          *)

LEMMA JobStep ==
  ASSUME GraphInv, NEW j \in Jobs, EnqueueBuild(j) \/ LoseJob(j)
  PROVE  GraphInv'
<1>1. /\ UNCHANGED <<rowVars, graphVars, buildVars, removeVars>> /\ Account
      /\ \E s \in {"pending", "failed"} : state' = [state EXCEPT ![j] = s]
      /\ state[j] \in {"absent", "pending", "running"}
      /\ state'[j] = "pending" => state[j] = "absent"
  BY DEF EnqueueBuild, LoseJob, Submit, End, GraphInv, JobsOK
<1>2. GraphTypeOK'
  BY <1>1, AccountFiles
  DEF GraphInv, GraphTypeOK, rowVars, graphVars, buildVars, removeVars
<1>3. JobsOK'
  BY <1>1 DEF GraphInv, JobsOK, buildVars, Results
<1>4. BuildsGoOn
  BY <1>1 DEF buildVars, BuildsGoOn, InFlight
<1> QED BY <1>1, <1>2, <1>3, <1>4, QuietStep DEF rowVars, removeVars

LEMMA StartStep ==
  ASSUME GraphInv, NEW j \in Jobs, StartBuild(j)
  PROVE  GraphInv'
<1>1. /\ UNCHANGED <<rowVars, graphVars, at, batch, writeFailed, removeVars>> /\ Account
      /\ state[j] = "pending" /\ state' = [state EXCEPT ![j] = "running"]
  BY DEF StartBuild, Start
<1>2. /\ stage[j] = "none" /\ batch[j].phase = "idle" /\ \A f \in Files : at[j][f] = "none"
  BY <1>1 DEF GraphInv, JobsOK
<1>3. PICK p \in {"listing", "mending"} :
        stage' = [stage EXCEPT ![j] = p] /\ (p = "mending" => Mode[j] # "build")
  BY DEF StartBuild
<1>4. /\ stage' \in [Jobs -> Stages] /\ stage'[j] = p
      /\ \A i \in Jobs \ {j} : stage'[i] = stage[i]
  <2>1. p \in Stages
    BY DEF Stages, Building
  <2> QED BY <1>3, <2>1, StageStep DEF GraphInv
<1>5. GraphTypeOK'
  BY <1>1, <1>4, AccountFiles
  DEF GraphInv, GraphTypeOK, rowVars, graphVars, removeVars, Stages
<1>6. JobsOK'
  BY <1>1, <1>2, <1>3, <1>4 DEF GraphInv, JobsOK, Results
<1>7. BuildsGoOn
  BY <1>1, <1>2, <1>4 DEF BuildsGoOn, InFlight
<1> QED BY <1>1, <1>5, <1>6, <1>7, QuietStep DEF rowVars, removeVars

(* Records leave a batch, and the handler with everything it knew.         *)
LEMMA ReleaseStep ==
  ASSUME GraphInv, NEW rs \in SUBSET Records, NEW st \in [Records -> {"pending", "failed", "indexed"}],
         Release(rs, st), \A r \in rs : holder[r] # NoJob
  PROVE  /\ vstatus' \in [Records -> {"absent", "pending", "processing", "overdue", "indexed", "failed"}]
         /\ holder' \in [Records -> Jobs \cup {NoJob}] /\ tries' = tries
         /\ \A r \in rs : vstatus[r] \in {"processing", "overdue"} /\ vstatus'[r] = st[r]
         /\ \A r \in Records \ rs : vstatus'[r] = vstatus[r]
         /\ \A r \in Records : holder'[r] # NoJob => vstatus'[r] \in {"processing", "overdue"}
<1>1. /\ vstatus' = [r \in Records |-> IF r \in rs THEN st[r] ELSE vstatus[r]]
      /\ holder' = [r \in Records |-> IF r \in rs THEN NoJob ELSE holder[r]]
      /\ tries' = tries
  BY DEF Release
<1> QED BY <1>1 DEF GraphInv, GraphTypeOK, RecordsOK

LEMMA FailedRecords ==
  ASSUME GraphInv, NEW j \in Jobs, ReleaseFailed(j) \/ UNCHANGED <<vstatus, holder, tries>>
  PROVE  /\ vstatus' \in [Records -> {"absent", "pending", "processing", "overdue", "indexed", "failed"}]
         /\ holder' \in [Records -> Jobs \cup {NoJob}] /\ tries' = tries
         /\ \A r \in Records :
              /\ vstatus'[r] = "indexed" <=> vstatus[r] = "indexed"
              /\ vstatus'[r] = "absent" <=> vstatus[r] = "absent"
              /\ holder'[r] # NoJob => vstatus'[r] \in {"processing", "overdue"}
<1>1. CASE UNCHANGED <<vstatus, holder, tries>>
  BY <1>1 DEF GraphInv, GraphTypeOK, RecordsOK
<1>2. CASE ReleaseFailed(j)
  <2>1. PICK st : st = [r \in Records |-> AfterFailure(r)]
    OBVIOUS
  <2>2. PICK rs : rs = Held(j)
    OBVIOUS
  <2>3. st \in [Records -> {"pending", "failed", "indexed"}]
        /\ \A r \in Records : st[r] \in {"pending", "failed"}
    BY <2>1 DEF AfterFailure
  <2>4. rs \in SUBSET Records /\ \A r \in rs : holder[r] # NoJob
    BY <2>2, GraphAssumption DEF Held, GraphInv, GraphTypeOK
  <2>5. Release(rs, st)
    BY <1>2, <2>1, <2>2 DEF ReleaseFailed
  <2>6. /\ vstatus' \in [Records -> {"absent", "pending", "processing", "overdue", "indexed", "failed"}]
        /\ holder' \in [Records -> Jobs \cup {NoJob}] /\ tries' = tries
        /\ \A r \in rs : vstatus[r] \in {"processing", "overdue"} /\ vstatus'[r] = st[r]
        /\ \A r \in Records \ rs : vstatus'[r] = vstatus[r]
        /\ \A r \in Records : holder'[r] # NoJob => vstatus'[r] \in {"processing", "overdue"}
    BY <2>3, <2>4, <2>5, ReleaseStep
  <2>7. \A r \in Records : \/ r \in rs \/ vstatus'[r] = vstatus[r]
    BY <2>6
  <2> QED BY <2>3, <2>4, <2>6, <2>7
<1> QED BY <1>1, <1>2

LEMMA GoneStep ==
  ASSUME GraphInv, NEW j \in Jobs, BuildReturns(j) \/ StopBuild(j)
  PROVE  GraphInv'
<1>1. /\ HandlerIsGone(j) /\ Account /\ stage[j] # "none"
      /\ UNCHANGED <<rowVars, mentions, nodes, vectors, removeVars>>
      /\ ReleaseFailed(j) \/ UNCHANGED <<vstatus, holder, tries>>
  BY DEF BuildReturns, StopBuild, graphVars, InFlight, Building
<1>2. /\ stage' \in [Jobs -> Stages] /\ stage'[j] = "stopped"
      /\ \A i \in Jobs \ {j} : stage'[i] = stage[i]
  BY <1>1, StageStep DEF HandlerIsGone, Stages, GraphInv
<1>3. /\ at' \in [Jobs -> [Files -> Positions]]
      /\ batch' \in [Jobs -> Batches]
      /\ batch'[j] = NoBatch /\ writeFailed' \subseteq Jobs
      /\ \A i \in Jobs \ {j} : batch'[i] = batch[i] /\ at'[i] = at[i]
  BY <1>1 DEF HandlerIsGone, GraphInv, GraphTypeOK, Batches, Phases, NoBatch, Positions
<1>4. GraphTypeOK'
  BY <1>1, <1>2, <1>3, AccountFiles, FailedRecords
  DEF GraphInv, GraphTypeOK, rowVars, removeVars, Stages, Batches, Phases, Positions
<1>5. JobsOK'
  <2>1. state' \in [Jobs -> {"absent", "pending", "running", "deleted"} \cup Results]
    BY DEF BuildReturns, StopBuild, End, GraphInv, JobsOK, jobVars, Results
  <2>2. \A i \in Jobs : state'[i] \in {"absent", "pending"} => state[i] = state'[i]
    BY DEF BuildReturns, StopBuild, End, GraphInv, JobsOK, jobVars, Results
  <2>3. state[j] \notin {"absent", "pending"}
    BY <1>1 DEF GraphInv, JobsOK
  <2>4. ASSUME NEW i \in Jobs
        PROVE  /\ state'[i] \in {"absent", "pending"} => stage'[i] = "none"
               /\ stage'[i] = "none" => \A f \in Files : at'[i][f] = "none"
               /\ stage'[i] \in {"none", "mending", "dropping"} => batch'[i].phase = "idle"
               /\ stage'[i] = "mending" => Mode[i] # "build"
    <3>1. CASE i = j
      <4>1. state'[j] \notin {"absent", "pending"}
        BY <2>2, <2>3
      <4> QED BY <1>2, <3>1, <4>1
    <3>2. CASE i # j
      BY <1>2, <1>3, <2>2, <3>2 DEF GraphInv, JobsOK
    <3> QED BY <3>1, <3>2
  <2> QED BY <2>1, <2>4 DEF JobsOK
<1>6. BuildsGoOn
  BY <1>2, <1>3 DEF BuildsGoOn, InFlight, Building
<1> QED BY <1>1, <1>4, <1>5, <1>6, FailedRecords, RecordStep DEF rowVars, removeVars

LEMMA LockStep ==
  ASSUME GraphInv, NEW r \in Records, LockExpires(r)
  PROVE  GraphInv'
<1>1. /\ UNCHANGED <<jobVars, rowVars, mentions, nodes, holder, tries, vectors, buildVars, removeVars>>
      /\ Account /\ vstatus[r] = "processing" /\ vstatus' = [vstatus EXCEPT ![r] = "overdue"]
  BY DEF LockExpires
<1>2. GraphTypeOK'
  BY <1>1, AccountFiles DEF GraphInv, GraphTypeOK, rowVars, buildVars, removeVars
<1>3. JobsOK' /\ BuildsGoOn
  BY <1>1 DEF GraphInv, JobsOK, BuildsGoOn, InFlight, jobVars, buildVars
<1>4. \A q \in Records :
        /\ vstatus'[q] = "indexed" <=> vstatus[q] = "indexed"
        /\ vstatus'[q] = "absent" <=> vstatus[q] = "absent"
        /\ holder'[q] # NoJob => vstatus'[q] \in {"processing", "overdue"}
  BY <1>1 DEF GraphInv, GraphTypeOK, RecordsOK
<1> QED BY <1>1, <1>2, <1>3, <1>4, RecordStep DEF rowVars, removeVars

-----------------------------------------------------------------------------
(* The chunks of a build                                                   *)

LEMMA MoveStep ==
  ASSUME GraphInv, NEW j \in Jobs, NEW f \in Files, InFlight(j),
         NEW p \in Positions \ {"noded", "rowed"}, SetAt(j, f, p), Account,
         UNCHANGED <<jobVars, chunks, structured, indexed, graphVars, stage, batch, removeVars>>,
         extracted' \subseteq Files, unextracted' \subseteq Files, writeFailed' \subseteq Jobs
  PROVE  GraphInv'
<1>1. /\ at' \in [Jobs -> [Files -> Positions]]
      /\ \A i \in Jobs, g \in Files : at'[i][g] = IF i = j /\ g = f THEN p ELSE at[i][g]
  BY AtStep DEF GraphInv
<1>2. GraphTypeOK'
  BY <1>1, AccountFiles DEF GraphInv, GraphTypeOK, graphVars, removeVars, Positions
<1>3. JobsOK'
  BY <1>1 DEF GraphInv, JobsOK, jobVars, InFlight, Building
<1>4. BuildsGoOn
  BY <1>1 DEF BuildsGoOn, InFlight
<1> QED BY <1>2, <1>3, <1>4, QuietStep DEF removeVars

LEMMA ChunkStep ==
  ASSUME GraphInv, NEW j \in Jobs, NEW f \in Files,
         \/ ListChunk(j, f) \/ BeginExtraction(j, f) \/ WorkerDies(j, f) \/ ReadChunk(j, f) \/ WriterFails(j, f)
         \/ \E ok \in BOOLEAN : EndExtraction(j, f, ok) \/ ExtractAgain(j, f, ok)
  PROVE  GraphInv'
<1>1. /\ chunks \subseteq Files /\ extracted \subseteq Files /\ unextracted \subseteq Files
      /\ writeFailed \subseteq Jobs
  BY DEF GraphInv, GraphTypeOK
<1>2. /\ Account /\ InFlight(j)
      /\ UNCHANGED <<jobVars, chunks, structured, indexed, graphVars, stage, batch, removeVars>>
  BY DEF ListChunk, BeginExtraction, WorkerDies, ReadChunk, WriterFails, EndExtraction, ExtractAgain,
         rowVars, Step, InFlight, Building, RecordExtraction
<1>3. extracted' \subseteq Files /\ unextracted' \subseteq Files /\ writeFailed' \subseteq Jobs
  BY <1>1
  DEF ListChunk, BeginExtraction, WorkerDies, ReadChunk, WriterFails, EndExtraction, ExtractAgain,
      rowVars, RecordExtraction, WriteFails
<1>4. \E p \in Positions \ {"noded", "rowed"} : SetAt(j, f, p)
  BY DEF ListChunk, BeginExtraction, WorkerDies, ReadChunk, WriterFails, EndExtraction, ExtractAgain,
         Step, WriteFails, Positions
<1> QED BY <1>2, <1>3, <1>4, MoveStep

LEMMA ListingStep ==
  ASSUME GraphInv, NEW j \in Jobs, ListingEnds(j)
  PROVE  GraphInv'
<1>1. /\ UNCHANGED <<jobVars, rowVars, graphVars, at, batch, writeFailed, removeVars>> /\ Account
      /\ stage[j] = "listing" /\ stage' = [stage EXCEPT ![j] = "draining"]
  BY DEF ListingEnds
<1>2. /\ stage' \in [Jobs -> Stages] /\ stage'[j] = "draining"
      /\ \A i \in Jobs \ {j} : stage'[i] = stage[i]
  <2>1. "draining" \in Stages
    BY DEF Stages, Building
  <2> QED BY <1>1, <2>1, StageStep DEF GraphInv
<1>3. GraphTypeOK'
  BY <1>1, <1>2, AccountFiles
  DEF GraphInv, GraphTypeOK, rowVars, graphVars, removeVars, Stages
<1>4. JobsOK' /\ BuildsGoOn
  BY <1>1, <1>2 DEF GraphInv, JobsOK, jobVars, BuildsGoOn, InFlight, Building
<1> QED BY <1>1, <1>3, <1>4, QuietStep DEF rowVars, removeVars

(* A step of the writer that gets on.                                      *)
LEMMA WriterMoves ==
  ASSUME GraphInv, NEW j \in Jobs, NEW f \in Files, NEW p \in Positions, SetAt(j, f, p),
         InFlight(j), UNCHANGED <<jobVars, stage, batch>>
  PROVE  /\ at' \in [Jobs -> [Files -> Positions]]
         /\ \A i \in Jobs, g \in Files : at'[i][g] = IF i = j /\ g = f THEN p ELSE at[i][g]
         /\ \A i \in Jobs : InFlight(i)' = InFlight(i) /\ stage'[i] = stage[i] /\ batch'[i] = batch[i]
         /\ JobsOK'
<1>1. /\ at' \in [Jobs -> [Files -> Positions]]
      /\ \A i \in Jobs, g \in Files : at'[i][g] = IF i = j /\ g = f THEN p ELSE at[i][g]
  BY AtStep DEF GraphInv
<1>2. JobsOK'
  BY <1>1 DEF GraphInv, JobsOK, jobVars, InFlight, Building
<1> QED BY <1>1, <1>2 DEF InFlight

LEMMA NodeStep ==
  ASSUME GraphInv, NEW j \in Jobs, NEW f \in Files, WriteNode(j, f)
  PROVE  GraphInv'
<1>1. /\ SetAt(j, f, "noded") /\ InFlight(j) /\ nodes' = nodes \cup {f} /\ Account
      /\ UNCHANGED <<jobVars, rowVars, mentions, vstatus, holder, tries, vectors,
                     stage, batch, writeFailed, removeVars>>
  BY DEF WriteNode, Step
<1>2. /\ at' \in [Jobs -> [Files -> Positions]]
      /\ \A i \in Jobs, g \in Files : at'[i][g] = IF i = j /\ g = f THEN "noded" ELSE at[i][g]
      /\ \A i \in Jobs : InFlight(i)' = InFlight(i) /\ stage'[i] = stage[i] /\ batch'[i] = batch[i]
      /\ JobsOK'
  <2>1. "noded" \in Positions
    BY DEF Positions
  <2> QED BY <1>1, <2>1, WriterMoves
<1>3. GraphTypeOK' /\ RecordsOK'
  BY <1>1, <1>2, AccountFiles DEF GraphInv, GraphTypeOK, RecordsOK, rowVars, removeVars, Positions
<1>4. ASSUME NEW g \in Files \ unsettled'
      PROVE  SettledOK(g)'
  <2>1. SettledOK(g)
    BY <1>1, <1>4, AccountFiles DEF GraphInv
  <2>2. ChunkOK(g)' /\ VectorsOK(g)' /\ OrphansOK(g)'
    BY <1>1, <2>1 DEF SettledOK, ChunkOK, VectorsOK, OrphansOK, rowVars, removeVars
  <2>3. BuildsOK(g)'
    BY <1>1, <1>2, <2>1 DEF SettledOK, BuildsOK
  <2> QED BY <2>2, <2>3 DEF SettledOK
<1> QED BY <1>1, <1>2, <1>3, <1>4, AccountFiles DEF GraphInv

LEMMA RowsStep ==
  ASSUME GraphInv, NEW j \in Jobs, NEW f \in Files, UpsertRecords(j, f)
  PROVE  GraphInv'
<1>1. /\ InFlight(j) /\ at[j][f] = "noded" /\ Account
      /\ UNCHANGED <<jobVars, rowVars, nodes, holder, tries, vectors, stage, batch, removeVars>>
      /\ writeFailed \subseteq Jobs /\ extracted \subseteq Files /\ unextracted \subseteq Files
  BY DEF UpsertRecords, GraphInv, GraphTypeOK
<1>2. CASE WriteFails(j, f) /\ UNCHANGED <<mentions, vstatus>>
  <2>1. SetAt(j, f, "done") /\ writeFailed' \subseteq Jobs /\ "done" \in Positions \ {"noded", "rowed"}
    BY <1>1, <1>2 DEF WriteFails, Positions
  <2> QED BY <1>1, <1>2, <2>1, MoveStep DEF rowVars, graphVars
<1>3. CASE /\ SetAt(j, f, "rowed")
           /\ mentions' = mentions \cup ({f} \X RecordsOf[f])
           /\ vstatus' = [r \in Records |->
                IF r \in RecordsOf[f] /\ vstatus[r] = "absent" THEN "pending" ELSE vstatus[r]]
           /\ UNCHANGED writeFailed
  <2>1. /\ at' \in [Jobs -> [Files -> Positions]]
        /\ \A i \in Jobs, g \in Files : at'[i][g] = IF i = j /\ g = f THEN "rowed" ELSE at[i][g]
        /\ \A i \in Jobs : InFlight(i)' = InFlight(i) /\ stage'[i] = stage[i] /\ batch'[i] = batch[i]
        /\ JobsOK'
    <3>1. "rowed" \in Positions
      BY DEF Positions
    <3> QED BY <1>1, <1>3, <3>1, WriterMoves
  <2>2. GraphTypeOK'
    BY <1>1, <1>3, <2>1, AccountFiles, GraphAssumption
    DEF GraphInv, GraphTypeOK, rowVars, removeVars, Positions
  <2>3. \A r \in Records : /\ vstatus'[r] = "indexed" <=> vstatus[r] = "indexed"
                           /\ vstatus[r] # "absent" => vstatus'[r] = vstatus[r]
                           /\ r \notin RecordsOf[f] => vstatus'[r] = vstatus[r]
    BY <1>3
  <2>4. \A g \in Files, r \in Records :
          <<g, r>> \in mentions' <=> <<g, r>> \in mentions \/ (g = f /\ r \in RecordsOf[f])
    BY <1>3
  <2>5. RecordsOK'
    BY <1>1, <2>3, <2>4 DEF GraphInv, RecordsOK, removeVars
  <2>6. ASSUME NEW g \in Files \ unsettled'
        PROVE  SettledOK(g)'
    <3>1. SettledOK(g) /\ g \in Files \ unsettled /\ RecordsOf[g] \subseteq Records
      BY <1>1, <2>6, AccountFiles, GraphAssumption DEF GraphInv
    <3>2. /\ resetAt = "none"
          /\ \A h \in Files : RecordsOf[h] \cap RecordsOf[g] # {} => purge[h] = "none"
      BY <1>1, <3>1, Undisturbed DEF GraphInv
    <3>3. ChunkOK(g)' /\ VectorsOK(g)'
      BY <1>1, <2>3, <2>4, <3>1, <3>2 DEF SettledOK, ChunkOK, VectorsOK, rowVars, removeVars
    <3>4. \A h \in Files : RecordsOf[g] \cap orphans[h] = {}
      BY <3>2 DEF GraphInv, RecordsOK
    <3>5. OrphansOK(g)'
      BY <1>1, <3>4 DEF OrphansOK, removeVars
    <3>6. BuildsOK(g)'
      BY <1>1, <2>1, <2>3, <2>4, <3>1 DEF SettledOK, BuildsOK
    <3> QED BY <3>3, <3>5, <3>6 DEF SettledOK
  <2> QED BY <1>1, <2>1, <2>2, <2>5, <2>6, AccountFiles DEF GraphInv
<1> QED BY <1>2, <1>3 DEF UpsertRecords

LEMMA FlagStep ==
  ASSUME GraphInv, NEW j \in Jobs, NEW f \in Files, MarkStructured(j, f)
  PROVE  GraphInv'
<1>1. /\ SetAt(j, f, "done") /\ InFlight(j) /\ at[j][f] = "rowed" /\ Account
      /\ structured' = structured \cup ({f} \cap chunks)
      /\ UNCHANGED <<jobVars, chunks, extracted, unextracted, indexed, graphVars,
                     stage, batch, writeFailed, removeVars>>
  BY DEF MarkStructured, Step
<1>2. /\ at' \in [Jobs -> [Files -> Positions]]
      /\ \A i \in Jobs, g \in Files : at'[i][g] = IF i = j /\ g = f THEN "done" ELSE at[i][g]
      /\ \A i \in Jobs : InFlight(i)' = InFlight(i) /\ stage'[i] = stage[i] /\ batch'[i] = batch[i]
      /\ JobsOK'
  <2>1. "done" \in Positions
    BY DEF Positions
  <2> QED BY <1>1, <2>1, WriterMoves
<1>3. GraphTypeOK' /\ RecordsOK'
  BY <1>1, <1>2, AccountFiles
  DEF GraphInv, GraphTypeOK, RecordsOK, graphVars, removeVars, Positions
<1>4. ASSUME NEW g \in Files \ unsettled'
      PROVE  SettledOK(g)'
  <2>1. SettledOK(g)
    BY <1>1, <1>4, AccountFiles DEF GraphInv
  <2>2. g \in structured' => g \in structured \/ (g \in nodes /\ \A r \in RecordsOf[g] : <<g, r>> \in mentions)
    BY <1>1, <2>1 DEF SettledOK, BuildsOK
  <2>3. ChunkOK(g)' /\ VectorsOK(g)' /\ OrphansOK(g)'
    BY <1>1, <2>1, <2>2 DEF SettledOK, ChunkOK, VectorsOK, OrphansOK, graphVars, removeVars
  <2>4. BuildsOK(g)'
    BY <1>1, <1>2, <2>1 DEF SettledOK, BuildsOK, graphVars
  <2> QED BY <2>3, <2>4 DEF SettledOK
<1> QED BY <1>1, <1>2, <1>3, <1>4, AccountFiles DEF GraphInv

-----------------------------------------------------------------------------
(* The vectors                                                             *)

LEMMA ReconcileStep ==
  ASSUME GraphInv, NEW j \in Jobs, ReconcileRecords(j)
  PROVE  GraphInv'
<1>1. /\ stage[j] = "mending" /\ Account
      /\ UNCHANGED <<jobVars, chunks, extracted, unextracted, structured, mentions, nodes, vectors,
                     at, batch, writeFailed, removeVars>>
  BY DEF ReconcileRecords
<1>2. PICK mended \in SUBSET Records :
        /\ mended = {r \in Records :
                       vstatus[r] \in (IF Mode[j] = "failed" THEN {"failed", "overdue"}
                          ELSE {"pending", "processing", "overdue", "indexed", "failed"})}
        /\ vstatus' = [r \in Records |-> IF r \in mended THEN "pending" ELSE vstatus[r]]
        /\ holder' = [r \in Records |-> IF r \in mended THEN NoJob ELSE holder[r]]
        /\ tries' = [r \in Records |-> IF r \in mended THEN 0 ELSE tries[r]]
  BY DEF ReconcileRecords
<1>3. PICK p \in {"listing", "dropping"} :
        /\ stage' = [stage EXCEPT ![j] = p]
        /\ p = "listing" => Mode[j] = "failed" /\ indexed' = indexed
        /\ p = "dropping" => Mode[j] # "failed" /\ indexed' = {}
  <2>1. Mode[j] \in {"failed", "all_vectors"}
    BY <1>1, GraphAssumption DEF GraphInv, JobsOK
  <2> QED BY <2>1 DEF ReconcileRecords
<1>4. /\ stage' \in [Jobs -> Stages] /\ stage'[j] = p
      /\ \A i \in Jobs \ {j} : stage'[i] = stage[i]
  <2>1. p \in Stages
    BY DEF Stages, Building
  <2> QED BY <1>3, <2>1, StageStep DEF GraphInv
<1>5. GraphTypeOK'
  <2>1. indexed' \subseteq Files
    BY <1>3 DEF GraphInv, GraphTypeOK
  <2> QED BY <1>1, <1>2, <1>4, <2>1, AccountFiles
      DEF GraphInv, GraphTypeOK, removeVars, Stages, VectorMaxAttempts
<1>6. JobsOK'
  BY <1>1, <1>4 DEF GraphInv, JobsOK, jobVars
<1>7. \A r \in Records : /\ vstatus'[r] = "absent" <=> vstatus[r] = "absent"
                         /\ holder'[r] # NoJob => vstatus'[r] \in {"processing", "overdue"}
  BY <1>2 DEF GraphInv, GraphTypeOK, RecordsOK
<1>8. CASE p = "listing"
  <2>1. \A r \in Records : vstatus'[r] = "indexed" <=> vstatus[r] = "indexed"
    BY <1>2, <1>3, <1>8
  <2>2. BuildsGoOn
    BY <1>1, <1>4, <1>8 DEF BuildsGoOn, InFlight, Building
  <2> QED BY <1>1, <1>3, <1>5, <1>6, <1>7, <1>8, <2>1, <2>2, RecordStep DEF removeVars
<1>9. CASE p = "dropping"
  <2>1. \A r \in Records : vstatus'[r] # "indexed"
    BY <1>2, <1>3, <1>9 DEF GraphInv, GraphTypeOK
  <2>2. RecordsOK'
    BY <1>1, <1>7 DEF GraphInv, RecordsOK, removeVars
  <2>3. ASSUME NEW f \in Files \ unsettled'
        PROVE  SettledOK(f)'
    <3>1. SettledOK(f) /\ RecordsOf[f] \subseteq Records
      BY <1>1, <2>3, AccountFiles, GraphAssumption DEF GraphInv
    <3>2. ChunkOK(f)' /\ VectorsOK(f)' /\ OrphansOK(f)'
      BY <1>1, <1>3, <1>7, <1>9, <2>1, <3>1
      DEF SettledOK, ChunkOK, VectorsOK, OrphansOK, removeVars
    <3>3. \A i \in Jobs : InFlight(i)' => InFlight(i)
      BY <1>1, <1>4 DEF InFlight, Building
    <3>4. BuildsOK(f)'
      BY <1>1, <2>1, <3>1, <3>3 DEF SettledOK, BuildsOK
    <3> QED BY <3>2, <3>4 DEF SettledOK
  <2> QED BY <1>1, <1>5, <1>6, <2>2, <2>3, AccountFiles DEF GraphInv
<1> QED BY <1>8, <1>9

LEMMA DropStep ==
  ASSUME GraphInv, NEW j \in Jobs, DropVectors(j)
  PROVE  GraphInv'
<1>1. /\ stage[j] = "dropping" /\ vectors' = {} /\ stage' = [stage EXCEPT ![j] = "listing"] /\ Account
      /\ UNCHANGED <<jobVars, rowVars, mentions, nodes, vstatus, holder, tries,
                     at, batch, writeFailed, removeVars>>
  BY DEF DropVectors
<1>2. /\ stage' \in [Jobs -> Stages] /\ stage'[j] = "listing"
      /\ \A i \in Jobs \ {j} : stage'[i] = stage[i]
  <2>1. "listing" \in Stages
    BY DEF Stages, Building
  <2> QED BY <1>1, <2>1, StageStep DEF GraphInv
<1>3. GraphTypeOK' /\ JobsOK' /\ RecordsOK'
  BY <1>1, <1>2, AccountFiles
  DEF GraphInv, GraphTypeOK, JobsOK, RecordsOK, jobVars, rowVars, removeVars, Stages
<1>4. ASSUME NEW f \in Files \ unsettled'
      PROVE  SettledOK(f)'
  <2>1. SettledOK(f) /\ f \in Files \ unsettled /\ InFlight(j)
    BY <1>1, <1>4, AccountFiles DEF GraphInv, InFlight, Building
  <2>2. \A r \in RecordsOf[f] : vstatus[r] # "indexed"
    BY <1>1, <2>1 DEF SettledOK, BuildsOK
  <2>3. ChunkOK(f)' /\ VectorsOK(f)' /\ OrphansOK(f)'
    BY <1>1, <2>1, <2>2 DEF SettledOK, ChunkOK, VectorsOK, OrphansOK, rowVars, removeVars
  <2>4. \A i \in Jobs : InFlight(i)' => InFlight(i)
    BY <1>1, <1>2 DEF InFlight, Building
  <2>5. \A i \in Jobs : InFlight(i) => batch[i].phase # "stored"
    BY <1>1, <2>1, Undisturbed DEF GraphInv, JobsOK
  <2>6. BuildsOK(f)'
    BY <1>1, <2>1, <2>2, <2>4, <2>5 DEF SettledOK, BuildsOK
  <2> QED BY <2>3, <2>6 DEF SettledOK
<1> QED BY <1>1, <1>3, <1>4, AccountFiles DEF GraphInv

(* A step of the vector worker.                                            *)
LEMMA WorkerMoves ==
  ASSUME GraphInv, NEW j \in Jobs, NEW p, NEW rs \in SUBSET Records, SetBatch(j, p, rs),
         p \in Phases,
         stage[j] \in {"listing", "draining"}, UNCHANGED <<jobVars, stage, at>>
  PROVE  /\ batch' \in [Jobs -> Batches]
         /\ batch'[j].phase = p /\ batch'[j].recs = rs
         /\ \A i \in Jobs \ {j} : batch'[i] = batch[i]
         /\ \A i \in Jobs : InFlight(i)' = InFlight(i) /\ stage'[i] = stage[i] /\ at'[i] = at[i]
         /\ JobsOK'
         /\ p # "stored" => BuildsGoOn
<1>1. /\ batch' \in [Jobs -> Batches]
      /\ batch'[j].phase = p /\ batch'[j].recs = rs
      /\ \A i \in Jobs \ {j} : batch'[i] = batch[i]
  BY BatchStep DEF GraphInv
<1>2. JobsOK'
  BY <1>1 DEF GraphInv, JobsOK, jobVars
<1>3. \A i \in Jobs : InFlight(i)' = InFlight(i) /\ stage'[i] = stage[i] /\ at'[i] = at[i]
  BY DEF InFlight
<1>4. p # "stored" => BuildsGoOn
  BY <1>1, <1>3 DEF BuildsGoOn
<1> QED BY <1>1, <1>2, <1>3, <1>4

LEMMA BusyWorker ==
  ASSUME GraphInv, NEW j \in Jobs, InFlight(j), batch[j].phase # "idle"
  PROVE  stage[j] \in {"listing", "draining"} /\ batch[j].recs \in SUBSET Records
BY DEF GraphInv, GraphTypeOK, JobsOK, InFlight, Building

LEMMA CountStep ==
  ASSUME GraphInv, NEW j \in Jobs, CountVectors(j) \/ VectorsEnd(j) \/ VectorWorkerDies(j)
  PROVE  GraphInv'
<1>1. /\ Account /\ stage[j] \in {"listing", "draining"}
      /\ UNCHANGED <<jobVars, rowVars, graphVars, stage, at, writeFailed, removeVars>>
  BY BusyWorker DEF CountVectors, VectorsEnd, VectorWorkerDies
<1>2. PICK p \in {"idle", "counted", "last", "broken"} : SetBatch(j, p, {})
  BY DEF CountVectors, VectorsEnd, VectorWorkerDies
<1>3. batch' \in [Jobs -> Batches] /\ JobsOK' /\ BuildsGoOn
  BY <1>1, <1>2, WorkerMoves DEF Phases
<1>4. GraphTypeOK'
  BY <1>1, <1>3, AccountFiles DEF GraphInv, GraphTypeOK, rowVars, graphVars, removeVars, Batches, Phases
<1> QED BY <1>1, <1>3, <1>4, QuietStep DEF rowVars, removeVars

LEMMA ClaimStep ==
  ASSUME GraphInv, NEW j \in Jobs, ClaimVectors(j)
  PROVE  GraphInv'
<1>1. /\ Account /\ stage[j] \in {"listing", "draining"} /\ SetBatch(j, "claimed", Claimable)
      /\ vstatus' = [r \in Records |-> IF r \in Claimable THEN "processing" ELSE vstatus[r]]
      /\ holder' = [r \in Records |-> IF r \in Claimable THEN j ELSE holder[r]]
      /\ tries' = [r \in Records |->
           IF r \in Claimable /\ tries[r] < VectorMaxAttempts THEN tries[r] + 1 ELSE tries[r]]
      /\ UNCHANGED <<jobVars, rowVars, mentions, nodes, vectors, stage, at, writeFailed, removeVars>>
  BY DEF ClaimVectors
<1>2. PICK rs \in SUBSET Records : rs = Claimable
  BY DEF Claimable
<1>3. batch' \in [Jobs -> Batches] /\ JobsOK' /\ BuildsGoOn
  BY <1>1, <1>2, WorkerMoves DEF Phases
<1>4. tries' \in [Records -> 0..VectorMaxAttempts]
  BY <1>1 DEF GraphInv, GraphTypeOK, VectorMaxAttempts
<1>5. GraphTypeOK'
  BY <1>1, <1>3, <1>4, AccountFiles DEF GraphInv, GraphTypeOK, rowVars, removeVars, Batches, Phases
<1>6. \A r \in Records :
        /\ vstatus'[r] = "indexed" <=> vstatus[r] = "indexed"
        /\ vstatus'[r] = "absent" <=> vstatus[r] = "absent"
        /\ holder'[r] # NoJob => vstatus'[r] \in {"processing", "overdue"}
  BY <1>1 DEF GraphInv, RecordsOK, Claimable
<1> QED BY <1>1, <1>3, <1>5, <1>6, RecordStep DEF rowVars, removeVars

LEMMA FailStep ==
  ASSUME GraphInv, NEW j \in Jobs, VectorsFail(j)
  PROVE  GraphInv'
<1>1. /\ Account /\ stage[j] \in {"listing", "draining"} /\ SetBatch(j, "flush", {})
      /\ ReleaseFailed(j)
      /\ UNCHANGED <<jobVars, rowVars, mentions, nodes, vectors, stage, at, writeFailed, removeVars>>
  BY BusyWorker DEF VectorsFail
<1>2. batch' \in [Jobs -> Batches] /\ JobsOK' /\ BuildsGoOn
  BY <1>1, WorkerMoves DEF Phases
<1>3. GraphTypeOK'
  BY <1>1, <1>2, FailedRecords, AccountFiles
  DEF GraphInv, GraphTypeOK, rowVars, removeVars, Batches, Phases
<1> QED BY <1>1, <1>2, <1>3, FailedRecords, RecordStep DEF rowVars, removeVars

LEMMA StoreStep ==
  ASSUME GraphInv, NEW j \in Jobs, StoreVectors(j)
  PROVE  GraphInv'
<1>1. /\ Account /\ InFlight(j) /\ stage[j] \in {"listing", "draining"}
      /\ batch[j].recs \in SUBSET Records
      /\ vectors' = vectors \cup batch[j].recs /\ SetBatch(j, "stored", batch[j].recs)
      /\ UNCHANGED <<jobVars, rowVars, mentions, nodes, vstatus, holder, tries,
                     stage, at, writeFailed, removeVars>>
  BY BusyWorker DEF StoreVectors
<1>2. PICK rs \in SUBSET Records : rs = batch[j].recs
  BY <1>1
<1>3. /\ batch' \in [Jobs -> Batches] /\ JobsOK'
      /\ batch'[j].phase = "stored" /\ batch'[j].recs = rs
      /\ \A i \in Jobs \ {j} : batch'[i] = batch[i]
      /\ \A i \in Jobs : InFlight(i)' = InFlight(i) /\ stage'[i] = stage[i] /\ at'[i] = at[i]
  BY <1>1, <1>2, WorkerMoves DEF Phases
<1>4. GraphTypeOK' /\ RecordsOK'
  BY <1>1, <1>3, AccountFiles DEF GraphInv, GraphTypeOK, RecordsOK, rowVars, removeVars, Batches, Phases
<1>5. ASSUME NEW f \in Files \ unsettled'
      PROVE  SettledOK(f)'
  <2>1. SettledOK(f)
    BY <1>1, <1>5, AccountFiles DEF GraphInv
  <2>2. ChunkOK(f)' /\ VectorsOK(f)' /\ OrphansOK(f)'
    BY <1>1, <2>1 DEF SettledOK, ChunkOK, VectorsOK, OrphansOK, rowVars, removeVars
  <2>3. BuildsOK(f)'
    BY <1>1, <1>2, <1>3, <2>1 DEF SettledOK, BuildsOK
  <2> QED BY <2>2, <2>3 DEF SettledOK
<1> QED BY <1>1, <1>3, <1>4, <1>5, AccountFiles DEF GraphInv

LEMMA IndexedStep ==
  ASSUME GraphInv, NEW j \in Jobs, MarkVectorsIndexed(j)
  PROVE  GraphInv'
<1>1. /\ Account /\ InFlight(j) /\ stage[j] \in {"listing", "draining"}
      /\ batch[j].phase = "stored" /\ SetBatch(j, "flush", {})
      /\ Release(Held(j), [r \in Records |-> "indexed"])
      /\ UNCHANGED <<jobVars, rowVars, mentions, nodes, vectors, stage, at, writeFailed, removeVars>>
  BY BusyWorker DEF MarkVectorsIndexed
<1>2. PICK rs : rs = Held(j)
  OBVIOUS
<1>3. /\ vstatus' \in [Records -> {"absent", "pending", "processing", "overdue", "indexed", "failed"}]
      /\ holder' \in [Records -> Jobs \cup {NoJob}] /\ tries' = tries
      /\ \A r \in rs : vstatus[r] \in {"processing", "overdue"} /\ vstatus'[r] = "indexed"
      /\ \A r \in Records \ rs : vstatus'[r] = vstatus[r]
      /\ \A r \in Records : holder'[r] # NoJob => vstatus'[r] \in {"processing", "overdue"}
  <2>1. PICK st \in [Records -> {"pending", "failed", "indexed"}] : st = [r \in Records |-> "indexed"]
    OBVIOUS
  <2>2. rs \in SUBSET Records /\ \A r \in rs : holder[r] # NoJob /\ st[r] = "indexed"
    BY <1>2, <2>1, GraphAssumption DEF Held, GraphInv, GraphTypeOK
  <2>3. Release(rs, st)
    BY <1>1, <1>2, <2>1
  <2> QED BY <2>2, <2>3, ReleaseStep
<1>4. /\ batch' \in [Jobs -> Batches] /\ JobsOK' /\ BuildsGoOn
  BY <1>1, WorkerMoves DEF Phases
<1>5. GraphTypeOK'
  BY <1>1, <1>3, <1>4, AccountFiles DEF GraphInv, GraphTypeOK, rowVars, removeVars, Batches, Phases
<1>6. RecordsOK'
  BY <1>1, <1>3 DEF GraphInv, RecordsOK, removeVars
<1>7. ASSUME NEW f \in Files \ unsettled'
      PROVE  SettledOK(f)'
  <2>1. SettledOK(f) /\ f \in Files \ unsettled /\ RecordsOf[f] \subseteq Records
    BY <1>1, <1>7, AccountFiles, GraphAssumption DEF GraphInv
  <2>2. resetAt = "none" /\ \A i \in Jobs \ {j} : stage[i] # "dropping"
    BY <1>1, <2>1, Undisturbed DEF GraphInv
  <2>3. \A r \in RecordsOf[f] : r \in rs => r \in vectors
    BY <1>1, <1>2, <2>1 DEF SettledOK, BuildsOK, Held
  <2>4. \A r \in RecordsOf[f] : vstatus'[r] = vstatus[r] \/ (r \in rs /\ vstatus[r] # "absent")
    BY <1>3, <2>1
  <2>5. \A r \in RecordsOf[f] : vstatus[r] = "indexed" => vstatus'[r] = "indexed"
    BY <1>3, <2>1
  <2>6. ChunkOK(f)'
    BY <1>1, <2>1, <2>5 DEF SettledOK, ChunkOK, rowVars, removeVars
  <2>7. VectorsOK(f)'
    BY <1>1, <2>1, <2>2, <2>3, <2>4 DEF SettledOK, VectorsOK, removeVars
  <2>8. OrphansOK(f)'
    <3>1. \A g \in Files : RecordsOf[g] \cap RecordsOf[f] # {} => purge[g] = "none"
      BY <1>1, <2>1, Undisturbed DEF GraphInv
    <3>2. \A g \in Files : RecordsOf[f] \cap orphans[g] = {}
      BY <3>1 DEF GraphInv, RecordsOK
    <3> QED BY <1>1, <3>2 DEF OrphansOK, removeVars
  <2>9. BuildsOK(f)'
    <3>1. \A i \in Jobs : stage'[i] # "dropping"
      BY <1>1, <2>2
    <3> SUFFICES ASSUME NEW i \in Jobs, InFlight(i)'
                 PROVE  /\ at'[i][f] \in {"noded", "rowed"} => f \in nodes'
                        /\ at'[i][f] = "rowed" => \A r \in RecordsOf[f] : <<f, r>> \in mentions'
                        /\ \A r \in RecordsOf[f] :
                             /\ batch'[i].phase = "stored" /\ r \in batch'[i].recs => r \in vectors'
                             /\ stage'[i] = "dropping" => vstatus'[r] # "indexed"
      BY DEF BuildsOK
    <3>2. /\ InFlight(i) /\ at'[i] = at[i]
          /\ batch'[i].phase = "stored" =>
               batch[i].phase = "stored" /\ batch'[i].recs = batch[i].recs
      BY <1>1, <1>4 DEF InFlight, BuildsGoOn
    <3> QED BY <1>1, <2>1, <3>1, <3>2 DEF SettledOK, BuildsOK
  <2> QED BY <2>6, <2>7, <2>8, <2>9 DEF SettledOK
<1> QED BY <1>1, <1>4, <1>5, <1>6, <1>7, AccountFiles DEF GraphInv

LEMMA FinalizeStep ==
  ASSUME GraphInv, NEW j \in Jobs, Finalize(j)
  PROVE  GraphInv'
<1>1. /\ Account /\ InFlight(j) /\ stage[j] \in {"listing", "draining"}
      /\ indexed' = indexed \cup {f \in structured \cap chunks : Searchable(f)}
      /\ SetBatch(j, "idle", {})
      /\ UNCHANGED <<jobVars, chunks, extracted, unextracted, structured, graphVars,
                     at, writeFailed, removeVars>>
  BY BusyWorker DEF Finalize
<1>2. PICK p \in {"over", "listing", "draining"} : stage' = [stage EXCEPT ![j] = p]
  <2>1. stage' = [stage EXCEPT ![j] = IF batch[j].phase = "last" THEN "over" ELSE stage[j]]
    BY DEF Finalize
  <2> QED BY <1>1, <2>1
<1>3. /\ stage' \in [Jobs -> Stages] /\ stage'[j] = p
      /\ \A i \in Jobs \ {j} : stage'[i] = stage[i]
  <2>1. p \in Stages
    BY DEF Stages, Building
  <2> QED BY <1>2, <2>1, StageStep DEF GraphInv
<1>4. /\ batch' \in [Jobs -> Batches] /\ batch'[j].phase = "idle"
      /\ \A i \in Jobs \ {j} : batch'[i] = batch[i]
  BY <1>1, BatchStep DEF GraphInv, Phases
<1>5. GraphTypeOK' /\ RecordsOK'
  <2>1. indexed' \subseteq Files
    BY <1>1 DEF GraphInv, GraphTypeOK
  <2> QED BY <1>1, <1>3, <1>4, <2>1, AccountFiles
      DEF GraphInv, GraphTypeOK, RecordsOK, graphVars, removeVars, Batches, Phases, Stages
<1>6. JobsOK'
  BY <1>1, <1>3, <1>4 DEF GraphInv, JobsOK, jobVars
<1>7. BuildsGoOn
  BY <1>1, <1>3, <1>4 DEF BuildsGoOn, InFlight, Building
<1>8. ASSUME NEW f \in Files \ unsettled'
      PROVE  SettledOK(f)'
  <2>1. SettledOK(f)
    BY <1>1, <1>8, AccountFiles DEF GraphInv
  <2>2. ChunkOK(f)'
    BY <1>1, <2>1, GraphAssumption DEF SettledOK, ChunkOK, Searchable, graphVars, removeVars
  <2>3. VectorsOK(f)' /\ OrphansOK(f)'
    BY <1>1, <2>1 DEF SettledOK, VectorsOK, OrphansOK, graphVars, removeVars
  <2>4. BuildsOK(f)'
    BY <1>1, <1>7, <2>1, BuildsPreserved DEF SettledOK, graphVars
  <2> QED BY <2>2, <2>3, <2>4 DEF SettledOK
<1> QED BY <1>1, <1>5, <1>6, <1>8, AccountFiles DEF GraphInv

-----------------------------------------------------------------------------
(* The deletion of a file's chunks                                         *)

Purges == {"none", "half", "refs", "commit", "vectors", "nodes", "chunks"}

LEMMA PurgeMoves ==
  ASSUME GraphInv, NEW f \in Files, NEW p \in Purges, SetPurge(f, p)
  PROVE  /\ purge' \in [Files -> Purges] /\ purge'[f] = p
         /\ \A g \in Files \ {f} : purge'[g] = purge[g]
BY DEF SetPurge, GraphInv, GraphTypeOK, Purges

(* A step of a deletion whose orphans are none or gone, and which takes    *)
(* away nothing but what only this file has.                               *)
LEMMA PurgeStep ==
  ASSUME GraphInv, NEW f \in Files, NEW p \in Purges \ {"none", "vectors"}, SetPurge(f, p), Account,
         UNCHANGED <<jobVars, rowVars, mentions, vstatus, holder, tries, vectors, buildVars, resetAt>>,
         nodes' \in {nodes, nodes \ {f}}, nodes' = nodes \/ purge[f] # "none",
         orphans' \in [Files -> SUBSET Records], removals' \in 0..MaxRemovals,
         \A g \in Files \ {f} : orphans'[g] = orphans[g],
         orphans'[f] # {} => p = "commit" /\ orphans'[f] = Orphaned(f)
  PROVE  GraphInv'
<1>1. /\ purge' \in [Files -> Purges] /\ purge'[f] = p
      /\ \A g \in Files \ {f} : purge'[g] = purge[g]
  BY PurgeMoves
<1>2. GraphTypeOK'
  BY <1>1, AccountFiles DEF GraphInv, GraphTypeOK, rowVars, buildVars, Purges
<1>3. JobsOK' /\ BuildsGoOn
  BY DEF GraphInv, JobsOK, BuildsGoOn, InFlight, jobVars, buildVars
<1>4. RecordsOK'
  <2>1. orphans'[f] \subseteq RecordsOf[f]
    BY DEF Orphaned, GraphInv, RecordsOK
  <2> QED BY <1>1, <2>1 DEF GraphInv, RecordsOK
<1>5. ASSUME NEW g \in Files \ unsettled'
      PROVE  SettledOK(g)'
  <2>1. SettledOK(g) /\ g \in Files \ unsettled
    BY <1>5, AccountFiles DEF GraphInv
  <2>2. ChunkOK(g)' /\ VectorsOK(g)'
    BY <1>1, <2>1 DEF SettledOK, ChunkOK, VectorsOK, rowVars
  <2>3. OrphansOK(g)'
    BY <1>1, <2>1 DEF SettledOK, OrphansOK, Orphaned
  <2>4. BuildsOK(g)'
    <3>1. CASE nodes' = nodes
      BY <1>3, <2>1, <3>1, BuildsPreserved DEF SettledOK
    <3>2. CASE nodes' # nodes
      <4>1. purge[f] # "none" /\ nodes' = nodes \ {f}
        BY <3>2
      <4>2. CASE g = f
        <5>1. \A j \in Jobs : ~InFlight(j)
          BY <2>1, <4>1, <4>2, Undisturbed DEF GraphInv
        <5> QED BY <5>1 DEF BuildsOK, InFlight, buildVars
      <4>3. CASE g # f
        BY <1>3, <2>1, <4>1, <4>3, BuildsPreserved DEF SettledOK
      <4> QED BY <4>2, <4>3
    <3> QED BY <3>1, <3>2
  <2> QED BY <2>2, <2>3, <2>4 DEF SettledOK
<1> QED BY <1>2, <1>3, <1>4, <1>5, AccountFiles DEF GraphInv

LEMMA PurgeMovesOn ==
  ASSUME GraphInv, NEW f \in Files,
         \/ PurgeBegins(f) \/ PurgeFindsOrphans(f) \/ PurgeVectors(f) \/ PurgeNodes(f) \/ PurgeFails(f)
  PROVE  GraphInv'
<1>0. /\ removals \in 0..MaxRemovals /\ MaxRemovals \in Nat
      /\ orphans \in [Files -> SUBSET Records]
      /\ purge[f] \notin {"commit", "vectors"} => orphans[f] = {}
  BY GraphAssumption DEF GraphInv, GraphTypeOK, RecordsOK
<1>1. CASE PurgeBegins(f)
  <2>1. PICK p \in {"refs", "chunks"} : SetPurge(f, p)
    BY <1>1 DEF PurgeBegins
  <2>2. removals' \in 0..MaxRemovals
    BY <1>0, <1>1 DEF PurgeBegins
  <2>3. orphans[f] = {} /\ p \in Purges \ {"none", "vectors"}
    BY <1>0, <1>1 DEF PurgeBegins, Purges
  <2> QED BY <1>0, <1>1, <2>1, <2>2, <2>3, PurgeStep DEF PurgeBegins, graphVars
<1>2. CASE PurgeFindsOrphans(f)
  <2>1. /\ orphans' \in [Files -> SUBSET Records] /\ orphans'[f] = Orphaned(f)
        /\ \A g \in Files \ {f} : orphans'[g] = orphans[g]
    BY <1>0, <1>2 DEF PurgeFindsOrphans, Orphaned
  <2>2. "commit" \in Purges \ {"none", "vectors"}
    BY DEF Purges
  <2> QED BY <1>0, <1>2, <2>1, <2>2, PurgeStep DEF PurgeFindsOrphans, graphVars
<1>3. CASE PurgeNodes(f)
  <2>1. "chunks" \in Purges \ {"none", "vectors"} /\ orphans[f] = {}
    BY <1>0, <1>3 DEF Purges, PurgeNodes
  <2> QED BY <1>0, <1>3, <2>1, PurgeStep DEF PurgeNodes
<1>4. CASE PurgeFails(f)
  <2>1. /\ orphans' \in [Files -> SUBSET Records] /\ orphans'[f] = {}
        /\ \A g \in Files \ {f} : orphans'[g] = orphans[g]
    BY <1>0, <1>4 DEF PurgeFails
  <2>2. "half" \in Purges \ {"none", "vectors"}
    BY DEF Purges
  <2> QED BY <1>0, <1>4, <2>1, <2>2, PurgeStep DEF PurgeFails, graphVars
<1>5. CASE PurgeVectors(f)
  <2>1. /\ purge[f] = "vectors" /\ vectors' = vectors \ orphans[f] /\ Account
        /\ orphans' = [orphans EXCEPT ![f] = {}] /\ SetPurge(f, "nodes")
        /\ UNCHANGED <<jobVars, rowVars, mentions, nodes, vstatus, holder, tries, buildVars,
                       resetAt, removals>>
    BY <1>5 DEF PurgeVectors
  <2>2. /\ purge' \in [Files -> Purges] /\ purge'[f] = "nodes"
        /\ \A g \in Files \ {f} : purge'[g] = purge[g]
    <3>1. "nodes" \in Purges
      BY DEF Purges
    <3> QED BY <2>1, <3>1, PurgeMoves
  <2>3. /\ orphans' \in [Files -> SUBSET Records] /\ orphans'[f] = {}
        /\ \A g \in Files \ {f} : orphans'[g] = orphans[g]
    BY <1>0, <2>1
  <2>4. GraphTypeOK' /\ RecordsOK'
    BY <2>1, <2>2, <2>3, AccountFiles
    DEF GraphInv, GraphTypeOK, RecordsOK, rowVars, buildVars, Purges
  <2>5. JobsOK' /\ BuildsGoOn
    BY <2>1 DEF GraphInv, JobsOK, BuildsGoOn, InFlight, jobVars, buildVars
  <2>6. ASSUME NEW g \in Files \ unsettled'
        PROVE  SettledOK(g)'
    <3>1. SettledOK(g) /\ g \in Files \ unsettled
      BY <2>1, <2>6, AccountFiles DEF GraphInv
    <3>2. \A r \in RecordsOf[g] : r \in orphans[f] => vstatus[r] = "absent"
      BY <2>1, <3>1 DEF SettledOK, OrphansOK
    <3>3. ChunkOK(g)' /\ VectorsOK(g)' /\ OrphansOK(g)'
      BY <2>1, <2>2, <2>3, <3>1, <3>2
      DEF SettledOK, ChunkOK, VectorsOK, OrphansOK, rowVars
    <3>4. BuildsOK(g)'
      <4>1. CASE \E j \in Jobs : InFlight(j)
        <5>1. RecordsOf[f] \cap RecordsOf[g] = {}
          BY <2>1, <3>1, <4>1, Undisturbed DEF GraphInv
        <5>2. RecordsOf[g] \cap orphans[f] = {}
          BY <5>1 DEF GraphInv, RecordsOK
        <5> QED BY <2>1, <2>5, <3>1, <5>2, BuildsPreserved DEF SettledOK
      <4>2. CASE ~ \E j \in Jobs : InFlight(j)
        BY <2>1, <4>2 DEF BuildsOK, InFlight, buildVars
      <4> QED BY <4>1, <4>2
    <3> QED BY <3>3, <3>4 DEF SettledOK
  <2> QED BY <2>1, <2>4, <2>5, <2>6, AccountFiles DEF GraphInv
<1> QED BY <1>1, <1>2, <1>3, <1>4, <1>5

LEMMA ReferencesStep ==
  ASSUME GraphInv, NEW f \in Files, PurgeReferences(f)
  PROVE  GraphInv'
<1>1. /\ purge[f] = "commit" /\ SetPurge(f, "vectors") /\ Account
      /\ mentions' = {m \in mentions : m[1] # f /\ m[2] \notin orphans[f]}
      /\ vstatus' = [r \in Records |-> IF r \in orphans[f] THEN "absent" ELSE vstatus[r]]
      /\ holder' = [r \in Records |-> IF r \in orphans[f] THEN NoJob ELSE holder[r]]
      /\ tries' = [r \in Records |-> IF r \in orphans[f] THEN 0 ELSE tries[r]]
      /\ UNCHANGED <<jobVars, rowVars, nodes, vectors, buildVars, orphans, resetAt, removals>>
  BY DEF PurgeReferences
<1>2. /\ purge' \in [Files -> Purges] /\ purge'[f] = "vectors"
      /\ \A g \in Files \ {f} : purge'[g] = purge[g]
  <2>1. "vectors" \in Purges
    BY DEF Purges
  <2> QED BY <1>1, <2>1, PurgeMoves
<1>3. /\ \A g \in Files, r \in Records :
           <<g, r>> \in mentions' <=> <<g, r>> \in mentions /\ g # f /\ r \notin orphans[f]
      /\ mentions' \subseteq mentions
  BY <1>1
<1>4. GraphTypeOK'
  <2>1. mentions' \subseteq Files \X Records
    BY <1>3 DEF GraphInv, GraphTypeOK
  <2>2. tries' \in [Records -> 0..VectorMaxAttempts]
    BY <1>1 DEF GraphInv, GraphTypeOK, VectorMaxAttempts
  <2> QED BY <1>1, <1>2, <2>1, <2>2, AccountFiles
      DEF GraphInv, GraphTypeOK, rowVars, buildVars, Purges
<1>5. JobsOK' /\ BuildsGoOn
  BY <1>1 DEF GraphInv, JobsOK, BuildsGoOn, InFlight, jobVars, buildVars
<1>6. RecordsOK'
  BY <1>1, <1>2, <1>3 DEF GraphInv, RecordsOK
<1>7. ASSUME NEW g \in Files \ unsettled'
      PROVE  SettledOK(g)'
  <2>1. SettledOK(g) /\ g \in Files \ unsettled /\ RecordsOf[g] \subseteq Records
    BY <1>1, <1>7, AccountFiles, GraphAssumption DEF GraphInv
  <2>2. g # f => \A r \in RecordsOf[g] : <<g, r>> \in mentions => r \notin orphans[f]
    BY <2>1 DEF SettledOK, OrphansOK
  <2>3. g # f => \A r \in RecordsOf[g] : <<g, r>> \in mentions => <<g, r>> \in mentions'
    BY <1>3, <2>1, <2>2
  <2>4. \A r \in RecordsOf[g] : /\ r \in orphans[f] => vstatus'[r] = "absent"
                                /\ r \notin orphans[f] => vstatus'[r] = vstatus[r]
    BY <1>1, <2>1
  <2>5. ChunkOK(g)'
    BY <1>1, <1>2, <2>1, <2>2, <2>3, <2>4 DEF SettledOK, ChunkOK, rowVars
  <2>6. VectorsOK(g)'
    BY <1>1, <2>1, <2>4 DEF SettledOK, VectorsOK
  <2>7. OrphansOK(g)'
    BY <1>1, <1>2, <1>3, <2>1, <2>4 DEF SettledOK, OrphansOK
  <2>8. BuildsOK(g)'
    <3>1. CASE g = f
      <4>1. \A j \in Jobs : ~InFlight(j)
        BY <1>1, <2>1, <3>1, Undisturbed DEF GraphInv
      <4> QED BY <1>1, <4>1 DEF BuildsOK, InFlight, buildVars
    <3>2. CASE g # f
      BY <1>1, <1>5, <2>1, <2>3, <2>4, <3>2, BuildsPreserved DEF SettledOK
    <3> QED BY <3>1, <3>2
  <2> QED BY <2>5, <2>6, <2>7, <2>8 DEF SettledOK
<1> QED BY <1>1, <1>4, <1>5, <1>6, <1>7, AccountFiles DEF GraphInv

LEMMA ChunksGoStep ==
  ASSUME GraphInv, NEW f \in Files, PurgeChunks(f)
  PROVE  GraphInv'
<1>1. /\ purge[f] = "chunks" /\ SetPurge(f, "none") /\ Account
      /\ chunks' = chunks \ {f}
      /\ extracted' = extracted \ {f} /\ unextracted' = unextracted \ {f}
      /\ structured' = structured \ {f} /\ indexed' = indexed \ {f}
      /\ mentions' = {m \in mentions : m[1] # f}
      /\ UNCHANGED <<jobVars, nodes, vstatus, holder, tries, vectors, buildVars,
                     orphans, resetAt, removals>>
  BY DEF PurgeChunks
<1>2. /\ purge' \in [Files -> Purges] /\ purge'[f] = "none"
      /\ \A g \in Files \ {f} : purge'[g] = purge[g]
  <2>1. "none" \in Purges
    BY DEF Purges
  <2> QED BY <1>1, <2>1, PurgeMoves
<1>3. /\ \A g \in Files, r \in Records : <<g, r>> \in mentions' <=> <<g, r>> \in mentions /\ g # f
      /\ mentions' \subseteq mentions
  BY <1>1
<1>4. GraphTypeOK'
  <2>1. mentions' \subseteq Files \X Records
    BY <1>3 DEF GraphInv, GraphTypeOK
  <2> QED BY <1>1, <1>2, <2>1, AccountFiles DEF GraphInv, GraphTypeOK, buildVars, Purges
<1>5. JobsOK' /\ BuildsGoOn
  BY <1>1 DEF GraphInv, JobsOK, BuildsGoOn, InFlight, jobVars, buildVars
<1>6. RecordsOK'
  BY <1>1, <1>2, <1>3 DEF GraphInv, RecordsOK
<1>7. ASSUME NEW g \in Files \ unsettled'
      PROVE  SettledOK(g)'
  <2>1. SettledOK(g) /\ g \in Files \ unsettled /\ RecordsOf[g] \subseteq Records
    BY <1>1, <1>7, AccountFiles, GraphAssumption DEF GraphInv
  <2>2. g # f => \A r \in RecordsOf[g] : <<g, r>> \in mentions => <<g, r>> \in mentions'
    BY <1>3, <2>1
  <2>3. ChunkOK(g)' /\ VectorsOK(g)'
    BY <1>1, <1>2, <2>1, <2>2 DEF SettledOK, ChunkOK, VectorsOK
  <2>4. OrphansOK(g)'
    BY <1>1, <1>2, <1>3, <2>1 DEF SettledOK, OrphansOK
  <2>5. BuildsOK(g)'
    <3>1. CASE g = f
      <4>1. \A j \in Jobs : ~InFlight(j)
        BY <1>1, <2>1, <3>1, Undisturbed DEF GraphInv
      <4> QED BY <1>1, <4>1 DEF BuildsOK, InFlight, buildVars
    <3>2. CASE g # f
      BY <1>1, <1>5, <2>1, <2>2, <3>2, BuildsPreserved DEF SettledOK
    <3> QED BY <3>1, <3>2
  <2> QED BY <2>3, <2>4, <2>5 DEF SettledOK
<1> QED BY <1>1, <1>4, <1>5, <1>6, <1>7, AccountFiles DEF GraphInv

LEMMA StoreChunkStep ==
  ASSUME GraphInv, NEW f \in Files, StoreChunk(f)
  PROVE  GraphInv'
<1>1. /\ Account /\ chunks' = chunks \cup {f}
      /\ at' = [j \in Jobs |-> [at[j] EXCEPT ![f] = IF at[j][f] = "done" THEN "none" ELSE at[j][f]]]
      /\ UNCHANGED <<jobVars, extracted, unextracted, structured, indexed, graphVars,
                     stage, batch, writeFailed, removeVars>>
  BY DEF StoreChunk
<1>2. /\ at' \in [Jobs -> [Files -> Positions]]
      /\ \A j \in Jobs, g \in Files : at'[j][g] = at[j][g] \/ at'[j][g] = "none"
  BY <1>1 DEF GraphInv, GraphTypeOK, Positions
<1>3. GraphTypeOK'
  BY <1>1, <1>2, AccountFiles DEF GraphInv, GraphTypeOK, graphVars, removeVars, Positions
<1>4. JobsOK' /\ BuildsGoOn
  BY <1>1, <1>2 DEF GraphInv, JobsOK, BuildsGoOn, InFlight, jobVars
<1> QED BY <1>1, <1>3, <1>4, QuietStep DEF removeVars

-----------------------------------------------------------------------------
(* The reset                                                               *)

LEMMA ResetDisturbs ==
  ASSUME Disturbed' \subseteq unsettled', NEW f \in Files \ unsettled', resetAt' # "none"
  PROVE  \A j \in Jobs : ~InFlight(j)'
BY DEF Disturbed

LEMMA ResetGoesOn ==
  ASSUME GraphInv, ResetBegins \/ ResetNodes \/ ResetVectors \/ ResetRecords \/ ResetFails
  PROVE  GraphInv'
<1>1. /\ UNCHANGED <<jobVars, rowVars, buildVars, purge, orphans>> /\ Account
      /\ resetAt' \in {"nodes", "vectors", "rows", "flags", "half"}
      /\ nodes' \subseteq nodes /\ mentions' \subseteq mentions /\ vectors' \subseteq vectors
      /\ resetAt' # "flags" => UNCHANGED <<vstatus, holder, tries>>
      /\ resetAt' = "flags" => /\ vstatus' = [r \in Records |-> "absent"]
                               /\ holder' = [r \in Records |-> NoJob]
                               /\ tries' = [r \in Records |-> 0]
  BY DEF ResetBegins, ResetNodes, ResetVectors, ResetRecords, ResetFails, ResetStep, graphVars
<1>2. removals' \in 0..MaxRemovals
  BY GraphAssumption
  DEF ResetBegins, ResetNodes, ResetVectors, ResetRecords, ResetFails, GraphInv, GraphTypeOK
<1>3. GraphTypeOK'
  BY <1>1, <1>2, AccountFiles
  DEF GraphInv, GraphTypeOK, rowVars, buildVars, VectorMaxAttempts
<1>4. JobsOK'
  BY <1>1 DEF GraphInv, JobsOK, jobVars, buildVars
<1>5. RecordsOK'
  BY <1>1 DEF GraphInv, RecordsOK
<1>6. ASSUME NEW f \in Files \ unsettled'
      PROVE  SettledOK(f)'
  <2>1. SettledOK(f) /\ RecordsOf[f] \subseteq Records
    BY <1>1, <1>6, AccountFiles, GraphAssumption DEF GraphInv
  <2>2. ChunkOK(f)' /\ VectorsOK(f)' /\ OrphansOK(f)'
    BY <1>1, <2>1 DEF SettledOK, ChunkOK, VectorsOK, OrphansOK
  <2>3. BuildsOK(f)'
    <3>1. \A j \in Jobs : ~InFlight(j)'
      BY <1>1, <1>6, AccountFiles, ResetDisturbs
    <3> QED BY <3>1 DEF BuildsOK
  <2> QED BY <2>2, <2>3 DEF SettledOK
<1> QED BY <1>1, <1>3, <1>4, <1>5, <1>6, AccountFiles DEF GraphInv

LEMMA ResetEnds ==
  ASSUME GraphInv, ResetFlags
  PROVE  GraphInv'
<1>1. /\ resetAt = "flags" /\ resetAt' = "none" /\ Account
      /\ structured' = {} /\ indexed' = {}
      /\ extracted' \subseteq extracted /\ unextracted' \subseteq unextracted
      /\ UNCHANGED <<jobVars, buildVars, purge, orphans, chunks, graphVars, removals>>
  BY DEF ResetFlags, ResetStep
<1>2. GraphTypeOK' /\ JobsOK' /\ RecordsOK'
  BY <1>1, AccountFiles
  DEF GraphInv, GraphTypeOK, JobsOK, RecordsOK, graphVars, buildVars, jobVars
<1>3. ASSUME NEW f \in Files \ unsettled'
      PROVE  SettledOK(f)'
  <2>1. SettledOK(f) /\ f \in Files \ unsettled
    BY <1>1, <1>3, AccountFiles DEF GraphInv
  <2>2. \A r \in RecordsOf[f] : vstatus[r] = "absent"
    BY <1>1, <2>1 DEF SettledOK, VectorsOK
  <2>3. ChunkOK(f)' /\ VectorsOK(f)' /\ OrphansOK(f)'
    BY <1>1, <2>1, <2>2 DEF SettledOK, ChunkOK, VectorsOK, OrphansOK, graphVars
  <2>4. BuildsOK(f)'
    <3>1. \A j \in Jobs : ~InFlight(j)
      BY <1>1, <2>1, Undisturbed DEF GraphInv
    <3> QED BY <1>1, <3>1 DEF BuildsOK, InFlight, buildVars
  <2> QED BY <2>3, <2>4 DEF SettledOK
<1> QED BY <1>1, <1>2, <1>3, AccountFiles DEF GraphInv

LEMMA GraphNextStep == GraphInv /\ [GraphNext]_graphAllVars => GraphInv'
<1> SUFFICES ASSUME GraphInv, [GraphNext]_graphAllVars PROVE GraphInv'
  OBVIOUS
<1>1. ASSUME NEW j \in Jobs, EnqueueBuild(j) \/ StartBuild(j) \/ LoseJob(j) \/ StopBuild(j)
      PROVE  GraphInv'
  BY <1>1, JobStep, StartStep, GoneStep
<1>2. ASSUME NEW j \in Jobs, Chunks(j)
      PROVE  GraphInv'
  <2>1. ASSUME NEW f \in Files,
               \/ ListChunk(j, f) \/ BeginExtraction(j, f) \/ WorkerDies(j, f) \/ ReadChunk(j, f) \/ WriterFails(j, f)
               \/ \E ok \in BOOLEAN : EndExtraction(j, f, ok) \/ ExtractAgain(j, f, ok)
        PROVE  GraphInv'
    BY <2>1, ChunkStep
  <2>2. ASSUME NEW f \in Files, WriteNode(j, f) \/ UpsertRecords(j, f) \/ MarkStructured(j, f)
        PROVE  GraphInv'
    BY <2>2, NodeStep, RowsStep, FlagStep
  <2> QED BY <1>2, <2>1, <2>2, ReconcileStep, DropStep, ListingStep, GoneStep DEF Chunks
<1>3. ASSUME NEW j \in Jobs, Vectors(j)
      PROVE  GraphInv'
  BY <1>3, ClaimStep, StoreStep, IndexedStep, FailStep, FinalizeStep, CountStep DEF Vectors
<1>7. ASSUME NEW j \in Jobs, Deaths(j)
      PROVE  GraphInv'
  BY <1>7, ChunkStep, CountStep DEF Deaths
<1>4. ASSUME NEW f \in Files, Purge(f)
      PROVE  GraphInv'
  BY <1>4, PurgeMovesOn, ReferencesStep, ChunksGoStep, StoreChunkStep DEF Purge
<1>5. CASE Reset
  BY <1>5, ResetGoesOn, ResetEnds DEF Reset
<1>6. CASE UNCHANGED graphAllVars
  <2>1. UNCHANGED <<jobVars, rowVars, graphVars, buildVars, removeVars, unsettled>>
    BY <1>6 DEF graphAllVars
  <2>2. Disturbed' = Disturbed
    BY <2>1 DEF Disturbed, InFlight, buildVars, removeVars
  <2>3. Account
    BY <2>1, <2>2 DEF Account, GraphInv
  <2>4. GraphTypeOK' /\ JobsOK' /\ BuildsGoOn
    BY <2>1
    DEF GraphInv, GraphTypeOK, JobsOK, BuildsGoOn, InFlight, jobVars, rowVars, graphVars, buildVars,
        removeVars
  <2> QED BY <2>1, <2>3, <2>4, QuietStep DEF rowVars, removeVars
<1> QED BY <1>1, <1>2, <1>3, <1>4, <1>5, <1>6, <1>7, LockStep DEF GraphNext

-----------------------------------------------------------------------------
(* KnowledgeGraph: the theorems                                            *)

(* The inductive invariant holds throughout: while a file is left alone,   *)
(* what the builds, the rows, Neo4j and Milvus say of it agrees.           *)
THEOREM GraphInvariance == GraphSpec => []GraphInv
BY GraphInitInv, GraphNextStep, PTL DEF GraphSpec

(* Chunks, records, builds, deletions and the reset keep their types.      *)
THEOREM GraphTypeCorrect == GraphSpec => []GraphTypeOK
<1>1. GraphInv => GraphTypeOK
  BY DEF GraphInv
<1> QED BY <1>1, GraphInvariance, PTL

(* A chunk that counts as indexed in the graph has its node, its mentions  *)
(* and for each of them a vector, whatever builds crash, outlive their job *)
(* and meet, and whatever other files are deleted, unless a deletion, a    *)
(* reset or a reconciliation touched it during a build or failed half way. *)
THEOREM IndexedSearchable == GraphSpec => []IndexedIsSearchable
<1>1. GraphInv => IndexedIsSearchable
  <2> SUFFICES ASSUME GraphInv, NEW f \in indexed \ unsettled, purge[f] = "none", resetAt = "none"
               PROVE  /\ f \in nodes
                      /\ \A r \in RecordsOf[f] :
                           <<f, r>> \in mentions /\ vstatus[r] = "indexed" /\ r \in vectors
    BY DEF IndexedIsSearchable
  <2>1. SettledOK(f)
    BY DEF GraphInv, GraphTypeOK
  <2> QED BY <2>1 DEF SettledOK, ChunkOK, VectorsOK
<1> QED BY <1>1, GraphInvariance, PTL
=============================================================================
