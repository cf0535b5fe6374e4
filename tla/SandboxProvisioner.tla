------------------------- MODULE SandboxProvisioner -------------------------
(***************************************************************************)
(* The sandbox provisioner (docker/sandbox_provisioner/app.py) with its    *)
(* Docker backend: the threads of one process that create, use, delete and *)
(* reap the containers of the Agents, and the pins, locks and gate that    *)
(* keep them apart.                                                        *)
(*                                                                         *)
(* Pins, sandbox locks and the count of creations are held by threads, so  *)
(* they are read off where the threads are.  The set of sandboxes that are *)
(* being deleted is a variable, as in the code, because it does not say    *)
(* by how many.                                                            *)
(*                                                                         *)
(* Creating, looking up, touching and deleting are synchronous handlers:   *)
(* each keeps its thread of the AnyIO pool from its beginning to its end,  *)
(* so the calls in progress have theirs and the others hold nothing yet.   *)
(* The proxy is a coroutine: it takes a thread of asyncio's default        *)
(* executor, which is bounded, to get its pin, gives it back, and takes    *)
(* one again to look the container up.                                     *)
(*                                                                         *)
(* A restart forgets all of this and finds the containers of the time      *)
(* before: it is an initial state.                                         *)
(***************************************************************************)
EXTENDS Naturals, FiniteSets

CONSTANTS
  Sandboxes,    \* sandbox ids; each also names the thread that a quiescence
                \* starts to delete it
  UidOf,        \* the user of a sandbox, which its id is derived from
  Callers,      \* threads that serve requests
  Reaper,       \* the idle reaper's thread
  NoSandbox,
  MaxInstances, \* SANDBOX_MAX_INSTANCES
  MaxPerUser,   \* SANDBOX_MAX_INSTANCES_PER_USER
  Workers,      \* threads of asyncio's default executor, for proxied requests
  MaxGen        \* bound: containers made for one sandbox

ASSUME SandboxAssumption ==
  /\ IsFiniteSet(Sandboxes)
  /\ Callers \cap Sandboxes = {}
  /\ Reaper \notin Callers \cup Sandboxes
  /\ NoSandbox \notin Sandboxes
  /\ MaxGen \in Nat \ {0}
  /\ MaxInstances \in Nat \ {0}
  /\ MaxPerUser \in 1..MaxInstances
  /\ Workers \in Nat \ {0}

Procs == Callers \cup {Reaper} \cup Sandboxes
Gens  == 0..MaxGen

VARIABLES
  gen,        \* the container of a sandbox by its id, 0 when there is none
  made,       \* containers made so far
  stale,      \* sandboxes whose container has the mounts or network of before
  activity,   \* _last_activity_at: of which container, and how long ago
  deleting,   \* SandboxOperationPins._deleting
  quiesce,    \* how far quiesce_sandboxes is; the gate is shut unless "never"
  call,       \* what a thread is doing
  overlapped, \* history: deletions during which another one of the sandbox ended
  leaked      \* sandboxes of which a pin is held by nobody any more

vars == <<gen, made, stale, activity, deleting, quiesce, call, overlapped, leaked>>

NoCall     == [op |-> "none", s |-> NoSandbox, at |-> "none", gen |-> 0]
NoActivity == [gen |-> 0, age |-> "none"]

Locking   == {"check", "run", "ready"}
Pinning   == Locking \cup {"enter", "leave", "pinned", "discover", "use", "body", "discard"}
Alone     == {"pin_alone", "discover_alone", "discard_alone"}
Deleting  == {"drain", "recheck", "crit", "removed", "failed"}
Positions == Pinning \cup Deleting \cup Alone \cup
             {"none", "queued", "pin", "touch", "begin", "forget"}

TypeOK ==
  /\ gen \in [Sandboxes -> Gens]
  /\ made \in [Sandboxes -> Gens]
  /\ stale \subseteq Sandboxes
  /\ activity \in [Sandboxes -> [gen : Gens, age : {"none", "recent", "idle"}]]
  /\ deleting \subseteq Sandboxes
  /\ quiesce \in {"never", "waiting", "listed", "over", "empty"}
  /\ call \in [Procs -> [op : {"none", "create", "use", "proxy", "delete", "reap", "quiesce"},
                         s : Sandboxes \cup {NoSandbox}, at : Positions, gen : Gens]]
  /\ overlapped \subseteq Procs
  /\ leaked \subseteq Sandboxes

At(p, places) == call[p].at \in places

(* SandboxOperationPins._active, the holder of a sandbox's lock and        *)
(* SandboxQuiescenceGate._active_creates.                                  *)
Pins(s)   == {p \in Procs : call[p].s = s /\ At(p, Pinning)}
Locked(s) == \E p \in Procs : call[p].s = s /\ At(p, Locking)
Creating  == {p \in Procs : call[p].op = "create" /\ At(p, Pinning \cup {"pin"})}
Live      == {s \in Sandboxes : gen[s] # 0}

(* Threads of the executor at work: in acquire or discover of a proxied    *)
(* request, also for a coroutine that has been cancelled.                  *)
Working == {p \in Procs : /\ call[p].op = "proxy"
                          /\ At(p, {"pin", "discover", "discard"} \cup Alone)}

(* What begin_delete sees in _active.                                      *)
InUse(s) == Pins(s) # {} \/ s \in leaked

WithinLimits ==
  /\ Cardinality(Live) <= MaxInstances
  /\ \A s \in Live : Cardinality({x \in Live : UidOf[x] = UidOf[s]}) <= MaxPerUser

(* _seed_existing: what is there counts as active now.                     *)
Init ==
  /\ gen \in [Sandboxes -> 0..1]
  /\ WithinLimits
  /\ made = gen
  /\ \E old \in SUBSET Sandboxes : stale = old \cap Live
  /\ activity = [s \in Sandboxes |->
                   IF gen[s] = 0 THEN NoActivity ELSE [gen |-> gen[s], age |-> "recent"]]
  /\ deleting = {}
  /\ quiesce = "never"
  /\ call = [p \in Procs |-> NoCall]
  /\ overlapped = {}
  /\ leaked = {}

Start(p, op, s, at, g) ==
  /\ call[p] = NoCall
  /\ call' = [call EXCEPT ![p] = [op |-> op, s |-> s, at |-> at, gen |-> g]]

Goto(p, at)        == call' = [call EXCEPT ![p].at = at]
GotoWith(p, at, g) == call' = [call EXCEPT ![p].at = at, ![p].gen = g]
Return(p)          == call' = [call EXCEPT ![p] = NoCall]

-----------------------------------------------------------------------------
(* Pins                                                                    *)

(* Mutant: a request does not look whether the sandbox is being deleted.   *)
MayPin_Always(s) == TRUE

MayPin(s) == s \notin deleting

(* SandboxOperationPins.acquire.                                           *)
Acquire(p) ==
  /\ At(p, {"pin"})
  /\ MayPin(call[p].s)
  /\ Goto(p, IF call[p].op = "create" THEN "enter"
             ELSE IF call[p].op = "use" THEN "discover" ELSE "pinned")
  /\ UNCHANGED <<gen, made, stale, activity, deleting, quiesce, overlapped, leaked>>

Admitted(p) == IF call[p].op = "reap" THEN "recheck" ELSE "crit"

(* begin_delete, which waits for the pins that are held.                   *)
BeginDelete(p) ==
  /\ At(p, {"begin"})
  /\ deleting' = deleting \cup {call[p].s}
  /\ Goto(p, IF InUse(call[p].s) THEN "drain" ELSE Admitted(p))
  /\ UNCHANGED <<gen, made, stale, activity, quiesce, overlapped, leaked>>

Drain(p) ==
  /\ At(p, {"drain"})
  /\ ~InUse(call[p].s)
  /\ Goto(p, Admitted(p))
  /\ UNCHANGED <<gen, made, stale, activity, deleting, quiesce, overlapped, leaked>>

-----------------------------------------------------------------------------
(* create_sandbox and LocalContainerProvisionerBackend.create              *)

AdmitCreate(p, s) ==
  /\ p \in Callers
  /\ quiesce = "never"
  /\ Start(p, "create", s, "pin", 0)
  /\ UNCHANGED <<gen, made, stale, activity, deleting, quiesce, overlapped, leaked>>

(* The container that is there under the sandbox's lock: it is used again, *)
(* refused because it has another identity or policy, or replaced because  *)
(* it is unhealthy or stale.  A failure to remove a stale one fails the    *)
(* request; one that is unhealthy may stay.                                *)
EnterCreate(p) ==
  LET s == call[p].s IN
  /\ At(p, {"enter"})
  /\ ~Locked(s)
  /\ \/ gen[s] # 0 /\ s \notin stale /\ GotoWith(p, "leave", gen[s]) /\ UNCHANGED <<gen, stale>>
     \/ gen[s] # 0 /\ Goto(p, "leave") /\ UNCHANGED <<gen, stale>>
     \/ gen[s] # 0 /\ s \notin stale /\ Goto(p, "check") /\ UNCHANGED <<gen, stale>>
     \/ /\ gen' = [gen EXCEPT ![s] = 0]
        /\ stale' = stale \ {s}
        /\ Goto(p, "check")
  /\ UNCHANGED <<made, activity, deleting, quiesce, overlapped, leaked>>

(* SandboxResourceLimits.check_capacity, of the containers at this time.   *)
HasCapacity(s) ==
  /\ Cardinality(Live) < MaxInstances
  /\ Cardinality({x \in Live : UidOf[x] = UidOf[s]}) < MaxPerUser

CheckCapacity(p) ==
  /\ At(p, {"check"})
  /\ Goto(p, IF HasCapacity(call[p].s) THEN "run" ELSE "leave")
  /\ UNCHANGED <<gen, made, stale, activity, deleting, quiesce, overlapped, leaked>>

(* containers.run; a container of that name that is still there makes it   *)
(* fail.                                                                   *)
RunContainer(p) ==
  LET s == call[p].s IN
  /\ At(p, {"run"})
  /\ gen[s] = 0
  /\ made[s] < MaxGen
  /\ gen' = [gen EXCEPT ![s] = made[s] + 1]
  /\ made' = [made EXCEPT ![s] = @ + 1]
  /\ Goto(p, "ready")
  /\ UNCHANGED <<stale, activity, deleting, quiesce, overlapped, leaked>>

ContainerReady(p) ==
  /\ At(p, {"ready"})
  /\ GotoWith(p, "leave", gen[call[p].s])
  /\ UNCHANGED <<gen, made, stale, activity, deleting, quiesce, overlapped, leaked>>

(* Anything raises: the container is deleted, if that succeeds.            *)
CreateFails(p) ==
  LET s == call[p].s IN
  /\ At(p, {"run", "ready"})
  /\ gen' \in {gen, [gen EXCEPT ![s] = 0]}
  /\ stale' = IF gen'[s] = 0 THEN stale \ {s} ELSE stale
  /\ Goto(p, "leave")
  /\ UNCHANGED <<made, activity, deleting, quiesce, overlapped, leaked>>

(* The pin and the gate are released before the reaper is told.            *)
LeaveCreate(p) ==
  /\ At(p, {"leave"})
  /\ IF call[p].gen = 0 THEN Return(p) ELSE Goto(p, "touch")
  /\ UNCHANGED <<gen, made, stale, activity, deleting, quiesce, overlapped, leaked>>

(* SandboxIdleReaper.touch.                                                *)
Touch(s, g) == activity' = [activity EXCEPT ![s] = [gen |-> g, age |-> "recent"]]

TouchCreated(p) ==
  /\ At(p, {"touch"})
  /\ Touch(call[p].s, call[p].gen)
  /\ Return(p)
  /\ UNCHANGED <<gen, made, stale, deleting, quiesce, overlapped, leaked>>

-----------------------------------------------------------------------------
(* get_sandbox, touch_sandbox and proxy_sandbox_request                    *)

StartUse(p, s) ==
  /\ p \in Callers
  /\ Start(p, "use", s, "pin", 0)
  /\ UNCHANGED <<gen, made, stale, activity, deleting, quiesce, overlapped, leaked>>

StartProxy(p, s) ==
  /\ p \in Callers
  /\ Start(p, "proxy", s, "queued", 0)
  /\ UNCHANGED <<gen, made, stale, activity, deleting, quiesce, overlapped, leaked>>

(* asyncio.to_thread: the acquire, and later the discover, get a thread.   *)
(* The executor's queue is in order; here any that waits may be next.      *)
TakeWorker(p) ==
  /\ Cardinality(Working) < Workers
  /\ \/ At(p, {"queued"}) /\ Goto(p, "pin")
     \/ At(p, {"pinned"}) /\ Goto(p, "discover")
  /\ UNCHANGED <<gen, made, stale, activity, deleting, quiesce, overlapped, leaked>>

(* The coroutine is cancelled.  A job that waits is dropped, one that runs *)
(* goes on alone.  The acquire is awaited outside the try: its pin is kept *)
(* when the cancellation meets the acquire, or meets its result.           *)
Cancel(p) ==
  /\ call[p].op = "proxy"
  /\ \/ At(p, {"queued", "pinned"}) /\ Return(p) /\ UNCHANGED leaked
     \/ At(p, {"pinned"}) /\ Return(p) /\ leaked' = leaked \cup {call[p].s}
     \/ At(p, {"pin"}) /\ Goto(p, "pin_alone") /\ UNCHANGED leaked
     \/ At(p, {"discover"}) /\ Goto(p, "discover_alone") /\ UNCHANGED leaked
     \/ At(p, {"discard"}) /\ Goto(p, "discard_alone") /\ UNCHANGED leaked
  /\ UNCHANGED <<gen, made, stale, activity, deleting, quiesce, overlapped>>

AcquireAlone(p) ==
  /\ At(p, {"pin_alone"})
  /\ MayPin(call[p].s)
  /\ leaked' = leaked \cup {call[p].s}
  /\ Return(p)
  /\ UNCHANGED <<gen, made, stale, activity, deleting, quiesce, overlapped>>

DiscoverAlone(p) ==
  /\ At(p, {"discover_alone"})
  /\ \/ call[p].s \in stale /\ Goto(p, "discard_alone")
     \/ Return(p)
  /\ UNCHANGED <<gen, made, stale, activity, deleting, quiesce, overlapped, leaked>>

(* discover, without the lock.                                             *)
Discover(p) ==
  LET s == call[p].s IN
  /\ At(p, {"discover"})
  /\ \/ gen[s] # 0 /\ s \notin stale /\ GotoWith(p, "use", gen[s])
     \/ gen[s] # 0 /\ s \in stale /\ Goto(p, "discard")
     \/ Return(p)
  /\ UNCHANGED <<gen, made, stale, activity, deleting, quiesce, overlapped, leaked>>

(* A stale container is deleted, whichever is there when the lock is free. *)
Discard(p) ==
  LET s == call[p].s IN
  /\ At(p, {"discard", "discard_alone"})
  /\ ~Locked(s)
  /\ gen' \in {gen, [gen EXCEPT ![s] = 0]}
  /\ stale' = IF gen'[s] = 0 THEN stale \ {s} ELSE stale
  /\ Return(p)
  /\ UNCHANGED <<made, activity, deleting, quiesce, overlapped, leaked>>

TouchUsed(p) ==
  /\ At(p, {"use"})
  /\ Touch(call[p].s, call[p].gen)
  /\ Goto(p, "body")
  /\ UNCHANGED <<gen, made, stale, deleting, quiesce, overlapped, leaked>>

(* The answer is complete, or the sandbox does not give one.               *)
EndUse(p) ==
  /\ At(p, {"use", "body"})
  /\ Return(p)
  /\ UNCHANGED <<gen, made, stale, activity, deleting, quiesce, overlapped, leaked>>

-----------------------------------------------------------------------------
(* Deletions: delete_sandbox, the reaper and the threads of a quiescence   *)

(* The clients always send the generation that they were given.            *)
StartDelete(p, s, g) ==
  /\ p \in Callers
  /\ g \in 1..made[s]
  /\ Start(p, "delete", s, "begin", g)
  /\ UNCHANGED <<gen, made, stale, activity, deleting, quiesce, overlapped, leaked>>

(* _collect_expired_sandboxes.  It collects all of them first and deletes  *)
(* one after the other; each is as old then as one that is collected by    *)
(* itself and waits.                                                       *)
Collect(s) ==
  /\ activity[s].age = "idle"
  /\ Start(Reaper, "reap", s, "begin", activity[s].gen)
  /\ UNCHANGED <<gen, made, stale, activity, deleting, quiesce, overlapped, leaked>>

(* _delete_expired_sandbox looks again once the pins are drained.          *)
Recheck(p) ==
  LET c == call[p] IN
  /\ At(p, {"recheck"})
  /\ Goto(p, IF activity[c.s] = [gen |-> c.gen, age |-> "idle"] THEN "crit" ELSE "failed")
  /\ UNCHANGED <<gen, made, stale, activity, deleting, quiesce, overlapped, leaked>>

(* SandboxGenerationMismatchError otherwise.                               *)
MayRemove(s, g) == gen[s] \in {0, g}

(* LocalContainerProvisionerBackend.delete.                                *)
Remove(p) ==
  LET c == call[p] IN
  /\ At(p, {"crit"})
  /\ ~Locked(c.s)
  /\ \/ /\ MayRemove(c.s, c.gen)
        /\ gen' = [gen EXCEPT ![c.s] = 0]
        /\ stale' = stale \ {c.s}
        /\ Goto(p, "removed")
     \/ Goto(p, "failed") /\ UNCHANGED <<gen, stale>>
  /\ UNCHANGED <<made, activity, deleting, quiesce, overlapped, leaked>>

(* Mutant: whichever container the entry is about.                         *)
Forget_AnyContainer(s, g) == activity' = [activity EXCEPT ![s] = NoActivity]

(* SandboxIdleReaper.forget with the generation that was deleted.          *)
Forget(s, g) ==
  activity' = [activity EXCEPT ![s] = IF @.gen = g THEN NoActivity ELSE @]

(* Mutant: only a deletion that succeeds lets requests in again.           *)
StillDeleting_AfterFailure(p) ==
  IF At(p, {"failed"}) THEN deleting ELSE deleting \ {call[p].s}

StillDeleting(p) == deleting \ {call[p].s}

(* end_delete, which the reaper calls after forget and the others before.  *)
EndDelete(p) ==
  LET c == call[p] IN
  /\ At(p, {"removed", "failed"})
  /\ deleting' = StillDeleting(p)
  /\ overlapped' = (overlapped \cup {q \in Procs : call[q].s = c.s /\ At(q, Deleting)}) \ {p}
  /\ IF At(p, {"removed"}) /\ c.op = "reap" THEN Forget(c.s, c.gen) ELSE UNCHANGED activity
  /\ IF At(p, {"removed"}) /\ c.op # "reap" THEN Goto(p, "forget") ELSE Return(p)
  /\ UNCHANGED <<gen, made, stale, quiesce, leaked>>

ForgetDeleted(p) ==
  /\ At(p, {"forget"})
  /\ Forget(call[p].s, call[p].gen)
  /\ Return(p)
  /\ UNCHANGED <<gen, made, stale, deleting, quiesce, overlapped, leaked>>

-----------------------------------------------------------------------------
(* quiesce_sandboxes                                                       *)

BeginQuiesce ==
  /\ quiesce \in {"never", "over"}
  /\ quiesce' = "waiting"
  /\ UNCHANGED <<gen, made, stale, activity, deleting, call, overlapped, leaked>>

(* Mutant: the creations that were admitted before are not waited for.     *)
CreationsDone_NotAwaited == TRUE

(* SandboxQuiescenceGate.begin.                                            *)
CreationsDone == Creating = {}

QuiesceThreadsDone == \A s \in Sandboxes : call[s] = NoCall

(* Every container is deleted by a thread of its own, and then the list is *)
(* read again, until it is empty.                                          *)
ListForQuiescence ==
  /\ \/ quiesce = "waiting" /\ CreationsDone
     \/ quiesce = "listed"
  /\ QuiesceThreadsDone
  /\ quiesce' = IF Live = {} THEN "empty" ELSE "listed"
  /\ call' = [p \in Procs |->
                IF p \in Live THEN [op |-> "quiesce", s |-> p, at |-> "begin", gen |-> gen[p]]
                ELSE call[p]]
  /\ UNCHANGED <<gen, made, stale, activity, deleting, overlapped, leaked>>

(* The deadline, or a deletion that failed; the threads go on.             *)
GiveUpQuiescence ==
  /\ quiesce = "listed"
  /\ quiesce' = "over"
  /\ UNCHANGED <<gen, made, stale, activity, deleting, call, overlapped, leaked>>

-----------------------------------------------------------------------------
TimePasses(s) ==
  /\ activity[s].age = "recent"
  /\ activity' = [activity EXCEPT ![s].age = "idle"]
  /\ UNCHANGED <<gen, made, stale, deleting, quiesce, call, overlapped, leaked>>

(* What a thread does once it has a call.                                  *)
Proceed(p) ==
  \/ BeginDelete(p)
  \/ Drain(p)
  \/ EnterCreate(p)
  \/ CheckCapacity(p)
  \/ RunContainer(p)
  \/ ContainerReady(p)
  \/ CreateFails(p)
  \/ LeaveCreate(p)
  \/ TouchCreated(p)
  \/ TakeWorker(p)
  \/ AcquireAlone(p)
  \/ DiscoverAlone(p)
  \/ Discover(p)
  \/ Discard(p)
  \/ TouchUsed(p)
  \/ EndUse(p)
  \/ Recheck(p)
  \/ Remove(p)
  \/ EndDelete(p)
  \/ ForgetDeleted(p)

Request(p, s) ==
  \/ AdmitCreate(p, s)
  \/ StartUse(p, s)
  \/ StartProxy(p, s)
  \/ \E g \in 1..MaxGen : StartDelete(p, s, g)

Quiescence ==
  \/ BeginQuiesce
  \/ ListForQuiescence
  \/ GiveUpQuiescence

NewWork ==
  \/ \E p \in Callers, s \in Sandboxes : Request(p, s)
  \/ \E s \in Sandboxes : Collect(s)
  \/ Quiescence

Next ==
  \/ \E p \in Procs : Acquire(p) \/ Proceed(p) \/ Cancel(p)
  \/ NewWork
  \/ \E s \in Sandboxes : TimePasses(s)

Spec == Init /\ [][Next]_vars

(* Threads that have one run, Docker answers and proxied answers end; a    *)
(* job gets a thread of the executor when one is free (TakeWorker).        *)
Fairness == \A p \in Procs : WF_vars(Proceed(p) \/ Acquire(p))

FairSpec == Spec /\ Fairness

-----------------------------------------------------------------------------
(* Properties                                                              *)

Removes(p) == At(p, {"crit"}) /\ call'[p].at = "removed" /\ gen[call[p].s] # 0

(* A deletion that is asked for, the reaper's and a quiescence's included, *)
(* takes the container away from no request that holds a pin.  This is so  *)
(* unless another deletion of the sandbox ended meanwhile: _deleting is a  *)
(* set, and the first to end lets requests in again.  The removals inside  *)
(* a create (of a container that is stale or failed) and of a stale        *)
(* container that discover finds pass by the gate: the code makes them     *)
(* with the sandbox's lock only, whoever holds a pin.                      *)
DeletionWaitsForRequests ==
  [][\A p \in Procs : Removes(p) /\ p \notin overlapped => Pins(call[p].s) = {}]_vars

(* What was told to be empty stays so: the migration that follows finds no *)
(* sandbox, nor one that is still being created.                           *)
QuiescedStaysEmpty ==
  quiesce = "empty" => Live = {} /\ Creating = {}

(* "容量由单个 provisioner 进程内的创建锁与真实实例清单共同裁决": never    *)
(* more containers than the limits allow.                                  *)
CapacityKept == WithinLimits

(* A deletion that is late to tell the reaper does not make it forget the  *)
(* container that was created meanwhile: it would never be reaped.         *)
LiveIsNotForgotten ==
  [][\A s \in Sandboxes :
       gen[s] # 0 /\ gen'[s] = gen[s] /\ activity[s].gen = gen[s] =>
         activity'[s] # NoActivity]_vars

(* Every thread of the executor waits in acquire for a deletion to end.    *)
Jammed ==
  Cardinality({p \in Working : At(p, {"pin", "pin_alone"})}) = Workers

(* Pins, locks and the gate never make each other wait for ever: when      *)
(* nothing new is asked, every call comes to its end.  The code falls      *)
(* short of that in two ways: a cancellation leaks a pin of the sandbox,   *)
(* and requests that wait for a deletion take all threads of the executor, *)
(* so that the deletion waits for the pin of one that gets no thread.      *)
CallsEnd ==
  <>[][~NewWork]_vars =>
    \A p \in Procs : <>[](call[p] = NoCall \/ call[p].s \in leaked \/ Jammed)
=============================================================================
