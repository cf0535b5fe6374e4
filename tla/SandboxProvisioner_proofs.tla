--------------------- MODULE SandboxProvisioner_proofs ---------------------
(* Theorems about SandboxProvisioner for any sandboxes, request threads,   *)
(* limits and numbers of containers.                                       *)
EXTENDS SandboxProvisioner, TLAPS

-----------------------------------------------------------------------------
(* The inductive invariant                                                 *)

Calls == [op : {"none", "create", "use", "proxy", "delete", "reap", "quiesce"},
          s : Sandboxes \cup {NoSandbox}, at : Positions, gen : Gens]

(* Nobody but p holds a pin of s.                                          *)
Unpinned(s, p) == \A q \in Procs \ {p} : call[q].s = s => ~At(q, Pinning)

(* A thread that deletes keeps requests out and, once admitted, finds none *)
(* inside, unless another deletion ended beside it.  When it tells the     *)
(* reaper, the container it removed is not there any more.                 *)
CallOK(p) ==
  /\ ~At(p, {"none"}) => call[p].s \in Sandboxes
  /\ call[p].s \in Sandboxes => call[p].gen <= made[call[p].s]
  /\ At(p, Locking \cup {"enter", "leave"}) => call[p].op = "create"
  /\ At(p, {"queued"}) => call[p].op = "proxy"
  /\ At(p, {"removed", "forget"}) => gen[call[p].s] = 0 \/ gen[call[p].s] # call[p].gen
  /\ At(p, Deleting) /\ p \notin overlapped => call[p].s \in deleting
  /\ At(p, {"recheck", "crit"}) /\ p \notin overlapped => Unpinned(call[p].s, p)

(* Containers are numbered in the order they are made.                     *)
GenOK(s) == gen[s] <= made[s] /\ activity[s].gen <= made[s]

(* When a quiescence has waited for the creations there are none again.    *)
GateOK ==
  /\ quiesce \in {"listed", "empty"} => Creating = {}
  /\ quiesce = "empty" => Live = {}

IInv ==
  /\ TypeOK
  /\ \A p \in Procs : CallOK(p)
  /\ \A s \in Sandboxes : GenOK(s)
  /\ GateOK

(* It holds of whatever containers a restart finds.                        *)
LEMMA InitInv == Init => IInv
<1> SUFFICES ASSUME Init PROVE IInv
  OBVIOUS
<1>1. 0 \in Gens /\ 1 \in Gens /\ 0..1 \subseteq Gens /\ Gens \subseteq Nat
  BY SandboxAssumption DEF Gens
<1>2. NoCall \in Calls
  BY <1>1 DEF NoCall, Calls, Positions
<1>3. gen \in [Sandboxes -> Gens] /\ made = gen
  BY <1>1 DEF Init
<1>4. activity \in [Sandboxes -> [gen : Gens, age : {"none", "recent", "idle"}]]
  BY <1>1, <1>3 DEF Init, NoActivity
<1>5. stale \subseteq Sandboxes
  BY DEF Init, Live
<1>6. TypeOK
  BY <1>2, <1>3, <1>4, <1>5 DEF Init, TypeOK, Calls
<1>7. \A p \in Procs : CallOK(p)
  BY SandboxAssumption DEF Init, NoCall, CallOK, At, Locking, Deleting
<1>8. \A s \in Sandboxes : GenOK(s)
  BY <1>1, <1>3 DEF Init, GenOK, NoActivity
<1>9. GateOK
  BY DEF Init, GateOK
<1> QED BY <1>6, <1>7, <1>8, <1>9 DEF IInv

-----------------------------------------------------------------------------
(* Steps of one thread                                                     *)

(* What a step may do to containers, deletions and the history.            *)
Harmless(p) ==
  /\ gen' \in [Sandboxes -> Gens] /\ made' \in [Sandboxes -> Gens]
  /\ \A s \in Sandboxes : made[s] <= made'[s]
  /\ \A s \in Sandboxes : gen'[s] \in {0, gen[s]} \/ gen'[s] > made[s]
  /\ (\E s \in Sandboxes : gen'[s] \notin {0, gen[s]}) => p \in Creating
  /\ overlapped \subseteq overlapped' \cup {p}
  /\ \A q \in Procs \ {p} :
       At(q, Deleting) /\ call[q].s \in deleting \ deleting' => q \in overlapped'
  /\ UNCHANGED quiesce

(* What a thread may do next: c is its call after the step.                *)
Legal(p, c) ==
  /\ c \in Calls
  /\ c.at # "none" => c.s \in Sandboxes
  /\ c.s \in Sandboxes => c.gen <= made'[c.s]
  /\ c.at \in Locking \cup {"enter", "leave"} => c.op = "create"
  /\ c.at = "queued" => c.op = "proxy"
  /\ c.at \in {"removed", "forget"} => gen'[c.s] = 0 \/ gen'[c.s] # c.gen
  /\ c.at \in Deleting /\ p \notin overlapped' => c.s \in deleting'
  /\ c.at \in {"recheck", "crit"} /\ p \notin overlapped' => Unpinned(c.s, p)
  /\ c.at \in Pinning => (At(p, Pinning) /\ c.s = call[p].s) \/ c.s \notin deleting
  /\ c.op = "create" /\ c.at \in Pinning \cup {"pin"} => p \in Creating \/ quiesce = "never"

LEMMA ThreadStep ==
  ASSUME IInv, NEW p \in Procs, NEW c, call' = [call EXCEPT ![p] = c],
         Legal(p, c), Harmless(p)
  PROVE  /\ call' \in [Procs -> Calls]
         /\ \A q \in Procs : CallOK(q)'
         /\ GateOK'
<1> USE DEF At
<1>0. /\ call \in [Procs -> Calls]
      /\ call'[p] = c
      /\ \A r \in Procs \ {p} : call'[r] = call[r]
      /\ gen \in [Sandboxes -> Nat] /\ made \in [Sandboxes -> Nat]
      /\ gen' \in [Sandboxes -> Nat] /\ made' \in [Sandboxes -> Nat]
      /\ \A r \in Procs : call[r].gen \in Nat
  BY SandboxAssumption DEF IInv, TypeOK, Calls, Legal, Harmless, Gens
<1>1. CallOK(p)'
  <2>1. Unpinned(c.s, p) => Unpinned(c.s, p)'
    BY <1>0 DEF Unpinned
  <2> QED BY <1>0, <2>1 DEF CallOK, Legal
<1>2. ASSUME NEW q \in Procs, q # p PROVE CallOK(q)'
  <2>1. CallOK(q) /\ call'[q] = call[q]
    BY <1>0, <1>2 DEF IInv
  <2>2. q \notin overlapped' => q \notin overlapped
    BY <1>2 DEF Harmless
  <2>3. call[q].at \in Deleting /\ q \notin overlapped' => call[q].s \in deleting'
    BY <1>2, <2>1, <2>2 DEF CallOK, Harmless
  <2>4. call[q].at \in {"recheck", "crit"} /\ q \notin overlapped' => Unpinned(call[q].s, q)'
    <3> SUFFICES ASSUME call[q].at \in {"recheck", "crit"}, q \notin overlapped',
                        NEW r \in Procs \ {q}, call'[r].s = call[q].s, call'[r].at \in Pinning
                 PROVE  FALSE
      BY <2>1 DEF Unpinned
    <3>1. Unpinned(call[q].s, q) /\ call[q].s \in deleting
      BY <2>1, <2>2 DEF CallOK, Deleting
    <3> QED BY <1>0, <3>1 DEF Unpinned, Legal
  <2>5. call[q].s \in Sandboxes => call[q].gen <= made'[call[q].s]
    BY <1>0, <2>1 DEF CallOK, Harmless
  <2>6. call[q].at \in {"removed", "forget"} =>
          gen'[call[q].s] = 0 \/ gen'[call[q].s] # call[q].gen
    BY <1>0, <2>1 DEF CallOK, Harmless
  <2> QED BY <2>1, <2>3, <2>4, <2>5, <2>6 DEF CallOK
<1>3. GateOK'
  <2>1. quiesce # "never" => Creating' \subseteq Creating
    BY <1>0 DEF Creating, Legal
  <2>2. p \notin Creating => Live' \subseteq Live
    BY <1>0 DEF Live, Harmless
  <2>3. quiesce' = quiesce
    BY DEF Harmless
  <2>4. quiesce \in {"listed", "empty"} => Creating = {}
    BY DEF IInv, GateOK
  <2>5. quiesce = "empty" => Live = {}
    BY DEF IInv, GateOK
  <2> QED BY <2>1, <2>2, <2>3, <2>4, <2>5 DEF GateOK
<1> QED BY <1>0, <1>1, <1>2, <1>3 DEF Legal

(* The two ways to go on: to another place of the call, or to its end.     *)
LEMMA GotoStep ==
  ASSUME IInv, NEW p \in Procs, NEW at \in Positions, NEW g \in Gens,
         GotoWith(p, at, g)
  PROVE  /\ call' = [call EXCEPT ![p] = [call[p] EXCEPT !.at = at, !.gen = g]]
         /\ [call[p] EXCEPT !.at = at, !.gen = g] \in Calls
BY DEF IInv, TypeOK, GotoWith, Calls

LEMMA GotoAsWith ==
  ASSUME IInv, NEW p \in Procs, NEW at, Goto(p, at)
  PROVE  GotoWith(p, at, call[p].gen) /\ call[p].gen \in Gens
BY DEF IInv, TypeOK, Goto, GotoWith

LEMMA ReturnStep ==
  ASSUME IInv, NEW p \in Procs, Return(p), Harmless(p)
  PROVE  /\ call' \in [Procs -> Calls]
         /\ \A q \in Procs : CallOK(q)'
         /\ GateOK'
<1>1. Legal(p, NoCall)
  BY SandboxAssumption
  DEF Legal, NoCall, Calls, Positions, Pinning, Locking, Deleting, Alone, Gens
<1> QED BY <1>1, ThreadStep DEF Return

-----------------------------------------------------------------------------
(* Every step of the provisioner                                           *)

(* A step that leaves containers, deletions and the gate alone.            *)
LEMMA Untouched ==
  ASSUME IInv, NEW p \in Procs, UNCHANGED <<gen, made, deleting, quiesce, overlapped>>
  PROVE  Harmless(p)
BY SandboxAssumption DEF Harmless, IInv, TypeOK, Gens

(* What is not about threads stays right.                                  *)
Rest ==
  /\ gen \in [Sandboxes -> Gens] /\ made \in [Sandboxes -> Gens]
  /\ stale \subseteq Sandboxes
  /\ activity \in [Sandboxes -> [gen : Gens, age : {"none", "recent", "idle"}]]
  /\ deleting \subseteq Sandboxes
  /\ quiesce \in {"never", "waiting", "listed", "over", "empty"}
  /\ overlapped \subseteq Procs
  /\ leaked \subseteq Sandboxes
  /\ \A s \in Sandboxes : GenOK(s)

LEMMA RestIsRight == IInv => Rest
BY DEF IInv, TypeOK, Rest

LEMMA Together ==
  ASSUME Rest', call' \in [Procs -> Calls], \A q \in Procs : CallOK(q)', GateOK'
  PROVE  IInv'
BY DEF Rest, IInv, TypeOK, Calls

(* A thread whose call is over.                                            *)
LEMMA EndStep ==
  ASSUME IInv, NEW p \in Procs, Return(p),
         UNCHANGED <<gen, made, stale, deleting, quiesce, overlapped, leaked>>,
         activity' \in [Sandboxes -> [gen : Gens, age : {"none", "recent", "idle"}]],
         \A s \in Sandboxes : activity'[s].gen <= made[s]
  PROVE  IInv'
<1>1. Rest'
  BY RestIsRight DEF Rest, GenOK
<1> QED BY <1>1, Untouched, ReturnStep, Together

(* An idle thread takes a call.                                            *)
LEMMA CallStep ==
  ASSUME IInv, NEW p \in Procs, NEW op, NEW s \in Sandboxes, NEW at \in {"pin", "begin", "queued"},
         NEW g \in Gens, Start(p, op, s, at, g), g <= made[s], at = "queued" => op = "proxy",
         op \in {"create", "use", "proxy", "delete", "reap", "quiesce"},
         op = "create" => quiesce = "never",
         UNCHANGED <<gen, made, stale, activity, deleting, quiesce, overlapped, leaked>>
  PROVE  IInv'
<1> DEFINE c == [op |-> op, s |-> s, at |-> at, gen |-> g]
<1>1. call' = [call EXCEPT ![p] = c]
  BY DEF Start
<1>2. Legal(p, c)
  BY DEF Legal, Calls, Positions, Pinning, Locking, Deleting, Alone
<1>3. Rest'
  BY RestIsRight DEF Rest, GenOK
<1> QED BY <1>1, <1>2, <1>3, Untouched, ThreadStep, Together

-----------------------------------------------------------------------------
(* The calls that create or use a container                                *)

(* Where a request goes on to: it has its pin already or gets it now.      *)
Onward(p, at) ==
  /\ at \in Pinning \cup Alone \cup {"touch", "pin"}
  /\ at \in Locking \cup {"enter", "leave"} => call[p].op = "create"
  /\ at = "pin" => call[p].op = "proxy"
  /\ at \in Pinning => At(p, Pinning) \/ (At(p, {"pin"}) /\ call[p].s \notin deleting)

(* What it may do to the container of its sandbox.                         *)
Contained(p) ==
  /\ gen' \in [Sandboxes -> Gens] /\ made' \in [Sandboxes -> Gens]
  /\ \A s \in Sandboxes : made[s] <= made'[s] /\ gen'[s] <= made'[s]
  /\ \A s \in Sandboxes : gen'[s] \in {0, gen[s]} \/ (gen'[s] > made[s] /\ p \in Creating)
  /\ stale' \subseteq stale

LEMMA KeptContained ==
  ASSUME IInv, NEW p \in Procs, UNCHANGED <<gen, made, stale>>
  PROVE  Contained(p)
BY SandboxAssumption DEF IInv, TypeOK, GenOK, Contained, Gens

LEMMA OnwardStep ==
  ASSUME IInv, NEW p \in Procs, NEW at, NEW g \in Gens, Onward(p, at), Contained(p),
         GotoWith(p, at, g), call[p].s \in Sandboxes, g <= made'[call[p].s],
         activity' \in [Sandboxes -> [gen : Gens, age : {"none", "recent", "idle"}]],
         \A s \in Sandboxes : activity'[s].gen <= made[s],
         UNCHANGED <<deleting, quiesce, overlapped, leaked>>
  PROVE  IInv'
<1> DEFINE c == [call[p] EXCEPT !.at = at, !.gen = g]
<1>0. at \in Positions
  BY DEF Onward, Positions
<1>1. call' = [call EXCEPT ![p] = c] /\ c \in Calls
  BY <1>0, GotoStep
<1>2. call[p] \in Calls /\ CallOK(p)
  BY DEF IInv, TypeOK, Calls
<1>3. c.at = at /\ c.s = call[p].s /\ c.op = call[p].op /\ c.gen = g
  BY <1>2 DEF Calls
<1> HIDE DEF c
<1>4. at \notin Deleting \cup {"removed", "forget", "recheck", "crit", "queued", "none"}
  BY DEF Onward, Pinning, Locking, Deleting, Alone
<1>5. Legal(p, c)
  <2>1. c.op = "create" /\ c.at \in Pinning \cup {"pin"} => p \in Creating
    BY <1>3, <1>4 DEF Onward, Creating, At
  <2> QED BY <1>1, <1>3, <1>4, <2>1 DEF Legal, Onward
<1>6. Harmless(p)
  BY DEF Harmless, Contained
<1>7. Rest'
  <2>1. \A s \in Sandboxes : activity'[s].gen \in Nat
    BY SandboxAssumption DEF Gens
  <2>2. \A s \in Sandboxes : made[s] \in Nat /\ made'[s] \in Nat
    BY SandboxAssumption DEF IInv, TypeOK, Contained, Gens
  <2>3. \A s \in Sandboxes : GenOK(s)'
    BY <2>1, <2>2 DEF GenOK, Contained
  <2> QED BY <2>3, RestIsRight DEF Rest, Contained
<1> QED BY <1>1, <1>5, <1>6, <1>7, ThreadStep, Together

(* The same for a step that only moves.                                    *)
LEMMA MoveStep ==
  ASSUME IInv, NEW p \in Procs, NEW at, Onward(p, at), Goto(p, at), call[p].s \in Sandboxes,
         UNCHANGED <<gen, made, stale, activity, deleting, quiesce, overlapped, leaked>>
  PROVE  IInv'
<1>1. GotoWith(p, at, call[p].gen) /\ call[p].gen \in Gens
  BY GotoAsWith
<1>2. Contained(p)
  BY KeptContained
<1>3. call[p].gen <= made'[call[p].s] /\ Rest
  BY RestIsRight DEF IInv, CallOK
<1> QED BY <1>1, <1>2, <1>3, OnwardStep DEF Rest, GenOK

(* What is known of the sandbox of a request.                              *)
LEMMA Known ==
  ASSUME IInv, NEW p \in Procs, ~At(p, {"none"})
  PROVE  LET s == call[p].s IN
         /\ s \in Sandboxes
         /\ gen[s] \in Gens /\ gen[s] \in Nat /\ made[s] \in Nat /\ gen[s] <= made[s]
         /\ call[p].gen \in Gens /\ call[p].gen \in Nat /\ call[p].gen <= made[s]
         /\ At(p, Locking \cup {"enter", "leave"}) => call[p].op = "create"
<1>1. /\ call[p].s \in Sandboxes /\ call[p].gen <= made[call[p].s]
      /\ At(p, Locking \cup {"enter", "leave"}) => call[p].op = "create"
  BY DEF IInv, CallOK
<1>2. call[p].gen \in Gens
  BY DEF IInv, TypeOK
<1>3. /\ gen[call[p].s] \in Gens /\ made[call[p].s] \in Gens
      /\ gen[call[p].s] <= made[call[p].s]
  BY <1>1 DEF IInv, TypeOK, GenOK
<1>4. Gens \subseteq Nat
  BY SandboxAssumption DEF Gens
<1> QED BY <1>1, <1>2, <1>3, <1>4

(* The container of s is gone or as it was.                                *)
LEMMA GoneContained ==
  ASSUME IInv, NEW p \in Procs, NEW s \in Sandboxes,
         gen' \in {gen, [gen EXCEPT ![s] = 0]}, UNCHANGED made, stale' \subseteq stale
  PROVE  Contained(p)
<1>1. /\ gen \in [Sandboxes -> Gens] /\ made \in [Sandboxes -> Gens]
      /\ 0 \in Gens /\ Gens \subseteq Nat
      /\ \A r \in Sandboxes : gen[r] <= made[r]
  BY SandboxAssumption DEF IInv, TypeOK, GenOK, Gens
<1>2. gen' \in [Sandboxes -> Gens]
  BY <1>1
<1>3. \A r \in Sandboxes : gen'[r] \in {0, gen[r]}
  BY <1>1
<1>4. \A r \in Sandboxes : made'[r] = made[r] /\ made[r] \in Nat /\ gen[r] <= made[r]
  BY <1>1
<1>5. \A r \in Sandboxes : made[r] <= made'[r] /\ gen'[r] <= made'[r]
  BY <1>3, <1>4
<1> QED BY <1>1, <1>2, <1>3, <1>5 DEF Contained

(* The reaper's entry of s is about the container of p's call.             *)
LEMMA TouchTyped ==
  ASSUME IInv, NEW p \in Procs, ~At(p, {"none"}), Touch(call[p].s, call[p].gen)
  PROVE  /\ activity' \in [Sandboxes -> [gen : Gens, age : {"none", "recent", "idle"}]]
         /\ \A r \in Sandboxes : activity'[r].gen <= made[r]
<1>1. /\ activity \in [Sandboxes -> [gen : Gens, age : {"none", "recent", "idle"}]]
      /\ \A r \in Sandboxes : activity[r].gen <= made[r]
  BY DEF IInv, TypeOK, GenOK
<1>2. call[p].s \in Sandboxes /\ call[p].gen \in Gens /\ call[p].gen <= made[call[p].s]
  BY Known
<1> QED BY <1>1, <1>2 DEF Touch

LEMMA ActivityTyped ==
  ASSUME IInv
  PROVE  /\ activity \in [Sandboxes -> [gen : Gens, age : {"none", "recent", "idle"}]]
         /\ \A r \in Sandboxes : activity[r].gen <= made[r]
BY DEF IInv, TypeOK, GenOK

LEMMA AcquireStep == ASSUME IInv, NEW p \in Procs, Acquire(p) PROVE IInv'
<1> DEFINE at == IF call[p].op = "create" THEN "enter"
                 ELSE IF call[p].op = "use" THEN "discover" ELSE "pinned"
<1>1. Goto(p, at) /\ call[p].s \notin deleting /\ At(p, {"pin"})
  BY DEF Acquire, MayPin
<1>2. Onward(p, at)
  BY <1>1 DEF Onward, Pinning, Locking
<1>3. call[p].s \in Sandboxes
  BY <1>1, Known DEF At
<1> HIDE DEF at
<1> QED BY <1>1, <1>2, <1>3, MoveStep DEF Acquire

LEMMA EnterCreateStep == ASSUME IInv, NEW p \in Procs, EnterCreate(p) PROVE IInv'
<1> DEFINE s == call[p].s
<1>1. At(p, {"enter"}) /\ UNCHANGED <<made, activity, deleting, quiesce, overlapped, leaked>>
  BY DEF EnterCreate
<1>2. /\ s \in Sandboxes /\ gen[s] \in Gens /\ gen[s] <= made[s]
      /\ call[p].gen \in Gens /\ call[p].gen <= made[s] /\ call[p].op = "create"
  BY <1>1, Known DEF At
<1>3. Onward(p, "leave") /\ Onward(p, "check")
  BY <1>1, <1>2 DEF Onward, At, Pinning, Locking
<1>4. CASE GotoWith(p, "leave", gen[s]) /\ UNCHANGED <<gen, stale>>
  <2>1. Contained(p)
    BY <1>1, <1>4, KeptContained
  <2> QED BY <1>1, <1>2, <1>3, <1>4, <2>1, OnwardStep, ActivityTyped
<1>5. CASE Goto(p, "leave") /\ UNCHANGED <<gen, stale>>
  BY <1>1, <1>2, <1>3, <1>5, MoveStep
<1>6. CASE Goto(p, "check") /\ UNCHANGED <<gen, stale>>
  BY <1>1, <1>2, <1>3, <1>6, MoveStep
<1>7. CASE gen' = [gen EXCEPT ![s] = 0] /\ stale' = stale \ {s} /\ Goto(p, "check")
  <2>1. GotoWith(p, "check", call[p].gen)
    BY <1>7, GotoAsWith
  <2>2. Contained(p)
    BY <1>1, <1>2, <1>7, GoneContained
  <2> QED BY <1>1, <1>2, <1>3, <2>1, <2>2, OnwardStep, ActivityTyped
<1> QED BY <1>4, <1>5, <1>6, <1>7 DEF EnterCreate

LEMMA CheckCapacityStep == ASSUME IInv, NEW p \in Procs, CheckCapacity(p) PROVE IInv'
<1> DEFINE at == IF HasCapacity(call[p].s) THEN "run" ELSE "leave"
<1>1. At(p, {"check"}) /\ Goto(p, at) /\ at \in {"run", "leave"}
  BY DEF CheckCapacity
<1>2. call[p].s \in Sandboxes /\ call[p].op = "create"
  BY <1>1, Known DEF At, Locking
<1> HIDE DEF at
<1>3. Onward(p, at)
  BY <1>1, <1>2 DEF Onward, At, Pinning, Locking
<1> QED BY <1>1, <1>2, <1>3, MoveStep DEF CheckCapacity

LEMMA RunContainerStep == ASSUME IInv, NEW p \in Procs, RunContainer(p) PROVE IInv'
<1> DEFINE s == call[p].s
<1>1. At(p, {"run"}) /\ UNCHANGED <<stale, activity, deleting, quiesce, overlapped, leaked>>
  BY DEF RunContainer
<1>2. /\ s \in Sandboxes /\ call[p].op = "create"
      /\ call[p].gen \in Gens /\ call[p].gen \in Nat /\ call[p].gen <= made[s]
      /\ made[s] \in Nat
  BY <1>1, Known DEF At, Locking
<1>3. p \in Creating
  BY <1>1, <1>2 DEF Creating, At, Pinning, Locking
<1>4. /\ made' = [made EXCEPT ![s] = made[s] + 1]
      /\ gen' = [gen EXCEPT ![s] = made[s] + 1]
      /\ made[s] + 1 \in Gens
  BY <1>2, SandboxAssumption DEF RunContainer, Gens
<1>5. Onward(p, "ready")
  BY <1>1, <1>2 DEF Onward, At, Pinning, Locking
<1>6. /\ gen \in [Sandboxes -> Gens] /\ made \in [Sandboxes -> Gens] /\ Gens \subseteq Nat
      /\ \A r \in Sandboxes : gen[r] <= made[r]
  BY SandboxAssumption DEF IInv, TypeOK, GenOK, Gens
<1>7. Contained(p)
  <2>1. \A r \in Sandboxes \ {s} : made'[r] = made[r] /\ gen'[r] = gen[r]
    BY <1>4, <1>6
  <2>2. made'[s] = made[s] + 1 /\ gen'[s] = made[s] + 1
    BY <1>2, <1>4, <1>6
  <2>3. \A r \in Sandboxes : made[r] \in Nat /\ gen[r] \in Nat
    BY <1>6
  <2>4. \A r \in Sandboxes : made[r] <= made'[r] /\ gen'[r] <= made'[r]
    BY <1>6, <2>1, <2>2, <2>3
  <2>5. \A r \in Sandboxes : gen'[r] \in {0, gen[r]} \/ gen'[r] > made[r]
    BY <2>1, <2>2, <2>3
  <2>6. gen' \in [Sandboxes -> Gens] /\ made' \in [Sandboxes -> Gens]
    BY <1>4, <1>6
  <2> QED BY <1>1, <1>3, <2>4, <2>5, <2>6 DEF Contained
<1>8. GotoWith(p, "ready", call[p].gen)
  BY GotoAsWith DEF RunContainer
<1>9. call[p].gen <= made'[s]
  BY <1>2, <1>4, <1>6
<1> QED BY <1>1, <1>2, <1>5, <1>7, <1>8, <1>9, OnwardStep, ActivityTyped

LEMMA ContainerReadyStep == ASSUME IInv, NEW p \in Procs, ContainerReady(p) PROVE IInv'
<1> DEFINE s == call[p].s
<1>1. /\ At(p, {"ready"}) /\ GotoWith(p, "leave", gen[s])
      /\ UNCHANGED <<gen, made, stale, activity, deleting, quiesce, overlapped, leaked>>
  BY DEF ContainerReady
<1>2. s \in Sandboxes /\ gen[s] \in Gens /\ gen[s] <= made[s] /\ call[p].op = "create"
  BY <1>1, Known DEF At, Locking
<1>3. Onward(p, "leave") /\ Contained(p)
  BY <1>1, <1>2, KeptContained DEF Onward, At, Pinning, Locking
<1> QED BY <1>1, <1>2, <1>3, OnwardStep, ActivityTyped

LEMMA CreateFailsStep == ASSUME IInv, NEW p \in Procs, CreateFails(p) PROVE IInv'
<1> DEFINE s == call[p].s
<1>1. At(p, {"run", "ready"}) /\ UNCHANGED <<made, activity, deleting, quiesce, overlapped, leaked>>
  BY DEF CreateFails
<1>2. /\ s \in Sandboxes /\ call[p].op = "create"
      /\ call[p].gen \in Gens /\ call[p].gen <= made[s]
  BY <1>1, Known DEF At, Locking
<1>3. Onward(p, "leave")
  BY <1>1, <1>2 DEF Onward, At, Pinning, Locking
<1>4. Contained(p)
  BY <1>1, <1>2, GoneContained DEF CreateFails
<1>5. GotoWith(p, "leave", call[p].gen)
  BY GotoAsWith DEF CreateFails
<1> QED BY <1>1, <1>2, <1>3, <1>4, <1>5, OnwardStep, ActivityTyped

LEMMA LeaveCreateStep == ASSUME IInv, NEW p \in Procs, LeaveCreate(p) PROVE IInv'
<1>1. /\ At(p, {"leave"})
      /\ UNCHANGED <<gen, made, stale, activity, deleting, quiesce, overlapped, leaked>>
  BY DEF LeaveCreate
<1>2. CASE Return(p)
  BY <1>1, <1>2, EndStep, ActivityTyped
<1>3. CASE Goto(p, "touch")
  <2>1. Onward(p, "touch")
    BY DEF Onward, Pinning, Locking
  <2>2. call[p].s \in Sandboxes
    BY <1>1, Known DEF At
  <2> QED BY <1>1, <1>3, <2>1, <2>2, MoveStep
<1> QED BY <1>2, <1>3 DEF LeaveCreate

LEMMA TouchCreatedStep == ASSUME IInv, NEW p \in Procs, TouchCreated(p) PROVE IInv'
<1>1. ~At(p, {"none"})
  BY DEF TouchCreated, At
<1> QED BY <1>1, TouchTyped, EndStep DEF TouchCreated

LEMMA DiscoverStep == ASSUME IInv, NEW p \in Procs, Discover(p) PROVE IInv'
<1> DEFINE s == call[p].s
<1>1. /\ At(p, {"discover"})
      /\ UNCHANGED <<gen, made, stale, activity, deleting, quiesce, overlapped, leaked>>
  BY DEF Discover
<1>2. s \in Sandboxes /\ gen[s] \in Gens /\ gen[s] <= made[s]
  BY <1>1, Known DEF At
<1>3. Onward(p, "use") /\ Onward(p, "discard") /\ Contained(p)
  BY <1>1, KeptContained DEF Onward, At, Pinning, Locking
<1>4. CASE GotoWith(p, "use", gen[s])
  BY <1>1, <1>2, <1>3, <1>4, OnwardStep, ActivityTyped
<1>5. CASE Goto(p, "discard")
  BY <1>1, <1>2, <1>3, <1>5, MoveStep
<1>6. CASE Return(p)
  BY <1>1, <1>6, EndStep, ActivityTyped
<1> QED BY <1>4, <1>5, <1>6 DEF Discover

LEMMA DiscardStep == ASSUME IInv, NEW p \in Procs, Discard(p) PROVE IInv'
<1>1. /\ ~At(p, {"none"}) /\ Return(p) /\ stale' \subseteq stale
      /\ UNCHANGED <<made, activity, deleting, quiesce, overlapped, leaked>>
  BY DEF Discard, At
<1>2. call[p].s \in Sandboxes
  BY <1>1, Known
<1>3. Contained(p)
  BY <1>1, <1>2, GoneContained DEF Discard
<1>4. Harmless(p)
  BY <1>1, <1>3 DEF Harmless, Contained
<1>5. Rest'
  <2>1. \A r \in Sandboxes : GenOK(r)'
    BY <1>1, <1>3, ActivityTyped DEF GenOK, Contained
  <2> QED BY <1>1, <1>3, <2>1, RestIsRight DEF Rest, Contained
<1> QED BY <1>1, <1>4, <1>5, ReturnStep, Together

LEMMA TakeWorkerStep == ASSUME IInv, NEW p \in Procs, TakeWorker(p) PROVE IInv'
<1>1. UNCHANGED <<gen, made, stale, activity, deleting, quiesce, overlapped, leaked>>
  BY DEF TakeWorker
<1>2. CASE At(p, {"queued"}) /\ Goto(p, "pin")
  <2>1. call[p].s \in Sandboxes /\ call[p].op = "proxy"
    BY <1>2, Known DEF IInv, CallOK, At
  <2>2. Onward(p, "pin")
    BY <2>1 DEF Onward, Pinning, Locking
  <2> QED BY <1>1, <1>2, <2>1, <2>2, MoveStep
<1>3. CASE At(p, {"pinned"}) /\ Goto(p, "discover")
  <2>1. call[p].s \in Sandboxes
    BY <1>3, Known DEF At
  <2>2. Onward(p, "discover")
    BY <1>3 DEF Onward, At, Pinning, Locking
  <2> QED BY <1>1, <1>3, <2>1, <2>2, MoveStep
<1> QED BY <1>2, <1>3 DEF TakeWorker

(* A thread whose call is over, and which may leave a pin behind.          *)
LEMMA LeakStep ==
  ASSUME IInv, NEW p \in Procs, Return(p), leaked' \subseteq Sandboxes,
         UNCHANGED <<gen, made, stale, activity, deleting, quiesce, overlapped>>
  PROVE  IInv'
<1>1. Rest'
  BY RestIsRight DEF Rest, GenOK
<1> QED BY <1>1, Untouched, ReturnStep, Together

LEMMA CancelStep == ASSUME IInv, NEW p \in Procs, Cancel(p) PROVE IInv'
<1>1. /\ At(p, {"queued", "pinned", "pin", "discover", "discard"})
      /\ UNCHANGED <<gen, made, stale, activity, deleting, quiesce, overlapped>>
  BY DEF Cancel, At
<1>2. call[p].s \in Sandboxes /\ leaked \subseteq Sandboxes
  BY <1>1, Known, RestIsRight DEF At, Rest
<1>3. CASE Return(p) /\ leaked' \in {leaked, leaked \cup {call[p].s}}
  BY <1>1, <1>2, <1>3, LeakStep
<1>4. CASE UNCHANGED leaked /\ \E at \in Alone : Goto(p, at)
  <2>1. PICK at \in Alone : Goto(p, at)
    BY <1>4
  <2>2. Onward(p, at)
    BY DEF Onward, Pinning, Locking, Alone
  <2> QED BY <1>1, <1>2, <1>4, <2>1, <2>2, MoveStep
<1> QED BY <1>3, <1>4 DEF Cancel, Alone

LEMMA AcquireAloneStep == ASSUME IInv, NEW p \in Procs, AcquireAlone(p) PROVE IInv'
<1>1. call[p].s \in Sandboxes /\ leaked \subseteq Sandboxes
  BY Known, RestIsRight DEF AcquireAlone, At, Rest
<1> QED BY <1>1, LeakStep DEF AcquireAlone

LEMMA DiscoverAloneStep == ASSUME IInv, NEW p \in Procs, DiscoverAlone(p) PROVE IInv'
<1>1. /\ At(p, {"discover_alone"})
      /\ UNCHANGED <<gen, made, stale, activity, deleting, quiesce, overlapped, leaked>>
  BY DEF DiscoverAlone
<1>2. CASE Goto(p, "discard_alone")
  <2>1. call[p].s \in Sandboxes
    BY <1>1, Known DEF At
  <2>2. Onward(p, "discard_alone")
    BY DEF Onward, Pinning, Locking, Alone
  <2> QED BY <1>1, <1>2, <2>1, <2>2, MoveStep
<1>3. CASE Return(p)
  BY <1>1, <1>3, EndStep, ActivityTyped
<1> QED BY <1>2, <1>3 DEF DiscoverAlone

LEMMA TouchUsedStep == ASSUME IInv, NEW p \in Procs, TouchUsed(p) PROVE IInv'
<1>1. ~At(p, {"none"}) /\ UNCHANGED <<gen, made, stale, deleting, quiesce, overlapped, leaked>>
  BY DEF TouchUsed, At
<1>2. Onward(p, "body") /\ Contained(p)
  BY <1>1, KeptContained DEF Onward, TouchUsed, At, Pinning, Locking
<1>3. GotoWith(p, "body", call[p].gen) /\ call[p].gen \in Gens
  BY GotoAsWith DEF TouchUsed
<1>4. /\ activity' \in [Sandboxes -> [gen : Gens, age : {"none", "recent", "idle"}]]
      /\ \A r \in Sandboxes : activity'[r].gen <= made[r]
  BY <1>1, TouchTyped DEF TouchUsed
<1>5. call[p].s \in Sandboxes /\ call[p].gen <= made'[call[p].s]
  BY <1>1, Known
<1> QED BY <1>1, <1>2, <1>3, <1>4, <1>5, OnwardStep

LEMMA EndUseStep == ASSUME IInv, NEW p \in Procs, EndUse(p) PROVE IInv'
BY EndStep, ActivityTyped DEF EndUse

LEMMA AdmitCreateStep ==
  ASSUME IInv, NEW p \in Procs, NEW s \in Sandboxes, AdmitCreate(p, s) PROVE IInv'
<1>1. 0 \in Gens /\ 0 <= made[s]
  BY SandboxAssumption DEF IInv, TypeOK, Gens
<1> QED BY <1>1, CallStep DEF AdmitCreate

LEMMA StartUseStep ==
  ASSUME IInv, NEW p \in Procs, NEW s \in Sandboxes, StartUse(p, s) PROVE IInv'
<1>1. 0 \in Gens /\ 0 <= made[s]
  BY SandboxAssumption DEF IInv, TypeOK, Gens
<1> QED BY <1>1, CallStep DEF StartUse

LEMMA StartProxyStep ==
  ASSUME IInv, NEW p \in Procs, NEW s \in Sandboxes, StartProxy(p, s) PROVE IInv'
<1>1. 0 \in Gens /\ 0 <= made[s]
  BY SandboxAssumption DEF IInv, TypeOK, Gens
<1> QED BY <1>1, CallStep DEF StartProxy

-----------------------------------------------------------------------------
(* Deletions                                                               *)

(* Where a deletion goes on to.                                            *)
Parting(p, at) ==
  /\ at \in Deleting \cup {"forget"}
  /\ at \in Deleting /\ p \notin overlapped' => call[p].s \in deleting'
  /\ at \in {"recheck", "crit"} /\ p \notin overlapped' => Unpinned(call[p].s, p)
  /\ at \in {"removed", "forget"} => gen'[call[p].s] = 0 \/ gen'[call[p].s] # call[p].gen

LEMMA PartingStep ==
  ASSUME IInv, NEW p \in Procs, NEW at, Goto(p, at), Parting(p, at), ~At(p, {"none"}),
         Harmless(p), Rest'
  PROVE  IInv'
<1> DEFINE c == [call[p] EXCEPT !.at = at]
<1>0. at \in Positions /\ at \notin Pinning \cup {"pin", "none", "queued"}
  BY DEF Parting, Positions, Deleting, Pinning, Locking
<1>1. call' = [call EXCEPT ![p] = c] /\ c \in Calls /\ call[p] \in Calls
  BY <1>0 DEF Goto, IInv, TypeOK, Calls
<1>2. c.at = at /\ c.s = call[p].s /\ c.op = call[p].op /\ c.gen = call[p].gen
  BY <1>1 DEF Calls
<1> HIDE DEF c
<1>3. /\ call[p].s \in Sandboxes /\ call[p].gen \in Nat /\ call[p].gen <= made[call[p].s]
      /\ made[call[p].s] \in Nat
  BY Known
<1>4. made'[call[p].s] \in Nat /\ made[call[p].s] <= made'[call[p].s]
  BY <1>3, SandboxAssumption DEF Harmless, Gens
<1>5. call[p].gen <= made'[call[p].s]
  BY <1>3, <1>4
<1>6. at \notin Locking \cup {"enter", "leave"}
  BY <1>0 DEF Pinning
<1>7. Legal(p, c)
  BY <1>0, <1>1, <1>2, <1>3, <1>5, <1>6 DEF Legal, Parting
<1> QED BY <1>1, <1>7, ThreadStep, Together

LEMMA StartDeleteStep ==
  ASSUME IInv, NEW p \in Procs, NEW s \in Sandboxes, NEW g \in 1..MaxGen, StartDelete(p, s, g)
  PROVE  IInv'
<1>1. g \in Gens /\ g <= made[s]
  BY SandboxAssumption DEF IInv, TypeOK, StartDelete, Gens
<1> QED BY <1>1, CallStep DEF StartDelete

LEMMA CollectStep == ASSUME IInv, NEW s \in Sandboxes, Collect(s) PROVE IInv'
<1>1. activity[s].gen \in Gens /\ activity[s].gen <= made[s] /\ Reaper \in Procs
  BY ActivityTyped DEF Procs
<1> QED BY <1>1, CallStep DEF Collect

LEMMA BeginDeleteStep == ASSUME IInv, NEW p \in Procs, BeginDelete(p) PROVE IInv'
<1> DEFINE at == IF InUse(call[p].s) THEN "drain" ELSE Admitted(p)
<1>1. /\ ~At(p, {"none"}) /\ Goto(p, at) /\ deleting' = deleting \cup {call[p].s}
      /\ UNCHANGED <<gen, made, stale, activity, quiesce, overlapped, leaked>>
  BY DEF BeginDelete, At
<1>2. at \in {"recheck", "crit", "drain"}
  BY DEF Admitted
<1>3. at \in {"recheck", "crit"} => Unpinned(call[p].s, p)
  BY DEF Admitted, InUse, Pins, Unpinned
<1> HIDE DEF at
<1>4. Parting(p, at)
  BY <1>1, <1>2, <1>3 DEF Parting, Deleting
<1>5. call[p].s \in Sandboxes
  BY <1>1, Known
<1>6. Harmless(p)
  BY <1>1, SandboxAssumption DEF Harmless, IInv, TypeOK, Gens
<1>7. Rest'
  BY <1>1, <1>5, RestIsRight DEF Rest, GenOK
<1> QED BY <1>1, <1>4, <1>6, <1>7, PartingStep

LEMMA DrainStep == ASSUME IInv, NEW p \in Procs, Drain(p) PROVE IInv'
<1>1. /\ At(p, {"drain"}) /\ Goto(p, Admitted(p)) /\ Pins(call[p].s) = {}
      /\ UNCHANGED <<gen, made, stale, activity, deleting, quiesce, overlapped, leaked>>
  BY DEF Drain, InUse
<1>2. p \notin overlapped => call[p].s \in deleting
  BY <1>1 DEF IInv, CallOK, At, Deleting
<1>3. Unpinned(call[p].s, p)
  BY <1>1 DEF Pins, Unpinned
<1>4. Parting(p, Admitted(p))
  BY <1>1, <1>2, <1>3 DEF Parting, Deleting, Admitted
<1>5. Harmless(p) /\ Rest'
  BY <1>1, Untouched, RestIsRight DEF Rest, GenOK
<1> QED BY <1>1, <1>4, <1>5, PartingStep DEF At

LEMMA RecheckStep == ASSUME IInv, NEW p \in Procs, Recheck(p) PROVE IInv'
<1>1. /\ At(p, {"recheck"}) /\ (Goto(p, "crit") \/ Goto(p, "failed"))
      /\ UNCHANGED <<gen, made, stale, activity, deleting, quiesce, overlapped, leaked>>
  BY DEF Recheck
<1>2. p \notin overlapped => call[p].s \in deleting /\ Unpinned(call[p].s, p)
  BY <1>1 DEF IInv, CallOK, At, Deleting
<1>3. Parting(p, "crit") /\ Parting(p, "failed")
  BY <1>1, <1>2 DEF Parting, Deleting
<1>4. Harmless(p) /\ Rest'
  BY <1>1, Untouched, RestIsRight DEF Rest, GenOK
<1> QED BY <1>1, <1>3, <1>4, PartingStep DEF At

LEMMA RemoveStep == ASSUME IInv, NEW p \in Procs, Remove(p) PROVE IInv'
<1>1. At(p, {"crit"}) /\ UNCHANGED <<made, activity, deleting, quiesce, overlapped, leaked>>
  BY DEF Remove
<1>2. p \notin overlapped => call[p].s \in deleting
  BY <1>1 DEF IInv, CallOK, At, Deleting
<1>3. call[p].s \in Sandboxes
  BY <1>1, Known DEF At
<1>4. CASE /\ gen' = [gen EXCEPT ![call[p].s] = 0] /\ stale' = stale \ {call[p].s}
           /\ Goto(p, "removed")
  <2>1. Contained(p)
    BY <1>1, <1>3, <1>4, GoneContained
  <2>2. gen'[call[p].s] = 0 /\ \A r \in Sandboxes : gen'[r] \in {0, gen[r]}
    BY <1>3, <1>4 DEF IInv, TypeOK
  <2>3. Harmless(p)
    BY <1>1, <2>1, <2>2 DEF Harmless, Contained
  <2>4. \A r \in Sandboxes : GenOK(r)'
    BY <1>1, <2>1, ActivityTyped DEF GenOK, Contained
  <2>5. Rest'
    BY <1>1, <2>1, <2>4, RestIsRight DEF Rest, Contained
  <2>6. Parting(p, "removed")
    BY <1>1, <1>2, <2>2 DEF Parting, Deleting
  <2> QED BY <1>1, <1>4, <2>3, <2>5, <2>6, PartingStep DEF At
<1>5. CASE Goto(p, "failed") /\ UNCHANGED <<gen, stale>>
  <2>1. Parting(p, "failed")
    BY <1>1, <1>2 DEF Parting, Deleting
  <2>2. Harmless(p) /\ Rest'
    BY <1>1, <1>5, Untouched, RestIsRight DEF Rest, GenOK
  <2> QED BY <1>1, <1>5, <2>1, <2>2, PartingStep DEF At
<1> QED BY <1>4, <1>5 DEF Remove

LEMMA ForgetTyped ==
  ASSUME IInv, NEW s, NEW g, Forget(s, g) \/ UNCHANGED activity
  PROVE  /\ activity' \in [Sandboxes -> [gen : Gens, age : {"none", "recent", "idle"}]]
         /\ \A r \in Sandboxes : activity'[r].gen <= made[r]
<1>1. NoActivity \in [gen : Gens, age : {"none", "recent", "idle"}] /\ NoActivity.gen = 0
  BY SandboxAssumption DEF NoActivity, Gens
<1>2. \A r \in Sandboxes : 0 <= made[r]
  BY SandboxAssumption DEF IInv, TypeOK, Gens
<1>3. CASE Forget(s, g)
  <2>1. \A r \in Sandboxes : activity'[r] \in {activity[r], NoActivity}
    BY <1>3, ActivityTyped DEF Forget
  <2>2. \A r \in Sandboxes : activity'[r].gen \in {activity[r].gen, 0}
    BY <1>1, <2>1
  <2> QED BY <1>1, <1>2, <1>3, <1>1, <2>2, ActivityTyped DEF Forget
<1>4. CASE UNCHANGED activity
  BY <1>4, ActivityTyped
<1> QED BY <1>3, <1>4

LEMMA EndDeleteStep == ASSUME IInv, NEW p \in Procs, EndDelete(p) PROVE IInv'
<1> DEFINE s == call[p].s
<1>1. /\ At(p, {"removed", "failed"}) /\ deleting' = deleting \ {s}
      /\ overlapped' =
           (overlapped \cup {q \in Procs : call[q].s = s /\ At(q, Deleting)}) \ {p}
      /\ UNCHANGED <<gen, made, stale, quiesce, leaked>>
  BY DEF EndDelete, StillDeleting
<1>2. /\ activity' \in [Sandboxes -> [gen : Gens, age : {"none", "recent", "idle"}]]
      /\ \A r \in Sandboxes : activity'[r].gen <= made[r]
  BY ForgetTyped DEF EndDelete
<1>3. Harmless(p)
  BY <1>1, SandboxAssumption DEF Harmless, IInv, TypeOK, Gens
<1>4. Rest'
  BY <1>1, <1>2, RestIsRight DEF Rest, GenOK
<1>5. CASE At(p, {"removed"}) /\ Goto(p, "forget")
  <2>1. gen[s] = 0 \/ gen[s] # call[p].gen
    BY <1>5 DEF IInv, CallOK, At
  <2>2. Parting(p, "forget")
    BY <1>1, <2>1 DEF Parting, Deleting
  <2> QED BY <1>3, <1>4, <1>5, <2>2, PartingStep DEF At
<1>6. CASE Return(p)
  BY <1>3, <1>4, <1>6, ReturnStep, Together
<1> QED BY <1>5, <1>6 DEF EndDelete

LEMMA ForgetDeletedStep == ASSUME IInv, NEW p \in Procs, ForgetDeleted(p) PROVE IInv'
BY ForgetTyped, EndStep DEF ForgetDeleted

-----------------------------------------------------------------------------
(* Quiescence and time                                                     *)

(* A step that is no thread's.                                             *)
LEMMA ClockStep ==
  ASSUME IInv, UNCHANGED <<gen, made, stale, deleting, call, overlapped, leaked>>,
         activity' \in [Sandboxes -> [gen : Gens, age : {"none", "recent", "idle"}]],
         \A r \in Sandboxes : activity'[r].gen <= made[r],
         quiesce' = quiesce \/ quiesce' \in {"waiting", "over"}
  PROVE  IInv'
<1>1. call' \in [Procs -> Calls] /\ Rest'
  BY RestIsRight DEF IInv, TypeOK, Calls, Rest, GenOK
<1>2. \A p \in Procs : CallOK(p)'
  BY DEF IInv, CallOK, Unpinned, At
<1>3. Creating' = Creating /\ Live' = Live
  BY DEF Creating, Live, At
<1>4. GateOK'
  BY <1>3 DEF IInv, GateOK
<1> QED BY <1>1, <1>2, <1>4, Together

LEMMA TimePassesStep == ASSUME IInv, NEW s \in Sandboxes, TimePasses(s) PROVE IInv'
<1>1. /\ activity' \in [Sandboxes -> [gen : Gens, age : {"none", "recent", "idle"}]]
      /\ \A r \in Sandboxes : activity'[r].gen <= made[r]
  BY ActivityTyped DEF TimePasses
<1> QED BY <1>1, ClockStep DEF TimePasses

LEMMA ListStep == ASSUME IInv, ListForQuiescence PROVE IInv'
<1>1. /\ quiesce \in {"waiting", "listed"}
      /\ quiesce' = IF Live = {} THEN "empty" ELSE "listed"
      /\ UNCHANGED <<gen, made, stale, activity, deleting, overlapped, leaked>>
      /\ Creating = {}
  BY DEF ListForQuiescence, CreationsDone, IInv, GateOK
<1>2. \A p \in Procs : \/ /\ p \in Live
                          /\ call'[p] = [op |-> "quiesce", s |-> p, at |-> "begin", gen |-> gen[p]]
                       \/ call'[p] = call[p]
  BY DEF ListForQuiescence
<1>3. ASSUME NEW p \in Procs
      PROVE  (call'[p].op = "quiesce" /\ call'[p].at = "begin") \/ call'[p] = call[p]
  <2>1. CASE call'[p] = [op |-> "quiesce", s |-> p, at |-> "begin", gen |-> gen[p]]
    BY <2>1
  <2> QED BY <1>2, <2>1
<1>4. Live \subseteq Sandboxes /\ \A s \in Sandboxes : gen[s] \in Gens /\ gen[s] <= made[s]
  BY DEF Live, IInv, TypeOK, GenOK
<1>5. call' \in [Procs -> Calls]
  <2>1. \A p \in Procs : call[p] \in Calls
    BY DEF IInv, TypeOK, Calls
  <2>2. \A p \in Live :
          [op |-> "quiesce", s |-> p, at |-> "begin", gen |-> gen[p]] \in Calls
    BY <1>4 DEF Calls, Positions
  <2> QED BY <2>1, <2>2 DEF ListForQuiescence
<1>6. ASSUME NEW p \in Procs PROVE CallOK(p)'
  <2>1. CASE p \in Live /\ call'[p] = [op |-> "quiesce", s |-> p, at |-> "begin", gen |-> gen[p]]
    <3>1. call'[p].at = "begin" /\ call'[p].s = p /\ call'[p].gen = gen[p]
      BY <2>1
    <3> QED BY <1>1, <1>4, <2>1, <3>1 DEF CallOK, At, Locking, Deleting
  <2>2. CASE call'[p] = call[p]
    <3>1. CallOK(p)
      BY DEF IInv
    <3>2. \A q \in Procs : call'[q].at \in Pinning => call'[q] = call[q]
      <4>1. "begin" \notin Pinning
        BY DEF Pinning, Locking
      <4> QED BY <1>3, <4>1
    <3>3. Unpinned(call[p].s, p) => Unpinned(call[p].s, p)'
      BY <2>2, <3>2 DEF Unpinned, At
    <3> QED BY <1>1, <2>2, <3>1, <3>3 DEF CallOK, At
  <2> QED BY <1>2, <2>1, <2>2
<1>7. GateOK'
  <2>1. Creating' = {}
    BY <1>1, <1>3 DEF Creating, At
  <2>2. Live' = Live
    BY <1>1 DEF Live
  <2> QED BY <1>1, <2>1, <2>2 DEF GateOK
<1>8. Rest'
  BY <1>1, RestIsRight DEF Rest, GenOK
<1> QED BY <1>5, <1>6, <1>7, <1>8, Together

LEMMA QuiescenceStep == ASSUME IInv, Quiescence PROVE IInv'
<1>1. CASE BeginQuiesce
  BY <1>1, ClockStep, ActivityTyped DEF BeginQuiesce
<1>2. CASE GiveUpQuiescence
  BY <1>2, ClockStep, ActivityTyped DEF GiveUpQuiescence
<1> QED BY <1>1, <1>2, ListStep DEF Quiescence

-----------------------------------------------------------------------------
(* The theorems                                                            *)

LEMMA NextStep == IInv /\ [Next]_vars => IInv'
<1> SUFFICES ASSUME IInv, [Next]_vars PROVE IInv'
  OBVIOUS
<1>1. ASSUME NEW p \in Procs, Acquire(p) \/ Proceed(p) \/ Cancel(p) PROVE IInv'
  BY <1>1, AcquireStep, BeginDeleteStep, DrainStep, EnterCreateStep, CheckCapacityStep,
     RunContainerStep, ContainerReadyStep, CreateFailsStep, LeaveCreateStep, TouchCreatedStep,
     TakeWorkerStep, CancelStep, AcquireAloneStep, DiscoverAloneStep, DiscoverStep, DiscardStep,
     TouchUsedStep, EndUseStep, RecheckStep, RemoveStep, EndDeleteStep, ForgetDeletedStep DEF Proceed
<1>2. ASSUME NEW p \in Callers, NEW s \in Sandboxes, Request(p, s) PROVE IInv'
  <2>1. p \in Procs
    BY DEF Procs
  <2> QED BY <1>2, <2>1, AdmitCreateStep, StartUseStep, StartProxyStep, StartDeleteStep DEF Request
<1>3. CASE NewWork
  BY <1>2, <1>3, CollectStep, QuiescenceStep DEF NewWork
<1>4. CASE UNCHANGED vars
  BY <1>4, ClockStep, ActivityTyped DEF vars
<1> QED BY <1>1, <1>3, <1>4, TimePassesStep DEF Next

THEOREM Invariance == Spec => []IInv
BY InitInv, NextStep, PTL DEF Spec

(* Every variable keeps its type.                                          *)
THEOREM TypeCorrect == Spec => []TypeOK
<1>1. IInv => TypeOK
  BY DEF IInv
<1> QED BY <1>1, Invariance, PTL

(* A provisioner that has reported that it is empty stays empty, and has   *)
(* no creation under way: quiesce_sandboxes never closes its gate late.    *)
THEOREM QuiescedIsEmpty == Spec => []QuiescedStaysEmpty
<1>1. IInv => QuiescedStaysEmpty
  BY DEF IInv, GateOK, QuiescedStaysEmpty
<1> QED BY <1>1, Invariance, PTL

(* begin_delete and its pins: a deletion beside which no other one of the  *)
(* sandbox has ended takes the container from under no request.            *)
THEOREM DeletionWaits == Spec => DeletionWaitsForRequests
<1>1. ASSUME IInv, NEW p \in Procs, Removes(p), p \notin overlapped
      PROVE  Pins(call[p].s) = {}
  <2>1. Unpinned(call[p].s, p) /\ ~At(p, Pinning)
    BY <1>1 DEF IInv, CallOK, Removes, At, Pinning, Locking
  <2> QED BY <2>1 DEF Unpinned, Pins
<1>2. IInv => [\A p \in Procs : Removes(p) /\ p \notin overlapped => Pins(call[p].s) = {}]_vars
  BY <1>1
<1> QED BY <1>2, Invariance, PTL DEF DeletionWaitsForRequests

(* SandboxIdleReaper.forget is given the generation that was deleted: no   *)
(* step makes the reaper forget a container that is there.                 *)
THEOREM LiveIsRemembered == Spec => LiveIsNotForgotten
<1> DEFINE Kept == \A s \in Sandboxes :
                     gen[s] # 0 /\ gen'[s] = gen[s] /\ activity[s].gen = gen[s] =>
                       activity'[s] # NoActivity
<1>1. ASSUME IInv, Next PROVE Kept
  <2> SUFFICES ASSUME NEW s \in Sandboxes, gen[s] # 0, activity[s].gen = gen[s],
                      activity'[s] = NoActivity
               PROVE  FALSE
    BY DEF Kept
  <2>1. activity'[s] # activity[s] /\ activity'[s].gen = 0 /\ activity'[s].age = "none"
    BY DEF NoActivity
  <2>2. ASSUME NEW p \in Procs, At(p, {"removed", "forget"}), Forget(call[p].s, call[p].gen)
        PROVE  FALSE
    <3>1. call[p].s = s /\ call[p].gen = gen[s]
      BY <1>1, <2>1, <2>2, ActivityTyped DEF Forget
    <3> QED BY <1>1, <2>2, <3>1 DEF IInv, CallOK, At
  <2>3. ASSUME NEW p \in Procs, ~At(p, {"none"}), Touch(call[p].s, call[p].gen)
        PROVE  FALSE
    <3>1. activity'[s] \in {activity[s], [gen |-> call[p].gen, age |-> "recent"]}
      BY <1>1, <2>3, ActivityTyped DEF Touch
    <3> QED BY <2>1, <3>1
  <2>4. ASSUME NEW r \in Sandboxes, TimePasses(r) PROVE FALSE
    <3>1. activity'[s] \in {activity[s], [activity[s] EXCEPT !.age = "idle"]}
      BY <1>1, <2>4, ActivityTyped DEF TimePasses
    <3>2. [activity[s] EXCEPT !.age = "idle"].age = "idle"
      BY <1>1, ActivityTyped
    <3> QED BY <2>1, <3>1, <3>2
  <2>5. ASSUME UNCHANGED activity PROVE FALSE
    BY <2>1, <2>5
  <2>6. ASSUME NEW p \in Procs, TouchCreated(p) \/ TouchUsed(p) PROVE FALSE
    BY <2>3, <2>6 DEF TouchCreated, TouchUsed, At
  <2>7. ASSUME NEW p \in Procs, EndDelete(p) PROVE FALSE
    BY <2>2, <2>5, <2>7 DEF EndDelete, At
  <2>8. ASSUME NEW p \in Procs, ForgetDeleted(p) PROVE FALSE
    BY <2>2, <2>8 DEF ForgetDeleted, At
  <2>9. ASSUME NEW p \in Procs, Acquire(p) \/ Proceed(p) \/ Cancel(p) PROVE FALSE
    BY <2>5, <2>6, <2>7, <2>8, <2>9
    DEF Proceed, Acquire, Cancel, TakeWorker, AcquireAlone, DiscoverAlone, BeginDelete, Drain, EnterCreate, CheckCapacity, RunContainer,
        ContainerReady, CreateFails, LeaveCreate, Discover, Discard, EndUse, Recheck, Remove
  <2>10. ASSUME NewWork PROVE FALSE
    BY <2>5, <2>10
    DEF NewWork, Request, AdmitCreate, StartUse, StartProxy, StartDelete, Collect, Quiescence,
        BeginQuiesce, ListForQuiescence, GiveUpQuiescence
  <2> QED BY <1>1, <2>4, <2>9, <2>10 DEF Next
<1>2. IInv /\ [Next]_vars => [Kept]_vars
  BY <1>1
<1> QED BY <1>2, Invariance, PTL DEF Spec, LiveIsNotForgotten
=============================================================================
