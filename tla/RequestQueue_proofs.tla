------------------------ MODULE RequestQueue_proofs ------------------------
(* Theorems about RequestQueue for every number of requests and every      *)
(* source a request may come from.                                         *)
EXTENDS RequestQueue, FiniteSetTheorems, WellFoundedInduction, TLAPS

-----------------------------------------------------------------------------
(* Numbers and the head of the queue                                       *)

(* A set of numbers that is not empty has a least one.                     *)
LEMMA LeastNumber ==
  ASSUME NEW T \in SUBSET Nat, T # {}
  PROVE  \E x \in T : \A y \in T : x <= y
<1> DEFINE R == {p \in Nat \X Nat : p[1] < p[2]}
<1>1. R = OpToRel(<, Nat)
  BY DEF OpToRel
<1>2. IsWellFoundedOn(R, Nat)
  BY <1>1, NatLessThanWellFounded
<1>3. \A x, y \in Nat : x < y => <<x, y>> \in R
  OBVIOUS
<1> HIDE DEF R
<1>4. PICK x \in T : \A y \in T : ~(<<y, x>> \in R)
  BY <1>2, WFMin
<1>5. ASSUME NEW y \in T PROVE x <= y
  <2>1. x \in Nat /\ y \in Nat /\ ~(y < x)
    BY <1>3, <1>4
  <2> QED BY <2>1
<1> QED BY <1>5

Rows == [Requests -> [status : Statuses, policy : Policies]]

(* The head of a queue that is not empty is queued, is a steer when one    *)
(* waits, and is older than the others it is compared with.                *)
LEMMA HeadFacts ==
  ASSUME NEW rq \in Rows, Queued(rq) # {}
  PROVE  /\ HeadOf(rq) \in Queued(rq)
         /\ PendingSteers(rq) # {} => HeadOf(rq) \in PendingSteers(rq)
         /\ \A j \in Queued(rq) :
              PendingSteers(rq) = {} \/ j \in PendingSteers(rq) => HeadOf(rq) <= j
<1> DEFINE first == IF PendingSteers(rq) # {} THEN PendingSteers(rq) ELSE Queued(rq)
<1>1. first # {} /\ first \in SUBSET Nat /\ first \subseteq Queued(rq)
  BY DEF PendingSteers, Queued, Requests
<1>2. HeadOf(rq) = CHOOSE i \in first : \A j \in first : i <= j
  BY DEF HeadOf
<1>3. HeadOf(rq) \in first /\ \A j \in first : HeadOf(rq) <= j
  <2> HIDE DEF first
  <2>1. \E x \in first : \A y \in first : x <= y
    BY <1>1, LeastNumber
  <2> QED BY <1>2, <2>1
<1> QED BY <1>1, <1>3

(* The requests that exist are the first n.                                *)
Saved(n) == \A j \in Requests : req[j].status # "absent" <=> j <= n

Fresh == Cardinality({j \in Requests : req[j].status # "absent"}) + 1

(* So the next one is n + 1.                                               *)
LEMMA FreshNumber ==
  ASSUME NEW n \in 0..MaxRequests, Saved(n)
  PROVE  Fresh = n + 1
<1>1. {j \in Requests : req[j].status # "absent"} = 1..n
  BY RequestsAssumption DEF Saved, Requests
<1>2. Cardinality(1..n) = n
  BY FS_Interval
<1> QED BY <1>1, <1>2 DEF Fresh

-----------------------------------------------------------------------------
(* Type correctness                                                        *)

RunType == [status : RunStatus, type : {"chat", "resume"},
            of : Requests \cup {NoRequest},
            started : BOOLEAN, fence : BOOLEAN, job : BOOLEAN,
            by : Creators \cup {"nobody"}]

(* Dispatching the head of well-typed rows types.                          *)
LEMMA DispatchType ==
  ASSUME NEW rq \in Rows, NEW by \in Creators, Queued(rq) # {}, DispatchHead(rq, by)
  PROVE  req' \in Rows /\ run' \in RunType /\ before' = {}
<1>1. HeadOf(rq) \in Requests
  BY HeadFacts DEF Queued
<1>2. req' \in Rows
  BY <1>1 DEF DispatchHead, Rows, Statuses
<1>3. run' \in RunType
  BY <1>1 DEF DispatchHead, NewRun, RunType, RunStatus
<1> QED BY <1>2, <1>3 DEF DispatchHead

(* The empty queue is well typed.                                          *)
LEMMA TypeInit == Init => TypeOK
<1> SUFFICES ASSUME Init PROVE TypeOK
  OBVIOUS
<1>1. req \in [Requests -> [status : Statuses, policy : Policies]]
  BY DEF Init, Policies, Statuses
<1>2. run \in [status : RunStatus, type : {"chat", "resume"},
               of : Requests \cup {NoRequest},
               started : BOOLEAN, fence : BOOLEAN, job : BOOLEAN,
               by : Creators \cup {"nobody"}]
  BY DEF Init, RunStatus
<1>3. /\ before \subseteq Requests
      /\ asked \in [Requests -> SUBSET {"cancel", "cancel_steer", "steer"}]
  BY DEF Init
<1>4. /\ child \in BOOLEAN
      /\ intake \in [policy : Policies \cup {"none"}, seen : RunStatus, refused : BOOLEAN]
  BY DEF Init, NoIntake, RunStatus
<1> QED BY <1>1, <1>2, <1>3, <1>4 DEF TypeOK

(* The step that saves a request: where it goes is in the model's bound.   *)
SavedReq(i) == [req EXCEPT ![i] = [status |-> "queued", policy |-> intake.policy]]

(* Every step keeps the types; a submission needs to know that there is a  *)
(* number left for its request.                                            *)
LEMMA TypeStep ==
  ASSUME TypeOK, [Next]_vars,
         ~Unlocked => Fresh \in Requests /\ intake.policy \in Policies
  PROVE  TypeOK'
<1> USE DEF TypeOK
<1>1. TypeOK <=> /\ req \in Rows /\ run \in RunType /\ before \subseteq Requests
                 /\ child \in BOOLEAN
                 /\ asked \in [Requests -> SUBSET {"cancel", "cancel_steer", "steer"}]
                 /\ intake \in [policy : Policies \cup {"none"}, seen : RunStatus,
                                refused : BOOLEAN]
  BY DEF Rows, RunType
<1>2. ASSUME NEW p \in Policies, SubmitRead(p) PROVE TypeOK'
  BY <1>2 DEF SubmitRead
<1>3. CASE SubmitWrite
  <2> DEFINE i == Fresh
             saved == SavedReq(i)
  <2>1. i \in Requests /\ intake.policy \in Policies /\ ~Unlocked
    BY <1>3 DEF SubmitWrite
  <2>2. saved \in Rows
    BY <2>1 DEF SavedReq, Rows, Statuses
  <2>3. /\ UNCHANGED <<child, asked>> /\ intake' = NoIntake
        /\ \/ Ready(saved, intake.seen) /\ DispatchHead(saved, "submission")
           \/ /\ req' = [saved EXCEPT ![i].status = Unserved(intake.policy)]
              /\ UNCHANGED <<run, before>>
    BY <1>3 DEF SubmitWrite, SavedReq, Fresh
  <2>4. intake' \in [policy : Policies \cup {"none"}, seen : RunStatus, refused : BOOLEAN]
    BY <2>3 DEF NoIntake, RunStatus
  <2>5. Unserved(intake.policy) \in Statuses
    BY DEF Unserved, Statuses
  <2> HIDE DEF i, saved
  <2>6. CASE Ready(saved, intake.seen) /\ DispatchHead(saved, "submission")
    BY <1>1, <2>2, <2>3, <2>4, <2>6, DispatchType DEF Creators, Ready, Rows, RunType
  <2>7. CASE /\ req' = [saved EXCEPT ![i].status = Unserved(intake.policy)]
             /\ UNCHANGED <<run, before>>
    <3>1. req' \in Rows
      BY <2>1, <2>2, <2>5, <2>7 DEF Rows
    <3> QED BY <2>3, <2>4, <2>7, <3>1 DEF Rows
  <2> QED BY <2>3, <2>6, <2>7
<1>4. CASE SubmitRollback
  BY <1>4 DEF SubmitRollback, NoIntake, RunStatus
<1>5. ASSUME NEW i \in Requests, CancelRead(i) \/ SteerRead(i) PROVE TypeOK'
  BY <1>5 DEF CancelRead, SteerRead, Ask
<1>6. ASSUME NEW i \in Requests, NEW op \in {"cancel", "cancel_steer"}, CancelQueued(i, op)
      PROVE  TypeOK'
  BY <1>6 DEF CancelQueued, Statuses
<1>7. ASSUME NEW i \in Requests, SteerQueued(i) PROVE TypeOK'
  BY <1>7 DEF SteerQueued, Policies
<1>8. CASE ContinueThreadQueue
  BY <1>1, <1>8, DispatchType DEF Creators, ContinueThreadQueue, Rows, RunType
<1>9. CASE DispatchNext
  <2>1. CASE Ready(req, run.status) /\ DispatchHead(req, "relay")
    BY <1>1, <1>9, <2>1, DispatchType DEF Creators, DispatchNext, Ready, Rows, RunType
  <2>2. CASE ~(Ready(req, run.status) /\ DispatchHead(req, "relay"))
    BY <1>9, <2>2 DEF DispatchNext
  <2> QED BY <2>1, <2>2
<1>10. CASE Resume
  BY <1>10 DEF Resume, NewRun, RunStatus, Creators
<1>11. CASE Run
  <2>1. CASE LoseJob \/ StartRun \/ RetryRun \/ LowerFence
    BY <1>11, <2>1 DEF LoseJob, StartRun, RetryRun, LowerFence, RunOnly, RunStatus
  <2>2. ASSUME NEW s \in Terminal, EndRun(s) PROVE TypeOK'
    BY <2>2 DEF EndRun, RunOnly, RunStatus, Queued
  <2>3. CASE CancelRun
    BY <2>3 DEF CancelRun, RunOnly, RunStatus, Queued, Terminal
  <2>4. CASE StartChild \/ EndChild
    BY <2>4 DEF StartChild, EndChild
  <2> QED BY <1>11, <2>1, <2>2, <2>3, <2>4 DEF Run
<1>12. CASE UNCHANGED vars
  BY <1>12 DEF vars
<1> QED
  BY <1>2, <1>3, <1>4, <1>5, <1>6, <1>7, <1>8, <1>9, <1>10, <1>11, <1>12 DEF Next

-----------------------------------------------------------------------------
(* The inductive invariant                                                 *)

(* Requests are numbered without gaps, and a submission that holds the     *)
(* lock has a number left.                                                 *)
Numbered ==
  /\ \E n \in 0..MaxRequests :
       /\ Saved(n)
       /\ ~Unlocked => n < MaxRequests
  /\ \A i \in Requests : asked[i] # {} => req[i].status # "absent"

(* What a submission read under the lock still holds when it writes.       *)
IntakeOK ==
  ~Unlocked =>
    /\ intake.policy \in Policies
    /\ intake.policy = "steer" => PendingSteers(req) = {}
    /\ intake.seen \in Terminal => run.status = intake.seen

(* The rows that wait.                                                     *)
QueueOK ==
  /\ \A i, j \in PendingSteers(req) : i = j
  /\ \A i \in Queued(req) : req[i].policy # "reject"

(* A subagent works for a run that was started and is active or waits for  *)
(* its cleanup.                                                            *)
ChildOK ==
  /\ child => run.started /\ ThreadActive
  /\ run.status = "running" => run.started

IInv == TypeOK /\ Numbered /\ IntakeOK /\ QueueOK /\ ChildOK

(* A dispatch of the head of rq by whom.                                   *)
Dispatches(rq, by) == Queued(rq) # {} /\ DispatchHead(rq, by)

(* The properties of a step.                                               *)
InOrder ==
  \A i \in Requests :
    req[i].status # "dispatched" /\ req'[i].status = "dispatched" =>
      \A j \in Queued(req') : ~Overtakes(req', j, i)

Paused ==
  run.status \in {"failed", "cancelled"} =>
    \A i \in before :
      req[i].status = "queued" /\ req'[i].status = "dispatched" =>
        \/ run'.by = "user"
        \/ run'.by = "submission" /\ intake.seen \notin Terminal

(* The submission's number and policy, as the invariant gives them.        *)
LEMMA FreshFacts ==
  ASSUME IInv, ~Unlocked
  PROVE  /\ Fresh \in Requests /\ intake.policy \in Policies
         /\ \A j \in Requests : req[j].status # "absent" <=> j < Fresh
<1>1. PICK n \in 0..MaxRequests : Saved(n) /\ n < MaxRequests
  BY DEF IInv, Numbered
<1>2. Fresh = n + 1
  BY <1>1, FreshNumber
<1> QED BY <1>1, <1>2, RequestsAssumption DEF IInv, IntakeOK, Requests, Saved

(* A dispatch takes the head out of the queue and leaves the rest.         *)
LEMMA DispatchFacts ==
  ASSUME NEW rq \in Rows, NEW by \in Creators, Dispatches(rq, by)
  PROVE  /\ HeadOf(rq) \in Queued(rq)
         /\ req'[HeadOf(rq)].status = "dispatched"
         /\ req'[HeadOf(rq)].policy = rq[HeadOf(rq)].policy
         /\ \A j \in Requests \ {HeadOf(rq)} : req'[j] = rq[j]
         /\ Queued(req') = Queued(rq) \ {HeadOf(rq)}
         /\ PendingSteers(req') = PendingSteers(rq) \ {HeadOf(rq)}
<1> DEFINE h == HeadOf(rq)
<1>1. h \in Queued(rq) /\ h \in Requests
  BY HeadFacts DEF Dispatches, Queued
<1>2. req' = [rq EXCEPT ![h].status = "dispatched"]
  BY DEF Dispatches, DispatchHead
<1> HIDE DEF h
<1>3. /\ req'[h].status = "dispatched" /\ req'[h].policy = rq[h].policy
      /\ \A j \in Requests \ {h} : req'[j] = rq[j]
  BY <1>1, <1>2 DEF Rows
<1>4. Queued(req') = Queued(rq) \ {h} /\ PendingSteers(req') = PendingSteers(rq) \ {h}
  BY <1>1, <1>3 DEF Queued, PendingSteers
<1> QED BY <1>1, <1>3, <1>4 DEF h

(* The head overtakes nobody it should not.                                *)
LEMMA DispatchOrder ==
  ASSUME NEW rq \in Rows, NEW by \in Creators, Dispatches(rq, by),
         \A i, j \in PendingSteers(rq) : i = j
  PROVE  \A j \in Queued(req') : ~Overtakes(req', j, HeadOf(rq))
<1> DEFINE h == HeadOf(rq)
<1>1. /\ h \in Queued(rq) /\ req'[h].policy = rq[h].policy
      /\ Queued(req') = Queued(rq) \ {h}
      /\ \A j \in Requests \ {h} : req'[j] = rq[j]
  BY DispatchFacts
<1>2. /\ PendingSteers(rq) # {} => h \in PendingSteers(rq)
      /\ \A j \in Queued(rq) : PendingSteers(rq) = {} \/ j \in PendingSteers(rq) => h <= j
  BY HeadFacts DEF Dispatches
<1> HIDE DEF h
<1>3. ASSUME NEW j \in Queued(req') PROVE ~Overtakes(req', j, h)
  <2>1. j \in Queued(rq) /\ j # h /\ req'[j] = rq[j] /\ j \in Nat /\ h \in Nat
    BY <1>1, <1>3 DEF Queued, Requests
  <2>2. j \notin PendingSteers(rq)
    BY <1>2, <2>1
  <2>3. rq[j].policy # "steer"
    BY <2>1, <2>2 DEF PendingSteers
  <2>4. CASE PendingSteers(rq) = {}
    <3>1. h <= j /\ rq[h].policy # "steer"
      BY <1>1, <1>2, <2>1, <2>4 DEF PendingSteers
    <3> QED BY <1>1, <2>1, <2>3, <3>1 DEF Overtakes
  <2>5. CASE PendingSteers(rq) # {}
    <3>1. rq[h].policy = "steer"
      BY <1>2, <2>5 DEF PendingSteers
    <3> QED BY <1>1, <2>1, <2>3, <3>1 DEF Overtakes
  <2> QED BY <2>4, <2>5
<1> QED BY <1>3 DEF h

-----------------------------------------------------------------------------
(* Steps                                                                   *)

Good == Numbered' /\ IntakeOK' /\ QueueOK' /\ ChildOK' /\ InOrder /\ Paused

(* A step that creates no request.                                         *)
LEMMA NumberedSame ==
  ASSUME Numbered,
         \A j \in Requests : req'[j].status = "absent" <=> req[j].status = "absent",
         \A j \in Requests : asked'[j] # {} => asked[j] # {} \/ req[j].status # "absent",
         intake' = intake \/ intake' = NoIntake
  PROVE  Numbered'
<1>1. PICK n \in 0..MaxRequests : Saved(n) /\ (~Unlocked => n < MaxRequests)
  BY DEF Numbered
<1>2. Saved(n)' /\ (~Unlocked' => n < MaxRequests)
  BY <1>1 DEF Saved, Unlocked
<1> QED BY <1>2 DEF Numbered

(* A step that only touches the run, its subagents and the calls.          *)
LEMMA QuietStep ==
  ASSUME IInv, UNCHANGED req,
         \A j \in Requests : asked'[j] # {} => asked[j] # {} \/ req[j].status # "absent",
         intake' = NoIntake \/ (intake' = intake
                               /\ (run.status \in Terminal => run'.status = run.status)),
         ChildOK'
  PROVE  Good
<1>1. Numbered'
  BY NumberedSame DEF IInv
<1>2. IntakeOK'
  BY DEF IInv, IntakeOK, Unlocked
<1>3. QueueOK' /\ InOrder /\ Paused
  BY DEF IInv, QueueOK, InOrder, Paused
<1> QED BY <1>1, <1>2, <1>3 DEF Good

(* A dispatch while nobody submits.                                        *)
LEMMA DispatchStep ==
  ASSUME IInv, Unlocked, NEW by \in Creators, Dispatches(req, by), ~ScopeActive,
         UNCHANGED <<child, asked, intake>>,
         run.status \in {"failed", "cancelled"} /\ HeadOf(req) \in before =>
           by = "user"
  PROVE  Good
<1> DEFINE h == HeadOf(req)
<1>1. req \in Rows
  BY DEF IInv, TypeOK, Rows
<1>2. /\ h \in Queued(req) /\ req'[h].status = "dispatched"
      /\ \A j \in Requests \ {h} : req'[j] = req[j]
      /\ Queued(req') = Queued(req) \ {h}
      /\ PendingSteers(req') = PendingSteers(req) \ {h}
  BY <1>1, DispatchFacts
<1>3. \A j \in Queued(req') : ~Overtakes(req', j, h)
  BY <1>1, DispatchOrder DEF IInv, QueueOK
<1>4. run' = NewRun("chat", h, by)
  BY DEF Dispatches, DispatchHead
<1> HIDE DEF h
<1>5. Numbered'
  BY <1>2, NumberedSame DEF IInv, Queued
<1>6. IntakeOK'
  BY DEF IntakeOK, Unlocked
<1>7. QueueOK'
  BY <1>2 DEF IInv, QueueOK, Queued
<1>8. ChildOK'
  BY <1>4 DEF ScopeActive, ChildOK, NewRun
<1>9. \A i \in Requests :
        req[i].status # "dispatched" /\ req'[i].status = "dispatched" => i = h
  BY <1>2
<1>10. InOrder
  BY <1>3, <1>9 DEF InOrder
<1>11. before \subseteq Requests
  BY DEF IInv, TypeOK
<1>12. Paused
  <2>1. run'.by = by
    BY <1>4 DEF NewRun
  <2> QED BY <1>9, <1>11, <2>1 DEF Paused, h
<1> QED BY <1>5, <1>6, <1>7, <1>8, <1>10, <1>12 DEF Good

(* A submission reads.                                                     *)
LEMMA ReadStep ==
  ASSUME IInv, NEW p \in Policies, SubmitRead(p)
  PROVE  Good
<1>1. PICK n \in 0..MaxRequests : Saved(n)
  BY DEF IInv, Numbered
<1>2. /\ Fresh \in Requests /\ UNCHANGED <<req, run, before, child, asked>>
      /\ p = "steer" => PendingSteers(req) = {}
      /\ intake'.policy = p /\ intake'.seen = run.status
  BY DEF SubmitRead, Fresh
<1>3. n < MaxRequests
  BY <1>1, <1>2, FreshNumber, RequestsAssumption DEF Requests
<1>4. Numbered'
  BY <1>1, <1>2, <1>3 DEF IInv, Numbered, Saved
<1>5. IntakeOK'
  BY <1>2 DEF IntakeOK
<1>6. QueueOK' /\ ChildOK' /\ InOrder /\ Paused
  BY <1>2 DEF IInv, QueueOK, ChildOK, ThreadActive, RunActive, InOrder, Paused
<1> QED BY <1>4, <1>5, <1>6 DEF Good

(* A submission writes: its request waits, is refused, or the head goes.   *)
LEMMA WriteStep ==
  ASSUME IInv, SubmitWrite
  PROVE  Good
<1> DEFINE i == Fresh
           p == intake.policy
           saved == SavedReq(i)
<1>1. /\ i \in Requests /\ p \in Policies /\ req[i].status = "absent"
      /\ \A j \in Requests : req[j].status # "absent" <=> j < i
  <2>1. ~Unlocked
    BY DEF SubmitWrite
  <2>2. /\ i \in Requests /\ p \in Policies
        /\ \A j \in Requests : req[j].status # "absent" <=> j < i
    BY <2>1, FreshFacts
  <2> QED BY <2>2 DEF Requests
<1>2. /\ saved[i] = [status |-> "queued", policy |-> p]
      /\ \A j \in Requests \ {i} : saved[j] = req[j]
      /\ saved \in Rows
  BY <1>1 DEF SavedReq, IInv, TypeOK, Rows, Statuses
<1>3. /\ UNCHANGED <<child, asked>> /\ intake' = NoIntake /\ ~Unlocked
      /\ \/ /\ Ready(saved, intake.seen) /\ DispatchHead(saved, "submission")
            /\ p = "reject" => HeadOf(saved) = i
         \/ /\ req' = [saved EXCEPT ![i].status = Unserved(p)]
            /\ UNCHANGED <<run, before>>
  BY DEF SubmitWrite, SavedReq, Fresh
<1>4. /\ p = "steer" => PendingSteers(req) = {}
      /\ intake.seen \in Terminal => run.status = intake.seen
  BY <1>3 DEF IInv, IntakeOK
<1> HIDE DEF i, p, saved
<1>5. /\ Queued(saved) = Queued(req) \cup {i}
      /\ PendingSteers(saved) = PendingSteers(req) \cup (IF p = "steer" THEN {i} ELSE {})
  BY <1>1, <1>2 DEF Queued, PendingSteers
<1>6. \A j, k \in PendingSteers(saved) : j = k
  BY <1>4, <1>5 DEF IInv, QueueOK
<1>7. \A j \in Queued(saved) : j # i => saved[j].policy # "reject"
  BY <1>2, <1>5 DEF IInv, QueueOK, Queued
<1>8. ASSUME \A j \in Requests : req'[j].status = "absent" <=> saved[j].status = "absent"
      PROVE  Numbered'
  <2>1. PICK m \in 0..MaxRequests : m = i
    BY <1>1, RequestsAssumption DEF Requests
  <2>2. Saved(m)' /\ Unlocked'
    <3>1. \A j \in Requests : saved[j].status # "absent" <=> j <= m
      BY <1>1, <1>2, <2>1 DEF Requests
    <3> QED BY <1>3, <1>8, <3>1 DEF Saved, Unlocked
  <2>3. \A j \in Requests : asked'[j] # {} => req'[j].status # "absent"
    BY <1>1, <1>2, <1>3, <1>8 DEF IInv, Numbered
  <2> QED BY <2>2, <2>3 DEF Numbered
<1>9. IntakeOK'
  BY <1>3 DEF IntakeOK, Unlocked
<1>10. CASE /\ Ready(saved, intake.seen) /\ DispatchHead(saved, "submission")
            /\ p = "reject" => HeadOf(saved) = i
  <2> DEFINE h == HeadOf(saved)
  <2>1. Dispatches(saved, "submission") /\ QueueState(saved, intake.seen) = "ready"
    BY <1>10 DEF Ready, Dispatches
  <2>2. /\ h \in Queued(saved) /\ req'[h].status = "dispatched"
        /\ \A j \in Requests \ {h} : req'[j] = saved[j]
        /\ Queued(req') = Queued(saved) \ {h}
        /\ PendingSteers(req') = PendingSteers(saved) \ {h}
    BY <1>2, <2>1, DispatchFacts DEF Creators
  <2>3. \A j \in Queued(req') : ~Overtakes(req', j, h)
    BY <1>2, <1>6, <2>1, DispatchOrder DEF Creators
  <2>4. run' = NewRun("chat", h, "submission") /\ (p = "reject" => h = i)
    BY <1>10 DEF DispatchHead
  <2>5. ~ScopeActive /\ ~(intake.seen \in {"failed", "cancelled"} /\ h \in before)
    BY <2>1 DEF QueueState
  <2> HIDE DEF h
  <2>6. Numbered'
    BY <1>8, <2>2 DEF Queued
  <2>7. QueueOK'
    <3>1. \A j, k \in PendingSteers(req') : j = k
      BY <1>6, <2>2
    <3>2. ASSUME NEW j \in Queued(req') PROVE req'[j].policy # "reject"
      <4>1. j \in Queued(saved) /\ j # h /\ req'[j] = saved[j]
        BY <2>2, <3>2 DEF Queued
      <4>2. CASE j = i
        BY <1>2, <2>4, <4>1, <4>2
      <4>3. CASE j # i
        BY <1>7, <4>1, <4>3
      <4> QED BY <4>2, <4>3
    <3> QED BY <3>1, <3>2 DEF QueueOK
  <2>8. ChildOK'
    BY <1>3, <2>4, <2>5 DEF ScopeActive, ChildOK, NewRun
  <2>9. \A j \in Requests :
          req[j].status # "dispatched" /\ req'[j].status = "dispatched" => j = h
    BY <1>2, <2>2
  <2>10. InOrder
    BY <2>3, <2>9 DEF InOrder
  <2>11. Paused
    <3>1. before \subseteq Requests
      BY DEF IInv, TypeOK
    <3>2. run'.by = "submission"
      BY <2>4 DEF NewRun
    <3> QED BY <1>3, <1>4, <2>5, <2>9, <3>1, <3>2 DEF Paused
  <2> QED BY <1>9, <2>6, <2>7, <2>8, <2>10, <2>11 DEF Good
<1>11. CASE /\ req' = [saved EXCEPT ![i].status = Unserved(p)]
            /\ UNCHANGED <<run, before>>
  <2>1. /\ req'[i].status = Unserved(p) /\ req'[i].policy = p
        /\ \A j \in Requests \ {i} : req'[j] = saved[j]
    BY <1>1, <1>2, <1>11 DEF Rows
  <2>2. Numbered'
    BY <1>2, <1>8, <2>1 DEF Unserved
  <2>3. QueueOK'
    <3>1. Queued(req') \subseteq Queued(saved) /\ PendingSteers(req') \subseteq PendingSteers(saved)
      BY <1>2, <2>1 DEF Queued, PendingSteers
    <3>2. ASSUME NEW j \in Queued(req') PROVE req'[j].policy # "reject"
      BY <1>7, <2>1, <3>1, <3>2 DEF Queued, Unserved
    <3> QED BY <1>6, <3>1, <3>2 DEF QueueOK
  <2>4. ChildOK'
    BY <1>3, <1>11 DEF IInv, ChildOK, ThreadActive, RunActive
  <2>5. \A j \in Requests :
          ~(req[j].status # "dispatched" /\ req'[j].status = "dispatched")
    BY <1>2, <2>1 DEF Unserved
  <2>6. InOrder /\ Paused
    BY <2>5 DEF InOrder, Paused, IInv, TypeOK
  <2> QED BY <1>9, <2>2, <2>3, <2>4, <2>6 DEF Good
<1> QED BY <1>3, <1>10, <1>11

(* The user's calls on one request.                                        *)
LEMMA CallStep ==
  ASSUME IInv, NEW i \in Requests,
         \/ CancelRead(i) \/ SteerRead(i) \/ SteerQueued(i)
         \/ \E op \in {"cancel", "cancel_steer"} : CancelQueued(i, op)
  PROVE  Good
<1> USE DEF IInv, TypeOK
<1>1. CASE CancelRead(i) \/ SteerRead(i)
  <2>1. PICK op : Ask(i, op)
    BY <1>1 DEF CancelRead, SteerRead
  <2>2. UNCHANGED <<req, run, before, child, intake>>
    BY <2>1 DEF Ask
  <2>3. \A j \in Requests : asked'[j] # {} => asked[j] # {} \/ req[j].status # "absent"
    BY <2>1 DEF Ask
  <2>4. ChildOK'
    BY <2>2 DEF ChildOK, ThreadActive, RunActive
  <2> QED BY <2>2, <2>3, <2>4, QuietStep
<1>2. ASSUME UNCHANGED <<run, before, child, intake>>, Unlocked, asked[i] # {},
             asked' = [asked EXCEPT ![i] = asked'[i]],
             \A j \in Requests \ {i} : req'[j] = req[j],
             \/ req'[i] = req[i]
             \/ req'[i].status = "cancelled"
             \/ /\ req'[i].status = req[i].status /\ req'[i].policy = "steer"
                /\ PendingSteers(req) \subseteq {i}
      PROVE  Good
  <2>1. req[i].status # "absent"
    BY <1>2 DEF Numbered
  <2>2. Numbered'
    BY <1>2, <2>1, NumberedSame
  <2>3. IntakeOK'
    BY <1>2 DEF IntakeOK, Unlocked
  <2>4. QueueOK'
    <3>1. \A j \in Queued(req') : j \in Queued(req)
      BY <1>2 DEF Queued
    <3>2. \A j, k \in PendingSteers(req') : j = k
      BY <1>2, <3>1 DEF QueueOK, PendingSteers, Queued
    <3>3. \A j \in Queued(req') : req'[j].policy # "reject"
      BY <1>2, <3>1 DEF QueueOK, Queued
    <3> QED BY <3>2, <3>3 DEF QueueOK
  <2>5. ChildOK'
    BY <1>2 DEF ChildOK, ThreadActive, RunActive
  <2>6. \A j \in Requests :
          ~(req[j].status # "dispatched" /\ req'[j].status = "dispatched")
    BY <1>2
  <2>7. InOrder /\ Paused
    BY <2>6 DEF InOrder, Paused
  <2> QED BY <2>2, <2>3, <2>4, <2>5, <2>7 DEF Good
<1>3. ASSUME NEW op \in {"cancel", "cancel_steer"}, CancelQueued(i, op) PROVE Good
  <2>1. /\ UNCHANGED <<run, before, child, intake>> /\ Unlocked /\ asked[i] # {}
        /\ asked' = [asked EXCEPT ![i] = @ \ {op}]
    BY <1>3 DEF CancelQueued
  <2>2. /\ \A j \in Requests \ {i} : req'[j] = req[j]
        /\ req'[i] = req[i] \/ req'[i].status = "cancelled"
    BY <1>3 DEF CancelQueued
  <2>3. asked' = [asked EXCEPT ![i] = asked'[i]]
    BY <2>1
  <2> QED BY <1>2, <2>1, <2>2, <2>3
<1>4. CASE SteerQueued(i)
  <2>1. /\ UNCHANGED <<run, before, child, intake>> /\ Unlocked /\ asked[i] # {}
        /\ asked' = [asked EXCEPT ![i] = @ \ {"steer"}]
    BY <1>4 DEF SteerQueued
  <2>2. /\ \A j \in Requests \ {i} : req'[j] = req[j]
        /\ \/ req'[i] = req[i]
           \/ /\ req'[i].status = req[i].status /\ req'[i].policy = "steer"
              /\ PendingSteers(req) \subseteq {i}
    BY <1>4 DEF SteerQueued, MaySteer
  <2>3. asked' = [asked EXCEPT ![i] = asked'[i]]
    BY <2>1
  <2> QED BY <1>2, <2>1, <2>2, <2>3
<1> QED BY <1>1, <1>3, <1>4

(* What happens to the latest run.                                         *)
LEMMA RunStep ==
  ASSUME IInv, Run
  PROVE  Good
<1> USE DEF IInv, TypeOK, ChildOK, ThreadActive, RunActive
<1>1. ASSUME UNCHANGED <<req, asked, intake>>, ChildOK',
             run.status \in Terminal => run'.status = run.status
      PROVE  Good
  BY <1>1, QuietStep
<1>2. CASE LoseJob
  BY <1>1, <1>2 DEF LoseJob, RunOnly
<1>3. CASE StartRun
  BY <1>1, <1>3 DEF StartRun, RunOnly, Terminal
<1>4. CASE RetryRun
  BY <1>1, <1>4 DEF RetryRun, RunOnly, Terminal
<1>5. ASSUME NEW s \in Terminal, EndRun(s) PROVE Good
  BY <1>1, <1>5 DEF EndRun, RunOnly, Terminal
<1>6. CASE CancelRun
  BY <1>1, <1>6 DEF CancelRun, RunOnly, Terminal
<1>7. CASE LowerFence
  BY <1>1, <1>7 DEF LowerFence, RuntimeIdle, RunOnly
<1>8. CASE StartChild \/ EndChild
  BY <1>1, <1>8 DEF StartChild, EndChild, Terminal
<1> QED BY <1>2, <1>3, <1>4, <1>5, <1>6, <1>7, <1>8 DEF Run

(* Every step.                                                             *)
LEMMA NextStep ==
  ASSUME IInv, [Next]_vars
  PROVE  IInv' /\ InOrder /\ Paused
<1>1. TypeOK'
  BY TypeStep, FreshFacts DEF IInv
<1>2. Good
  <2>1. CASE SubmitRollback
    <3>1. ChildOK'
      BY <2>1 DEF SubmitRollback, IInv, ChildOK, ThreadActive, RunActive
    <3> QED BY <2>1, <3>1, QuietStep DEF SubmitRollback
  <2>2. CASE ContinueThreadQueue
    <3>1. Dispatches(req, "user") /\ ~ScopeActive /\ Unlocked /\ UNCHANGED <<child, asked, intake>>
      BY <2>2 DEF ContinueThreadQueue, Dispatches, QueueState
    <3> QED BY <2>2, <3>1, DispatchStep DEF Creators
  <2>3. CASE DispatchNext
    <3>1. Unlocked /\ UNCHANGED <<child, asked, intake>>
      BY <2>3 DEF DispatchNext
    <3>2. CASE Ready(req, run.status) /\ DispatchHead(req, "relay")
      <4>1. /\ Dispatches(req, "relay") /\ ~ScopeActive
            /\ ~(run.status \in {"failed", "cancelled"} /\ HeadOf(req) \in before)
        BY <3>2 DEF Ready, Dispatches, QueueState
      <4> QED BY <3>1, <4>1, DispatchStep DEF Creators
    <3>3. CASE Reenqueue /\ run' = [run EXCEPT !.job = TRUE] /\ UNCHANGED <<req, before>>
      <4>1. ChildOK' /\ run'.status = run.status
        BY <3>1, <3>3 DEF IInv, TypeOK, ChildOK, ThreadActive, RunActive
      <4> QED BY <3>1, <3>3, <4>1, QuietStep
    <3> QED BY <2>3, <3>2, <3>3 DEF DispatchNext
  <2>4. CASE Resume
    <3>1. ChildOK'
      BY <2>4 DEF Resume, NewRun, IInv, ChildOK, ThreadActive
    <3>2. intake' = NoIntake /\ UNCHANGED <<req, asked>>
      BY <2>4 DEF Resume, Unlocked
    <3> QED BY <3>1, <3>2, QuietStep
  <2>5. CASE UNCHANGED vars
    <3>1. ChildOK'
      BY <2>5 DEF vars, IInv, ChildOK, ThreadActive, RunActive
    <3> QED BY <2>5, <3>1, QuietStep DEF vars
  <2> QED
    BY <2>1, <2>2, <2>3, <2>4, <2>5, ReadStep, WriteStep, CallStep, RunStep DEF Next
<1> QED BY <1>1, <1>2 DEF IInv, Good

(* The empty queue satisfies the invariant.                                *)
LEMMA InitInv == Init => IInv
<1> SUFFICES ASSUME Init PROVE IInv
  OBVIOUS
<1>1. Saved(0) /\ Unlocked /\ \A i \in Requests : asked[i] = {}
  BY RequestsAssumption DEF Init, Saved, Unlocked, Requests
<1>2. 0 \in 0..MaxRequests
  BY RequestsAssumption
<1>3. Numbered
  BY <1>1, <1>2 DEF Numbered
<1>4. Queued(req) = {}
  BY DEF Init, Queued
<1>5. QueueOK
  BY <1>4 DEF QueueOK, PendingSteers
<1>6. IntakeOK /\ ChildOK
  BY <1>1 DEF IntakeOK, ChildOK, Init
<1> QED BY <1>3, <1>5, <1>6, TypeInit DEF IInv

-----------------------------------------------------------------------------
(* The theorems                                                            *)

(* The queue's rows, the lock's holder and the latest run stay consistent. *)
THEOREM Invariance == Spec => []IInv
<1>1. IInv /\ [Next]_vars => IInv'
  BY NextStep
<1> QED BY <1>1, InitInv, PTL DEF Spec

(* The tables and the calls in progress are well typed.                    *)
THEOREM TypeCorrect == Spec => []TypeOK
<1>1. IInv => TypeOK
  BY DEF IInv
<1> QED BY <1>1, Invariance, PTL

(* Two steers never wait together.                                         *)
THEOREM OneSteer == Spec => []OneSteerPending
<1>1. ASSUME IInv PROVE OneSteerPending
  <2>1. CASE PendingSteers(req) = {}
    BY <2>1, FS_EmptySet DEF OneSteerPending
  <2>2. CASE PendingSteers(req) # {}
    <3>1. PICK i : PendingSteers(req) = {i}
      BY <1>1, <2>2 DEF IInv, QueueOK
    <3> QED BY <3>1, FS_Singleton DEF OneSteerPending
  <2> QED BY <2>1, <2>2
<1> QED BY <1>1, Invariance, PTL

(* A reject never waits.                                                   *)
THEOREM RejectAnswered == Spec => []RejectNeverWaits
<1>1. IInv => RejectNeverWaits
  BY DEF IInv, QueueOK, RejectNeverWaits
<1> QED BY <1>1, Invariance, PTL

(* A run that is about to start finds no subagent of an earlier one.       *)
THEOREM RuntimeFresh == Spec => []FreshRuntime
<1>1. IInv => FreshRuntime
  BY DEF IInv, ChildOK, FreshRuntime
<1> QED BY <1>1, Invariance, PTL

(* Whoever dispatches, the steer goes first and the others in their order. *)
THEOREM OrderKept == Spec => SteerThenFifo
<1>1. IInv /\ [Next]_vars => [InOrder]_vars
  BY NextStep
<1>2. InOrder => \A i \in Requests :
        req[i].status # "dispatched" /\ req'[i].status = "dispatched" =>
          \A j \in Queued(req') : ~Overtakes(req', j, i)
  BY DEF InOrder
<1> QED BY <1>1, <1>2, Invariance, PTL DEF Spec, SteerThenFifo

(* After a failure the requests that waited go on when the user says so:   *)
(* the run that comes next was created by the user's continue, or by a     *)
(* submission that had read the run before it failed, never by the relay.  *)
THEOREM PauseKept == Spec => PausedUntilContinued
<1>1. IInv /\ [Next]_vars => [Paused]_vars
  BY NextStep
<1>2. Paused => (run.status \in {"failed", "cancelled"} =>
        \A i \in before :
          req[i].status = "queued" /\ req'[i].status = "dispatched" =>
            \/ run'.by = "user"
            \/ run'.by = "submission" /\ intake.seen \notin Terminal)
  BY DEF Paused
<1> QED BY <1>1, <1>2, Invariance, PTL DEF Spec, PausedUntilContinued
=============================================================================
