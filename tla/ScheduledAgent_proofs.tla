----------------------- MODULE ScheduledAgent_proofs -----------------------
(* Theorems about ScheduledAgent for any jobs, any number of occurrences   *)
(* and of invocations that dispatch them.                                  *)
EXTENDS ScheduledAgent, FiniteSetTheorems, TLAPS

-----------------------------------------------------------------------------
(* Type correctness                                                        *)

(* The first state has its types.                                          *)
LEMMA TypeInit == Init => TypeOK
BY DEF Init, TypeOK, Absent, Idle, Settled

Places   == {"called", "locked", "saved", "refused", "broken"}
Statuses == {"absent", "dispatching", "gone"} \cup Settled
Calls    == {Idle} \cup [pc : Places, occ : Occurrences]
Rows     == [Occurrences -> [status : Statuses, job : Jobs \cup {"none"}, manual : BOOLEAN]]

(* An invocation that is not idle is at an occurrence; it moves on or      *)
(* comes to its end, and may write the occurrence's status.                *)
LEMMA Moves ==
  ASSUME TypeOK, NEW w \in Workers, at[w] # Idle
  PROVE  /\ at[w].occ \in Occurrences /\ at[w].pc \in Places
         /\ \A p \in Places : Goto(w, p) => at' \in [Workers -> Calls]
         /\ Done(w) => at' \in [Workers -> Calls]
         /\ \A s \in Statuses : Set(at[w].occ, s) => occ' \in Rows
<1>1. at \in [Workers -> Calls] /\ occ \in Rows
  BY DEF TypeOK, Calls, Places, Rows, Statuses
<1>2. at[w] \in [pc : Places, occ : Occurrences]
  BY <1>1 DEF Calls
<1>3. ASSUME NEW p \in Places, Goto(w, p) PROVE at' \in [Workers -> Calls]
  <2>1. [at[w] EXCEPT !.pc = p] \in Calls
    BY <1>2 DEF Calls
  <2>2. at' = [at EXCEPT ![w] = [at[w] EXCEPT !.pc = p]]
    BY <1>1, <1>3 DEF Goto
  <2> QED BY <1>1, <2>1, <2>2
<1>4. Done(w) => at' \in [Workers -> Calls]
  BY <1>1 DEF Done, Calls
<1>5. ASSUME NEW s \in Statuses, Set(at[w].occ, s) PROVE occ' \in Rows
  BY <1>1, <1>2, <1>5 DEF Set, Rows
<1> QED BY <1>2, <1>3, <1>4, <1>5

(* What records an occurrence keeps the types.                             *)
LEMMA RecordType ==
  ASSUME TypeOK, NEW w \in Workers, NEW j \in Jobs, NEW m \in BOOLEAN,
         RecordOccurrence(w, j, m), job' \in [Jobs -> [state : {"absent", "on", "off", "deleted", "gone"}, due : BOOLEAN]]
  PROVE  TypeOK'
<1> DEFINE o == Cardinality({p \in Occurrences : occ[p].status # "absent"}) + 1
           s == IF HasActiveRun(j) THEN "skipped" ELSE "dispatching"
<1>1. /\ o \in Occurrences
      /\ occ' = [occ EXCEPT ![o] = [status |-> s, job |-> j, manual |-> m]]
      /\ at' = [at EXCEPT ![w] = IF s = "dispatching" THEN [pc |-> "called", occ |-> o] ELSE Idle]
      /\ UNCHANGED <<exec, orphan>>
  BY DEF RecordOccurrence
<1>2. s \in {"skipped", "dispatching"}
  OBVIOUS
<1> HIDE DEF o, s
<1> QED BY <1>1, <1>2 DEF TypeOK, Idle, Settled

(* Every step keeps the types.                                             *)
LEMMA TypeStep == TypeOK /\ [Next]_vars => TypeOK'
<1> SUFFICES ASSUME TypeOK, [Next]_vars PROVE TypeOK'
  OBVIOUS
<1>1. ASSUME NEW j \in Jobs, JobAction(j) PROVE TypeOK'
  <2>1. CASE CreateJob(j)
    BY <2>1 DEF CreateJob, JobOnly, TypeOK
  <2>2. CASE UpdateJob(j)
    <3>1. PICK s \in {"on", "off"}, replanned \in BOOLEAN :
            job' = [job EXCEPT ![j] =
                 [state |-> s,
                  due |-> @.due /\ ~replanned /\ ~(s = "on" /\ @.state = "off")]]
      BY <2>2 DEF UpdateJob
    <3>2. (job[j].due /\ ~replanned /\ ~(s = "on" /\ job[j].state = "off")) \in BOOLEAN
      OBVIOUS
    <3> QED BY <2>2, <3>1, <3>2 DEF UpdateJob, JobOnly, TypeOK
  <2>3. CASE DeleteJob(j)
    BY <2>3 DEF DeleteJob, JobOnly, TypeOK
  <2>4. CASE TimePasses(j)
    BY <2>4 DEF TimePasses, JobOnly, TypeOK
  <2>5. CASE ClaimBrokenPlan(j)
    BY <2>5 DEF ClaimBrokenPlan, JobOnly, TypeOK
  <2> QED BY <1>1, <2>1, <2>2, <2>3, <2>4, <2>5 DEF JobAction
<1>2. ASSUME NEW w \in Workers, Call(w) PROVE TypeOK'
  <2>1. ASSUME NEW j \in Jobs, ClaimDueRun(w, j) PROVE TypeOK'
    <3>1. job \in [Jobs -> [state : {"absent", "on", "off", "deleted", "gone"}, due : BOOLEAN]]
      BY DEF TypeOK
    <3>2. job' = [job EXCEPT ![j].due = FALSE]
      BY <2>1 DEF ClaimDueRun
    <3>3. job' \in [Jobs -> [state : {"absent", "on", "off", "deleted", "gone"}, due : BOOLEAN]]
      BY <3>1, <3>2
    <3> QED BY <2>1, <3>3, RecordType DEF ClaimDueRun
  <2>2. ASSUME NEW j \in Jobs, RunJobNow(w, j) PROVE TypeOK'
    <3>1. job' \in [Jobs -> [state : {"absent", "on", "off", "deleted", "gone"}, due : BOOLEAN]]
      BY <2>2 DEF RunJobNow, TypeOK
    <3> QED BY <2>2, <3>1, RecordType DEF RunJobNow
  <2>3. ASSUME NEW o \in Occurrences, CallDispatch(w, o) PROVE TypeOK'
    BY <2>3 DEF CallDispatch, TypeOK
  <2> QED BY <1>2, <2>1, <2>2, <2>3 DEF Call, ReplayRunNow, RecoverDispatch
<1>3. ASSUME NEW w \in Workers, Dispatch(w) \/ Break(w) \/ Crash(w) PROVE TypeOK'
  <2>1. at[w] # Idle
    BY <1>3 DEF Dispatch, LockOccurrence, Refuse, SubmitRequest, RecordSubmitted,
                SettleDispatchError, Break, Crash, Idle
  <2>2. /\ at \in [Workers -> Calls] /\ occ \in Rows
        /\ UNCHANGED job
    BY <1>3 DEF TypeOK, Calls, Places, Rows, Statuses, Dispatch, LockOccurrence, Refuse,
                SubmitRequest, RecordSubmitted, SettleDispatchError, Break, Crash
  <2>3. at' \in [Workers -> Calls]
    <3>1. Done(w) \/ \E p \in Places : Goto(w, p)
      BY <1>3 DEF Places, Dispatch, LockOccurrence, Refuse, SubmitRequest, RecordSubmitted,
                  SettleDispatchError, Break, Crash
    <3> QED BY <2>1, <3>1, Moves
  <2>4. occ' \in Rows
    <3>1. SettleDispatchError(w) => Outcome(w, at[w].occ) \in Statuses
      <4>1. at[w].occ \in Occurrences
        BY <2>1, Moves
      <4> QED BY <2>2, <4>1 DEF Outcome, Rows, Statuses, Settled
    <3>2. UNCHANGED occ \/ \E s \in Statuses : Set(at[w].occ, s)
      BY <1>3, <3>1 DEF Statuses, Settled, Dispatch, LockOccurrence, Refuse, SubmitRequest,
                        RecordSubmitted, SettleDispatchError, Break, Crash
    <3> QED BY <2>1, <2>2, <3>2, Moves
  <2>5. /\ exec' \in [Occurrences -> {"none", "active", "over", "interrupted", "resumed"}]
        /\ orphan' \subseteq Occurrences
    <3>1. at[w].occ \in Occurrences
      BY <2>1, Moves
    <3> QED BY <1>3, <3>1 DEF TypeOK, Dispatch, LockOccurrence, Refuse, SubmitRequest,
                              RecordSubmitted, SettleDispatchError, Break, Crash
  <2> QED BY <2>2, <2>3, <2>4, <2>5 DEF TypeOK, Calls, Places, Rows, Statuses
<1>4. CASE DeleteAccount
  <2>1. /\ job' \in [Jobs -> [state : {"gone"}, due : {FALSE}]]
        /\ UNCHANGED <<exec, at, orphan>>
    BY <1>4 DEF DeleteAccount
  <2>2. occ' \in Rows
    BY <1>4 DEF DeleteAccount, TypeOK, Rows, Statuses
  <2> QED BY <2>1, <2>2 DEF TypeOK, Rows, Statuses
<1>5. ASSUME NEW o \in Occurrences, RunStops(o) \/ ResumeRun(o) PROVE TypeOK'
  BY <1>5 DEF RunStops, ResumeRun, TypeOK
<1>6. CASE UNCHANGED vars
  BY <1>6 DEF vars, TypeOK
<1> QED BY <1>1, <1>2, <1>3, <1>4, <1>5, <1>6 DEF Next

(* The rows and the invocations keep their types.                          *)
THEOREM TypeCorrect == Spec => []TypeOK
BY TypeInit, TypeStep, PTL DEF Spec

-----------------------------------------------------------------------------
(* The inductive invariant                                                 *)

(* Occurrences are recorded one after the other.                           *)
Numbered ==
  \E n \in 0..MaxOccurrences : \A o \in Occurrences : occ[o].status # "absent" <=> o <= n

(* Who holds the row finds the occurrence dispatching, and holds it alone; *)
(* who has submitted it left its request behind.                           *)
Invocation(w) ==
  /\ at[w] # Idle => occ[at[w].occ].status # "absent"
  /\ at[w].pc = "saved" => exec[at[w].occ] # "none"
  /\ at[w].pc = "locked" =>
       /\ occ[at[w].occ].status = "dispatching"
       /\ \A v \in Workers : at[v].pc = "locked" /\ at[v].occ = at[w].occ => v = w

(* The record of an occurrence and its request agree.                      *)
Record(o) ==
  /\ occ[o].status \in {"absent", "failed", "skipped"} => exec[o] = "none"
  /\ occ[o].status = "submitted" => exec[o] # "none"
  /\ occ[o].status = "cancelled" => exec[o] = "none" \/ o \in orphan
  /\ occ[o].status = "gone" => \A j \in Jobs : job[j].state = "gone"

(* What has_active_run has to see of a job.                                *)
Blocks(o) == occ[o].status = "dispatching" \/ exec[o] = "active"

OneBlocks ==
  \A o, p \in Occurrences :
    o # p /\ occ[o].job = occ[p].job /\ Blocks(o) /\ Blocks(p) => o \in orphan \/ p \in orphan

IInv ==
  /\ TypeOK
  /\ Numbered
  /\ \A w \in Workers : Invocation(w)
  /\ \A o \in Occurrences : Record(o)
  /\ OneBlocks

(* What SettledStaysSettled says of a step.                                *)
SettledKept ==
  \A o \in Occurrences :
    occ[o].status \in Settled /\ occ'[o].status \notin {occ[o].status, "gone"} =>
      occ[o].status = "cancelled" /\ occ'[o].status = "submitted" /\ exec[o] # "none"

(* Nothing is recorded at first.                                           *)
LEMMA InitInv == Init => IInv
<1> SUFFICES ASSUME Init PROVE IInv
  OBVIOUS
<1>1. TypeOK
  BY TypeInit
<1>2. Numbered
  <2>1. 0 \in 0..MaxOccurrences /\ \A o \in Occurrences : ~(o <= 0)
    BY OccurrencesAssumption DEF Occurrences
  <2> QED BY <2>1 DEF Init, Numbered, Absent
<1>3. \A w \in Workers : Invocation(w)
  BY DEF Init, Invocation, Idle
<1>4. \A o \in Occurrences : Record(o) /\ ~Blocks(o)
  BY DEF Init, Record, Blocks, Absent
<1> QED BY <1>1, <1>2, <1>3, <1>4 DEF IInv, OneBlocks

(* The number of the next occurrence.                                      *)
LEMMA FreshNumber ==
  ASSUME NEW n \in 0..MaxOccurrences,
         \A o \in Occurrences : occ[o].status # "absent" <=> o <= n
  PROVE  Cardinality({p \in Occurrences : occ[p].status # "absent"}) + 1 = n + 1
<1>1. {p \in Occurrences : occ[p].status # "absent"} = 1..n
  BY OccurrencesAssumption DEF Occurrences
<1>2. Cardinality(1..n) = n
  BY FS_Interval, OccurrencesAssumption
<1> QED BY <1>1, <1>2

(* The jobs that are gone stay so.                                         *)
GoneStay == \A j \in Jobs : job[j].state = "gone" => job'[j].state = "gone"

(* A step of one invocation that concerns one occurrence.                  *)
LEMMA RowStep ==
  ASSUME IInv, TypeOK', GoneStay, NEW w \in Workers, NEW o \in Occurrences,
         \A v \in Workers : v = w \/ at'[v] = at[v],
         Invocation(w)',
         \A v \in Workers \ {w} : at[v].pc = "locked" /\ at[v].occ = o =>
           occ'[o].status = occ[o].status,
         at'[w].pc = "locked" => at'[w].occ = o /\ RowFree(o),
         \A p \in Occurrences \ {o} : occ'[p] = occ[p] /\ exec'[p] = exec[p],
         occ'[o].job = occ[o].job,
         occ'[o].status = "absent" <=> occ[o].status = "absent",
         exec[o] # "none" => exec'[o] # "none",
         orphan \subseteq orphan',
         Record(o)', Blocks(o)' => Blocks(o)
  PROVE  IInv'
<1>1. Numbered'
  <2>1. \A p \in Occurrences : occ'[p].status = "absent" <=> occ[p].status = "absent"
    OBVIOUS
  <2> QED BY <2>1 DEF IInv, Numbered
<1>2. ASSUME NEW v \in Workers PROVE Invocation(v)'
  <2>1. CASE v = w
    BY <2>1
  <2>2. CASE v # w
    <3>1. at'[v] = at[v] /\ Invocation(v)
      BY <2>2 DEF IInv
    <3>2. at[v] # Idle => at[v].occ \in Occurrences
      BY Moves DEF IInv
    <3>3. at[v].pc = "locked" \/ at[v].pc = "saved" => at[v] # Idle
      BY DEF Idle
    <3>4. at[v] # Idle => occ'[at[v].occ].status # "absent"
      BY <3>1, <3>2 DEF Invocation
    <3>5. at[v].pc = "saved" => exec'[at[v].occ] # "none"
      BY <3>1, <3>2, <3>3 DEF Invocation
    <3>6. at[v].pc = "locked" => occ'[at[v].occ].status = "dispatching"
      BY <2>2, <3>1, <3>2, <3>3 DEF Invocation
    <3>7. ASSUME at[v].pc = "locked", NEW u \in Workers, at'[u].pc = "locked", at'[u].occ = at[v].occ
          PROVE  u = v
      <4>1. u # w
        BY <2>2, <3>7 DEF RowFree
      <4> QED BY <3>1, <3>7, <4>1 DEF Invocation
    <3> QED BY <3>1, <3>4, <3>5, <3>6, <3>7 DEF Invocation
  <2> QED BY <2>1, <2>2
<1>3. ASSUME NEW p \in Occurrences PROVE Record(p)'
  <2>1. CASE p # o
    BY <2>1 DEF IInv, Record, GoneStay
  <2> QED BY <2>1
<1>4. OneBlocks'
  <2>1. \A p \in Occurrences : (Blocks(p)' => Blocks(p)) /\ occ'[p].job = occ[p].job
    BY DEF Blocks
  <2> QED BY <2>1 DEF IInv, OneBlocks
<1> QED BY <1>1, <1>2, <1>3, <1>4 DEF IInv

(* An occurrence is recorded.                                              *)
LEMMA RecordStep ==
  ASSUME IInv, TypeOK', NEW w \in Workers, NEW j \in Jobs, NEW m \in BOOLEAN,
         RecordOccurrence(w, j, m), Present(j), GoneStay
  PROVE  IInv' /\ SettledKept
<1>1. PICK n \in 0..MaxOccurrences : \A p \in Occurrences : occ[p].status # "absent" <=> p <= n
  BY DEF IInv, Numbered
<1>2. PICK o : o = n + 1
  OBVIOUS
<1>3. o \in Occurrences /\ o = Cardinality({p \in Occurrences : occ[p].status # "absent"}) + 1
  BY <1>1, <1>2, FreshNumber DEF RecordOccurrence
<1>4. PICK s \in {"skipped", "dispatching"} :
        /\ s = "dispatching" => ~HasActiveRun(j)
        /\ occ' = [occ EXCEPT ![o] = [status |-> s, job |-> j, manual |-> m]]
        /\ at[w] = Idle
        /\ at' = [at EXCEPT ![w] = IF s = "dispatching" THEN [pc |-> "called", occ |-> o] ELSE Idle]
        /\ UNCHANGED <<exec, orphan>>
  BY <1>3 DEF RecordOccurrence
<1>5. occ[o].status = "absent" /\ exec[o] = "none"
  BY <1>1, <1>2, <1>3 DEF IInv, Record, Occurrences
<1>6. /\ occ'[o] = [status |-> s, job |-> j, manual |-> m]
      /\ \A p \in Occurrences \ {o} : occ'[p] = occ[p]
      /\ \A v \in Workers \ {w} : at'[v] = at[v]
      /\ at'[w] = IF s = "dispatching" THEN [pc |-> "called", occ |-> o] ELSE Idle
  BY <1>2, <1>3, <1>4 DEF IInv, TypeOK
<1>7. Numbered'
  <2>1. n + 1 \in 0..MaxOccurrences
    BY <1>2, <1>3, OccurrencesAssumption DEF Occurrences
  <2>2. \A p \in Occurrences : occ'[p].status # "absent" <=> p <= n + 1
    BY <1>1, <1>2, <1>3, <1>4, <1>6 DEF Occurrences
  <2> QED BY <2>1, <2>2 DEF Numbered
<1>8. ASSUME NEW v \in Workers PROVE Invocation(v)'
  <2>1. CASE v = w
    BY <1>4, <1>6, <2>1 DEF Invocation, Idle
  <2>2. CASE v # w
    <3>1. at'[v] = at[v] /\ Invocation(v)
      BY <1>6, <2>2 DEF IInv
    <3>2. at[v] # Idle => at[v].occ \in Occurrences /\ at[v].occ # o
      BY <1>5, <3>1, Moves DEF IInv, Invocation
    <3>3. at[v].pc = "locked" \/ at[v].pc = "saved" => at[v] # Idle
      BY DEF Idle
    <3>4. at'[w].pc # "locked"
      BY <1>6 DEF Idle
    <3>5. \A u \in Workers : at'[u].pc = "locked" => u # w /\ at'[u] = at[u]
      BY <1>6, <3>4
    <3> QED BY <1>4, <1>6, <3>1, <3>2, <3>3, <3>5 DEF Invocation
  <2> QED BY <2>1, <2>2
<1>9. ASSUME NEW p \in Occurrences PROVE Record(p)'
  <2>1. CASE p = o
    BY <1>4, <1>5, <1>6, <2>1 DEF Record
  <2>2. CASE p # o
    BY <1>4, <1>6, <2>2 DEF IInv, Record, GoneStay
  <2> QED BY <2>1, <2>2
<1>10. OneBlocks'
  <2>1. ASSUME NEW p \in Occurrences \ {o}, Blocks(o)', Blocks(p), occ[p].job = j
        PROVE  p \in orphan
    <3>1. s = "dispatching" /\ ~HasActiveRun(j)
      BY <1>4, <1>5, <1>6, <2>1 DEF Blocks
    <3>2. /\ occ[p].status # "dispatching"
          /\ exec[p] = "active"
          /\ occ[p].status # "submitted"
      BY <2>1, <3>1 DEF Blocks, HasActiveRun
    <3>3. occ[p].status # "gone"
      BY DEF IInv, Record, Present
    <3>4. occ[p].status \in Statuses
      BY DEF IInv, TypeOK, Statuses
    <3> QED BY <3>2, <3>3, <3>4 DEF IInv, Record, Statuses, Settled
  <2>2. ASSUME NEW p \in Occurrences, NEW q \in Occurrences, p # q, occ'[p].job = occ'[q].job,
               Blocks(p)', Blocks(q)'
        PROVE  p \in orphan' \/ q \in orphan'
    <3>1. \A x \in Occurrences \ {o} : Blocks(x)' => Blocks(x)
      BY <1>4, <1>6 DEF Blocks
    <3>2. CASE p = o
      BY <1>4, <1>6, <2>1, <2>2, <3>1, <3>2
    <3>3. CASE q = o
      BY <1>4, <1>6, <2>1, <2>2, <3>1, <3>3
    <3>4. CASE p # o /\ q # o
      BY <1>4, <1>6, <2>2, <3>1, <3>4 DEF IInv, OneBlocks
    <3> QED BY <3>2, <3>3, <3>4
  <2> QED BY <2>2 DEF OneBlocks
<1>11. SettledKept
  BY <1>5, <1>6 DEF SettledKept, Settled
<1> QED BY <1>7, <1>8, <1>9, <1>10, <1>11 DEF IInv

(* Somebody sets out to dispatch an occurrence.                            *)
LEMMA CallStep ==
  ASSUME IInv, TypeOK', NEW w \in Workers, NEW o \in Occurrences, CallDispatch(w, o)
  PROVE  IInv' /\ SettledKept
<1>1. /\ at'[w] = [pc |-> "called", occ |-> o]
      /\ \A v \in Workers \ {w} : at'[v] = at[v]
      /\ occ[o].status = "dispatching"
      /\ UNCHANGED <<job, occ, exec, orphan>>
  BY DEF IInv, TypeOK, CallDispatch
<1>2. Invocation(w)' /\ Record(o)' /\ (Blocks(o)' => Blocks(o)) /\ GoneStay
  BY <1>1 DEF IInv, Invocation, Record, Blocks, GoneStay
<1>3. SettledKept
  BY <1>1 DEF SettledKept
<1> QED BY <1>1, <1>2, <1>3, RowStep

(* A step of an invocation that has one.                                   *)
LEMMA DispatchStep ==
  ASSUME IInv, TypeOK', NEW w \in Workers, Dispatch(w) \/ Break(w) \/ Crash(w)
  PROVE  IInv' /\ SettledKept
<1>1. at[w] # Idle
  BY DEF Dispatch, LockOccurrence, Refuse, SubmitRequest, RecordSubmitted,
         SettleDispatchError, Break, Crash, Idle
<1>2. PICK o \in Occurrences : o = at[w].occ
  BY <1>1, Moves DEF IInv
<1>3. Invocation(w) /\ Record(o)
  BY DEF IInv
<1>4. \A p : Goto(w, p) => at'[w] = [at[w] EXCEPT !.pc = p] /\ \A v \in Workers \ {w} : at'[v] = at[v]
  BY DEF Goto, IInv, TypeOK
<1>5. Done(w) => at'[w] = Idle /\ \A v \in Workers \ {w} : at'[v] = at[v]
  BY DEF Done, IInv, TypeOK
<1>6. ASSUME NEW s, Set(o, s)
      PROVE  /\ occ'[o].status = s /\ occ'[o].job = occ[o].job
             /\ \A p \in Occurrences \ {o} : occ'[p] = occ[p]
  BY <1>2, <1>6 DEF Set, IInv, TypeOK
<1>7. UNCHANGED job /\ GoneStay
  BY DEF GoneStay, Dispatch, LockOccurrence, Refuse, SubmitRequest, RecordSubmitted,
         SettleDispatchError, Break, Crash
<1>8. at[w] \in [pc : Places, occ : Occurrences]
  BY <1>1 DEF IInv, TypeOK, Places
<1>9. occ[o].status # "absent"
  BY <1>1, <1>2, <1>3 DEF Invocation
<1>10. CASE Done(w) /\ UNCHANGED <<occ, exec, orphan>>
  <2>1. Invocation(w)' /\ Record(o)' /\ (Blocks(o)' => Blocks(o))
    BY <1>2, <1>3, <1>5, <1>7, <1>10 DEF Invocation, Record, Blocks, Idle
  <2>2. SettledKept
    BY <1>2, <1>10 DEF SettledKept
  <2> QED BY <1>2, <1>5, <1>7, <1>10, <2>1, <2>2, RowStep DEF Idle
<1>11. CASE (\E p \in {"refused", "broken"} : Goto(w, p)) /\ UNCHANGED <<occ, exec, orphan>>
  <2>1. /\ at'[w].pc \in {"refused", "broken"} /\ at'[w].occ = o
        /\ \A v \in Workers \ {w} : at'[v] = at[v]
    BY <1>2, <1>4, <1>8, <1>11
  <2>2. Invocation(w)' /\ Record(o)' /\ (Blocks(o)' => Blocks(o))
    BY <1>2, <1>3, <1>7, <1>9, <1>11, <2>1 DEF Invocation, Record, Blocks
  <2>3. SettledKept
    BY <1>2, <1>11 DEF SettledKept
  <2> QED BY <1>2, <1>7, <1>11, <2>1, <2>2, <2>3, RowStep
<1>12. CASE LockOccurrence(w)
  <2>1. RowFree(o) /\ at[w].pc = "called" /\ UNCHANGED exec
    BY <1>2, <1>12 DEF LockOccurrence
  <2>2. CASE occ[o].status # "dispatching"
    <3>1. Done(w) /\ UNCHANGED <<occ, exec, orphan>>
      BY <1>2, <1>12, <2>2 DEF LockOccurrence
    <3> QED BY <1>10, <3>1
  <2>3. CASE occ[o].status = "dispatching" /\ UNCHANGED occ
    <3>1. Goto(w, "locked") /\ UNCHANGED orphan
      BY <1>2, <1>6, <1>12, <2>3 DEF LockOccurrence
    <3>2. at'[w].pc = "locked" /\ at'[w].occ = o /\ \A v \in Workers \ {w} : at'[v] = at[v]
      BY <1>2, <1>4, <1>8, <3>1
    <3>3. Invocation(w)'
      <4>1. \A v \in Workers : at'[v].pc = "locked" /\ at'[v].occ = o => v = w
        BY <1>2, <2>1, <3>2 DEF RowFree
      <4> QED BY <1>2, <1>3, <2>3, <3>2, <4>1 DEF Invocation
    <3>4. Record(o)' /\ (Blocks(o)' => Blocks(o))
      BY <1>2, <1>3, <1>7, <2>1, <2>3, <3>1 DEF Record, Blocks
    <3>5. SettledKept
      BY <1>2, <2>3 DEF SettledKept
    <3> QED BY <1>2, <1>7, <2>1, <2>3, <3>1, <3>2, <3>3, <3>4, <3>5, RowStep
  <2>4. CASE occ[o].status = "dispatching" /\ occ' # occ
    <3>1. /\ Set(o, "cancelled") /\ Done(w)
          /\ orphan' = IF RequestExists(o) THEN orphan \cup {o} ELSE orphan
      BY <1>2, <1>12, <2>4 DEF LockOccurrence
    <3>2. /\ occ'[o].status = "cancelled" /\ occ'[o].job = occ[o].job
          /\ \A p \in Occurrences \ {o} : occ'[p] = occ[p]
      BY <1>2, <1>6, <3>1
    <3>3. /\ Invocation(w)' /\ Record(o)' /\ (Blocks(o)' => Blocks(o))
      BY <1>2, <1>3, <1>5, <2>1, <2>4, <3>1, <3>2 DEF Invocation, Record, Blocks, RequestExists, Idle
    <3>4. SettledKept
      BY <1>2, <2>4, <3>2 DEF SettledKept, Settled
    <3>5. orphan \subseteq orphan'
      BY <1>2, <3>1
    <3>6. \A v \in Workers : ~(at[v].pc = "locked" /\ at[v].occ = o)
      BY <1>2, <2>1 DEF RowFree
    <3>7. at'[w].pc # "locked" /\ \A v \in Workers \ {w} : at'[v] = at[v]
      BY <1>2, <1>5, <3>1 DEF Idle
    <3> QED BY <1>2, <1>7, <1>9, <2>1, <3>2, <3>3, <3>4, <3>5, <3>6, <3>7, RowStep
  <2> QED BY <2>2, <2>3, <2>4
<1>13. CASE SubmitRequest(w)
  <2>1. /\ at[w].pc = "locked" /\ Goto(w, "saved") /\ UNCHANGED <<occ, orphan>>
        /\ exec' = [exec EXCEPT ![o] = IF RequestExists(o) THEN @ ELSE "active"]
    BY <1>2, <1>13 DEF SubmitRequest
  <2>2. /\ exec'[o] = (IF exec[o] # "none" THEN exec[o] ELSE "active")
        /\ \A p \in Occurrences \ {o} : exec'[p] = exec[p]
    BY <1>2, <2>1 DEF RequestExists, IInv, TypeOK
  <2>3. at'[w].pc = "saved" /\ at'[w].occ = o /\ \A v \in Workers \ {w} : at'[v] = at[v]
    <3>1. at'[w] = [at[w] EXCEPT !.pc = "saved"] /\ \A v \in Workers \ {w} : at'[v] = at[v]
      BY <1>4, <2>1
    <3> QED BY <1>2, <1>8, <3>1
  <2>4. occ[o].status = "dispatching"
    BY <1>2, <1>3, <2>1 DEF Invocation
  <2>5. Invocation(w)' /\ Record(o)' /\ (Blocks(o)' => Blocks(o))
    BY <1>2, <1>3, <2>1, <2>2, <2>3, <2>4 DEF Invocation, Record, Blocks
  <2>6. SettledKept
    BY <1>2, <2>1 DEF SettledKept
  <2> QED BY <1>2, <1>7, <2>1, <2>2, <2>3, <2>5, <2>6, RowStep
<1>14. CASE RecordSubmitted(w) /\ occ[o].status # "gone"
  <2>1. at[w].pc = "saved" /\ RowFree(o) /\ Done(w) /\ Set(o, "submitted") /\ UNCHANGED <<exec, orphan>>
    BY <1>2, <1>14 DEF RecordSubmitted
  <2>2. /\ occ'[o].status = "submitted" /\ occ'[o].job = occ[o].job
        /\ \A p \in Occurrences \ {o} : occ'[p] = occ[p]
    BY <1>2, <1>6, <2>1
  <2>3. exec[o] # "none"
    BY <1>2, <1>3, <2>1 DEF Invocation
  <2>4. at'[w].pc # "locked" /\ \A v \in Workers \ {w} : at'[v] = at[v]
    BY <1>2, <1>5, <2>1 DEF Idle
  <2>5. Invocation(w)' /\ Record(o)' /\ (Blocks(o)' => Blocks(o))
    BY <1>2, <1>3, <1>5, <2>1, <2>2, <2>3 DEF Invocation, Record, Blocks, Idle
  <2>6. SettledKept
    <3>1. occ[o].status \notin {"failed", "skipped"}
      BY <1>2, <1>3, <2>3 DEF Record
    <3> QED BY <2>2, <2>3, <3>1 DEF SettledKept, Settled
  <2>7. \A v \in Workers : ~(at[v].pc = "locked" /\ at[v].occ = o)
    BY <1>2, <2>1 DEF RowFree
  <2> QED BY <1>2, <1>7, <1>9, <2>1, <2>2, <2>4, <2>5, <2>6, <2>7, RowStep
<1>15. CASE SettleDispatchError(w)
  <2> DEFINE s == Outcome(w, o)
  <2>1. RowFree(o) /\ Done(w) /\ Set(o, s) /\ UNCHANGED <<exec, orphan>>
    BY <1>2, <1>15 DEF SettleDispatchError
  <2>2. /\ occ[o].status # "dispatching" => s = occ[o].status
        /\ occ[o].status = "dispatching" =>
             \/ s = "submitted" /\ exec[o] # "none"
             \/ s = "failed" /\ exec[o] = "none"
             \/ s = "dispatching"
    BY DEF Outcome, RequestExists
  <2> HIDE DEF s
  <2>3. /\ occ'[o].status = s /\ occ'[o].job = occ[o].job
        /\ \A p \in Occurrences \ {o} : occ'[p] = occ[p]
    BY <1>2, <1>6, <2>1
  <2>4. at'[w].pc # "locked" /\ \A v \in Workers \ {w} : at'[v] = at[v]
    BY <1>2, <1>5, <2>1 DEF Idle
  <2>5. Invocation(w)' /\ (Blocks(o)' => Blocks(o))
    BY <1>2, <1>3, <1>5, <2>1, <2>2, <2>3 DEF Invocation, Blocks, Idle
  <2>6. Record(o)'
    BY <1>2, <1>3, <1>7, <2>1, <2>2, <2>3 DEF Record
  <2>7. SettledKept
    BY <1>2, <2>2, <2>3 DEF SettledKept, Settled
  <2>8. \A v \in Workers : ~(at[v].pc = "locked" /\ at[v].occ = o)
    BY <1>2, <2>1 DEF RowFree
  <2> QED BY <1>2, <1>7, <1>9, <2>1, <2>2, <2>3, <2>4, <2>5, <2>6, <2>7, <2>8, RowStep
<1>16. CASE RecordSubmitted(w) /\ occ[o].status = "gone"
  BY <1>2, <1>11, <1>16 DEF RecordSubmitted
<1>17. CASE Refuse(w) \/ Break(w)
  BY <1>2, <1>11, <1>17 DEF Refuse, Break
<1>18. CASE Crash(w)
  BY <1>2, <1>10, <1>18 DEF Crash
<1> QED BY <1>12, <1>13, <1>14, <1>15, <1>16, <1>17, <1>18 DEF Dispatch

(* Jobs change, the account goes, or an execution takes its course.        *)
LEMMA OtherStep ==
  ASSUME IInv, TypeOK',
         \/ \E j \in Jobs : JobAction(j)
         \/ DeleteAccount
         \/ \E o \in Occurrences : RunStops(o) \/ ResumeRun(o)
         \/ UNCHANGED vars
  PROVE  IInv' /\ SettledKept
<1>1. CASE UNCHANGED <<occ, exec, at, orphan>> /\ GoneStay
  <2>1. Numbered' /\ OneBlocks' /\ SettledKept
    BY <1>1 DEF IInv, Numbered, OneBlocks, Blocks, SettledKept
  <2>2. \A w \in Workers : Invocation(w)'
    BY <1>1 DEF IInv, Invocation
  <2>3. \A o \in Occurrences : Record(o)'
    BY <1>1 DEF IInv, Record, GoneStay
  <2> QED BY <2>1, <2>2, <2>3 DEF IInv
<1>2. ASSUME NEW j \in Jobs, JobAction(j) PROVE IInv' /\ SettledKept
  <2>1. /\ UNCHANGED <<occ, exec, at, orphan>>
        /\ job[j].state # "gone"
        /\ \A i \in Jobs \ {j} : job'[i] = job[i]
    BY <1>2 DEF IInv, TypeOK, JobAction, CreateJob, UpdateJob, DeleteJob, TimePasses,
                ClaimBrokenPlan, JobOnly, Present
  <2>2. GoneStay
    BY <2>1 DEF GoneStay
  <2> QED BY <1>1, <2>1, <2>2
<1>3. CASE DeleteAccount
  <2>1. /\ \A w \in Workers : at[w].pc # "locked"
        /\ \A j \in Jobs : job'[j].state = "gone"
        /\ \A o \in Occurrences :
              /\ occ'[o].job = occ[o].job
              /\ occ[o].status = "absent" => occ'[o].status = "absent"
              /\ occ[o].status # "absent" => occ'[o].status = "gone"
        /\ UNCHANGED <<exec, at, orphan>>
    BY <1>3 DEF DeleteAccount, IInv, TypeOK
  <2>2. Numbered'
    BY <2>1 DEF IInv, Numbered
  <2>3. ASSUME NEW w \in Workers PROVE Invocation(w)'
    <3>1. at[w] # Idle => at[w].occ \in Occurrences
      BY Moves DEF IInv
    <3> QED BY <2>1, <3>1 DEF IInv, Invocation
  <2>4. \A o \in Occurrences : Record(o)'
    BY <2>1 DEF IInv, Record
  <2>5. OneBlocks'
    BY <2>1 DEF IInv, OneBlocks, Blocks
  <2>6. SettledKept
    BY <2>1 DEF SettledKept, Settled
  <2> QED BY <2>2, <2>3, <2>4, <2>5, <2>6 DEF IInv
<1>4. ASSUME NEW o \in Occurrences, RunStops(o) \/ ResumeRun(o) PROVE IInv' /\ SettledKept
  <2>1. /\ exec[o] # "none" /\ exec'[o] \notin {"none", "active"}
        /\ \A p \in Occurrences \ {o} : exec'[p] = exec[p]
        /\ UNCHANGED <<job, occ, at, orphan>>
    BY <1>4 DEF RunStops, ResumeRun, IInv, TypeOK
  <2>2. Numbered' /\ SettledKept
    BY <2>1 DEF IInv, Numbered, SettledKept
  <2>3. ASSUME NEW w \in Workers PROVE Invocation(w)'
    <3>1. at[w] # Idle => at[w].occ \in Occurrences
      BY Moves DEF IInv
    <3>2. at[w].pc = "saved" => at[w] # Idle
      BY DEF Idle
    <3> QED BY <2>1, <3>1, <3>2 DEF IInv, Invocation
  <2>4. \A p \in Occurrences : Record(p)' /\ (Blocks(p)' => Blocks(p))
    BY <2>1 DEF IInv, Record, Blocks
  <2>5. OneBlocks'
    BY <2>1, <2>4 DEF IInv, OneBlocks
  <2> QED BY <2>2, <2>3, <2>4, <2>5 DEF IInv
<1>5. CASE UNCHANGED vars
  BY <1>1, <1>5 DEF vars, GoneStay
<1> QED BY <1>2, <1>3, <1>4, <1>5

(* Every step keeps the invariant and what is settled.                     *)
LEMMA NextStep == IInv /\ [Next]_vars => IInv' /\ SettledKept
<1> SUFFICES ASSUME IInv, [Next]_vars PROVE IInv' /\ SettledKept
  OBVIOUS
<1>1. TypeOK'
  BY TypeStep DEF IInv
<1>2. ASSUME NEW w \in Workers, Call(w) PROVE IInv' /\ SettledKept
  <2>1. ASSUME NEW j \in Jobs, ClaimDueRun(w, j) \/ RunJobNow(w, j) PROVE IInv' /\ SettledKept
    <3>1. Present(j) /\ GoneStay /\ \E m \in BOOLEAN : RecordOccurrence(w, j, m)
      BY <2>1 DEF ClaimDueRun, RunJobNow, Present, GoneStay, IInv, TypeOK
    <3> QED BY <1>1, <3>1, RecordStep
  <2> QED BY <1>1, <1>2, <2>1, CallStep DEF Call, ReplayRunNow, RecoverDispatch
<1> QED BY <1>1, <1>2, DispatchStep, OtherStep DEF Next

-----------------------------------------------------------------------------

(* Rows, requests and invocations agree.                                   *)
THEOREM Invariance == Spec => []IInv
BY InitInv, NextStep, PTL DEF Spec

(* What is recorded as failed or skipped was never executed and never will *)
(* be, whoever dispatched it meanwhile.                                    *)
THEOREM FailedIsFailed == Spec => []FailedNeverExecuted
<1>1. IInv => FailedNeverExecuted
  BY DEF IInv, Record, FailedNeverExecuted
<1> QED BY <1>1, Invariance, PTL

(* Executions of a job do not overlap, but for the orphans.                *)
THEOREM OneExecution == Spec => []NoOverlap
<1>1. IInv => NoOverlap
  BY DEF IInv, OneBlocks, Blocks, NoOverlap
<1> QED BY <1>1, Invariance, PTL

(* A settled record is changed by the invocation that submitted it only.   *)
THEOREM SettledStay == Spec => SettledStaysSettled
<1>1. IInv /\ [Next]_vars => [SettledKept]_vars
  BY NextStep
<1>2. [SettledKept]_vars =>
        [\A o \in Occurrences :
           occ[o].status \in Settled /\ occ'[o].status \notin {occ[o].status, "gone"} =>
             occ[o].status = "cancelled" /\ occ'[o].status = "submitted" /\ exec[o] # "none"]_vars
  BY DEF SettledKept
<1> QED BY <1>1, <1>2, Invariance, PTL DEF Spec, SettledStaysSettled
=============================================================================
