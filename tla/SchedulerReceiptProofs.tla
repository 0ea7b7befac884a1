------------------------ MODULE SchedulerReceiptProofs ------------------------
(***************************************************************************)
(* Theorems about SchedulerReceipt, for every set of handlers and keys and *)
(* every number of revisions and faults.                                   *)
(***************************************************************************)
EXTENDS SchedulerReceipt, TLAPS

-----------------------------------------------------------------------------
(* What the receipt and handler operators return *)

\* Each way a receipt is written gives a receipt.
LEMMA ReceiptTypes ==
    ASSUME NEW r \in Unfinished
    PROVE  /\ \A a \in Answers : Finished(r, a) \in Terminal
           /\ Released(r) \in Unfinished
           /\ [r EXCEPT !.frozen = TRUE] \in Unfinished
           /\ [r EXCEPT !.open = TRUE] \in Unfinished
<1>1. ASSUME NEW a \in Answers PROVE Finished(r, a) \in Terminal
  BY DEF Finished, Unfinished, Terminal
<1>2. Released(r) \in Unfinished
  BY DEF Released, Unfinished
<1>3. [r EXCEPT !.frozen = TRUE] \in Unfinished
  BY DEF Unfinished
<1>4. [r EXCEPT !.open = TRUE] \in Unfinished
  BY DEF Unfinished
<1> QED BY <1>1, <1>2, <1>3, <1>4

\* A claim gives one, of a receipt that is not finished or of none.
LEMMA ClaimedTypes ==
    ASSUME NEW r \in {NoReceipt} \cup Unfinished, NEW h \in Handlers,
           NEW revision \in Revisions
    PROVE  Claimed(r, h, revision) \in Unfinished
<1>1. CASE r = NoReceipt
  BY <1>1 DEF Claimed, NoReceipt, Unfinished
<1>2. CASE r \in Unfinished
  BY <1>2 DEF Claimed, Unfinished
<1> QED BY <1>1, <1>2

\* What the state of a receipt says of its other fields.
LEMMA StateTypes ==
    ASSUME NEW r \in Receipt
    PROVE  /\ r.state = "absent" <=> r = NoReceipt
           /\ r.state \in {"pending", "retryable"} <=> r \in Unfinished
           /\ r.state = "terminal" <=> r \in Terminal
<1>a. NoReceipt.state = "absent"
  BY DEF NoReceipt
<1>b. /\ \A x \in Unfinished : x.state \in {"pending", "retryable"}
      /\ \A x \in Terminal : x.state = "terminal"
  BY DEF Unfinished, Terminal
<1>1. CASE r = NoReceipt
  BY <1>1, <1>a, <1>b
<1>2. CASE r \in Unfinished
  BY <1>2, <1>a, <1>b
<1>3. CASE r \in Terminal
  BY <1>3, <1>a, <1>b
<1> QED BY <1>1, <1>2, <1>3 DEF Receipt

\* A handler that is at work has a callback.
LEMMA WorkingTypes ==
    ASSUME TypeOK, NEW h \in Handlers, handler[h].pc # "idle"
    PROVE  /\ handler[h] \in Working \cup Settling
           /\ handler[h].pc = "settling" => handler[h] \in Settling
           /\ handler[h].pc # "settling" => handler[h] \in Working
           /\ handler[h].key \in Keys
           /\ handler[h].revision \in Revisions
           /\ receipt[handler[h].key] \in Receipt
           /\ CallOf(h) \in Call
<1>1. handler[h] \in Handling
  BY DEF TypeOK
<1>2. handler[h] \in Working \cup Settling
  BY <1>1 DEF Handling, Resting
<1>3. handler[h].key \in Keys /\ handler[h].revision \in Revisions
  BY <1>2 DEF Working, Settling
<1>4. receipt[handler[h].key] \in Receipt
  BY <1>3 DEF TypeOK
<1>5. CallOf(h) \in Call
  BY <1>3 DEF CallOf, Call
<1>6. /\ handler[h].pc = "settling" => handler[h] \in Settling
      /\ handler[h].pc # "settling" => handler[h] \in Working
  BY <1>2 DEF Working, Settling
<1> QED BY <1>2, <1>3, <1>4, <1>5, <1>6

\* A handler that rests, or that goes on with the same callback.
LEMMA HandlerTypes ==
    ASSUME TypeOK, NEW h \in Handlers
    PROVE  /\ Rests(h) => handler' \in [Handlers -> Handling]
           /\ \A pc \in {"reading", "preparing", "accepting", "releasing"} :
                 handler[h] \in Working /\ Moves(h, pc) => handler' \in [Handlers -> Handling]
<1>1. ASSUME Rests(h) PROVE handler' \in [Handlers -> Handling]
  <2>1. Idle \in Handling
    BY DEF Idle, Resting, Handling
  <2> QED BY <1>1, <2>1 DEF TypeOK, Rests
<1>2. ASSUME NEW pc \in {"reading", "preparing", "accepting", "releasing"},
             handler[h] \in Working, Moves(h, pc)
      PROVE  handler' \in [Handlers -> Handling]
  <2>1. [handler[h] EXCEPT !.pc = pc] \in Working
    BY <1>2 DEF Working
  <2>2. [handler[h] EXCEPT !.pc = pc] \in Handling
    BY <2>1 DEF Handling
  <2>3. handler' = [handler EXCEPT ![h] = [handler[h] EXCEPT !.pc = pc]]
    BY <1>2 DEF Moves
  <2> QED BY <2>2, <2>3 DEF TypeOK
<1> QED BY <1>1, <1>2

-----------------------------------------------------------------------------
(* Types *)

LEMMA FaultTypes == faults \in 0..MaxFaults /\ Fault => faults' \in 0..MaxFaults
BY ConstantsAssumption DEF Fault

\* An answer that is sent, or lost, keeps the history's type.
LEMMA ToldTypes ==
    ASSUME TypeOK, NEW c \in Call, NEW a \in Answers, Tells(c, a)
    PROVE  told' \in [Call -> SUBSET Answers] /\ faults' \in 0..MaxFaults
<1>1. told[c] \in SUBSET Answers
  BY DEF TypeOK
<1>2. told[c] \cup {a} \in SUBSET Answers
  BY <1>1
<1> QED BY <1>2, FaultTypes DEF Tells, TypeOK

LEMMA InitTypes == Init => TypeOK
<1> SUFFICES ASSUME Init PROVE TypeOK
  OBVIOUS
<1>1. NoReceipt \in Receipt
  BY DEF Receipt
<1>2. receipt \in [Keys -> Receipt]
  BY <1>1 DEF Init
<1>3. task \in Task
  BY ConstantsAssumption DEF Init, Task, Revisions
<1>4. handler \in [Handlers -> Handling]
  BY DEF Init, Idle, Resting, Handling
<1>5. /\ queued \in Revisions \cup {NoRevision}
      /\ told \in [Call -> SUBSET Answers]
      /\ faults \in 0..MaxFaults
  BY ConstantsAssumption DEF Init
<1> QED BY <1>2, <1>3, <1>4, <1>5 DEF TypeOK

LEMMA ClaimTypes ==
    ASSUME TypeOK, NEW h \in Handlers, NEW c \in Call, Claim(h, c) PROVE TypeOK'
<1>1. c.key \in Keys /\ c.revision \in Revisions
  BY DEF Call
<1>2. receipt[c.key] \in Receipt
  BY <1>1 DEF TypeOK
<1>3. Claimed(receipt[c.key], h, c.revision) \in Receipt
  <2>1. receipt[c.key] \in {NoReceipt} \cup Unfinished
    BY <1>2, StateTypes DEF Claim, Available
  <2> QED BY <1>1, <2>1, ClaimedTypes DEF Receipt
<1>4. receipt' \in [Keys -> Receipt]
  BY <1>1, <1>3 DEF Claim, TypeOK
<1>5. PICK pc \in {"accepting", "reading"} :
        handler' = [handler EXCEPT ![h] =
                      [pc |-> pc, key |-> c.key, revision |-> c.revision, verdict |-> "none"]]
  BY DEF Claim
<1>6. [pc |-> pc, key |-> c.key, revision |-> c.revision, verdict |-> "none"] \in Handling
  BY <1>1 DEF Handling, Working
<1>7. handler' \in [Handlers -> Handling]
  BY <1>5, <1>6 DEF TypeOK
<1> QED BY <1>4, <1>7 DEF Claim, TypeOK

LEMMA VerdictTypes ==
    ASSUME NEW revision
    PROVE  /\ ReadVerdict(revision) \in Rejections \cup {"none"}
           /\ AcceptVerdict(revision) \in Answers
<1>1. ReadVerdict(revision) \in Rejections \cup {"none"}
  BY DEF ReadVerdict, Rejections
<1>2. AcceptVerdict(revision) \in Answers
  BY DEF AcceptVerdict, Answers, Rejections
<1> QED BY <1>1, <1>2

\* Every step of a handler keeps the types.
LEMMA StepTypes == ASSUME TypeOK, NEW h \in Handlers, Step(h) PROVE TypeOK'
<1> DEFINE k == handler[h].key
<1>1. handler[h].pc # "idle"
  BY DEF Step, ReadTask, Prepare, Accept, Settle, Release
<1>2. /\ k \in Keys /\ handler[h].revision \in Revisions
      /\ receipt[k] \in Receipt /\ CallOf(h) \in Call
  BY <1>1, WorkingTypes
<1>c. Current(h) => receipt[k] \in Unfinished
  BY <1>2, StateTypes DEF Current
<1>3. CASE ReadTask(h)
  <2> DEFINE v == ReadVerdict(handler[h].revision)
  <2>1. handler[h] \in Working
    BY <1>1, <1>3, WorkingTypes DEF ReadTask
  <2>2. v \in Rejections \cup {"none"}
    BY VerdictTypes
  <2> HIDE DEF v
  <2>3. PICK x \in Handling : handler' = [handler EXCEPT ![h] = x]
    <3>1. CASE v = "none"
      <4>1. [handler[h] EXCEPT !.pc = "preparing", !.verdict = v] \in Working
        BY <2>1, <3>1 DEF Working
      <4>2. handler' = [handler EXCEPT ![h] = [handler[h] EXCEPT !.pc = "preparing", !.verdict = v]]
        BY <1>3, <3>1 DEF ReadTask, v
      <4> QED BY <4>1, <4>2 DEF Handling
    <3>2. CASE v # "none"
      <4>1. v \in Rejections
        BY <2>2, <3>2
      <4>2. [handler[h] EXCEPT !.pc = "settling", !.verdict = v] \in Settling
        BY <2>1, <4>1 DEF Working, Settling
      <4>3. handler' = [handler EXCEPT ![h] = [handler[h] EXCEPT !.pc = "settling", !.verdict = v]]
        BY <1>3, <3>2 DEF ReadTask, v
      <4> QED BY <4>2, <4>3 DEF Handling
    <3> QED BY <3>1, <3>2
  <2>4. handler' \in [Handlers -> Handling]
    BY <2>3 DEF TypeOK
  <2> QED BY <1>3, <2>4 DEF ReadTask, TypeOK
<1>4. CASE Prepare(h)
  <2>1. handler' \in [Handlers -> Handling]
    BY <1>1, <1>4, HandlerTypes, WorkingTypes DEF Prepare
  <2>2. receipt' \in [Keys -> Receipt]
    <3>1. Current(h) => [receipt[k] EXCEPT !.frozen = TRUE] \in Receipt
      BY <1>c, ReceiptTypes DEF Receipt
    <3>2. \/ receipt' = receipt
          \/ Current(h) /\ receipt' = [receipt EXCEPT ![k] = [receipt[k] EXCEPT !.frozen = TRUE]]
      BY <1>4, <1>2 DEF Prepare, TypeOK
    <3> QED BY <1>2, <3>1, <3>2 DEF TypeOK
  <2> QED BY <1>4, <2>1, <2>2 DEF Prepare, TypeOK
<1>5. CASE Accept(h)
  <2> DEFINE v == AcceptVerdict(handler[h].revision)
  <2>1. handler' \in [Handlers -> Handling]
    BY <1>5, HandlerTypes DEF Accept
  <2>2. v \in Answers
    BY VerdictTypes
  <2>3. Current(h) => Finished(receipt[k], v) \in Receipt
    BY <1>c, <2>2, ReceiptTypes DEF Receipt
  <2> HIDE DEF v
  <2>4. \/ UNCHANGED <<receipt, queued, told, faults>>
        \/ /\ Current(h)
           /\ receipt' = [receipt EXCEPT ![k] = Finished(@, v)]
           /\ queued' \in {handler[h].revision, queued}
           /\ Tells(CallOf(h), v)
    BY <1>5 DEF Accept, v
  <2>5. receipt' \in [Keys -> Receipt] /\ queued' \in Revisions \cup {NoRevision}
    BY <1>2, <2>3, <2>4 DEF TypeOK
  <2>6. told' \in [Call -> SUBSET Answers] /\ faults' \in 0..MaxFaults
    BY <1>2, <2>2, <2>4, ToldTypes DEF TypeOK
  <2> QED BY <1>5, <2>1, <2>5, <2>6 DEF Accept, TypeOK
<1>6. CASE Settle(h)
  <2>1. handler' \in [Handlers -> Handling]
    BY <1>6, HandlerTypes DEF Settle
  <2>2. \/ UNCHANGED <<receipt, told, faults>>
        \/ /\ Current(h)
           /\ receipt' = [receipt EXCEPT ![k] = Finished(@, handler[h].verdict)]
           /\ Tells(CallOf(h), handler[h].verdict)
    BY <1>6 DEF Settle
  <2>3. handler[h].verdict \in Answers
    BY <1>1, <1>6, WorkingTypes DEF Settle, Settling, Answers
  <2>4. Current(h) => Finished(receipt[k], handler[h].verdict) \in Receipt
    BY <1>c, <2>3, ReceiptTypes DEF Receipt
  <2>5. receipt' \in [Keys -> Receipt]
    BY <1>2, <2>2, <2>4 DEF TypeOK
  <2>6. told' \in [Call -> SUBSET Answers] /\ faults' \in 0..MaxFaults
    BY <1>2, <2>2, <2>3, ToldTypes DEF TypeOK
  <2> QED BY <1>6, <2>1, <2>5, <2>6 DEF Settle, TypeOK
<1>7. CASE Release(h)
  <2>1. handler' \in [Handlers -> Handling]
    BY <1>7, HandlerTypes DEF Release
  <2>2. Current(h) => Released(receipt[k]) \in Receipt
    BY <1>c, ReceiptTypes DEF Receipt
  <2>3. receipt' \in [Keys -> Receipt]
    BY <1>2, <1>7, <2>2 DEF Release, TypeOK
  <2> QED BY <1>7, <2>1, <2>3 DEF Release, TypeOK
<1> QED BY <1>3, <1>4, <1>5, <1>6, <1>7 DEF Step

\* A failed read, a dead handler, a replay and the passing of time.
LEMMA FailureTypes ==
    ASSUME TypeOK, NEW h \in Handlers, ReadFails(h) \/ Die(h) PROVE TypeOK'
<1>1. handler' \in [Handlers -> Handling]
  BY HandlerTypes, WorkingTypes DEF ReadFails, Die
<1>2. faults' \in 0..MaxFaults
  BY FaultTypes DEF ReadFails, Die, TypeOK
<1> QED BY <1>1, <1>2 DEF ReadFails, Die, TypeOK

LEMMA TimeTypes == ASSUME TypeOK, NEW k \in Keys, TimePasses(k) PROVE TypeOK'
<1>1. receipt[k] \in Receipt
  BY DEF TypeOK
<1>2. [receipt[k] EXCEPT !.open = TRUE] \in Receipt
  BY <1>1, ReceiptTypes, StateTypes DEF TimePasses, Receipt
<1>3. receipt' = [receipt EXCEPT ![k] = [receipt[k] EXCEPT !.open = TRUE]]
  BY DEF TimePasses
<1>4. receipt' \in [Keys -> Receipt]
  BY <1>2, <1>3 DEF TypeOK
<1>5. faults' \in 0..MaxFaults
  BY FaultTypes DEF TimePasses, TypeOK
<1> QED BY <1>4, <1>5 DEF TimePasses, TypeOK

\* Every change of the task keeps its type and leaves the rest alone.
LEMMA TaskTypes ==
    ASSUME TypeOK, TaskChange PROVE task' \in Task /\ ChangesTask /\ TypeOK'
<1>1. task \in Task
  BY DEF TypeOK
<1>2. task' \in Task
  <2>1. CASE UpdateTask
    <3>1. PICK active, expired \in BOOLEAN :
            task' = [task EXCEPT !.revision = @ + 1, !.active = active, !.expired = expired]
      BY <2>1 DEF UpdateTask
    <3>2. task.revision + 1 \in Revisions
      BY <1>1, <2>1, ConstantsAssumption DEF UpdateTask, Task, Revisions
    <3>3. task' = [task EXCEPT !.revision = task.revision + 1, !.active = active,
                               !.expired = expired]
      BY <3>1
    <3> HIDE <3>1
    <3> QED BY <1>1, <3>2, <3>3, Zenon DEF Task
  <2>2. CASE FailTask
    BY <1>1, <2>2 DEF FailTask, Task
  <2>3. CASE DeleteTask
    BY <1>1, <2>3 DEF DeleteTask, Task
  <2>4. CASE ExpireTask
    BY <1>1, <2>4 DEF ExpireTask, Task
  <2> QED BY <2>1, <2>2, <2>3, <2>4 DEF TaskChange
<1>3. ChangesTask
  BY DEF TaskChange, UpdateTask, FailTask, DeleteTask, ExpireTask
<1> QED BY <1>2, <1>3 DEF ChangesTask, TypeOK

LEMMA ReplayTypes == ASSUME TypeOK, NEW c \in Call, Replay(c) PROVE TypeOK'
<1>1. c.key \in Keys
  BY DEF Call
<1>2. receipt[c.key] \in Receipt
  BY <1>1 DEF TypeOK
<1>3. receipt[c.key].answer \in Answers
  BY <1>2, StateTypes DEF Replay, Terminal
<1>4. told' \in [Call -> SUBSET Answers] /\ faults' \in 0..MaxFaults
  BY <1>3, ToldTypes DEF Replay
<1> QED BY <1>4 DEF Replay, TypeOK

LEMMA NextTypes == TypeOK /\ [Next]_vars => TypeOK'
<1> SUFFICES ASSUME TypeOK, [Next]_vars PROVE TypeOK'
  OBVIOUS
<1>1. ASSUME NEW c \in Call, Replay(c) PROVE TypeOK'
  BY <1>1, ReplayTypes
<1>2. ASSUME NEW c \in Call, NEW h \in Handlers, Claim(h, c) PROVE TypeOK'
  BY <1>2, ClaimTypes
<1>3. ASSUME NEW h \in Handlers, Step(h) PROVE TypeOK'
  BY <1>3, StepTypes
<1>4. ASSUME NEW h \in Handlers, ReadFails(h) \/ Die(h) PROVE TypeOK'
  BY <1>4, FailureTypes
<1>5. CASE TaskChange
  BY <1>5, TaskTypes
<1>6. ASSUME NEW k \in Keys, TimePasses(k) PROVE TypeOK'
  BY <1>6, TimeTypes
<1>7. CASE UNCHANGED vars
  BY <1>7 DEF vars, TypeOK
<1> QED BY <1>1, <1>2, <1>3, <1>4, <1>5, <1>6, <1>7 DEF Next

\* Type correctness.
THEOREM TypeCorrect == Spec => []TypeOK
<1>1. Init => TypeOK
  BY InitTypes
<1>2. TypeOK /\ [Next]_vars => TypeOK'
  BY NextTypes
<1> QED BY <1>1, <1>2, PTL DEF Spec

-----------------------------------------------------------------------------
(* What a step may do to a receipt and to a handler *)

\* A receipt keeps its payload, and a terminal one does not change at all.
Kept(r, s) == r # NoReceipt => /\ s # NoReceipt
                               /\ s.digest = r.digest
                               /\ r \in Terminal => s = r

\* The digest survives every way of writing a receipt that is not finished.
LEMMA WritesKeep ==
    ASSUME NEW r \in Unfinished
    PROVE  /\ \A a \in Answers : Kept(r, Finished(r, a)) /\ Finished(r, a).answer = a
           /\ Kept(r, Released(r)) /\ Released(r).answer = "none"
           /\ Kept(r, [r EXCEPT !.frozen = TRUE]) /\ [r EXCEPT !.frozen = TRUE].answer = "none"
           /\ Kept(r, [r EXCEPT !.open = TRUE]) /\ [r EXCEPT !.open = TRUE].answer = "none"
<1>1. r \in Receipt /\ r \notin Terminal /\ r # NoReceipt
  <2>1. r \in Receipt
    BY DEF Receipt
  <2>2. r.state \in {"pending", "retryable"}
    BY <2>1, StateTypes
  <2>3. r.state # "absent" /\ r.state # "terminal"
    BY <2>2
  <2> QED BY <2>1, <2>3, StateTypes
<1>2. \A x \in Unfinished \cup Terminal : x # NoReceipt
  <2>1. \A x \in Unfinished \cup Terminal : x.state # "absent" /\ x \in Receipt
    BY DEF Unfinished, Terminal, Receipt
  <2> QED BY <2>1, StateTypes
<1>3. ASSUME NEW a \in Answers PROVE Kept(r, Finished(r, a)) /\ Finished(r, a).answer = a
  <2>1. Finished(r, a) # NoReceipt
    BY <1>2, ReceiptTypes
  <2>2. Finished(r, a).digest = r.digest /\ Finished(r, a).answer = a
    BY DEF Finished, Unfinished
  <2> QED BY <1>1, <2>1, <2>2 DEF Kept
<1>4. Kept(r, Released(r)) /\ Released(r).answer = "none"
  <2>1. Released(r) # NoReceipt
    BY <1>2, ReceiptTypes
  <2>2. Released(r).digest = r.digest /\ Released(r).answer = "none"
    BY DEF Released, Unfinished
  <2> QED BY <1>1, <2>1, <2>2 DEF Kept
<1>5. Kept(r, [r EXCEPT !.frozen = TRUE]) /\ [r EXCEPT !.frozen = TRUE].answer = "none"
  <2>1. [r EXCEPT !.frozen = TRUE] # NoReceipt
    BY <1>2, ReceiptTypes
  <2>2. /\ [r EXCEPT !.frozen = TRUE].digest = r.digest
        /\ [r EXCEPT !.frozen = TRUE].answer = "none"
    BY DEF Unfinished
  <2> QED BY <1>1, <2>1, <2>2 DEF Kept
<1>6. Kept(r, [r EXCEPT !.open = TRUE]) /\ [r EXCEPT !.open = TRUE].answer = "none"
  <2>1. [r EXCEPT !.open = TRUE] # NoReceipt
    BY <1>2, ReceiptTypes
  <2>2. /\ [r EXCEPT !.open = TRUE].digest = r.digest
        /\ [r EXCEPT !.open = TRUE].answer = "none"
    BY DEF Unfinished
  <2> QED BY <1>1, <2>1, <2>2 DEF Kept
<1> QED BY <1>3, <1>4, <1>5, <1>6

\* A claim takes a receipt of its own payload, or an absent one.
LEMMA ClaimsKeep ==
    ASSUME TypeOK, NEW h \in Handlers, NEW c \in Call, Claim(h, c)
    PROVE  /\ receipt[c.key].answer = "none"
           /\ receipt'[c.key] \in Unfinished
           /\ receipt'[c.key].digest = c.revision
           /\ \A k \in Keys : k # c.key => receipt'[k] = receipt[k]
           /\ \A k \in Keys : Kept(receipt[k], receipt'[k])
<1> DEFINE r == receipt[c.key]
<1>1. c.key \in Keys /\ c.revision \in Revisions
  BY DEF Call
<1>2. r \in Receipt
  BY <1>1 DEF TypeOK
<1>3. r = NoReceipt \/ (r \in Unfinished /\ r.digest = c.revision)
  BY <1>2, StateTypes DEF Claim, Available
<1>4. receipt' = [receipt EXCEPT ![c.key] = Claimed(r, h, c.revision)]
  BY DEF Claim
<1>5. receipt'[c.key] = Claimed(r, h, c.revision)
  BY <1>1, <1>4 DEF TypeOK
<1>6. Claimed(r, h, c.revision) \in Unfinished
  BY <1>1, <1>3, ClaimedTypes
<1>7. Claimed(r, h, c.revision).digest = c.revision
  BY <1>3 DEF Claimed, NoReceipt, Unfinished
<1>8. r.answer = "none"
  BY <1>3 DEF NoReceipt, Unfinished
<1>9. \A k \in Keys : k # c.key => receipt'[k] = receipt[k]
  BY <1>1, <1>4 DEF TypeOK
<1>10. Kept(r, receipt'[c.key])
  <2>1. receipt'[c.key] \in Receipt
    BY <1>5, <1>6 DEF Receipt
  <2>2. receipt'[c.key] # NoReceipt
    <3>1. receipt'[c.key].state # "absent"
      BY <1>5, <1>6 DEF Unfinished
    <3> QED BY <2>1, <3>1, StateTypes
  <2>3. r # NoReceipt => r \notin Terminal
    <3>1. r \in Unfinished => r.state # "terminal"
      BY DEF Unfinished
    <3> QED BY <1>2, <1>3, <3>1, StateTypes
  <2> QED BY <1>3, <1>5, <1>7, <2>2, <2>3 DEF Kept
<1>11. \A k \in Keys : Kept(receipt[k], receipt'[k])
  BY <1>9, <1>10 DEF Kept
<1> QED BY <1>5, <1>6, <1>7, <1>8, <1>9, <1>11

\* What a handler's step makes of the receipts: one that is current is
\* frozen, released or finished, and the others stay.
LEMMA StepWrites ==
    ASSUME TypeOK, NEW h \in Handlers, Step(h)
    PROVE  LET k == handler[h].key IN
           /\ k \in Keys
           /\ \/ receipt' = receipt
              \/ /\ receipt[k] \in Unfinished
                 /\ \E s \in Receipt :
                       /\ receipt' = [receipt EXCEPT ![k] = s]
                       /\ Kept(receipt[k], s)
                       /\ s.answer = "accepted" => Accept(h)
<1> DEFINE k == handler[h].key
           Goal == \/ receipt' = receipt
                   \/ /\ receipt[k] \in Unfinished
                      /\ \E s \in Receipt :
                            /\ receipt' = [receipt EXCEPT ![k] = s]
                            /\ Kept(receipt[k], s)
                            /\ s.answer = "accepted" => Accept(h)
<1>1. handler[h].pc # "idle"
  BY DEF Step, ReadTask, Prepare, Accept, Settle, Release
<1>2. /\ k \in Keys /\ handler[h].revision \in Revisions
      /\ receipt[k] \in Receipt
  BY <1>1, WorkingTypes
<1>3. Current(h) => receipt[k] \in Unfinished
  BY <1>2, StateTypes DEF Current
<1> SUFFICES Goal
  BY <1>2
<1>4. CASE ReadTask(h)
  BY <1>4 DEF ReadTask
<1>5. CASE Prepare(h)
  <2>1. CASE ~Current(h)
    BY <1>5, <2>1 DEF Prepare
  <2>2. CASE Current(h)
    <3> DEFINE s == [receipt[k] EXCEPT !.frozen = TRUE]
    <3>1. s \in Receipt /\ Kept(receipt[k], s) /\ s.answer = "none"
      BY <1>3, <2>2, ReceiptTypes, WritesKeep DEF Receipt
    <3>2. receipt' = [receipt EXCEPT ![k] = s]
      BY <1>5, <2>2 DEF Prepare
    <3> HIDE DEF s
    <3> QED BY <1>3, <2>2, <3>1, <3>2
  <2> QED BY <2>1, <2>2
<1>6. CASE Accept(h)
  <2> DEFINE v == AcceptVerdict(handler[h].revision)
             s == Finished(receipt[k], v)
  <2>1. receipt' = receipt \/ (Current(h) /\ receipt' = [receipt EXCEPT ![k] = s])
    BY <1>6 DEF Accept
  <2>2. v \in Answers
    BY VerdictTypes
  <2> HIDE DEF v
  <2>3. CASE Current(h)
    <3>1. s \in Receipt /\ Kept(receipt[k], s)
      BY <1>3, <2>2, <2>3, ReceiptTypes, WritesKeep DEF Receipt
    <3> HIDE DEF s
    <3> QED BY <1>3, <1>6, <2>1, <2>3, <3>1
  <2> QED BY <2>1, <2>3
<1>7. CASE Settle(h)
  <2> DEFINE v == handler[h].verdict
             s == Finished(receipt[k], v)
  <2>1. receipt' = receipt \/ (Current(h) /\ receipt' = [receipt EXCEPT ![k] = s])
    BY <1>7 DEF Settle
  <2>2. v \in Rejections
    BY <1>1, <1>7, WorkingTypes DEF Settle, Settling
  <2>3. v \in Answers /\ v # "accepted"
    BY <2>2 DEF Answers, Rejections
  <2> HIDE DEF v
  <2>4. CASE Current(h)
    <3>1. s \in Receipt /\ Kept(receipt[k], s) /\ s.answer = v
      BY <1>3, <2>3, <2>4, ReceiptTypes, WritesKeep DEF Receipt
    <3> HIDE DEF s
    <3> QED BY <1>3, <2>1, <2>3, <2>4, <3>1
  <2> QED BY <2>1, <2>4
<1>8. CASE Release(h)
  <2>1. CASE ~Current(h)
    BY <1>8, <2>1 DEF Release
  <2>2. CASE Current(h)
    <3> DEFINE s == Released(receipt[k])
    <3>1. s \in Receipt /\ Kept(receipt[k], s) /\ s.answer = "none"
      BY <1>3, <2>2, ReceiptTypes, WritesKeep DEF Receipt
    <3>2. receipt' = [receipt EXCEPT ![k] = s]
      BY <1>8, <2>2 DEF Release
    <3> HIDE DEF s
    <3> QED BY <1>3, <2>2, <3>1, <3>2
  <2> QED BY <2>1, <2>2
<1> QED BY <1>4, <1>5, <1>6, <1>7, <1>8 DEF Step

\* Every step keeps every receipt.
LEMMA ReceiptsKept ==
    ASSUME TypeOK, [Next]_vars, NEW k \in Keys PROVE Kept(receipt[k], receipt'[k])
<1>1. CASE receipt' = receipt
  BY <1>1 DEF Kept
<1>2. ASSUME NEW c \in Call, NEW h \in Handlers, Claim(h, c)
      PROVE  Kept(receipt[k], receipt'[k])
  BY <1>2, ClaimsKeep
<1>3. ASSUME NEW h \in Handlers, Step(h) PROVE Kept(receipt[k], receipt'[k])
  <2> DEFINE x == handler[h].key
  <2>1. x \in Keys
    BY <1>3, StepWrites
  <2>2. CASE receipt' = receipt
    BY <1>1, <2>2
  <2>3. CASE receipt' # receipt
    <3>1. PICK s \in Receipt : receipt' = [receipt EXCEPT ![x] = s] /\ Kept(receipt[x], s)
      BY <1>3, <2>3, StepWrites
    <3>2. CASE k = x
      BY <2>1, <3>1, <3>2 DEF TypeOK
    <3>3. CASE k # x
      <4>1. receipt'[k] = receipt[k]
        BY <2>1, <3>1, <3>3 DEF TypeOK
      <4> QED BY <4>1 DEF Kept
    <3> QED BY <3>2, <3>3
  <2> QED BY <2>2, <2>3
<1>4. ASSUME NEW x \in Keys, TimePasses(x) PROVE Kept(receipt[k], receipt'[k])
  <2> DEFINE s == [receipt[x] EXCEPT !.open = TRUE]
  <2>1. receipt[x] \in Unfinished
    BY <1>4, StateTypes DEF TimePasses, TypeOK
  <2>2. Kept(receipt[x], s)
    BY <2>1, WritesKeep
  <2>3. receipt' = [receipt EXCEPT ![x] = s]
    BY <1>4 DEF TimePasses
  <2> HIDE DEF s
  <2>4. CASE k = x
    BY <2>2, <2>3, <2>4 DEF TypeOK
  <2>5. CASE k # x
    <3>1. receipt'[k] = receipt[k]
      BY <2>3, <2>5 DEF TypeOK
    <3> QED BY <3>1 DEF Kept
  <2> QED BY <2>4, <2>5
<1>5. \/ receipt' = receipt
      \/ \E c \in Call, h \in Handlers : Claim(h, c)
      \/ \E h \in Handlers : Step(h)
      \/ \E x \in Keys : TimePasses(x)
  BY DEF Next, Replay, ReadFails, Die, TaskChange, UpdateTask, FailTask, DeleteTask,
         ExpireTask, ChangesTask, vars
<1> QED BY <1>1, <1>2, <1>3, <1>4, <1>5

\* A handler rests, goes on with its callback, or claims for a new one.
LEMMA HandlerSteps ==
    ASSUME TypeOK, [Next]_vars, NEW h \in Handlers
    PROVE  \/ handler'[h].pc = "idle"
           \/ /\ handler[h].pc # "idle"
              /\ handler'[h].key = handler[h].key
              /\ handler'[h].revision = handler[h].revision
           \/ \E c \in Call : /\ Claim(h, c)
                             /\ handler'[h].key = c.key
                             /\ handler'[h].revision = c.revision
<1> DEFINE Goal == \/ handler'[h].pc = "idle"
                   \/ /\ handler[h].pc # "idle"
                      /\ handler'[h].key = handler[h].key
                      /\ handler'[h].revision = handler[h].revision
                   \/ \E c \in Call : /\ Claim(h, c)
                                     /\ handler'[h].key = c.key
                                     /\ handler'[h].revision = c.revision
<1> SUFFICES Goal
  OBVIOUS
<1>0. handler \in [Handlers -> Handling]
  BY DEF TypeOK
<1>1. CASE handler'[h] = handler[h]
  BY <1>1
<1>2. ASSUME NEW g \in Handlers, Rests(g) PROVE Goal
  <2>1. CASE g = h
    BY <1>0, <1>2, <2>1 DEF Rests, Idle
  <2>2. CASE g # h
    BY <1>0, <1>1, <1>2, <2>2 DEF Rests
  <2> QED BY <2>1, <2>2
<1>3. ASSUME NEW g \in Handlers, NEW pc, handler[g].pc # "idle", Moves(g, pc) PROVE Goal
  <2>1. CASE g = h
    <3>1. handler[h] \in Working \cup Settling
      BY <1>3, <2>1, WorkingTypes
    <3>2. handler'[h] = [handler[h] EXCEPT !.pc = pc]
      BY <1>0, <1>3, <2>1 DEF Moves
    <3>3. handler'[h].key = handler[h].key /\ handler'[h].revision = handler[h].revision
      BY <3>1, <3>2 DEF Working, Settling
    <3> QED BY <1>3, <2>1, <3>3
  <2>2. CASE g # h
    BY <1>0, <1>1, <1>3, <2>2 DEF Moves
  <2> QED BY <2>1, <2>2
<1>4. ASSUME NEW g \in Handlers, ReadTask(g) PROVE Goal
  <2>1. PICK pc, v : handler' = [handler EXCEPT ![g].pc = pc, ![g].verdict = v]
    BY <1>4 DEF ReadTask
  <2>2. CASE g = h
    <3>1. handler[h] \in Working
      BY <1>4, <2>2, WorkingTypes DEF ReadTask
    <3>2. handler'[h] = [handler[h] EXCEPT !.pc = pc, !.verdict = v]
      BY <1>0, <2>1, <2>2
    <3>3. handler'[h].key = handler[h].key /\ handler'[h].revision = handler[h].revision
      BY <3>1, <3>2 DEF Working
    <3> QED BY <1>4, <2>2, <3>3 DEF ReadTask
  <2>3. CASE g # h
    BY <1>0, <1>1, <2>1, <2>3
  <2> QED BY <2>2, <2>3
<1>5. ASSUME NEW g \in Handlers, NEW c \in Call, Claim(g, c) PROVE Goal
  <2>1. PICK pc : handler' = [handler EXCEPT ![g] =
                    [pc |-> pc, key |-> c.key, revision |-> c.revision, verdict |-> "none"]]
    BY <1>5 DEF Claim
  <2>2. CASE g = h
    BY <1>0, <1>5, <2>1, <2>2
  <2>3. CASE g # h
    BY <1>0, <1>1, <2>1, <2>3
  <2> QED BY <2>2, <2>3
<1>6. ASSUME NEW g \in Handlers, Step(g) PROVE Goal
  <2>1. CASE ReadTask(g)
    BY <1>4, <2>1
  <2>2. CASE Prepare(g)
    BY <1>2, <1>3, <2>2 DEF Prepare
  <2>3. CASE Accept(g) \/ Settle(g) \/ Release(g)
    BY <1>2, <2>3 DEF Accept, Settle, Release
  <2> QED BY <1>6, <2>1, <2>2, <2>3 DEF Step
<1>7. ASSUME NEW g \in Handlers, ReadFails(g) \/ Die(g) PROVE Goal
  BY <1>2, <1>3, <1>7 DEF ReadFails, Die
<1>8. \/ handler' = handler
      \/ \E g \in Handlers, c \in Call : Claim(g, c)
      \/ \E g \in Handlers : Step(g) \/ ReadFails(g) \/ Die(g)
  BY DEF Next, Replay, TaskChange, UpdateTask, FailTask, DeleteTask, ExpireTask, ChangesTask,
         TimePasses, vars
<1> HIDE DEF Goal
<1>9. CASE handler' = handler
  BY <1>1, <1>9
<1> QED BY <1>5, <1>6, <1>7, <1>8, <1>9

-----------------------------------------------------------------------------
(* The inductive invariant *)

\* A handler at work has a claim on the receipt of its callback, or had one:
\* the receipt carries the callback's payload.
ClaimInv ==
    \A h \in Handlers : handler[h].pc # "idle" =>
        /\ receipt[handler[h].key] # NoReceipt
        /\ receipt[handler[h].key].digest = handler[h].revision

LEMMA ClaimStays == TypeOK /\ ClaimInv /\ [Next]_vars => ClaimInv'
<1> SUFFICES ASSUME TypeOK, ClaimInv, [Next]_vars, NEW h \in Handlers, handler'[h].pc # "idle"
             PROVE  /\ receipt'[handler'[h].key] # NoReceipt
                    /\ receipt'[handler'[h].key].digest = handler'[h].revision
  BY DEF ClaimInv
<1>1. CASE /\ handler[h].pc # "idle"
           /\ handler'[h].key = handler[h].key
           /\ handler'[h].revision = handler[h].revision
  <2>1. handler[h].key \in Keys
    BY <1>1, WorkingTypes
  <2>2. Kept(receipt[handler[h].key], receipt'[handler[h].key])
    BY <2>1, ReceiptsKept
  <2>3. /\ receipt[handler[h].key] # NoReceipt
        /\ receipt[handler[h].key].digest = handler[h].revision
    BY <1>1 DEF ClaimInv
  <2> QED BY <1>1, <2>2, <2>3 DEF Kept
<1>2. ASSUME NEW c \in Call, Claim(h, c), handler'[h].key = c.key,
             handler'[h].revision = c.revision
      PROVE  /\ receipt'[handler'[h].key] # NoReceipt
             /\ receipt'[handler'[h].key].digest = handler'[h].revision
  <2>1. receipt'[c.key] \in Unfinished /\ receipt'[c.key].digest = c.revision
    BY <1>2, ClaimsKeep
  <2>2. receipt'[c.key] \in Receipt /\ receipt'[c.key].state # "absent"
    BY <2>1 DEF Receipt, Unfinished
  <2>3. receipt'[c.key] # NoReceipt
    BY <2>2, StateTypes
  <2> QED BY <1>2, <2>1, <2>3
<1> QED BY <1>1, <1>2, HandlerSteps

\* A sent answer is added to those of its callback.
LEMMA TellsAdds ==
    ASSUME TypeOK, NEW c \in Call, NEW a, Tells(c, a), NEW d \in Call, NEW b \in told'[d]
    PROVE  b \in told[d] \/ (d = c /\ b = a)
<1>1. CASE told' = told
  BY <1>1
<1>2. CASE told' = [told EXCEPT ![c] = @ \cup {a}]
  <2>1. CASE d = c
    <3>1. told'[d] = told[d] \cup {a}
      BY <1>2, <2>1 DEF TypeOK
    <3> QED BY <2>1, <3>1
  <2>2. CASE d # c
    BY <1>2, <2>2 DEF TypeOK
  <2> QED BY <2>1, <2>2
<1> QED BY <1>1, <1>2 DEF Tells

\* The receipt of a handler's callback, finished with an answer.
LEMMA FinishedReceipt ==
    ASSUME TypeOK, ClaimInv, NEW h \in Handlers, handler[h].pc # "idle", Current(h),
           NEW a \in Answers,
           receipt' = [receipt EXCEPT ![handler[h].key] = Finished(@, a)]
    PROVE  /\ receipt'[handler[h].key].state = "terminal"
           /\ receipt'[handler[h].key].digest = handler[h].revision
           /\ receipt'[handler[h].key].answer = a
<1> DEFINE k == handler[h].key
<1>1. k \in Keys /\ receipt[k] \in Receipt
  BY WorkingTypes
<1>2. receipt[k] \in Unfinished
  BY <1>1, StateTypes DEF Current
<1>3. receipt[k].digest = handler[h].revision
  BY DEF ClaimInv
<1>4. receipt'[k] = Finished(receipt[k], a)
  BY <1>1 DEF TypeOK
<1>5. \A r \in Unfinished : /\ Finished(r, a).state = "terminal"
                            /\ Finished(r, a).digest = r.digest
                            /\ Finished(r, a).answer = a
  BY DEF Finished, Unfinished
<1> QED BY <1>2, <1>3, <1>4, <1>5

\* What a callback is newly told is what its receipt then says.
LEMMA ToldSteps ==
    ASSUME TypeOK, ClaimInv, [Next]_vars, NEW d \in Call, NEW b \in told'[d]
    PROVE  \/ b \in told[d]
           \/ /\ receipt'[d.key].state = "terminal"
              /\ receipt'[d.key].digest = d.revision
              /\ receipt'[d.key].answer = b
<1> DEFINE Goal == \/ b \in told[d]
                   \/ /\ receipt'[d.key].state = "terminal"
                      /\ receipt'[d.key].digest = d.revision
                      /\ receipt'[d.key].answer = b
<1> SUFFICES Goal
  OBVIOUS
<1>1. CASE told' = told
  BY <1>1
<1>2. ASSUME NEW c \in Call, Replay(c) PROVE Goal
  <2>1. b \in told[d] \/ (d = c /\ b = receipt[c.key].answer)
    BY <1>2, TellsAdds DEF Replay
  <2> QED BY <1>2, <2>1 DEF Replay
<1>3. ASSUME NEW h \in Handlers, handler[h].pc # "idle", Current(h), NEW a \in Answers,
             receipt' = [receipt EXCEPT ![handler[h].key] = Finished(@, a)],
             Tells(CallOf(h), a)
      PROVE  Goal
  <2>1. CallOf(h) \in Call
    BY <1>3, WorkingTypes
  <2>2. b \in told[d] \/ (d = CallOf(h) /\ b = a)
    BY <1>3, <2>1, TellsAdds
  <2>3. /\ receipt'[handler[h].key].state = "terminal"
        /\ receipt'[handler[h].key].digest = handler[h].revision
        /\ receipt'[handler[h].key].answer = a
    BY <1>3, FinishedReceipt
  <2> QED BY <2>2, <2>3 DEF CallOf
<1>4. ASSUME NEW h \in Handlers, Accept(h) PROVE Goal
  <2> DEFINE v == AcceptVerdict(handler[h].revision)
  <2>1. \/ told' = told
        \/ /\ Current(h)
           /\ receipt' = [receipt EXCEPT ![handler[h].key] = Finished(@, v)]
           /\ Tells(CallOf(h), v)
    BY <1>4 DEF Accept
  <2>2. v \in Answers /\ handler[h].pc # "idle"
    BY <1>4, VerdictTypes DEF Accept
  <2> HIDE DEF v, Goal
  <2> QED BY <1>1, <1>3, <2>1, <2>2
<1>5. ASSUME NEW h \in Handlers, Settle(h) PROVE Goal
  <2> DEFINE v == handler[h].verdict
  <2>1. \/ told' = told
        \/ /\ Current(h)
           /\ receipt' = [receipt EXCEPT ![handler[h].key] = Finished(@, v)]
           /\ Tells(CallOf(h), v)
    BY <1>5 DEF Settle
  <2>2. handler[h].pc # "idle" /\ v \in Answers
    BY <1>5, WorkingTypes DEF Settle, Settling, Answers
  <2> HIDE DEF v, Goal
  <2> QED BY <1>1, <1>3, <2>1, <2>2
<1> HIDE DEF Goal
<1>6. ASSUME NEW h \in Handlers, Step(h) PROVE Goal
  BY <1>1, <1>4, <1>5, <1>6 DEF Step, ReadTask, Prepare, Release
<1>7. \/ told' = told
      \/ \E c \in Call : Replay(c)
      \/ \E h \in Handlers : Step(h)
  BY DEF Next, Claim, ReadFails, Die, TaskChange, UpdateTask, FailTask, DeleteTask, ExpireTask,
         ChangesTask, TimePasses, vars
<1> QED BY <1>1, <1>2, <1>6, <1>7

LEMMA OneVerdictStays == TypeOK /\ ClaimInv /\ OneVerdict /\ [Next]_vars => OneVerdict'
<1> SUFFICES ASSUME TypeOK, ClaimInv, OneVerdict, [Next]_vars,
                    NEW d \in Call, NEW b \in told'[d]
             PROVE  /\ receipt'[d.key].state = "terminal"
                    /\ receipt'[d.key].digest = d.revision
                    /\ receipt'[d.key].answer = b
  BY DEF OneVerdict
<1>1. CASE b \in told[d]
  <2>1. d.key \in Keys
    BY DEF Call
  <2>2. receipt[d.key] \in Receipt
    BY <2>1 DEF TypeOK
  <2>3. /\ receipt[d.key].state = "terminal"
        /\ receipt[d.key].digest = d.revision
        /\ receipt[d.key].answer = b
    BY <1>1 DEF OneVerdict
  <2>4. receipt[d.key] \in Terminal /\ receipt[d.key] # NoReceipt
    <3>1. receipt[d.key].state # "absent"
      BY <2>3
    <3> QED BY <2>2, <2>3, <3>1, StateTypes
  <2>5. receipt'[d.key] = receipt[d.key]
    BY <2>1, <2>4, ReceiptsKept DEF Kept
  <2> QED BY <2>3, <2>5
<1> QED BY <1>1, ToldSteps

\* Only the acceptance of the occurrence touches its row, or accepts a receipt.
LEMMA QueueSteps ==
    ASSUME TypeOK, [Next]_vars
    PROVE  \/ \E h \in Handlers : Accept(h)
           \/ /\ queued' = queued
              /\ \A k \in Keys : receipt'[k].answer = "accepted"
                                    => receipt[k].answer = "accepted"
<1> DEFINE Same == \A k \in Keys : receipt'[k].answer = "accepted"
                                        => receipt[k].answer = "accepted"
           Goal == (\E h \in Handlers : Accept(h)) \/ (queued' = queued /\ Same)
<1> SUFFICES Goal
  OBVIOUS
<1>1. CASE receipt' = receipt /\ queued' = queued
  BY <1>1
<1>2. ASSUME NEW c \in Call, NEW h \in Handlers, Claim(h, c) PROVE Goal
  <2>1. receipt'[c.key] \in Unfinished
    BY <1>2, ClaimsKeep
  <2>2. receipt'[c.key].answer # "accepted"
    BY <2>1 DEF Unfinished
  <2>3. \A k \in Keys : k # c.key => receipt'[k] = receipt[k]
    BY <1>2, ClaimsKeep
  <2>4. queued' = queued
    BY <1>2 DEF Claim
  <2> QED BY <2>2, <2>3, <2>4
<1>3. ASSUME NEW h \in Handlers, Step(h), ~Accept(h) PROVE Goal
  <2> DEFINE x == handler[h].key
  <2>1. queued' = queued
    BY <1>3 DEF Step, ReadTask, Prepare, Settle, Release
  <2>2. CASE receipt' = receipt
    BY <1>1, <2>1, <2>2
  <2>3. CASE receipt' # receipt
    <3>1. x \in Keys
      BY <1>3, StepWrites
    <3>2. PICK s \in Receipt : /\ receipt' = [receipt EXCEPT ![x] = s]
                              /\ s.answer # "accepted"
      BY <1>3, <2>3, StepWrites
    <3>3. Same
      BY <3>1, <3>2 DEF TypeOK
    <3> QED BY <2>1, <3>3
  <2> QED BY <2>2, <2>3
<1>4. ASSUME NEW x \in Keys, TimePasses(x) PROVE Goal
  <2> DEFINE s == [receipt[x] EXCEPT !.open = TRUE]
  <2>1. receipt[x] \in Unfinished
    BY <1>4, StateTypes DEF TimePasses, TypeOK
  <2>2. s.answer = "none"
    BY <2>1, WritesKeep
  <2>3. receipt' = [receipt EXCEPT ![x] = s] /\ queued' = queued
    BY <1>4 DEF TimePasses
  <2> HIDE DEF s
  <2>4. Same
    BY <2>2, <2>3 DEF TypeOK
  <2> QED BY <2>3, <2>4
<1>5. \/ receipt' = receipt /\ queued' = queued
      \/ \E c \in Call, h \in Handlers : Claim(h, c)
      \/ \E h \in Handlers : Step(h)
      \/ \E x \in Keys : TimePasses(x)
  BY DEF Next, Replay, ReadFails, Die, TaskChange, UpdateTask, FailTask, DeleteTask,
         ExpireTask, ChangesTask, vars
<1>6. ASSUME NEW h \in Handlers, Accept(h) PROVE Goal
  BY <1>6
<1> HIDE DEF Goal
<1> QED BY <1>1, <1>2, <1>3, <1>4, <1>5, <1>6

LEMMA QueuedStays ==
    TypeOK /\ ClaimInv /\ QueuedIffAccepted /\ [Next]_vars => QueuedIffAccepted'
<1> SUFFICES ASSUME TypeOK, ClaimInv, QueuedIffAccepted, [Next]_vars PROVE QueuedIffAccepted'
  OBVIOUS
<1>t. \A k \in Keys : receipt[k].answer = "accepted"
          => receipt[k] # NoReceipt /\ receipt[k] \in Terminal /\ receipt[k].digest \in Revisions
  <2> SUFFICES ASSUME NEW k \in Keys, receipt[k].answer = "accepted"
               PROVE  /\ receipt[k] # NoReceipt /\ receipt[k] \in Terminal
                      /\ receipt[k].digest \in Revisions
    OBVIOUS
  <2>1. receipt[k] \in Receipt
    BY DEF TypeOK
  <2>2. NoReceipt.answer = "none"
    BY DEF NoReceipt
  <2>3. receipt[k] \notin Unfinished
    BY DEF Unfinished
  <2>4. receipt[k] # NoReceipt
    BY <2>2
  <2>5. receipt[k] \in Terminal
    BY <2>1, <2>3, <2>4 DEF Receipt
  <2> QED BY <2>4, <2>5 DEF Terminal
<1>r. NoRevision \notin Revisions
  BY DEF NoRevision, Revisions
<1>1. CASE /\ queued' = queued
           /\ \A k \in Keys : receipt'[k].answer = "accepted" => receipt[k].answer = "accepted"
  <2>1. ASSUME NEW k \in Keys, receipt[k].answer = "accepted" PROVE receipt'[k] = receipt[k]
    BY <1>t, <2>1, ReceiptsKept DEF Kept
  <2>2. ASSUME NEW k \in Keys, receipt'[k].answer = "accepted"
        PROVE  receipt'[k].digest = queued'
    BY <1>1, <2>1, <2>2 DEF QueuedIffAccepted
  <2>3. ASSUME queued' # NoRevision PROVE \E k \in Keys : receipt'[k].answer = "accepted"
    BY <1>1, <2>1, <2>3 DEF QueuedIffAccepted
  <2> QED BY <2>2, <2>3 DEF QueuedIffAccepted
<1>2. ASSUME NEW h \in Handlers, Accept(h) PROVE QueuedIffAccepted'
  <2> DEFINE x == handler[h].key
             revision == handler[h].revision
             v == AcceptVerdict(revision)
  <2>1. handler[h].pc # "idle"
    BY <1>2 DEF Accept
  <2>2. x \in Keys /\ revision \in Revisions /\ v \in Answers
    BY <2>1, WorkingTypes, VerdictTypes
  <2>3. CASE receipt' = receipt /\ queued' = queued
    BY <1>1, <2>3
  <2>4. CASE ~(receipt' = receipt /\ queued' = queued)
    <3>1. /\ Current(h) /\ (v = "accepted" => Queueable(revision))
          /\ receipt' = [receipt EXCEPT ![x] = Finished(@, v)]
          /\ queued' = IF v = "accepted" /\ queued = NoRevision THEN revision ELSE queued
      BY <1>2, <2>4 DEF Accept
    <3> HIDE DEF v
    <3>2. receipt'[x].digest = revision /\ receipt'[x].answer = v
      BY <2>1, <2>2, <3>1, FinishedReceipt
    <3>3. \A k \in Keys : k # x => receipt'[k] = receipt[k]
      BY <3>1 DEF TypeOK
    <3>4. CASE v # "accepted"
      <4>1. /\ queued' = queued
            /\ \A k \in Keys : receipt'[k].answer = "accepted" => receipt[k].answer = "accepted"
        BY <3>1, <3>2, <3>3, <3>4
      <4> QED BY <1>1, <4>1
    <3>5. CASE v = "accepted"
      <4>1. queued' = revision
        BY <3>1, <3>5 DEF Queueable
      <4>2. ASSUME NEW k \in Keys, receipt'[k].answer = "accepted"
            PROVE  receipt'[k].digest = queued'
        <5>1. CASE k = x
          BY <3>2, <4>1, <5>1
        <5>2. CASE k # x
          <6>1. receipt[k].answer = "accepted" /\ receipt'[k].digest = receipt[k].digest
            BY <3>3, <4>2, <5>2
          <6>2. receipt[k].digest = queued /\ queued \in Revisions
            BY <1>t, <6>1 DEF QueuedIffAccepted
          <6>3. queued # NoRevision
            BY <1>r, <6>2
          <6> QED BY <3>1, <6>1, <6>2, <6>3
        <5> QED BY <5>1, <5>2
      <4>3. \E k \in Keys : receipt'[k].answer = "accepted"
        BY <2>2, <3>2, <3>5
      <4>4. \A k \in Keys : receipt'[k].answer = "accepted" => receipt'[k].digest = queued'
        BY <4>2
      <4> HIDE DEF x, revision
      <4> QED BY <4>3, <4>4 DEF QueuedIffAccepted
    <3> QED BY <3>4, <3>5
  <2> QED BY <2>3, <2>4
<1> QED BY <1>1, <1>2, QueueSteps

\* Types, the claims of the handlers at work, one verdict per callback, and the
\* row with the receipts that accepted it.
IInv == TypeOK /\ ClaimInv /\ OneVerdict /\ QueuedIffAccepted

\* The inductive invariant holds always.
THEOREM Invariance == Spec => []IInv
<1>1. Init => IInv
  <2> SUFFICES ASSUME Init PROVE IInv
    OBVIOUS
  <2>1. TypeOK
    BY InitTypes
  <2>2. ClaimInv
    BY DEF Init, Idle, ClaimInv
  <2>3. OneVerdict
    BY DEF Init, OneVerdict
  <2>4. QueuedIffAccepted
    <3>1. NoReceipt.answer = "none"
      BY DEF NoReceipt
    <3> QED BY <3>1 DEF Init, QueuedIffAccepted
  <2> QED BY <2>1, <2>2, <2>3, <2>4 DEF IInv
<1>2. IInv /\ [Next]_vars => IInv'
  BY NextTypes, ClaimStays, OneVerdictStays, QueuedStays DEF IInv
<1> QED BY <1>1, <1>2, PTL DEF Spec

\* All final answers to a callback are the one in its receipt, whatever
\* deliveries overlap (scheduler-dispatch-receipt-repository.ts, claim and complete).
THEOREM OneVerdictAlways == Spec => []OneVerdict
<1>1. IInv => OneVerdict
  BY DEF IInv
<1> QED BY <1>1, Invariance, PTL

\* The occurrence's row and the receipts that accepted it agree
\* (scheduled-agent-dispatch-repository.ts, accept).
THEOREM QueuedAsAccepted == Spec => []QueuedIffAccepted
<1>1. IInv => QueuedIffAccepted
  BY DEF IInv
<1> QED BY <1>1, Invariance, PTL

\* An occurrence is queued once, from the current revision of an active task
\* (scheduled-agent-dispatch-repository.ts, accept).
THEOREM QueuedOnceWhileActive == Spec => QueuedWhileActive
<1>1. [Next]_vars => [queued' # queued =>
                        /\ queued = NoRevision
                        /\ task.present /\ task.active /\ task.revision = queued']_vars
  <2> SUFFICES ASSUME Next, queued' # queued
               PROVE  /\ queued = NoRevision
                      /\ task.present /\ task.active /\ task.revision = queued'
    OBVIOUS
  <2>1. PICK h \in Handlers : Accept(h)
    BY DEF Next, Replay, Claim, Step, ReadTask, Prepare, Settle, Release, ReadFails, Die,
           TaskChange, UpdateTask, FailTask, DeleteTask, ExpireTask, ChangesTask, TimePasses
  <2> DEFINE v == AcceptVerdict(handler[h].revision)
  <2>2. v = "accepted" /\ queued = NoRevision /\ queued' = handler[h].revision
    BY <2>1 DEF Accept
  <2>3. task.present /\ task.active /\ task.revision = handler[h].revision
    BY <2>2 DEF AcceptVerdict
  <2> QED BY <2>2, <2>3
<1> QED BY <1>1, PTL DEF Spec, QueuedWhileActive
=============================================================================
