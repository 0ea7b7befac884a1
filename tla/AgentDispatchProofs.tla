------------------------- MODULE AgentDispatchProofs -------------------------
(***************************************************************************)
(* Theorems about AgentDispatch, for every set of conversations, turns and *)
(* workers, every attempt budget and every number of faults.               *)
(***************************************************************************)
EXTENDS AgentDispatch, TLAPS

-----------------------------------------------------------------------------
(* What the row, stream and ledger operators return *)

\* A fresh row, a claimed row and the rows a settlement or a deletion leaves
\* are rows.
LEMMA RowTypes ==
    /\ \A n \in Nat : NewRow(n) \in Row
    /\ \A row \in Row : [row EXCEPT !.elapsed = TRUE] \in Row
    /\ \A row \in Row, w \in Workers : ClaimedRow(row, w) \in Row
    /\ \A row \in Row, s \in Open \cup Closed : Unleased(row, s) \in Row
    /\ \A row \in Row : UnknownRow(row) \in Row
    /\ \A row \in Row : TerminalRow(row) \in Row
    /\ \A row \in Row : DeletedRow(row) \in Row
<1>1. ASSUME NEW n \in Nat PROVE NewRow(n) \in Row
  BY ConstantsAssumption DEF Row, NewRow, AbsentRow, Open
<1>2. ASSUME NEW row \in Row PROVE [row EXCEPT !.elapsed = TRUE] \in Row
  BY DEF Row
<1>3. ASSUME NEW row \in Row, NEW w \in Workers PROVE ClaimedRow(row, w) \in Row
  <2>1. row.fence + 1 \in Nat /\ row.attempts + 1 \in Nat /\ (row.unknown \/ row.status = "leased") \in BOOLEAN
    BY DEF Row
  <2> QED BY <2>1 DEF Row, ClaimedRow, Open
<1>4. ASSUME NEW row \in Row, NEW s \in Open \cup Closed PROVE Unleased(row, s) \in Row
  BY DEF Row, Unleased
<1>5. ASSUME NEW row \in Row PROVE UnknownRow(row) \in Row
  <2>1. Unleased(row, "retryable") \in Row
    BY <1>4 DEF Open
  <2> QED BY <2>1 DEF Row, UnknownRow
<1>6. ASSUME NEW row \in Row, NEW s \in Closed PROVE [Unleased(row, s) EXCEPT !.fence = @ + 1] \in Row
  <2>1. Unleased(row, s) \in Row
    BY <1>4
  <2> HIDE DEF Unleased
  <2> QED BY <2>1 DEF Row
<1>7. \A row \in Row : TerminalRow(row) \in Row
  BY <1>6 DEF TerminalRow, Closed
<1>8. ASSUME NEW row \in Row PROVE DeletedRow(row) \in Row
  <2>1. row.fence + 1 \in Nat /\ (row.status = "leased" \/ row.elapsed) \in BOOLEAN
    BY DEF Row
  <2>2. [row EXCEPT !.status = "retryable", !.unknown = TRUE, !.holder = NoWorker,
                    !.fence = @ + 1, !.elapsed = row.status = "leased" \/ @] \in Row
    BY <2>1 DEF Row, Open
  <2>3. [Unleased(row, "failed") EXCEPT !.fence = @ + 1] \in Row
    BY <1>6 DEF Closed
  <2> QED BY <2>2, <2>3 DEF DeletedRow
<1> QED BY <1>1, <1>2, <1>3, <1>4, <1>5, <1>7, <1>8

\* Registration, failure and projection keep the run columns well typed.
LEMMA StreamTypes ==
    /\ \A s \in Stream : Stopped(s) \in Stream
    /\ \A s \in Stream, d \in Runs : Register(s, d) \in Stream /\ FailedStream(s, d) \in Stream
    /\ \A s \in Stream, e \in SourceEvent : ProjectedStream(s, e) \in Stream
<1>1. ASSUME NEW s \in Stream, NEW d \in Runs PROVE Register(s, d) \in Stream /\ FailedStream(s, d) \in Stream
  BY DEF Stream, Register, FailedStream
<1>2. ASSUME NEW s \in Stream, NEW e \in SourceEvent PROVE ProjectedStream(s, e) \in Stream
  <2>1. s.watermark + 1 \in Nat
    BY DEF Stream
  <2>2. RunState(s, e).latest \in Runs \cup {NoRun} /\ RunState(s, e).terminal \in Runs \cup {NoRun}
    BY DEF Stream, RunState, SourceEvent
  <2> HIDE DEF RunState
  <2> QED BY <2>1, <2>2 DEF Stream, ProjectedStream
<1>3. ASSUME NEW s \in Stream PROVE Stopped(s) \in Stream
  BY DEF Stream, Stopped
<1> QED BY <1>1, <1>2, <1>3

\* Announcing the head appends at most one frame to the ledger.
LEMMA QueuedHeadType ==
    ASSUME ledger \in [Convs -> Seq(Frame)], NEW c \in Convs, NEW frames \in Seq(Frame),
           ProjectQueuedHead(c, frames)
    PROVE  ledger' \in [Convs -> Seq(Frame)]
<1> DEFINE heads == {d \in Runs : ConvOf[d] = c /\ IsHead(outbox', d) /\ conversation[c] = "active"}
           queued == {[kind |-> "queued", run |-> d] : d \in heads}
           missing == {f \in queued : \A i \in DOMAIN frames : frames[i] # f}
           next == IF missing = {} THEN frames ELSE Append(frames, CHOOSE f \in missing : TRUE)
<1>1. missing \subseteq Frame
  BY DEF Frame
<1>2. missing # {} => (CHOOSE f \in missing : TRUE) \in missing
  OBVIOUS
<1>3. next \in Seq(Frame)
  <2> HIDE DEF missing
  <2> QED BY <1>1, <1>2
<1>4. ledger' = [ledger EXCEPT ![c] = next]
  BY DEF ProjectQueuedHead
<1> HIDE DEF next
<1> QED BY <1>3, <1>4

-----------------------------------------------------------------------------
(* Types *)

\* The actions of the transactions that create, claim and settle rows.
LEMMA TypeOfOutboxSteps ==
    ASSUME TypeOK,
           \/ \E d \in Runs : SubmitTurn(d) \/ Elapse(d)
           \/ \E w \in Workers, d \in Runs : Claim(w, d)
           \/ \E w \in Workers : Settle(w)
    PROVE  TypeOK'
<1> USE ConstantsAssumption
<1>1. ASSUME NEW d \in Runs, SubmitTurn(d) PROVE TypeOK'
  <2>1. ConvOf[d] \in Convs /\ outbox \in [Runs -> Row] /\ messageSeq \in [Convs -> Nat] /\ ledger \in [Convs -> Seq(Frame)]
    BY DEF TypeOK
  <2>2. outbox' \in [Runs -> Row]
    <3>1. messageSeq[ConvOf[d]] + 1 \in Nat
      BY <2>1
    <3> QED BY <1>1, <2>1, <3>1, RowTypes DEF SubmitTurn
  <2>3. messageSeq' \in [Convs -> Nat]
    BY <1>1, <2>1 DEF SubmitTurn
  <2>4. ledger' \in [Convs -> Seq(Frame)]
    BY <1>1, <2>1, QueuedHeadType DEF SubmitTurn
  <2>5. message' \in [Runs -> {"absent", "pending", "completed", "failed"}]
    BY <1>1 DEF SubmitTurn, TypeOK
  <2>6. UNCHANGED <<conversation, stream, cancelled, worker, requests, agent, agentLog, faults>>
    BY <1>1 DEF SubmitTurn, agentVars
  <2> QED BY <2>2, <2>3, <2>4, <2>5, <2>6 DEF TypeOK
<1>2. ASSUME NEW d \in Runs, Elapse(d) PROVE TypeOK'
  <2>1. outbox \in [Runs -> Row] /\ faults \in 0..MaxFaults
    BY DEF TypeOK
  <2>2. outbox' \in [Runs -> Row]
    BY <1>2, <2>1, RowTypes DEF Elapse
  <2>3. faults' \in 0..MaxFaults
    BY <1>2, <2>1 DEF Elapse, Fault
  <2> QED BY <1>2, <2>2, <2>3 DEF Elapse, TypeOK, agentVars
<1>3. ASSUME NEW w \in Workers, NEW d \in Runs, Claim(w, d) PROVE TypeOK'
  <2>1. /\ ConvOf[d] \in Convs /\ outbox \in [Runs -> Row] /\ stream \in [Convs -> Stream]
        /\ worker \in [Workers -> Ticket \cup {Idle}]
    BY DEF TypeOK
  <2>2. outbox' \in [Runs -> Row]
    BY <1>3, <2>1, RowTypes DEF Claim
  <2>3. stream' \in [Convs -> Stream]
    BY <1>3, <2>1, StreamTypes DEF Claim
  <2>4. outbox[d].fence + 1 \in Nat
    BY <2>1 DEF Row
  <2>5. worker' \in [Workers -> Ticket \cup {Idle}]
    BY <1>3, <2>1, <2>4 DEF Claim, Ticket
  <2> QED BY <1>3, <2>2, <2>3, <2>5 DEF Claim, TypeOK, agentVars
<1>4. ASSUME NEW w \in Workers, Settle(w) PROVE TypeOK'
  <2>1. /\ outbox \in [Runs -> Row] /\ stream \in [Convs -> Stream] /\ ledger \in [Convs -> Seq(Frame)]
        /\ worker \in [Workers -> Ticket \cup {Idle}]
        /\ message \in [Runs -> {"absent", "pending", "completed", "failed"}]
    BY DEF TypeOK
  <2>2. worker' = [worker EXCEPT ![w] = Idle]
    BY <1>4 DEF Settle, MarkAdmitted, MarkUnknown, MarkNotAdmittedSticky, MarkFailed, DropSettlement
  <2>3. worker' \in [Workers -> Ticket \cup {Idle}]
    BY <2>1, <2>2
  <2>4. worker[w].pc = "answered"
    BY <1>4 DEF Settle, MarkAdmitted, MarkUnknown, MarkNotAdmittedSticky, MarkFailed, DropSettlement, Settles
  <2>5. worker[w].run \in Runs
    BY <2>1, <2>4 DEF Ticket, Idle
  <2>6. CASE MarkFailed(w)
    <3> DEFINE d == worker[w].run
               c == ConvOf[d]
               frame == [kind |-> "errored", run |-> d]
    <3>1. c \in Convs /\ frame \in Frame
      BY <2>5 DEF Frame, SourceKinds
    <3>2. Append(ledger[c], frame) \in Seq(Frame)
      BY <3>1, <2>1
    <3>3. ledger' \in [Convs -> Seq(Frame)]
      BY <2>6, <3>1, <3>2, <2>1, QueuedHeadType DEF MarkFailed
    <3>4. outbox' \in [Runs -> Row]
      BY <2>6, <2>5, <2>1, RowTypes DEF MarkFailed, Closed
    <3>5. stream' \in [Convs -> Stream]
      BY <2>6, <2>5, <3>1, <2>1, StreamTypes DEF MarkFailed
    <3>6. message' \in [Runs -> {"absent", "pending", "completed", "failed"}]
      BY <2>6, <2>5, <2>1 DEF MarkFailed
    <3>7. UNCHANGED <<conversation, messageSeq, cancelled, requests, agent, agentLog, faults>>
      BY <2>6 DEF MarkFailed, agentVars
    <3> QED BY <2>3, <3>3, <3>4, <3>5, <3>6, <3>7 DEF TypeOK
  <2>7. CASE MarkAdmitted(w) \/ MarkUnknown(w) \/ MarkNotAdmittedSticky(w)
    <3>1. outbox' \in [Runs -> Row]
      <4>1. outbox[worker[w].run] \in Row
        BY <2>5, <2>1
      <4>2. /\ Unleased(outbox[worker[w].run], "admitted") \in Row
            /\ Unleased(outbox[worker[w].run], "retryable") \in Row
            /\ UnknownRow(outbox[worker[w].run]) \in Row
        BY <4>1, RowTypes DEF Open
      <4> QED BY <2>7, <2>1, <4>2 DEF MarkAdmitted, MarkUnknown, MarkNotAdmittedSticky
    <3> QED BY <2>7, <2>3, <3>1 DEF MarkAdmitted, MarkUnknown, MarkNotAdmittedSticky, TypeOK, agentVars
  <2>8. CASE DropSettlement(w)
    BY <2>8, <2>3 DEF DropSettlement, TypeOK, agentVars, bffVars
  <2> QED BY <1>4, <2>6, <2>7, <2>8 DEF Settle
<1> QED BY <1>1, <1>2, <1>3, <1>4

\* The steps outside the database: delivery, crashes, and the Agent.
LEMMA TypeOfDeliverySteps ==
    ASSUME TypeOK,
           \/ \E w \in Workers : Deliver(w) \/ RefuseLocally(w) \/ GiveUp(w) \/ Crash(w)
           \/ \E r \in requests : AgentAccept(r) \/ AgentReject(r)
           \/ \E d \in Runs : AgentStart(d) \/ AgentFinish(d)
    PROVE  TypeOK'
<1> USE ConstantsAssumption
<1>0. /\ worker \in [Workers -> Ticket \cup {Idle}] /\ requests \in SUBSET Request /\ faults \in 0..MaxFaults
      /\ agent \in [Runs -> {"none", "admitted", "running", "ended"}]
      /\ agentLog \in [Convs -> Seq(SourceEvent)]
  BY DEF TypeOK
<1>1. ASSUME NEW t \in Ticket, NEW o \in {"admitted", "not_admitted", "unknown"} PROVE Answered(t, o) \in Ticket
  BY DEF Answered, Ticket
<1>2. Fault => faults' \in 0..MaxFaults
  BY <1>0 DEF Fault
<1>3. ASSUME NEW w \in Workers, Deliver(w) PROVE TypeOK'
  <2>1. worker[w] \in Ticket
    BY <1>3, <1>0 DEF Deliver, Idle
  <2>2. worker' \in [Workers -> Ticket \cup {Idle}]
    <3>1. [worker[w] EXCEPT !.pc = "waiting"] \in Ticket
      BY <2>1 DEF Ticket
    <3> QED BY <1>3, <1>0, <3>1 DEF Deliver
  <2>3. requests' \in SUBSET Request
    BY <1>3, <1>0, <2>1 DEF Deliver, Request, Ticket
  <2> QED BY <1>3, <2>2, <2>3 DEF Deliver, TypeOK, agentVars, bffVars
<1>4. ASSUME NEW w \in Workers, RefuseLocally(w) \/ GiveUp(w) PROVE TypeOK'
  <2>1. worker[w] \in Ticket
    BY <1>4, <1>0 DEF RefuseLocally, GiveUp, Idle
  <2>2. worker' \in [Workers -> Ticket \cup {Idle}]
    BY <1>4, <1>0, <1>1, <2>1 DEF RefuseLocally, GiveUp
  <2> QED BY <1>4, <1>2, <2>2 DEF RefuseLocally, GiveUp, TypeOK, agentVars, bffVars
<1>5. ASSUME NEW w \in Workers, Crash(w) PROVE TypeOK'
  <2>1. worker' \in [Workers -> Ticket \cup {Idle}]
    BY <1>5, <1>0 DEF Crash
  <2> QED BY <1>5, <1>2, <2>1 DEF Crash, TypeOK, agentVars, bffVars
<1>6. ASSUME NEW r \in requests, NEW o \in {"admitted", "not_admitted"}, Reply(r, o)
      PROVE  worker' \in [Workers -> Ticket \cup {Idle}]
  <2>1. \A w \in Workers : WaitsFor(worker[w], r) => worker[w] \in Ticket
    BY <1>0 DEF WaitsFor, Idle
  <2> QED BY <1>6, <1>0, <1>1, <2>1 DEF Reply
<1>7. ASSUME NEW r \in requests, AgentAccept(r) PROVE TypeOK'
  <2>1. worker' \in [Workers -> Ticket \cup {Idle}]
    BY <1>7, <1>6 DEF AgentAccept
  <2>2. agent' \in [Runs -> {"none", "admitted", "running", "ended"}]
    BY <1>7, <1>0 DEF AgentAccept, Request
  <2>3. requests' \in SUBSET Request
    BY <1>7, <1>0 DEF AgentAccept
  <2> QED BY <1>7, <2>1, <2>2, <2>3 DEF AgentAccept, TypeOK, bffVars
<1>8. ASSUME NEW r \in requests, AgentReject(r) PROVE TypeOK'
  <2>1. worker' \in [Workers -> Ticket \cup {Idle}]
    BY <1>8, <1>6 DEF AgentReject
  <2>2. requests' \in SUBSET Request
    BY <1>8, <1>0 DEF AgentReject
  <2> QED BY <1>8, <1>2, <2>1, <2>2 DEF AgentReject, TypeOK, agentVars, bffVars
<1>9. ASSUME NEW d \in Runs, AgentStart(d) \/ AgentFinish(d) PROVE TypeOK'
  <2>1. ASSUME NEW kind \in SourceKinds, AgentEmit(d, kind)
        PROVE  agentLog' \in [Convs -> Seq(SourceEvent)]
    <3>1. ConvOf[d] \in Convs /\ [kind |-> kind, run |-> d] \in SourceEvent
      BY DEF SourceEvent
    <3>2. Append(agentLog[ConvOf[d]], [kind |-> kind, run |-> d]) \in Seq(SourceEvent)
      BY <3>1, <1>0
    <3> QED BY <2>1, <1>0, <3>1, <3>2 DEF AgentEmit
  <2>2. agentLog' \in [Convs -> Seq(SourceEvent)]
    BY <1>9, <2>1 DEF AgentStart, AgentFinish, SourceKinds
  <2>3. agent' \in [Runs -> {"none", "admitted", "running", "ended"}]
    BY <1>9, <1>0 DEF AgentStart, AgentFinish
  <2> QED BY <1>9, <2>2, <2>3 DEF AgentStart, AgentFinish, TypeOK, bffVars
<1> QED BY <1>3, <1>4, <1>5, <1>7, <1>8, <1>9

\* Projection and deletion, which change rows of several tables at once.
LEMMA TypeOfConversationSteps ==
    ASSUME TypeOK, NEW c \in Convs, Project(c) \/ DeleteConversation(c)
    PROVE  TypeOK'
<1> USE ConstantsAssumption
<1>0. /\ outbox \in [Runs -> Row] /\ stream \in [Convs -> Stream] /\ ledger \in [Convs -> Seq(Frame)]
      /\ message \in [Runs -> {"absent", "pending", "completed", "failed"}]
      /\ agentLog \in [Convs -> Seq(SourceEvent)]
      /\ conversation \in [Convs -> {"active", "deleted"}]
      /\ cancelled \in SUBSET Runs
  BY DEF TypeOK
<1>1. CASE Project(c)
  <2> DEFINE s == stream[c]
             e == agentLog[c][s.watermark + 1]
             frames == Append(ledger[c], e)
  <2>1. s.watermark + 1 \in 1..Len(agentLog[c])
    <3>1. s.watermark \in Nat
      BY <1>0 DEF Stream
    <3>2. Len(agentLog[c]) \in Nat
      BY <1>0
    <3>3. s.watermark < Len(agentLog[c])
      BY <1>1 DEF Project
    <3> QED BY <3>1, <3>2, <3>3
  <2>2. e \in SourceEvent
    BY <1>0, <2>1
  <2>3. e \in Frame /\ e.run \in Runs
    BY <2>2 DEF SourceEvent, Frame
  <2>4. frames \in Seq(Frame)
    BY <1>0, <2>3
  <2>5. stream' \in [Convs -> Stream]
    BY <1>0, <1>1, <2>2, StreamTypes DEF Project
  <2>6. message' \in [Runs -> {"absent", "pending", "completed", "failed"}]
    BY <1>0, <1>1, <2>3 DEF Project, ProjectedMessage
  <2>7. ledger' \in [Convs -> Seq(Frame)]
    BY <1>0, <1>1, <2>4, QueuedHeadType DEF Project
  <2>8. outbox' \in [Runs -> Row]
    <3>1. TerminalRow(outbox[e.run]) \in Row
      BY <1>0, <2>3, RowTypes
    <3> QED BY <1>0, <1>1, <3>1 DEF Project
  <2>9. UNCHANGED <<conversation, messageSeq, cancelled, worker, requests, agent, agentLog, faults>>
    BY <1>1 DEF Project, agentVars
  <2> QED BY <2>5, <2>6, <2>7, <2>8, <2>9 DEF TypeOK
<1>2. CASE DeleteConversation(c)
  <2>1. outbox' \in [Runs -> Row]
    BY <1>0, <1>2, RowTypes DEF DeleteConversation
  <2>2. stream' \in [Convs -> Stream]
    BY <1>0, <1>2, StreamTypes DEF DeleteConversation
  <2>3. message' \in [Runs -> {"absent", "pending", "completed", "failed"}]
    BY <1>0, <1>2 DEF DeleteConversation
  <2>4. conversation' \in [Convs -> {"active", "deleted"}] /\ cancelled' \in SUBSET Runs
    BY <1>0, <1>2 DEF DeleteConversation
  <2>5. UNCHANGED <<messageSeq, ledger, worker, requests, agent, agentLog, faults>>
    BY <1>2 DEF DeleteConversation, agentVars
  <2> QED BY <2>1, <2>2, <2>3, <2>4, <2>5 DEF TypeOK
<1> QED BY <1>1, <1>2

\* Every variable of the model keeps its type: the outbox row keeps to the
\* columns' domains, whatever the interleaving.
THEOREM TypeCorrect == Spec => []TypeOK
<1>1. Init => TypeOK
  BY ConstantsAssumption DEF Init, TypeOK, Row, Stream, AbsentRow, NewStream, Open, Closed
<1>2. TypeOK /\ [Next]_vars => TypeOK'
  <2> SUFFICES ASSUME TypeOK, [Next]_vars PROVE TypeOK'
    OBVIOUS
  <2>1. CASE UNCHANGED vars
    BY <2>1 DEF vars, TypeOK
  <2>2. CASE Next
    BY <2>2, TypeOfOutboxSteps, TypeOfDeliverySteps, TypeOfConversationSteps DEF Next
  <2> QED BY <2>1, <2>2
<1> QED BY <1>1, <1>2, PTL DEF Spec

-----------------------------------------------------------------------------
(* Claims: what a row, a worker, a request and the Agent say of each other *)

\* The columns of the rows that a claim, a mark, a terminal event and a
\* deletion leave, as far as the claim invariant reads them.
LEMMA RowColumns ==
    ASSUME NEW row \in Row
    PROVE  /\ \A n \in Nat : NewRow(n).status = "pending" /\ NewRow(n).fence = 0 /\ NewRow(n).attempts = 0 /\ ~NewRow(n).unknown
           /\ \A w \in Workers : /\ ClaimedRow(row, w).status = "leased"
                                 /\ ClaimedRow(row, w).fence = row.fence + 1
                                 /\ ClaimedRow(row, w).attempts = row.attempts + 1
                                 /\ ClaimedRow(row, w).unknown = (row.unknown \/ row.status = "leased")
           /\ \A st \in Open \cup Closed : /\ Unleased(row, st).status = st
                                          /\ Unleased(row, st).fence = row.fence
                                          /\ Unleased(row, st).attempts = row.attempts
                                          /\ Unleased(row, st).unknown = row.unknown
           /\ UnknownRow(row).status = "retryable" /\ UnknownRow(row).unknown
           /\ UnknownRow(row).fence = row.fence /\ UnknownRow(row).attempts = row.attempts
           /\ TerminalRow(row).status = "terminal" /\ TerminalRow(row).fence = row.fence + 1
           /\ TerminalRow(row).attempts = row.attempts
<1>1. \A n \in Nat : NewRow(n).status = "pending" /\ NewRow(n).fence = 0 /\ NewRow(n).attempts = 0 /\ ~NewRow(n).unknown
  BY DEF NewRow, AbsentRow
<1>2. ASSUME NEW w \in Workers
      PROVE  /\ ClaimedRow(row, w).status = "leased"
             /\ ClaimedRow(row, w).fence = row.fence + 1
             /\ ClaimedRow(row, w).attempts = row.attempts + 1
             /\ ClaimedRow(row, w).unknown = (row.unknown \/ row.status = "leased")
  BY DEF Row, ClaimedRow
<1>3. \A st \in Open \cup Closed : /\ Unleased(row, st) \in Row
                                   /\ Unleased(row, st).status = st
                                   /\ Unleased(row, st).fence = row.fence
                                   /\ Unleased(row, st).attempts = row.attempts
                                   /\ Unleased(row, st).unknown = row.unknown
  BY RowTypes DEF Row, Unleased
<1>4. /\ UnknownRow(row).status = "retryable" /\ UnknownRow(row).unknown
      /\ UnknownRow(row).fence = row.fence /\ UnknownRow(row).attempts = row.attempts
  BY DEF Row, UnknownRow, Unleased
<1>5. /\ TerminalRow(row).status = "terminal" /\ TerminalRow(row).fence = row.fence + 1
      /\ TerminalRow(row).attempts = row.attempts
  BY DEF Row, TerminalRow, Unleased
<1> QED BY <1>1, <1>2, <1>3, <1>4, <1>5

\* A deletion leaves closed and admitted rows alone, fails the rows that were
\* never claimed, and puts the others in doubt under a new fence.
LEMMA DeletedRowColumns ==
    ASSUME NEW row \in Row
    PROVE  LET new == DeletedRow(row) IN
           \/ new = row /\ (row.status \in {"leased", "retryable"} => row.attempts = 0) /\ (row.status = "pending" => row.attempts # 0 \/ row.unknown)
           \/ /\ row.status \in {"leased", "retryable"}
              /\ row.attempts > 0
              /\ new.status = "retryable"
              /\ new.unknown
              /\ new.fence = row.fence + 1
              /\ new.attempts = row.attempts
           \/ /\ row.status \in {"pending", "leased", "retryable"}
              /\ row.attempts = 0
              /\ ~row.unknown
              /\ new.status = "failed"
              /\ new.fence = row.fence + 1
<1>1. CASE row.status \in {"leased", "retryable"} /\ row.attempts > 0
  <2> DEFINE new == [row EXCEPT !.status = "retryable", !.unknown = TRUE, !.holder = NoWorker,
                                !.fence = @ + 1, !.elapsed = row.status = "leased" \/ @]
  <2>1. DeletedRow(row) = new
    BY <1>1 DEF DeletedRow
  <2>2. new.status = "retryable" /\ new.unknown /\ new.fence = row.fence + 1 /\ new.attempts = row.attempts
    BY DEF Row
  <2> QED BY <1>1, <2>1, <2>2
<1>2. CASE /\ ~(row.status \in {"leased", "retryable"} /\ row.attempts > 0)
           /\ row.status \in {"pending", "leased", "retryable"} /\ row.attempts = 0 /\ ~row.unknown
  <2> DEFINE new == [Unleased(row, "failed") EXCEPT !.fence = @ + 1]
  <2>1. DeletedRow(row) = new
    BY <1>2 DEF DeletedRow
  <2>2. new.status = "failed" /\ new.fence = row.fence + 1
    BY DEF Row, Unleased
  <2> QED BY <1>2, <2>1, <2>2
<1>3. CASE /\ ~(row.status \in {"leased", "retryable"} /\ row.attempts > 0)
           /\ ~(row.status \in {"pending", "leased", "retryable"} /\ row.attempts = 0 /\ ~row.unknown)
  <2>1. DeletedRow(row) = row
    BY <1>3 DEF DeletedRow
  <2>2. row.attempts \in Nat
    BY DEF Row
  <2> QED BY <1>3, <2>1, <2>2
<1> QED BY <1>1, <1>2, <1>3

\* What TypeOK says of the parts of rows, workers and requests.
LEMMA Parts ==
    ASSUME TypeOK
    PROVE  /\ \A d \in Runs : /\ outbox[d] \in Row
                              /\ outbox[d].fence \in Nat
                              /\ outbox[d].attempts \in Nat
                              /\ ConvOf[d] \in Convs
           /\ \A w \in Workers : worker[w].pc # "idle" => worker[w].run \in Runs /\ worker[w].fence \in Nat
           /\ \A r \in requests : r.run \in Runs /\ r.fence \in Nat
           /\ \A q, r \in requests : q.run = r.run /\ q.fence = r.fence => q = r
<1>1. outbox \in [Runs -> Row] /\ worker \in [Workers -> Ticket \cup {Idle}] /\ requests \in SUBSET Request
  BY DEF TypeOK
<1>2. \A d \in Runs : outbox[d] \in Row /\ outbox[d].fence \in Nat /\ outbox[d].attempts \in Nat /\ ConvOf[d] \in Convs
  BY <1>1, ConstantsAssumption DEF Row
<1>3. \A w \in Workers : worker[w].pc # "idle" => worker[w].run \in Runs /\ worker[w].fence \in Nat
  BY <1>1 DEF Ticket, Idle
<1>4. \A r \in requests : r.run \in Runs /\ r.fence \in Nat
  BY <1>1 DEF Request
<1>5. \A q, r \in requests : q.run = r.run /\ q.fence = r.fence => q = r
  BY <1>1 DEF Request
<1> QED BY <1>2, <1>3, <1>4, <1>5

\* Tickets and requests stay sound while nobody touches them and no fence falls.
LEMMA TicketsKept ==
    ASSUME TypeOK, TicketsInv, UNCHANGED <<worker, requests>>,
           \A d \in Runs : outbox'[d].fence \in Nat /\ outbox[d].fence <= outbox'[d].fence
    PROVE  TicketsInv'
<1>1. \A w \in Workers : worker[w].pc # "idle" =>
          worker[w].fence > 0 /\ worker[w].fence <= outbox'[worker[w].run].fence
  <2> SUFFICES ASSUME NEW w \in Workers, worker[w].pc # "idle"
               PROVE  worker[w].fence > 0 /\ worker[w].fence <= outbox'[worker[w].run].fence
    OBVIOUS
  <2>1. worker[w].run \in Runs /\ worker[w].fence \in Nat /\ outbox[worker[w].run].fence \in Nat
    BY Parts
  <2>2. worker[w].fence > 0 /\ worker[w].fence <= outbox[worker[w].run].fence
    BY DEF TicketsInv
  <2> QED BY <2>1, <2>2
<1>2. \A r \in requests : r.fence > 0 /\ r.fence <= outbox'[r.run].fence
  <2> SUFFICES ASSUME NEW r \in requests
               PROVE  r.fence > 0 /\ r.fence <= outbox'[r.run].fence
    OBVIOUS
  <2>1. r.run \in Runs /\ r.fence \in Nat /\ outbox[r.run].fence \in Nat
    BY Parts
  <2>2. r.fence > 0 /\ r.fence <= outbox[r.run].fence
    BY DEF TicketsInv
  <2> QED BY <2>1, <2>2
<1> QED BY <1>1, <1>2 DEF TicketsInv, Unsent

\* Nobody outside the database knows of a row that was never claimed.
LEMMA NeverClaimed ==
    ASSUME TypeOK, ClaimInv, NEW d \in Runs, outbox[d].status = "pending"
    PROVE  /\ outbox[d].fence = 0
           /\ agent[d] = "none"
           /\ \A r \in requests : r.run # d
           /\ \A w \in Workers : worker[w].pc # "idle" => worker[w].run # d
BY Parts DEF ClaimInv, RowsInv, TicketsInv

\* A new turn: nobody outside the database knows of the row.
LEMMA ClaimInvSubmitTurn ==
    ASSUME TypeOK, ClaimInv, NEW d \in Runs, SubmitTurn(d)
    PROVE  ClaimInv'
<1>1. UNCHANGED <<conversation, cancelled, worker, requests, agent>>
  BY DEF SubmitTurn, agentVars
<1>2. /\ outbox[d].status = "absent" /\ outbox[d].fence = 0
      /\ conversation[ConvOf[d]] = "active"
  BY DEF SubmitTurn, ClaimInv, RowsInv
<1>3. /\ outbox'[d].status = "pending" /\ outbox'[d].fence = 0 /\ outbox'[d].attempts = 0 /\ ~outbox'[d].unknown
      /\ \A e \in Runs : e # d => outbox'[e] = outbox[e]
  <2>1. messageSeq[ConvOf[d]] + 1 \in Nat /\ outbox[d] \in Row
    BY Parts DEF TypeOK
  <2>2. outbox' = [outbox EXCEPT ![d] = NewRow(messageSeq[ConvOf[d]] + 1)] /\ outbox \in [Runs -> Row]
    BY DEF SubmitTurn, TypeOK
  <2> QED BY <2>1, <2>2, RowColumns
<1>4. RowsInv'
  BY <1>1, <1>2, <1>3 DEF ClaimInv, RowsInv, Undoubted
<1>5. TicketsInv'
  <2>1. \A f \in Runs : /\ outbox'[f].fence \in Nat
                        /\ outbox[f].fence <= outbox'[f].fence
    BY <1>2, <1>3, Parts
  <2> QED BY <1>1, <2>1, TicketsKept DEF ClaimInv
<1>6. UndoubtedInv' /\ FailedNeverAdmitted'
  BY <1>1, <1>2, <1>3 DEF ClaimInv, UndoubtedInv, Undoubted, FailedNeverAdmitted
<1> QED BY <1>4, <1>5, <1>6 DEF ClaimInv

\* The passage of time touches nothing the invariant reads.
LEMMA ClaimInvElapse ==
    ASSUME TypeOK, ClaimInv, NEW d \in Runs, Elapse(d)
    PROVE  ClaimInv'
<1>1. UNCHANGED <<conversation, cancelled, worker, requests, agent>>
  BY DEF Elapse, agentVars
<1>2. \A e \in Runs : /\ outbox'[e].status = outbox[e].status
                      /\ outbox'[e].fence = outbox[e].fence
                      /\ outbox'[e].attempts = outbox[e].attempts
                      /\ outbox'[e].unknown = outbox[e].unknown
  <2>1. outbox' = [outbox EXCEPT ![d].elapsed = TRUE] /\ outbox \in [Runs -> Row]
    BY DEF Elapse, TypeOK
  <2> QED BY <2>1 DEF Row
<1>3. RowsInv'
  BY <1>1, <1>2 DEF ClaimInv, RowsInv, Undoubted
<1>4. TicketsInv'
  BY <1>1, <1>2, Parts DEF ClaimInv, TicketsInv
<1>5. UndoubtedInv' /\ FailedNeverAdmitted'
  BY <1>1, <1>2 DEF ClaimInv, UndoubtedInv, Undoubted, FailedNeverAdmitted
<1> QED BY <1>3, <1>4, <1>5 DEF ClaimInv

\* A claim: the new ticket's fence is above every other, and the row is
\* undoubted only if it was never claimed before.
LEMMA ClaimInvClaim ==
    ASSUME TypeOK, ClaimInv, NEW w \in Workers, NEW d \in Runs, Claim(w, d)
    PROVE  ClaimInv'
<1>1. UNCHANGED <<conversation, cancelled, requests, agent>>
  BY DEF Claim, agentVars
<1>2. /\ outbox[d].status \in {"pending", "retryable", "leased"}
      /\ conversation[ConvOf[d]] = "active"
      /\ worker[w].pc = "idle"
  BY DEF Claim, Claimable
<1>3. /\ outbox'[d].status = "leased" /\ outbox'[d].fence = outbox[d].fence + 1
      /\ outbox'[d].attempts = outbox[d].attempts + 1
      /\ outbox'[d].unknown = (outbox[d].unknown \/ outbox[d].status = "leased")
      /\ \A e \in Runs : e # d => outbox'[e] = outbox[e]
  <2>1. outbox' = [outbox EXCEPT ![d] = ClaimedRow(outbox[d], w)] /\ outbox \in [Runs -> Row] /\ outbox[d] \in Row
    BY Parts DEF Claim, TypeOK
  <2> QED BY <2>1, RowColumns
<1>4. /\ worker'[w].pc = "claimed" /\ worker'[w].run = d /\ worker'[w].fence = outbox[d].fence + 1
      /\ \A v \in Workers : v # w => worker'[v] = worker[v]
  BY DEF Claim, TypeOK
<1>5. outbox[d].status = "pending" => /\ outbox[d].fence = 0
                                      /\ agent[d] = "none"
                                      /\ \A r \in requests : r.run # d
                                      /\ \A v \in Workers : worker[v].pc # "idle" => worker[v].run # d
  BY NeverClaimed
<1>6. Undoubted(d)' => outbox[d].status = "pending"
  BY <1>2, <1>3 DEF Undoubted, ClaimInv, RowsInv
<1>7. RowsInv'
  BY <1>1, <1>2, <1>3, <1>5, <1>6, Parts DEF ClaimInv, RowsInv, Undoubted
<1>8. TicketsInv'
  BY <1>1, <1>2, <1>3, <1>4, Parts DEF ClaimInv, TicketsInv, Unsent
<1>9. UndoubtedInv'
  BY <1>1, <1>2, <1>3, <1>4, <1>5, <1>6 DEF ClaimInv, UndoubtedInv, Undoubted
<1>10. FailedNeverAdmitted'
  BY <1>1, <1>2, <1>3, <1>4 DEF ClaimInv, FailedNeverAdmitted
<1> QED BY <1>7, <1>8, <1>9, <1>10 DEF ClaimInv

\* Delivery sends at most one request per claim; refusing, giving up and
\* crashing send none.
LEMMA ClaimInvDelivery ==
    ASSUME TypeOK, ClaimInv, NEW w \in Workers,
           Deliver(w) \/ RefuseLocally(w) \/ GiveUp(w) \/ Crash(w)
    PROVE  ClaimInv'
<1>1. UNCHANGED <<conversation, outbox, cancelled, agent>>
  BY DEF Deliver, RefuseLocally, GiveUp, Crash, bffVars, agentVars
<1>2. RowsInv'
  BY <1>1 DEF ClaimInv, RowsInv, Undoubted
<1>3. CASE Deliver(w)
  <2> DEFINE sent == [run |-> worker[w].run, fence |-> worker[w].fence]
  <2>1. worker[w].pc = "claimed" /\ requests' = requests \cup {sent}
    BY <1>3 DEF Deliver
  <2>2. /\ worker'[w].pc = "waiting" /\ worker'[w].run = worker[w].run /\ worker'[w].fence = worker[w].fence
        /\ \A v \in Workers : v # w => worker'[v] = worker[v]
    <3>1. worker' = [worker EXCEPT ![w].pc = "waiting"] /\ worker[w] \in Ticket
      BY <1>3, <2>1 DEF Deliver, TypeOK, Idle
    <3> QED BY <3>1 DEF TypeOK, Ticket
  <2>3. TicketsInv'
    BY <1>1, <2>1, <2>2 DEF ClaimInv, TicketsInv, Unsent
  <2>4. UndoubtedInv'
    <3>1. ASSUME NEW d \in Runs, Undoubted(d), worker[w].run = d
          PROVE  /\ agent[d] = "none"
                 /\ \A v \in Workers : v # w /\ worker[v].pc # "idle" => worker[v].run # d
      BY <3>1, <2>1, Parts DEF ClaimInv, RowsInv, TicketsInv, UndoubtedInv, Unsent
    <3> QED BY <1>1, <2>1, <2>2, <3>1 DEF ClaimInv, UndoubtedInv, Undoubted, Unsent
  <2>5. FailedNeverAdmitted'
    BY <1>1, <2>1, <2>2 DEF ClaimInv, FailedNeverAdmitted
  <2> QED BY <1>2, <2>3, <2>4, <2>5 DEF ClaimInv
<1>4. CASE RefuseLocally(w) \/ GiveUp(w) \/ Crash(w)
  <2>1. requests' = requests /\ \A v \in Workers : v # w => worker'[v] = worker[v]
    BY <1>4 DEF RefuseLocally, GiveUp, Crash, TypeOK
  <2>2. \/ worker'[w].pc = "idle"
        \/ /\ worker[w].pc \in {"claimed", "waiting"}
           /\ worker'[w].pc = "answered"
           /\ worker'[w].run = worker[w].run
           /\ worker'[w].fence = worker[w].fence
           /\ worker'[w].outcome = "not_admitted" => worker[w].pc = "claimed"
    <3>1. worker \in [Workers -> Ticket \cup {Idle}]
      BY DEF TypeOK
    <3>2. CASE Crash(w)
      BY <3>1, <3>2 DEF Crash, Idle
    <3>3. CASE RefuseLocally(w) \/ GiveUp(w)
      <4>1. worker[w] \in Ticket /\ worker[w].pc \in {"claimed", "waiting"}
        BY <3>1, <3>3 DEF RefuseLocally, GiveUp, Idle
      <4>2. \A o \in {"not_admitted", "unknown"} : /\ Answered(worker[w], o).pc = "answered"
                                                  /\ Answered(worker[w], o).run = worker[w].run
                                                  /\ Answered(worker[w], o).fence = worker[w].fence
                                                  /\ Answered(worker[w], o).outcome = o
        BY <4>1 DEF Answered, Ticket
      <4>3. \/ worker[w].pc = "claimed" /\ worker'[w] = Answered(worker[w], "not_admitted")
            \/ worker'[w] = Answered(worker[w], "unknown")
        BY <3>1, <3>3 DEF RefuseLocally, GiveUp
      <4> QED BY <4>1, <4>2, <4>3
    <3> QED BY <1>4, <3>2, <3>3
  <2>3. TicketsInv'
    BY <1>1, <2>1, <2>2 DEF ClaimInv, TicketsInv, Unsent
  <2>4. UndoubtedInv'
    BY <1>1, <2>1, <2>2 DEF ClaimInv, UndoubtedInv, Undoubted, Unsent
  <2>5. FailedNeverAdmitted'
    BY <1>1, <2>1, <2>2 DEF ClaimInv, FailedNeverAdmitted
  <2> QED BY <1>2, <2>3, <2>4, <2>5 DEF ClaimInv
<1> QED BY <1>3, <1>4

\* A reply only moves the workers that wait for it.
LEMMA ReplyMoves ==
    ASSUME TypeOK, NEW r, NEW o \in {"admitted", "not_admitted"}, Reply(r, o)
    PROVE  \A w \in Workers : \/ worker'[w] = worker[w]
                              \/ /\ worker[w].pc = "waiting"
                                 /\ worker[w].run = r.run
                                 /\ worker[w].fence = r.fence
                                 /\ worker'[w].pc = "answered"
                                 /\ worker'[w].outcome = o
                                 /\ worker'[w].run = worker[w].run
                                 /\ worker'[w].fence = worker[w].fence
<1> SUFFICES ASSUME NEW w \in Workers, WaitsFor(worker[w], r)
             PROVE  /\ worker[w].pc = "waiting"
                    /\ worker[w].run = r.run
                    /\ worker[w].fence = r.fence
                    /\ worker'[w].pc = "answered"
                    /\ worker'[w].outcome = o
                    /\ worker'[w].run = worker[w].run
                    /\ worker'[w].fence = worker[w].fence
  BY DEF Reply
<1>1. worker[w].pc = "waiting" /\ worker[w].run = r.run /\ worker[w].fence = r.fence
  BY DEF WaitsFor
<1>2. worker[w] \in Ticket
  BY <1>1 DEF TypeOK, Idle
<1>3. worker'[w] = Answered(worker[w], o)
  BY DEF Reply
<1>4. /\ Answered(worker[w], o).pc = "answered"
      /\ Answered(worker[w], o).outcome = o
      /\ Answered(worker[w], o).run = worker[w].run
      /\ Answered(worker[w], o).fence = worker[w].fence
  BY <1>2 DEF Answered, Ticket
<1> QED BY <1>1, <1>3, <1>4

\* The Agent answers: the only request of an undoubted row is the one of the
\* claim that holds it, so a refusal clears the row of the Agent altogether.
LEMMA ClaimInvAnswer ==
    ASSUME TypeOK, ClaimInv, NEW r \in requests, AgentAccept(r) \/ AgentReject(r)
    PROVE  ClaimInv'
<1>1. UNCHANGED <<conversation, outbox, cancelled>> /\ requests' = requests \ {r}
  BY DEF AgentAccept, AgentReject, bffVars
<1>2. /\ r.run \in Runs /\ outbox[r.run].fence > 0
      /\ Undoubted(r.run) => outbox[r.run].fence = 1
      /\ \A q \in requests' : Undoubted(r.run) => q.run # r.run
  BY <1>1, Parts DEF ClaimInv, TicketsInv, RowsInv
<1>3. PICK o \in {"admitted", "not_admitted"} :
        /\ Reply(r, o)
        /\ o = "admitted" => AgentAccept(r)
        /\ o = "not_admitted" => UNCHANGED agent
  BY DEF AgentAccept, AgentReject, agentVars
<1>4. \A d \in Runs : d # r.run => agent'[d] = agent[d]
  BY DEF AgentAccept, AgentReject, agentVars, TypeOK
<1>5. \A w \in Workers : \/ worker'[w] = worker[w]
                         \/ /\ worker[w].pc = "waiting"
                            /\ worker[w].run = r.run
                            /\ worker[w].fence = r.fence
                            /\ worker'[w].pc = "answered"
                            /\ worker'[w].outcome = o
                            /\ worker'[w].run = worker[w].run
                            /\ worker'[w].fence = worker[w].fence
  BY <1>3, ReplyMoves
<1>6. RowsInv'
  BY <1>1, <1>2, <1>4 DEF ClaimInv, RowsInv, Undoubted
<1>7. TicketsInv'
  <2>1. \A q \in requests' : q \in requests /\ ~(q.run = r.run /\ q.fence = r.fence)
    BY <1>1, Parts
  <2> QED BY <1>1, <1>5, <2>1 DEF ClaimInv, TicketsInv, Unsent
<1>8. UndoubtedInv'
  <2> SUFFICES ASSUME NEW d \in Runs, Undoubted(d)'
               PROVE  (/\ \A q \in requests : q.run = d => agent[d] = "none"
                       /\ \A w \in Workers : worker[w].pc # "idle" /\ worker[w].run = d /\ Unsent(worker[w]) =>
                             agent[d] = "none" /\ \A q \in requests : q.run # d)'
    BY DEF UndoubtedInv
  <2>1. Undoubted(d)
    BY <1>1 DEF Undoubted
  <2>2. CASE d # r.run
    BY <1>1, <1>4, <1>5, <2>1, <2>2 DEF ClaimInv, UndoubtedInv, Unsent
  <2>3. CASE d = r.run
    <3>1. \A q \in requests' : q.run # d
      BY <1>2, <2>1, <2>3
    <3>2. ASSUME NEW w \in Workers, worker'[w].pc # "idle", worker'[w].run = d, Unsent(worker'[w])
          PROVE  agent'[d] = "none"
      <4>1. worker'[w] # worker[w]
        BY <1>2, <2>1, <2>3, <3>2, Parts DEF ClaimInv, TicketsInv
      <4>2. o = "not_admitted"
        BY <1>5, <3>2, <4>1 DEF Unsent
      <4>3. agent[d] = "none"
        BY <2>1, <2>3 DEF ClaimInv, UndoubtedInv
      <4> QED BY <1>3, <4>2, <4>3
    <3> QED BY <3>1, <3>2
  <2> QED BY <2>2, <2>3
<1>9. FailedNeverAdmitted'
  <2>1. \A d \in Runs : outbox[d].status = "failed" => d # r.run
    BY DEF ClaimInv, FailedNeverAdmitted
  <2> QED BY <1>1, <1>4, <1>5, <2>1 DEF ClaimInv, FailedNeverAdmitted
<1> QED BY <1>6, <1>7, <1>8, <1>9 DEF ClaimInv

\* The Agent runs what it has.
LEMMA ClaimInvRun ==
    ASSUME TypeOK, ClaimInv, NEW d \in Runs, AgentStart(d) \/ AgentFinish(d)
    PROVE  ClaimInv'
<1>1. UNCHANGED <<conversation, outbox, cancelled, worker, requests>>
  BY DEF AgentStart, AgentFinish, bffVars
<1>2. /\ agent[d] # "none" /\ agent'[d] # "none"
      /\ \A e \in Runs : e # d => agent'[e] = agent[e]
  BY DEF AgentStart, AgentFinish, TypeOK
<1>3. RowsInv'
  BY <1>1, <1>2 DEF ClaimInv, RowsInv, Undoubted
<1>4. TicketsInv'
  BY <1>1 DEF ClaimInv, TicketsInv
<1>5. UndoubtedInv' /\ FailedNeverAdmitted'
  BY <1>1, <1>2 DEF ClaimInv, UndoubtedInv, Undoubted, FailedNeverAdmitted
<1> QED BY <1>3, <1>4, <1>5 DEF ClaimInv

\* A settlement: only a refusal under an undoubted lease fails a row, and
\* then nobody else ever sent it.
LEMMA ClaimInvSettle ==
    ASSUME TypeOK, ClaimInv, NEW w \in Workers, Settle(w)
    PROVE  ClaimInv'
<1> DEFINE d == worker[w].run
<1>1. UNCHANGED <<conversation, cancelled, requests, agent>>
  BY DEF Settle, MarkAdmitted, MarkUnknown, MarkNotAdmittedSticky, MarkFailed, DropSettlement, bffVars, agentVars
<1>2. worker[w].pc = "answered" /\ d \in Runs /\ outbox[d] \in Row
  BY Parts DEF Settle, MarkAdmitted, MarkUnknown, MarkNotAdmittedSticky, MarkFailed, DropSettlement, Settles
<1>3. worker'[w].pc = "idle" /\ \A v \in Workers : v # w => worker'[v] = worker[v]
  BY DEF Settle, MarkAdmitted, MarkUnknown, MarkNotAdmittedSticky, MarkFailed, DropSettlement, TypeOK, Idle
<1>4. \/ outbox' = outbox
      \/ /\ Held(w)
         /\ \A e \in Runs : e # d => outbox'[e] = outbox[e]
         /\ outbox'[d].fence = outbox[d].fence
         /\ outbox'[d].attempts = outbox[d].attempts
         /\ \/ outbox'[d].status = "admitted"
            \/ outbox'[d].status = "retryable" /\ outbox'[d].unknown
            \/ outbox'[d].status = "failed" /\ ~outbox[d].unknown /\ worker[w].outcome = "not_admitted"
  <2>1. outbox \in [Runs -> Row]
    BY DEF TypeOK
  <2>2. /\ \A st \in {"admitted", "retryable", "failed"} :
              /\ Unleased(outbox[d], st).status = st
              /\ Unleased(outbox[d], st).fence = outbox[d].fence
              /\ Unleased(outbox[d], st).attempts = outbox[d].attempts
              /\ Unleased(outbox[d], st).unknown = outbox[d].unknown
        /\ UnknownRow(outbox[d]).status = "retryable" /\ UnknownRow(outbox[d]).unknown
        /\ UnknownRow(outbox[d]).fence = outbox[d].fence /\ UnknownRow(outbox[d]).attempts = outbox[d].attempts
    BY <1>2, RowColumns DEF Open, Closed
  <2>3. CASE DropSettlement(w)
    BY <2>3 DEF DropSettlement, bffVars
  <2>4. CASE MarkAdmitted(w)
    BY <1>2, <2>1, <2>2, <2>4 DEF MarkAdmitted, Settles
  <2>5. CASE MarkUnknown(w)
    BY <1>2, <2>1, <2>2, <2>5 DEF MarkUnknown, Settles
  <2>6. CASE MarkNotAdmittedSticky(w)
    BY <1>2, <2>1, <2>2, <2>6 DEF MarkNotAdmittedSticky, Settles
  <2>7. CASE MarkFailed(w)
    BY <1>2, <2>1, <2>2, <2>7 DEF MarkFailed, Settles
  <2> QED BY <2>3, <2>4, <2>5, <2>6, <2>7 DEF Settle
<1>5. Held(w) => outbox[d].status = "leased" /\ outbox[d].fence = worker[w].fence
  BY DEF Held
<1>6. \A e \in Runs : Undoubted(e)' => Undoubted(e) /\ outbox'[e] = outbox[e]
  BY <1>4 DEF Undoubted
<1>7. RowsInv'
  BY <1>1, <1>2, <1>4, <1>5, <1>6 DEF ClaimInv, RowsInv, Undoubted
<1>8. TicketsInv'
  BY <1>1, <1>2, <1>3, <1>4, Parts DEF ClaimInv, TicketsInv
<1>9. UndoubtedInv'
  BY <1>1, <1>3, <1>6 DEF ClaimInv, UndoubtedInv
<1>10. FailedNeverAdmitted'
  <2> SUFFICES ASSUME NEW e \in Runs, outbox'[e].status = "failed"
               PROVE  (/\ agent[e] = "none"
                       /\ \A r \in requests : r.run # e
                       /\ \A v \in Workers : worker[v].run = e => worker[v].pc \notin {"claimed", "waiting"})'
    BY DEF FailedNeverAdmitted
  <2>1. CASE outbox[e].status = "failed"
    BY <1>1, <1>3, <2>1 DEF ClaimInv, FailedNeverAdmitted
  <2>2. CASE outbox[e].status # "failed"
    <3>1. e = d /\ Held(w) /\ ~outbox[d].unknown /\ worker[w].outcome = "not_admitted"
      BY <1>4, <2>2
    <3>2. Undoubted(d) /\ outbox[d].fence = 1 /\ worker[w].fence = 1
      BY <1>2, <1>5, <3>1 DEF Undoubted, ClaimInv, RowsInv
    <3>3. agent[d] = "none" /\ \A r \in requests : r.run # d
      BY <1>2, <3>1, <3>2 DEF ClaimInv, UndoubtedInv, Unsent
    <3>4. \A v \in Workers : v # w /\ worker[v].pc # "idle" => worker[v].run # d
      BY <1>2, <3>2, Parts DEF ClaimInv, TicketsInv
    <3> QED BY <1>1, <1>3, <3>1, <3>3, <3>4
  <2> QED BY <2>1, <2>2
<1> QED BY <1>7, <1>8, <1>9, <1>10 DEF ClaimInv

\* A terminal event closes a row that was claimed and raises its fence.
LEMMA ClaimInvProject ==
    ASSUME TypeOK, TypeOK', ClaimInv, NEW c \in Convs, Project(c)
    PROVE  ClaimInv'
<1> DEFINE e == agentLog[c][stream[c].watermark + 1]
           d == e.run
<1>1. UNCHANGED <<conversation, cancelled, worker, requests, agent>>
  BY DEF Project, agentVars
<1>2. d \in Runs /\ outbox[d] \in Row
  <2>1. agentLog[c] \in Seq(SourceEvent)
    BY DEF TypeOK
  <2>2. stream[c].watermark + 1 \in 1..Len(agentLog[c])
    <3>1. stream[c].watermark \in Nat
      BY DEF TypeOK, Stream
    <3>2. Len(agentLog[c]) \in Nat /\ stream[c].watermark < Len(agentLog[c])
      BY <2>1 DEF Project
    <3> QED BY <3>1, <3>2
  <2>3. e \in SourceEvent
    BY <2>1, <2>2
  <2> QED BY <2>3, Parts DEF SourceEvent
<1>3. \/ outbox' = outbox
      \/ /\ outbox[d].status \in {"leased", "retryable", "admitted"}
         /\ outbox'[d].status = "terminal"
         /\ outbox'[d].fence = outbox[d].fence + 1
         /\ outbox'[d].attempts = outbox[d].attempts
         /\ \A f \in Runs : f # d => outbox'[f] = outbox[f]
  <2>1. \/ outbox' = outbox
        \/ /\ outbox[d].status \in {"leased", "retryable", "admitted"}
           /\ outbox' = [outbox EXCEPT ![d] = TerminalRow(outbox[d])]
    BY DEF Project
  <2>2. /\ TerminalRow(outbox[d]).status = "terminal" /\ TerminalRow(outbox[d]).fence = outbox[d].fence + 1
        /\ TerminalRow(outbox[d]).attempts = outbox[d].attempts
    BY <1>2, RowColumns
  <2> QED BY <1>2, <2>1, <2>2 DEF TypeOK
<1> HIDE DEF d, e
<1>4. RowsInv'
  <2>1. CASE outbox' = outbox
    BY <1>1, <2>1 DEF ClaimInv, RowsInv, Undoubted
  <2>2. CASE outbox' # outbox
    <3>1. /\ outbox[d].fence \in Nat /\ outbox[d].fence > 0 /\ outbox[d].attempts > 0
          /\ conversation[ConvOf[d]] = "deleted" => d \in cancelled
      BY <1>2, <1>3, <2>2, Parts DEF ClaimInv, RowsInv
    <3>2. outbox'[d].status = "terminal" /\ outbox'[d].fence > 0 /\ outbox'[d].attempts > 0
      BY <1>3, <2>2, <3>1
    <3>3. \A f \in Runs : f # d => outbox'[f] = outbox[f]
      BY <1>3
    <3> QED BY <1>1, <3>1, <3>2, <3>3 DEF ClaimInv, RowsInv, Undoubted
  <2> QED BY <2>1, <2>2
<1>5. TicketsInv'
  <2>1. \A f \in Runs : /\ outbox'[f].fence \in Nat
                        /\ outbox[f].fence <= outbox'[f].fence
    BY <1>2, <1>3, Parts
  <2> QED BY <1>1, <2>1, TicketsKept DEF ClaimInv
<1>6. UndoubtedInv' /\ FailedNeverAdmitted'
  BY <1>1, <1>2, <1>3 DEF ClaimInv, UndoubtedInv, Undoubted, FailedNeverAdmitted
<1> QED BY <1>4, <1>5, <1>6 DEF ClaimInv

\* A deletion fails only rows that were never claimed, and every row that was
\* gets a cancellation.
LEMMA ClaimInvDelete ==
    ASSUME TypeOK, ClaimInv, NEW c \in Convs, DeleteConversation(c)
    PROVE  ClaimInv'
<1>1. UNCHANGED <<worker, requests, agent>>
  BY DEF DeleteConversation, agentVars
<1>2. \A b \in Convs : b # c => conversation'[b] = conversation[b]
  BY DEF DeleteConversation, TypeOK
<1>3. cancelled' = cancelled \cup {d \in Runs : ConvOf[d] = c /\ outbox[d].attempts > 0}
  BY DEF DeleteConversation, Cancellable
<1>4. \A d \in Runs : outbox'[d] = IF ConvOf[d] = c THEN DeletedRow(outbox[d]) ELSE outbox[d]
  BY DEF DeleteConversation
<1>5. \A d \in Runs :
        \/ outbox'[d] = outbox[d]
        \/ /\ outbox[d].status \in {"leased", "retryable"}
           /\ outbox'[d].status = "retryable"
           /\ outbox'[d].unknown
           /\ outbox'[d].fence = outbox[d].fence + 1
           /\ outbox'[d].attempts = outbox[d].attempts
        \/ /\ outbox[d].status \in {"pending", "leased", "retryable"}
           /\ outbox[d].attempts = 0
           /\ outbox'[d].status = "failed"
           /\ outbox'[d].fence = outbox[d].fence + 1
  BY <1>4, DeletedRowColumns, Parts
<1>6. \A d \in Runs : outbox[d].attempts = 0 => outbox[d].status \in {"absent", "pending", "failed"}
  <2>1. \A d \in Runs : outbox[d].status \in Open \cup Closed \cup {"absent"}
    BY Parts DEF Row
  <2> QED BY <2>1 DEF ClaimInv, RowsInv, Open, Closed
<1>7. \A d \in Runs : outbox[d].status = "pending" => outbox[d].fence = 0 /\ agent[d] = "none"
  BY NeverClaimed
<1>8. \A d \in Runs : conversation'[ConvOf[d]] = "deleted" /\ d \notin cancelled' =>
                         outbox'[d].status \in {"absent", "failed"}
  <2> SUFFICES ASSUME NEW d \in Runs, conversation'[ConvOf[d]] = "deleted", d \notin cancelled'
               PROVE  outbox'[d].status \in {"absent", "failed"}
    OBVIOUS
  <2>1. CASE ConvOf[d] # c
    BY <1>2, <1>3, <1>4, <2>1, Parts DEF ClaimInv, RowsInv
  <2>2. CASE ConvOf[d] = c
    <3>1. outbox[d].attempts = 0
      BY <1>3, <2>2, Parts
    <3>2. outbox[d].status \in {"absent", "pending", "failed"}
      BY <1>6, <3>1
    <3>3. outbox[d].status = "pending" => ~outbox[d].unknown
      BY DEF ClaimInv, RowsInv
    <3> QED BY <1>4, <2>2, <3>1, <3>2, <3>3, DeletedRowColumns, Parts
  <2> QED BY <2>1, <2>2
<1>9. RowsInv'
  BY <1>1, <1>5, <1>6, <1>7, <1>8, Parts DEF ClaimInv, RowsInv, Undoubted
<1>10. TicketsInv'
  BY <1>1, <1>5, Parts DEF ClaimInv, TicketsInv
<1>11. UndoubtedInv'
  BY <1>1, <1>5 DEF ClaimInv, UndoubtedInv, Undoubted
<1>12. FailedNeverAdmitted'
  <2> SUFFICES ASSUME NEW d \in Runs, outbox'[d].status = "failed"
               PROVE  /\ agent[d] = "none"
                      /\ \A r \in requests : r.run # d
                      /\ \A w \in Workers : worker[w].run = d => worker[w].pc \notin {"claimed", "waiting"}
    BY <1>1 DEF FailedNeverAdmitted
  <2>1. outbox[d].status = "failed" \/ outbox[d].attempts = 0
    BY <1>5
  <2>2. outbox[d].status \in {"failed", "pending"}
    <3>1. outbox[d].status = "absent" => outbox'[d] = outbox[d]
      BY <1>5
    <3> QED BY <1>6, <2>1, <3>1
  <2>3. CASE outbox[d].status = "failed"
    BY <2>3 DEF ClaimInv, FailedNeverAdmitted
  <2>4. CASE outbox[d].status = "pending"
    BY <2>4, NeverClaimed
  <2> QED BY <2>2, <2>3, <2>4
<1> QED BY <1>9, <1>10, <1>11, <1>12 DEF ClaimInv

\* The claim invariant holds in every reachable state.
THEOREM ClaimsSound == Spec => []ClaimInv
<1>1. Init => ClaimInv
  BY ConstantsAssumption DEF Init, ClaimInv, RowsInv, TicketsInv, UndoubtedInv, Undoubted, FailedNeverAdmitted,
     AbsentRow, Idle
<1>2. TypeOK /\ TypeOK' /\ ClaimInv /\ [Next]_vars => ClaimInv'
  <2> SUFFICES ASSUME TypeOK, TypeOK', ClaimInv, [Next]_vars PROVE ClaimInv'
    OBVIOUS
  <2>1. CASE UNCHANGED vars
    BY <2>1 DEF vars, ClaimInv, RowsInv, TicketsInv, UndoubtedInv, Undoubted, FailedNeverAdmitted
  <2>2. CASE Next
    BY <2>2, ClaimInvSubmitTurn, ClaimInvElapse, ClaimInvClaim, ClaimInvDelivery, ClaimInvAnswer, ClaimInvRun,
       ClaimInvSettle, ClaimInvProject, ClaimInvDelete DEF Next
  <2> QED BY <2>1, <2>2
<1> QED BY <1>1, <1>2, TypeCorrect, PTL DEF Spec

\* A dispatch is failed only if the Agent neither has the run nor can still
\* receive it, whatever timeouts, crashes and takeovers happened before.
THEOREM FailureIsCertain == Spec => []FailedNeverAdmitted
<1>1. ClaimInv => FailedNeverAdmitted
  BY DEF ClaimInv
<1> QED BY <1>1, ClaimsSound, PTL

\* Deleting a conversation leaves no run without a cancellation command that
\* the Agent has or may still receive.
THEOREM DeletionCancels == Spec => []DeletedRunsCancelled
<1>1. TypeOK /\ ClaimInv => DeletedRunsCancelled
  <2> SUFFICES ASSUME TypeOK, ClaimInv, NEW d \in Runs, conversation[ConvOf[d]] = "deleted", d \notin cancelled
               PROVE  /\ agent[d] = "none"
                      /\ \A r \in requests : r.run # d
                      /\ \A w \in Workers : worker[w].run = d => worker[w].pc \notin {"claimed", "waiting"}
    BY DEF DeletedRunsCancelled
  <2>1. outbox[d].status \in {"absent", "failed"}
    BY DEF ClaimInv, RowsInv
  <2>2. CASE outbox[d].status = "failed"
    BY <2>2 DEF ClaimInv, FailedNeverAdmitted
  <2>3. CASE outbox[d].status = "absent"
    <3>1. outbox[d].fence = 0
      BY <2>3 DEF ClaimInv, RowsInv
    <3> QED BY <3>1, Parts DEF ClaimInv, RowsInv, TicketsInv
  <2> QED BY <2>1, <2>2, <2>3
<1> QED BY <1>1, TypeCorrect, ClaimsSound, PTL

\* The sweep for exhausted heads at the start of every claim finds nothing:
\* a row that came back from a claim has been in doubt.
THEOREM SweepFindsNothing == Spec => []ExhaustionSweepIdle
<1>1. ClaimInv => ExhaustionSweepIdle
  BY ConstantsAssumption DEF ClaimInv, RowsInv, ExhaustionSweepIdle, Exhausted
<1> QED BY <1>1, ClaimsSound, PTL

-----------------------------------------------------------------------------
(* The conversation: its turns, its stream, its log and its ledger *)

\* The parts of rows, streams, ledgers and logs, with their types.
LEMMA ChatParts ==
    ASSUME TypeOK
    PROVE  /\ \A d \in Runs : /\ outbox[d] \in Row
                              /\ outbox[d].seq \in Nat
                              /\ outbox[d].attempts \in Nat
                              /\ outbox[d].fence \in Nat
                              /\ outbox[d].status \in {"absent", "pending"} \cup InFlight \cup Closed
                              /\ ConvOf[d] \in Convs
           /\ \A c \in Convs : /\ messageSeq[c] \in Nat
                               /\ conversation[c] \in {"active", "deleted"}
                               /\ stream[c] \in Stream
                               /\ stream[c].watermark \in Nat
                               /\ stream[c].expected \in Runs \cup {NoRun}
                               /\ stream[c].terminal \in Runs \cup {NoRun}
                               /\ stream[c].latest \in Runs \cup {NoRun}
                               /\ ledger[c] \in Seq(Frame)
                               /\ Len(ledger[c]) \in Nat
                               /\ agentLog[c] \in Seq(SourceEvent)
                               /\ Len(agentLog[c]) \in Nat
           /\ \A c \in Convs : \A i \in 1..Len(ledger[c]) : ledger[c][i] \in Frame /\ ledger[c][i].run \in Runs
           /\ \A c \in Convs : \A i \in 1..Len(agentLog[c]) : agentLog[c][i] \in SourceEvent /\ agentLog[c][i].run \in Runs
<1>1. \A d \in Runs : /\ outbox[d] \in Row
                      /\ outbox[d].seq \in Nat
                      /\ outbox[d].attempts \in Nat
                      /\ outbox[d].fence \in Nat
                      /\ outbox[d].status \in {"absent", "pending"} \cup InFlight \cup Closed
                      /\ ConvOf[d] \in Convs
  BY ConstantsAssumption DEF TypeOK, Row, InFlight, Open, Closed
<1>2. \A c \in Convs : /\ messageSeq[c] \in Nat
                       /\ conversation[c] \in {"active", "deleted"}
                       /\ stream[c] \in Stream
                       /\ stream[c].watermark \in Nat
                       /\ stream[c].expected \in Runs \cup {NoRun}
                       /\ stream[c].terminal \in Runs \cup {NoRun}
                       /\ stream[c].latest \in Runs \cup {NoRun}
  BY DEF TypeOK, Stream
<1>3. \A c \in Convs : /\ ledger[c] \in Seq(Frame)
                       /\ Len(ledger[c]) \in Nat
                       /\ agentLog[c] \in Seq(SourceEvent)
                       /\ Len(agentLog[c]) \in Nat
  BY DEF TypeOK
<1>4. \A c \in Convs : \A i \in 1..Len(ledger[c]) : ledger[c][i] \in Frame
  BY <1>3
<1>5. \A c \in Convs : \A i \in 1..Len(agentLog[c]) : agentLog[c][i] \in SourceEvent
  BY <1>3
<1> QED BY <1>1, <1>2, <1>3, <1>4, <1>5 DEF Frame, SourceEvent

\* No operation changes the sequence of a row, and none but a claim its attempts.
LEMMA SeqColumns ==
    ASSUME NEW row \in Row
    PROVE  /\ \A n \in Nat : NewRow(n).seq = n
           /\ \A w \in Workers : ClaimedRow(row, w).seq = row.seq
           /\ \A st \in Open \cup Closed : Unleased(row, st).seq = row.seq
           /\ UnknownRow(row).seq = row.seq
           /\ TerminalRow(row).seq = row.seq
           /\ DeletedRow(row).seq = row.seq
           /\ DeletedRow(row).attempts = row.attempts
<1>1. /\ \A n \in Nat : NewRow(n).seq = n
      /\ \A w \in Workers : ClaimedRow(row, w).seq = row.seq
      /\ \A st \in Open \cup Closed : Unleased(row, st).seq = row.seq
      /\ UnknownRow(row).seq = row.seq
      /\ TerminalRow(row).seq = row.seq
  BY DEF NewRow, AbsentRow, ClaimedRow, Unleased, UnknownRow, TerminalRow, Row
<1>2. DeletedRow(row).seq = row.seq /\ DeletedRow(row).attempts = row.attempts
  BY DEF DeletedRow, Unleased, Row
<1> QED BY <1>1, <1>2

\* The order of the frames of a run.
LEMMA Ranks ==
    ASSUME NEW f \in Frame
    PROVE  /\ FrameRank(f) \in {0, 1, 2}
           /\ FrameRank(f) = 0 <=> f.kind = "queued"
           /\ FrameRank(f) = 1 <=> f.kind = "started"
           /\ FrameRank(f) = 2 <=> f.kind \in {"finished", "errored"}
BY DEF FrameRank, Frame, SourceKinds

-----------------------------------------------------------------------------
(* Heads *)

\* A conversation has one head, and a turn in flight is it.
LEMMA HeadIsUnique ==
    ASSUME TypeOK, FifoInv, NEW d \in Runs, NEW e \in Runs, ConvOf[d] = ConvOf[e],
           IsHead(outbox, d), IsHead(outbox, e)
    PROVE  d = e
<1>1. outbox[d].status # "absent" /\ outbox[e].status # "absent"
  BY DEF IsHead, Open
<1>2. ~(outbox[d].seq < outbox[e].seq) /\ ~(outbox[e].seq < outbox[d].seq)
  BY DEF IsHead
<1>3. outbox[d].seq = outbox[e].seq
  BY <1>2, ChatParts
<1> QED BY <1>1, <1>3 DEF FifoInv

LEMMA InFlightIsHead ==
    ASSUME TypeOK, FifoInv, ClaimInv, NEW d \in Runs, outbox[d].status \in InFlight
    PROVE  IsHead(outbox, d)
<1>1. outbox[d].attempts > 0
  BY DEF ClaimInv, RowsInv, InFlight
<1> QED BY <1>1, ChatParts DEF FifoInv, IsHead, Open, Closed, InFlight
-----------------------------------------------------------------------------
(* What carries over a step that leaves a conversation as it was *)

\* Rows keep their sequence and their claims, stay absent or closed, and none is
\* closed or submitted.
SameRows(c) ==
    \A d \in Runs : ConvOf[d] = c =>
        /\ outbox'[d].seq = outbox[d].seq
        /\ outbox'[d].attempts = outbox[d].attempts
        /\ \/ outbox'[d].status = outbox[d].status
           \/ outbox[d].status \in InFlight /\ outbox'[d].status \in {"retryable", "admitted"}

\* Sequences and claims last if no row is claimed or reopened.
LEMMA FifoKept ==
    ASSUME TypeOK, FifoInv, UNCHANGED messageSeq,
           \A d \in Runs : /\ outbox'[d].seq = outbox[d].seq
                           /\ outbox'[d].attempts = outbox[d].attempts
                           /\ outbox'[d].status = "absent" <=> outbox[d].status = "absent"
                           /\ outbox[d].status \in Closed => outbox'[d].status \in Closed
    PROVE  FifoInv'
BY DEF FifoInv

\* A row stays open, closed, absent or in flight, and a head stays a head.
LEMMA SameStatus ==
    ASSUME NEW c \in Convs, SameRows(c), NEW d \in Runs, ConvOf[d] = c
    PROVE  /\ outbox'[d].status \in Open <=> outbox[d].status \in Open
           /\ outbox'[d].status \in Closed <=> outbox[d].status \in Closed
           /\ outbox'[d].status \in InFlight <=> outbox[d].status \in InFlight
           /\ outbox'[d].status = "absent" <=> outbox[d].status = "absent"
           /\ outbox'[d].status = "failed" <=> outbox[d].status = "failed"
           /\ outbox'[d].status = "terminal" <=> outbox[d].status = "terminal"
           /\ IsHead(outbox', d) <=> IsHead(outbox, d)
<1>1. ASSUME NEW e \in Runs, ConvOf[e] = c
      PROVE  /\ outbox'[e].status \in Open <=> outbox[e].status \in Open
             /\ outbox'[e].status \in Closed <=> outbox[e].status \in Closed
             /\ outbox'[e].status \in InFlight <=> outbox[e].status \in InFlight
             /\ outbox'[e].status = "absent" <=> outbox[e].status = "absent"
             /\ outbox'[e].status = "failed" <=> outbox[e].status = "failed"
             /\ outbox'[e].status = "terminal" <=> outbox[e].status = "terminal"
             /\ outbox'[e].seq = outbox[e].seq
  BY <1>1 DEF SameRows, Open, Closed, InFlight
<1>2. IsHead(outbox', d) <=> IsHead(outbox, d)
  BY <1>1 DEF IsHead
<1> QED BY <1>1, <1>2

LEMMA StreamKept ==
    ASSUME TypeOK, NEW c \in Convs, StreamSound(c), SameRows(c),
           conversation'[c] = conversation[c], stream'[c] = stream[c]
    PROVE  StreamSound(c)'
<1>1. CASE conversation[c] = "deleted"
  BY <1>1, SameStatus DEF StreamSound, SameRows, InFlight
<1>2. CASE conversation[c] = "active"
  <2>1. \A d \in Runs : ConvOf[d] = c =>
          /\ outbox'[d].status \in InFlight => stream[c].expected = d /\ stream[c].state = "active"
          /\ outbox'[d].status = "failed" => outbox'[d].attempts > 0
    BY <1>2, SameStatus DEF StreamSound, SameRows
  <2>2. stream[c].expected # NoRun => ConvOf[stream[c].expected] = c /\ outbox'[stream[c].expected].status \in InFlight
    BY <1>2, SameStatus, ChatParts DEF StreamSound
  <2>3. stream[c].terminal # NoRun => ConvOf[stream[c].terminal] = c /\ outbox'[stream[c].terminal].status \in Closed
    BY <1>2, SameStatus, ChatParts DEF StreamSound
  <2>4. stream[c].latest # NoRun => ConvOf[stream[c].latest] = c /\ outbox'[stream[c].latest].status \in InFlight \cup Closed
    BY <1>2, SameStatus, ChatParts DEF StreamSound
  <2> QED BY <1>2, <2>1, <2>2, <2>3, <2>4 DEF StreamSound
<1> QED BY <1>1, <1>2, ChatParts

\* The Agent only goes on, and nothing is logged or projected.
LEMMA LogKept ==
    ASSUME TypeOK, NEW c \in Convs, LogSound(c),
           stream'[c].watermark = stream[c].watermark, agentLog'[c] = agentLog[c],
           \A d \in Runs : ConvOf[d] = c =>
               /\ outbox'[d].status = "terminal" => outbox[d].status = "terminal"
               /\ agent[d] \in {"running", "ended"} => agent'[d] = agent[d]
    PROVE  LogSound(c)'
<1>1. \A i \in 1..Len(agentLog[c]) : agentLog[c][i].run \in Runs
  BY ChatParts
<1> QED BY <1>1 DEF LogSound

\* Nothing is told, submitted or closed, and what is projected stays.
LEMMA LedgerKept ==
    ASSUME TypeOK, NEW c \in Convs, LedgerSound(c), SerialLedger(c),
           conversation'[c] = conversation[c], ledger'[c] = ledger[c],
           stream'[c].watermark = stream[c].watermark,
           \A j \in 1..stream[c].watermark : agentLog'[c][j] = agentLog[c][j],
           \A d \in Runs : ConvOf[d] = c =>
               /\ outbox'[d].seq = outbox[d].seq
               /\ outbox'[d].status = "absent" <=> outbox[d].status = "absent"
               /\ outbox'[d].status \in Open <=> outbox[d].status \in Open
               /\ outbox'[d].status \in Closed <=> outbox[d].status \in Closed
    PROVE  LedgerSound(c)' /\ SerialLedger(c)'
<1>1. \A i \in 1..Len(ledger[c]) : ledger[c][i].run \in Runs /\ ConvOf[ledger[c][i].run] = c
  BY ChatParts DEF LedgerSound
<1>2. \A d \in Runs : ConvOf[d] = c => (IsHead(outbox', d) <=> IsHead(outbox, d))
  BY DEF IsHead
<1>3. \A i \in 1..Len(ledger[c]) :
        /\ outbox'[ledger[c][i].run].status # "absent"
        /\ \E j \in 1..Len(ledger[c]) : ledger[c][j] = [kind |-> "queued", run |-> ledger[c][i].run]
        /\ ledger[c][i].kind = "started" => \E j \in 1..stream[c].watermark : agentLog'[c][j] = ledger[c][i]
  BY <1>1 DEF LedgerSound
<1>4. ASSUME conversation[c] = "active"
      PROVE  /\ \A i \in 1..Len(ledger[c]) :
                   outbox'[ledger[c][i].run].status \in Open => IsHead(outbox', ledger[c][i].run)
             /\ ledger[c] # <<>> => (FrameRank(ledger[c][Len(ledger[c])]) = 2 <=>
                                        outbox'[ledger[c][Len(ledger[c])].run].status \in Closed)
             /\ \A d \in Runs : ConvOf[d] = c /\ IsHead(outbox', d) =>
                   ledger[c] # <<>> /\ ledger[c][Len(ledger[c])].run = d
  <2>1. \A i \in 1..Len(ledger[c]) :
           outbox'[ledger[c][i].run].status \in Open => IsHead(outbox', ledger[c][i].run)
    BY <1>1, <1>2, <1>4 DEF LedgerSound
  <2>2. ledger[c] # <<>> => Len(ledger[c]) \in 1..Len(ledger[c])
    BY ChatParts
  <2>3. ledger[c] # <<>> => (FrameRank(ledger[c][Len(ledger[c])]) = 2 <=>
                                outbox'[ledger[c][Len(ledger[c])].run].status \in Closed)
    BY <1>1, <1>4, <2>2 DEF LedgerSound
  <2>4. \A d \in Runs : ConvOf[d] = c /\ IsHead(outbox', d) =>
           ledger[c] # <<>> /\ ledger[c][Len(ledger[c])].run = d
    BY <1>2, <1>4 DEF LedgerSound
  <2> QED BY <2>1, <2>3, <2>4
<1>5. LedgerSound(c)'
  BY <1>1, <1>3, <1>4 DEF LedgerSound
<1>6. ASSUME NEW i \in 1..(Len(ledger[c]) - 1)
      PROVE  Follows(outbox', ledger[c][i], ledger[c][i + 1])
  <2>1. i \in 1..Len(ledger[c]) /\ i + 1 \in 1..Len(ledger[c])
    BY ChatParts
  <2>2. Follows(outbox, ledger[c][i], ledger[c][i + 1])
    BY <1>6 DEF SerialLedger
  <2> QED BY <1>1, <2>1, <2>2 DEF Follows, FrameRank
<1> QED BY <1>5, <1>6 DEF SerialLedger
\* What is said of a conversation.
Sound(c) == StreamSound(c) /\ LogSound(c) /\ LedgerSound(c) /\ SerialLedger(c)

LEMMA Undisturbed ==
    ASSUME TypeOK, NEW c \in Convs, Sound(c), SameRows(c),
           conversation'[c] = conversation[c], stream'[c] = stream[c],
           ledger'[c] = ledger[c], agentLog'[c] = agentLog[c],
           \A d \in Runs : ConvOf[d] = c /\ agent[d] \in {"running", "ended"} => agent'[d] = agent[d]
    PROVE  Sound(c)'
<1>1. StreamSound(c)'
  BY StreamKept DEF Sound
<1>2. LogSound(c)'
  BY LogKept, SameStatus DEF Sound
<1>3. LedgerSound(c)' /\ SerialLedger(c)'
  <2>1. \A d \in Runs : ConvOf[d] = c =>
               /\ outbox'[d].seq = outbox[d].seq
               /\ outbox'[d].status = "absent" <=> outbox[d].status = "absent"
               /\ outbox'[d].status \in Open <=> outbox[d].status \in Open
               /\ outbox'[d].status \in Closed <=> outbox[d].status \in Closed
    BY SameStatus DEF SameRows
  <2> QED BY <2>1, LedgerKept DEF Sound
<1> QED BY <1>1, <1>2, <1>3 DEF Sound

LEMMA MessageKept ==
    ASSUME TypeOK, MessageInv, UNCHANGED <<conversation, message>>,
           \A d \in Runs : /\ outbox'[d].status \in Open <=> outbox[d].status \in Open
                           /\ outbox'[d].status \in Closed <=> outbox[d].status \in Closed
                           /\ agent[d] = "ended" => agent'[d] = "ended"
    PROVE  MessageInv'
BY DEF MessageInv, OutcomeAgreement

-----------------------------------------------------------------------------
(* Steps that no conversation notices *)

Quiet ==
    \/ \E d \in Runs : Elapse(d)
    \/ \E w \in Workers : \/ Deliver(w) \/ RefuseLocally(w) \/ GiveUp(w) \/ Crash(w)
                          \/ MarkAdmitted(w) \/ MarkUnknown(w) \/ MarkNotAdmittedSticky(w) \/ DropSettlement(w)
    \/ \E r \in requests : AgentAccept(r) \/ AgentReject(r)

\* Time, delivery, settlements that do not fail, and the Agent's answers move a row
\* between the states in flight at most.
LEMMA QuietColumns ==
    ASSUME TypeOK, Quiet
    PROVE  /\ UNCHANGED <<conversation, messageSeq, message, stream, ledger, agentLog>>
           /\ \A c \in Convs : SameRows(c)
           /\ \A d \in Runs : agent[d] # "none" => agent'[d] = agent[d]
<1>1. outbox \in [Runs -> Row]
  BY DEF TypeOK
<1>2. ASSUME NEW d \in Runs, Elapse(d)
      PROVE  /\ UNCHANGED <<conversation, messageSeq, message, stream, ledger, agentLog, agent>>
             /\ \A c \in Convs : SameRows(c)
  <2>1. \A e \in Runs : /\ outbox'[e].seq = outbox[e].seq
                        /\ outbox'[e].attempts = outbox[e].attempts
                        /\ outbox'[e].status = outbox[e].status
    BY <1>1, <1>2 DEF Elapse, Row
  <2> QED BY <1>2, <2>1 DEF Elapse, agentVars, SameRows
<1>3. ASSUME NEW w \in Workers,
             Deliver(w) \/ RefuseLocally(w) \/ GiveUp(w) \/ Crash(w) \/ DropSettlement(w)
      PROVE  /\ UNCHANGED <<conversation, messageSeq, message, stream, ledger, agentLog, agent>>
             /\ \A c \in Convs : SameRows(c)
  BY <1>3 DEF Deliver, RefuseLocally, GiveUp, Crash, DropSettlement, bffVars, agentVars, SameRows
<1>4. ASSUME NEW w \in Workers, MarkAdmitted(w) \/ MarkUnknown(w) \/ MarkNotAdmittedSticky(w)
      PROVE  /\ UNCHANGED <<conversation, messageSeq, message, stream, ledger, agentLog, agent>>
             /\ \A c \in Convs : SameRows(c)
  <2> DEFINE d == worker[w].run
  <2>1. worker[w].pc = "answered" /\ outbox[d].status = "leased"
    BY <1>4 DEF MarkAdmitted, MarkUnknown, MarkNotAdmittedSticky, Settles, Held
  <2>2. d \in Runs /\ outbox[d] \in Row
    BY <2>1, Parts
  <2>3. PICK row \in {Unleased(outbox[d], "admitted"), Unleased(outbox[d], "retryable"), UnknownRow(outbox[d])} :
           outbox' = [outbox EXCEPT ![d] = row]
    BY <1>4 DEF MarkAdmitted, MarkUnknown, MarkNotAdmittedSticky
  <2>4. /\ row.seq = outbox[d].seq /\ row.attempts = outbox[d].attempts
        /\ row.status \in {"retryable", "admitted"}
    BY <2>2, RowColumns, SeqColumns DEF Open
  <2>5. \A c \in Convs : SameRows(c)
    BY <1>1, <2>1, <2>2, <2>3, <2>4 DEF SameRows, InFlight
  <2> QED BY <1>4, <2>5 DEF MarkAdmitted, MarkUnknown, MarkNotAdmittedSticky, agentVars
<1>5. ASSUME NEW r \in requests, AgentAccept(r) \/ AgentReject(r)
      PROVE  /\ UNCHANGED <<conversation, messageSeq, message, stream, ledger, agentLog>>
             /\ \A c \in Convs : SameRows(c)
             /\ \A d \in Runs : agent[d] # "none" => agent'[d] = agent[d]
  <2>1. agent \in [Runs -> {"none", "admitted", "running", "ended"}]
    BY DEF TypeOK
  <2> QED BY <1>5, <2>1 DEF AgentAccept, AgentReject, bffVars, agentVars, SameRows
<1> QED BY <1>2, <1>3, <1>4, <1>5 DEF Quiet

LEMMA ChatInvQuiet ==
    ASSUME TypeOK, ChatInv, Quiet
    PROVE  ChatInv'
<1>1. /\ UNCHANGED <<conversation, messageSeq, message, stream, ledger, agentLog>>
      /\ \A c \in Convs : SameRows(c)
      /\ \A d \in Runs : agent[d] # "none" => agent'[d] = agent[d]
  BY QuietColumns
<1>2. \A d \in Runs : /\ outbox'[d].seq = outbox[d].seq
                      /\ outbox'[d].attempts = outbox[d].attempts
                      /\ outbox'[d].status = "absent" <=> outbox[d].status = "absent"
                      /\ outbox'[d].status \in Open <=> outbox[d].status \in Open
                      /\ outbox'[d].status \in Closed <=> outbox[d].status \in Closed
  BY <1>1, SameStatus, ChatParts DEF SameRows
<1>3. FifoInv'
  BY <1>1, <1>2, FifoKept DEF ChatInv
<1>4. MessageInv'
  BY <1>1, <1>2, MessageKept DEF ChatInv
<1>5. \A c \in Convs : Sound(c)'
  BY <1>1, Undisturbed DEF ChatInv, Sound
<1> QED BY <1>3, <1>4, <1>5 DEF ChatInv, Sound

\* The Agent's log grows by a run it knows and has not ended.
LEMMA ChatInvRun ==
    ASSUME TypeOK, ChatInv, NEW d \in Runs, AgentStart(d) \/ AgentFinish(d)
    PROVE  ChatInv'
<1> DEFINE c == ConvOf[d]
<1>1. UNCHANGED <<conversation, messageSeq, outbox, message, stream, ledger>>
  BY DEF AgentStart, AgentFinish, bffVars
<1>2. c \in Convs
  BY ChatParts
<1>3. /\ agent[d] \in {"admitted", "running"}
      /\ \A e \in Runs : e # d => agent'[e] = agent[e]
  BY DEF AgentStart, AgentFinish, TypeOK
<1>4. PICK kind \in SourceKinds :
        /\ agentLog' = [agentLog EXCEPT ![c] = Append(@, [kind |-> kind, run |-> d])]
        /\ \/ kind = "started" /\ agent[d] = "admitted" /\ agent'[d] = "running"
           \/ kind # "started" /\ agent'[d] = "ended"
  BY DEF AgentStart, AgentFinish, AgentEmit, SourceKinds, TypeOK
<1> DEFINE e == [kind |-> kind, run |-> d]
<1>5. /\ agentLog'[c] = Append(agentLog[c], e)
      /\ \A b \in Convs : b # c => agentLog'[b] = agentLog[b]
  BY <1>2, <1>4 DEF TypeOK
<1>6. /\ Len(agentLog'[c]) = Len(agentLog[c]) + 1
      /\ agentLog'[c][Len(agentLog[c]) + 1] = e
      /\ \A i \in 1..Len(agentLog[c]) : agentLog'[c][i] = agentLog[c][i]
  <2>1. agentLog[c] \in Seq(SourceEvent)
    BY <1>2, ChatParts
  <2> HIDE DEF e, c
  <2> QED BY <1>5, <2>1
<1>7. FifoInv' /\ MessageInv'
  <2>1. FifoInv'
    BY <1>1 DEF ChatInv, FifoInv
  <2> QED BY <1>1, <1>3, <2>1, MessageKept DEF ChatInv
<1>8. ASSUME NEW b \in Convs, b # c PROVE Sound(b)'
  <2>1. SameRows(b)
    BY <1>1 DEF SameRows
  <2> QED BY <1>1, <1>3, <1>5, <1>8, <2>1, Undisturbed DEF ChatInv, Sound
<1>9. Sound(c)'
  <2>1. StreamSound(c)'
    BY <1>1, <1>2 DEF ChatInv, StreamSound
  <2>2. LedgerSound(c)' /\ SerialLedger(c)'
    <3>1. \A j \in 1..stream[c].watermark : agentLog'[c][j] = agentLog[c][j]
      BY <1>2, <1>6, ChatParts DEF ChatInv, LogSound
    <3> QED BY <1>1, <1>2, <3>1, LedgerKept DEF ChatInv
  <2>3. LogSound(c)'
    <3> DEFINE n == Len(agentLog[c])
    <3>0. LogSound(c) /\ n \in Nat /\ stream[c].watermark \in Nat
      BY <1>2, ChatParts DEF ChatInv
    <3>1. stream'[c].watermark <= Len(agentLog'[c])
      BY <1>1, <1>6, <3>0 DEF LogSound
    <3>2. \A i \in 1..n : agentLog[c][i].run \in Runs
      BY <1>2, ChatParts
    <3>3. \A i \in 1..n : agentLog[c][i].run = d => agentLog[c][i].kind = "started" /\ agent[d] = "running"
      BY <1>3, <3>0 DEF LogSound
    <3>4. \A i \in 1..Len(agentLog'[c]) : i \in 1..n \/ i = n + 1
      BY <1>6, <3>0
    <3>5. \A i \in 1..Len(agentLog'[c]) :
            /\ ConvOf[agentLog'[c][i].run] = c
            /\ agent'[agentLog'[c][i].run] \in {"running", "ended"}
            /\ agentLog'[c][i].kind # "started" => agent'[agentLog'[c][i].run] = "ended"
      <4>1. ASSUME NEW i \in 1..n
            PROVE  /\ ConvOf[agentLog[c][i].run] = c
                   /\ agent'[agentLog[c][i].run] \in {"running", "ended"}
                   /\ agentLog[c][i].kind # "started" => agent'[agentLog[c][i].run] = "ended"
        BY <1>3, <1>4, <3>0, <3>2, <3>3 DEF LogSound
      <4> QED BY <1>4, <1>6, <3>4, <4>1
    <3>6. ASSUME NEW i \in 1..Len(agentLog'[c]), NEW j \in 1..Len(agentLog'[c]), i < j,
                 agentLog'[c][j].run = agentLog'[c][i].run
          PROVE  agentLog'[c][i].kind = "started" /\ agentLog'[c][j].kind # "started"
      <4>1. i \in 1..n
        BY <3>0, <3>4, <3>6
      <4>2. CASE j \in 1..n
        BY <1>6, <3>0, <3>6, <4>1, <4>2 DEF LogSound
      <4>3. CASE j = n + 1
        <5>1. agentLog[c][i].run = d
          BY <1>6, <3>6, <4>1, <4>3
        <5> QED BY <1>4, <1>6, <3>3, <4>1, <4>3, <5>1
      <4> QED BY <3>4, <4>2, <4>3
    <3>7. ASSUME NEW f \in Runs, ConvOf[f] = c, outbox'[f].status = "terminal"
          PROVE  /\ agent'[f] = "ended"
                 /\ \A i \in 1..Len(agentLog'[c]) : agentLog'[c][i].run = f => i <= stream'[c].watermark
      <4>1. agent[f] = "ended" /\ f # d
        BY <1>1, <1>3, <3>0, <3>7 DEF LogSound
      <4> QED BY <1>1, <1>3, <1>6, <3>0, <3>4, <3>7, <4>1 DEF LogSound
    <3> QED BY <3>1, <3>5, <3>6, <3>7 DEF LogSound
  <2> QED BY <2>1, <2>2, <2>3 DEF Sound
<1> QED BY <1>7, <1>8, <1>9 DEF ChatInv, Sound

-----------------------------------------------------------------------------
(* The announcement of the next head *)

\* A set of rows with different sequences has one head per conversation.
LEMMA OneHead ==
    ASSUME NEW box \in [Runs -> Row], NEW d \in Runs, NEW e \in Runs, ConvOf[d] = ConvOf[e],
           d # e /\ box[d].seq = box[e].seq => box[d].status = "absent" \/ box[e].status = "absent",
           IsHead(box, d), IsHead(box, e)
    PROVE  d = e
<1>1. box[d].seq \in Nat /\ box[e].seq \in Nat
  BY DEF Row
<1>2. box[d].status # "absent" /\ box[e].status # "absent"
  BY DEF IsHead, Open
<1>3. ~(box[d].seq < box[e].seq) /\ ~(box[e].seq < box[d].seq)
  BY DEF IsHead
<1> QED BY <1>1, <1>2, <1>3

\* The last statement of a transaction writes one ledger: the frames it was given,
\* and the new head's announcement if they lack it.
LEMMA QueuedHead ==
    ASSUME ledger \in [Convs -> Seq(Frame)], outbox' \in [Runs -> Row], FifoInv',
           NEW c \in Convs, NEW K \in Seq(Frame), ProjectQueuedHead(c, K)
    PROVE  /\ \A b \in Convs : b # c => ledger'[b] = ledger[b]
           /\ \/ /\ ledger'[c] = K
                 /\ conversation[c] = "active" => \A d \in Runs : ConvOf[d] = c /\ IsHead(outbox', d) =>
                        \E i \in 1..Len(K) : K[i] = [kind |-> "queued", run |-> d]
              \/ \E d \in Runs :
                    /\ ConvOf[d] = c /\ IsHead(outbox', d) /\ conversation[c] = "active"
                    /\ \A i \in 1..Len(K) : K[i] # [kind |-> "queued", run |-> d]
                    /\ ledger'[c] = Append(K, [kind |-> "queued", run |-> d])
<1> DEFINE heads == {d \in Runs : ConvOf[d] = c /\ IsHead(outbox', d) /\ conversation[c] = "active"}
           queued == {[kind |-> "queued", run |-> d] : d \in heads}
           missing == {f \in queued : \A i \in DOMAIN K : K[i] # f}
           f == CHOOSE g \in missing : TRUE
<1>1. ledger' = [ledger EXCEPT ![c] = IF missing = {} THEN K ELSE Append(K, f)]
  BY DEF ProjectQueuedHead
<1>2. DOMAIN K = 1..Len(K)
  OBVIOUS
<1>3. \A b \in Convs : b # c => ledger'[b] = ledger[b]
  <2> HIDE DEF missing, f
  <2> QED BY <1>1
<1>4. ledger'[c] = IF missing = {} THEN K ELSE Append(K, f)
  <2> HIDE DEF missing, f
  <2> QED BY <1>1
<1>5. CASE missing = {}
  <2>1. ASSUME NEW d \in Runs, conversation[c] = "active", ConvOf[d] = c, IsHead(outbox', d)
        PROVE  \E i \in 1..Len(K) : K[i] = [kind |-> "queued", run |-> d]
    <3>1. [kind |-> "queued", run |-> d] \in queued
      BY <2>1
    <3>2. [kind |-> "queued", run |-> d] \notin missing
      BY <1>5
    <3> HIDE DEF queued
    <3> QED BY <1>2, <3>1, <3>2
  <2> QED BY <1>3, <1>4, <1>5, <2>1
<1>6. CASE missing # {}
  <2>1. f \in missing
    <3> HIDE DEF missing
    <3> QED BY <1>6
  <2>2. f \in queued /\ \A i \in 1..Len(K) : K[i] # f
    BY <1>2, <2>1
  <2> HIDE DEF f
  <2>3. PICK d \in heads : f = [kind |-> "queued", run |-> d]
    BY <2>2
  <2> HIDE DEF missing
  <2> QED BY <1>3, <1>4, <1>6, <2>2, <2>3
<1> QED BY <1>5, <1>6

\* The frames K, told of conversation c after the step: all announced, each run
\* after the one before, none but the last open, and that one the head.
Told(c, K) ==
    /\ \A i \in 1..Len(K) :
          /\ ConvOf[K[i].run] = c
          /\ outbox'[K[i].run].status # "absent"
          /\ \E j \in 1..Len(K) : K[j] = [kind |-> "queued", run |-> K[i].run]
          /\ K[i].kind = "started" => \E j \in 1..stream'[c].watermark : agentLog'[c][j] = K[i]
    /\ K # <<>> => K[1].kind = "queued"
    /\ \A i \in 1..(Len(K) - 1) : Follows(outbox', K[i], K[i + 1])
    /\ conversation[c] = "active" =>
          /\ \A i \in 1..Len(K) : outbox'[K[i].run].status \in Open =>
                IsHead(outbox', K[i].run) /\ K[i].run = K[Len(K)].run
          /\ K # <<>> => /\ FrameRank(K[Len(K)]) = 2 <=> outbox'[K[Len(K)].run].status \in Closed
                         /\ outbox'[K[Len(K)].run].status \in Closed => outbox'[K[Len(K)].run].attempts > 0

\* A ledger of such frames is sound if they announce the head.
LEMMA ToldIsSound ==
    ASSUME NEW c \in Convs, NEW K \in Seq(Frame), UNCHANGED conversation, Told(c, K), ledger'[c] = K,
           conversation[c] = "active" => \A d \in Runs : ConvOf[d] = c /\ IsHead(outbox', d) =>
               \E i \in 1..Len(K) : K[i] = [kind |-> "queued", run |-> d]
    PROVE  LedgerSound(c)' /\ SerialLedger(c)'
<1>1. ASSUME conversation[c] = "active", NEW d \in Runs, ConvOf[d] = c, IsHead(outbox', d)
      PROVE  K # <<>> /\ K[Len(K)].run = d
  <2>1. PICK i \in 1..Len(K) : K[i] = [kind |-> "queued", run |-> d]
    BY <1>1
  <2>2. K[i].run = d /\ outbox'[d].status \in Open /\ K # <<>>
    BY <1>1, <2>1 DEF IsHead
  <2> QED BY <1>1, <2>1, <2>2 DEF Told
<1>2. LedgerSound(c)'
  BY <1>1 DEF LedgerSound, Told
<1>3. SerialLedger(c)'
  BY DEF SerialLedger, Told
<1> QED BY <1>2, <1>3

\* So is the ledger after the announcement.
LEMMA Announced ==
    ASSUME ledger \in [Convs -> Seq(Frame)], outbox' \in [Runs -> Row], FifoInv',
           NEW c \in Convs, NEW K \in Seq(Frame), UNCHANGED conversation,
           Told(c, K), ProjectQueuedHead(c, K)
    PROVE  LedgerSound(c)' /\ SerialLedger(c)'
<1> DEFINE n == Len(K)
<1>1. n \in Nat /\ (K # <<>> => n \in 1..n) /\ \A i \in 1..n : K[i] \in Frame /\ K[i].run \in Runs
  <2>1. n \in Nat /\ (K # <<>> => n \in 1..n) /\ \A i \in 1..n : K[i] \in Frame
    OBVIOUS
  <2> QED BY <2>1 DEF Frame
<1>2. \A d \in Runs : /\ outbox'[d].seq \in Nat
                      /\ outbox'[d].status \in Open \cup Closed \cup {"absent"}
  BY DEF Row
<1>3. ASSUME NEW d \in Runs, NEW e \in Runs, ConvOf[d] = ConvOf[e], IsHead(outbox', d), IsHead(outbox', e)
      PROVE  d = e
  BY <1>3, OneHead DEF FifoInv
<1>4. CASE /\ ledger'[c] = K
           /\ conversation[c] = "active" => \A d \in Runs : ConvOf[d] = c /\ IsHead(outbox', d) =>
                 \E i \in 1..n : K[i] = [kind |-> "queued", run |-> d]
  BY <1>4, ToldIsSound
<1>5. ASSUME NEW d \in Runs, ConvOf[d] = c, IsHead(outbox', d), conversation[c] = "active",
             \A i \in 1..n : K[i] # [kind |-> "queued", run |-> d],
             ledger'[c] = Append(K, [kind |-> "queued", run |-> d])
      PROVE  LedgerSound(c)' /\ SerialLedger(c)'
  <2> DEFINE q == [kind |-> "queued", run |-> d]
             L == ledger'[c]
  <2>1. Len(L) = n + 1 /\ L[n + 1] = q /\ \A i \in 1..n : L[i] = K[i]
    <3>1. L = Append(K, q)
      BY <1>5
    <3> HIDE DEF q, L
    <3> QED BY <3>1
  <2>2. \A i \in 1..Len(L) : i \in 1..n \/ i = n + 1
    BY <1>1, <2>1
  <2>3. \A i \in 1..n : K[i].run # d
    BY <1>5 DEF Told
  <2>4. \A i \in 1..n : outbox'[K[i].run].status \in Closed
    <3>1. ASSUME NEW i \in 1..n, outbox'[K[i].run].status \in Open PROVE FALSE
      BY <1>1, <1>3, <1>5, <2>3, <3>1 DEF Told
    <3> QED BY <1>1, <1>2, <3>1 DEF Told
  <2>5. outbox'[d].status \in Open /\ outbox'[d].status \notin Closed /\ outbox'[d].status # "absent"
    BY <1>5 DEF IsHead, Open, Closed
  <2>6. n + 1 \in 1..Len(L)
    BY <1>1, <2>1
  <2>7. LedgerSound(c)'
    <3>1. ASSUME NEW i \in 1..Len(L)
          PROVE  /\ ConvOf[L[i].run] = c
                 /\ outbox'[L[i].run].status # "absent"
                 /\ \E j \in 1..Len(L) : L[j] = [kind |-> "queued", run |-> L[i].run]
                 /\ L[i].kind = "started" => \E j \in 1..stream'[c].watermark : agentLog'[c][j] = L[i]
                 /\ outbox'[L[i].run].status \in Open => IsHead(outbox', L[i].run)
      <4>1. CASE i = n + 1
        BY <1>5, <2>1, <2>5, <2>6, <4>1
      <4>2. CASE i \in 1..n
        <5>1. PICK j \in 1..n : K[j] = [kind |-> "queued", run |-> K[i].run]
          BY <4>2 DEF Told
        <5>2. j \in 1..Len(L) /\ L[j] = K[j]
          BY <1>1, <2>1
        <5>3. /\ ConvOf[K[i].run] = c
              /\ outbox'[K[i].run].status # "absent"
              /\ K[i].kind = "started" => \E j2 \in 1..stream'[c].watermark : agentLog'[c][j2] = K[i]
              /\ outbox'[K[i].run].status \in Open => IsHead(outbox', K[i].run)
          BY <1>5, <4>2 DEF Told
        <5> QED BY <2>1, <4>2, <5>1, <5>2, <5>3
      <4> QED BY <2>2, <4>1, <4>2
    <3>2. FrameRank(q) = 0
      BY DEF FrameRank
    <3>3. \A h \in Runs : ConvOf[h] = c /\ IsHead(outbox', h) => h = d
      BY <1>3, <1>5
    <3>4. L # <<>> /\ L[Len(L)] = q /\ q.run = d
      BY <1>1, <2>1
    <3>5. FrameRank(L[Len(L)]) = 2 <=> outbox'[L[Len(L)].run].status \in Closed
      BY <2>5, <3>2, <3>4
    <3>6. \A h \in Runs : ConvOf[h] = c /\ IsHead(outbox', h) => L # <<>> /\ L[Len(L)].run = h
      BY <3>3, <3>4
    <3> HIDE DEF q
    <3> QED BY <3>1, <3>5, <3>6 DEF LedgerSound
  <2>8. SerialLedger(c)'
    <3>1. L[1].kind = "queued"
      <4>1. CASE n = 0
        BY <2>1, <4>1
      <4>2. CASE n # 0
        <5>1. 1 \in 1..n /\ K # <<>>
          BY <1>1, <4>2
        <5> QED BY <2>1, <5>1 DEF Told
      <4> QED BY <4>1, <4>2
    <3>2. ASSUME NEW i \in 1..(Len(L) - 1) PROVE Follows(outbox', L[i], L[i + 1])
      <4>1. i \in 1..n
        BY <1>1, <2>1
      <4>2. CASE i # n
        <5>1. i \in 1..(n - 1) /\ i + 1 \in 1..n
          BY <1>1, <4>1, <4>2
        <5> QED BY <2>1, <4>1, <5>1 DEF Told
      <4>3. CASE i = n
        <5>1. K # <<>> /\ FrameRank(K[n]) = 2 /\ outbox'[K[n].run].attempts > 0
          BY <1>1, <1>5, <2>4, <4>1, <4>3 DEF Told
        <5>2. K[n].run \in Runs /\ ConvOf[K[n].run] = ConvOf[d] /\ K[n].run # d
          BY <1>1, <1>5, <2>3, <4>1, <4>3 DEF Told
        <5>3. ~(outbox'[d].seq < outbox'[K[n].run].seq)
          BY <2>5, <5>1, <5>2 DEF FifoInv
        <5>4. outbox'[d].seq # outbox'[K[n].run].seq
          BY <2>5, <5>2, <2>4, <4>1, <4>3 DEF FifoInv, Closed
        <5>5. outbox'[K[n].run].seq < outbox'[d].seq
          BY <1>2, <5>2, <5>3, <5>4
        <5> QED BY <2>1, <4>1, <4>3, <5>1, <5>2, <5>5 DEF Follows
      <4> QED BY <4>2, <4>3
    <3> QED BY <3>1, <3>2 DEF SerialLedger
  <2> QED BY <2>7, <2>8
<1>6. \/ /\ ledger'[c] = K
         /\ conversation[c] = "active" => \A d \in Runs : ConvOf[d] = c /\ IsHead(outbox', d) =>
               \E i \in 1..Len(K) : K[i] = [kind |-> "queued", run |-> d]
      \/ \E d \in Runs :
            /\ ConvOf[d] = c /\ IsHead(outbox', d) /\ conversation[c] = "active"
            /\ \A i \in 1..Len(K) : K[i] # [kind |-> "queued", run |-> d]
            /\ ledger'[c] = Append(K, [kind |-> "queued", run |-> d])
  BY QueuedHead
<1> QED BY <1>4, <1>5, <1>6

\* A closed turn of a live conversation was claimed.
LEMMA ClosedWasClaimed ==
    ASSUME TypeOK, ClaimInv, NEW c \in Convs, StreamSound(c), conversation[c] = "active",
           NEW d \in Runs, ConvOf[d] = c, outbox[d].status \in Closed
    PROVE  outbox[d].attempts > 0
BY DEF StreamSound, ClaimInv, RowsInv, Closed

LEMMA ChatInvSubmit ==
    ASSUME TypeOK, TypeOK', ChatInv, ClaimInv, NEW d \in Runs, SubmitTurn(d)
    PROVE  ChatInv'
<1> DEFINE c == ConvOf[d]
           K == ledger[c]
<1>1. /\ c \in Convs /\ conversation[c] = "active" /\ outbox[d].status = "absent"
      /\ messageSeq[c] \in Nat /\ messageSeq'[c] = messageSeq[c] + 2
      /\ \A b \in Convs : b # c => messageSeq'[b] = messageSeq[b]
      /\ UNCHANGED <<conversation, stream, agent, agentLog>>
      /\ ProjectQueuedHead(c, K)
  BY ChatParts DEF SubmitTurn, TypeOK, agentVars
<1>2. /\ \A e \in Runs : e # d => outbox'[e] = outbox[e] /\ message'[e] = message[e]
      /\ message'[d] = "pending"
      /\ outbox'[d] = NewRow(messageSeq[c] + 1)
  BY DEF SubmitTurn, TypeOK
<1>3. outbox'[d].status = "pending" /\ outbox'[d].seq = messageSeq[c] + 1 /\ outbox'[d].attempts = 0
  BY <1>1, <1>2 DEF NewRow, AbsentRow
<1>4. \A e \in Runs : /\ outbox[e].seq \in Nat
                      /\ ConvOf[e] \in Convs
                      /\ ConvOf[e] = c => outbox[e].seq <= messageSeq[c]
  BY ChatParts DEF ChatInv, FifoInv
<1>5. FifoInv'
  <2>1. \A e \in Runs : outbox'[e].seq <= messageSeq'[ConvOf[e]]
    BY <1>1, <1>2, <1>3, <1>4 DEF ChatInv, FifoInv
  <2>2. ASSUME NEW e \in Runs, NEW f \in Runs, ConvOf[e] = ConvOf[f], e # f, outbox'[e].seq = outbox'[f].seq
        PROVE  outbox'[e].status = "absent" \/ outbox'[f].status = "absent"
    <3>1. e # d /\ f # d
      BY <1>1, <1>2, <1>3, <1>4, <2>2
    <3> QED BY <1>2, <2>2, <3>1 DEF ChatInv, FifoInv
  <2>3. ASSUME NEW e \in Runs, NEW f \in Runs, outbox'[e].attempts > 0, ConvOf[e] = ConvOf[f],
               outbox'[f].seq < outbox'[e].seq
        PROVE  outbox'[f].status \in Closed \cup {"absent"}
    <3>1. e # d
      BY <1>3, <2>3
    <3>2. f # d
      BY <1>1, <1>2, <1>3, <1>4, <2>3, <3>1
    <3> QED BY <1>2, <2>3, <3>1, <3>2 DEF ChatInv, FifoInv
  <2> QED BY <2>1, <2>2, <2>3 DEF FifoInv
<1>6. MessageInv'
  BY <1>1, <1>2, <1>3 DEF ChatInv, MessageInv, OutcomeAgreement, Open, Closed
<1>7. K \in Seq(Frame) /\ ledger \in [Convs -> Seq(Frame)] /\ ledger' \in [Convs -> Seq(Frame)] /\ outbox' \in [Runs -> Row]
  BY <1>1 DEF TypeOK
<1>8. ASSUME NEW b \in Convs, b # c PROVE Sound(b)'
  <2>1. ledger'[b] = ledger[b]
    BY <1>1, <1>5, <1>7, <1>8, QueuedHead
  <2>2. SameRows(b)
    BY <1>2, <1>8 DEF SameRows
  <2> QED BY <1>1, <1>8, <2>1, <2>2, Undisturbed DEF ChatInv, Sound
<1>9. StreamSound(c)'
  <2>0. StreamSound(c)
    BY <1>1 DEF ChatInv
  <2>1. \A e \in Runs : ConvOf[e] = c =>
          /\ outbox'[e].status \in InFlight => stream[c].expected = e /\ stream[c].state = "active"
          /\ outbox'[e].status = "failed" => outbox'[e].attempts > 0
    BY <1>1, <1>2, <1>3, <2>0 DEF StreamSound, InFlight
  <2>2. /\ stream[c].expected \in Runs \cup {NoRun}
        /\ stream[c].terminal \in Runs \cup {NoRun}
        /\ stream[c].latest \in Runs \cup {NoRun}
    BY <1>1, ChatParts
  <2>3. stream[c].expected # NoRun => ConvOf[stream[c].expected] = c /\ outbox'[stream[c].expected].status \in InFlight
    BY <1>1, <1>2, <2>0, <2>2 DEF StreamSound, InFlight
  <2>4. stream[c].terminal # NoRun => ConvOf[stream[c].terminal] = c /\ outbox'[stream[c].terminal].status \in Closed
    BY <1>1, <1>2, <2>0, <2>2 DEF StreamSound, Closed
  <2>5. stream[c].latest # NoRun => ConvOf[stream[c].latest] = c /\ outbox'[stream[c].latest].status \in InFlight \cup Closed
    BY <1>1, <1>2, <2>0, <2>2 DEF StreamSound, InFlight, Closed
  <2> QED BY <1>1, <2>1, <2>3, <2>4, <2>5 DEF StreamSound
<1>10. LogSound(c)'
  <2>1. \A e \in Runs : outbox'[e].status = "terminal" => outbox[e].status = "terminal"
    BY <1>2, <1>3
  <2> QED BY <1>1, <2>1, LogKept DEF ChatInv
<1>11. LedgerSound(c)' /\ SerialLedger(c)'
  <2>0. LedgerSound(c) /\ SerialLedger(c) /\ StreamSound(c) /\ FifoInv
    BY <1>1 DEF ChatInv
  <2>1. ASSUME NEW i \in 1..Len(K)
        PROVE  /\ K[i].run \in Runs /\ ConvOf[K[i].run] = c /\ K[i].run # d
               /\ outbox'[K[i].run] = outbox[K[i].run]
    BY <1>1, <1>2, <2>0, ChatParts DEF LedgerSound
  <2>2. ASSUME NEW e \in Runs, e # d, ConvOf[e] = c, IsHead(outbox, e) PROVE IsHead(outbox', e)
    BY <1>1, <1>2, <1>3, <1>4, <2>2 DEF IsHead
  <2>3. \A i \in 1..Len(K) :
          /\ ConvOf[K[i].run] = c
          /\ outbox'[K[i].run].status # "absent"
          /\ \E j \in 1..Len(K) : K[j] = [kind |-> "queued", run |-> K[i].run]
          /\ K[i].kind = "started" => \E j \in 1..stream'[c].watermark : agentLog'[c][j] = K[i]
    BY <1>1, <2>0, <2>1 DEF LedgerSound
  <2>4. \A i \in 1..(Len(K) - 1) : Follows(outbox', K[i], K[i + 1])
    <3>1. ASSUME NEW i \in 1..(Len(K) - 1) PROVE Follows(outbox', K[i], K[i + 1])
      <4>1. i \in 1..Len(K) /\ i + 1 \in 1..Len(K)
        BY <1>7
      <4> QED BY <2>0, <2>1, <4>1 DEF SerialLedger, Follows
    <3> QED BY <3>1
  <2>5. ASSUME NEW i \in 1..Len(K), outbox'[K[i].run].status \in Open
        PROVE  IsHead(outbox', K[i].run) /\ K[i].run = K[Len(K)].run
    <3>1. IsHead(outbox, K[i].run)
      BY <1>1, <2>0, <2>1, <2>5 DEF LedgerSound
    <3>2. K[Len(K)].run = K[i].run
      BY <1>1, <2>0, <2>1, <3>1 DEF LedgerSound
    <3> QED BY <2>1, <2>2, <3>1, <3>2
  <2>6. ASSUME K # <<>>
        PROVE  /\ FrameRank(K[Len(K)]) = 2 <=> outbox'[K[Len(K)].run].status \in Closed
               /\ outbox'[K[Len(K)].run].status \in Closed => outbox'[K[Len(K)].run].attempts > 0
    <3>1. Len(K) \in 1..Len(K)
      BY <1>7, <2>6
    <3>2. FrameRank(K[Len(K)]) = 2 <=> outbox[K[Len(K)].run].status \in Closed
      BY <1>1, <2>0, <2>6 DEF LedgerSound
    <3> QED BY <1>1, <2>0, <2>1, <3>1, <3>2, ClosedWasClaimed
  <2>7. K # <<>> => K[1].kind = "queued"
    BY <2>0 DEF SerialLedger
  <2>8. Told(c, K)
    BY <2>3, <2>4, <2>5, <2>6, <2>7 DEF Told
  <2> QED BY <1>1, <1>5, <1>7, <2>8, Announced
<1> QED BY <1>5, <1>6, <1>8, <1>9, <1>10, <1>11 DEF ChatInv, Sound

\* The columns of a stream a claim registers.
LEMMA RegisterColumns ==
    ASSUME NEW s \in Stream, NEW d \in Runs
    PROVE  /\ Register(s, d).expected = d
           /\ Register(s, d).latest = s.latest
           /\ Register(s, d).watermark = s.watermark
           /\ Register(s, d).terminal \in {s.terminal, NoRun}
           /\ s.expected = d => Register(s, d) = s
           /\ s.expected # d => Register(s, d).state = "active"
BY DEF Register, Stream

LEMMA ChatInvClaim ==
    ASSUME TypeOK, ChatInv, NEW w \in Workers, NEW d \in Runs, Claim(w, d)
    PROVE  ChatInv'
<1> DEFINE c == ConvOf[d]
           s == stream[c]
<1>1. /\ c \in Convs /\ conversation[c] = "active" /\ s \in Stream
      /\ outbox[d].status \in {"pending", "retryable", "leased"}
      /\ IsHead(outbox, d)
      /\ s.expected \in {NoRun, d}
      /\ UNCHANGED <<conversation, messageSeq, message, ledger, agent, agentLog>>
  BY ChatParts DEF Claim, Claimable, agentVars
<1>2. /\ \A e \in Runs : e # d => outbox'[e] = outbox[e]
      /\ outbox'[d] = ClaimedRow(outbox[d], w)
      /\ \A b \in Convs : b # c => stream'[b] = stream[b]
      /\ stream'[c] = Register(s, d)
  BY <1>1 DEF Claim, TypeOK
<1>3. outbox[d] \in Row
  BY DEF TypeOK
<1>4. outbox'[d].status = "leased" /\ outbox'[d].seq = outbox[d].seq
  BY <1>2, <1>3, RowColumns, SeqColumns
<1>5. FifoInv'
  <2>1. \A e \in Runs : outbox'[e].seq = outbox[e].seq
    BY <1>2, <1>4
  <2>2. \A e \in Runs : (outbox'[e].status = "absent" <=> outbox[e].status = "absent")
    BY <1>1, <1>2, <1>4
  <2>3. ASSUME NEW e \in Runs, NEW f \in Runs, outbox'[e].attempts > 0, ConvOf[e] = ConvOf[f],
               outbox[f].seq < outbox[e].seq
        PROVE  outbox'[f].status \in Closed \cup {"absent"}
    <3>1. CASE e = d
      <4>1. outbox[f].status \notin Open /\ f # d
        BY <1>1, <2>3, <3>1, ChatParts DEF IsHead
      <4> QED BY <1>2, <4>1, ChatParts DEF Open, Closed, InFlight
    <3>2. CASE e # d
      <4>1. outbox[f].status \in Closed \cup {"absent"}
        BY <1>2, <2>3, <3>2 DEF ChatInv, FifoInv
      <4> QED BY <1>1, <1>2, <4>1 DEF Closed
    <3> QED BY <3>1, <3>2
  <2> QED BY <1>1, <2>1, <2>2, <2>3 DEF ChatInv, FifoInv
<1>6. \A e \in Runs : /\ outbox'[e].seq = outbox[e].seq
                      /\ outbox'[e].status = "absent" <=> outbox[e].status = "absent"
                      /\ outbox'[e].status \in Open <=> outbox[e].status \in Open
                      /\ outbox'[e].status \in Closed <=> outbox[e].status \in Closed
  BY <1>1, <1>2, <1>4 DEF Open, Closed
<1>7. MessageInv'
  BY <1>1, <1>6, MessageKept DEF ChatInv
<1>8. ASSUME NEW b \in Convs, b # c PROVE Sound(b)'
  <2>1. SameRows(b)
    BY <1>2, <1>8 DEF SameRows
  <2> QED BY <1>1, <1>2, <1>8, <2>1, Undisturbed DEF ChatInv, Sound
<1>9. StreamSound(c)'
  <2> DEFINE t == stream'[c]
  <2>0. StreamSound(c)
    BY <1>1 DEF ChatInv
  <2>1. /\ t.expected = d
        /\ t.latest = s.latest
        /\ t.terminal \in {s.terminal, NoRun}
        /\ s.expected = d => t = s
        /\ s.expected # d => t.state = "active"
    BY <1>1, <1>2, RegisterColumns
  <2>2. d # NoRun
    BY ConstantsAssumption
  <2>3. t.state = "active"
    BY <1>1, <2>0, <2>1, <2>2 DEF StreamSound
  <2>4. ASSUME NEW e \in Runs, ConvOf[e] = c, outbox'[e].status \in InFlight PROVE e = d
    BY <1>1, <1>2, <2>0, <2>4, ConstantsAssumption DEF StreamSound
  <2>5. ASSUME NEW e \in Runs, ConvOf[e] = c, outbox'[e].status = "failed" PROVE outbox'[e].attempts > 0
    BY <1>1, <1>2, <1>4, <2>0, <2>5 DEF StreamSound
  <2>6. t.terminal # NoRun => ConvOf[t.terminal] = c /\ outbox'[t.terminal].status \in Closed
    BY <1>1, <1>6, <2>0, <2>1, ChatParts DEF StreamSound
  <2>7. t.latest # NoRun => ConvOf[t.latest] = c /\ outbox'[t.latest].status \in InFlight \cup Closed
    BY <1>1, <1>2, <1>4, <2>0, <2>1, ChatParts DEF StreamSound, InFlight
  <2> HIDE DEF s
  <2> QED BY <1>1, <1>4, <2>1, <2>3, <2>4, <2>5, <2>6, <2>7 DEF StreamSound, InFlight
<1>10. stream'[c].watermark = stream[c].watermark
  BY <1>1, <1>2, RegisterColumns
<1>11. LogSound(c)'
  <2>1. \A e \in Runs : outbox'[e].status = "terminal" => outbox[e].status = "terminal"
    BY <1>2, <1>4
  <2> QED BY <1>1, <1>10, <2>1, LogKept DEF ChatInv
<1>12. LedgerSound(c)' /\ SerialLedger(c)'
  BY <1>1, <1>6, <1>10, LedgerKept DEF ChatInv
<1> QED BY <1>5, <1>7, <1>8, <1>9, <1>11, <1>12 DEF ChatInv, Sound

-----------------------------------------------------------------------------
(* The end of a turn *)

\* A turn in flight is the last of its ledger, and not told as ended.
LEMMA InFlightIsLast ==
    ASSUME TypeOK, ChatInv, ClaimInv, NEW d \in Runs, outbox[d].status \in InFlight,
           conversation[ConvOf[d]] = "active"
    PROVE  LET L == ledger[ConvOf[d]] IN
           L # <<>> /\ Len(L) \in 1..Len(L) /\ L[Len(L)].run = d /\ FrameRank(L[Len(L)]) \in {0, 1}
<1> DEFINE c == ConvOf[d]
           L == ledger[c]
<1>1. c \in Convs /\ L \in Seq(Frame)
  BY ChatParts
<1>2. IsHead(outbox, d)
  BY InFlightIsHead DEF ChatInv
<1>3. LedgerSound(c)
  BY <1>1 DEF ChatInv
<1>4. L # <<>> /\ L[Len(L)].run = d
  BY <1>2, <1>3 DEF LedgerSound
<1>5. Len(L) \in 1..Len(L) /\ L[Len(L)] \in Frame
  BY <1>1, <1>4
<1>6. FrameRank(L[Len(L)]) # 2
  BY <1>3, <1>4 DEF LedgerSound, InFlight, Closed
<1> QED BY <1>4, <1>5, <1>6, Ranks

\* A frame of the turn in flight, later than the last one, may be told next; an end
\* with the close of the turn.
LEMMA TellMore ==
    ASSUME TypeOK, TypeOK', ChatInv, ClaimInv, NEW d \in Runs, NEW f \in Frame,
           conversation[ConvOf[d]] = "active", outbox[d].status \in InFlight,
           \A e \in Runs : e # d => outbox'[e] = outbox[e],
           outbox'[d].seq = outbox[d].seq, outbox'[d].attempts = outbox[d].attempts,
           \/ FrameRank(f) = 2 /\ outbox'[d].status \in Closed
           \/ FrameRank(f) = 1 /\ outbox'[d] = outbox[d],
           f.run = d,
           LET L == ledger[ConvOf[d]] IN FrameRank(L[Len(L)]) < FrameRank(f),
           f.kind = "started" => \E j \in 1..stream'[ConvOf[d]].watermark : agentLog'[ConvOf[d]][j] = f,
           UNCHANGED agentLog,
           stream[ConvOf[d]].watermark <= stream'[ConvOf[d]].watermark
    PROVE  LET K == Append(ledger[ConvOf[d]], f) IN
           /\ K \in Seq(Frame) /\ Told(ConvOf[d], K)
           /\ \E i \in 1..Len(K) : K[i] = [kind |-> "queued", run |-> d]
<1> DEFINE c == ConvOf[d]
           L == ledger[c]
           n == Len(L)
           K == Append(L, f)
<1>1. /\ c \in Convs /\ L \in Seq(Frame) /\ K \in Seq(Frame)
      /\ stream[c].watermark \in Nat /\ stream'[c].watermark \in Nat
  <2>1. c \in Convs /\ L \in Seq(Frame) /\ stream[c].watermark \in Nat
    BY ChatParts
  <2>2. stream'[c].watermark \in Nat
    BY <2>1 DEF TypeOK, Stream
  <2> QED BY <2>1, <2>2
<1>2. Len(K) = n + 1 /\ K[n + 1] = f /\ \A i \in 1..n : K[i] = L[i]
  BY <1>1
<1>3. n \in Nat /\ L # <<>> /\ n \in 1..n /\ L[n].run = d /\ FrameRank(L[n]) < FrameRank(f)
  BY <1>1, InFlightIsLast
<1>4. outbox[d].status # "absent" /\ outbox[d].status \notin Closed /\ outbox[d].status \in Open
  BY DEF InFlight, Open, Closed
<1>5. /\ outbox'[d].status # "absent" /\ outbox'[d].attempts > 0
      /\ outbox'[d].status \in Open => outbox'[d] = outbox[d]
      /\ FrameRank(f) = 2 <=> outbox'[d].status \in Closed
  <2>1. outbox[d].attempts > 0
    BY DEF ClaimInv, RowsInv, InFlight
  <2>2. CASE FrameRank(f) = 2 /\ outbox'[d].status \in Closed
    BY <2>1, <2>2 DEF Open, Closed
  <2>3. CASE FrameRank(f) = 1 /\ outbox'[d] = outbox[d]
    BY <1>4, <2>1, <2>3
  <2> QED BY <2>2, <2>3
<1>6. LedgerSound(c) /\ SerialLedger(c) /\ FifoInv /\ IsHead(outbox, d)
  BY <1>1, InFlightIsHead DEF ChatInv
<1>7. ASSUME NEW i \in 1..n PROVE L[i].run \in Runs /\ ConvOf[L[i].run] = c
  BY <1>1, <1>6, ChatParts DEF LedgerSound
<1>8. \A i \in 1..Len(K) : i \in 1..n \/ i = n + 1
  BY <1>2, <1>3
<1>9. \A j \in 1..n : j \in 1..Len(K)
  BY <1>2, <1>3
<1>10. PICK k \in 1..n : L[k] = [kind |-> "queued", run |-> d]
  <2>1. \A i \in 1..n : \E j \in 1..n : L[j] = [kind |-> "queued", run |-> L[i].run]
    BY <1>6 DEF LedgerSound
  <2> QED BY <1>3, <2>1
<1>11. k \in 1..Len(K) /\ K[k] = [kind |-> "queued", run |-> d]
  BY <1>2, <1>9, <1>10
<1>12. ASSUME NEW i \in 1..Len(K)
       PROVE  /\ ConvOf[K[i].run] = c
              /\ outbox'[K[i].run].status # "absent"
              /\ \E j \in 1..Len(K) : K[j] = [kind |-> "queued", run |-> K[i].run]
              /\ K[i].kind = "started" => \E j \in 1..stream'[c].watermark : agentLog'[c][j] = K[i]
  <2>1. CASE i \in 1..n
    <3>1. outbox'[L[i].run].status # "absent"
      <4>1. outbox[L[i].run].status # "absent"
        BY <1>6, <2>1 DEF LedgerSound
      <4> QED BY <1>5, <1>7, <2>1, <4>1
    <3>2. PICK j \in 1..n : L[j] = [kind |-> "queued", run |-> L[i].run]
      BY <1>6, <2>1 DEF LedgerSound
    <3>3. ASSUME L[i].kind = "started" PROVE \E j2 \in 1..stream'[c].watermark : agentLog'[c][j2] = L[i]
      <4>1. PICK j3 \in 1..stream[c].watermark : agentLog[c][j3] = L[i]
        BY <1>6, <2>1, <3>3 DEF LedgerSound
      <4>2. j3 \in 1..stream'[c].watermark
        BY <1>1
      <4> QED BY <4>1, <4>2
    <3>4. K[i] = L[i] /\ K[j] = L[j] /\ j \in 1..Len(K)
      BY <1>2, <1>9, <2>1
    <3> HIDE DEF K
    <3> QED BY <1>7, <2>1, <3>1, <3>2, <3>3, <3>4
  <2>2. CASE i = n + 1
    <3>1. K[i] = f
      BY <1>2, <2>2
    <3> HIDE DEF K
    <3> QED BY <1>5, <1>11, <3>1
  <2> QED BY <1>8, <2>1, <2>2
<1>13. K # <<>> /\ K[1].kind = "queued"
  <2>1. L[1].kind = "queued" /\ 1 \in 1..n
    BY <1>3, <1>6 DEF SerialLedger
  <2> QED BY <1>2, <1>3, <2>1
<1>14. ASSUME NEW i \in 1..(Len(K) - 1) PROVE Follows(outbox', K[i], K[i + 1])
  <2>1. i \in 1..n
    BY <1>2, <1>3
  <2>2. CASE i = n
    BY <1>2, <1>3, <2>1, <2>2 DEF Follows
  <2>3. CASE i # n
    <3>1. i \in 1..(n - 1) /\ i + 1 \in 1..n
      BY <1>3, <2>1, <2>3
    <3>2. Follows(outbox, L[i], L[i + 1])
      BY <1>6, <3>1 DEF SerialLedger
    <3>3. outbox'[L[i].run].seq = outbox[L[i].run].seq /\ outbox'[L[i + 1].run].seq = outbox[L[i + 1].run].seq
      BY <1>7, <2>1, <3>1
    <3>4. K[i] = L[i] /\ K[i + 1] = L[i + 1]
      BY <1>2, <2>1, <3>1
    <3> HIDE DEF K
    <3> QED BY <3>2, <3>3, <3>4 DEF Follows
  <2> QED BY <2>2, <2>3
<1>15. ASSUME NEW i \in 1..Len(K), outbox'[K[i].run].status \in Open
       PROVE  IsHead(outbox', K[i].run) /\ K[i].run = d
  <2>1. K[i].run = d
    <3>1. CASE i = n + 1
      BY <1>2, <3>1
    <3>2. CASE i \in 1..n
      <4>1. K[i] = L[i] /\ outbox[L[i].run].status \in Open
        BY <1>2, <1>4, <1>7, <1>15, <3>2
      <4>2. IsHead(outbox, L[i].run)
        BY <1>6, <3>2, <4>1 DEF LedgerSound
      <4> QED BY <1>6, <1>7, <3>2, <4>1, <4>2, HeadIsUnique
    <3> QED BY <1>8, <3>1, <3>2
  <2>2. \A e \in Runs : outbox'[e] = outbox[e]
    BY <1>5, <1>15, <2>1
  <2> QED BY <1>6, <2>1, <2>2 DEF IsHead
<1>16. K[Len(K)] = f
  BY <1>2
<1>17. Told(c, K)
  <2> HIDE DEF K
  <2> QED BY <1>5, <1>12, <1>13, <1>14, <1>15, <1>16 DEF Told
<1> QED BY <1>1, <1>11, <1>17

\* Closing the turn in flight, telling its end and announcing the next head keeps
\* the order of the dispatches and the ledger.
LEMMA Closing ==
    ASSUME TypeOK, TypeOK', ChatInv, ClaimInv, NEW d \in Runs, NEW f \in Frame,
           conversation[ConvOf[d]] = "active", outbox[d].status \in InFlight,
           \A e \in Runs : e # d => outbox'[e] = outbox[e],
           outbox'[d].status \in Closed, outbox'[d].seq = outbox[d].seq, outbox'[d].attempts = outbox[d].attempts,
           f.run = d, FrameRank(f) = 2,
           UNCHANGED <<conversation, messageSeq, agentLog>>,
           stream[ConvOf[d]].watermark <= stream'[ConvOf[d]].watermark,
           ProjectQueuedHead(ConvOf[d], Append(ledger[ConvOf[d]], f))
    PROVE  /\ FifoInv'
           /\ LedgerSound(ConvOf[d])' /\ SerialLedger(ConvOf[d])'
           /\ \A b \in Convs : b # ConvOf[d] => ledger'[b] = ledger[b]
<1> DEFINE c == ConvOf[d]
           K == Append(ledger[c], f)
<1>1. c \in Convs /\ ledger \in [Convs -> Seq(Frame)] /\ outbox' \in [Runs -> Row]
  BY ChatParts DEF TypeOK
<1>2. FifoInv'
  <2>1. outbox[d].status # "absent" /\ outbox[d].status \notin Closed /\ outbox'[d].status # "absent"
    BY DEF InFlight, Closed
  <2> QED BY <2>1, FifoKept DEF ChatInv
<1>3. K \in Seq(Frame) /\ Told(c, K)
  <2>1. FrameRank(ledger[c][Len(ledger[c])]) < FrameRank(f) /\ f.kind # "started"
    BY InFlightIsLast, Ranks
  <2> QED BY <2>1, TellMore
<1>4. ProjectQueuedHead(c, K)
  OBVIOUS
<1>5. LedgerSound(c)' /\ SerialLedger(c)'
  <2> HIDE DEF K
  <2> QED BY <1>1, <1>2, <1>3, <1>4, Announced
<1>6. \A b \in Convs : b # c => ledger'[b] = ledger[b]
  <2> HIDE DEF K
  <2> QED BY <1>1, <1>2, <1>3, <1>4, QueuedHead
<1> QED BY <1>2, <1>5, <1>6

LEMMA ChatInvMarkFailed ==
    ASSUME TypeOK, TypeOK', ChatInv, ClaimInv, NEW w \in Workers, MarkFailed(w)
    PROVE  ChatInv'
<1>0. PICK d \in Runs : d = worker[w].run
  BY Parts DEF MarkFailed, Settles
<1> DEFINE c == ConvOf[d]
           s == stream[c]
           f == [kind |-> "errored", run |-> d]
<1>1. /\ worker[w].pc = "answered" /\ outbox[d].status = "leased"
      /\ UNCHANGED <<conversation, messageSeq, agent, agentLog>>
      /\ ProjectQueuedHead(c, Append(ledger[c], f))
  BY <1>0 DEF MarkFailed, Settles, Held, agentVars
<1>2. d \in Runs /\ outbox[d] \in Row /\ c \in Convs /\ s \in Stream
  BY ChatParts
<1>3. StreamSound(c) /\ LogSound(c)
  BY <1>2 DEF ChatInv
<1>4. conversation[c] = "active" /\ outbox[d].status \in InFlight /\ s.expected = d
  BY <1>1, <1>2, <1>3, ChatParts DEF StreamSound, InFlight
<1>5. /\ \A e \in Runs : e # d => outbox'[e] = outbox[e] /\ message'[e] = message[e]
      /\ outbox'[d] = Unleased(outbox[d], "failed")
      /\ message'[d] = IF message[d] = "pending" THEN "failed" ELSE message[d]
      /\ \A b \in Convs : b # c => stream'[b] = stream[b]
      /\ stream'[c] = FailedStream(s, d)
  BY <1>0, <1>2 DEF MarkFailed, TypeOK
<1>6. /\ outbox'[d].status = "failed" /\ outbox'[d].seq = outbox[d].seq
      /\ outbox'[d].attempts = outbox[d].attempts /\ outbox[d].attempts > 0
  <2>1. outbox[d].attempts > 0
    BY <1>1, <1>2 DEF ClaimInv, RowsInv
  <2> QED BY <1>2, <1>5, <2>1, RowColumns, SeqColumns DEF Closed
<1>7. /\ stream'[c].expected = NoRun /\ stream'[c].latest = d /\ stream'[c].terminal = d
      /\ stream'[c].watermark = s.watermark
  BY <1>2, <1>4, <1>5 DEF FailedStream, Stream
<1>8. FifoInv' /\ LedgerSound(c)' /\ SerialLedger(c)' /\ \A b \in Convs : b # c => ledger'[b] = ledger[b]
  <2>1. f \in Frame /\ f.run = d /\ FrameRank(f) = 2
    BY <1>2 DEF Frame, SourceKinds, FrameRank
  <2>2. outbox'[d].status \in Closed /\ stream[c].watermark <= stream'[c].watermark
    BY <1>2, <1>6, <1>7 DEF Closed, Stream
  <2>3. ProjectQueuedHead(ConvOf[d], Append(ledger[ConvOf[d]], f))
    BY <1>1
  <2> HIDE DEF f
  <2> QED BY <1>1, <1>2, <1>4, <1>5, <1>6, <2>1, <2>2, <2>3, Closing
<1>9. MessageInv'
  <2>1. message'[d] = "failed"
    BY <1>1, <1>2, <1>4, <1>5 DEF ChatInv, MessageInv, Open
  <2> QED BY <1>1, <1>5, <1>6, <2>1 DEF ChatInv, MessageInv, OutcomeAgreement, Open, Closed
<1>10. ASSUME NEW b \in Convs, b # c PROVE Sound(b)'
  <2>1. SameRows(b)
    BY <1>5, <1>10 DEF SameRows
  <2> QED BY <1>1, <1>5, <1>8, <1>10, <2>1, Undisturbed DEF ChatInv, Sound
<1>11. StreamSound(c)'
  <2>1. ASSUME NEW e \in Runs, ConvOf[e] = c, outbox'[e].status \in InFlight PROVE FALSE
    BY <1>3, <1>4, <1>5, <1>6, <2>1 DEF StreamSound, InFlight
  <2>2. ASSUME NEW e \in Runs, ConvOf[e] = c, outbox'[e].status = "failed" PROVE outbox'[e].attempts > 0
    BY <1>3, <1>4, <1>5, <1>6, <2>2 DEF StreamSound
  <2>3. outbox'[d].status \in Closed
    BY <1>6 DEF Closed
  <2> QED BY <1>1, <1>4, <1>7, <2>1, <2>2, <2>3 DEF StreamSound
<1>12. LogSound(c)'
  <2>1. \A e \in Runs : outbox'[e].status = "terminal" => outbox[e].status = "terminal"
    BY <1>5, <1>6
  <2> QED BY <1>1, <1>2, <1>3, <1>7, <2>1, LogKept
<1> QED BY <1>8, <1>9, <1>10, <1>11, <1>12 DEF ChatInv, Sound

-----------------------------------------------------------------------------
(* Projection *)

\* An event of a live conversation that is not projected yet finds its run in
\* flight, expected by an active stream.
LEMMA Unread ==
    ASSUME TypeOK, ChatInv, ClaimInv, NEW c \in Convs, conversation[c] = "active",
           NEW i \in (stream[c].watermark + 1)..Len(agentLog[c])
    PROVE  /\ i \in 1..Len(agentLog[c])
           /\ agentLog[c][i].run \in Runs /\ ConvOf[agentLog[c][i].run] = c
           /\ outbox[agentLog[c][i].run].status \in InFlight
           /\ stream[c].expected = agentLog[c][i].run
           /\ stream[c].state = "active"
<1>1. stream[c].watermark \in Nat /\ LogSound(c) /\ StreamSound(c)
  BY ChatParts DEF ChatInv
<1>2. i \in 1..Len(agentLog[c])
  BY <1>1, ChatParts
<1>3. PICK d \in Runs : d = agentLog[c][i].run
  BY <1>2, ChatParts
<1>4. ConvOf[d] = c /\ agent[d] # "none"
  BY <1>1, <1>2, <1>3 DEF LogSound
<1>5. outbox[d].fence > 0 /\ outbox[d].status # "failed"
  BY <1>4 DEF ClaimInv, RowsInv, FailedNeverAdmitted
<1>6. outbox[d].status \notin {"absent", "pending"}
  BY <1>5 DEF ClaimInv, RowsInv
<1>7. outbox[d].status # "terminal"
  BY <1>1, <1>2, <1>3, <1>4 DEF LogSound
<1>8. outbox[d].status \in InFlight
  BY <1>5, <1>6, <1>7, ChatParts DEF Closed
<1> QED BY <1>1, <1>2, <1>3, <1>4, <1>8 DEF StreamSound

\* What an event of the expected run makes of the stream.
LEMMA ProjectedColumns ==
    ASSUME NEW s \in Stream, NEW e \in SourceEvent, s.expected = e.run
    PROVE  /\ ProjectedStream(s, e).watermark = s.watermark + 1
           /\ ProjectedStream(s, e).state = s.state
           /\ ProjectedStream(s, e).latest = e.run
           /\ e.kind = "started" => /\ ProjectedStream(s, e).expected = e.run
                                    /\ ProjectedStream(s, e).terminal = NoRun
                                    /\ ~SettlesHead(s, e)
           /\ e.kind # "started" => /\ ProjectedStream(s, e).expected = NoRun
                                    /\ ProjectedStream(s, e).terminal = e.run
                                    /\ SettlesHead(s, e) <=> s.terminal # e.run
<1>1. e.run # NoRun
  BY ConstantsAssumption DEF SourceEvent
<1>2. CASE e.kind = "started"
  <2>1. RunState(s, e) = [latest |-> e.run, terminal |-> NoRun]
    BY <1>2 DEF RunState
  <2> QED BY <1>1, <1>2, <2>1 DEF ProjectedStream, SettlesHead, Stream
<1>3. CASE e.kind # "started"
  <2>1. RunState(s, e) = [latest |-> e.run, terminal |-> e.run]
    BY <1>3 DEF RunState
  <2> QED BY <1>1, <1>3, <2>1 DEF ProjectedStream, SettlesHead, Stream
<1> QED BY <1>2, <1>3

LEMMA ChatInvProject ==
    ASSUME TypeOK, TypeOK', ChatInv, ClaimInv, NEW c \in Convs, Project(c)
    PROVE  ChatInv'
<1> DEFINE s == stream[c]
           t == stream'[c]
           n == s.watermark + 1
<1>1. /\ s.state = "active" /\ s.watermark < Len(agentLog[c])
      /\ UNCHANGED <<conversation, messageSeq, agent, agentLog>>
  BY DEF Project, agentVars
<1>2. /\ s \in Stream /\ s.watermark \in Nat /\ n \in n..Len(agentLog[c]) /\ n \in 1..Len(agentLog[c])
      /\ Len(agentLog[c]) \in Nat /\ conversation[c] \in {"active", "deleted"}
      /\ s.terminal \in Runs \cup {NoRun}
      /\ s.latest \in Runs \cup {NoRun}
  BY <1>1, ChatParts
<1>3. StreamSound(c) /\ LogSound(c) /\ LedgerSound(c) /\ SerialLedger(c) /\ FifoInv /\ MessageInv
  BY DEF ChatInv
<1>4. conversation[c] = "active"
  BY <1>1, <1>2, <1>3 DEF StreamSound
<1>5. PICK e \in SourceEvent : e = agentLog[c][n]
  BY <1>2, ChatParts
<1>6. PICK d \in Runs : d = e.run
  BY DEF SourceEvent
<1>7. ConvOf[d] = c /\ outbox[d].status \in InFlight /\ s.expected = d /\ outbox[d] \in Row
  <2>1. ConvOf[d] = c /\ outbox[d].status \in InFlight /\ s.expected = d
    BY <1>2, <1>4, <1>5, <1>6, Unread
  <2> QED BY <2>1, ChatParts
<1>8. /\ \A b \in Convs : b # c => stream'[b] = stream[b]
      /\ t = ProjectedStream(s, e)
      /\ message' = ProjectedMessage(s, e)
      /\ \/ /\ SettlesHead(s, e)
            /\ outbox' = [outbox EXCEPT ![d] = TerminalRow(@)]
            /\ ProjectQueuedHead(c, Append(ledger[c], e))
         \/ /\ ~SettlesHead(s, e)
            /\ ledger' = [ledger EXCEPT ![c] = Append(ledger[c], e)]
            /\ UNCHANGED outbox
  BY <1>5, <1>6 DEF Project, TypeOK
<1>9. /\ t.watermark = n /\ t.state = "active" /\ t.latest = d
      /\ e.kind = "started" => t.expected = d /\ t.terminal = NoRun /\ ~SettlesHead(s, e)
      /\ e.kind # "started" => t.expected = NoRun /\ t.terminal = d /\ (SettlesHead(s, e) <=> s.terminal # d)
  BY <1>1, <1>2, <1>6, <1>7, <1>8, ProjectedColumns
<1>10. s.terminal # d /\ d # NoRun
  BY <1>3, <1>4, <1>7, ConstantsAssumption DEF StreamSound, InFlight, Closed
<1>11. e \in Frame /\ (e.kind = "started" <=> FrameRank(e) = 1) /\ (e.kind # "started" <=> FrameRank(e) = 2)
  <2>1. e \in Frame /\ e.kind # "queued"
    BY DEF SourceEvent, SourceKinds, Frame
  <2> QED BY <2>1, Ranks
<1>12. \A x \in Runs : ConvOf[x] = c /\ outbox[x].status \in InFlight => x = d
  BY <1>3, <1>4, <1>7 DEF StreamSound
<1>13. ASSUME NEW i \in 1..Len(agentLog[c]), NEW j \in 1..Len(agentLog[c]), i < j, agentLog[c][j].run = agentLog[c][i].run
       PROVE  agentLog[c][i].kind = "started" /\ agentLog[c][j].kind # "started"
  BY <1>3, <1>13 DEF LogSound
<1>14. CASE e.kind = "started"
  <2>1. UNCHANGED <<outbox, message>> /\ ledger' = [ledger EXCEPT ![c] = Append(ledger[c], e)]
    BY <1>8, <1>9, <1>14 DEF ProjectedMessage
  <2>2. FifoInv' /\ MessageInv'
    BY <1>1, <1>3, <2>1, MessageKept DEF FifoInv
  <2>3. ASSUME NEW b \in Convs, b # c PROVE Sound(b)'
    <3>1. SameRows(b) /\ ledger'[b] = ledger[b]
      BY <2>1, <2>3 DEF SameRows, TypeOK
    <3> QED BY <1>1, <1>8, <2>3, <3>1, Undisturbed DEF ChatInv, Sound
  <2>4. StreamSound(c)'
    BY <1>1, <1>3, <1>4, <1>7, <1>9, <1>12, <1>14, <2>1 DEF StreamSound
  <2>5. LogSound(c)'
    <3>1. \A x \in Runs : ConvOf[x] = c /\ outbox[x].status = "terminal" =>
             /\ agent[x] = "ended"
             /\ \A i \in 1..Len(agentLog[c]) : agentLog[c][i].run = x => i <= n
      BY <1>2, <1>3 DEF LogSound
    <3> QED BY <1>1, <1>2, <1>3, <1>9, <2>1, <3>1 DEF LogSound
  <2>6. LedgerSound(c)' /\ SerialLedger(c)'
    <3> DEFINE L == ledger[c]
               K == Append(L, e)
    <3>1. L # <<>> /\ Len(L) \in 1..Len(L) /\ L[Len(L)].run = d /\ FrameRank(L[Len(L)]) \in {0, 1}
      BY <1>4, <1>7, InFlightIsLast
    <3>2. FrameRank(L[Len(L)]) # 1
      <4>1. SUFFICES ASSUME FrameRank(L[Len(L)]) = 1 PROVE FALSE
        OBVIOUS
      <4>2. L[Len(L)].kind = "started"
        BY <3>1, <4>1, ChatParts, Ranks
      <4>3. PICK j \in 1..s.watermark : agentLog[c][j] = L[Len(L)]
        BY <1>3, <3>1, <4>2 DEF LedgerSound
      <4>4. j \in 1..Len(agentLog[c]) /\ j < n /\ agentLog[c][n].run = agentLog[c][j].run
        BY <1>2, <1>5, <1>6, <3>1, <4>3
      <4> QED BY <1>2, <1>5, <1>13, <1>14, <4>4
    <3>3. \E j \in 1..t.watermark : agentLog'[c][j] = e
      BY <1>1, <1>2, <1>5, <1>9
    <3>4. s.watermark <= t.watermark /\ FrameRank(L[Len(L)]) < FrameRank(e) /\ e.run = d
      BY <1>2, <1>6, <1>9, <1>11, <1>14, <3>1, <3>2
    <3>5. K \in Seq(Frame) /\ Told(c, K) /\ \E i \in 1..Len(K) : K[i] = [kind |-> "queued", run |-> d]
      BY <1>1, <1>4, <1>7, <1>11, <1>14, <2>1, <3>3, <3>4, TellMore
    <3>6. \A x \in Runs : ConvOf[x] = c /\ IsHead(outbox', x) => x = d
      BY <1>3, <1>7, <2>1, InFlightIsHead, HeadIsUnique
    <3>7. ledger'[c] = K
      BY <2>1 DEF TypeOK
    <3> HIDE DEF K
    <3> QED BY <1>1, <3>5, <3>6, <3>7, ToldIsSound
  <2> QED BY <2>2, <2>3, <2>4, <2>5, <2>6 DEF ChatInv, Sound
<1>15. CASE e.kind # "started"
  <2>1. /\ outbox' = [outbox EXCEPT ![d] = TerminalRow(@)]
        /\ ProjectQueuedHead(c, Append(ledger[c], e))
    BY <1>8, <1>9, <1>10, <1>15
  <2>2. /\ \A x \in Runs : x # d => outbox'[x] = outbox[x]
        /\ outbox'[d].status = "terminal" /\ outbox'[d].seq = outbox[d].seq
        /\ outbox'[d].attempts = outbox[d].attempts
    BY <1>7, <2>1, RowColumns, SeqColumns DEF TypeOK
  <2>3. outbox'[d].status \in Closed /\ s.watermark <= t.watermark
    BY <1>2, <1>9, <2>2 DEF Closed
  <2>4. FifoInv' /\ LedgerSound(c)' /\ SerialLedger(c)' /\ \A b \in Convs : b # c => ledger'[b] = ledger[b]
    <3>1. e.run = d /\ FrameRank(e) = 2
      BY <1>6, <1>11, <1>15
    <3>2. stream[ConvOf[d]].watermark <= stream'[ConvOf[d]].watermark
      BY <1>7, <2>3
    <3>3. ProjectQueuedHead(ConvOf[d], Append(ledger[ConvOf[d]], e))
      BY <1>7, <2>1
    <3> QED BY <1>1, <1>4, <1>7, <1>11, <2>2, <2>3, <3>1, <3>2, <3>3, Closing
  <2>5. agent[d] = "ended"
    BY <1>2, <1>3, <1>5, <1>6, <1>15 DEF LogSound
  <2>6. MessageInv'
    <3>1. /\ \A x \in Runs : x # d => message'[x] = message[x]
          /\ message'[d] \in {"completed", "failed"}
      <4>1. message[d] = "pending"
        BY <1>3, <1>4, <1>7 DEF MessageInv, InFlight, Open
      <4> QED BY <1>6, <1>7, <1>8, <1>15, <4>1 DEF ProjectedMessage, TypeOK
    <3> QED BY <1>1, <1>3, <2>2, <2>5, <3>1 DEF MessageInv, OutcomeAgreement, Open, Closed
  <2>7. ASSUME NEW b \in Convs, b # c PROVE Sound(b)'
    <3>1. SameRows(b)
      BY <1>7, <2>2, <2>7 DEF SameRows
    <3> QED BY <1>1, <1>8, <2>4, <2>7, <3>1, Undisturbed DEF ChatInv, Sound
  <2>8. StreamSound(c)'
    <3>1. ASSUME NEW x \in Runs, ConvOf[x] = c, outbox'[x].status \in InFlight PROVE FALSE
      BY <1>12, <2>2, <3>1 DEF InFlight
    <3>2. ASSUME NEW x \in Runs, ConvOf[x] = c, outbox'[x].status = "failed" PROVE outbox'[x].attempts > 0
      BY <1>3, <1>4, <2>2, <3>2 DEF StreamSound
    <3> QED BY <1>1, <1>4, <1>7, <1>9, <1>15, <2>3, <3>1, <3>2 DEF StreamSound
  <2>9. LogSound(c)'
    <3>1. ASSUME NEW x \in Runs, ConvOf[x] = c, outbox'[x].status = "terminal",
                 NEW i \in 1..Len(agentLog[c]), agentLog[c][i].run = x
          PROVE  i <= n
      <4>1. CASE x = d
        BY <1>2, <1>5, <1>6, <1>13, <1>15, <3>1, <4>1
      <4>2. CASE x # d
        BY <1>2, <1>3, <2>2, <3>1, <4>2 DEF LogSound
      <4> QED BY <4>1, <4>2
    <3>2. ASSUME NEW x \in Runs, ConvOf[x] = c, outbox'[x].status = "terminal" PROVE agent[x] = "ended"
      BY <1>3, <2>2, <2>5, <3>2 DEF LogSound
    <3> QED BY <1>1, <1>2, <1>3, <1>9, <3>1, <3>2 DEF LogSound
  <2> QED BY <2>4, <2>6, <2>7, <2>8, <2>9 DEF ChatInv, Sound
<1> QED BY <1>14, <1>15

LEMMA ChatInvDelete ==
    ASSUME TypeOK, ChatInv, ClaimInv, NEW c \in Convs, DeleteConversation(c)
    PROVE  ChatInv'
<1>1. /\ UNCHANGED <<messageSeq, ledger, agent, agentLog>>
      /\ conversation[c] = "active" /\ conversation'[c] = "deleted"
      /\ \A b \in Convs : b # c => conversation'[b] = conversation[b] /\ stream'[b] = stream[b]
      /\ stream'[c] = Stopped(stream[c])
      /\ \A d \in Runs : /\ ConvOf[d] = c => outbox'[d] = DeletedRow(outbox[d])
                         /\ ConvOf[d] # c => outbox'[d] = outbox[d] /\ message'[d] = message[d]
  BY DEF DeleteConversation, agentVars, TypeOK
<1>2. stream'[c].state = "stopped" /\ stream'[c].watermark = stream[c].watermark
  BY <1>1, ChatParts DEF Stopped, Stream
<1>3. ASSUME NEW d \in Runs
      PROVE  /\ outbox'[d].seq = outbox[d].seq
             /\ outbox'[d].attempts = outbox[d].attempts
             /\ outbox'[d].status = "absent" <=> outbox[d].status = "absent"
             /\ outbox[d].status \in Closed => outbox'[d].status \in Closed
             /\ outbox'[d].status = "terminal" => outbox[d].status = "terminal"
             /\ ConvOf[d] = c => outbox'[d].status \notin {"pending", "leased"}
  <2>1. CASE ConvOf[d] = c
    <3>1. outbox[d] \in Row
      BY ChatParts
    <3>2. /\ outbox[d].status = "pending" => outbox[d].attempts = 0 /\ ~outbox[d].unknown
          /\ outbox[d].status \in {"leased", "retryable"} => outbox[d].attempts # 0
      BY ChatParts DEF ClaimInv, RowsInv
    <3>3. outbox'[d].seq = outbox[d].seq /\ outbox'[d].attempts = outbox[d].attempts
      BY <1>1, <2>1, <3>1, SeqColumns
    <3>4. \/ outbox'[d].status = outbox[d].status /\ outbox[d].status \notin {"pending", "leased", "retryable"}
          \/ outbox[d].status \in {"leased", "retryable"} /\ outbox'[d].status = "retryable"
          \/ outbox[d].status \in {"pending", "leased", "retryable"} /\ outbox'[d].status = "failed"
      BY <1>1, <2>1, <3>1, <3>2, DeletedRowColumns
    <3> QED BY <3>3, <3>4 DEF Closed
  <2>2. CASE ConvOf[d] # c
    BY <1>1, <2>2
  <2> QED BY <2>1, <2>2
<1>4. FifoInv'
  BY <1>1, <1>3, FifoKept DEF ChatInv
<1>5. MessageInv'
  <2>1. \A d \in Runs : ConvOf[d] \in Convs
    BY ChatParts
  <2> QED BY <1>1, <2>1 DEF ChatInv, MessageInv, OutcomeAgreement
<1>6. ASSUME NEW b \in Convs, b # c PROVE Sound(b)'
  <2>1. SameRows(b)
    BY <1>1, <1>6 DEF SameRows
  <2> QED BY <1>1, <1>6, <2>1, Undisturbed DEF ChatInv, Sound
<1>7. StreamSound(c)'
  BY <1>1, <1>2, <1>3 DEF StreamSound
<1>8. LogSound(c)'
  BY <1>1, <1>2, <1>3, LogKept DEF ChatInv
<1>9. ASSUME NEW i \in 1..Len(ledger[c]) PROVE ledger[c][i].run \in Runs
  BY ChatParts
<1>10. LedgerSound(c)'
  BY <1>1, <1>2, <1>3, <1>9 DEF ChatInv, LedgerSound
<1>11. SerialLedger(c)'
  <2>1. ASSUME NEW i \in 1..(Len(ledger[c]) - 1)
        PROVE  Follows(outbox', ledger[c][i], ledger[c][i + 1])
    <3>1. i \in 1..Len(ledger[c]) /\ i + 1 \in 1..Len(ledger[c])
      BY ChatParts
    <3>2. Follows(outbox, ledger[c][i], ledger[c][i + 1])
      BY DEF ChatInv, SerialLedger
    <3> QED BY <1>3, <1>9, <3>1, <3>2 DEF Follows
  <2> QED BY <1>1, <2>1 DEF ChatInv, SerialLedger
<1> QED BY <1>4, <1>5, <1>6, <1>7, <1>8, <1>10, <1>11 DEF ChatInv, Sound

\* The conversation invariant holds in every reachable state.
THEOREM ConversationsSound == Spec => []ChatInv
<1>1. Init => ChatInv
  <2> SUFFICES ASSUME Init PROVE ChatInv
    OBVIOUS
  <2>1. /\ \A d \in Runs : outbox[d] = AbsentRow /\ message[d] = "absent" /\ ConvOf[d] \in Convs
        /\ \A c \in Convs : /\ messageSeq[c] = 0 /\ conversation[c] = "active"
                            /\ stream[c] = NewStream /\ ledger[c] = <<>> /\ agentLog[c] = <<>>
    BY ConstantsAssumption DEF Init
  <2>2. FifoInv /\ MessageInv
    BY <2>1 DEF FifoInv, MessageInv, OutcomeAgreement, AbsentRow, Open, Closed
  <2>3. ASSUME NEW c \in Convs PROVE StreamSound(c) /\ LogSound(c) /\ LedgerSound(c) /\ SerialLedger(c)
    <3>1. StreamSound(c)
      BY <2>1 DEF StreamSound, AbsentRow, NewStream, InFlight
    <3>2. LogSound(c)
      BY <2>1 DEF LogSound, AbsentRow, NewStream
    <3>3. LedgerSound(c) /\ SerialLedger(c)
      BY <2>1 DEF LedgerSound, SerialLedger, AbsentRow, IsHead, Open
    <3> QED BY <3>1, <3>2, <3>3
  <2> QED BY <2>2, <2>3 DEF ChatInv
<1>2. TypeOK /\ TypeOK' /\ ClaimInv /\ ChatInv /\ [Next]_vars => ChatInv'
  <2> SUFFICES ASSUME TypeOK, TypeOK', ClaimInv, ChatInv, [Next]_vars PROVE ChatInv'
    OBVIOUS
  <2>1. CASE UNCHANGED vars
    BY <2>1 DEF vars, ChatInv, FifoInv, MessageInv, OutcomeAgreement, StreamSound, LogSound, LedgerSound,
       SerialLedger, IsHead
  <2>2. CASE Next
    BY <2>2, ChatInvSubmit, ChatInvClaim, ChatInvMarkFailed, ChatInvQuiet, ChatInvRun, ChatInvProject, ChatInvDelete
       DEF Next, Settle, Quiet
  <2> QED BY <2>1, <2>2
<1> QED BY <1>1, <1>2, TypeCorrect, ClaimsSound, PTL DEF Spec

\* Neither the snapshot reader nor the projection throws for a state that must not
\* be: the stream expects the head in flight and no other, and every event still to
\* be projected is of it.
THEOREM NothingThrows == Spec => []NoStateException
<1>1. TypeOK /\ ClaimInv /\ ChatInv => ExecutionHeadValid
  <2> SUFFICES ASSUME TypeOK, ClaimInv, ChatInv, NEW c \in Convs, conversation[c] = "active"
               PROVE  LET heads == {d \in Runs : ConvOf[d] = c /\ IsHead(outbox, d)} IN
                      /\ heads = {} => stream[c].expected = NoRun
                      /\ \A d \in heads : /\ stream[c].expected \in {NoRun, d}
                                          /\ stream[c].terminal # d
                                          /\ stream[c].latest = d => stream[c].expected = d
    BY DEF ExecutionHeadValid
  <2>1. StreamSound(c) /\ FifoInv /\ stream[c].expected \in Runs \cup {NoRun}
    BY ChatParts DEF ChatInv
  <2>2. ASSUME stream[c].expected # NoRun
        PROVE  stream[c].expected \in Runs /\ ConvOf[stream[c].expected] = c /\ IsHead(outbox, stream[c].expected)
    BY <2>1, <2>2, InFlightIsHead DEF StreamSound
  <2>3. ASSUME NEW d \in Runs, ConvOf[d] = c, IsHead(outbox, d)
        PROVE  /\ stream[c].expected \in {NoRun, d}
               /\ stream[c].terminal # d
               /\ stream[c].latest = d => stream[c].expected = d
    <3>1. outbox[d].status \notin Closed /\ d # NoRun
      BY <2>3, ConstantsAssumption DEF IsHead, Open, Closed
    <3>2. stream[c].expected \in {NoRun, d}
      BY <2>1, <2>2, <2>3, HeadIsUnique
    <3>3. stream[c].terminal # d
      BY <2>1, <3>1 DEF StreamSound
    <3>4. stream[c].latest = d => stream[c].expected = d
      BY <2>1, <2>3, <3>1 DEF StreamSound
    <3> QED BY <3>2, <3>3, <3>4
  <2> QED BY <2>2, <2>3
<1>2. TypeOK /\ ClaimInv /\ ChatInv => SourceProjectable
  BY Unread DEF SourceProjectable, InFlight
<1> QED BY <1>1, <1>2, TypeCorrect, ClaimsSound, ConversationsSound, PTL DEF NoStateException

\* The public frames of a conversation tell its runs one after the other, and a
\* message of a live one is settled exactly when its dispatch is closed.
THEOREM RecordsAgree == Spec => []TurnRecordsAgree
<1>1. ChatInv => TurnRecordsAgree
  BY DEF ChatInv, TurnRecordsAgree, LedgerSerial, MessageInv
<1> QED BY <1>1, ConversationsSound, PTL

\* However late a request arrives, the Agent takes a run only when every earlier
\* turn of the conversation is closed.
THEOREM AdmissionIsFifo == Spec => FifoAdmission
<1> DEFINE Earlier(d) == \A e \in Runs : ConvOf[e] = ConvOf[d] /\ outbox[e].seq < outbox[d].seq
                                            => outbox[e].status \in Closed \cup {"absent"}
           Fifo == \A d \in Runs : agent[d] = "none" /\ agent'[d] # "none" => Earlier(d)
<1>1. TypeOK /\ ClaimInv /\ ChatInv /\ [Next]_vars => [Fifo]_vars
  <2> SUFFICES ASSUME TypeOK, ClaimInv, ChatInv, Next, NEW d \in Runs, agent[d] = "none", agent'[d] # "none"
               PROVE  Earlier(d)
    OBVIOUS
  <2>1. PICK r \in requests : r.run = d
    <3>1. agent \in [Runs -> {"none", "admitted", "running", "ended"}]
      BY DEF TypeOK
    <3>2. agent' # agent
      OBVIOUS
    <3>3. ASSUME NEW e \in Runs, AgentStart(e) \/ AgentFinish(e) PROVE FALSE
      BY <3>1, <3>3 DEF AgentStart, AgentFinish
    <3>4. \E r \in requests : AgentAccept(r)
      BY <3>2, <3>3 DEF Next, SubmitTurn, Elapse, Claim, Deliver, RefuseLocally, GiveUp, Crash, Settle, MarkAdmitted,
         MarkUnknown, MarkNotAdmittedSticky, MarkFailed, DropSettlement, AgentReject, Project, DeleteConversation,
         agentVars
    <3> QED BY <3>1, <3>4 DEF AgentAccept
  <2>2. outbox[d].fence > 0 /\ outbox[d].status # "failed"
    BY <2>1, Parts DEF ClaimInv, TicketsInv, FailedNeverAdmitted
  <2>3. outbox[d].attempts > 0
    BY <2>2, ChatParts DEF ClaimInv, RowsInv, InFlight, Closed
  <2> QED BY <2>3 DEF ChatInv, FifoInv
<1> QED BY <1>1, TypeCorrect, ClaimsSound, ConversationsSound, PTL DEF Spec, FifoAdmission

\* A worker that finishes after its lease was taken over changes no row, message,
\* stream or frame.
THEOREM LateWorkerHarmless == Spec => StaleSettlementHarmless
<1> DEFINE Harmless == \A w \in Workers :
             /\ worker[w].pc = "answered"
             /\ worker'[w].pc = "idle"
             /\ outbox[worker[w].run].fence # worker[w].fence
             => UNCHANGED <<outbox, message, stream, ledger>>
<1>1. TypeOK /\ [Next]_vars => [Harmless]_vars
  <2> SUFFICES ASSUME TypeOK, Next, NEW w \in Workers, worker[w].pc = "answered", worker'[w].pc = "idle",
                      outbox[worker[w].run].fence # worker[w].fence
               PROVE  UNCHANGED <<outbox, message, stream, ledger>>
    OBVIOUS
  <2>1. worker \in [Workers -> Ticket \cup {Idle}] /\ worker' # worker
    BY DEF TypeOK
  <2>2. ~Held(w)
    BY DEF Held
  <2>3. ASSUME NEW v \in Workers, Settle(v) PROVE v = w
    BY <2>1, <2>3 DEF Settle, MarkAdmitted, MarkUnknown, MarkNotAdmittedSticky, MarkFailed, DropSettlement
  <2>4. ASSUME NEW v \in Workers, Settle(v) PROVE UNCHANGED <<outbox, message, stream, ledger>>
    BY <2>2, <2>3, <2>4 DEF Settle, MarkAdmitted, MarkUnknown, MarkNotAdmittedSticky, MarkFailed, DropSettlement,
       Settles, bffVars
  <2>5. ASSUME NEW v \in Workers, NEW d \in Runs, Claim(v, d) PROVE FALSE
    BY <2>1, <2>5 DEF Claim
  <2>6. ASSUME NEW v \in Workers, Deliver(v) \/ RefuseLocally(v) \/ GiveUp(v) \/ Crash(v)
        PROVE  UNCHANGED <<outbox, message, stream, ledger>>
    BY <2>6 DEF Deliver, RefuseLocally, GiveUp, Crash, bffVars
  <2>7. ASSUME NEW r \in requests, AgentAccept(r) \/ AgentReject(r)
        PROVE  UNCHANGED <<outbox, message, stream, ledger>>
    BY <2>7 DEF AgentAccept, AgentReject, bffVars
  <2> QED BY <2>1, <2>4, <2>5, <2>6, <2>7 DEF Next, SubmitTurn, Elapse, AgentStart, AgentFinish, Project,
             DeleteConversation
<1> QED BY <1>1, TypeCorrect, PTL DEF Spec, StaleSettlementHarmless

\* A closed dispatch is never reopened, nor closed otherwise: no late mark, takeover,
\* terminal event or deletion matches it.
THEOREM ClosedStaysClosed == Spec => ClosedIsFinal
<1> DEFINE Final == \A d \in Runs : outbox[d].status \in Closed => outbox'[d].status = outbox[d].status
<1>1. TypeOK /\ [Next]_vars => [Final]_vars
  <2> SUFFICES ASSUME TypeOK, Next, NEW d \in Runs, outbox[d].status \in Closed
               PROVE  outbox'[d].status = outbox[d].status
    OBVIOUS
  <2>1. outbox \in [Runs -> Row] /\ outbox[d] \in Row
    BY DEF TypeOK
  <2>2. CASE Quiet
    BY <2>2, QuietColumns, ChatParts DEF SameRows, InFlight, Closed
  <2>3. ASSUME NEW e \in Runs, SubmitTurn(e) PROVE outbox'[d] = outbox[d]
    BY <2>1, <2>3 DEF SubmitTurn, Closed
  <2>4. ASSUME NEW w \in Workers, NEW e \in Runs, Claim(w, e) PROVE outbox'[d] = outbox[d]
    BY <2>1, <2>4 DEF Claim, Claimable, Closed
  <2>5. ASSUME NEW w \in Workers, MarkFailed(w) PROVE outbox'[d] = outbox[d]
    BY <2>1, <2>5 DEF MarkFailed, Settles, Held, Closed
  <2>6. ASSUME NEW c \in Convs, Project(c) PROVE outbox'[d] = outbox[d]
    BY <2>1, <2>6 DEF Project, Closed
  <2>7. ASSUME NEW c \in Convs, DeleteConversation(c) PROVE outbox'[d] = outbox[d]
    <3>1. DeletedRow(outbox[d]) = outbox[d]
      BY DEF DeletedRow, Closed
    <3> QED BY <2>1, <2>7, <3>1 DEF DeleteConversation
  <2>8. ASSUME NEW e \in Runs, AgentStart(e) \/ AgentFinish(e) PROVE outbox'[d] = outbox[d]
    BY <2>8 DEF AgentStart, AgentFinish, bffVars
  <2> QED BY <2>2, <2>3, <2>4, <2>5, <2>6, <2>7, <2>8 DEF Next, Settle, Quiet
<1> QED BY <1>1, TypeCorrect, PTL DEF Spec, ClosedIsFinal

=============================================================================
