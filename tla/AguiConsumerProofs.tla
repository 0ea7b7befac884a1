-------------------------- MODULE AguiConsumerProofs --------------------------
(***************************************************************************)
(* Theorems about AguiConsumer, for every set of turns and workers, every  *)
(* page size, page budget and commit budget, and every number of faults.   *)
(***************************************************************************)
EXTENDS AguiConsumer, SequenceTheorems, TLAPS

-----------------------------------------------------------------------------
(* The columns each writer of the stream row leaves behind *)

\* A registration takes over the stream of another run under a new version
\* and a new fence.
LEMMA RegisteredColumns ==
    ASSUME NEW s \in Stream, NEW r \in Runs, NEW t, t = Registered(s, r)
    PROVE  /\ t \in Stream
           /\ t.watermark = s.watermark
           /\ t.expected = r
           /\ s.expected = r => /\ t.version = s.version /\ t.terminal = s.terminal
                                /\ t.state = s.state /\ t.holder = s.holder /\ t.fence = s.fence
           /\ s.expected # r => /\ t.version = s.version + 1 /\ t.terminal = NoRun
                                /\ t.state = "active" /\ t.holder = NoWorker /\ t.fence = s.fence + 1
<1>1. s.version + 1 \in Nat /\ s.fence + 1 \in Nat
  BY DEF Stream
<1> QED BY <1>1 DEF Stream, Registered, Unleased

\* A failed dispatch is terminal, and fences the stream if it was expected.
LEMMA FailedColumns ==
    ASSUME NEW s \in Stream, NEW r \in Runs, NEW t, t = Failed(s, r)
    PROVE  /\ t \in Stream
           /\ t.version = s.version + 1
           /\ t.watermark = s.watermark
           /\ s.expected = r => /\ t.expected = NoRun /\ t.terminal = r /\ t.state = "stopped"
                                /\ t.holder = NoWorker /\ t.fence = s.fence + 1
           /\ s.expected # r => /\ t.expected = s.expected /\ t.state = s.state
                                /\ t.holder = s.holder /\ t.fence = s.fence
<1>1. s.version + 1 \in Nat /\ s.fence + 1 \in Nat
  BY DEF Stream
<1> QED BY <1>1 DEF Stream, Failed, Unleased

\* A deletion stops and fences the stream and leaves the run columns.
LEMMA StoppedColumns ==
    ASSUME NEW s \in Stream, NEW t, t = Stopped(s)
    PROVE  /\ t \in Stream
           /\ t.version = s.version /\ t.watermark = s.watermark
           /\ t.expected = s.expected /\ t.terminal = s.terminal
           /\ t.state = "stopped" /\ t.holder = NoWorker /\ t.fence = s.fence + 1
<1>1. s.fence + 1 \in Nat
  BY DEF Stream
<1> QED BY <1>1 DEF Stream, Stopped, Unleased

\* The version a queued frame adds never takes a column back.
LEMMA VersionColumns ==
    ASSUME NEW s \in Stream, NEW n \in Nat, NEW t, t = [s EXCEPT !.version = @ + n]
    PROVE  /\ t \in Stream
           /\ t.version = s.version + n
           /\ t.watermark = s.watermark /\ t.expected = s.expected /\ t.terminal = s.terminal
           /\ t.state = s.state /\ t.holder = s.holder /\ t.fence = s.fence
<1>1. s.version + n \in Nat
  BY DEF Stream
<1> QED BY <1>1 DEF Stream

\* A settlement gives up the lease and touches no run column.
LEMMA SettledColumns ==
    ASSUME stream \in Stream, NEW o, NEW t, t = SettledStream(o)
    PROVE  /\ t \in Stream
           /\ t.version = stream.version /\ t.watermark = stream.watermark
           /\ t.expected = stream.expected /\ t.terminal = stream.terminal
           /\ t.holder = NoWorker /\ t.fence = stream.fence
           /\ t.state = IF o = "blocked" THEN "blocked" ELSE "active"
BY DEF Stream, SettledStream, Unleased

\* The terminal run of a command is the snapshot's or one the page names.
LEMMA TerminalType ==
    ASSUME NEW t \in Ticket
    PROVE  Terminal(t) \in {t.snap.expected, t.snap.terminal, NoRun}
BY DEF Terminal

\* A commit moves the watermark to the end of its page under a new version,
\* closes the expected run if the command ends it, and keeps the lease.
LEMMA CommittedColumns ==
    ASSUME stream \in Stream, NEW t \in Ticket, NEW d, NEW c, c = CommittedStream(t, d)
    PROVE  /\ c \in Stream
           /\ c.version \in Nat /\ c.version >= stream.version + 1
           /\ c.watermark = t.to
           /\ c.expected = IF Terminal(t) # NoRun /\ stream.expected = Terminal(t) THEN NoRun ELSE stream.expected
           /\ c.terminal \in {Terminal(t), stream.terminal}
           /\ Terminal(t) = NoRun => c.terminal = NoRun
           /\ c.state = stream.state /\ c.holder = stream.holder /\ c.fence = stream.fence
<1> DEFINE n == IF SettlesHead(t) THEN QueuedFrame(d) ELSE 0
<1>1. n \in {0, 1}
  BY DEF QueuedFrame
<1>2. Terminal(t) \in Runs \cup {NoRun}
  BY TerminalType DEF Ticket, Snapshot
<1>3. t.to \in Nat
  BY DEF Ticket
<1>4. stream.version + 1 + n \in Nat /\ stream.version + 1 + n >= stream.version + 1
  BY <1>1 DEF Stream
<1> HIDE DEF n
<1>5. c = [stream EXCEPT !.version = @ + 1 + n, !.watermark = t.to,
             !.terminal = IF Terminal(t) = NoRun \/ @ = Terminal(t) \/ stream.expected \in {NoRun, Terminal(t)}
                          THEN Terminal(t) ELSE @,
             !.expected = IF Terminal(t) # NoRun /\ @ = Terminal(t) THEN NoRun ELSE @]
  BY DEF CommittedStream, n
<1> HIDE DEF Terminal
<1> QED BY <1>2, <1>3, <1>4, <1>5 DEF Stream

-----------------------------------------------------------------------------
(* The tickets a worker's steps leave behind *)

\* Leaving the page loop keeps the fence and the outcome.
LEMMA OutcomeColumns ==
    ASSUME NEW t \in Ticket, NEW o \in Outcomes, NEW u, u = Outcome(t, o)
    PROVE  u \in Ticket /\ u.pc = "settle" /\ u.fence = t.fence /\ u.outcome = o
<1>1. NoSnapshot \in Snapshot
  BY DEF NoSnapshot, Snapshot
<1> QED BY <1>1 DEF Ticket, Outcome, Idle

\* After a page is in, a worker settles without blocking or reads on from there.
LEMMA IngestedColumns ==
    ASSUME NEW t \in Ticket, NEW u, u = Ingested(t)
    PROVE  /\ u \in Ticket
           /\ u.fence = t.fence
           /\ \/ u.pc = "settle" /\ u.outcome \in {"caught_up", "spent"}
              \/ u.pc = "paging" /\ u.after = t.to
<1>1. NoSnapshot \in Snapshot
  BY DEF NoSnapshot, Snapshot
<1>2. t.pages + 1 \in Nat /\ t.to \in Nat
  BY DEF Ticket
<1>3. CASE t.exhausted
  BY <1>3, OutcomeColumns DEF Ingested, Outcomes
<1>4. CASE ~t.exhausted /\ t.pages + 1 = MaxPages
  BY <1>4, OutcomeColumns DEF Ingested, Outcomes
<1>5. CASE ~t.exhausted /\ t.pages + 1 # MaxPages
  <2>1. u = [t EXCEPT !.pc = "paging", !.after = t.to, !.to = 0, !.exhausted = FALSE,
                      !.snap = NoSnapshot, !.pages = @ + 1, !.attempts = 0]
    BY <1>5 DEF Ingested
  <2>2. u = [pc |-> "paging", fence |-> t.fence, after |-> t.to, to |-> 0, exhausted |-> FALSE,
             snap |-> NoSnapshot, pages |-> t.pages + 1, attempts |-> 0, outcome |-> t.outcome]
    BY <2>1 DEF Ticket
  <2>3. t.fence \in Nat /\ t.outcome \in Outcomes
    BY DEF Ticket
  <2>4. u \in Ticket
    BY <1>1, <1>2, <2>2, <2>3 DEF Ticket
  <2> QED BY <2>2, <2>4
<1> QED BY <1>3, <1>4, <1>5

-----------------------------------------------------------------------------
(* Types *)

\* The steps of the chat side, the Agent and the clock.
LEMMA TypeOfOtherSteps ==
    ASSUME TypeOK,
           \/ \E r \in Runs : SubmitTurn(r) \/ ClaimDispatch(r) \/ FailDispatch(r)
           \/ \E r \in Runs, kind \in {"start", "end", "trailer"} : AgentEmit(r, kind)
           \/ DeleteConversation \/ LeaseExpires \/ FallsDue
    PROVE  TypeOK'
<1> USE ConstantsAssumption
<1>0. /\ stream \in Stream /\ dispatch \in [Runs -> {"absent", "queued", "claimed", "closed"}]
      /\ log \in Seq(Event) /\ faults \in 0..MaxFaults /\ idlePolls \in 0..MaxIdlePolls
  BY DEF TypeOK
<1>1. ASSUME NEW r \in Runs, SubmitTurn(r) PROVE TypeOK'
  <2>1. stream.version + 1 \in Nat
    BY <1>0 DEF Stream
  <2>2. stream' \in Stream
    BY <1>0, <1>1, <2>1 DEF SubmitTurn, Stream
  <2>3. dispatch' \in [Runs -> {"absent", "queued", "claimed", "closed"}]
    BY <1>0, <1>1 DEF SubmitTurn
  <2> QED BY <1>1, <2>2, <2>3 DEF SubmitTurn, TypeOK, boundVars
<1>2. ASSUME NEW r \in Runs, ClaimDispatch(r) PROVE TypeOK'
  <2>1. stream' \in Stream
    BY <1>0, <1>2, RegisteredColumns DEF ClaimDispatch
  <2>2. dispatch' \in [Runs -> {"absent", "queued", "claimed", "closed"}]
    BY <1>0, <1>2 DEF ClaimDispatch
  <2>3. idlePolls' \in 0..MaxIdlePolls
    BY <1>0, <1>2 DEF ClaimDispatch
  <2> QED BY <1>2, <2>1, <2>2, <2>3 DEF ClaimDispatch, TypeOK
<1>3. ASSUME NEW r \in Runs, FailDispatch(r) PROVE TypeOK'
  <2>1. stream' \in Stream
    <3>1. QueuedFrame(dispatch') \in Nat
      BY DEF QueuedFrame
    <3> QED BY <1>0, <1>3, <3>1, FailedColumns, VersionColumns DEF FailDispatch
  <2>2. dispatch' \in [Runs -> {"absent", "queued", "claimed", "closed"}]
    BY <1>0, <1>3 DEF FailDispatch
  <2>3. faults' \in 0..MaxFaults
    BY <1>0, <1>3 DEF FailDispatch, Fault
  <2> QED BY <1>3, <2>1, <2>2, <2>3 DEF FailDispatch, TypeOK
<1>4. ASSUME NEW r \in Runs, NEW kind \in {"start", "end", "trailer"}, AgentEmit(r, kind) PROVE TypeOK'
  <2>1. log' \in Seq(Event)
    BY <1>0, <1>4 DEF AgentEmit, Event
  <2> QED BY <1>4, <2>1 DEF AgentEmit, TypeOK, dbVars, boundVars
<1>5. ASSUME DeleteConversation PROVE TypeOK'
  <2>1. stream' \in Stream
    BY <1>0, <1>5, StoppedColumns DEF DeleteConversation
  <2>2. dispatch' \in [Runs -> {"absent", "queued", "claimed", "closed"}]
    BY <1>0, <1>5 DEF DeleteConversation
  <2>3. deleted' \in BOOLEAN
    BY <1>5 DEF DeleteConversation
  <2> QED BY <1>5, <2>1, <2>2, <2>3 DEF DeleteConversation, TypeOK, boundVars
<1>6. ASSUME LeaseExpires PROVE TypeOK'
  <2>1. stream' \in Stream
    BY <1>0, <1>6 DEF LeaseExpires, Stream
  <2>2. faults' \in 0..MaxFaults
    BY <1>0, <1>6 DEF LeaseExpires, Fault
  <2> QED BY <1>6, <2>1, <2>2 DEF LeaseExpires, TypeOK
<1>7. ASSUME FallsDue PROVE TypeOK'
  <2>1. stream' \in Stream
    BY <1>0, <1>7 DEF FallsDue, Stream
  <2>2. idlePolls' \in 0..MaxIdlePolls
    BY <1>0, <1>7 DEF FallsDue
  <2> QED BY <1>7, <2>1, <2>2 DEF FallsDue, TypeOK
<1> QED BY <1>1, <1>2, <1>3, <1>4, <1>5, <1>6, <1>7

\* The steps of a worker.
LEMMA TypeOfWorkerSteps ==
    ASSUME TypeOK, NEW w \in Workers,
           \/ Claim(w) \/ LoseLease(w) \/ ReadPage(w) \/ ReadFails(w) \/ ReadRefused(w)
           \/ ReadStream(w) \/ Commit(w) \/ CommitUnknown(w) \/ VersionConflict(w)
           \/ LeaseConflict(w) \/ CommitFails(w) \/ Settle(w)
    PROVE  TypeOK'
<1> USE ConstantsAssumption
<1>0. /\ stream \in Stream /\ dispatch \in [Runs -> {"absent", "queued", "claimed", "closed"}]
      /\ log \in Seq(Event) /\ ledger \in Seq(Nat) /\ faults \in 0..MaxFaults
      /\ worker \in [Workers -> Ticket \cup {Idle}]
  BY DEF TypeOK
<1>a. worker[w].pc # "idle" => worker[w] \in Ticket
  BY <1>0 DEF Idle
<1>b. Idle.pc = "idle" /\ NoSnapshot \in Snapshot
  BY DEF Idle, NoSnapshot, Snapshot
<1>c. \A t \in Ticket \cup {Idle} : With(w, t) => worker' \in [Workers -> Ticket \cup {Idle}]
  BY <1>0 DEF With
<1>d. Fault => faults' \in 0..MaxFaults
  BY <1>0 DEF Fault
<1>1. ASSUME Claim(w) PROVE TypeOK'
  <2>1. stream.fence + 1 \in Nat /\ stream.watermark \in Nat
    BY <1>0 DEF Stream
  <2>2. stream' \in Stream
    BY <1>0, <1>1, <2>1 DEF Claim, Stream
  <2>3. [Idle EXCEPT !.pc = "paging", !.fence = stream.fence + 1, !.after = stream.watermark] \in Ticket
    BY <1>b, <2>1 DEF Idle, Ticket, Outcomes
  <2>4. worker' \in [Workers -> Ticket \cup {Idle}]
    BY <1>0, <1>1, <2>3 DEF Claim
  <2> QED BY <1>1, <2>2, <2>4 DEF Claim, TypeOK, boundVars
<1>2. ASSUME LoseLease(w) PROVE TypeOK'
  <2>1. faults' \in 0..MaxFaults
    BY <1>0, <1>2, <1>d DEF LoseLease
  <2> QED BY <1>2, <1>c, <2>1 DEF LoseLease, TypeOK, dbVars
<1>3. ASSUME ReadPage(w) PROVE TypeOK'
  <2> DEFINE left == Len(log) - worker[w].after
             to == worker[w].after + (IF left < PageSize THEN left ELSE PageSize)
  <2>1. worker[w] \in Ticket
    BY <1>3, <1>a DEF ReadPage
  <2>2. to = worker[w].after \/ to \in Nat
    <3>1. worker[w].after \in Nat /\ Len(log) \in Nat
      BY <1>0, <2>1 DEF Ticket
    <3> QED BY <3>1
  <2>3. Outcome(worker[w], "caught_up") \in Ticket
    BY <2>1, OutcomeColumns DEF Outcomes
  <2>4. ASSUME to \in Nat PROVE [worker[w] EXCEPT !.pc = "page", !.to = to, !.exhausted = (to = Len(log))] \in Ticket
    BY <2>1, <2>4 DEF Ticket
  <2>5. worker' \in [Workers -> Ticket \cup {Idle}]
    <3>1. With(w, IF to = worker[w].after THEN Outcome(worker[w], "caught_up")
                  ELSE [worker[w] EXCEPT !.pc = "page", !.to = to, !.exhausted = (to = Len(log))])
      BY <1>3 DEF ReadPage
    <3> HIDE DEF to
    <3> QED BY <1>c, <2>2, <2>3, <2>4, <3>1
  <2> QED BY <1>3, <2>5 DEF ReadPage, TypeOK, dbVars, boundVars
<1>4. ASSUME ReadFails(w) PROVE TypeOK'
  <2>1. Outcome(worker[w], "retryable") \in Ticket
    BY <1>4, <1>a, OutcomeColumns DEF ReadFails, Outcomes
  <2> QED BY <1>4, <1>c, <1>d, <2>1 DEF ReadFails, TypeOK, dbVars
<1>5. ASSUME ReadRefused(w) PROVE TypeOK'
  <2>1. Outcome(worker[w], "blocked") \in Ticket /\ worker[w].fence \in Nat
    BY <1>5, <1>a, OutcomeColumns DEF ReadRefused, Outcomes, Ticket
  <2>2. refused' \in SUBSET Nat
    BY <1>5, <2>1 DEF ReadRefused, TypeOK
  <2> QED BY <1>5, <1>c, <1>d, <2>1, <2>2 DEF ReadRefused, TypeOK, dbVars
<1>6. ASSUME ReadStream(w) PROVE TypeOK'
  <2> DEFINE snapshot == [version |-> stream.version, watermark |-> stream.watermark,
                          expected |-> stream.expected, terminal |-> stream.terminal]
  <2>1. worker[w] \in Ticket
    BY <1>6, <1>a DEF ReadStream
  <2>2. Outcome(worker[w], "retryable") \in Ticket /\ Outcome(worker[w], "blocked") \in Ticket
    BY <2>1, OutcomeColumns DEF Outcomes
  <2>3. Ingested(worker[w]) \in Ticket
    BY <2>1, IngestedColumns
  <2>4. snapshot \in Snapshot
    BY <1>0 DEF Stream, Snapshot
  <2>5. [worker[w] EXCEPT !.pc = "commit", !.snap = snapshot] \in Ticket
    <3> HIDE DEF snapshot
    <3> QED BY <2>1, <2>4 DEF Ticket
  <2>6. worker' \in [Workers -> Ticket \cup {Idle}]
    BY <1>6, <1>c, <2>2, <2>3, <2>5 DEF ReadStream
  <2> QED BY <1>6, <2>6 DEF ReadStream, TypeOK, dbVars, boundVars
<1>7. ASSUME WriteProjection(w) PROVE stream' \in Stream /\ dispatch' \in [Runs -> {"absent", "queued", "claimed", "closed"}]
                                      /\ ledger' \in Seq(Nat)
  <2>1. worker[w] \in Ticket
    BY <1>7, <1>a DEF WriteProjection
  <2>2. worker[w].snap.watermark \in Nat /\ worker[w].to \in Nat
    BY <2>1 DEF Ticket, Snapshot
  <2>3. stream' \in Stream
    BY <1>0, <1>7, <2>1, CommittedColumns DEF WriteProjection
  <2>4. dispatch' \in [Runs -> {"absent", "queued", "claimed", "closed"}]
    BY <1>0, <1>7 DEF WriteProjection
  <2>5. ledger' \in Seq(Nat)
    <3> DEFINE n == worker[w].to - worker[w].snap.watermark
               f == [i \in 1..n |-> worker[w].snap.watermark + i]
    <3>1. ASSUME n \in Nat PROVE f \in Seq(Nat)
      <4>1. \A i \in 1..n : worker[w].snap.watermark + i \in Nat
        BY <2>2
      <4> QED BY <3>1, <4>1
    <3>2. ASSUME n \notin Nat PROVE f \in Seq(Nat)
      <4>1. 1..n = {} /\ 1..0 = {}
        BY <2>2, <3>2
      <4>2. f \in [1..0 -> Nat]
        BY <4>1
      <4> HIDE DEF f
      <4> QED BY <4>2, SeqDef
    <3>3. ledger' = ledger \o f
      BY <1>7 DEF WriteProjection
    <3> HIDE DEF f
    <3> QED BY <1>0, <3>1, <3>2, <3>3
  <2> QED BY <2>3, <2>4, <2>5
<1>8. ASSUME Commit(w) PROVE TypeOK'
  <2>1. Ingested(worker[w]) \in Ticket
    BY <1>8, <1>a, IngestedColumns DEF Commit, WriteProjection
  <2>2. worker' \in [Workers -> Ticket \cup {Idle}]
    BY <1>8, <1>c, <2>1 DEF Commit
  <2> QED BY <1>7, <1>8, <2>2 DEF Commit, WriteProjection, TypeOK
<1>9. ASSUME CommitUnknown(w) PROVE TypeOK'
  <2>1. Outcome(worker[w], "retryable") \in Ticket
    BY <1>9, <1>a, OutcomeColumns DEF CommitUnknown, WriteProjection, Outcomes
  <2>2. worker' \in [Workers -> Ticket \cup {Idle}]
    BY <1>9, <1>c, <2>1 DEF CommitUnknown
  <2> QED BY <1>7, <1>9, <1>d, <2>2 DEF CommitUnknown, WriteProjection, TypeOK
<1>10. ASSUME VersionConflict(w) PROVE TypeOK'
  <2>1. worker[w] \in Ticket
    BY <1>10, <1>a DEF VersionConflict
  <2>2. worker[w].attempts + 1 \in Nat
    BY <2>1 DEF Ticket
  <2>3. [worker[w] EXCEPT !.pc = "page", !.snap = NoSnapshot, !.attempts = @ + 1] \in Ticket
    BY <1>b, <2>1, <2>2 DEF Ticket
  <2> QED BY <1>10, <1>c, <2>3 DEF VersionConflict, TypeOK, dbVars, boundVars
<1>11. ASSUME LeaseConflict(w) PROVE TypeOK'
  BY <1>11, <1>c DEF LeaseConflict, TypeOK, dbVars, boundVars
<1>12. ASSUME CommitFails(w) PROVE TypeOK'
  <2>1. Outcome(worker[w], "retryable") \in Ticket
    BY <1>12, <1>a, OutcomeColumns DEF CommitFails, Outcomes
  <2> QED BY <1>12, <1>c, <1>d, <2>1 DEF CommitFails, TypeOK, dbVars
<1>13. ASSUME Settle(w) PROVE TypeOK'
  <2>1. stream' \in Stream
    BY <1>0, <1>13, SettledColumns DEF Settle
  <2> QED BY <1>13, <1>c, <2>1 DEF Settle, TypeOK, boundVars
<1> QED BY <1>1, <1>2, <1>3, <1>4, <1>5, <1>6, <1>8, <1>9, <1>10, <1>11, <1>12, <1>13

\* The empty session is well typed.
LEMMA InitTypeOK == Init => TypeOK
<1> SUFFICES ASSUME Init PROVE TypeOK
  OBVIOUS
<1> USE ConstantsAssumption
<1>1. NewStream \in Stream
  BY DEF NewStream, Stream
<1>2. log \in Seq(Event) /\ ledger \in Seq(Nat)
  BY DEF Init
<1>3. worker \in [Workers -> Ticket \cup {Idle}]
  BY DEF Init
<1>4. dispatch \in [Runs -> {"absent", "queued", "claimed", "closed"}]
  BY DEF Init
<1>5. faults \in 0..MaxFaults /\ idlePolls \in 0..MaxIdlePolls
  BY DEF Init
<1> QED BY <1>1, <1>2, <1>3, <1>4, <1>5 DEF Init, TypeOK

\* Every step keeps the types.
LEMMA StepTypeOK == TypeOK /\ [Next]_vars => TypeOK'
<1>1. TypeOK /\ Next => TypeOK'
  BY TypeOfOtherSteps, TypeOfWorkerSteps DEF Next
<1>2. TypeOK /\ UNCHANGED vars => TypeOK'
  BY DEF vars, TypeOK
<1> QED BY <1>1, <1>2

\* Every variable keeps its type.
THEOREM TypeCorrect == Spec => []TypeOK
BY InitTypeOK, StepTypeOK, PTL DEF Spec

-----------------------------------------------------------------------------
(* How a step moves the stream row, the log and a worker's ticket *)

\* The columns a command is computed from.
RunColumnsKept ==
    /\ stream'.version = stream.version
    /\ stream'.watermark = stream.watermark
    /\ stream'.expected = stream.expected
    /\ stream'.terminal = stream.terminal

\* A worker's step that does not project.
QuietOfWorker(w) ==
    \/ Claim(w) \/ LoseLease(w) \/ ReadPage(w) \/ ReadFails(w) \/ ReadRefused(w) \/ ReadStream(w)
    \/ VersionConflict(w) \/ LeaseConflict(w) \/ CommitFails(w) \/ Settle(w)

\* A step that only leases, waits or reads.
Quiet == LeaseExpires \/ FallsDue \/ (\E w \in Workers : QuietOfWorker(w)) \/ UNCHANGED vars

\* The steps that leave the log, the ledger, the turns and the run columns.
LEMMA QuietSteps ==
    ASSUME TypeOK, Quiet
    PROVE  UNCHANGED <<log, ledger, dispatch, deleted>> /\ RunColumnsKept
<1>0. stream \in Stream
  BY DEF TypeOK
<1>1. CASE LeaseExpires \/ FallsDue
  BY <1>0, <1>1 DEF LeaseExpires, FallsDue, Stream, RunColumnsKept
<1>2. CASE UNCHANGED vars
  BY <1>2 DEF vars, RunColumnsKept
<1>3. ASSUME NEW w \in Workers, Claim(w) PROVE UNCHANGED <<log, ledger, dispatch, deleted>> /\ RunColumnsKept
  BY <1>0, <1>3 DEF Claim, Stream, RunColumnsKept
<1>4. ASSUME NEW w \in Workers, Settle(w) PROVE UNCHANGED <<log, ledger, dispatch, deleted>> /\ RunColumnsKept
  BY <1>0, <1>4, SettledColumns DEF Settle, RunColumnsKept
<1>5. ASSUME NEW w \in Workers,
             LoseLease(w) \/ ReadPage(w) \/ ReadFails(w) \/ ReadRefused(w) \/ ReadStream(w)
             \/ VersionConflict(w) \/ LeaseConflict(w) \/ CommitFails(w)
      PROVE  UNCHANGED <<log, ledger, dispatch, deleted>> /\ RunColumnsKept
  BY <1>5 DEF LoseLease, ReadPage, ReadFails, ReadRefused, ReadStream, VersionConflict, LeaseConflict,
              CommitFails, dbVars, RunColumnsKept
<1> QED BY <1>1, <1>2, <1>3, <1>4, <1>5 DEF Quiet, QuietOfWorker

\* Every step is quiet, a step of a turn or of the Agent, or a projection.
LEMMA StepKinds ==
    ASSUME [Next]_vars
    PROVE  \/ Quiet
           \/ \E r \in Runs : SubmitTurn(r) \/ ClaimDispatch(r) \/ FailDispatch(r)
           \/ \E r \in Runs, kind \in {"start", "end", "trailer"} : AgentEmit(r, kind)
           \/ DeleteConversation
           \/ \E w \in Workers : Commit(w) \/ CommitUnknown(w)
BY DEF Next, Quiet, QuietOfWorker

\* A projection, with the columns it leaves.
LEMMA ProjectionColumns ==
    ASSUME TypeOK, NEW w \in Workers, WriteProjection(w), NEW t, t = worker[w]
    PROVE  /\ t \in Ticket /\ t.pc = "commit"
           /\ stream.version = t.snap.version /\ stream.state = "active" /\ Held(w)
           /\ stream'.version \in Nat /\ stream'.version >= stream.version + 1
           /\ stream'.watermark = t.to
           /\ stream'.expected = IF Terminal(t) # NoRun /\ stream.expected = Terminal(t)
                                 THEN NoRun ELSE stream.expected
           /\ stream'.terminal \in {Terminal(t), stream.terminal}
           /\ Terminal(t) = NoRun => stream'.terminal = NoRun
           /\ stream'.state = stream.state /\ stream'.holder = stream.holder /\ stream'.fence = stream.fence
<1>1. t \in Ticket /\ t.pc = "commit"
  BY DEF WriteProjection, TypeOK, Idle
<1>2. stream \in Stream
  BY DEF TypeOK
<1>3. stream' = CommittedStream(t, dispatch')
  BY DEF WriteProjection
<1>4. stream.version = t.snap.version /\ stream.state = "active" /\ Held(w)
  BY DEF WriteProjection, Matches, LeaseMatches
<1> HIDE DEF Terminal, CommittedStream
<1> QED BY <1>1, <1>2, <1>3, <1>4, CommittedColumns

\* Submitting a turn moves nothing but the version.
LEMMA SubmittedColumns ==
    ASSUME TypeOK, NEW r \in Runs, SubmitTurn(r)
    PROVE  /\ stream'.version \in {stream.version, stream.version + 1}
           /\ stream'.watermark = stream.watermark /\ stream'.expected = stream.expected
           /\ stream'.terminal = stream.terminal /\ stream'.state = stream.state
           /\ stream'.holder = stream.holder /\ stream'.fence = stream.fence
<1>1. stream \in Stream
  BY DEF TypeOK
<1> QED BY <1>1 DEF SubmitTurn, Stream

\* Failing a turn: the columns with the version of the next queued frame.
LEMMA FailedDispatchColumns ==
    ASSUME TypeOK, NEW r \in Runs, FailDispatch(r)
    PROVE  /\ stream'.version \in Nat /\ stream'.version >= stream.version + 1
           /\ stream'.watermark = stream.watermark
           /\ stream.expected = r => /\ stream'.expected = NoRun /\ stream'.state = "stopped"
                                     /\ stream'.holder = NoWorker /\ stream'.fence = stream.fence + 1
           /\ stream.expected # r => /\ stream'.expected = stream.expected /\ stream'.state = stream.state
                                     /\ stream'.holder = stream.holder /\ stream'.fence = stream.fence
<1> DEFINE s == Failed(stream, r)
           n == QueuedFrame(dispatch')
<1>1. stream \in Stream /\ n \in Nat
  BY DEF TypeOK, QueuedFrame
<1>2. stream' = [s EXCEPT !.version = @ + n]
  BY DEF FailDispatch
<1>3. /\ s \in Stream
      /\ s.version = stream.version + 1
      /\ s.watermark = stream.watermark
      /\ stream.expected = r => /\ s.expected = NoRun /\ s.state = "stopped"
                                /\ s.holder = NoWorker /\ s.fence = stream.fence + 1
      /\ stream.expected # r => /\ s.expected = stream.expected /\ s.state = stream.state
                                /\ s.holder = stream.holder /\ s.fence = stream.fence
  BY <1>1, FailedColumns
<1> HIDE DEF s, n
<1>4. stream'.version = s.version + n /\ stream'.watermark = s.watermark /\ stream'.expected = s.expected
      /\ stream'.state = s.state /\ stream'.holder = s.holder /\ stream'.fence = s.fence
  BY <1>1, <1>2, <1>3, VersionColumns
<1>5. stream'.version \in Nat /\ stream'.version >= stream.version + 1
  BY <1>1, <1>3, <1>4 DEF Stream
<1> QED BY <1>3, <1>4, <1>5

\* The optimistic lock: the run columns never change under the same version.
LEMMA RunColumnsMove ==
    ASSUME TypeOK, [Next]_vars
    PROVE  /\ stream'.version >= stream.version
           /\ stream'.version = stream.version => RunColumnsKept
<1>0. stream \in Stream /\ stream.version \in Nat
  BY DEF TypeOK, Stream
<1>1. CASE Quiet
  BY <1>0, <1>1, QuietSteps DEF RunColumnsKept
<1>2. ASSUME NEW r \in Runs, SubmitTurn(r)
      PROVE  stream'.version >= stream.version /\ (stream'.version = stream.version => RunColumnsKept)
  BY <1>0, <1>2, SubmittedColumns DEF RunColumnsKept
<1>3. ASSUME NEW r \in Runs, ClaimDispatch(r)
      PROVE  stream'.version >= stream.version /\ (stream'.version = stream.version => RunColumnsKept)
  <2>1. stream' = Registered(stream, r)
    BY <1>3 DEF ClaimDispatch
  <2> QED BY <1>0, <2>1, RegisteredColumns DEF RunColumnsKept
<1>4. ASSUME NEW r \in Runs, FailDispatch(r)
      PROVE  stream'.version >= stream.version /\ (stream'.version = stream.version => RunColumnsKept)
  <2>1. stream'.version \in Nat /\ stream'.version >= stream.version + 1
    BY <1>4, FailedDispatchColumns
  <2> QED BY <1>0, <2>1
<1>5. ASSUME NEW r \in Runs, NEW kind \in {"start", "end", "trailer"}, AgentEmit(r, kind)
      PROVE  stream'.version >= stream.version /\ (stream'.version = stream.version => RunColumnsKept)
  BY <1>0, <1>5 DEF AgentEmit, dbVars, RunColumnsKept
<1>6. CASE DeleteConversation
  BY <1>0, <1>6, StoppedColumns DEF DeleteConversation, RunColumnsKept
<1>7. ASSUME NEW w \in Workers, Commit(w) \/ CommitUnknown(w)
      PROVE  stream'.version >= stream.version /\ (stream'.version = stream.version => RunColumnsKept)
  BY <1>0, <1>7, ProjectionColumns DEF Commit, CommitUnknown
<1> QED BY <1>1, <1>2, <1>3, <1>4, <1>5, <1>6, <1>7, StepKinds

\* The log only grows.
LEMMA LogGrows ==
    ASSUME TypeOK, [Next]_vars
    PROVE  Len(log') >= Len(log) /\ \A i \in DOMAIN log : i \in DOMAIN log' /\ log'[i] = log[i]
<1>0. log \in Seq(Event)
  BY DEF TypeOK
<1>1. CASE log' = log
  BY <1>0, <1>1
<1>2. ASSUME NEW e \in Event, log' = Append(log, e)
      PROVE  Len(log') >= Len(log) /\ \A i \in DOMAIN log : i \in DOMAIN log' /\ log'[i] = log[i]
  BY <1>0, <1>2
<1>3. ASSUME NEW r \in Runs, NEW kind \in {"start", "end", "trailer"}, AgentEmit(r, kind)
      PROVE  \E e \in Event : log' = Append(log, e)
  BY <1>3 DEF AgentEmit, Event
<1>4. ASSUME ~ \E r \in Runs, kind \in {"start", "end", "trailer"} : AgentEmit(r, kind)
      PROVE  log' = log
  BY <1>4, StepKinds, QuietSteps
     DEF SubmitTurn, ClaimDispatch, FailDispatch, DeleteConversation, Commit, CommitUnknown, WriteProjection
<1> QED BY <1>1, <1>2, <1>3, <1>4

\* A lease that was lost is never had again under the same fence, and the
\* watermark moves only under the lease of the worker that commits.
LEMMA LeaseMoves ==
    ASSUME TypeOK, [Next]_vars
    PROVE  /\ stream'.fence >= stream.fence
           /\ \A v \in Workers, f \in Nat :
                 f <= stream.fence /\ stream'.holder = v /\ stream'.fence = f
                 => stream.holder = v /\ stream.fence = f
           /\ stream'.watermark # stream.watermark =>
                 \E w \in Workers : stream.holder = w /\ WriteProjection(w) /\ (Commit(w) \/ CommitUnknown(w))
<1> USE ConstantsAssumption
<1> DEFINE Kept == stream'.holder = stream.holder /\ stream'.fence = stream.fence
           Dropped == stream'.holder = NoWorker /\ stream'.fence \in {stream.fence, stream.fence + 1}
           Taken == stream'.fence = stream.fence + 1
<1>0. stream \in Stream /\ stream.fence \in Nat
  BY DEF TypeOK, Stream
<1>1. ASSUME NEW w \in Workers, QuietOfWorker(w) PROVE Kept \/ Dropped \/ Taken
  <2>1. CASE Claim(w)
    BY <1>0, <2>1 DEF Claim, Stream
  <2>2. CASE Settle(w)
    BY <1>0, <2>2, SettledColumns DEF Settle
  <2>3. CASE LoseLease(w) \/ ReadPage(w) \/ ReadFails(w) \/ ReadRefused(w) \/ ReadStream(w)
             \/ VersionConflict(w) \/ LeaseConflict(w) \/ CommitFails(w)
    BY <2>3 DEF LoseLease, ReadPage, ReadFails, ReadRefused, ReadStream, VersionConflict, LeaseConflict,
                CommitFails, dbVars
  <2> QED BY <1>1, <2>1, <2>2, <2>3 DEF QuietOfWorker
<1>2. ASSUME LeaseExpires \/ FallsDue \/ UNCHANGED vars PROVE Kept
  BY <1>0, <1>2 DEF LeaseExpires, FallsDue, Stream, vars
<1>3. ASSUME NEW r \in Runs, SubmitTurn(r) \/ ClaimDispatch(r) \/ FailDispatch(r) PROVE Kept \/ Dropped \/ Taken
  <2>1. CASE SubmitTurn(r)
    BY <2>1, SubmittedColumns
  <2>2. CASE ClaimDispatch(r)
    BY <1>0, <2>2, RegisteredColumns DEF ClaimDispatch
  <2>3. CASE FailDispatch(r)
    BY <2>3, FailedDispatchColumns
  <2> QED BY <1>3, <2>1, <2>2, <2>3
<1>4. ASSUME DeleteConversation PROVE Dropped
  BY <1>0, <1>4, StoppedColumns DEF DeleteConversation
<1>5. ASSUME NEW r \in Runs, NEW kind \in {"start", "end", "trailer"}, AgentEmit(r, kind) PROVE Kept
  BY <1>5 DEF AgentEmit, dbVars
<1>6. ASSUME NEW w \in Workers, Commit(w) \/ CommitUnknown(w) PROVE Kept
  BY <1>6, ProjectionColumns DEF Commit, CommitUnknown
<1>7. Kept \/ Dropped \/ Taken
  <2>1. Quiet => Kept \/ Dropped \/ Taken
    BY <1>1, <1>2 DEF Quiet
  <2> QED BY <2>1, <1>3, <1>4, <1>5, <1>6, StepKinds
<1>8. stream'.watermark # stream.watermark =>
         \E w \in Workers : Commit(w) \/ CommitUnknown(w)
  <2>1. ASSUME NEW r \in Runs, ClaimDispatch(r) PROVE stream'.watermark = stream.watermark
    BY <1>0, <2>1, RegisteredColumns DEF ClaimDispatch
  <2>2. ASSUME DeleteConversation PROVE stream'.watermark = stream.watermark
    BY <1>0, <2>2, StoppedColumns DEF DeleteConversation
  <2>3. ASSUME NEW r \in Runs, NEW kind \in {"start", "end", "trailer"}, AgentEmit(r, kind)
        PROVE  stream'.watermark = stream.watermark
    BY <2>3 DEF AgentEmit, dbVars
  <2> QED BY <2>1, <2>2, <2>3, StepKinds, QuietSteps, SubmittedColumns, FailedDispatchColumns DEF RunColumnsKept
<1>9. \A w \in Workers : Commit(w) \/ CommitUnknown(w) => WriteProjection(w) /\ stream.holder = w
  BY DEF Commit, CommitUnknown, WriteProjection, LeaseMatches, Held
<1>10. stream'.fence >= stream.fence
  BY <1>0, <1>7
<1>11. ASSUME NEW v \in Workers, NEW f \in Nat, f <= stream.fence, stream'.holder = v, stream'.fence = f
       PROVE  stream.holder = v /\ stream.fence = f
  BY <1>0, <1>7, <1>11
<1> QED BY <1>8, <1>9, <1>10, <1>11

\* A step of worker v.
OwnStep(v) == QuietOfWorker(v) \/ Commit(v) \/ CommitUnknown(v)

\* A ticket only changes by a step of its worker.
LEMMA OwnSteps ==
    ASSUME TypeOK, [Next]_vars, NEW v \in Workers
    PROVE  worker'[v] = worker[v] \/ OwnStep(v)
<1>0. worker \in [Workers -> Ticket \cup {Idle}]
  BY DEF TypeOK
<1>1. ASSUME NEW w \in Workers, OwnStep(w) PROVE worker'[v] = worker[v] \/ OwnStep(v)
  <2>1. \E t : worker' = [worker EXCEPT ![w] = t]
    BY <1>1 DEF OwnStep, QuietOfWorker, Claim, LoseLease, ReadPage, ReadFails, ReadRefused, ReadStream,
                VersionConflict, LeaseConflict, CommitFails, Settle, Commit, CommitUnknown, With
  <2> QED BY <1>0, <1>1, <2>1
<1>2. ASSUME ~ \E w \in Workers : OwnStep(w) PROVE worker' = worker
  BY <1>2, StepKinds
     DEF OwnStep, Quiet, SubmitTurn, ClaimDispatch, FailDispatch, AgentEmit, DeleteConversation,
         LeaseExpires, FallsDue, vars
<1> QED BY <1>1, <1>2

\* What a worker's step makes of its ticket t.
Released(v)   == worker'[v].pc = "idle"
Leaves(v)     == /\ worker[v].pc # "idle"
                 /\ worker'[v].pc = "settle"
                 /\ worker'[v].fence = worker[v].fence
                 /\ worker'[v].outcome = "blocked" =>
                       \/ worker[v].fence \in refused'
                       \/ worker[v].pc = "page" /\ UNCHANGED stream /\ stream.watermark # worker[v].after
Pages(v)      == /\ worker'[v].pc = "paging"
                 /\ worker'[v].after = stream'.watermark
                 /\ worker'[v].fence <= stream'.fence
                 /\ worker'[v].after <= Len(log')
HasPage(v)    == /\ worker[v].pc \in {"paging", "page", "commit"}
                 /\ worker'[v].pc = "page"
                 /\ worker'[v].fence = worker[v].fence /\ worker'[v].after = worker[v].after
                 /\ worker'[v].after < worker'[v].to /\ worker'[v].to <= Len(log)
                 /\ UNCHANGED <<log, stream>>
HasCommand(v) == /\ worker[v].pc = "page"
                 /\ worker'[v].pc = "commit"
                 /\ worker'[v].fence = worker[v].fence /\ worker'[v].after = worker[v].after
                 /\ worker'[v].to = worker[v].to
                 /\ worker'[v].snap = [version |-> stream.version, watermark |-> stream.watermark,
                                       expected |-> stream.expected, terminal |-> stream.terminal]
                 /\ stream.watermark < worker[v].to
                 /\ UNCHANGED <<log, stream>>

Moves(v) == worker'[v] = worker[v] \/ Released(v) \/ Leaves(v) \/ Pages(v) \/ HasPage(v) \/ HasCommand(v)

\* The moves of a ticket before it has a command.
LEMMA MovesOfReading ==
    ASSUME TypeOK, LeaseInv, PageInv, LedgerIsPrefix, NEW v \in Workers,
           Claim(v) \/ LoseLease(v) \/ ReadPage(v) \/ ReadFails(v) \/ ReadRefused(v) \/ ReadStream(v)
    PROVE  Moves(v)
<1> USE ConstantsAssumption
<1>0. /\ worker \in [Workers -> Ticket \cup {Idle}] /\ stream \in Stream /\ log \in Seq(Event)
      /\ Idle.pc = "idle"
  BY DEF TypeOK, Idle
<1>a. worker[v].pc # "idle" => worker[v] \in Ticket
  BY <1>0
<1>b. \A t : With(v, t) => worker'[v] = t
  BY <1>0 DEF With
<1>1. CASE Claim(v)
  <2>1. worker'[v] = [Idle EXCEPT !.pc = "paging", !.fence = stream.fence + 1, !.after = stream.watermark]
    BY <1>0, <1>1 DEF Claim
  <2>2. stream'.watermark = stream.watermark /\ stream'.fence = stream.fence + 1 /\ stream'.fence \in Nat
    BY <1>0, <1>1 DEF Claim, Stream
  <2>3. log' = log /\ stream.watermark <= Len(log)
    BY <1>1 DEF Claim, LedgerIsPrefix
  <2>4. worker'[v].pc = "paging" /\ worker'[v].fence = stream.fence + 1 /\ worker'[v].after = stream.watermark
    BY <2>1 DEF Idle
  <2> QED BY <2>2, <2>3, <2>4 DEF Moves, Pages
<1>2. CASE LoseLease(v)
  BY <1>0, <1>b, <1>2 DEF LoseLease, Moves, Released
<1>3. CASE ReadPage(v)
  <2> DEFINE t == worker[v]
             left == Len(log) - t.after
             to == t.after + (IF left < PageSize THEN left ELSE PageSize)
             u == [t EXCEPT !.pc = "page", !.to = to, !.exhausted = (to = Len(log))]
  <2>1. t \in Ticket /\ t.pc = "paging"
    BY <1>3, <1>a DEF ReadPage
  <2>2. t.after \in Nat /\ Len(log) \in Nat /\ t.after <= Len(log)
    BY <1>0, <2>1 DEF Ticket, PageInv
  <2>3. t.after <= to /\ to <= Len(log) /\ to \in Nat
    BY <2>2
  <2>4. UNCHANGED <<log, stream>>
    BY <1>3 DEF ReadPage, dbVars
  <2>5. worker'[v] = IF to = t.after THEN Outcome(t, "caught_up") ELSE u
    BY <1>3, <1>b DEF ReadPage
  <2>6. CASE to = t.after
    <3>1. worker'[v] = Outcome(t, "caught_up")
      BY <2>5, <2>6
    <3> QED BY <2>1, <3>1, OutcomeColumns DEF Outcomes, Moves, Leaves
  <2>7. CASE to # t.after
    <3> HIDE DEF to
    <3>1. worker'[v].pc = "page" /\ worker'[v].fence = t.fence /\ worker'[v].after = t.after /\ worker'[v].to = to
      BY <2>1, <2>5, <2>7 DEF Ticket
    <3>2. t.after < to
      BY <2>2, <2>3, <2>7
    <3> QED BY <2>1, <2>3, <2>4, <3>1, <3>2 DEF Moves, HasPage
  <2> QED BY <2>6, <2>7
<1>4. CASE ReadFails(v)
  <2>1. worker'[v] = Outcome(worker[v], "retryable") /\ worker[v] \in Ticket /\ worker[v].pc = "paging"
    BY <1>4, <1>a, <1>b DEF ReadFails
  <2> QED BY <2>1, OutcomeColumns DEF Outcomes, Moves, Leaves
<1>5. CASE ReadRefused(v)
  <2>1. worker'[v] = Outcome(worker[v], "blocked") /\ worker[v] \in Ticket /\ worker[v].pc = "paging"
    BY <1>5, <1>a, <1>b DEF ReadRefused
  <2>2. worker[v].fence \in refused'
    BY <1>5 DEF ReadRefused
  <2> QED BY <2>1, <2>2, OutcomeColumns DEF Outcomes, Moves, Leaves
<1>6. CASE ReadStream(v)
  <2> DEFINE t == worker[v]
             snapshot == [version |-> stream.version, watermark |-> stream.watermark,
                          expected |-> stream.expected, terminal |-> stream.terminal]
  <2>1. t \in Ticket /\ t.pc = "page"
    BY <1>6, <1>a DEF ReadStream
  <2>2. /\ t.after \in Nat /\ t.to \in Nat /\ t.after < t.to /\ t.to <= Len(log) /\ Len(log) \in Nat
        /\ stream.watermark \in Nat /\ t.fence <= stream.fence
    BY <1>0, <2>1 DEF Ticket, PageInv, LeaseInv, Stream
  <2>3. UNCHANGED <<log, stream>>
    BY <1>6 DEF ReadStream, dbVars
  <2>4. worker'[v] = IF t.attempts = MaxCommitAttempts THEN Outcome(t, "retryable")
                     ELSE IF stream.watermark = t.to THEN Ingested(t)
                     ELSE IF stream.watermark > t.to \/ stream.watermark < t.after THEN Outcome(t, "blocked")
                     ELSE [t EXCEPT !.pc = "commit", !.snap = snapshot]
    BY <1>6, <1>b DEF ReadStream
  <2>5. CASE worker'[v] = Outcome(t, "retryable")
    BY <2>1, <2>5, OutcomeColumns DEF Outcomes, Moves, Leaves
  <2>6. CASE worker'[v] = Ingested(t) /\ stream.watermark = t.to
    <3>1. \/ worker'[v].pc = "settle" /\ worker'[v].outcome \in {"caught_up", "spent"} /\ worker'[v].fence = t.fence
          \/ worker'[v].pc = "paging" /\ worker'[v].after = t.to /\ worker'[v].fence = t.fence
      BY <2>1, <2>6, IngestedColumns
    <3> QED BY <2>1, <2>2, <2>3, <2>6, <3>1 DEF Moves, Leaves, Pages
  <2>7. CASE worker'[v] = Outcome(t, "blocked") /\ (stream.watermark > t.to \/ stream.watermark < t.after)
    <3>1. stream.watermark # t.after
      BY <2>2, <2>7
    <3> QED BY <2>1, <2>3, <2>7, <3>1, OutcomeColumns DEF Outcomes, Moves, Leaves
  <2>8. CASE worker'[v] = [t EXCEPT !.pc = "commit", !.snap = snapshot] /\ stream.watermark < t.to
    <3> HIDE DEF snapshot
    <3>1. worker'[v].pc = "commit" /\ worker'[v].fence = t.fence /\ worker'[v].after = t.after
          /\ worker'[v].to = t.to /\ worker'[v].snap = snapshot
      BY <2>1, <2>8 DEF Ticket
    <3> QED BY <2>1, <2>3, <2>8, <3>1 DEF Moves, HasCommand, snapshot
  <2>9. stream.watermark = t.to \/ stream.watermark > t.to \/ stream.watermark < t.to
    BY <2>2
  <2> QED BY <2>4, <2>5, <2>6, <2>7, <2>8, <2>9
<1> QED BY <1>1, <1>2, <1>3, <1>4, <1>5, <1>6

\* The moves of a ticket from its command on.
LEMMA MovesOfCommitting ==
    ASSUME TypeOK, LeaseInv, PageInv, NEW v \in Workers,
           Commit(v) \/ CommitUnknown(v) \/ VersionConflict(v) \/ LeaseConflict(v) \/ CommitFails(v) \/ Settle(v)
    PROVE  Moves(v)
<1>0. /\ worker \in [Workers -> Ticket \cup {Idle}] /\ stream \in Stream /\ log \in Seq(Event)
      /\ Idle.pc = "idle"
  BY DEF TypeOK, Idle
<1>a. worker[v].pc # "idle" => worker[v] \in Ticket
  BY <1>0
<1>b. \A t : With(v, t) => worker'[v] = t
  BY <1>0 DEF With
<1>1. CASE Commit(v)
  <2> DEFINE t == worker[v]
  <2>1. /\ t \in Ticket /\ t.pc = "commit" /\ stream'.watermark = t.to /\ stream'.fence = stream.fence
    BY <1>1, ProjectionColumns DEF Commit
  <2>2. t.fence <= stream.fence /\ t.to <= Len(log)
    BY <2>1 DEF LeaseInv, PageInv
  <2>3. worker'[v] = Ingested(t) /\ log' = log
    BY <1>1, <1>b DEF Commit, WriteProjection
  <2>4. \/ worker'[v].pc = "settle" /\ worker'[v].outcome \in {"caught_up", "spent"} /\ worker'[v].fence = t.fence
        \/ worker'[v].pc = "paging" /\ worker'[v].after = t.to /\ worker'[v].fence = t.fence
    BY <2>1, <2>3, IngestedColumns
  <2> QED BY <2>1, <2>2, <2>3, <2>4 DEF Moves, Leaves, Pages
<1>2. CASE CommitUnknown(v)
  <2>1. worker'[v] = Outcome(worker[v], "retryable") /\ worker[v] \in Ticket /\ worker[v].pc = "commit"
    BY <1>2, <1>a, <1>b DEF CommitUnknown, WriteProjection
  <2> QED BY <2>1, OutcomeColumns DEF Outcomes, Moves, Leaves
<1>3. CASE VersionConflict(v)
  <2> DEFINE t == worker[v]
  <2>1. t \in Ticket /\ t.pc = "commit" /\ t.after < t.to /\ t.to <= Len(log) /\ UNCHANGED <<log, stream>>
    BY <1>3, <1>a DEF VersionConflict, PageInv, dbVars
  <2>2. worker'[v] = [t EXCEPT !.pc = "page", !.snap = NoSnapshot, !.attempts = @ + 1]
    BY <1>3, <1>b DEF VersionConflict
  <2>3. worker'[v].pc = "page" /\ worker'[v].fence = t.fence /\ worker'[v].after = t.after /\ worker'[v].to = t.to
    BY <2>1, <2>2 DEF Ticket
  <2> QED BY <2>1, <2>3 DEF Moves, HasPage
<1>4. CASE LeaseConflict(v)
  BY <1>0, <1>b, <1>4 DEF LeaseConflict, Moves, Released
<1>5. CASE CommitFails(v)
  <2>1. worker'[v] = Outcome(worker[v], "retryable") /\ worker[v] \in Ticket /\ worker[v].pc # "idle"
    BY <1>5, <1>a, <1>b DEF CommitFails
  <2> QED BY <2>1, OutcomeColumns DEF Outcomes, Moves, Leaves
<1>6. CASE Settle(v)
  BY <1>0, <1>b, <1>6 DEF Settle, Moves, Released
<1> QED BY <1>1, <1>2, <1>3, <1>4, <1>5, <1>6

\* Every step moves every ticket in one of these ways.
LEMMA TicketMoves ==
    ASSUME TypeOK, LeaseInv, PageInv, LedgerIsPrefix, [Next]_vars, NEW v \in Workers
    PROVE  Moves(v)
BY OwnSteps, MovesOfReading, MovesOfCommitting DEF OwnStep, QuietOfWorker, Moves

-----------------------------------------------------------------------------
(* The parts of the invariant about leases and versions *)

\* A commit is over for the ticket that made it.
LEMMA CommitMovesOn ==
    ASSUME TypeOK, NEW v \in Workers, Commit(v) \/ CommitUnknown(v)
    PROVE  worker[v].pc = "commit" /\ worker'[v].pc # "commit"
<1>1. worker[v].pc = "commit" /\ worker[v] \in Ticket
  BY DEF Commit, CommitUnknown, WriteProjection, TypeOK, Idle
<1>2. worker'[v] = Ingested(worker[v]) \/ worker'[v] = Outcome(worker[v], "retryable")
  BY DEF Commit, CommitUnknown, With, TypeOK
<1> QED BY <1>1, <1>2, IngestedColumns, OutcomeColumns DEF Outcomes

\* The history of refusals only grows.
LEMMA RefusedGrows ==
    ASSUME [Next]_vars
    PROVE  refused \subseteq refused'
BY StepKinds
   DEF Quiet, QuietOfWorker, SubmitTurn, ClaimDispatch, FailDispatch, AgentEmit, DeleteConversation,
       LeaseExpires, FallsDue, vars, Claim, LoseLease, ReadPage, ReadFails, ReadRefused, ReadStream,
       VersionConflict, LeaseConflict, CommitFails, Settle, Commit, CommitUnknown, WriteProjection

\* Only a settlement under the lease blocks the stream.
LEMMA StateMoves ==
    ASSUME TypeOK, [Next]_vars, stream'.state = "blocked"
    PROVE  \/ stream.state = "blocked" /\ stream'.fence = stream.fence
           \/ \E w \in Workers : /\ Held(w) /\ worker[w].pc = "settle" /\ worker[w].outcome = "blocked"
                                 /\ stream'.fence = worker[w].fence
<1> DEFINE Kept == stream.state = "blocked" /\ stream'.fence = stream.fence
           Settled == \E w \in Workers : /\ Held(w) /\ worker[w].pc = "settle" /\ worker[w].outcome = "blocked"
                                         /\ stream'.fence = worker[w].fence
<1>0. stream \in Stream
  BY DEF TypeOK
<1>1. ASSUME NEW w \in Workers, QuietOfWorker(w) PROVE Kept \/ Settled
  <2>1. CASE Claim(w)
    BY <1>0, <2>1 DEF Claim, Claimable, Stream
  <2>2. CASE Settle(w)
    <3>1. CASE Settles(w)
      <4>1. stream' = SettledStream(worker[w].outcome) /\ Held(w) /\ worker[w].pc = "settle"
        BY <2>2, <3>1 DEF Settle, Settles
      <4>2. worker[w].outcome = "blocked" /\ stream'.fence = stream.fence
        BY <1>0, <4>1, SettledColumns
      <4> QED BY <4>1, <4>2 DEF Held
    <3>2. CASE ~Settles(w)
      BY <2>2, <3>2 DEF Settle
    <3> QED BY <3>1, <3>2
  <2>3. CASE LoseLease(w) \/ ReadPage(w) \/ ReadFails(w) \/ ReadRefused(w) \/ ReadStream(w)
             \/ VersionConflict(w) \/ LeaseConflict(w) \/ CommitFails(w)
    BY <2>3 DEF LoseLease, ReadPage, ReadFails, ReadRefused, ReadStream, VersionConflict, LeaseConflict,
                CommitFails, dbVars
  <2> QED BY <1>1, <2>1, <2>2, <2>3 DEF QuietOfWorker
<1>2. ASSUME LeaseExpires \/ FallsDue \/ UNCHANGED vars PROVE Kept
  BY <1>0, <1>2 DEF LeaseExpires, FallsDue, Stream, vars
<1>3. ASSUME NEW r \in Runs, SubmitTurn(r) \/ ClaimDispatch(r) \/ FailDispatch(r) PROVE Kept
  <2>1. CASE SubmitTurn(r)
    BY <2>1, SubmittedColumns
  <2>2. CASE ClaimDispatch(r)
    BY <1>0, <2>2, RegisteredColumns DEF ClaimDispatch
  <2>3. CASE FailDispatch(r)
    BY <2>3, FailedDispatchColumns
  <2> QED BY <1>3, <2>1, <2>2, <2>3
<1>4. ASSUME DeleteConversation PROVE FALSE
  BY <1>0, <1>4, StoppedColumns DEF DeleteConversation
<1>5. ASSUME NEW r \in Runs, NEW kind \in {"start", "end", "trailer"}, AgentEmit(r, kind) PROVE Kept
  BY <1>5 DEF AgentEmit, dbVars
<1>6. ASSUME NEW w \in Workers, Commit(w) \/ CommitUnknown(w) PROVE FALSE
  BY <1>6, ProjectionColumns DEF Commit, CommitUnknown
<1>7. Quiet => Kept \/ Settled
  BY <1>1, <1>2 DEF Quiet
<1> QED BY <1>3, <1>4, <1>5, <1>6, <1>7, StepKinds

\* A deleted conversation's stream stays stopped and without a holder.
LEMMA DeletionKept ==
    ASSUME TypeOK, LeaseInv, [Next]_vars
    PROVE  deleted' => stream'.state = "stopped" /\ stream'.holder = NoWorker
<1> USE ConstantsAssumption
<1> DEFINE Gone(s) == s.state = "stopped" /\ s.holder = NoWorker
<1>0. stream \in Stream /\ (deleted => Gone(stream))
  BY DEF TypeOK, LeaseInv
<1>1. ASSUME NEW w \in Workers, QuietOfWorker(w) PROVE deleted' => Gone(stream')
  <2>1. deleted' = deleted
    BY <1>1, QuietSteps DEF Quiet
  <2>2. CASE Claim(w)
    BY <2>1, <2>2 DEF Claim, Claimable
  <2>3. CASE Settle(w)
    BY <1>0, <2>1, <2>3 DEF Settle, Settles, Held
  <2>4. CASE LoseLease(w) \/ ReadPage(w) \/ ReadFails(w) \/ ReadRefused(w) \/ ReadStream(w)
             \/ VersionConflict(w) \/ LeaseConflict(w) \/ CommitFails(w)
    BY <1>0, <2>4 DEF LoseLease, ReadPage, ReadFails, ReadRefused, ReadStream, VersionConflict, LeaseConflict,
                CommitFails, dbVars
  <2> QED BY <1>1, <2>2, <2>3, <2>4 DEF QuietOfWorker
<1>2. ASSUME LeaseExpires \/ FallsDue \/ UNCHANGED vars PROVE deleted' => Gone(stream')
  BY <1>0, <1>2 DEF LeaseExpires, FallsDue, Stream, vars
<1>3. ASSUME NEW r \in Runs, SubmitTurn(r) \/ ClaimDispatch(r) \/ FailDispatch(r) PROVE deleted' => Gone(stream')
  BY <1>3 DEF SubmitTurn, ClaimDispatch, FailDispatch
<1>4. ASSUME DeleteConversation PROVE Gone(stream')
  BY <1>0, <1>4, StoppedColumns DEF DeleteConversation
<1>5. ASSUME NEW r \in Runs, NEW kind \in {"start", "end", "trailer"}, AgentEmit(r, kind) PROVE deleted' => Gone(stream')
  BY <1>0, <1>5 DEF AgentEmit, dbVars
<1>6. ASSUME NEW w \in Workers, Commit(w) \/ CommitUnknown(w) PROVE deleted' => Gone(stream')
  <2>1. stream.state = "active"
    BY <1>6, ProjectionColumns DEF Commit, CommitUnknown
  <2>2. deleted' = deleted
    BY <1>6 DEF Commit, CommitUnknown, WriteProjection
  <2> QED BY <1>0, <2>1, <2>2
<1>7. Quiet => (deleted' => Gone(stream'))
  BY <1>1, <1>2 DEF Quiet
<1> QED BY <1>3, <1>4, <1>5, <1>6, <1>7, StepKinds

\* Fences, cursors and causes.
LEMMA LeaseInvKept ==
    ASSUME TypeOK, TypeOK', LeaseInv, PageInv, LedgerIsPrefix, [Next]_vars
    PROVE  LeaseInv'
<1> DEFINE t(v) == worker[v]
           u(v) == worker'[v]
<1>0. /\ stream.fence \in Nat /\ stream'.fence \in Nat /\ stream'.fence >= stream.fence
      /\ \A v \in Workers : worker[v].fence \in Nat
  <2>1. stream \in Stream /\ stream' \in Stream
    BY DEF TypeOK
  <2>2. \A v \in Workers : worker[v] \in Ticket \cup {Idle}
    BY DEF TypeOK
  <2>3. \A v \in Workers : worker[v].fence \in Nat
    BY <2>2 DEF Ticket, Idle
  <2> QED BY <2>1, <2>3, LeaseMoves DEF Stream
<1>1. ASSUME NEW v \in Workers PROVE u(v).pc # "idle" => u(v).fence <= stream'.fence
  <2>1. Moves(v)
    BY TicketMoves
  <2>2. t(v).pc # "idle" => t(v).fence <= stream'.fence
    BY <1>0 DEF LeaseInv
  <2> QED BY <2>1, <2>2 DEF Moves, Released, Leaves, Pages, HasPage, HasCommand
<1>2. ASSUME NEW v \in Workers, t(v).pc # "idle", u(v).fence = t(v).fence, Held(v)' PROVE Held(v)
  <2>1. t(v).fence <= stream.fence
    BY <1>2 DEF LeaseInv
  <2>2. stream'.holder = v /\ stream'.fence = t(v).fence
    BY <1>2 DEF Held
  <2> QED BY <1>0, <2>1, <2>2, LeaseMoves DEF Held
<1>3. ASSUME NEW v \in Workers, u(v).pc \in {"paging", "page", "commit"}, Held(v)'
      PROVE  u(v).after = stream'.watermark
  <2>1. Moves(v)
    BY TicketMoves
  <2>2. CASE u(v) = t(v)
    <3>1. Held(v)
      BY <1>2, <1>3, <2>2
    <3>2. t(v).after = stream.watermark
      BY <1>3, <2>2, <3>1 DEF LeaseInv
    <3>3. stream'.watermark = stream.watermark
      <4> SUFFICES ASSUME stream'.watermark # stream.watermark PROVE FALSE
        OBVIOUS
      <4>1. PICK w \in Workers : stream.holder = w /\ (Commit(w) \/ CommitUnknown(w))
        BY LeaseMoves
      <4>2. w = v
        BY <3>1, <4>1 DEF Held
      <4> QED BY <2>2, <4>1, <4>2, CommitMovesOn
    <3> QED BY <2>2, <3>2, <3>3
  <2>3. CASE Pages(v)
    BY <2>3 DEF Pages
  <2>4. CASE HasPage(v) \/ HasCommand(v)
    <3>1. t(v).pc \in {"paging", "page", "commit"} /\ u(v).fence = t(v).fence /\ u(v).after = t(v).after /\ stream' = stream
      BY <2>4 DEF HasPage, HasCommand
    <3>2. Held(v)
      BY <1>2, <1>3, <3>1
    <3> QED BY <3>1, <3>2 DEF LeaseInv
  <2> QED BY <1>3, <2>1, <2>2, <2>3, <2>4 DEF Moves, Released, Leaves
<1>4. ASSUME NEW v \in Workers, u(v).pc = "settle", u(v).outcome = "blocked", Held(v)'
      PROVE  u(v).fence \in refused'
  <2>1. Moves(v)
    BY TicketMoves
  <2>2. CASE u(v) = t(v)
    <3>1. Held(v)
      BY <1>2, <1>4, <2>2
    <3>2. t(v).fence \in refused
      BY <1>4, <2>2, <3>1 DEF LeaseInv
    <3> QED BY <2>2, <3>2, RefusedGrows
  <2>3. CASE Leaves(v)
    <3>1. Held(v)
      BY <1>2, <1>4, <2>3 DEF Leaves
    <3> QED BY <1>4, <2>3, <3>1 DEF Leaves, LeaseInv
  <2> QED BY <1>4, <2>1, <2>2, <2>3 DEF Moves, Released, Pages, HasPage, HasCommand
<1>5. BlockedByRefusal'
  <2> SUFFICES ASSUME stream'.state = "blocked" PROVE stream'.fence \in refused'
    BY DEF BlockedByRefusal
  <2>1. CASE stream.state = "blocked" /\ stream'.fence = stream.fence
    BY <2>1, RefusedGrows DEF LeaseInv, BlockedByRefusal
  <2>2. ASSUME NEW w \in Workers, Held(w), worker[w].pc = "settle", worker[w].outcome = "blocked",
               stream'.fence = worker[w].fence
        PROVE  stream'.fence \in refused'
    BY <2>2, RefusedGrows DEF LeaseInv
  <2> QED BY <2>1, <2>2, StateMoves
<1> QED BY <1>1, <1>3, <1>4, <1>5, DeletionKept DEF LeaseInv

\* Cursors, pages and snapshots, and the soundness of the optimistic lock.
LEMMA PageInvKept ==
    ASSUME TypeOK, TypeOK', LeaseInv, PageInv, VersionPinsStream, LedgerIsPrefix, [Next]_vars
    PROVE  PageInv' /\ VersionPinsStream'
<1>0. /\ Len(log) \in Nat /\ Len(log') \in Nat /\ Len(log') >= Len(log)
      /\ stream.version \in Nat /\ stream'.version \in Nat /\ stream'.version >= stream.version
      /\ stream'.version = stream.version => RunColumnsKept
  <2>1. stream \in Stream /\ stream' \in Stream /\ log \in Seq(Event) /\ log' \in Seq(Event)
    BY DEF TypeOK
  <2> QED BY <2>1, LogGrows, RunColumnsMove DEF Stream
<1>1. ASSUME NEW v \in Workers
      PROVE  /\ worker'[v].pc = "paging" => worker'[v].after <= Len(log')
             /\ worker'[v].pc \in {"page", "commit"} => worker'[v].after < worker'[v].to /\ worker'[v].to <= Len(log')
             /\ worker'[v].pc = "commit" => /\ worker'[v].snap.watermark < worker'[v].to
                                            /\ worker'[v].snap.version <= stream'.version
             /\ worker'[v].pc = "commit" /\ worker'[v].snap.version = stream'.version =>
                   /\ worker'[v].snap.watermark = stream'.watermark
                   /\ worker'[v].snap.expected = stream'.expected
                   /\ worker'[v].snap.terminal = stream'.terminal
  <2>1. Moves(v)
    BY TicketMoves
  <2>2. CASE worker'[v] = worker[v]
    <3>1. worker[v].pc # "idle" => worker[v] \in Ticket
      BY DEF TypeOK, Idle
    <3>2. worker[v].pc # "idle" => worker[v].after \in Nat /\ worker[v].to \in Nat /\ worker[v].snap.version \in Nat
      BY <3>1 DEF Ticket, Snapshot
    <3>3. /\ worker[v].pc = "paging" => worker[v].after <= Len(log)
          /\ worker[v].pc \in {"page", "commit"} => worker[v].after < worker[v].to /\ worker[v].to <= Len(log)
          /\ worker[v].pc = "commit" => /\ worker[v].snap.watermark < worker[v].to
                                        /\ worker[v].snap.version <= stream.version
      BY DEF PageInv
    <3>4. worker[v].pc = "commit" /\ worker[v].snap.version = stream.version =>
                   /\ worker[v].snap.watermark = stream.watermark
                   /\ worker[v].snap.expected = stream.expected
                   /\ worker[v].snap.terminal = stream.terminal
      BY DEF VersionPinsStream
    <3>5. worker[v].pc = "commit" /\ worker[v].snap.version = stream'.version => stream'.version = stream.version
      BY <1>0, <3>2, <3>3
    <3>6. /\ worker[v].pc = "paging" => worker[v].after <= Len(log')
          /\ worker[v].pc \in {"page", "commit"} => worker[v].to <= Len(log')
          /\ worker[v].pc = "commit" => worker[v].snap.version <= stream'.version
      BY <1>0, <3>2, <3>3
    <3> QED BY <1>0, <2>2, <3>3, <3>4, <3>5, <3>6 DEF RunColumnsKept
  <2>3. CASE HasPage(v)
    BY <2>3 DEF HasPage
  <2>4. CASE HasCommand(v)
    <3>1. worker[v].after < worker[v].to /\ worker[v].to <= Len(log)
      BY <2>4 DEF HasCommand, PageInv
    <3>2. /\ worker'[v].snap.version = stream.version /\ worker'[v].snap.watermark = stream.watermark
          /\ worker'[v].snap.expected = stream.expected /\ worker'[v].snap.terminal = stream.terminal
      BY <2>4 DEF HasCommand
    <3> QED BY <1>0, <2>4, <3>1, <3>2 DEF HasCommand
  <2> QED BY <2>1, <2>2, <2>3, <2>4 DEF Moves, Released, Leaves, Pages
<1> QED BY <1>1 DEF PageInv, VersionPinsStream

-----------------------------------------------------------------------------
(* What a command in hand says of the log *)

Ends(t) == EndsRun(t, stream.expected)

\* Under its version a command was computed from the columns of the stream.
LEMMA CommandColumns ==
    ASSUME TypeOK, PageInv, VersionPinsStream, LedgerIsPrefix,
           NEW w \in Workers, worker[w].pc = "commit", Matches(w), NEW t, t = worker[w]
    PROVE  /\ t \in Ticket /\ t.to \in Nat /\ stream.watermark \in Nat /\ log \in Seq(Event)
           /\ t.snap.watermark = stream.watermark
           /\ t.snap.expected = stream.expected
           /\ t.snap.terminal = stream.terminal
           /\ stream.watermark < t.to
           /\ DOMAIN log = 1..Len(log) /\ t.to <= Len(log) /\ Len(log) \in Nat
           /\ Pending(t) = (stream.watermark + 1)..t.to
           /\ Pending(t) \subseteq DOMAIN log
<1>1. t \in Ticket /\ stream \in Stream /\ log \in Seq(Event)
  BY DEF TypeOK, Idle
<1>2. t.to \in Nat /\ stream.watermark \in Nat /\ Len(log) \in Nat /\ DOMAIN log = 1..Len(log)
  BY <1>1 DEF Ticket, Stream
<1>3. /\ t.snap.watermark = stream.watermark
      /\ t.snap.expected = stream.expected
      /\ t.snap.terminal = stream.terminal
  BY DEF VersionPinsStream, Matches
<1>4. t.snap.watermark < t.to /\ t.to <= Len(log)
  BY DEF PageInv
<1>5. Pending(t) = (stream.watermark + 1)..t.to
  BY <1>3 DEF Pending
<1>6. Pending(t) \subseteq DOMAIN log
  BY <1>2, <1>4, <1>5
<1> QED BY <1>1, <1>2, <1>3, <1>4, <1>5, <1>6

\* Every event of a page but the trailers is of the expected, claimed turn.
LEMMA PendingEvents ==
    ASSUME TypeOK, PageInv, VersionPinsStream, LedgerIsPrefix, TurnInv,
           NEW w \in Workers, worker[w].pc = "commit", Matches(w),
           NEW i \in Pending(worker[w]), log[i].kind # "trailer"
    PROVE  log[i] \in Event /\ dispatch[log[i].run] = "claimed" /\ stream.expected = log[i].run
<1>1. i \in DOMAIN log /\ i > stream.watermark /\ log \in Seq(Event)
  BY CommandColumns
<1>2. log[i] \in Event
  BY <1>1
<1>3. dispatch[log[i].run] = "claimed"
  BY <1>1 DEF TurnInv
<1> QED BY <1>2, <1>3 DEF TurnInv, Event

\* A command that brings the end of the expected turn closes it; any other
\* closes none.
LEMMA CommandTerminal ==
    ASSUME TypeOK, PageInv, VersionPinsStream, LedgerIsPrefix, TurnInv, ClosedByItsEnd,
           NEW w \in Workers, worker[w].pc = "commit", Matches(w), NEW t, t = worker[w]
    PROVE  /\ Ends(t) => /\ Terminal(t) = stream.expected /\ stream.expected \in Runs
                         /\ SettlesHead(t) /\ dispatch[stream.expected] = "claimed"
           /\ ~Ends(t) => Terminal(t) \in {NoRun, stream.terminal} /\ ~SettlesHead(t)
<1> USE ConstantsAssumption
<1>1. /\ t.snap.expected = stream.expected /\ t.snap.terminal = stream.terminal
      /\ Pending(t) \subseteq DOMAIN log /\ log \in Seq(Event)
  BY CommandColumns
<1>2. CASE Ends(t)
  <2>1. PICK i \in Pending(t) : log[i] = [run |-> stream.expected, kind |-> "end"]
    BY <1>2 DEF Ends, EndsRun
  <2>2. log[i].kind # "trailer" /\ log[i].run = stream.expected /\ log[i] \in Event
    BY <1>1, <2>1
  <2>3. stream.expected \in Runs
    BY <2>2 DEF Event
  <2>4. Terminal(t) = stream.expected
    BY <1>1, <1>2 DEF Terminal, Ends
  <2>5. dispatch[stream.expected] = "claimed" /\ stream.terminal # stream.expected
    BY <2>3 DEF ClosedByItsEnd
  <2>6. SettlesHead(t)
    BY <2>3, <2>4, <2>5 DEF SettlesHead
  <2> QED BY <1>2, <2>3, <2>4, <2>5, <2>6
<1>3. CASE ~Ends(t)
  <2>1. Terminal(t) \in {NoRun, stream.terminal}
    BY <1>1, <1>3 DEF Terminal, Ends
  <2> HIDE DEF Terminal
  <2>2. ~SettlesHead(t)
    BY <2>1 DEF SettlesHead
  <2> QED BY <1>3, <2>1, <2>2
<1> QED BY <1>2, <1>3

\* A command that passes the version meets none of the exceptions.
LEMMA NeverThrows ==
    ASSUME TypeOK, PageInv, VersionPinsStream, LedgerIsPrefix, TurnInv, ClosedByItsEnd,
           NEW w \in Workers, worker[w].pc = "commit", Matches(w)
    PROVE  ~Throws(worker[w])
<1> DEFINE t == worker[w]
<1>1. ASSUME NEW i \in Pending(t), NEW k \in DOMAIN ledger PROVE ledger[k] # i
  <2>1. stream.watermark \in Nat /\ i > stream.watermark
    BY CommandColumns
  <2>2. ledger = [j \in 1..stream.watermark |-> j]
    BY DEF LedgerIsPrefix
  <2> QED BY <2>1, <2>2
<1>2. ASSUME NEW i \in Pending(t), log[i].kind # "trailer"
      PROVE  dispatch[log[i].run] # "closed" /\ log[i].run = stream.expected
  BY <1>2, PendingEvents
<1>3. SettlesHead(t) => dispatch[Terminal(t)] = "claimed"
  <2> HIDE DEF t
  <2> QED BY CommandTerminal DEF t
<1> QED BY <1>1, <1>2, <1>3 DEF Throws

-----------------------------------------------------------------------------
(* The parts of the invariant about the ledger and the turns *)

\* The ledger stays a prefix of the log.
LEMMA LedgerKept ==
    ASSUME TypeOK, PageInv, VersionPinsStream, LedgerIsPrefix, [Next]_vars
    PROVE  LedgerIsPrefix'
<1>0. /\ stream.watermark \in Nat /\ log \in Seq(Event)
      /\ Len(log) \in Nat /\ Len(log') >= Len(log)
  BY LogGrows DEF TypeOK, Stream
<1>1. ASSUME NEW w \in Workers, Commit(w) \/ CommitUnknown(w) PROVE LedgerIsPrefix'
  <2> DEFINE t == worker[w]
             new == [i \in 1..(t.to - stream.watermark) |-> stream.watermark + i]
             all == [i \in 1..t.to |-> i]
  <2>1. WriteProjection(w)
    BY <1>1 DEF Commit, CommitUnknown
  <2>2. /\ t.pc = "commit" /\ Matches(w) /\ stream'.watermark = t.to /\ log' = log
    BY <2>1, ProjectionColumns DEF WriteProjection
  <2>3. /\ t.to \in Nat /\ t.to <= Len(log) /\ stream.watermark < t.to
        /\ t.snap.watermark = stream.watermark
    BY <2>2, CommandColumns
  <2>4. ledger' = ledger \o new /\ ledger = [i \in 1..stream.watermark |-> i]
    BY <2>1, <2>3 DEF WriteProjection, LedgerIsPrefix
  <2>5. ledger \in Seq(Nat) /\ Len(ledger) = stream.watermark
    BY <1>0, <2>4 DEF TypeOK
  <2>6. t.to - stream.watermark \in Nat
    BY <1>0, <2>3
  <2>7. new \in Seq(Nat) /\ Len(new) = t.to - stream.watermark
    BY <1>0, <2>6
  <2>8. all \in Seq(Nat) /\ Len(all) = t.to
    BY <2>3
  <2>9. ledger \o new = all
    <3> DEFINE both == ledger \o new
    <3>1. both \in Seq(Nat) /\ Len(both) = t.to
      BY <1>0, <2>3, <2>5, <2>7
    <3>2. ASSUME NEW i \in 1..t.to PROVE both[i] = all[i]
      <4>1. CASE i <= stream.watermark
        <5>1. both[i] = ledger[i] /\ ledger[i] = i
          BY <1>0, <2>3, <2>4, <2>5, <2>7, <4>1
        <5> QED BY <5>1
      <4>2. CASE ~(i <= stream.watermark)
        <5>1. i - stream.watermark \in 1..(t.to - stream.watermark)
          BY <1>0, <2>3, <4>2
        <5>2. both[i] = new[i - stream.watermark]
          <6> HIDE DEF new
          <6>1. i \in 1..(Len(ledger) + Len(new)) /\ ~(i <= Len(ledger))
            BY <1>0, <2>3, <2>5, <2>7, <4>2
          <6>2. \A j \in 1..(Len(ledger) + Len(new)) :
                   (ledger \o new)[j] = IF j <= Len(ledger) THEN ledger[j] ELSE new[j - Len(ledger)]
            BY <2>5, <2>7, ConcatProperties
          <6> QED BY <2>5, <6>1, <6>2
        <5>3. new[i - stream.watermark] = i
          BY <1>0, <5>1
        <5> QED BY <5>2, <5>3
      <4> QED BY <4>1, <4>2
    <3>3. Len(both) = Len(all) /\ \A i \in 1..Len(both) : both[i] = all[i]
      <4> HIDE DEF both, all
      <4> QED BY <2>8, <3>1, <3>2
    <3>4. both = all
      <4> HIDE DEF both, all
      <4> QED BY <2>8, <3>1, <3>3, SeqEqual
    <3> QED BY <3>4
  <2> QED BY <2>2, <2>3, <2>4, <2>9 DEF LedgerIsPrefix
<1>2. ASSUME ~ \E w \in Workers : Commit(w) \/ CommitUnknown(w) PROVE LedgerIsPrefix'
  <2>1. stream'.watermark = stream.watermark
    BY <1>2, LeaseMoves
  <2>2. ledger' = ledger
    BY <1>2, StepKinds, QuietSteps DEF SubmitTurn, ClaimDispatch, FailDispatch, AgentEmit, DeleteConversation, dbVars
  <2>3. log' \in Seq(Event) => stream.watermark <= Len(log')
    BY <1>0 DEF LedgerIsPrefix
  <2>4. stream.watermark <= Len(log')
    <3>1. Len(log') \in Nat
      BY <1>0, LogGrows
    <3> QED BY <1>0, <3>1 DEF LedgerIsPrefix
  <2> QED BY <2>1, <2>2, <2>4 DEF LedgerIsPrefix
<1> QED BY <1>1, <1>2

\* What the Agent adds to its log.
LEMMA EmittedEvent ==
    ASSUME TypeOK, NEW r \in Runs, NEW kind \in {"start", "end", "trailer"}, AgentEmit(r, kind)
    PROVE  /\ Len(log) \in Nat
           /\ DOMAIN log = 1..Len(log) /\ DOMAIN log' = 1..(Len(log) + 1)
           /\ \A i \in DOMAIN log : log'[i] = log[i]
           /\ log'[Len(log) + 1] = [run |-> r, kind |-> kind]
           /\ UNCHANGED <<stream, dispatch>>
           /\ kind \in {"start", "end"} => dispatch[r] = "claimed" /\ ~Has(r, "end")
           /\ kind = "trailer" => Has(r, "end")
<1>1. log \in Seq(Event)
  BY DEF TypeOK
<1>2. [run |-> r, kind |-> kind] \in Event
  BY DEF Event
<1>3. log' = Append(log, [run |-> r, kind |-> kind])
  BY DEF AgentEmit
<1>4. UNCHANGED <<stream, dispatch>>
  BY DEF AgentEmit, dbVars
<1>5. kind \in {"start", "end"} => dispatch[r] = "claimed" /\ ~Has(r, "end")
  BY DEF AgentEmit
<1>6. kind = "trailer" => Has(r, "end")
  BY DEF AgentEmit
<1> QED BY <1>1, <1>2, <1>3, <1>4, <1>5, <1>6

\* Both parts about turns as one formula, so that a step that touches neither
\* the log, the turns nor the run columns keeps them at a glance.
Turns == TurnInv /\ ClosedByItsEnd

\* Chat turns, dispatch claims, failures and the deletion keep the turns.
LEMMA TurnsOfChatSteps ==
    ASSUME TypeOK, TypeOK', Turns,
           \/ \E r \in Runs : SubmitTurn(r) \/ ClaimDispatch(r) \/ FailDispatch(r)
           \/ DeleteConversation
    PROVE  Turns'
<1> USE ConstantsAssumption
<1>0. /\ stream \in Stream /\ log \in Seq(Event) /\ DOMAIN log = 1..Len(log)
      /\ dispatch \in [Runs -> {"absent", "queued", "claimed", "closed"}]
      /\ \A i \in DOMAIN log : log[i].run \in Runs
  <2>1. log \in Seq(Event)
    BY DEF TypeOK
  <2>2. \A i \in DOMAIN log : log[i] \in Event
    BY <2>1
  <2> QED BY <2>1, <2>2 DEF TypeOK, Event
<1>1. ASSUME NEW r \in Runs, SubmitTurn(r) PROVE Turns'
  <2>1. /\ dispatch[r] = "absent" /\ dispatch' = [dispatch EXCEPT ![r] = "queued"]
        /\ log' = log /\ stream'.watermark = stream.watermark
        /\ stream'.expected = stream.expected /\ stream'.terminal = stream.terminal
    BY <1>1, SubmittedColumns DEF SubmitTurn
  <2>2. \A q \in Runs : dispatch'[q] = IF q = r THEN "queued" ELSE dispatch[q]
    BY <1>0, <2>1
  <2>3. \A i \in DOMAIN log : log[i].run # r
    BY <2>1 DEF Turns, TurnInv
  <2>4. \A q \in Runs : (dispatch'[q] = "claimed" <=> dispatch[q] = "claimed")
                        /\ (dispatch'[q] = "closed" <=> dispatch[q] = "closed")
    BY <2>1, <2>2
  <2>5. TurnInv'
    BY <1>0, <2>1, <2>4 DEF Turns, TurnInv
  <2>6. ClosedByItsEnd'
    BY <2>1, <2>4 DEF Turns, ClosedByItsEnd
  <2> QED BY <2>5, <2>6 DEF Turns
<1>2. ASSUME NEW r \in Runs, ClaimDispatch(r) PROVE Turns'
  <2>1. /\ dispatch[r] \in {"queued", "claimed"} /\ dispatch' = [dispatch EXCEPT ![r] = "claimed"]
        /\ log' = log /\ stream'.watermark = stream.watermark
        /\ stream'.expected = r /\ stream.expected \in {NoRun, r}
        /\ stream.expected = r => stream'.terminal = stream.terminal
        /\ stream.expected # r => stream'.terminal = NoRun
    BY <1>0, <1>2, RegisteredColumns DEF ClaimDispatch, IsHead
  <2>2. \A q \in Runs : dispatch'[q] = IF q = r THEN "claimed" ELSE dispatch[q]
    BY <1>0, <2>1
  <2>3. \A q \in Runs : dispatch'[q] = "closed" <=> dispatch[q] = "closed"
    BY <2>1, <2>2
  <2>4. \A q \in Runs : dispatch[q] = "claimed" => dispatch'[q] = "claimed"
    BY <2>2
  <2>5. \A q \in Runs : dispatch'[q] = "claimed" <=> stream'.expected = q
    BY <2>1, <2>2 DEF Turns, TurnInv
  <2>6. TurnInv'
    BY <1>0, <2>1, <2>3, <2>4, <2>5 DEF Turns, TurnInv
  <2>7. \A q \in Runs : stream'.expected = q => dispatch'[q] = "claimed" /\ stream'.terminal # q
    BY <2>1, <2>5 DEF Turns, ClosedByItsEnd
  <2>8. ClosedByItsEnd'
    BY <2>1, <2>3, <2>7 DEF Turns, ClosedByItsEnd
  <2> QED BY <2>6, <2>8 DEF Turns
<1>3. ASSUME NEW r \in Runs, FailDispatch(r) PROVE Turns'
  <2>1. /\ dispatch[r] = "claimed" /\ dispatch' = [dispatch EXCEPT ![r] = "closed"]
        /\ log' = log /\ \A i \in DOMAIN log : log[i].run # r
    BY <1>3 DEF FailDispatch
  <2>2. stream.expected = r
    BY <2>1 DEF Turns, TurnInv
  <2>3. stream'.watermark = stream.watermark /\ stream'.expected = NoRun
    BY <1>3, <2>2, FailedDispatchColumns
  <2>4. \A q \in Runs : dispatch'[q] = IF q = r THEN "closed" ELSE dispatch[q]
    BY <1>0, <2>1
  <2>5. \A q \in Runs : dispatch'[q] # "claimed" /\ stream'.expected # q
    BY <2>2, <2>3, <2>4 DEF Turns, TurnInv
  <2>6. \A i \in DOMAIN log : dispatch'[log[i].run] = dispatch[log[i].run]
    BY <1>0, <2>1, <2>4
  <2>7. TurnInv'
    <3>1. ASSUME NEW i \in DOMAIN log
          PROVE  /\ dispatch'[log[i].run] \in {"claimed", "closed"}
                 /\ i > stream.watermark /\ log[i].kind # "trailer" => dispatch'[log[i].run] = "claimed"
                 /\ log[i].kind = "end" =>
                       \A j \in DOMAIN log : j > i /\ log[j].run = log[i].run => log[j].kind = "trailer"
      BY <2>6, <3>1 DEF Turns, TurnInv
    <3> QED BY <2>1, <2>3, <2>5, <3>1 DEF TurnInv
  <2>8. ASSUME NEW q \in Runs
        PROVE  /\ (\E i \in 1..stream.watermark : log[i] = [run |-> q, kind |-> "end"]) => dispatch'[q] = "closed"
               /\ dispatch'[q] = "closed" =>
                     \/ \E i \in 1..stream.watermark : log[i] = [run |-> q, kind |-> "end"]
                     \/ \A i \in DOMAIN log : log[i].run # q
    <3>1. CASE q = r
      BY <2>1, <2>4, <3>1
    <3>2. CASE q # r
      <4>1. dispatch'[q] = dispatch[q]
        BY <2>4, <3>2
      <4> QED BY <4>1 DEF Turns, ClosedByItsEnd
    <3> QED BY <3>1, <3>2
  <2>9. ClosedByItsEnd'
    BY <2>1, <2>3, <2>5, <2>8 DEF ClosedByItsEnd
  <2> QED BY <2>7, <2>9 DEF Turns
<1>4. ASSUME DeleteConversation PROVE Turns'
  <2>1. /\ \A q \in Runs : dispatch'[q] = IF dispatch[q] = "queued" THEN "closed" ELSE dispatch[q]
        /\ log' = log /\ stream'.watermark = stream.watermark
        /\ stream'.expected = stream.expected /\ stream'.terminal = stream.terminal
    BY <1>0, <1>4, StoppedColumns DEF DeleteConversation
  <2>2. \A q \in Runs : /\ dispatch'[q] = "claimed" <=> dispatch[q] = "claimed"
                        /\ dispatch[q] = "closed" => dispatch'[q] = "closed"
                        /\ dispatch'[q] = "closed" => dispatch[q] \in {"queued", "closed"}
    BY <2>1
  <2>3. TurnInv'
    BY <1>0, <2>1, <2>2 DEF Turns, TurnInv
  <2>4. \A q \in Runs : dispatch[q] = "queued" => \A i \in DOMAIN log : log[i].run # q
    BY DEF Turns, TurnInv
  <2>5. ClosedByItsEnd'
    BY <2>1, <2>2, <2>4 DEF Turns, ClosedByItsEnd
  <2> QED BY <2>3, <2>5 DEF Turns
<1> QED BY <1>1, <1>2, <1>3, <1>4

\* The Agent adds an event of a claimed turn, or a trailer of an ended one.
LEMMA TurnsOfEmit ==
    ASSUME TypeOK, Turns, LedgerIsPrefix,
           NEW r \in Runs, NEW kind \in {"start", "end", "trailer"}, AgentEmit(r, kind)
    PROVE  Turns'
<1> DEFINE n == Len(log) + 1
<1>0. /\ stream.watermark \in Nat /\ stream.watermark <= Len(log) /\ Len(log) \in Nat
  BY DEF TypeOK, Stream, LedgerIsPrefix
<1>1. /\ DOMAIN log = 1..Len(log) /\ DOMAIN log' = 1..n
      /\ \A i \in DOMAIN log : log'[i] = log[i]
      /\ log'[n] = [run |-> r, kind |-> kind]
      /\ UNCHANGED <<stream, dispatch>>
      /\ kind \in {"start", "end"} => dispatch[r] = "claimed" /\ ~Has(r, "end")
      /\ kind = "trailer" => Has(r, "end")
  BY EmittedEvent
<1>2. dispatch[r] \in {"claimed", "closed"}
  BY <1>1 DEF Has, Turns, TurnInv
<1>3. ASSUME NEW i \in 1..n
      PROVE  /\ dispatch[log'[i].run] \in {"claimed", "closed"}
             /\ i > stream.watermark /\ log'[i].kind # "trailer" => dispatch[log'[i].run] = "claimed"
             /\ log'[i].kind = "end" =>
                   \A j \in 1..n : j > i /\ log'[j].run = log'[i].run => log'[j].kind = "trailer"
  <2>1. CASE i = n
    <3>1. log'[i].run = r /\ log'[i].kind = kind
      BY <1>1, <2>1
    <3>2. \A j \in 1..n : ~(j > i)
      BY <1>0, <2>1
    <3> QED BY <1>1, <1>2, <3>1, <3>2
  <2>2. CASE i # n
    <3>1. i \in DOMAIN log /\ log'[i] = log[i]
      BY <1>0, <1>1, <2>2
    <3>2. ASSUME log[i].kind = "end", NEW j \in 1..n, j > i, log'[j].run = log[i].run
          PROVE  log'[j].kind = "trailer"
      <4>1. CASE j = n
        <5>1. log[i].run = r
          BY <1>1, <3>2, <4>1
        <5>2. log[i] \in Event
          BY <3>1 DEF TypeOK
        <5>3. Has(r, "end")
          BY <3>1, <3>2, <5>1, <5>2 DEF Has, Event
        <5> QED BY <1>1, <4>1, <5>3
      <4>2. CASE j # n
        <5>1. j \in DOMAIN log /\ log'[j] = log[j]
          BY <1>0, <1>1, <4>2
        <5> QED BY <3>1, <3>2, <5>1 DEF Turns, TurnInv
      <4> QED BY <4>1, <4>2
    <3> QED BY <3>1, <3>2 DEF Turns, TurnInv
  <2> QED BY <2>1, <2>2
<1>4. TurnInv'
  <2>1. \A q \in Runs : dispatch'[q] = "claimed" <=> stream'.expected = q
    BY <1>1 DEF Turns, TurnInv
  <2> HIDE DEF n
  <2> QED BY <1>1, <1>3, <2>1 DEF TurnInv
<1>5. \A i \in 1..stream.watermark : i \in DOMAIN log /\ log'[i] = log[i]
  BY <1>0, <1>1
<1>6. ASSUME NEW q \in Runs, dispatch[q] = "closed", \A i \in DOMAIN log : log[i].run # q
      PROVE  \A i \in DOMAIN log' : log'[i].run # q
  <2>1. q # r
    BY <1>1, <1>6 DEF Has
  <2>2. \A i \in 1..n : i = n \/ i \in DOMAIN log
    BY <1>0, <1>1
  <2> HIDE DEF n
  <2> QED BY <1>1, <1>6, <2>1, <2>2
<1>7. ClosedByItsEnd'
  <2> HIDE DEF n
  <2>1. ASSUME NEW q \in Runs
        PROVE  /\ (\E i \in 1..stream.watermark : log'[i] = [run |-> q, kind |-> "end"]) => dispatch[q] = "closed"
               /\ dispatch[q] = "closed" =>
                     \/ \E i \in 1..stream.watermark : log'[i] = [run |-> q, kind |-> "end"]
                     \/ \A i \in DOMAIN log' : log'[i].run # q
               /\ stream.expected = q => dispatch[q] = "claimed" /\ stream.terminal # q
    BY <1>5, <1>6 DEF Turns, ClosedByItsEnd
  <2> QED BY <1>1, <2>1 DEF ClosedByItsEnd
<1> QED BY <1>4, <1>7 DEF Turns

\* A projection closes the expected turn when it brings its end.
LEMMA TurnsOfProjection ==
    ASSUME TypeOK, PageInv, VersionPinsStream, LedgerIsPrefix, Turns,
           NEW w \in Workers, WriteProjection(w)
    PROVE  Turns'
<1> USE ConstantsAssumption
<1> DEFINE t == worker[w]
           run == stream.expected
<1>0. TurnInv /\ ClosedByItsEnd
  BY DEF Turns
<1>1. /\ t.pc = "commit" /\ Matches(w) /\ log' = log
      /\ dispatch' = IF SettlesHead(t) THEN [dispatch EXCEPT ![Terminal(t)] = "closed"] ELSE dispatch
  BY DEF WriteProjection
<1>2. /\ t.to \in Nat /\ stream.watermark \in Nat /\ stream.watermark < t.to
      /\ DOMAIN log = 1..Len(log) /\ t.to <= Len(log) /\ Len(log) \in Nat /\ log \in Seq(Event)
      /\ Pending(t) = (stream.watermark + 1)..t.to
  BY <1>1, CommandColumns
<1>3. /\ stream'.watermark = t.to
      /\ stream'.expected = IF Terminal(t) # NoRun /\ run = Terminal(t) THEN NoRun ELSE run
      /\ stream'.terminal \in {Terminal(t), stream.terminal}
  BY ProjectionColumns
<1>4. \A i \in Pending(t) : log[i].kind # "trailer" => dispatch[log[i].run] = "claimed" /\ run = log[i].run
  BY <1>1, <1>0, PendingEvents
<1>5. \A i \in 1..t.to : i \in 1..stream.watermark \/ i \in Pending(t)
  BY <1>2
<1>6. \A i \in DOMAIN log : log[i] \in Event /\ log[i].run \in Runs
  <2>1. \A i \in DOMAIN log : log[i] \in Event
    BY <1>2
  <2> QED BY <2>1 DEF Event
<1>7. dispatch \in [Runs -> {"absent", "queued", "claimed", "closed"}]
  BY DEF TypeOK
<1>8. CASE Ends(t)
  <2>1. Terminal(t) = run /\ run \in Runs /\ SettlesHead(t) /\ dispatch[run] = "claimed"
    BY <1>0, <1>1, <1>8, CommandTerminal
  <2> HIDE DEF t, run
  <2>2. /\ \A q \in Runs : dispatch'[q] = IF q = run THEN "closed" ELSE dispatch[q]
        /\ stream'.expected = NoRun
    BY <1>1, <1>3, <1>7, <2>1
  <2>3. PICK e \in Pending(t) : log[e] = [run |-> run, kind |-> "end"]
    BY <1>8 DEF Ends, EndsRun, run
  <2>4. \A q \in Runs : dispatch'[q] # "claimed"
    BY <1>0, <2>2 DEF TurnInv, run
  <2>5. ASSUME NEW i \in DOMAIN log
        PROVE  /\ dispatch'[log[i].run] \in {"claimed", "closed"}
               /\ i > t.to => log[i].kind = "trailer"
    <3>1. log[i].run \in Runs /\ dispatch[log[i].run] \in {"claimed", "closed"}
      BY <1>0, <1>6 DEF TurnInv
    <3>2. dispatch'[log[i].run] \in {"claimed", "closed"}
      BY <2>2, <3>1
    <3>3. ASSUME i > t.to, log[i].kind # "trailer" PROVE FALSE
      <4>1. i > stream.watermark /\ e \in DOMAIN log /\ i > e
        BY <1>2, <3>3
      <4>2. log[i].run = run
        BY <1>0, <3>1, <3>3, <4>1 DEF TurnInv, run
      <4> QED BY <1>0, <2>3, <3>3, <4>1, <4>2 DEF TurnInv
    <3> QED BY <3>2, <3>3
  <2>6. TurnInv'
    <3>1. \A i \in DOMAIN log : log[i].kind = "end" =>
                \A j \in DOMAIN log : j > i /\ log[j].run = log[i].run => log[j].kind = "trailer"
      BY <1>0 DEF TurnInv
    <3>2. \A q \in Runs : dispatch'[q] = "claimed" <=> stream'.expected = q
      BY <2>2, <2>4
    <3> QED BY <1>1, <1>3, <2>5, <3>1, <3>2 DEF TurnInv, t
  <2>7. ASSUME NEW q \in Runs
        PROVE  /\ (\E i \in 1..t.to : log[i] = [run |-> q, kind |-> "end"]) => dispatch'[q] = "closed"
               /\ dispatch'[q] = "closed" =>
                     \/ \E i \in 1..t.to : log[i] = [run |-> q, kind |-> "end"]
                     \/ \A i \in DOMAIN log : log[i].run # q
    <3>1. CASE q = run
      <4>1. e \in 1..t.to
        BY <1>2
      <4> QED BY <2>2, <2>3, <3>1, <4>1
    <3>2. CASE q # run
      <4>1. dispatch'[q] = dispatch[q]
        BY <2>2, <3>2
      <4>2. \A i \in Pending(t) : log[i] # [run |-> q, kind |-> "end"]
        BY <1>4, <3>2
      <4>3. \A i \in 1..stream.watermark : i \in 1..t.to
        BY <1>2
      <4> QED BY <1>0, <1>5, <4>1, <4>2, <4>3 DEF ClosedByItsEnd
    <3> QED BY <3>1, <3>2
  <2>8. ClosedByItsEnd'
    BY <1>1, <1>3, <2>2, <2>7 DEF ClosedByItsEnd, t
  <2> QED BY <2>6, <2>8 DEF Turns
<1>9. CASE ~Ends(t)
  <2>1. Terminal(t) \in {NoRun, stream.terminal} /\ ~SettlesHead(t)
    BY <1>0, <1>1, <1>9, CommandTerminal
  <2>2. \A i \in Pending(t) : log[i] # [run |-> run, kind |-> "end"]
    BY <1>9 DEF Ends, EndsRun
  <2> HIDE DEF t, run
  <2>3. dispatch' = dispatch
    BY <1>1, <2>1
  <2>4. run \in Runs => run # stream.terminal
    BY <1>0 DEF ClosedByItsEnd, run
  <2>5. run \in Runs \cup {NoRun}
    BY DEF TypeOK, Stream, run
  <2>6. stream'.expected = run /\ (run \in Runs => stream'.terminal # run)
    BY <1>3, <2>1, <2>4, <2>5
  <2>7. TurnInv'
    <3>1. \A i \in DOMAIN log : i > t.to => i > stream.watermark
      BY <1>2
    <3> QED BY <1>0, <1>1, <1>3, <2>3, <2>6, <3>1 DEF TurnInv, t, run
  <2>8. \A q \in Runs, i \in Pending(t) : log[i] # [run |-> q, kind |-> "end"]
    BY <1>4, <2>2
  <2>9. \A i \in 1..stream.watermark : i \in 1..t.to
    BY <1>2
  <2>10. ASSUME NEW q \in Runs
         PROVE  /\ (\E i \in 1..t.to : log[i] = [run |-> q, kind |-> "end"]) => dispatch[q] = "closed"
                /\ dispatch[q] = "closed" =>
                     \/ \E i \in 1..t.to : log[i] = [run |-> q, kind |-> "end"]
                     \/ \A i \in DOMAIN log : log[i].run # q
                /\ run = q => dispatch[q] = "claimed"
    BY <1>0, <1>5, <2>8, <2>9 DEF ClosedByItsEnd, run
  <2>11. ClosedByItsEnd'
    BY <1>1, <1>3, <2>3, <2>6, <2>10 DEF ClosedByItsEnd, t
  <2> QED BY <2>7, <2>11 DEF Turns
<1> QED BY <1>8, <1>9

\* The two parts about turns are kept by every step.
LEMMA TurnsKept ==
    ASSUME TypeOK, TypeOK', PageInv, VersionPinsStream, LedgerIsPrefix, Turns, [Next]_vars
    PROVE  Turns'
<1>1. CASE Quiet
  <2>1. /\ log' = log /\ dispatch' = dispatch /\ stream'.watermark = stream.watermark
        /\ stream'.expected = stream.expected /\ stream'.terminal = stream.terminal
    BY <1>1, QuietSteps DEF RunColumnsKept
  <2> QED BY <2>1 DEF Turns, TurnInv, ClosedByItsEnd
<1>2. CASE \E w \in Workers : Commit(w) \/ CommitUnknown(w)
  BY <1>2, TurnsOfProjection DEF Commit, CommitUnknown
<1>3. CASE \E r \in Runs, kind \in {"start", "end", "trailer"} : AgentEmit(r, kind)
  BY <1>3, TurnsOfEmit
<1> QED BY <1>1, <1>2, <1>3, TurnsOfChatSteps, StepKinds

-----------------------------------------------------------------------------
(* The theorems *)

\* The inductive invariant, types included.
IInv == TypeOK /\ ConsumerInv

\* The inductive invariant holds of the empty session.
LEMMA InitInv == Init => IInv
<1> SUFFICES ASSUME Init PROVE IInv
  OBVIOUS
<1>1. TypeOK
  BY InitTypeOK
<1>2. /\ stream = NewStream /\ log = <<>> /\ ledger = <<>> /\ deleted = FALSE
      /\ dispatch = [r \in Runs |-> "absent"]
      /\ \A w \in Workers : worker[w].pc = "idle"
  BY DEF Init, Idle
<1>3. stream.watermark = 0 /\ stream.expected = NoRun /\ stream.state = "active"
  BY <1>2 DEF NewStream
<1>4. DOMAIN log = {} /\ Len(log) = 0
  BY <1>2
<1>5. LeaseInv
  BY <1>2, <1>3 DEF LeaseInv, BlockedByRefusal
<1>6. PageInv /\ VersionPinsStream
  BY <1>2 DEF PageInv, VersionPinsStream
<1>7. LedgerIsPrefix
  <2>1. [i \in 1..0 |-> i] = <<>>
    OBVIOUS
  <2> QED BY <1>2, <1>3, <1>4, <2>1 DEF LedgerIsPrefix
<1>8. \A r \in Runs : dispatch[r] = "absent" /\ stream.expected # r
  BY <1>2, <1>3, ConstantsAssumption
<1>9. 1..stream.watermark = {}
  BY <1>3
<1>10. TurnInv /\ ClosedByItsEnd
  BY <1>4, <1>8, <1>9 DEF TurnInv, ClosedByItsEnd
<1> QED BY <1>1, <1>5, <1>6, <1>7, <1>10 DEF IInv, ConsumerInv

\* Every step keeps the inductive invariant.
LEMMA StepInv == IInv /\ [Next]_vars => IInv'
<1> SUFFICES ASSUME IInv, [Next]_vars PROVE IInv'
  OBVIOUS
<1>1. TypeOK /\ LeaseInv /\ PageInv /\ VersionPinsStream /\ LedgerIsPrefix /\ Turns
  BY DEF IInv, ConsumerInv, Turns
<1>2. TypeOK'
  BY <1>1, StepTypeOK
<1>3. LeaseInv'
  BY <1>1, <1>2, LeaseInvKept
<1>4. PageInv' /\ VersionPinsStream'
  BY <1>1, <1>2, PageInvKept
<1>5. LedgerIsPrefix'
  BY <1>1, LedgerKept
<1>6. Turns'
  BY <1>1, <1>2, TurnsKept
<1> QED BY <1>2, <1>3, <1>4, <1>5, <1>6 DEF IInv, ConsumerInv, Turns

\* The inductive invariant: leases, pages, the optimistic lock, the ledger and
\* the turns of agui-projection-repository.ts hold together.
THEOREM ProjectorSound == Spec => []ConsumerInv
<1>1. IInv => ConsumerInv
  BY DEF IInv
<1> QED BY <1>1, InitInv, StepInv, PTL DEF Spec

\* commitProjection appends each event of the Agent once, in order, without a
\* gap, whatever the workers' pages were.
THEOREM LedgerFollowsLog == Spec => []LedgerIsPrefix
<1>1. ConsumerInv => LedgerIsPrefix
  BY DEF ConsumerInv
<1> QED BY <1>1, ProjectorSound, PTL

\* expectedVersion pins the columns a command was computed from.
THEOREM OptimisticLockSound == Spec => []VersionPinsStream
<1>1. ConsumerInv => VersionPinsStream
  BY DEF ConsumerInv
<1> QED BY <1>1, ProjectorSound, PTL

\* A turn ends in the ledger exactly when it is closed, unless it never ran.
THEOREM TurnsCloseByTheirEnd == Spec => []ClosedByItsEnd
<1>1. ConsumerInv => ClosedByItsEnd
  BY DEF ConsumerInv
<1> QED BY <1>1, ProjectorSound, PTL

\* AGUI_POST_TERMINAL_SOURCE, AGUI_TERMINAL_DISPATCH_MISSING and the identity
\* conflict of commitProjection are unreachable while the Agent keeps its log.
THEOREM ProjectionNeverThrows == Spec => []CommitNeverThrows
<1>1. IInv => CommitNeverThrows
  <2> SUFFICES ASSUME IInv, NEW w \in Workers, worker[w].pc = "commit", Matches(w)
               PROVE  ~Throws(worker[w])
    BY DEF CommitNeverThrows
  <2> QED BY NeverThrows DEF IInv, ConsumerInv
<1> QED BY <1>1, InitInv, StepInv, PTL DEF Spec

\* A page that another worker overtook never blocks the stream.
THEOREM OnlyRefusalsBlock == Spec => []BlockedByRefusal
<1>1. ConsumerInv => BlockedByRefusal
  BY DEF ConsumerInv, LeaseInv
<1> QED BY <1>1, ProjectorSound, PTL

\* deleteLockedConversationFacts stops the projection for good.
THEOREM DeletionIsFinal == Spec => []DeletedStaysStopped
<1>1. ConsumerInv => DeletedStaysStopped
  BY DEF ConsumerInv, LeaseInv, DeletedStaysStopped
<1> QED BY <1>1, ProjectorSound, PTL

\* A worker that lost its lease writes nothing to the database.
THEOREM Fencing == Spec => StaleWorkerHarmless
<1>1. TypeOK /\ [Next]_vars =>
        [\A w \in Workers :
            /\ worker[w].pc # "idle"
            /\ worker'[w] # worker[w]
            /\ stream.fence # worker[w].fence \/ stream.elapsed
            => UNCHANGED <<stream, ledger, dispatch>>]_vars
  <2> SUFFICES ASSUME TypeOK, [Next]_vars, NEW w \in Workers,
                      worker[w].pc # "idle", worker'[w] # worker[w],
                      stream.fence # worker[w].fence \/ stream.elapsed
               PROVE  UNCHANGED <<stream, ledger, dispatch>>
    OBVIOUS
  <2>1. OwnStep(w)
    BY OwnSteps
  <2>2. CASE Commit(w) \/ CommitUnknown(w)
    BY <2>2 DEF Commit, CommitUnknown, WriteProjection, LeaseMatches, Held
  <2>3. CASE Settle(w)
    BY <2>3 DEF Settle, Settles, Held
  <2>4. CASE Claim(w)
    BY <2>4 DEF Claim
  <2>5. CASE LoseLease(w) \/ ReadPage(w) \/ ReadFails(w) \/ ReadRefused(w) \/ ReadStream(w)
             \/ VersionConflict(w) \/ LeaseConflict(w) \/ CommitFails(w)
    BY <2>5 DEF LoseLease, ReadPage, ReadFails, ReadRefused, ReadStream, VersionConflict, LeaseConflict,
                CommitFails, dbVars
  <2> QED BY <2>1, <2>2, <2>3, <2>4, <2>5 DEF OwnStep, QuietOfWorker
<1> QED BY <1>1, TypeCorrect, PTL DEF Spec, StaleWorkerHarmless

-----------------------------------------------------------------------------
(* Refinement *)

\* A projection is one batch of the abstract ledger.
LEMMA ProjectionRefines ==
    ASSUME IInv, IInv', NEW w \in Workers, WriteProjection(w)
    PROVE  Ledger!Project
<1> USE ConstantsAssumption
<1> DEFINE t == worker[w]
           W == stream.watermark
<1>0. TypeOK /\ PageInv /\ VersionPinsStream /\ LedgerIsPrefix /\ TurnInv /\ ClosedByItsEnd /\ LedgerIsPrefix'
  BY DEF IInv, ConsumerInv
<1>1. t.pc = "commit" /\ Matches(w) /\ log' = log
  BY DEF WriteProjection
<1>2. /\ t.to \in Nat /\ W \in Nat /\ W < t.to /\ t.to <= Len(log) /\ Len(log) \in Nat
      /\ Pending(t) = (W + 1)..t.to /\ Pending(t) \subseteq DOMAIN log /\ log \in Seq(Event)
  BY <1>0, <1>1, CommandColumns
<1>3. /\ stream'.watermark = t.to
      /\ stream'.expected = IF Terminal(t) # NoRun /\ stream.expected = Terminal(t) THEN NoRun ELSE stream.expected
  BY <1>0, ProjectionColumns
<1>4. Len(ledger) = W
  BY <1>0, <1>2 DEF LedgerIsPrefix
<1>5. ledger' = [i \in 1..t.to |-> i]
  BY <1>0, <1>3 DEF LedgerIsPrefix
<1>6. Ledger!Ends(stream.expected, W + 1, t.to) <=> Ends(t)
  <2>1. \A i \in Pending(t) : log[i] \in Event
    BY <1>2
  <2>2. \A i \in Pending(t) : log[i] = [run |-> stream.expected, kind |-> "end"]
                              <=> log[i].run = stream.expected /\ log[i].kind = "end"
    BY <2>1 DEF Event
  <2> QED BY <1>2, <2>2 DEF Ledger!Ends, Ends, EndsRun
<1>7. stream'.expected = IF Ends(t) THEN NoRun ELSE stream.expected
  <2>1. Ends(t) => Terminal(t) = stream.expected /\ stream.expected \in Runs
    BY <1>0, <1>1, CommandTerminal
  <2>2. ~Ends(t) => Terminal(t) \in {NoRun, stream.terminal}
    BY <1>0, <1>1, CommandTerminal
  <2>3. stream.expected \in Runs => stream.expected # stream.terminal
    BY <1>0 DEF ClosedByItsEnd
  <2>4. stream.expected \in Runs \cup {NoRun}
    BY <1>0 DEF TypeOK, Stream
  <2> HIDE DEF t
  <2> QED BY <1>3, <2>1, <2>2, <2>3, <2>4
<1>8. t.to \in (Len(ledger) + 1)..Len(log)
  BY <1>2, <1>4
<1> HIDE DEF t, W
<1>9. /\ ledger' = [i \in 1..t.to |-> i]
      /\ stream'.expected = IF Ledger!Ends(stream.expected, Len(ledger) + 1, t.to) THEN NoRun ELSE stream.expected
      /\ UNCHANGED log
  BY <1>1, <1>4, <1>5, <1>6, <1>7
<1> QED BY <1>8, <1>9 DEF Ledger!Project

\* Every step of the projector is a step of the ledger it promises, or none.
LEMMA StepRefines ==
    ASSUME IInv, IInv', [Next]_vars
    PROVE  [Ledger!Next]_(Ledger!vars)
<1> USE ConstantsAssumption
<1>0. TypeOK /\ TurnInv /\ stream \in Stream
  BY DEF IInv, ConsumerInv, TypeOK
<1>1. CASE Quiet
  BY <1>0, <1>1, QuietSteps DEF Ledger!vars, RunColumnsKept
<1>2. ASSUME NEW r \in Runs, SubmitTurn(r) PROVE UNCHANGED Ledger!vars
  BY <1>0, <1>2, SubmittedColumns DEF SubmitTurn, Ledger!vars
<1>3. ASSUME NEW r \in Runs, ClaimDispatch(r) PROVE [Ledger!Next]_(Ledger!vars)
  <2>1. /\ stream.expected \in {NoRun, r} /\ stream'.expected = r /\ UNCHANGED <<log, ledger>>
    BY <1>0, <1>3, RegisteredColumns DEF ClaimDispatch
  <2>2. CASE stream.expected = r
    BY <2>1, <2>2 DEF Ledger!vars
  <2>3. CASE stream.expected = NoRun
    <3>1. Ledger!Expect
      BY <2>1, <2>3 DEF Ledger!Expect
    <3> QED BY <3>1 DEF Ledger!Next
  <2> QED BY <2>1, <2>2, <2>3
<1>4. ASSUME NEW r \in Runs, FailDispatch(r) PROVE Ledger!Next
  <2>1. /\ dispatch[r] = "claimed" /\ UNCHANGED <<log, ledger>> /\ \A i \in DOMAIN log : log[i].run # r
    BY <1>4 DEF FailDispatch
  <2>2. stream.expected = r
    BY <1>0, <2>1 DEF TurnInv
  <2>3. stream'.expected = NoRun
    BY <1>0, <1>4, <2>2, FailedDispatchColumns
  <2>4. Ledger!Abandon
    BY <2>1, <2>2, <2>3 DEF Ledger!Abandon
  <2> QED BY <2>4 DEF Ledger!Next
<1>5. ASSUME NEW r \in Runs, NEW kind \in {"start", "end", "trailer"}, AgentEmit(r, kind) PROVE Ledger!Next
  <2>1. [run |-> r, kind |-> kind] \in Ledger!Event
    BY DEF Ledger!Event
  <2>2. Ledger!Emit
    BY <1>5, <2>1 DEF AgentEmit, dbVars, Ledger!Emit
  <2> QED BY <2>2 DEF Ledger!Next
<1>6. CASE DeleteConversation
  BY <1>0, <1>6, StoppedColumns DEF DeleteConversation, Ledger!vars
<1>7. ASSUME NEW w \in Workers, Commit(w) \/ CommitUnknown(w) PROVE Ledger!Next
  BY <1>7, ProjectionRefines DEF Commit, CommitUnknown, Ledger!Next
<1> QED BY <1>1, <1>2, <1>3, <1>4, <1>5, <1>6, <1>7, StepKinds

\* The projector, with its leases, pages, retries and lost acknowledgements,
\* implements the ledger of SourceLedger.
THEOREM Refinement == Spec => ImplementsLedger
<1>1. Init => Ledger!Init
  BY DEF Init, Ledger!Init, NewStream
<1>2. IInv /\ IInv' /\ [Next]_vars => [Ledger!Next]_(Ledger!vars)
  BY StepRefines
<1> QED BY <1>1, <1>2, InitInv, StepInv, PTL DEF Spec, ImplementsLedger, Ledger!Spec

=============================================================================
