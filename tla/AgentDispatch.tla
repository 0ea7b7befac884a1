---------------------------- MODULE AgentDispatch ----------------------------
(***************************************************************************)
(* The chat dispatch outbox of kokoro-bff.                                 *)
(*                                                                         *)
(* A chat turn commits, in one PostgreSQL transaction, two messages and a  *)
(* row of bff_agent_dispatch_outbox.  Dispatcher workers claim the head    *)
(* row of each conversation under a fenced lease, POST it to the Agent     *)
(* outside any transaction, and settle the row by what they heard.  The    *)
(* projector reads the Agent's session log back and closes the row when    *)
(* the run's terminal event is committed.  Deleting a conversation cuts    *)
(* across all of it.                                                       *)
(*                                                                         *)
(* Every action below is one database transaction, one step of a worker,   *)
(* or one step of the Agent.  The transactions that touch a conversation   *)
(* lock it first (Conversation -> stream -> outbox), and the projector     *)
(* commits under the stream's version, so each is atomic.                  *)
(***************************************************************************)
EXTENDS Naturals, Sequences, FiniteSets

CONSTANTS
    Convs,        \* conversations
    Runs,         \* chat turns: one dispatch row, one run, one assistant message
    ConvOf,       \* the conversation each turn belongs to
    Workers,      \* dispatcher instances
    NoRun,        \* NULL of the stream's three run columns
    NoWorker,     \* NULL of lease_owner
    MaxAttempts,  \* the dispatcher's attempt budget
    MaxFaults     \* BOUND: timeouts, crashes, refusals and late expiries in a behaviour

ASSUME ConstantsAssumption ==
    /\ ConvOf \in [Runs -> Convs]
    /\ NoRun \notin Runs
    /\ NoWorker \notin Workers
    /\ MaxAttempts \in Nat \ {0}
    /\ MaxFaults \in Nat

VARIABLES
    conversation, \* bff_conversation.status
    messageSeq,   \* MAX(message_seq) of each conversation
    outbox,       \* bff_agent_dispatch_outbox
    message,      \* status of each turn's assistant message
    stream,       \* the run columns and consumer_state of bff_agui_stream
    ledger,       \* bff_agui_event: the public frames, in public_sequence order
    cancelled,    \* runs with a row in bff_agent_cancellation_outbox
    worker,       \* what each dispatcher holds in memory
    requests,     \* POST /v1/runs requests on their way to the Agent
    agent,        \* what the Agent did with each run
    agentLog,     \* the Agent's event log of each session
    faults        \* faults spent so far

vars == <<conversation, messageSeq, outbox, message, stream, ledger, cancelled,
          worker, requests, agent, agentLog, faults>>

bffVars == <<conversation, messageSeq, outbox, message, stream, ledger, cancelled>>
agentVars == <<agent, agentLog>>

-----------------------------------------------------------------------------
(* Types *)

Open == {"pending", "leased", "retryable", "admitted"}
Closed == {"terminal", "failed"}

\* `elapsed`: the instant in available_at (pending, retryable) or in
\* lease_until (leased) lies in the past of the database clock.  The lease
\* token is a fresh value per claim; owner and fence already identify one.
Row == [status: Open \cup Closed \cup {"absent"}, seq: Nat, unknown: BOOLEAN,
        attempts: Nat, fence: Nat, holder: Workers \cup {NoWorker}, elapsed: BOOLEAN]

\* `watermark` is source_high_watermark, the Agent events already projected.
Stream == [expected: Runs \cup {NoRun}, latest: Runs \cup {NoRun},
           terminal: Runs \cup {NoRun}, state: {"active", "stopped"}, watermark: Nat]

SourceKinds == {"started", "finished", "errored"}
SourceEvent == [kind: SourceKinds, run: Runs]
Frame == [kind: SourceKinds \cup {"queued"}, run: Runs]

\* A worker is idle, or it holds a claim: it will POST the run, waits for the
\* Agent's answer, or has an outcome to settle.
Idle == [pc |-> "idle", run |-> NoRun, fence |-> 0, outcome |-> "none"]
Ticket == [pc: {"claimed", "waiting", "answered"}, run: Runs, fence: Nat,
           outcome: {"none", "admitted", "not_admitted", "unknown"}]
Request == [run: Runs, fence: Nat]

AbsentRow == [status |-> "absent", seq |-> 0, unknown |-> FALSE, attempts |-> 0,
              fence |-> 0, holder |-> NoWorker, elapsed |-> FALSE]
NewStream == [expected |-> NoRun, latest |-> NoRun, terminal |-> NoRun,
              state |-> "active", watermark |-> 0]

Init ==
    /\ conversation = [c \in Convs |-> "active"]
    /\ messageSeq = [c \in Convs |-> 0]
    /\ outbox = [d \in Runs |-> AbsentRow]
    /\ message = [d \in Runs |-> "absent"]
    /\ stream = [c \in Convs |-> NewStream]
    /\ ledger = [c \in Convs |-> <<>>]
    /\ cancelled = {}
    /\ worker = [w \in Workers |-> Idle]
    /\ requests = {}
    /\ agent = [d \in Runs |-> "none"]
    /\ agentLog = [c \in Convs |-> <<>>]
    /\ faults = 0

Fault == faults < MaxFaults /\ faults' = faults + 1

-----------------------------------------------------------------------------
(* The conversation's execution head *)

\* Mutant: a turn no worker has taken yet does not hold up the ones behind it.
IsHeadIgnoringPending(box, d) ==
    /\ box[d].status \in Open
    /\ \A e \in Runs : ConvOf[e] = ConvOf[d] /\ box[e].seq < box[d].seq => box[e].status \notin Open \ {"pending"}

\* d is the open row with the lowest dispatch sequence of its conversation.
IsHead(box, d) ==
    /\ box[d].status \in Open
    /\ \A e \in Runs : ConvOf[e] = ConvOf[d] /\ box[e].seq < box[d].seq => box[e].status \notin Open

\* Mutant: the frame already recorded for the head is not looked up.
ProjectQueuedHeadAgain(c, frames) ==
    LET queued == {[kind |-> "queued", run |-> d] : d \in {h \in Runs : ConvOf[h] = c /\ IsHead(outbox', h)}} IN
    ledger' = [ledger EXCEPT ![c] = IF queued = {} THEN frames
                                    ELSE Append(frames, CHOOSE f \in queued : TRUE)]

\* The last statement of every transaction that can move the head: the new
\* head gets one "queued" frame in the public ledger, which is otherwise
\* `frames`.  A stream that expects another run makes the transaction throw.
ProjectQueuedHead(c, frames) ==
    LET heads == {d \in Runs : ConvOf[d] = c /\ IsHead(outbox', d) /\ conversation[c] = "active"}
        queued == {[kind |-> "queued", run |-> d] : d \in heads}
        missing == {f \in queued : \A i \in DOMAIN frames : frames[i] # f}
    IN  /\ \A d \in heads : stream'[c].expected \in {NoRun, d}
        /\ ledger' = [ledger EXCEPT ![c] = IF missing = {} THEN frames
                                           ELSE Append(frames, CHOOSE f \in missing : TRUE)]

NewRow(seq) == [AbsentRow EXCEPT !.status = "pending", !.seq = seq, !.elapsed = TRUE]

\* POST of a chat turn.  Its idempotency key and digest decide only whether
\* the row exists already, and a replay changes nothing.
SubmitTurn(d) ==
    LET c == ConvOf[d] IN
    /\ conversation[c] = "active"
    /\ outbox[d].status = "absent"
    /\ outbox' = [outbox EXCEPT ![d] = NewRow(messageSeq[c] + 1)]
    /\ messageSeq' = [messageSeq EXCEPT ![c] = @ + 2]
    /\ message' = [message EXCEPT ![d] = "pending"]
    /\ UNCHANGED stream
    /\ ProjectQueuedHead(c, ledger[c])
    /\ UNCHANGED <<conversation, cancelled, worker, requests, agentVars, faults>>

-----------------------------------------------------------------------------
(* Claim *)

\* What the first transaction of a claim looks for, to fail it.
Exhausted(d) ==
    /\ outbox[d].status \in {"pending", "retryable"}
    /\ outbox[d].elapsed
    /\ outbox[d].attempts >= MaxAttempts
    /\ ~outbox[d].unknown
    /\ conversation[ConvOf[d]] = "active"
    /\ IsHead(outbox, d)

\* Mutant: an expired lease is not claimed again.
ClaimableUnleased(d) ==
    /\ outbox[d].status \in {"pending", "retryable"}
    /\ outbox[d].elapsed
    /\ outbox[d].attempts < MaxAttempts \/ outbox[d].unknown
    /\ conversation[ConvOf[d]] = "active"
    /\ IsHead(outbox, d)

Claimable(d) ==
    /\ outbox[d].status \in {"pending", "retryable", "leased"}
    /\ outbox[d].elapsed
    /\ \/ outbox[d].attempts < MaxAttempts
       \/ outbox[d].unknown
       \/ outbox[d].status = "leased"
    /\ conversation[ConvOf[d]] = "active"
    /\ IsHead(outbox, d)

\* Mutant: a consumer stopped by the previous failure stays stopped.
RegisterStopped(s, d) == IF s.expected = d THEN s ELSE [s EXCEPT !.expected = d, !.terminal = NoRun]

\* The consumer registration made with an expected run.
Register(s, d) ==
    IF s.expected = d THEN s
    ELSE [s EXCEPT !.expected = d, !.terminal = NoRun, !.state = "active"]

\* Mutant: taking over an expired lease does not record that its holder may have sent.
ClaimedRowForgetful(row, w) ==
    [row EXCEPT !.status = "leased", !.attempts = @ + 1, !.holder = w, !.fence = @ + 1, !.elapsed = FALSE]

ClaimedRow(row, w) ==
    [row EXCEPT !.status = "leased", !.unknown = row.unknown \/ row.status = "leased",
                !.attempts = @ + 1, !.holder = w, !.fence = @ + 1, !.elapsed = FALSE]

Claim(w, d) ==
    LET c == ConvOf[d] IN
    /\ worker[w].pc = "idle"
    /\ \A e \in Runs : ~Exhausted(e)
    /\ Claimable(d)
    /\ stream[c].expected \in {NoRun, d}
    /\ outbox' = [outbox EXCEPT ![d] = ClaimedRow(@, w)]
    /\ stream' = [stream EXCEPT ![c] = Register(@, d)]
    /\ worker' = [worker EXCEPT ![w] = [pc |-> "claimed", run |-> d,
                                        fence |-> outbox[d].fence + 1, outcome |-> "none"]]
    /\ UNCHANGED <<conversation, messageSeq, message, ledger, cancelled, requests, agentVars, faults>>

-----------------------------------------------------------------------------
(* Delivery: outside any transaction *)

Answered(t, o) == [t EXCEPT !.pc = "answered", !.outcome = o]

\* The POST leaves.  The worker checked its lease budget on its own clock
\* before; a pause after that check sends the request late.
Deliver(w) ==
    /\ worker[w].pc = "claimed"
    /\ worker' = [worker EXCEPT ![w].pc = "waiting"]
    /\ requests' = requests \cup {[run |-> worker[w].run, fence |-> worker[w].fence]}
    /\ UNCHANGED <<bffVars, agentVars, faults>>

\* The Agent is not configured, or the stored launch does not parse.
RefuseLocally(w) ==
    /\ worker[w].pc = "claimed"
    /\ Fault
    /\ worker' = [worker EXCEPT ![w] = Answered(@, "not_admitted")]
    /\ UNCHANGED <<bffVars, requests, agentVars>>

\* The budget is spent before the POST, or the POST times out, is reset, or
\* is answered 408, 425, 429 or 5xx.  The request may still arrive.
GiveUp(w) ==
    /\ worker[w].pc \in {"claimed", "waiting"}
    /\ Fault
    /\ worker' = [worker EXCEPT ![w] = Answered(@, "unknown")]
    /\ UNCHANGED <<bffVars, requests, agentVars>>

\* The process dies, or the settling transaction fails and is swallowed.
Crash(w) ==
    /\ worker[w].pc # "idle"
    /\ Fault
    /\ worker' = [worker EXCEPT ![w] = Idle]
    /\ UNCHANGED <<bffVars, requests, agentVars>>

-----------------------------------------------------------------------------
(* The Agent (external) *)

WaitsFor(t, r) == t.pc = "waiting" /\ t.run = r.run /\ t.fence = r.fence

Reply(r, o) == worker' = [w \in Workers |-> IF WaitsFor(worker[w], r) THEN Answered(worker[w], o)
                                            ELSE worker[w]]

\* POST /v1/runs is idempotent by run id: a run it knows is acknowledged again.
AgentAccept(r) ==
    /\ r \in requests
    /\ requests' = requests \ {r}
    /\ agent' = [agent EXCEPT ![r.run] = IF @ = "none" THEN "admitted" ELSE @]
    /\ Reply(r, "admitted")
    /\ UNCHANGED <<bffVars, agentLog, faults>>

\* Another 4xx.  It says nothing of an earlier request of the same run.
AgentReject(r) ==
    /\ r \in requests
    /\ Fault
    /\ requests' = requests \ {r}
    /\ Reply(r, "not_admitted")
    /\ UNCHANGED <<bffVars, agentVars>>

AgentEmit(d, kind) == agentLog' = [agentLog EXCEPT ![ConvOf[d]] = Append(@, [kind |-> kind, run |-> d])]

AgentStart(d) ==
    /\ agent[d] = "admitted"
    /\ agent' = [agent EXCEPT ![d] = "running"]
    /\ AgentEmit(d, "started")
    /\ UNCHANGED <<bffVars, worker, requests, faults>>

\* A run that ends before it starts was cancelled.
AgentFinish(d) ==
    /\ agent[d] \in {"admitted", "running"}
    /\ agent' = [agent EXCEPT ![d] = "ended"]
    /\ \E kind \in {"finished", "errored"} : AgentEmit(d, kind)
    /\ UNCHANGED <<bffVars, worker, requests, faults>>

-----------------------------------------------------------------------------
(* Settlement: every mark matches the lease it was claimed under *)

\* Mutant: any live lease will do.
HeldByAnyone(w) ==
    /\ outbox[worker[w].run].status = "leased"
    /\ ~outbox[worker[w].run].elapsed

Held(w) ==
    LET row == outbox[worker[w].run] IN
    /\ row.status = "leased"
    /\ row.holder = w
    /\ row.fence = worker[w].fence
    /\ ~row.elapsed

Settles(w, outcome) == worker[w].pc = "answered" /\ worker[w].outcome = outcome /\ Held(w)

Unleased(row, status) == [row EXCEPT !.status = status, !.holder = NoWorker, !.elapsed = FALSE]

MarkAdmitted(w) ==
    /\ Settles(w, "admitted")
    /\ outbox' = [outbox EXCEPT ![worker[w].run] = Unleased(@, "admitted")]
    /\ worker' = [worker EXCEPT ![w] = Idle]
    /\ UNCHANGED <<conversation, messageSeq, message, stream, ledger, cancelled, requests, agentVars, faults>>

UnknownRow(row) == [Unleased(row, "retryable") EXCEPT !.unknown = TRUE]

MarkUnknown(w) ==
    /\ Settles(w, "unknown")
    /\ outbox' = [outbox EXCEPT ![worker[w].run] = UnknownRow(@)]
    /\ worker' = [worker EXCEPT ![w] = Idle]
    /\ UNCHANGED <<conversation, messageSeq, message, stream, ledger, cancelled, requests, agentVars, faults>>

\* An earlier attempt may have been admitted, so a refusal only means: retry.
MarkNotAdmittedSticky(w) ==
    /\ Settles(w, "not_admitted")
    /\ outbox[worker[w].run].unknown
    /\ outbox' = [outbox EXCEPT ![worker[w].run] = Unleased(@, "retryable")]
    /\ worker' = [worker EXCEPT ![w] = Idle]
    /\ UNCHANGED <<conversation, messageSeq, message, stream, ledger, cancelled, requests, agentVars, faults>>

\* The stream after the dispatch of d failed without a run.
FailedStream(s, d) ==
    LET named == IF s.expected \in {NoRun, d} THEN [s EXCEPT !.latest = d, !.terminal = d] ELSE s
    IN  IF s.expected = d THEN [named EXCEPT !.expected = NoRun, !.state = "stopped"] ELSE named

MarkFailed(w) ==
    LET d == worker[w].run
        c == ConvOf[d]
    IN  /\ Settles(w, "not_admitted")
        /\ ~outbox[d].unknown
        /\ outbox' = [outbox EXCEPT ![d] = Unleased(@, "failed")]
        /\ message' = [message EXCEPT ![d] = IF @ = "pending" THEN "failed" ELSE @]
        /\ stream' = [stream EXCEPT ![c] = FailedStream(@, d)]
        /\ ProjectQueuedHead(c, Append(ledger[c], [kind |-> "errored", run |-> d]))
        /\ worker' = [worker EXCEPT ![w] = Idle]
        /\ UNCHANGED <<conversation, messageSeq, cancelled, requests, agentVars, faults>>

\* The lease is gone: the mark matches no row.
DropSettlement(w) ==
    /\ worker[w].pc = "answered"
    /\ ~Held(w)
    /\ worker' = [worker EXCEPT ![w] = Idle]
    /\ UNCHANGED <<bffVars, requests, agentVars, faults>>

Settle(w) ==
    \/ MarkAdmitted(w)
    \/ MarkUnknown(w)
    \/ MarkNotAdmittedSticky(w)
    \/ MarkFailed(w)
    \/ DropSettlement(w)

\* Time passes: a backoff ends, or a lease runs out.  A lease that runs out
\* under a worker still at work is a fault (a slow worker).
Working(d) == \E w \in Workers : worker[w].pc # "idle" /\ worker[w].run = d /\ worker[w].fence = outbox[d].fence

Elapse(d) ==
    /\ outbox[d].status \in {"retryable", "leased"}
    /\ ~outbox[d].elapsed
    /\ IF outbox[d].status = "leased" /\ Working(d) THEN Fault ELSE UNCHANGED faults
    /\ outbox' = [outbox EXCEPT ![d].elapsed = TRUE]
    /\ UNCHANGED <<conversation, messageSeq, message, stream, ledger, cancelled, worker, requests, agentVars>>

-----------------------------------------------------------------------------
(* Projection of the Agent's log *)

\* latest and terminal run after one source event.
RunState(s, e) ==
    IF e.kind = "started"
    THEN IF s.expected \in {NoRun, e.run} THEN [latest |-> e.run, terminal |-> NoRun]
         ELSE [latest |-> s.latest, terminal |-> s.terminal]
    ELSE IF s.expected = e.run \/ (s.expected = NoRun /\ s.latest \in {NoRun, e.run})
         THEN [latest |-> e.run, terminal |-> e.run]
         ELSE [latest |-> s.latest, terminal |-> s.terminal]

SettlesHead(s, e) == RunState(s, e).terminal \notin {NoRun, s.terminal}

\* Mutant: the terminal run stays the expected one.
ProjectedStreamStillExpecting(s, e) ==
    [s EXCEPT !.watermark = @ + 1, !.latest = RunState(s, e).latest, !.terminal = RunState(s, e).terminal]

ProjectedStream(s, e) ==
    LET run == RunState(s, e) IN
    [s EXCEPT !.watermark = @ + 1, !.latest = run.latest,
              !.terminal = IF run.terminal = NoRun \/ s.expected \in {NoRun, run.terminal}
                           THEN run.terminal ELSE @,
              !.expected = IF run.terminal # NoRun /\ @ = run.terminal THEN NoRun ELSE @]

\* Mutant: the message follows the run that started last.
ProjectedMessageOfLatest(s, e) ==
    IF s.latest = e.run /\ e.kind # "started" /\ message[e.run] = "pending"
    THEN [message EXCEPT ![e.run] = IF e.kind = "finished" THEN "completed" ELSE "failed"]
    ELSE message

\* The assistant message follows the run the stream expects, and no other.
ProjectedMessage(s, e) ==
    IF s.expected = e.run /\ e.kind # "started" /\ message[e.run] = "pending"
    THEN [message EXCEPT ![e.run] = IF e.kind = "finished" THEN "completed" ELSE "failed"]
    ELSE message

TerminalRow(row) == [Unleased(row, "terminal") EXCEPT !.fence = @ + 1]

\* One source event is committed under the consumer's lease, which only an
\* active stream has.  A source of a closed run, or a terminal event without
\* an open dispatch, makes the transaction throw and blocks the consumer.
Project(c) ==
    LET s == stream[c]
        e == agentLog[c][s.watermark + 1]
        frames == Append(ledger[c], e)
    IN  /\ s.state = "active"
        /\ s.watermark < Len(agentLog[c])
        /\ outbox[e.run].status \notin Closed
        /\ stream' = [stream EXCEPT ![c] = ProjectedStream(s, e)]
        /\ message' = ProjectedMessage(s, e)
        /\ \/ /\ SettlesHead(s, e)
              /\ outbox[e.run].status \in {"leased", "retryable", "admitted"}
              /\ outbox' = [outbox EXCEPT ![e.run] = TerminalRow(@)]
              /\ ProjectQueuedHead(c, frames)
           \/ /\ ~SettlesHead(s, e)
              /\ ledger' = [ledger EXCEPT ![c] = frames]
              /\ UNCHANGED outbox
        /\ UNCHANGED <<conversation, messageSeq, cancelled, worker, requests, agentVars, faults>>

-----------------------------------------------------------------------------
(* Deletion of a conversation *)

\* Rows that were ever claimed stay open for reconciliation; rows that never
\* were can be failed, because no worker can have sent them.
DeletedRow(row) ==
    IF row.status \in {"leased", "retryable"} /\ row.attempts > 0
    THEN [row EXCEPT !.status = "retryable", !.unknown = TRUE, !.holder = NoWorker,
                     !.fence = @ + 1, !.elapsed = row.status = "leased" \/ @]
    ELSE IF row.status \in {"pending", "leased", "retryable"} /\ row.attempts = 0 /\ ~row.unknown
         THEN [Unleased(row, "failed") EXCEPT !.fence = @ + 1]
         ELSE row

\* Mutant: only a run the BFF knows to be admitted is cancelled.
CancellableAdmitted(d) == outbox[d].status = "admitted"

\* A row that was claimed once may be known to the Agent.
Cancellable(d) == outbox[d].attempts > 0

Stopped(s) == [s EXCEPT !.state = "stopped"]

DeleteConversation(c) ==
    LET turns == {d \in Runs : ConvOf[d] = c} IN
    /\ conversation[c] = "active"
    /\ conversation' = [conversation EXCEPT ![c] = "deleted"]
    /\ stream' = [stream EXCEPT ![c] = Stopped(@)]
    /\ cancelled' = cancelled \cup {d \in turns : Cancellable(d)}
    /\ outbox' = [d \in Runs |-> IF d \in turns THEN DeletedRow(outbox[d]) ELSE outbox[d]]
    /\ message' = [d \in Runs |-> IF d \in turns /\ message[d] = "pending" THEN "failed" ELSE message[d]]
    /\ UNCHANGED <<messageSeq, ledger, worker, requests, agentVars, faults>>

-----------------------------------------------------------------------------
Next ==
    \/ \E d \in Runs : SubmitTurn(d) \/ Elapse(d) \/ AgentStart(d) \/ AgentFinish(d)
    \/ \E w \in Workers, d \in Runs : Claim(w, d)
    \/ \E w \in Workers : Deliver(w) \/ RefuseLocally(w) \/ GiveUp(w) \/ Crash(w) \/ Settle(w)
    \/ \E r \in requests : AgentAccept(r) \/ AgentReject(r)
    \/ \E c \in Convs : Project(c) \/ DeleteConversation(c)

Spec == Init /\ [][Next]_vars

(***************************************************************************)
(* Dispatchers and projector run on timers that are rearmed for ever, the  *)
(* clock advances, and the Agent answers a connection that stays open and  *)
(* ends what it runs.  Nobody is obliged to submit, delete, refuse or fail.*)
(***************************************************************************)
Fairness ==
    /\ \A d \in Runs : /\ WF_vars(\E w \in Workers : Claim(w, d))
                       /\ WF_vars(Elapse(d))
                       /\ WF_vars(AgentFinish(d))
    /\ \A w \in Workers : /\ WF_vars(Deliver(w))
                          /\ WF_vars(Settle(w))
                          /\ WF_vars(\E r \in requests : WaitsFor(worker[w], r) /\ AgentAccept(r))
    /\ \A c \in Convs : WF_vars(Project(c))

FairSpec == Spec /\ Fairness

-----------------------------------------------------------------------------
(* Properties *)

TypeOK ==
    /\ conversation \in [Convs -> {"active", "deleted"}]
    /\ messageSeq \in [Convs -> Nat]
    /\ outbox \in [Runs -> Row]
    /\ message \in [Runs -> {"absent", "pending", "completed", "failed"}]
    /\ stream \in [Convs -> Stream]
    /\ ledger \in [Convs -> Seq(Frame)]
    /\ cancelled \in SUBSET Runs
    /\ worker \in [Workers -> Ticket \cup {Idle}]
    /\ requests \in SUBSET Request
    /\ agent \in [Runs -> {"none", "admitted", "running", "ended"}]
    /\ agentLog \in [Convs -> Seq(SourceEvent)]
    /\ faults \in 0..MaxFaults

\* The snapshot reader throws CHAT_EXECUTION_HEAD_STATE_INVALID unless the
\* stream's run columns agree with the outbox: nothing is expected without a
\* head, only the head is expected, the head is not terminal, and a started
\* head is the expected one.  No interleaving of claims, settlements and
\* projections makes it throw.
ExecutionHeadValid ==
    \A c \in Convs : conversation[c] = "active" =>
        LET heads == {d \in Runs : ConvOf[d] = c /\ IsHead(outbox, d)} IN
        /\ heads = {} => stream[c].expected = NoRun
        /\ \A d \in heads : /\ stream[c].expected \in {NoRun, d}
                            /\ stream[c].terminal # d
                            /\ stream[c].latest = d => stream[c].expected = d

\* commitProjection throws AGUI_POST_TERMINAL_SOURCE or
\* AGUI_TERMINAL_DISPATCH_MISSING, and so blocks the consumer for good, when
\* an Agent event meets a dispatch in the wrong state.  Every event not yet
\* projected of a live conversation finds its run open, expected by an active
\* stream, whichever of claim, settlement and projection came first.
SourceProjectable ==
    \A c \in Convs : conversation[c] = "active" =>
        \A i \in (stream[c].watermark + 1)..Len(agentLog[c]) :
            /\ outbox[agentLog[c][i].run].status \in {"leased", "retryable", "admitted"}
            /\ stream[c].expected = agentLog[c][i].run
            /\ stream[c].state = "active"

\* None of the exceptions of a state that must not be is reachable: neither the
\* snapshot reader's nor the projection's.
NoStateException == ExecutionHeadValid /\ SourceProjectable

\* A dispatch is failed, and its message with it, only if the Agent neither
\* has the run nor can still get it: no timed-out, crashed or superseded
\* attempt left a request behind.  (admission_unknown_seen is for this.)
FailedNeverAdmitted ==
    \A d \in Runs : outbox[d].status = "failed" =>
        /\ agent[d] = "none"
        /\ \A r \in requests : r.run # d
        /\ \A w \in Workers : worker[w].run = d => worker[w].pc \notin {"claimed", "waiting"}

\* Deleting a conversation leaves no run behind that nobody will cancel: each
\* run the Agent has, or may still receive from a request or a worker
\* that overtakes the deletion, has a cancellation command.
DeletedRunsCancelled ==
    \A d \in Runs : conversation[ConvOf[d]] = "deleted" /\ d \notin cancelled =>
        /\ agent[d] = "none"
        /\ \A r \in requests : r.run # d
        /\ \A w \in Workers : worker[w].run = d => worker[w].pc \notin {"claimed", "waiting"}

\* The claim's first transaction looks for heads whose attempts are used up
\* and whose admission was never in doubt.  There is never one: a row that
\* comes back from a claim has been in doubt.
ExhaustionSweepIdle == \A d \in Runs : ~Exhausted(d)

\* Why FailedNeverAdmitted and DeletedRunsCancelled hold: the inductive
\* invariant of the claims.  A row that was never claimed has no trace outside
\* the database; claims of one row have different fences; each sends at most one
\* request; and a lease that was never in doubt is the row's first claim.
Undoubted(d) == outbox[d].status = "leased" /\ ~outbox[d].unknown

RowsInv ==
    \A d \in Runs :
        /\ outbox[d].status \in {"absent", "pending"} =>
              outbox[d].fence = 0 /\ outbox[d].attempts = 0 /\ ~outbox[d].unknown
        /\ outbox[d].status \in {"leased", "retryable", "admitted", "terminal"} =>
              outbox[d].fence > 0 /\ outbox[d].attempts > 0
        /\ Undoubted(d) => outbox[d].fence = 1
        /\ outbox[d].status = "retryable" => outbox[d].unknown
        /\ agent[d] # "none" => outbox[d].fence > 0
        /\ conversation[ConvOf[d]] = "deleted" /\ d \notin cancelled =>
              outbox[d].status \in {"absent", "failed"}

Unsent(t) == t.pc = "claimed" \/ (t.pc = "answered" /\ t.outcome = "not_admitted")

TicketsInv ==
    /\ \A w \in Workers : worker[w].pc # "idle" =>
          worker[w].fence > 0 /\ worker[w].fence <= outbox[worker[w].run].fence
    /\ \A r \in requests : r.fence > 0 /\ r.fence <= outbox[r.run].fence
    /\ \A v, w \in Workers :
          /\ worker[v].pc # "idle"
          /\ worker[w].pc # "idle"
          /\ worker[v].run = worker[w].run
          /\ worker[v].fence = worker[w].fence
          => v = w
    /\ \A w \in Workers, r \in requests :
          worker[w].pc # "idle" /\ worker[w].run = r.run /\ worker[w].fence = r.fence => ~Unsent(worker[w])

UndoubtedInv ==
    \A d \in Runs : Undoubted(d) =>
        /\ \A r \in requests : r.run = d => agent[d] = "none"
        /\ \A w \in Workers : worker[w].pc # "idle" /\ worker[w].run = d /\ Unsent(worker[w]) =>
              agent[d] = "none" /\ \A r \in requests : r.run # d

ClaimInv == RowsInv /\ TicketsInv /\ UndoubtedInv /\ FailedNeverAdmitted

FrameRank(f) == CASE f.kind = "queued" -> 0 [] f.kind = "started" -> 1 [] OTHER -> 2

Follows(box, f, g) ==
    IF f.run = g.run THEN FrameRank(f) < FrameRank(g)
    ELSE FrameRank(f) = 2 /\ g.kind = "queued" /\ box[f.run].seq < box[g.run].seq

SerialLedger(c) ==
    /\ ledger[c] # <<>> => ledger[c][1].kind = "queued"
    /\ \A i \in 1..(Len(ledger[c]) - 1) : Follows(outbox, ledger[c][i], ledger[c][i + 1])

\* The public ledger of a conversation tells its runs one after the other, in
\* dispatch order, each as queued, perhaps started, and ended; the next run
\* is announced when the one before has ended.  Three transactions of three
\* components write these frames.
LedgerSerial == \A c \in Convs : SerialLedger(c)

\* In a live conversation an assistant message is settled exactly when its
\* dispatch is closed, and it is completed only for a run the Agent ended.
OutcomeAgreement ==
    \A d \in Runs : conversation[ConvOf[d]] = "active" =>
        /\ outbox[d].status \in Closed <=> message[d] \in {"completed", "failed"}
        /\ message[d] = "completed" => agent[d] = "ended"

\* The records of a turn agree: its frames, its message and its dispatch tell of
\* one course of it, and of one end.
TurnRecordsAgree == LedgerSerial /\ OutcomeAgreement

\* Why the other invariants hold: the inductive invariant of the conversation.
\* Sequences are issued once, and no turn that was ever claimed has an open one
\* before it.
FifoInv ==
    /\ \A d \in Runs : outbox[d].seq <= messageSeq[ConvOf[d]]
    /\ \A d, e \in Runs : ConvOf[d] = ConvOf[e] /\ d # e /\ outbox[d].seq = outbox[e].seq =>
          outbox[d].status = "absent" \/ outbox[e].status = "absent"
    /\ \A d, e \in Runs :
          outbox[d].attempts > 0 /\ ConvOf[d] = ConvOf[e] /\ outbox[e].seq < outbox[d].seq =>
              outbox[e].status \in Closed \cup {"absent"}

InFlight == {"leased", "retryable", "admitted"}

\* The stream of a live conversation expects the turn in flight, and its other run
\* columns name turns that were claimed; nothing is submitted to or held in a
\* deleted one.
StreamSound(c) ==
    /\ conversation[c] = "deleted" =>
          /\ stream[c].state = "stopped"
          /\ \A d \in Runs : ConvOf[d] = c => outbox[d].status \notin {"pending", "leased"}
    /\ conversation[c] = "active" =>
          /\ \A d \in Runs : ConvOf[d] = c =>
                /\ outbox[d].status \in InFlight => stream[c].expected = d /\ stream[c].state = "active"
                /\ outbox[d].status = "failed" => outbox[d].attempts > 0
          /\ stream[c].expected # NoRun =>
                ConvOf[stream[c].expected] = c /\ outbox[stream[c].expected].status \in InFlight
          /\ stream[c].terminal # NoRun =>
                ConvOf[stream[c].terminal] = c /\ outbox[stream[c].terminal].status \in Closed
          /\ stream[c].latest # NoRun =>
                ConvOf[stream[c].latest] = c /\ outbox[stream[c].latest].status \in InFlight \cup Closed

\* The Agent's log has at most one start and one end of a run, in this order, and
\* a dispatch is terminal only when the log of its run is projected.
LogSound(c) ==
    /\ stream[c].watermark <= Len(agentLog[c])
    /\ \A i \in 1..Len(agentLog[c]) :
          /\ ConvOf[agentLog[c][i].run] = c
          /\ agent[agentLog[c][i].run] \in {"running", "ended"}
          /\ agentLog[c][i].kind # "started" => agent[agentLog[c][i].run] = "ended"
    /\ \A i, j \in 1..Len(agentLog[c]) : i < j /\ agentLog[c][j].run = agentLog[c][i].run =>
          agentLog[c][i].kind = "started" /\ agentLog[c][j].kind # "started"
    /\ \A d \in Runs : ConvOf[d] = c /\ outbox[d].status = "terminal" =>
          /\ agent[d] = "ended"
          /\ \A i \in 1..Len(agentLog[c]) : agentLog[c][i].run = d => i <= stream[c].watermark

\* The message of an open turn is pending.
MessageInv ==
    /\ OutcomeAgreement
    /\ \A d \in Runs : conversation[ConvOf[d]] = "active" =>
          (outbox[d].status \in Open <=> message[d] = "pending")

\* Every run in the ledger was announced, none but the head's is open, and the
\* head's is the last.
LedgerSound(c) ==
    /\ \A i \in 1..Len(ledger[c]) :
          /\ ConvOf[ledger[c][i].run] = c
          /\ outbox[ledger[c][i].run].status # "absent"
          /\ \E j \in 1..Len(ledger[c]) : ledger[c][j] = [kind |-> "queued", run |-> ledger[c][i].run]
          /\ ledger[c][i].kind = "started" => \E j \in 1..stream[c].watermark : agentLog[c][j] = ledger[c][i]
    /\ conversation[c] = "active" =>
          /\ \A i \in 1..Len(ledger[c]) :
                outbox[ledger[c][i].run].status \in Open => IsHead(outbox, ledger[c][i].run)
          /\ ledger[c] # <<>> => LET last == ledger[c][Len(ledger[c])] IN
                FrameRank(last) = 2 <=> outbox[last.run].status \in Closed
          /\ \A d \in Runs : ConvOf[d] = c /\ IsHead(outbox, d) =>
                ledger[c] # <<>> /\ ledger[c][Len(ledger[c])].run = d

ChatInv ==
    /\ FifoInv
    /\ MessageInv
    /\ \A c \in Convs : StreamSound(c) /\ LogSound(c) /\ LedgerSound(c) /\ SerialLedger(c)

\* A closed dispatch stays as it was closed: no late mark, lease takeover,
\* terminal event or deletion reopens it.
ClosedIsFinal ==
    [][\A d \in Runs : outbox[d].status \in Closed => outbox'[d].status = outbox[d].status]_vars

\* RELIABILITY.md: a worker whose lease was taken over cannot overwrite the
\* result of the new one.
StaleSettlementHarmless ==
    [][\A w \in Workers :
         /\ worker[w].pc = "answered"
         /\ worker'[w].pc = "idle"
         /\ outbox[worker[w].run].fence # worker[w].fence
         => UNCHANGED <<outbox, message, stream, ledger>>]_vars

\* RELIABILITY.md: the runs of a conversation are delivered in order.  When
\* the Agent takes a run, every earlier turn of the conversation is closed,
\* however late the request arrives.
FifoAdmission ==
    [][\A d \in Runs : agent[d] = "none" /\ agent'[d] # "none" =>
         \A e \in Runs : ConvOf[e] = ConvOf[d] /\ outbox[e].seq < outbox[d].seq
                           => outbox[e].status \in Closed \cup {"absent"}]_vars

\* Once faults stop, every submitted turn ends, unless its conversation is
\* deleted: no expired lease, lost answer or stopped consumer wedges it.
EveryTurnCloses ==
    \A d \in Runs : outbox[d].status = "pending" ~>
        (outbox[d].status \in Closed \/ conversation[ConvOf[d]] = "deleted")

=============================================================================
