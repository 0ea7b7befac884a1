----------------------------- MODULE AguiConsumer -----------------------------
(***************************************************************************)
(* The AG-UI projector of one session: the leased, fenced, paged copy of   *)
(* the Agent's event log into the public ledger of kokoro-bff.             *)
(*                                                                         *)
(* A worker claims the session's bff_agui_stream row, reads pages of the   *)
(* Agent's log over HTTP, and commits each page in a transaction that      *)
(* compares the stream's version and its own lease.  Chat turns, dispatch  *)
(* claims, failed dispatches and the deletion of the conversation write    *)
(* the same row between any two of these steps.                            *)
(*                                                                         *)
(* What the outbox does with a dispatch is AgentDispatch's; here a turn is *)
(* queued, claimed (its run registered as expected) or closed.             *)
(***************************************************************************)
EXTENDS Naturals, Sequences, FiniteSets

CONSTANTS
    Runs,              \* chat turns of the session, numbered in dispatch order
    Workers,           \* projector instances
    NoRun,             \* NULL of the run columns
    NoWorker,          \* NULL of consumer_lease_owner
    PageSize,          \* events the Agent returns at most
    MaxPages,          \* pages a claim may read
    MaxCommitAttempts, \* commits an ingest may try
    MaxEvents,         \* BOUND: length of the Agent's log
    MaxFaults,         \* BOUND: failures of any kind in a behaviour
    MaxIdlePolls       \* BOUND: times the stream falls due with nothing to read

ASSUME ConstantsAssumption ==
    /\ Runs \subseteq Nat
    /\ NoRun \notin Runs
    /\ NoWorker \notin Workers
    /\ PageSize \in Nat \ {0}
    /\ MaxPages \in Nat \ {0}
    /\ MaxCommitAttempts \in Nat \ {0}
    /\ MaxEvents \in Nat
    /\ MaxFaults \in Nat
    /\ MaxIdlePolls \in Nat

VARIABLES
    log,       \* the Agent's event log of the session
    stream,    \* bff_agui_stream
    ledger,    \* bff_agui_source_event: source sequences in order of insertion
    dispatch,  \* what the dispatch outbox holds of each turn
    deleted,   \* bff_conversation.status = 'deleted'
    worker,    \* what each projector holds in memory
    refused,   \* fences under which the Agent refused a read for good (history)
    faults,    \* faults spent so far
    idlePolls  \* polls with nothing to read so far

vars == <<log, stream, ledger, dispatch, deleted, worker, refused, faults, idlePolls>>

-----------------------------------------------------------------------------
(* Types *)

Event == [run: Runs, kind: {"start", "end", "trailer"}]

\* `elapsed`: consumer_lease_until lies in the past; `due`: so does
\* consumer_next_poll_at.  Failure count and error columns only set delays.
Stream == [version: Nat, watermark: Nat, expected: Runs \cup {NoRun},
           terminal: Runs \cup {NoRun}, state: {"active", "blocked", "stopped"},
           holder: Workers \cup {NoWorker}, fence: Nat, elapsed: BOOLEAN, due: BOOLEAN]

\* What an ingest read of the stream before it computed its command.
Snapshot == [version: Nat, watermark: Nat, expected: Runs \cup {NoRun},
             terminal: Runs \cup {NoRun}]

Outcomes == {"none", "caught_up", "spent", "retryable", "blocked"}

\* A claim in a worker's memory: at the head of its page loop, with a page to
\* ingest, with a command to commit, or with an outcome to settle.  `after`
\* is its cursor, `to` the last event of the page in hand.
Ticket == [pc: {"paging", "page", "commit", "settle"}, fence: Nat, after: Nat, to: Nat,
           exhausted: BOOLEAN, snap: Snapshot, pages: Nat, attempts: Nat, outcome: Outcomes]

NoSnapshot == [version |-> 0, watermark |-> 0, expected |-> NoRun, terminal |-> NoRun]
Idle == [pc |-> "idle", fence |-> 0, after |-> 0, to |-> 0, exhausted |-> FALSE,
         snap |-> NoSnapshot, pages |-> 0, attempts |-> 0, outcome |-> "none"]

NewStream == [version |-> 0, watermark |-> 0, expected |-> NoRun, terminal |-> NoRun,
              state |-> "active", holder |-> NoWorker, fence |-> 0, elapsed |-> FALSE, due |-> TRUE]

Init ==
    /\ log = <<>>
    /\ stream = NewStream
    /\ ledger = <<>>
    /\ dispatch = [r \in Runs |-> "absent"]
    /\ deleted = FALSE
    /\ worker = [w \in Workers |-> Idle]
    /\ refused = {}
    /\ faults = 0
    /\ idlePolls = 0

Fault == faults < MaxFaults /\ faults' = faults + 1

dbVars == <<stream, ledger, dispatch, deleted>>
boundVars == <<faults, idlePolls>>

-----------------------------------------------------------------------------
(* The chat side of the stream row *)

Has(r, kind) == \E i \in DOMAIN log : log[i] = [run |-> r, kind |-> kind]

\* r is the open dispatch with the lowest sequence.
IsHead(d, r) ==
    /\ d[r] \in {"queued", "claimed"}
    /\ \A q \in Runs : q < r => d[q] \notin {"queued", "claimed"}

\* The queued frame of a head that has none yet is one more version.
QueuedFrame(d) == IF ~deleted /\ \E r \in Runs : IsHead(d, r) /\ d[r] = "queued" THEN 1 ELSE 0

\* Registration without a run: only the poll instant moves.
SubmitTurn(r) ==
    /\ ~deleted
    /\ dispatch[r] = "absent"
    /\ \A q \in Runs : q < r => dispatch[q] # "absent"
    /\ dispatch' = [dispatch EXCEPT ![r] = "queued"]
    /\ stream' = [stream EXCEPT !.due = TRUE,
                                !.version = IF IsHead(dispatch', r) THEN @ + 1 ELSE @]
    /\ UNCHANGED <<log, ledger, deleted, worker, refused, boundVars>>

Unleased(s) == [s EXCEPT !.holder = NoWorker, !.elapsed = FALSE]

\* Mutant: a new run takes over the stream under the old version.
RegisteredSameVersion(s, r) ==
    IF s.expected = r THEN [s EXCEPT !.due = TRUE]
    ELSE [s EXCEPT !.expected = r, !.terminal = NoRun, !.state = "active", !.due = TRUE]

\* Registration of an expected run.  A new one revokes the lease.
Registered(s, r) ==
    IF s.expected = r THEN [s EXCEPT !.due = TRUE]
    ELSE [Unleased(s) EXCEPT !.version = @ + 1, !.fence = @ + 1, !.expected = r,
                             !.terminal = NoRun, !.state = "active", !.due = TRUE]

\* A dispatch worker claims the head, for the first time or again.
ClaimDispatch(r) ==
    /\ ~deleted
    /\ IsHead(dispatch, r)
    /\ dispatch[r] = "queued" \/ ~stream.due
    /\ stream.expected \in {NoRun, r}
    /\ dispatch' = [dispatch EXCEPT ![r] = "claimed"]
    /\ stream' = Registered(stream, r)
    /\ IF dispatch[r] = "queued" THEN UNCHANGED idlePolls
       ELSE idlePolls < MaxIdlePolls /\ idlePolls' = idlePolls + 1
    /\ UNCHANGED <<log, ledger, deleted, worker, refused, faults>>

\* A failed dispatch takes the projection with it.
Failed(s, r) ==
    IF s.expected = r
    THEN [Unleased(s) EXCEPT !.version = @ + 1, !.fence = @ + 1, !.terminal = r,
                             !.expected = NoRun, !.state = "stopped"]
    ELSE [s EXCEPT !.version = @ + 1, !.terminal = IF s.expected = NoRun THEN r ELSE @]

\* The Agent refused the launch, so it never logs an event of r.
FailDispatch(r) ==
    /\ Fault
    /\ ~deleted
    /\ IsHead(dispatch, r)
    /\ dispatch[r] = "claimed"
    /\ \A i \in DOMAIN log : log[i].run # r
    /\ dispatch' = [dispatch EXCEPT ![r] = "closed"]
    /\ LET s == Failed(stream, r) IN
       stream' = [s EXCEPT !.version = @ + QueuedFrame(dispatch')]
    /\ UNCHANGED <<log, ledger, deleted, worker, refused, idlePolls>>

Stopped(s) == [Unleased(s) EXCEPT !.state = "stopped", !.fence = @ + 1]

\* A turn that was never sent is closed with the conversation.
DeleteConversation ==
    /\ ~deleted
    /\ \E r \in Runs : dispatch[r] # "absent"
    /\ deleted' = TRUE
    /\ dispatch' = [r \in Runs |-> IF dispatch[r] = "queued" THEN "closed" ELSE dispatch[r]]
    /\ stream' = Stopped(stream)
    /\ UNCHANGED <<log, ledger, worker, refused, boundVars>>

-----------------------------------------------------------------------------
(* The Agent (external) *)

\* A run starts and ends, or is cancelled before it starts, and may report
\* the use of a skill after its end.
AgentEmit(r, kind) ==
    /\ Len(log) < MaxEvents
    /\ CASE kind = "start"   -> dispatch[r] = "claimed" /\ ~Has(r, "start") /\ ~Has(r, "end")
         [] kind = "end"     -> dispatch[r] = "claimed" /\ ~Has(r, "end")
         [] kind = "trailer" -> Has(r, "end") /\ ~Has(r, "trailer")
    /\ log' = Append(log, [run |-> r, kind |-> kind])
    /\ UNCHANGED <<dbVars, worker, refused, boundVars>>

-----------------------------------------------------------------------------
(* Claim *)

\* Mutant: an expired lease is not taken over.
ClaimableUnleased ==
    /\ ~deleted
    /\ \E r \in Runs : dispatch[r] # "absent"
    /\ stream.state = "active"
    /\ stream.due
    /\ stream.holder = NoWorker

Claimable ==
    /\ ~deleted
    /\ \E r \in Runs : dispatch[r] # "absent"
    /\ stream.state = "active"
    /\ stream.due
    /\ stream.holder = NoWorker \/ stream.elapsed

Claim(w) ==
    /\ worker[w].pc = "idle"
    /\ Claimable
    /\ stream' = [stream EXCEPT !.holder = w, !.fence = @ + 1, !.elapsed = FALSE]
    /\ worker' = [worker EXCEPT ![w] = [Idle EXCEPT !.pc = "paging", !.fence = stream.fence + 1,
                                                    !.after = stream.watermark]]
    /\ UNCHANGED <<log, ledger, dispatch, deleted, refused, boundVars>>

\* The lease match of every statement a worker makes.
Held(w) == stream.holder = w /\ stream.fence = worker[w].fence

-----------------------------------------------------------------------------
(* The page loop: outside any transaction *)

With(w, t) == worker' = [worker EXCEPT ![w] = t]

Outcome(t, o) == [Idle EXCEPT !.pc = "settle", !.fence = t.fence, !.outcome = o]

\* A failed renewal, a spent local budget, or the death of the process.
LoseLease(w) ==
    /\ worker[w].pc # "idle"
    /\ \/ worker[w].pc = "paging" /\ (~Held(w) \/ stream.elapsed \/ stream.state # "active")
          /\ UNCHANGED faults
       \/ Fault
    /\ With(w, Idle)
    /\ UNCHANGED <<log, dbVars, refused, idlePolls>>

\* GET of the next page.  A page ends where its size or the log does.
ReadPage(w) ==
    LET t == worker[w]
        left == Len(log) - t.after
        to == t.after + (IF left < PageSize THEN left ELSE PageSize)
    IN  /\ t.pc = "paging"
        /\ With(w, IF to = t.after THEN Outcome(t, "caught_up")
                   ELSE [t EXCEPT !.pc = "page", !.to = to, !.exhausted = (to = Len(log))])
        /\ UNCHANGED <<log, dbVars, refused, boundVars>>

\* Timeouts, resets, 404, 408, 409, 423, 425, 429 and 5xx, after the retries
\* within the lease.
ReadFails(w) ==
    /\ worker[w].pc = "paging"
    /\ Fault
    /\ With(w, Outcome(worker[w], "retryable"))
    /\ UNCHANGED <<log, dbVars, refused, idlePolls>>

\* 401, 403, 410, any other 4xx, an answer too large, out of contract or with a gap.
ReadRefused(w) ==
    /\ worker[w].pc = "paging"
    /\ Fault
    /\ With(w, Outcome(worker[w], "blocked"))
    /\ refused' = refused \cup {worker[w].fence}
    /\ UNCHANGED <<log, dbVars, idlePolls>>

\* The loop after a page is in the ledger.
Ingested(t) ==
    IF t.exhausted THEN Outcome(t, "caught_up")
    ELSE IF t.pages + 1 = MaxPages THEN Outcome(t, "spent")
         ELSE [t EXCEPT !.pc = "paging", !.after = t.to, !.to = 0, !.exhausted = FALSE,
                        !.snap = NoSnapshot, !.pages = @ + 1, !.attempts = 0]

\* One attempt of an ingest: read the stream, drop what it already has, and
\* compute the command from the rest.
ReadStream(w) ==
    LET t == worker[w]
        snapshot == [version |-> stream.version, watermark |-> stream.watermark,
                     expected |-> stream.expected, terminal |-> stream.terminal]
    IN  /\ t.pc = "page"
        /\ With(w, IF t.attempts = MaxCommitAttempts THEN Outcome(t, "retryable")
                   ELSE IF stream.watermark = t.to THEN Ingested(t)
                   ELSE IF stream.watermark > t.to \/ stream.watermark < t.after
                        THEN Outcome(t, "blocked")
                   ELSE [t EXCEPT !.pc = "commit", !.snap = snapshot])
        /\ UNCHANGED <<log, dbVars, refused, boundVars>>

-----------------------------------------------------------------------------
(* The projection transaction *)

Pending(t) == (t.snap.watermark + 1)..t.to

EndsRun(t, r) == \E i \in Pending(t) : log[i] = [run |-> r, kind |-> "end"]
StartsRun(t, r) == \E i \in Pending(t) : log[i] = [run |-> r, kind |-> "start"]

\* Mutant: only the last event of the page is looked at.
TerminalOfLast(t) ==
    IF log[t.to].kind = "end" /\ log[t.to].run = t.snap.expected THEN t.snap.expected ELSE t.snap.terminal

\* The terminal run of the command, from the snapshot's expected run.
Terminal(t) ==
    IF EndsRun(t, t.snap.expected) THEN t.snap.expected
    ELSE IF StartsRun(t, t.snap.expected) THEN NoRun ELSE t.snap.terminal

SettlesHead(t) == Terminal(t) # NoRun /\ Terminal(t) # stream.terminal

\* What makes the transaction throw: an event that is in the ledger already,
\* an event of a closed turn that is no trailer, and a terminal run whose
\* dispatch is not open.  An event of a run that is not the expected one would
\* pass without moving the run columns; CommitNeverThrows says none comes.
Throws(t) ==
    \/ \E i \in Pending(t), k \in DOMAIN ledger : ledger[k] = i
    \/ \E i \in Pending(t) :
          log[i].kind # "trailer" /\ (dispatch[log[i].run] = "closed" \/ log[i].run # stream.expected)
    \/ SettlesHead(t) /\ dispatch[Terminal(t)] # "claimed"

CommittedStream(t, d) ==
    LET run == Terminal(t) IN
    [stream EXCEPT !.version = @ + 1 + (IF SettlesHead(t) THEN QueuedFrame(d) ELSE 0),
                   !.watermark = t.to,
                   !.terminal = IF run = NoRun \/ @ = run \/ stream.expected \in {NoRun, run} THEN run ELSE @,
                   !.expected = IF run # NoRun /\ @ = run THEN NoRun ELSE @]

Matches(w) == stream.version = worker[w].snap.version

\* Mutant: the commit relies on the version alone.
LeaseMatchesAnyone(w) == stream.state = "active"

LeaseMatches(w) == Held(w) /\ stream.state = "active"

WriteProjection(w) ==
    LET t == worker[w] IN
    /\ t.pc = "commit"
    /\ Matches(w)
    /\ LeaseMatches(w)
    /\ ~Throws(t)
    /\ ~stream.elapsed
    /\ ledger' = ledger \o [i \in 1..(t.to - t.snap.watermark) |-> t.snap.watermark + i]
    /\ dispatch' = IF SettlesHead(t) THEN [dispatch EXCEPT ![Terminal(t)] = "closed"] ELSE dispatch
    /\ stream' = CommittedStream(t, dispatch')
    /\ UNCHANGED <<log, deleted, refused, idlePolls>>

Commit(w) ==
    /\ WriteProjection(w)
    /\ With(w, Ingested(worker[w]))
    /\ UNCHANGED faults

\* The COMMIT is durable but its acknowledgement is lost.
CommitUnknown(w) ==
    /\ WriteProjection(w)
    /\ Fault
    /\ With(w, Outcome(worker[w], "retryable"))

\* Another writer of the stream row came first: read it again.
VersionConflict(w) ==
    /\ worker[w].pc = "commit"
    /\ ~Matches(w)
    /\ With(w, [worker[w] EXCEPT !.pc = "page", !.snap = NoSnapshot, !.attempts = @ + 1])
    /\ UNCHANGED <<log, dbVars, refused, boundVars>>

LeaseConflict(w) ==
    /\ worker[w].pc = "commit"
    /\ Matches(w)
    /\ ~LeaseMatches(w) \/ stream.elapsed
    /\ With(w, Idle)
    /\ UNCHANGED <<log, dbVars, refused, boundVars>>

\* The transaction fails on the database's side.
CommitFails(w) ==
    /\ worker[w].pc \in {"page", "commit"}
    /\ Fault
    /\ With(w, Outcome(worker[w], "retryable"))
    /\ UNCHANGED <<log, dbVars, refused, idlePolls>>

-----------------------------------------------------------------------------
(* Settlement *)

Settles(w) == Held(w) /\ ~stream.elapsed

SettledStream(o) ==
    [Unleased(stream) EXCEPT !.state = IF o = "blocked" THEN "blocked" ELSE "active",
                             !.due = (o = "spent")]

Settle(w) ==
    /\ worker[w].pc = "settle"
    /\ With(w, Idle)
    /\ stream' = IF Settles(w) THEN SettledStream(worker[w].outcome) ELSE stream
    /\ UNCHANGED <<log, ledger, dispatch, deleted, refused, boundVars>>

-----------------------------------------------------------------------------
(* The database clock *)

Working(w) == worker[w].pc # "idle" /\ Held(w)

\* A lease that expires under a worker that is still busy is a fault.
LeaseExpires ==
    /\ stream.holder # NoWorker
    /\ ~stream.elapsed
    /\ IF \E w \in Workers : Working(w) THEN Fault ELSE UNCHANGED faults
    /\ stream' = [stream EXCEPT !.elapsed = TRUE]
    /\ UNCHANGED <<log, ledger, dispatch, deleted, worker, refused, idlePolls>>

\* The poll instant passes, or a reader's GET registers the consumer again.
FallsDue ==
    /\ ~stream.due
    /\ stream.state = "active"
    /\ IF stream.watermark < Len(log) THEN UNCHANGED idlePolls
       ELSE idlePolls < MaxIdlePolls /\ idlePolls' = idlePolls + 1
    /\ stream' = [stream EXCEPT !.due = TRUE]
    /\ UNCHANGED <<log, ledger, dispatch, deleted, worker, refused, faults>>

-----------------------------------------------------------------------------
Next ==
    \/ \E r \in Runs : SubmitTurn(r) \/ ClaimDispatch(r) \/ FailDispatch(r)
    \/ \E r \in Runs, kind \in {"start", "end", "trailer"} : AgentEmit(r, kind)
    \/ \E w \in Workers :
          \/ Claim(w) \/ LoseLease(w) \/ ReadPage(w) \/ ReadFails(w) \/ ReadRefused(w)
          \/ ReadStream(w) \/ Commit(w) \/ CommitUnknown(w) \/ VersionConflict(w)
          \/ LeaseConflict(w) \/ CommitFails(w) \/ Settle(w)
    \/ DeleteConversation \/ LeaseExpires \/ FallsDue

Spec == Init /\ [][Next]_vars

(***************************************************************************)
(* The projectors' timers are rearmed for ever, the database clock         *)
(* advances, and HTTP calls and transactions return.  Faults are never     *)
(* obliged to happen, and neither is anything on the chat side.            *)
(***************************************************************************)
Fairness ==
    /\ WF_vars(\E w \in Workers : Claim(w))
    /\ WF_vars(FallsDue)
    /\ WF_vars(LeaseExpires /\ \A w \in Workers : ~Working(w))
    /\ \A w \in Workers :
          /\ WF_vars(ReadPage(w))
          /\ WF_vars(ReadStream(w))
          /\ WF_vars(Commit(w) \/ VersionConflict(w) \/ LeaseConflict(w))
          /\ WF_vars(Settle(w))

FairSpec == Spec /\ Fairness

-----------------------------------------------------------------------------
(* Properties *)

TypeOK ==
    /\ log \in Seq(Event)
    /\ stream \in Stream
    /\ ledger \in Seq(Nat)
    /\ dispatch \in [Runs -> {"absent", "queued", "claimed", "closed"}]
    /\ deleted \in BOOLEAN
    /\ worker \in [Workers -> Ticket \cup {Idle}]
    /\ refused \in SUBSET Nat
    /\ faults \in 0..MaxFaults
    /\ idlePolls \in 0..MaxIdlePolls

\* The ledger holds the first `watermark` events of the Agent's log, each
\* once, in order, without a gap: no page read before another worker's commit
\* is appended after it.
LedgerIsPrefix ==
    /\ stream.watermark <= Len(log)
    /\ ledger = [i \in 1..stream.watermark |-> i]

\* The optimistic lock of commitProjection is sound: whatever wrote the stream
\* row since, if the version is still the one of the snapshot, so are the
\* columns the command was computed from.
VersionPinsStream ==
    \A w \in Workers : worker[w].pc = "commit" /\ worker[w].snap.version = stream.version =>
        /\ worker[w].snap.watermark = stream.watermark
        /\ worker[w].snap.expected = stream.expected
        /\ worker[w].snap.terminal = stream.terminal

\* A commit that passes the version and the lease never meets a source event
\* it has, an event of a closed turn, or a terminal run that is not open: none
\* of the exceptions of commitProjection can wedge the consumer.
CommitNeverThrows ==
    \A w \in Workers : worker[w].pc = "commit" /\ Matches(w) /\ LeaseMatches(w) => ~Throws(worker[w])

\* A turn is closed by the commit that brings its end and by no other: not by
\* an end computed for another run, nor twice, nor is an end in the ledger
\* without closing its turn.  A closed turn without an end never ran.
ClosedByItsEnd ==
    \A r \in Runs :
        /\ (\E i \in 1..stream.watermark : log[i] = [run |-> r, kind |-> "end"]) => dispatch[r] = "closed"
        /\ dispatch[r] = "closed" =>
              \/ \E i \in 1..stream.watermark : log[i] = [run |-> r, kind |-> "end"]
              \/ \A i \in DOMAIN log : log[i].run # r
        /\ stream.expected = r => dispatch[r] = "claimed" /\ stream.terminal # r

\* The consumer is blocked only because the Agent refused a read of the claim
\* that blocked it.  A page that another worker overtook looks like a gap too,
\* but its worker has lost the lease and cannot block the stream.
BlockedByRefusal == stream.state = "blocked" => stream.fence \in refused

\* A deleted conversation is not projected again: no worker that was busy
\* when it was deleted sets its stream back to active.
DeletedStaysStopped == deleted => stream.state = "stopped"

-----------------------------------------------------------------------------
(* The inductive invariant of the proofs *)

\* A fence in a worker's memory was issued by the stream.  The holder's cursor
\* is the watermark.  A worker about to block the stream was refused a read or
\* does not hold the lease any more.
LeaseInv ==
    /\ \A w \in Workers :
          LET t == worker[w] IN
          /\ t.pc # "idle" => t.fence <= stream.fence
          /\ t.pc \in {"paging", "page", "commit"} /\ Held(w) => t.after = stream.watermark
          /\ t.pc = "settle" /\ t.outcome = "blocked" => t.fence \in refused \/ ~Held(w)
    /\ BlockedByRefusal
    /\ deleted => stream.state = "stopped" /\ stream.holder = NoWorker

\* A cursor lies in the log and so does a page in hand; a command's snapshot
\* lies before the end of its page and has a version the stream once had.
PageInv ==
    \A w \in Workers :
        LET t == worker[w] IN
        /\ t.pc = "paging" => t.after <= Len(log)
        /\ t.pc \in {"page", "commit"} => t.after < t.to /\ t.to <= Len(log)
        /\ t.pc = "commit" => /\ t.snap.watermark < t.to
                              /\ t.snap.version <= stream.version

\* The claimed turn is the expected one.  Outside the ledger there is nothing
\* but its events and the trailers of ended turns.
TurnInv ==
    /\ \A r \in Runs : dispatch[r] = "claimed" <=> stream.expected = r
    /\ \A i \in DOMAIN log :
          /\ dispatch[log[i].run] \in {"claimed", "closed"}
          /\ i > stream.watermark /\ log[i].kind # "trailer" => dispatch[log[i].run] = "claimed"
          /\ log[i].kind = "end" =>
                \A j \in DOMAIN log : j > i /\ log[j].run = log[i].run => log[j].kind = "trailer"

ConsumerInv ==
    LeaseInv /\ PageInv /\ VersionPinsStream /\ LedgerIsPrefix /\ TurnInv /\ ClosedByItsEnd

-----------------------------------------------------------------------------
(* What a step may do, and progress *)

\* DATA_MODEL.md: a worker whose lease was taken over, revoked or has expired
\* neither advances the watermark nor settles the stream.
StaleWorkerHarmless ==
    [][\A w \in Workers :
         /\ worker[w].pc # "idle"
         /\ worker'[w] # worker[w]
         /\ stream.fence # worker[w].fence \/ stream.elapsed
         => UNCHANGED <<stream, ledger, dispatch>>]_vars

\* Every event of the Agent reaches the ledger, unless the stream is blocked
\* or stopped on the way: no expired lease, lost answer, version conflict,
\* page budget or revocation leaves it behind.
CatchesUp ==
    \A n \in 1..MaxEvents :
        Len(log) >= n ~> (stream.watermark >= n \/ stream.state # "active")

\* The projector implements the ledger it promises.
Ledger == INSTANCE SourceLedger WITH projected <- ledger, expected <- stream.expected
ImplementsLedger == Ledger!Spec

=============================================================================
