------------------------------ MODULE AguiStream ------------------------------
(***************************************************************************)
(* The public event stream of one conversation: the frames of its ledger   *)
(* (bff_agui_event), the collection of old ones, and the connections that   *)
(* replay them from a cursor and then follow the ledger.                    *)
(*                                                                         *)
(* A connection asks for one page at a time.  Pages go through a cache of   *)
(* the process: connections with the same cursor share one load, and its    *)
(* answer for a few milliseconds more.  At the head a connection waits in   *)
(* a sleep that all connections of the conversation share.                  *)
(*                                                                         *)
(* Which turn runs when is AgentDispatch's subject; here a transaction      *)
(* appends frames, and what matters is when it began: recorded_at is the    *)
(* beginning of the transaction, public_sequence the order of the commits.  *)
(* The random cursor of a frame is its sequence.  A tombstone only decides   *)
(* how the cursor of a collected frame is refused (410 or 400).             *)
(***************************************************************************)
EXTENDS Naturals, Sequences, FiniteSets

CONSTANTS
    Readers,         \* BOUND: connections, in any order
    PageFrames,      \* replayPageFrames
    BatchSize,       \* gcBatchSize
    Turns,           \* BOUND: chat turns
    MaxFrames,       \* BOUND: frames of the ledger
    MaxEntries       \* BOUND: pages the cache holds at a time

ASSUME ConstantsAssumption ==
    /\ IsFiniteSet(Readers)
    /\ PageFrames \in Nat \ {0}
    /\ BatchSize \in Nat \ {0}
    /\ Turns \in Nat
    /\ MaxFrames \in Nat
    /\ MaxEntries \in Nat \ {0}

VARIABLES
    log,        \* every frame ever written, in the order of public_sequence
    kept,       \* the sequences bff_agui_event still has
    submitted,  \* turns 1..submitted have a dispatch
    cache,      \* AgUiReplayCoordinator.entries, by cursor
    reader      \* the clients' connections

vars == <<log, kept, submitted, cache, reader>>

-----------------------------------------------------------------------------
(* Types *)

\* The cursor NULL, before every frame.
Start == 0
Cursors == 0..MaxFrames

Ends == {"ended", "failed"}
Kinds == {"queued", "started", "text"} \cup Ends

\* `tx` is the first frame of the writing transaction, `after` the last frame
\* that was committed before that transaction began.
Frame == [run: 1..Turns, kind: Kinds, tx: Nat, after: Nat]

\* A replay's result: a page, or one of the two refusals of the cursor.
Page == [kind: {"none", "page", "refused"}, frames: SUBSET Cursors,
         atHead: BOOLEAN, terminal: BOOLEAN]
NoPage == [kind |-> "none", frames |-> {}, atHead |-> FALSE, terminal |-> FALSE]
Refusal == [NoPage EXCEPT !.kind = "refused"]

\* A connection with the last cursor it wrote.
Connection == [pc: {"idle", "drain", "load", "wait", "closed"}, cursor: Cursors]
Idle == [pc |-> "idle", cursor |-> Start]
Closed == [pc |-> "closed", cursor |-> Start]

TypeOK ==
    /\ log \in Seq(Frame)
    /\ Len(log) <= MaxFrames
    /\ kept \subseteq DOMAIN log
    /\ submitted \in 0..Turns
    /\ cache \in [Cursors -> Page]
    /\ reader \in [Readers -> Connection]

Init ==
    /\ log = <<>>
    /\ kept = {}
    /\ submitted = 0
    /\ cache = [c \in Cursors |-> NoPage]
    /\ reader = [r \in Readers |-> Idle]

-----------------------------------------------------------------------------
(* The ledger's writers *)

Told(t, kinds) == \E i \in DOMAIN log : log[i].run = t /\ log[i].kind \in kinds

OpenTurns == {t \in 1..submitted : ~Told(t, Ends)}

IsHead(t) == t \in OpenTurns /\ \A u \in OpenTurns : t <= u

\* A transaction that began after frame `after` was committed, and no later one,
\* appends the frames of turn t and, perhaps, the announcement of turn `next`.
Record(after, t, kinds, next) ==
    LET first == Len(log) + 1
        frame(run, kind) == [run |-> run, kind |-> kind, tx |-> first, after |-> after]
        frames == [k \in 1..Len(kinds) |-> frame(t, kinds[k])]
                  \o IF next = t THEN <<>> ELSE <<frame(next, "queued")>>
    IN  /\ Len(log) + Len(frames) <= MaxFrames
        /\ log' = log \o frames
        /\ kept' = kept \cup (first..(Len(log) + Len(frames)))

\* A chat turn.  The frame that announces it is written when it becomes the
\* head; the transaction compares no version, so it may have waited for the
\* conversation's lock while others committed.
Submit ==
    /\ submitted < Turns
    /\ submitted' = submitted + 1
    /\ IF OpenTurns = {}
       THEN \E after \in 0..Len(log) :
                Record(after, submitted + 1, <<"queued">>, submitted + 1)
       ELSE UNCHANGED <<log, kept>>
    /\ UNCHANGED <<cache, reader>>

\* What one commit may tell of a turn that has not started, and of one that has.
Openings == {<<"started">>, <<"started", "text">>, <<"started", "ended">>, <<"failed">>}
Sequels == {<<"text">>, <<"ended">>, <<"text", "ended">>}
Closes(kinds) == kinds[Len(kinds)] \in Ends

\* A projection's commit, or the failure of a dispatch that was never admitted:
\* the transaction begins after the frames it has read (it compares the stream's
\* version, or holds the lease of a claim that came after them).  The one that
\* closes the head also announces the next head.
Tell(t, kinds) ==
    /\ IsHead(t)
    /\ kinds \in (IF Told(t, {"started"}) THEN Sequels ELSE Openings)
    /\ Record(Len(log), t, kinds, IF Closes(kinds) /\ t < submitted THEN t + 1 ELSE t)
    /\ UNCHANGED <<submitted, cache, reader>>

-----------------------------------------------------------------------------
(* Garbage collection *)

\* Mutant: the announcement of an open turn does not hold frames back.
UnpinnedStarted(i) == \E s \in DOMAIN log : s > i /\ log[s].kind = "started"

\* There is a later RUN_STARTED, and the frame precedes every announcement of
\* an open turn.  (The interactions of an open turn, which also hold frames
\* back, never precede its RUN_STARTED.)
Unpinned(i) ==
    /\ \E s \in DOMAIN log : s > i /\ log[s].kind = "started"
    /\ \A q \in kept : log[q].kind = "queued" /\ log[q].run \in OpenTurns => i < q

InLatestSlice(i) == \A s \in DOMAIN log : s > i => log[s].kind # "started"

\* Every frame of the slice from the latest RUN_STARTED on, announcements aside,
\* belongs to a run that started in it.
SliceComplete ==
    \A i \in kept : InLatestSlice(i) /\ log[i].kind \notin {"queued", "started"} =>
        \E s \in kept : /\ s <= i
                        /\ log[s].kind = "started"
                        /\ log[s].run = log[i].run
                        /\ InLatestSlice(s)

\* Sets that are "recorded before some instant": with a frame go those of its
\* transaction and of every transaction that began before a commit which
\* preceded its own beginning.
RecordedBefore(old) ==
    \A i \in old, j \in DOMAIN log :
        log[j].tx = log[i].tx \/ log[j].after < log[i].after => j \in old

\* The first frames of a set, at most n of them.
IsPrefix(part, whole, n) ==
    /\ part \subseteq whole
    /\ \A i \in part, j \in whole \ part : i < j
    /\ Cardinality(part) <= n

Collectable(old) == {i \in kept \cap old : SliceComplete /\ Unpinned(i)}

\* One transaction turns the first collectable frames into tombstones.
CollectGarbage(old, batch) ==
    /\ RecordedBefore(old)
    /\ batch # {}
    /\ IsPrefix(batch, Collectable(old), BatchSize)
    /\ batch = Collectable(old) \/ Cardinality(batch) = BatchSize
    /\ kept' = kept \ batch
    /\ UNCHANGED <<log, submitted, cache, reader>>

-----------------------------------------------------------------------------
(* Replay *)

\* The page is at the head, and the last run of the conversation is over.
AtHead(frames, c) == Len(log) = c \/ Len(log) \in frames
LastRunOver == submitted > 0 /\ OpenTurns = {}

PagesAfter(following, c) ==
    {[kind |-> "page", frames |-> frames, atHead |-> AtHead(frames, c),
      terminal |-> LastRunOver] :
        frames \in {part \in SUBSET following :
            /\ IsPrefix(part, following, PageFrames)
            /\ following # {} => part # {}}}

\* Mutant: the cursor of a collected frame is taken for a valid one.
PagesUnchecked(c) == PagesAfter({i \in kept : i > c}, c)

\* What the replay query can return for a cursor: one statement, one snapshot.
\* The page's byte budget may end it after any frame but the first.
Pages(c) ==
    IF c # Start /\ c \notin kept THEN {Refusal}
    ELSE PagesAfter({i \in kept : i > c}, c)

Open(r) == reader[r].pc \notin {"idle", "closed"}

\* A request for the stream, with its Last-Event-ID: any cursor
\* the client was ever given, or none.
Connect(r, c) ==
    /\ reader[r].pc = "idle"
    /\ c <= Len(log)
    /\ reader' = [reader EXCEPT ![r] = [pc |-> "drain", cursor |-> c]]
    /\ UNCHANGED <<log, kept, submitted, cache>>

\* What a connection does with the page of its cursor c.  It writes the page and
\* asks for the next one, or waits at the head; or it ends: the cursor is refused,
\* the last run is over, the writer's budget is spent, the client has gone, the
\* projection is blocked or the projector is not configured.  Until its next
\* request nobody can tell when it did so.
Outcomes(page, c) ==
    {Closed} \cup
    {[pc |-> IF page.atHead THEN "wait" ELSE "drain", cursor |-> last] :
        last \in {x \in page.frames \cup {c} :
            /\ page.kind = "page"
            /\ ~(page.atHead /\ page.terminal)
            /\ \A y \in page.frames : y <= x}}

\* AgUiReplayCoordinator.replay: a page that was loaded a moment ago is shared ...
TakeCached(r) ==
    LET c == reader[r].cursor IN
    /\ reader[r].pc = "drain"
    /\ cache[c] # NoPage
    /\ \E next \in Outcomes(cache[c], c) : reader' = [reader EXCEPT ![r] = next]
    /\ UNCHANGED <<log, kept, submitted, cache>>

\* ... otherwise the connection begins a load, or joins the one in flight.
AwaitLoad(r) ==
    /\ reader[r].pc = "drain"
    /\ cache[reader[r].cursor] = NoPage
    /\ reader' = [reader EXCEPT ![r].pc = "load"]
    /\ UNCHANGED <<log, kept, submitted, cache>>

Loading(c) == {r \in Readers : reader[r].pc = "load" /\ reader[r].cursor = c}

Cached == {c \in Cursors : cache[c] # NoPage}

\* The load of a cursor's page ends: every connection that awaits it has the page,
\* and the cache keeps it.  Of the other entries at most MaxEntries - 1 have not
\* expired by then.
Load(c) ==
    /\ Loading(c) # {}
    /\ \E page \in Pages(c), stay \in SUBSET (Cached \ {c}) :
        /\ Cardinality(stay) < MaxEntries
        /\ cache' = [d \in Cursors |-> IF d = c THEN page
                                       ELSE IF d \in stay THEN cache[d] ELSE NoPage]
        /\ \E next \in [Loading(c) -> Outcomes(page, c)] :
              reader' = [r \in Readers |-> IF r \in Loading(c) THEN next[r] ELSE reader[r]]
    /\ UNCHANGED <<log, kept, submitted>>

\* The load fails: every connection that awaits it ends, nothing is cached.
LoadFails(c) ==
    /\ Loading(c) # {}
    /\ reader' = [r \in Readers |-> IF r \in Loading(c) THEN Closed ELSE reader[r]]
    /\ UNCHANGED <<log, kept, submitted, cache>>

\* Mutant: the page at the head stays until another page is asked for.
ExpireBehind(c) ==
    /\ cache[c] # NoPage
    /\ ~cache[c].atHead
    /\ cache' = [cache EXCEPT ![c] = NoPage]
    /\ UNCHANGED <<log, kept, submitted, reader>>

\* cacheTtlMs after the load.
Expire(c) ==
    /\ cache[c] # NoPage
    /\ cache' = [cache EXCEPT ![c] = NoPage]
    /\ UNCHANGED <<log, kept, submitted, reader>>

Waiting == {r \in Readers : reader[r].pc = "wait"}

\* AgUiLedgerWaitCoordinator: the sleep that all waiting connections share ends.
Wake ==
    /\ Waiting # {}
    /\ reader' = [r \in Readers |-> IF r \in Waiting THEN [reader[r] EXCEPT !.pc = "drain"]
                                    ELSE reader[r]]
    /\ UNCHANGED <<log, kept, submitted, cache>>

-----------------------------------------------------------------------------
Next ==
    \/ Submit
    \/ \E t \in 1..Turns, kinds \in Openings \cup Sequels : Tell(t, kinds)
    \/ \E old \in SUBSET DOMAIN log : \E batch \in SUBSET Collectable(old) :
            CollectGarbage(old, batch)
    \/ \E r \in Readers, c \in Cursors : Connect(r, c)
    \/ \E r \in Readers : TakeCached(r) \/ AwaitLoad(r)
    \/ \E c \in Cursors : Load(c) \/ LoadFails(c) \/ Expire(c)
    \/ Wake

Spec == Init /\ [][Next]_vars

\* The process runs its promises and its timers: a connection's code goes on, a
\* load ends, an entry expires, the sleep ends.  Nothing is assumed of the
\* ledger's writers, of the collector or of the clients.
Fairness ==
    /\ \A r \in Readers : WF_vars(TakeCached(r) \/ AwaitLoad(r))
    /\ \A c \in Cursors : WF_vars(Load(c) \/ LoadFails(c)) /\ WF_vars(Expire(c))
    /\ WF_vars(Wake)

FairSpec == Spec /\ Fairness

-----------------------------------------------------------------------------
(* Properties *)

\* Every transaction began after the commits its frames follow.
Timely == \A i \in DOMAIN log : log[i].after + 1 = log[i].tx

GapFree(frames) ==
    \A i, j \in frames : \A k \in i..j : k \in frames

\* A page has no hole, and the page of a cursor begins right after it.
Contiguous(page, c) ==
    /\ GapFree(page.frames)
    /\ c # Start /\ page.frames # {} => c + 1 \in page.frames

\* The page that connections write, and may take from the cache, omits no frame
\* after its cursor: a cursor whose successor has been collected is refused
\* instead (agui-projection-repository.ts:619-755 with
\* agui-consumer-repository.ts:413-508).  Frames go by the time their transaction
\* began, pages by public sequence: the two orders agree when no transaction
\* began before the commits it follows.
OrderedLossless ==
    Timely => \A c \in Cursors : Contiguous(cache[c], c)

\* The collector takes no frame of a turn that is still open, however its
\* announcement, its start and the starts of other turns are interleaved
\* (agui-consumer-repository.ts:411-430, "preserving live queued pins").
OpenTurnKept ==
    \A i \in DOMAIN log : log[i].run \in OpenTurns => i \in kept

\* A reader can be served every frame: those after its cursor, and those of the
\* turns that are open, whichever transactions overlap.
LedgerServed == OrderedLossless /\ OpenTurnKept

\* A page that is not at the head has frames: `continue` in drainLedger
\* (http/routes/agent.ts:136) always has a new cursor to ask with, whatever was
\* collected under it.
ReplayProgress ==
    \A c \in 0..Len(log) : \A page \in Pages(c) :
        page.kind = "page" /\ ~page.atHead => page.frames # {}

\* A connection never stays behind the ledger: it ends or has written every frame,
\* again and again, though it may join a sleep that began before a commit or take
\* a page that was loaded before it (session-runtime.ts:125-140, 190-205).
ReaderCatchesUp ==
    \A r \in Readers : []<>(Open(r) => reader[r].cursor = Len(log))
=============================================================================
