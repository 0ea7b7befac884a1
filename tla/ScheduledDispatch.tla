-------------------------- MODULE ScheduledDispatch --------------------------
(***************************************************************************)
(* The runs of a scheduled task, one after the other.                      *)
(*                                                                         *)
(* An accepted occurrence is a row of bff_scheduled_agent_dispatch.  The    *)
(* scope of the task (bff_scheduled_agent_scope) names the one that is     *)
(* active: dispatchers claim it under a lease, POST it to the Agent        *)
(* outside any transaction and settle it by what they heard; a consumer    *)
(* reads the Agent's session log page by page under a lease of the scope   *)
(* and frees the scope when the active run has ended and the log is read.  *)
(*                                                                         *)
(* Every transaction locks the scope, then the dispatch, so each is one    *)
(* action.  A claim is owner, token and fence in the code; a dispatcher or *)
(* reader works on one claim at a time, so here its name is the claim.     *)
(* Tasks share nothing: there is one.                                      *)
(***************************************************************************)
EXTENDS Naturals, Sequences

CONSTANTS
    Occurrences,  \* numbered in the order of their occurrence_order_key
    Workers,      \* executions of the dispatcher
    Readers,      \* executions of the terminal consumer
    NoWorker,     \* NULL of lease_owner
    NoReader,     \* NULL of consumer_lease_owner
    PageSize,     \* limit of a page of the Agent's log
    MaxAttempts,  \* the dispatcher's attempt budget
    MaxNoise,     \* BOUND: events of the log that end no run
    MaxFaults     \* BOUND: timeouts, crashes, refusals, late expiries, spent budgets

\* NULL of active_dispatch_id and active_run_id, and the run of an event that
\* belongs to no occurrence.
NoOccurrence == 0

ASSUME ConstantsAssumption ==
    /\ Occurrences \subseteq Nat \ {0}
    /\ NoWorker \notin Workers
    /\ NoReader \notin Readers
    /\ PageSize \in Nat \ {0}
    /\ MaxAttempts \in Nat \ {0}
    /\ MaxNoise \in Nat
    /\ MaxFaults \in Nat

VARIABLES
    scope,     \* the row of bff_scheduled_agent_scope
    dispatch,  \* bff_scheduled_agent_dispatch
    worker,    \* what each dispatcher holds in memory
    reader,    \* what each terminal consumer holds in memory
    requests,  \* POST /v1/runs requests on their way to the Agent
    agent,     \* what the Agent did with each run
    log,       \* the Agent's event log of the session
    faults     \* faults spent so far

vars == <<scope, dispatch, worker, reader, requests, agent, log, faults>>

-----------------------------------------------------------------------------
(* Types *)

Open == {"pending", "leased", "retryable", "admitted"}
Closed == {"terminal", "failed"}

\* `elapsed`: the instant in available_at (pending, retryable) or lease_until
\* (leased) has passed.  `attempts` is only compared with the budget and stops
\* there.
Row == [status: Open \cup Closed \cup {"absent"}, unknown: BOOLEAN,
        attempts: 0..MaxAttempts, holder: Workers \cup {NoWorker}, elapsed: BOOLEAN]

AbsentRow == [status |-> "absent", unknown |-> FALSE, attempts |-> 0,
              holder |-> NoWorker, elapsed |-> FALSE]

\* `due`: consumer_next_poll_at has passed; `elapsed`: consumer_lease_until has.
Scope == [active: Occurrences \cup {NoOccurrence}, watermark: Nat,
          reader: Readers \cup {NoReader}, elapsed: BOOLEAN, due: BOOLEAN]

Event == [run: Occurrences \cup {NoOccurrence}, last: BOOLEAN]

Idle == [pc |-> "idle", run |-> NoOccurrence, outcome |-> "none"]
Ticket == [pc: {"claimed", "waiting", "answered"}, run: Occurrences,
           outcome: {"none", "admitted", "not_admitted", "unknown"}]

\* A page is the part of the log after `after` up to `upto`.
Resting == [pc |-> "idle", after |-> 0, upto |-> 0, exhausted |-> FALSE]
Reading == [pc: {"claimed", "read", "failed"}, after: Nat, upto: Nat, exhausted: BOOLEAN]

\* A request whose sender does not listen any more is from nobody.
Request == [run: Occurrences, from: Workers \cup {NoWorker}]

TypeOK ==
    /\ scope \in Scope
    /\ dispatch \in [Occurrences -> Row]
    /\ worker \in [Workers -> Ticket \cup {Idle}]
    /\ reader \in [Readers -> Reading \cup {Resting}]
    /\ requests \subseteq Request
    /\ agent \in [Occurrences -> {"none", "running", "ended"}]
    /\ log \in Seq(Event)
    /\ faults \in 0..MaxFaults

Init ==
    /\ scope = [active |-> NoOccurrence, watermark |-> 0, reader |-> NoReader,
                elapsed |-> FALSE, due |-> TRUE]
    /\ dispatch = [o \in Occurrences |-> AbsentRow]
    /\ worker = [w \in Workers |-> Idle]
    /\ reader = [k \in Readers |-> Resting]
    /\ requests = {}
    /\ agent = [o \in Occurrences |-> "none"]
    /\ log = <<>>
    /\ faults = 0

Fault == faults < MaxFaults /\ faults' = faults + 1

-----------------------------------------------------------------------------
(* Acceptance and claim *)

\* The part of `accept` that writes here: the occurrence is queued, due at
\* once, whatever is active and whatever came before it.
Accept(o) ==
    /\ dispatch[o].status = "absent"
    /\ dispatch' = [dispatch EXCEPT ![o].status = "pending", ![o].elapsed = TRUE]
    /\ UNCHANGED <<scope, worker, reader, requests, agent, log, faults>>

\* Due, or a lease that ran out.
Due(o) == dispatch[o].status \in {"pending", "retryable", "leased"} /\ dispatch[o].elapsed

InBudget(row) == row.attempts < MaxAttempts \/ row.unknown \/ row.status = "leased"

\* Mutant: whatever is due is taken, active or not.
TargetAnyDue(o) == Due(o)

\* The row a claim takes: the active one, or, in a free scope, the earliest
\* open one.
Target(o) ==
    IF scope.active # NoOccurrence THEN o = scope.active
    ELSE /\ dispatch[o].status \in Open
         /\ \A p \in Occurrences : dispatch[p].status \in Open => o <= p

\* Mutant: a takeover does not record that the former holder may have sent.
ClaimedForgetful(row, w) ==
    [row EXCEPT !.status = "leased",
                !.attempts = IF @ < MaxAttempts THEN @ + 1 ELSE @,
                !.holder = w, !.elapsed = FALSE]

Claimed(row, w) ==
    [row EXCEPT !.status = "leased",
                !.unknown = row.unknown \/ row.status = "leased",
                !.attempts = IF @ < MaxAttempts THEN @ + 1 ELSE @,
                !.holder = w, !.elapsed = FALSE]

Claim(w, o) ==
    /\ worker[w].pc = "idle"
    /\ Target(o)
    /\ Due(o)
    /\ InBudget(dispatch[o])
    /\ dispatch' = [dispatch EXCEPT ![o] = Claimed(@, w)]
    /\ scope' = [scope EXCEPT !.active = o]
    /\ worker' = [worker EXCEPT ![w] = [pc |-> "claimed", run |-> o, outcome |-> "none"]]
    /\ UNCHANGED <<reader, requests, agent, log, faults>>

-----------------------------------------------------------------------------
(* Delivery: outside any transaction *)

Answered(t, outcome) == [t EXCEPT !.pc = "answered", !.outcome = outcome]

\* Nobody waits for the requests of w any more.
Orphaned(w) == {[r EXCEPT !.from = IF @ = w THEN NoWorker ELSE @] : r \in requests}

Deliver(w) ==
    /\ worker[w].pc = "claimed"
    /\ worker' = [worker EXCEPT ![w].pc = "waiting"]
    /\ requests' = requests \cup {[run |-> worker[w].run, from |-> w]}
    /\ UNCHANGED <<scope, dispatch, reader, agent, log, faults>>

\* The Agent is not configured, or the stored launch does not parse.
RefuseLocally(w) ==
    /\ worker[w].pc = "claimed"
    /\ Fault
    /\ worker' = [worker EXCEPT ![w] = Answered(@, "not_admitted")]
    /\ UNCHANGED <<scope, dispatch, reader, requests, agent, log>>

\* The POST times out, is reset, or is answered 408, 425, 429, 5xx or an
\* unreadable 2xx.  The request may still arrive.
GiveUp(w) ==
    /\ worker[w].pc = "waiting"
    /\ Fault
    /\ worker' = [worker EXCEPT ![w] = Answered(@, "unknown")]
    /\ requests' = Orphaned(w)
    /\ UNCHANGED <<scope, dispatch, reader, agent, log>>

\* The process dies, or a transaction of the execution fails.
Crash(w) ==
    /\ worker[w].pc # "idle"
    /\ Fault
    /\ worker' = [worker EXCEPT ![w] = Idle]
    /\ requests' = Orphaned(w)
    /\ UNCHANGED <<scope, dispatch, reader, agent, log>>

-----------------------------------------------------------------------------
(* Settlement *)

\* The row still has the claim of w, lapsed or not.
Holds(w) == dispatch[worker[w].run].status = "leased" /\ dispatch[worker[w].run].holder = w

Unleased(row, status) == [row EXCEPT !.status = status, !.holder = NoWorker, !.elapsed = FALSE]

\* The lease budget was spent before the request left.  Neither the doubt nor
\* the active row changes; the attempt stays counted.
ReleaseNeverSent(w) ==
    LET o == worker[w].run IN
    /\ worker[w].pc = "claimed"
    /\ Fault
    /\ dispatch' = IF Holds(w) THEN [dispatch EXCEPT ![o] = Unleased(@, "retryable")] ELSE dispatch
    /\ worker' = [worker EXCEPT ![w] = Idle]
    /\ UNCHANGED <<scope, reader, requests, agent, log>>

Settles(w, outcome) ==
    /\ worker[w].pc = "answered"
    /\ worker[w].outcome = outcome
    /\ Holds(w)
    /\ ~dispatch[worker[w].run].elapsed

Settled(w, row) ==
    /\ dispatch' = [dispatch EXCEPT ![worker[w].run] = row]
    /\ worker' = [worker EXCEPT ![w] = Idle]
    /\ UNCHANGED <<reader, requests, agent, log, faults>>

MarkAdmitted(w) ==
    /\ Settles(w, "admitted")
    /\ Settled(w, Unleased(dispatch[worker[w].run], "admitted"))
    /\ UNCHANGED scope

MarkUnknown(w) ==
    /\ Settles(w, "unknown")
    /\ Settled(w, [Unleased(dispatch[worker[w].run], "retryable") EXCEPT !.unknown = TRUE])
    /\ UNCHANGED scope

\* Mutant: a refusal settles the row whatever was sent before.
RefusedAlways(row) == Unleased(row, "failed")

\* A refusal of this attempt says nothing of an earlier one.
Refused(row) == Unleased(row, IF row.unknown THEN "retryable" ELSE "failed")

\* A failed dispatch frees the scope.
MarkNotAdmitted(w) ==
    LET o == worker[w].run
        row == Refused(dispatch[o])
    IN  /\ Settles(w, "not_admitted")
        /\ Settled(w, row)
        /\ scope' = IF row.status = "failed" /\ scope.active = o
                    THEN [scope EXCEPT !.active = NoOccurrence] ELSE scope

\* The claim is gone: the settlement matches no row.
DropSettlement(w) ==
    /\ worker[w].pc = "answered"
    /\ ~(Holds(w) /\ ~dispatch[worker[w].run].elapsed)
    /\ worker' = [worker EXCEPT ![w] = Idle]
    /\ UNCHANGED <<scope, dispatch, reader, requests, agent, log, faults>>

\* A backoff ends or a lease runs out; under a worker still at it the latter
\* is a fault.
Elapse(o) ==
    /\ dispatch[o].status \in {"retryable", "leased"}
    /\ ~dispatch[o].elapsed
    /\ IF \E w \in Workers : worker[w].pc # "idle" /\ worker[w].run = o /\ Holds(w)
       THEN Fault ELSE UNCHANGED faults
    /\ dispatch' = [dispatch EXCEPT ![o].elapsed = TRUE]
    /\ UNCHANGED <<scope, worker, reader, requests, agent, log>>

-----------------------------------------------------------------------------
(* The Agent (external) *)

\* The sender hears the answer if it still waits.
Reply(r, outcome) ==
    worker' = [w \in Workers |-> IF w = r.from THEN Answered(worker[w], outcome) ELSE worker[w]]

\* POST /v1/runs is idempotent by run id.
AgentAccept(r) ==
    /\ r \in requests
    /\ requests' = requests \ {r}
    /\ agent' = [agent EXCEPT ![r.run] = IF @ = "none" THEN "running" ELSE @]
    /\ Reply(r, "admitted")
    /\ UNCHANGED <<scope, dispatch, reader, log, faults>>

\* Another 4xx.  It says nothing of an earlier request of the same run.
AgentReject(r) ==
    /\ r \in requests
    /\ Fault
    /\ requests' = requests \ {r}
    /\ Reply(r, "not_admitted")
    /\ UNCHANGED <<scope, dispatch, reader, agent, log>>

\* The last event of a run: run.completed or run.failed.  A scheduled run has
\* no Skills, so nothing follows it.
AgentEnd(o) ==
    /\ agent[o] = "running"
    /\ agent' = [agent EXCEPT ![o] = "ended"]
    /\ log' = Append(log, [run |-> o, last |-> TRUE])
    /\ UNCHANGED <<scope, dispatch, worker, reader, requests, faults>>

\* Any other event, of a running run or of none of the task's runs.
AgentEmit(o) ==
    /\ o = NoOccurrence \/ o \in {p \in Occurrences : agent[p] = "running"}
    /\ Len(SelectSeq(log, LAMBDA e : ~e.last)) < MaxNoise
    /\ log' = Append(log, [run |-> o, last |-> FALSE])
    /\ UNCHANGED <<scope, dispatch, worker, reader, requests, agent, faults>>

-----------------------------------------------------------------------------
(* The terminal consumer *)

\* Mutant: an ended dispatch is not polled.
PolledOpen(o) == dispatch[o].status \in {"leased", "retryable", "admitted"}

\* An ended dispatch is polled until its scope is free.
Polled(o) == dispatch[o].status \in {"leased", "retryable", "admitted", "terminal"}

ClaimConsumer(k) ==
    /\ reader[k].pc = "idle"
    /\ scope.active # NoOccurrence
    /\ Polled(scope.active)
    /\ scope.reader = NoReader \/ scope.elapsed
    /\ scope.due
    /\ scope' = [scope EXCEPT !.reader = k, !.elapsed = FALSE]
    /\ reader' = [reader EXCEPT ![k] = [pc |-> "claimed", after |-> scope.watermark,
                                        upto |-> scope.watermark, exhausted |-> FALSE]]
    /\ UNCHANGED <<dispatch, worker, requests, agent, log, faults>>

\* A page ends at its limit or at the end of the log.
ReadPage(k) ==
    LET after == reader[k].after
        upto == IF Len(log) < after + PageSize THEN Len(log) ELSE after + PageSize
    IN  /\ reader[k].pc = "claimed"
        /\ reader' = [reader EXCEPT ![k] = [pc |-> "read", after |-> after, upto |-> upto,
                                            exhausted |-> upto = Len(log)]]
        /\ UNCHANGED <<scope, dispatch, worker, requests, agent, log, faults>>

\* The read fails, or its budget was spent before it began.
ReadFails(k) ==
    /\ reader[k].pc = "claimed"
    /\ Fault
    /\ reader' = [reader EXCEPT ![k].pc = "failed"]
    /\ UNCHANGED <<scope, dispatch, worker, requests, agent, log>>

\* Mutant: that someone has a claim, not who or where they began to read.
PageFitsAnyone(k) == scope.reader # NoReader /\ ~scope.elapsed

\* What commitSourcePage compares before anything else.
PageFits(k) == scope.reader = k /\ ~scope.elapsed /\ scope.watermark = reader[k].after

Page(k) == (reader[k].after + 1)..reader[k].upto

OfActive(i) == scope.active # NoOccurrence /\ log[i].run = scope.active

EndsActive(k) == \E i \in Page(k) : OfActive(i) /\ log[i].last

AlreadyEnded == scope.active # NoOccurrence /\ dispatch[scope.active].status = "terminal"

\* An event of the active run after its last one makes the transaction throw.
PageThrows(k) ==
    \E i \in Page(k) : OfActive(i) /\ (AlreadyEnded \/ \E j \in Page(k) : j < i /\ OfActive(j) /\ log[j].last)

\* Mutant: the scope is free once its log is read.
FreesExhausted(k) == reader[k].exhausted

\* The active run has ended and nothing is left to read.
Frees(k) == (EndsActive(k) \/ AlreadyEnded) /\ reader[k].exhausted

\* The end of the active run finds its dispatch open.
Settleable(k) == EndsActive(k) => dispatch[scope.active].status \in {"leased", "retryable", "admitted"}

\* A COMMIT whose acknowledgement is lost is this action too: the release that
\* follows matches no lease.
CommitPage(k) ==
    /\ reader[k].pc = "read"
    /\ PageFits(k)
    /\ ~PageThrows(k)
    /\ Settleable(k)
    /\ dispatch' = IF EndsActive(k)
                   THEN [dispatch EXCEPT ![scope.active] = Unleased(@, "terminal")] ELSE dispatch
    /\ scope' = [scope EXCEPT !.watermark = reader[k].upto,
                              !.active = IF Frees(k) THEN NoOccurrence ELSE @,
                              !.reader = NoReader, !.elapsed = FALSE,
                              !.due = ~reader[k].exhausted]
    /\ reader' = [reader EXCEPT ![k] = Resting]
    /\ UNCHANGED <<worker, requests, agent, log, faults>>

\* Rolled back: the claim is gone, the cursor has moved, or the dispatch is not
\* open.
DropPage(k) ==
    /\ reader[k].pc = "read"
    /\ ~(PageFits(k) /\ (PageThrows(k) \/ Settleable(k)))
    /\ reader' = [reader EXCEPT ![k] = Resting]
    /\ UNCHANGED <<scope, dispatch, worker, requests, agent, log, faults>>

\* The transaction throws, at an event it refuses or by a fault.
CommitFails(k) ==
    /\ reader[k].pc = "read"
    /\ IF PageFits(k) /\ PageThrows(k) THEN UNCHANGED faults ELSE Fault
    /\ reader' = [reader EXCEPT ![k].pc = "failed"]
    /\ UNCHANGED <<scope, dispatch, worker, requests, agent, log>>

\* A lease that is still its own is given back with a delay.
ReleaseConsumer(k) ==
    /\ reader[k].pc = "failed"
    /\ scope' = IF scope.reader = k /\ ~scope.elapsed
                THEN [scope EXCEPT !.reader = NoReader, !.due = FALSE] ELSE scope
    /\ reader' = [reader EXCEPT ![k] = Resting]
    /\ UNCHANGED <<dispatch, worker, requests, agent, log, faults>>

ReaderCrash(k) ==
    /\ reader[k].pc # "idle"
    /\ Fault
    /\ reader' = [reader EXCEPT ![k] = Resting]
    /\ UNCHANGED <<scope, dispatch, worker, requests, agent, log>>

\* consumer_lease_until passes; under a reader still at it this is a fault.
ReaderElapses ==
    /\ scope.reader # NoReader
    /\ ~scope.elapsed
    /\ IF reader[scope.reader].pc # "idle" THEN Fault ELSE UNCHANGED faults
    /\ scope' = [scope EXCEPT !.elapsed = TRUE]
    /\ UNCHANGED <<dispatch, worker, reader, requests, agent, log>>

\* consumer_next_poll_at passes.
PollDue ==
    /\ ~scope.due
    /\ scope' = [scope EXCEPT !.due = TRUE]
    /\ UNCHANGED <<dispatch, worker, reader, requests, agent, log, faults>>

-----------------------------------------------------------------------------
(* Specification *)

WorkerStep(w) ==
    \/ \E o \in Occurrences : Claim(w, o)
    \/ Deliver(w)
    \/ MarkAdmitted(w)
    \/ MarkUnknown(w)
    \/ MarkNotAdmitted(w)
    \/ DropSettlement(w)

WorkerFault(w) ==
    \/ RefuseLocally(w)
    \/ GiveUp(w)
    \/ ReleaseNeverSent(w)
    \/ Crash(w)

ReaderStep(k) ==
    \/ ClaimConsumer(k)
    \/ ReadPage(k)
    \/ CommitPage(k)
    \/ DropPage(k)
    \/ ReleaseConsumer(k)

ReaderFault(k) ==
    \/ ReadFails(k)
    \/ CommitFails(k)
    \/ ReaderCrash(k)

Next ==
    \/ \E o \in Occurrences : Accept(o) \/ Elapse(o) \/ AgentEnd(o)
    \/ \E o \in Occurrences \cup {NoOccurrence} : AgentEmit(o)
    \/ \E w \in Workers : WorkerStep(w) \/ WorkerFault(w)
    \/ \E r \in requests : AgentAccept(r) \/ AgentReject(r)
    \/ \E k \in Readers : ReaderStep(k) \/ ReaderFault(k)
    \/ ReaderElapses
    \/ PollDue

Spec == Init /\ [][Next]_vars

\* Timers poll and calls have timeouts, so every execution goes on while its
\* process lives; the database's clock advances; the Agent answers who waits
\* and ends its runs.
Fairness ==
    /\ \A w \in Workers : WF_vars(WorkerStep(w))
    /\ \A k \in Readers : WF_vars(ReaderStep(k))
    /\ \A o \in Occurrences : WF_vars(Elapse(o)) /\ WF_vars(AgentEnd(o))
    /\ \A r \in [run: Occurrences, from: Workers] : WF_vars(AgentAccept(r))
    /\ WF_vars(ReaderElapses)
    /\ WF_vars(PollDue)

FairSpec == Spec /\ Fairness

-----------------------------------------------------------------------------
(* Properties *)

\* A failed dispatch has no run and will have none: nothing of it is on its
\* way, and nobody is about to send it (markNotAdmitted fails a row only if no
\* earlier attempt can have reached the Agent).
FailedNeverAdmitted ==
    \A o \in Occurrences : dispatch[o].status = "failed" =>
        /\ agent[o] = "none"
        /\ \A r \in requests : r.run # o
        /\ \A w \in Workers : worker[w].run # o

\* Two occurrences of a task never run at the Agent at the same time, whatever
\* was repeated, refused, lost or taken over (docs/TECHNICAL_DESIGN.md:2130).
RunsOneAtATime ==
    \A o, p \in Occurrences : agent[o] = "running" /\ agent[p] = "running" => o = p

\* The scope is free only when every run the Agent ever had is over, settled,
\* and read to its end.
FreeMeansDrained ==
    scope.active = NoOccurrence =>
        \A o \in Occurrences : agent[o] # "none" =>
            /\ agent[o] = "ended"
            /\ dispatch[o].status = "terminal"
            /\ \A i \in DOMAIN log : log[i].run = o => i <= scope.watermark

\* A scope's runs follow one another, each told to its end before the next.
ScopeSerial == RunsOneAtATime /\ FreeMeansDrained

\* The page of a live claim commits: it brings no event after the active run's
\* end, and the end finds the dispatch open.  Otherwise the scope would stay
\* locked for ever.
PageCommits ==
    \A k \in Readers : reader[k].pc = "read" /\ PageFits(k) =>
        ~PageThrows(k) /\ Settleable(k)

\* Settled dispatches stay settled, and an active one is replaced by none but
\* itself until then: neither a late answer nor a late page nor an earlier
\* occurrence that arrives late changes that.
ActiveUntilSettled ==
    [][/\ \A o \in Occurrences : dispatch[o].status \in Closed => dispatch'[o].status = dispatch[o].status
       /\ scope.active # NoOccurrence /\ scope'.active # scope.active =>
             scope'.active = NoOccurrence /\ dispatch'[scope.active].status \in Closed]_vars

\* Given back before anything was sent until the budget was gone.
Stranded(o) ==
    /\ dispatch[o].status = "retryable"
    /\ dispatch[o].attempts = MaxAttempts
    /\ ~dispatch[o].unknown

\* Every accepted occurrence is settled, unless one before it was stranded.
EveryOccurrenceCloses ==
    \A o \in Occurrences : dispatch[o].status = "pending" ~>
        dispatch[o].status \in Closed \/ \E p \in Occurrences : Stranded(p)

\* A dispatch that was never sent is retried under the same run and key
\* (docs/TECHNICAL_DESIGN.md:2142).
NeverSentRetried == \A o \in Occurrences : Stranded(o) ~> ~Stranded(o)

=============================================================================
