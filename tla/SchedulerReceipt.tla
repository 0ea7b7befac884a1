--------------------------- MODULE SchedulerReceipt ---------------------------
(***************************************************************************)
(* The callback by which the Scheduler announces an occurrence of a task,  *)
(* and the receipt that gives it one answer.                               *)
(*                                                                         *)
(* The Scheduler delivers a callback until it hears a final answer, and    *)
(* may deliver it twice at a time.  Each delivery is handled by an         *)
(* execution of schedulerDispatch: it claims the receipt of the callback's *)
(* key under a token and a lease of sixty seconds, reads the task, freezes *)
(* the launch in the receipt, and accepts or rejects the occurrence in a   *)
(* transaction that finishes the receipt; each of these is a transaction   *)
(* of its own, and the owner changes the task between them.                *)
(*                                                                         *)
(* There is one occurrence of one task.  Two keys for it are two callbacks *)
(* the Scheduler makes of it; a callback carries the revision of the task  *)
(* that its body was frozen from, which stands for the digest.  A claim's  *)
(* token is a fresh UUID; a handler works on one claim at a time, so here  *)
(* its name is the token.                                                  *)
(***************************************************************************)
EXTENDS Naturals

CONSTANTS
    Handlers,      \* executions of the callback's route
    Keys,          \* idempotency keys under which the occurrence is announced
    NoHandler,     \* NULL of claim_token
    MaxRevision,   \* BOUND: revisions of the task
    MaxFaults      \* BOUND: failed reads, dead handlers, lost answers, overtaken leases

Revisions == 1..MaxRevision

\* No digest yet, and no row of the occurrence.
NoRevision == 0

ASSUME ConstantsAssumption ==
    /\ NoHandler \notin Handlers
    /\ MaxRevision \in Nat \ {0}
    /\ MaxFaults \in Nat

VARIABLES
    receipt,  \* bff_idempotency_receipt of each key
    task,     \* bff_scheduled_task
    queued,   \* digest of the occurrence's row in bff_scheduled_agent_dispatch
    handler,  \* what each execution holds in memory
    told,     \* final answers each callback was given (history)
    faults    \* faults spent so far

vars == <<receipt, task, queued, handler, told, faults>>

-----------------------------------------------------------------------------
(* Types *)

Call == [key: Keys, revision: Revisions]

Rejections == {"not_found", "changed", "not_active", "expired"}
Answers == Rejections \cup {"accepted"}

\* `open`: the instant in lease_until (pending) or retry_at (retryable) has
\* passed.  `frozen`: the snapshot of the launch is in the receipt.
NoReceipt == [state |-> "absent", digest |-> NoRevision, token |-> NoHandler,
              open |-> FALSE, frozen |-> FALSE, answer |-> "none"]
Unfinished == [state: {"pending", "retryable"}, digest: Revisions,
               token: Handlers \cup {NoHandler}, open: BOOLEAN, frozen: BOOLEAN,
               answer: {"none"}]
Terminal == [state: {"terminal"}, digest: Revisions, token: {NoHandler}, open: {FALSE},
             frozen: BOOLEAN, answer: Answers]
Receipt == {NoReceipt} \cup Unfinished \cup Terminal

Task == [present: BOOLEAN, active: BOOLEAN, expired: BOOLEAN, revision: Revisions]

\* `verdict` is the rejection a handler is about to settle.
Working == [pc: {"reading", "preparing", "accepting", "releasing"},
            key: Keys, revision: Revisions, verdict: {"none"}]
Settling == [pc: {"settling"}, key: Keys, revision: Revisions, verdict: Rejections]
Resting == [pc: {"idle"}]
Handling == Working \cup Settling \cup Resting

TypeOK ==
    /\ receipt \in [Keys -> Receipt]
    /\ task \in Task
    /\ queued \in Revisions \cup {NoRevision}
    /\ handler \in [Handlers -> Handling]
    /\ told \in [Call -> SUBSET Answers]
    /\ faults \in 0..MaxFaults

Idle == [pc |-> "idle"]

Init ==
    /\ receipt = [k \in Keys |-> NoReceipt]
    /\ task = [present |-> TRUE, active |-> TRUE, expired |-> FALSE, revision |-> 1]
    /\ queued = NoRevision
    /\ handler = [h \in Handlers |-> Idle]
    /\ told = [c \in Call |-> {}]
    /\ faults = 0

Fault == faults < MaxFaults /\ faults' = faults + 1

-----------------------------------------------------------------------------
(* The receipt *)

\* Mutant: a claim whose handler died is never taken over.
AvailableRetryable(r) == r.state = "retryable" /\ r.open

\* Mutant: a rejection is not final.
AvailableRejected(r) ==
    \/ r.state \in {"pending", "retryable"} /\ r.open
    \/ r.state = "terminal" /\ r.answer # "accepted"

\* A receipt that is not finished and whose lease or retry delay has run out.
Available(r) == r.state \in {"pending", "retryable"} /\ r.open

\* A fresh token and lease; a snapshot of an earlier claim is kept.
Claimed(r, h, revision) ==
    [r EXCEPT !.state = "pending", !.digest = revision, !.token = h, !.open = FALSE]

\* `activeClaim`: the handler's claim is the receipt's and has not run out.
Current(h) ==
    LET r == receipt[handler[h].key] IN
    r.state = "pending" /\ r.token = h /\ ~r.open

Finished(r, answer) ==
    [r EXCEPT !.state = "terminal", !.token = NoHandler, !.open = FALSE, !.answer = answer]

Released(r) == [r EXCEPT !.state = "retryable", !.token = NoHandler, !.open = FALSE]

-----------------------------------------------------------------------------
(* Deliveries and answers *)

\* The handler sends a final answer and is done; the answer may get lost.
Tells(c, answer) ==
    \/ told' = [told EXCEPT ![c] = @ \cup {answer}] /\ UNCHANGED faults
    \/ UNCHANGED told /\ Fault

CallOf(h) == [key |-> handler[h].key, revision |-> handler[h].revision]

Rests(h) == handler' = [handler EXCEPT ![h] = Idle]
Moves(h, pc) == handler' = [handler EXCEPT ![h].pc = pc]

\* The Scheduler announces a revision that the task has had.  A delivery whose
\* receipt is of another payload is answered 409, one that comes while a claim
\* runs or a retry is not due 425: nothing changes.  A finished receipt is
\* replayed.
Replay(c) ==
    LET r == receipt[c.key] IN
    /\ r.state = "terminal"
    /\ r.digest = c.revision
    /\ Tells(c, r.answer)
    /\ UNCHANGED <<receipt, task, queued, handler>>

\* Otherwise the delivery claims the receipt.
Claim(h, c) ==
    LET r == receipt[c.key] IN
    /\ c.revision <= task.revision
    /\ handler[h].pc = "idle"
    /\ \/ r.state = "absent"
       \/ r.digest = c.revision /\ Available(r)
    /\ receipt' = [receipt EXCEPT ![c.key] = Claimed(r, h, c.revision)]
    /\ handler' = [handler EXCEPT ![h] =
                      [pc |-> IF r.frozen THEN "accepting" ELSE "reading",
                       key |-> c.key, revision |-> c.revision, verdict |-> "none"]]
    /\ UNCHANGED <<task, queued, told, faults>>

-----------------------------------------------------------------------------
(* The handler *)

\* What `findRecord` shows of the task, in the order of the handler's checks.
ReadVerdict(revision) ==
    IF ~task.present THEN "not_found"
    ELSE IF task.revision # revision THEN "changed"
    ELSE IF ~task.active THEN "not_active"
    ELSE IF task.expired THEN "expired"
    ELSE "none"

ReadTask(h) ==
    LET v == ReadVerdict(handler[h].revision) IN
    /\ handler[h].pc = "reading"
    /\ handler' = [handler EXCEPT ![h].pc = IF v = "none" THEN "preparing" ELSE "settling",
                                  ![h].verdict = v]
    /\ UNCHANGED <<receipt, task, queued, told, faults>>

ReadFails(h) ==
    /\ handler[h].pc = "reading"
    /\ Fault
    /\ Moves(h, "releasing")
    /\ UNCHANGED <<receipt, task, queued, told>>

\* `prepareSnapshot`; a claim that was lost is answered 503, which is not final.
Prepare(h) ==
    /\ handler[h].pc = "preparing"
    /\ IF Current(h)
       THEN /\ receipt' = [receipt EXCEPT ![handler[h].key].frozen = TRUE]
            /\ Moves(h, "accepting")
       ELSE /\ Rests(h)
            /\ UNCHANGED receipt
    /\ UNCHANGED <<task, queued, told, faults>>

\* Mutant: the frozen launch is taken for granted.
AcceptVerdictTrusting(revision) == "accepted"

\* What `accept` makes of the task under its lock.
AcceptVerdict(revision) ==
    IF ~task.present THEN "not_found"
    ELSE IF ~task.active THEN "not_active"
    ELSE IF task.revision # revision THEN "changed"
    ELSE "accepted"

\* The row is absent, or is this callback's already: same digest and run.
Queueable(revision) == queued \in {NoRevision, revision}

\* `accept`: the receipt, the task and the occurrence's row in one transaction.
\* It throws when the occurrence was accepted from another payload, and leaves
\* the claim to its lease.
Accept(h) ==
    LET k == handler[h].key
        revision == handler[h].revision
        v == AcceptVerdict(revision) IN
    /\ handler[h].pc = "accepting"
    /\ Rests(h)
    /\ IF Current(h) /\ (v = "accepted" => Queueable(revision))
       THEN /\ receipt' = [receipt EXCEPT ![k] = Finished(@, v)]
            /\ queued' = IF v = "accepted" /\ queued = NoRevision THEN revision ELSE queued
            /\ Tells(CallOf(h), v)
       ELSE UNCHANGED <<receipt, queued, told, faults>>
    /\ UNCHANGED task

\* `settle`: the rejection is stored and answered, or the claim was lost.
Settle(h) ==
    LET k == handler[h].key
        v == handler[h].verdict IN
    /\ handler[h].pc = "settling"
    /\ Rests(h)
    /\ IF Current(h)
       THEN /\ receipt' = [receipt EXCEPT ![k] = Finished(@, v)]
            /\ Tells(CallOf(h), v)
       ELSE UNCHANGED <<receipt, told, faults>>
    /\ UNCHANGED <<task, queued>>

\* `releaseUnknown`: 502 or 503, neither is final.
Release(h) ==
    LET k == handler[h].key IN
    /\ handler[h].pc = "releasing"
    /\ Rests(h)
    /\ receipt' = IF Current(h) THEN [receipt EXCEPT ![k] = Released(@)] ELSE receipt
    /\ UNCHANGED <<task, queued, told, faults>>

\* The process dies, or a statement throws: 500 or nothing.
Die(h) ==
    /\ handler[h].pc # "idle"
    /\ Fault
    /\ Rests(h)
    /\ UNCHANGED <<receipt, task, queued, told>>

-----------------------------------------------------------------------------
(* The task and time *)

ChangesTask == UNCHANGED <<receipt, queued, handler, told, faults>>

\* The owner changes, pauses or resumes it, or its project is deleted.
UpdateTask ==
    /\ task.present
    /\ task.revision < MaxRevision
    /\ \E active, expired \in BOOLEAN :
          task' = [task EXCEPT !.revision = @ + 1, !.active = active, !.expired = expired]
    /\ ChangesTask

\* Its registration with the Scheduler fails for good: no new revision.
FailTask ==
    /\ task.present
    /\ task.active
    /\ task' = [task EXCEPT !.active = FALSE]
    /\ ChangesTask

DeleteTask ==
    /\ task.present
    /\ task' = [task EXCEPT !.present = FALSE, !.active = FALSE, !.expired = FALSE]
    /\ ChangesTask

ExpireTask ==
    /\ task.present
    /\ ~task.expired
    /\ task' = [task EXCEPT !.expired = TRUE]
    /\ ChangesTask

Works(h, k) == handler[h].pc # "idle" /\ handler[h].key = k

\* lease_until or retry_at passes.  It is a fault when the claim's handler is
\* still at work.
TimePasses(k) ==
    LET r == receipt[k] IN
    /\ r.state \in {"pending", "retryable"}
    /\ ~r.open
    /\ IF \E h \in Handlers : h = r.token /\ Works(h, k) THEN Fault ELSE UNCHANGED faults
    /\ receipt' = [receipt EXCEPT ![k].open = TRUE]
    /\ UNCHANGED <<task, queued, handler, told>>

-----------------------------------------------------------------------------
(* Specification *)

Step(h) == ReadTask(h) \/ Prepare(h) \/ Accept(h) \/ Settle(h) \/ Release(h)

TaskChange == UpdateTask \/ FailTask \/ DeleteTask \/ ExpireTask

Next ==
    \/ \E c \in Call : Replay(c) \/ \E h \in Handlers : Claim(h, c)
    \/ \E h \in Handlers : Step(h) \/ ReadFails(h) \/ Die(h)
    \/ TaskChange
    \/ \E k \in Keys : TimePasses(k)

Spec == Init /\ [][Next]_vars

\* The Scheduler delivers a callback again until it is answered for good.
Redelivers(c) ==
    /\ receipt[c.key].digest = c.revision
    /\ told[c] = {}
    /\ Replay(c) \/ \E h \in Handlers : Claim(h, c)

\* A live handler goes on; the database's clock advances; the Scheduler does
\* not give up.  A delivery waits for an idle handler only because the model
\* has few: hence strong fairness.
Fairness ==
    /\ \A h \in Handlers : WF_vars(Step(h))
    /\ \A k \in Keys : WF_vars(TimePasses(k))
    /\ \A c \in Call : SF_vars(Redelivers(c))

FairSpec == Spec /\ Fairness

-----------------------------------------------------------------------------
(* Properties *)

\* Whatever deliveries overlap, leases run out and answers get lost, all final
\* answers to a callback are the one in its receipt (API_CONTRACT.md:2879, a
\* finished receipt replays its status and body).
OneVerdict ==
    \A c \in Call : \A a \in told[c] :
        LET r == receipt[c.key] IN
        r.state = "terminal" /\ r.digest = c.revision /\ r.answer = a

\* The occurrence is queued exactly when a receipt says so, and with the
\* payload of every receipt that says so: however many keys announce it, two
\* payloads are not both accepted, and none is accepted without its row
\* (TECHNICAL_DESIGN.md:2142, items 1 and 2).
QueuedIffAccepted ==
    /\ \A k \in Keys : receipt[k].answer = "accepted" => receipt[k].digest = queued
    /\ queued # NoRevision => \E k \in Keys : receipt[k].answer = "accepted"

\* An occurrence is queued once, and only from the current revision of an
\* active task, although the launch was frozen in an earlier transaction and
\* perhaps by an earlier handler (scheduled.md:50).
QueuedWhileActive ==
    [][queued' # queued =>
          /\ queued = NoRevision
          /\ task.present /\ task.active /\ task.revision = queued']_vars

\* The same of its expiry: an expired task never launches a run
\* (scheduled.md:51).
QueuedBeforeExpiry == [][queued' # queued => ~task.expired]_vars

\* Every callback that was not refused as another payload's gets a final
\* answer if the Scheduler goes on delivering it, unless the occurrence was
\* accepted from another payload under another key.
CallbackAnswered ==
    \A c \in Call :
        receipt[c.key].digest = c.revision ~>
            told[c] # {} \/ queued \notin {NoRevision, c.revision}

=============================================================================
