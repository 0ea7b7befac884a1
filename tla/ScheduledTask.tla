---------------------------- MODULE ScheduledTask ----------------------------
(***************************************************************************)
(* A scheduled task of kokoro-bff and its job in the Scheduler.            *)
(*                                                                         *)
(* Every change of the task is a transaction that writes the task and a    *)
(* command of bff_scheduled_task_outbox.  Dispatchers claim the commands   *)
(* of a task one at a time under a fenced lease, send them to the          *)
(* Scheduler, and settle.  The claim takes the command of the earliest     *)
(* created_at, which is the time its transaction BEGAN; the order of the   *)
(* task's revisions is the order in which the transactions locked the      *)
(* task.                                                                   *)
(*                                                                         *)
(* Tasks share no row, so there is one.  Its id is derived from the key of *)
(* the request that made it and is not used again.  The Scheduler is       *)
(* external: it answers a command it has already answered with the same    *)
(* answer.                                                                 *)
(***************************************************************************)
EXTENDS Naturals, FiniteSets

CONSTANTS
    Workers,      \* dispatchers
    MaxAttempts,  \* attempts after which a failed delivery fails the command
    MaxCommands,  \* BOUND: commands, and transactions begun
    MaxFaults     \* BOUND: failures of any kind in a behaviour

ASSUME ConstantsAssumption ==
    /\ MaxAttempts \in Nat \ {0}
    /\ MaxCommands \in Nat \ {0}
    /\ MaxFaults \in Nat

VARIABLES
    task,      \* the row of bff_scheduled_task
    outbox,    \* the commands, numbered in the order of their commits
    last,      \* how many there are
    clock,     \* transactions begun so far: the time
    begun,     \* begin times of the transactions that have not ended
    worker,    \* the dispatchers
    requests,  \* requests to the Scheduler it has not handled (external)
    job,       \* the Scheduler's job, and whose command it last obeyed (external)
    answers,   \* the Scheduler's command receipts (external)
    faults     \* faults spent so far

taskVars == <<task, outbox, last, clock, begun>>
scheduler == <<requests, job, answers>>
vars == <<task, outbox, last, clock, begun, worker, requests, job, answers, faults>>

-----------------------------------------------------------------------------
(* Types *)

Commands == 1..MaxCommands
NoCommand == 0

Operations == {"register", "replace", "delete"}
Calls == {"create", "replace", "delete"}

Open == {"pending", "leased", "retryable"}
Closed == {"succeeded", "failed"}

\* `paused` also stands for an active task that is disabled.
Task == [stage: {"absent", "present", "deleted"},
         revision: 0..MaxCommands,
         status: {"active", "paused", "failed"}]

\* `created`: the place in the order of (created_at, outbox_id).  `due`:
\* available_at or lease_until has passed.  `active`: what the snapshot
\* says of the task.  `doubt` (history): failed while another attempt could
\* still reach the Scheduler.
Command == [status: {"absent"} \cup Open \cup Closed,
            operation: Operations,
            revision: 0..MaxCommands,
            active: BOOLEAN,
            created: 0..MaxCommands,
            attempts: Nat,
            fence: Nat,
            due: BOOLEAN,
            doubt: BOOLEAN]

NoRow == [status |-> "absent", operation |-> "register", revision |-> 0,
          active |-> FALSE, created |-> 0, attempts |-> 0, fence |-> 0,
          due |-> FALSE, doubt |-> FALSE]

Resting == [pc |-> "idle", command |-> NoCommand, fence |-> 0, attempts |-> 0,
            call |-> "create", outcome |-> "none"]

\* `call` is the one to make or made, `outcome` what is to be settled.
Worker == {Resting} \cup
          [pc: {"calling", "waiting", "settling"},
           command: Commands,
           fence: Nat,
           attempts: Nat,
           call: Calls,
           outcome: {"none", "succeeded", "retryable", "failed"}]

Request == [command: Commands, fence: Nat, call: Calls]

TypeOK ==
    /\ task \in Task
    /\ outbox \in [Commands -> Command]
    /\ last \in 0..MaxCommands
    /\ clock \in 0..MaxCommands
    /\ begun \subseteq Commands
    /\ worker \in [Workers -> Worker]
    /\ requests \subseteq Request
    /\ job \in [present: BOOLEAN, by: 0..MaxCommands]
    /\ answers \in [Commands \X Calls -> {"none", "done", "missing", "exists"}]
    /\ faults \in 0..MaxFaults

Init ==
    /\ task = [stage |-> "absent", revision |-> 0, status |-> "active"]
    /\ outbox = [c \in Commands |-> NoRow]
    /\ last = 0
    /\ clock = 0
    /\ begun = {}
    /\ worker = [w \in Workers |-> Resting]
    /\ requests = {}
    /\ job = [present |-> FALSE, by |-> NoCommand]
    /\ answers = [x \in Commands \X Calls |-> "none"]
    /\ faults = 0

Fault == faults < MaxFaults /\ faults' = faults + 1

-----------------------------------------------------------------------------
(* The owner's changes *)

Pending(operation, revision, active, created) ==
    [status |-> "pending", operation |-> operation, revision |-> revision,
     active |-> active, created |-> created, attempts |-> 0, fence |-> 0,
     due |-> TRUE, doubt |-> FALSE]

Writes(operation, revision, active, created) ==
    /\ last < MaxCommands
    /\ last' = last + 1
    /\ outbox' = [outbox EXCEPT ![last + 1] = Pending(operation, revision, active, created)]

CreateTask ==
    /\ task.stage = "absent"
    /\ clock < MaxCommands
    /\ clock' = clock + 1
    /\ task' = [stage |-> "present", revision |-> 1, status |-> "active"]
    /\ Writes("register", 1, TRUE, clock + 1)
    /\ UNCHANGED <<begun, worker, scheduler, faults>>

\* BEGIN of a transaction that will lock the task.  The deletion of its project
\* may begin before the task is there.
BeginChange ==
    /\ task.stage # "deleted"
    /\ clock < MaxCommands
    /\ clock' = clock + 1
    /\ begun' = begun \cup {clock + 1}
    /\ UNCHANGED <<task, outbox, last, worker, scheduler, faults>>

\* The transaction that began at t has the lock.
Locks(t) ==
    /\ t \in begun
    /\ begun' = begun \ {t}
    /\ UNCHANGED clock

\* Of an update (a pause, a retry, any other field), and of the deletion of the
\* task's project, which pauses it.
UpdateTask(t, status) ==
    /\ Locks(t)
    /\ task.stage = "present"
    /\ status \in {"active", "paused", task.status}
    /\ task.revision < MaxCommands
    /\ task' = [task EXCEPT !.revision = task.revision + 1, !.status = status]
    /\ Writes("replace", task.revision + 1, status = "active", t)
    /\ UNCHANGED <<worker, scheduler, faults>>

DeleteTask(t) ==
    /\ Locks(t)
    /\ task.stage = "present"
    /\ task' = [task EXCEPT !.stage = "deleted"]
    /\ Writes("delete", task.revision, task.status = "active", t)
    /\ UNCHANGED <<worker, scheduler, faults>>

\* The task is gone, or the key has its command already.
ChangeNothing(t) ==
    /\ Locks(t)
    /\ UNCHANGED <<task, outbox, last, worker, scheduler, faults>>

-----------------------------------------------------------------------------
(* Claims *)

\* A faulty form: no prior command is looked for.
IsHeadAny(c) == outbox[c].status \in Open

IsHead(c) ==
    /\ outbox[c].status \in Open
    /\ \A d \in Commands : outbox[d].status \in Open => outbox[c].created <= outbox[d].created

\* A faulty form: a lapsed lease is not taken over.
ClaimableUnleased(c) == IsHead(c) /\ outbox[c].due /\ outbox[c].status # "leased"

Claimable(c) == IsHead(c) /\ outbox[c].due

FirstCall(operation) == IF operation = "register" THEN "create" ELSE operation

Claim(w, c) ==
    /\ worker[w].pc = "idle"
    /\ Claimable(c)
    /\ outbox' = [outbox EXCEPT ![c].status = "leased",
                                ![c].fence = outbox[c].fence + 1,
                                ![c].attempts = outbox[c].attempts + 1,
                                ![c].due = FALSE]
    /\ worker' = [worker EXCEPT ![w] =
                    [pc |-> "calling", command |-> c, fence |-> outbox[c].fence + 1,
                     attempts |-> outbox[c].attempts + 1,
                     call |-> FirstCall(outbox[c].operation), outcome |-> "none"]]
    /\ UNCHANGED <<task, last, clock, begun, scheduler, faults>>

-----------------------------------------------------------------------------
(* Delivery *)

\* Nothing compares the lease before a call is made.
Call(w) ==
    /\ worker[w].pc = "calling"
    /\ worker' = [worker EXCEPT ![w].pc = "waiting"]
    /\ requests' = requests \cup {[command |-> worker[w].command, fence |-> worker[w].fence,
                                   call |-> worker[w].call]}
    /\ UNCHANGED <<taskVars, job, answers, faults>>

\* A faulty form: every answer is a success.
HeardAsSuccess(w, answer) ==
    [worker[w] EXCEPT !.pc = "settling", !.outcome = "succeeded"]

\* What a worker does on an answer: settle, or make the other call.
Heard(w, answer) ==
    LET operation == outbox[worker[w].command].operation
        first == worker[w].call = FirstCall(operation) IN
    IF first /\ operation = "register" /\ answer = "exists"
    THEN [worker[w] EXCEPT !.pc = "calling", !.call = "replace"]
    ELSE IF first /\ operation = "replace" /\ answer = "missing"
    THEN [worker[w] EXCEPT !.pc = "calling", !.call = "create"]
    ELSE [worker[w] EXCEPT !.pc = "settling",
                           !.outcome = IF answer = "done" \/ (operation = "delete" /\ answer = "missing")
                                       THEN "succeeded" ELSE "failed"]

Waits(w, r) ==
    /\ worker[w].pc = "waiting"
    /\ [command |-> worker[w].command, fence |-> worker[w].fence, call |-> worker[w].call] = r

Answer(r) ==
    IF answers[<<r.command, r.call>>] # "none" THEN answers[<<r.command, r.call>>]
    ELSE IF r.call = "create" /\ job.present THEN "exists"
    ELSE IF r.call # "create" /\ ~job.present THEN "missing"
    ELSE "done"

\* The Scheduler carries out a command and writes its receipt, or replays it.
Obeys(r) ==
    /\ job' = IF answers[<<r.command, r.call>>] = "none" /\ Answer(r) = "done"
              THEN [present |-> r.call # "delete", by |-> r.command]
              ELSE job
    /\ answers' = [answers EXCEPT ![<<r.command, r.call>>] = Answer(r)]

\* The Scheduler handles a request; whoever waits for it hears the answer.
Handle(r) ==
    /\ r \in requests
    /\ Obeys(r)
    /\ requests' = requests \ {r}
    /\ worker' = [w \in Workers |-> IF Waits(w, r) THEN Heard(w, Answer(r)) ELSE worker[w]]
    /\ UNCHANGED <<taskVars, faults>>

\* No answer, a transient or a permanent error, or a success that cannot be
\* read: the request may be lost, or still arrive.
CallFails(w) ==
    /\ worker[w].pc = "waiting"
    /\ Fault
    /\ \E outcome \in {"retryable", "failed"} :
          worker' = [worker EXCEPT ![w].pc = "settling", ![w].outcome = outcome]
    /\ \/ UNCHANGED requests
       \/ requests' = {r \in requests : ~Waits(w, r)}
    /\ UNCHANGED <<taskVars, job, answers>>

-----------------------------------------------------------------------------
(* Settlements *)

Holds(w) ==
    /\ outbox[worker[w].command].status = "leased"
    /\ outbox[worker[w].command].fence = worker[w].fence

Exhausted(w) == worker[w].attempts >= MaxAttempts

Rests(w) == worker' = [worker EXCEPT ![w] = Resting]

MarkSucceeded(w) ==
    /\ worker[w].pc = "settling"
    /\ worker[w].outcome = "succeeded"
    /\ Rests(w)
    /\ outbox' = IF Holds(w) THEN [outbox EXCEPT ![worker[w].command].status = "succeeded"]
                             ELSE outbox
    /\ UNCHANGED <<task, last, clock, begun, scheduler, faults>>

MarkRetryable(w) ==
    /\ worker[w].pc = "settling"
    /\ worker[w].outcome = "retryable"
    /\ ~Exhausted(w)
    /\ Rests(w)
    /\ outbox' = IF Holds(w) THEN [outbox EXCEPT ![worker[w].command].status = "retryable",
                                                 ![worker[w].command].due = FALSE]
                             ELSE outbox
    /\ UNCHANGED <<task, last, clock, begun, scheduler, faults>>

\* Can an attempt other than w's settlement still reach the Scheduler?
InDoubt(w) ==
    LET c == worker[w].command IN
    \/ \E r \in requests : r.command = c
    \/ \E v \in Workers : v # w /\ worker[v].command = c /\ worker[v].pc = "calling"

\* A faulty form: the revision is not compared.
FailsTaskAlways(c) == outbox[c].operation # "delete" /\ task.stage = "present" /\ task.status = "active"

\* UPDATE bff_scheduled_task ... WHERE revision matches AND enabled AND active
FailsTask(c) ==
    /\ outbox[c].operation # "delete"
    /\ task.stage = "present"
    /\ task.revision = outbox[c].revision
    /\ task.status = "active"

MarkFailed(w) ==
    LET c == worker[w].command IN
    /\ worker[w].pc = "settling"
    /\ \/ worker[w].outcome = "failed"
       \/ worker[w].outcome = "retryable" /\ Exhausted(w)
    /\ Rests(w)
    /\ IF Holds(w)
       THEN /\ outbox' = [outbox EXCEPT ![c].status = "failed", ![c].doubt = InDoubt(w)]
            /\ task' = IF FailsTask(c) THEN [task EXCEPT !.status = "failed"] ELSE task
       ELSE UNCHANGED <<outbox, task>>
    /\ UNCHANGED <<last, clock, begun, scheduler, faults>>

\* The process dies, or the settlement throws, which is swallowed.
Crash(w) ==
    /\ worker[w].pc # "idle"
    /\ Fault
    /\ Rests(w)
    /\ UNCHANGED <<taskVars, scheduler>>

-----------------------------------------------------------------------------
(* Time *)

Busy(c) == \E w \in Workers :
    worker[w].pc # "idle" /\ worker[w].command = c /\ worker[w].fence = outbox[c].fence

FallsDue(c) ==
    /\ outbox[c].status \in {"leased", "retryable"}
    /\ ~outbox[c].due
    /\ outbox' = [outbox EXCEPT ![c].due = TRUE]
    /\ IF outbox[c].status = "leased" /\ Busy(c) THEN Fault ELSE UNCHANGED faults
    /\ UNCHANGED <<task, last, clock, begun, worker, scheduler>>

-----------------------------------------------------------------------------
(* Specification *)

Change ==
    \/ CreateTask
    \/ BeginChange
    \/ \E t \in Commands :
          \/ \E status \in {"active", "paused", "failed"} : UpdateTask(t, status)
          \/ DeleteTask(t)
          \/ ChangeNothing(t)

Settle(w) == MarkSucceeded(w) \/ MarkRetryable(w) \/ MarkFailed(w)

Next ==
    \/ Change
    \/ \E w \in Workers :
          \/ \E c \in Commands : Claim(w, c)
          \/ Call(w)
          \/ CallFails(w)
          \/ Settle(w)
          \/ Crash(w)
    \/ \E r \in requests : Handle(r)
    \/ \E c \in Commands : FallsDue(c)

Spec == Init /\ [][Next]_vars

\* Dispatchers poll, calls are answered or time out, statements return, the
\* clock advances.  An owner is not obliged to change anything, nor a transaction
\* to end, and nothing is obliged to fail.
Fairness ==
    /\ \A w \in Workers :
          /\ WF_vars(\E c \in Commands : Claim(w, c))
          /\ WF_vars(Call(w))
          /\ WF_vars(Settle(w))
    /\ WF_vars(\E r \in requests : Handle(r))
    /\ \A c \in Commands : WF_vars(FallsDue(c))

FairSpec == Spec /\ Fairness

-----------------------------------------------------------------------------
(* Properties *)

\* A command is claimed when every change before it is settled: no snapshot
\* overtakes an earlier one (docs/RELIABILITY.md:43-44, the FIFO claim).
InCommitOrder ==
    \A c, d \in Commands :
        c < d /\ outbox[d].status = "leased" => outbox[c].status \in Closed

\* Transactions got their locks in the order they began (and of two of the same
\* millisecond the one with the smaller id was first).
Timely ==
    \A c, d \in Commands : c < d /\ d <= last => outbox[c].created < outbox[d].created

\* The same, if transactions get their locks in the order they began.
TimelyInCommitOrder == Timely => InCommitOrder

\* What the rows know of the transactions: rows are numbered without a gap, and
\* none is younger than the clock.
RowsInv ==
    /\ \A c \in Commands :
          /\ c <= last <=> outbox[c].status # "absent"
          /\ outbox[c].created <= clock
    /\ \A t \in begun : t <= clock
    /\ task.stage = "absent" => last = 0

\* What they know of the task: no row is ahead of it, and the row of its
\* current revision carries its status, unless that row failed.
RevisionInv ==
    \A c \in Commands : c <= last =>
        /\ outbox[c].revision <= task.revision
        /\ outbox[c].operation # "delete" /\ outbox[c].revision = task.revision
              /\ outbox[c].active => task.status # "paused"

\* A claim in a dispatcher's memory is one the row gave out.
TicketsInv ==
    \A w \in Workers : worker[w].pc # "idle" =>
        /\ worker[w].command \in 1..last
        /\ worker[w].fence <= outbox[worker[w].command].fence
        /\ worker[w].attempts <= outbox[worker[w].command].attempts

\* The inductive invariant: what rows, transactions, the task and the claims in
\* memory know of one another.
TaskInv == RowsInv /\ RevisionInv /\ TicketsInv

\* Neither the order of the claims nor a failed command left an attempt behind
\* that a later one could not know of.
Orderly == Timely /\ \A c \in Commands : ~outbox[c].doubt

Wanted ==
    IF outbox[last].operation = "delete" THEN ~job.present
    ELSE job.present /\ job.by = last

\* When the last command has succeeded, the job is what it says, whatever
\* happened to commands before it (failures, lost answers, calls of workers
\* whose lease was taken over, the fallbacks on 404 and 409).
LastWins == Orderly /\ last > 0 /\ outbox[last].status = "succeeded" => Wanted

\* A call never takes the job back to an older command.
JobMovesForward == [][Orderly' => job'.by >= job.by]_vars

\* The owner sees that an active task is not scheduled: the failure of the
\* command of its current revision is on the task.
FailureShown ==
    \A c \in Commands :
        /\ outbox[c].status = "failed"
        /\ outbox[c].operation # "delete"
        /\ outbox[c].active
        /\ task.stage = "present"
        /\ task.revision = outbox[c].revision
        => task.status = "failed"

\* And it is not blamed for the failure of an older command: an active current
\* revision whose own command has not failed stays active.
FailureIsOwn ==
    task.stage = "present" /\ task.status = "failed" =>
        \E c \in Commands :
            /\ outbox[c].revision = task.revision
            /\ outbox[c].operation # "delete"
            /\ outbox[c].active => outbox[c].status = "failed"

\* What the owner sees of failures: the task says "failed" when, and only when,
\* the command of its current revision has failed, although a command may be
\* settled by a late worker or after the next revision was written.
FailureVerdict == FailureShown /\ FailureIsOwn

\* A settled command is settled for good, although late workers still settle.
ClosedIsFinal ==
    [][\A c \in Commands : outbox[c].status \in Closed => outbox'[c] = outbox[c]]_vars

\* Every command is settled, whatever dies or is lost.
EveryCommandCloses ==
    \A c \in Commands : outbox[c].status \in Open ~> outbox[c].status \in Closed

=============================================================================
