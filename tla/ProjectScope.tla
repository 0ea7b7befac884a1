---------------------------- MODULE ProjectScope ----------------------------
(* Projects, the conversations and scheduled tasks in them, and what ends     *)
(* them.  Requests of the owner run as PostgreSQL transactions that interleave*)
(* at the points where they wait for a row lock: a turn commits (and may      *)
(* create the conversation), a conversation moves to another project or is    *)
(* archived, a task is created or changed, a conversation is deleted, a       *)
(* project is deleted.  All of them lock project rows first, in the order of  *)
(* their ids, and then the rows inside; the deletion freezes the members of   *)
(* the project and writes one release command for each and one for the        *)
(* project.  Dispatchers carry the commands to Storage, under leases.         *)
(*                                                                            *)
(* A project is known by its id: slugs are immutable and resolve to it.  The  *)
(* last lock a request waits for, its writes and its COMMIT are one step: it  *)
(* waits for nothing in between.  A run is one dispatch row of a conversation,*)
(* as project-execution-binding.ts reads it; what ends it is AgentDispatch's. *)
(* Answers that are replayed from a receipt change nothing and are no steps.  *)
EXTENDS Naturals, FiniteSets

CONSTANTS
    Projects,       \* project ids, numbers: rows are locked in their order
    Convs,          \* conversation ids, numbers
    Tasks,          \* scheduled tasks
    Requests,       \* requests of the owner
    Kinds,          \* what each request may be: [Requests -> SUBSET Kind]
    Workers,        \* dispatchers of the release outbox
    BatchSize,      \* commands a claim may take
    InitialConv,    \* where the conversations are at first: [Convs -> Conv]
    InitialTask,    \* and the tasks: [Tasks -> Task]
    None,           \* no project, no conversation, no worker
    MaxFaults       \* timeouts, crashes and refusals of the environment

Kind == {"turn", "move", "archive", "createTask", "updateTask", "deleteProject",
         "deleteConversation"}

ASSUME NumbersAssumption ==
    Projects \subseteq Nat /\ Convs \subseteq Nat /\ Tasks \cap Convs = {}
ASSUME NoneAssumption == None \notin Projects \cup Convs \cup Tasks \cup Workers
ASSUME KindsAssumption == Kinds \in [Requests -> SUBSET Kind]
ASSUME LimitsAssumption == BatchSize \in Nat \ {0} /\ MaxFaults \in Nat
ASSUME FiniteAssumption == IsFiniteSet(Projects) /\ IsFiniteSet(Convs)

VARIABLES
    project,        \* bff_project: live or deleted
    conv,           \* bff_conversation
    task,           \* bff_scheduled_task
    runs,           \* dispatch rows: where a turn was committed, retired by a move
    moves,          \* times a conversation has left a project (history)
    txn,            \* the transaction of each request
    deletion,       \* bff_project_deletion
    release,        \* bff_project_scope_release_outbox
    tickets,        \* commands in the hands of dispatchers
    accepted,       \* scopes Storage has released
    faults
vars == <<project, conv, task, runs, moves, txn, deletion, release, tickets, accepted, faults>>
rows == <<project, conv, task, runs, moves>>
outbox == <<deletion, release, tickets, accepted>>

-----------------------------------------------------------------------------
Ref == Projects \cup {None}
Conv == [status: {"absent", "active", "deleted"}, ref: Ref, archived: BOOLEAN]
Task == [status: {"absent", "active", "paused"}, ref: Ref]
Run == [conv: Convs, project: Ref, epoch: Nat, retired: BOOLEAN]
Txn == [pc: {"idle", "again", "locking", "members", "done"},
        kind: Kind \cup {"none"}, item: Convs \cup Tasks \cup {None}, target: Ref,
        fresh: BOOLEAN, ref: Ref,           \* what the read before the locks saw
        need: SUBSET Projects,              \* projects still to lock
        held: SUBSET Projects,              \* projects locked
        members: SUBSET Convs, locked: SUBSET Convs]
NoTxn == [pc |-> "idle", kind |-> "none", item |-> None, target |-> None,
          fresh |-> FALSE, ref |-> None, need |-> {}, held |-> {},
          members |-> {}, locked |-> {}]
\* A scope of Storage: a conversation of a deleted project, or the project.
Scope == [project: Projects, conv: Convs \cup {None}]
Deletion == [commands: Nat, state: {"none", "pending", "blocked", "released"}]
NoDeletion == [commands |-> 0, state |-> "none"]
\* due: available, its lease lapsed, or its recovery interval over.
Command == [state: {"none", "pending", "leased", "released", "blocked"},
            due: BOOLEAN, fence: Nat, owner: Workers \cup {None},
            cause: {"none", "credentials", "terminal", "integrity"}]
NoCommand == [state |-> "none", due |-> FALSE, fence |-> 0, owner |-> None,
              cause |-> "none"]
NewCommand == [NoCommand EXCEPT !.state = "pending", !.due = TRUE]
Ticket == [worker: Workers, scope: Scope, fence: Nat,
           answer: {"none", "released", "retry", "credentials", "terminal"}]

ASSUME InitialAssumption ==
    /\ InitialConv \subseteq [Convs -> Conv] /\ InitialTask \subseteq [Tasks -> Task]
    /\ \A f \in InitialConv : \A c \in Convs : f[c].status = "absent" => f[c].ref = None

Init ==
    /\ project = [p \in Projects |-> "live"]
    /\ conv \in InitialConv
    /\ task \in InitialTask
    /\ runs = {[conv |-> c, project |-> conv[c].ref, epoch |-> 0, retired |-> FALSE] :
                  c \in {b \in Convs : conv[b].status = "active"}}
    /\ moves = [c \in Convs |-> 0]
    /\ txn = [r \in Requests |-> NoTxn]
    /\ deletion = [p \in Projects |-> NoDeletion]
    /\ release = [s \in Scope |-> NoCommand]
    /\ tickets = {}
    /\ accepted = {}
    /\ faults = 0

Fault == faults < MaxFaults /\ faults' = faults + 1

-----------------------------------------------------------------------------
(* The transactions of the owner's requests.                                  *)

Live(ref) == ref # None => project[ref] = "live"
\* A conversation the owner can see: active, and so is the project it is in.
Visible(c) == conv[c].status = "active" /\ Live(conv[c].ref)
Shared(r) == txn[r].kind \in {"turn", "createTask", "updateTask"}

End(r) == txn' = [txn EXCEPT ![r] = [NoTxn EXCEPT !.pc = "done"]]
Retry(r) ==
    txn' = [txn EXCEPT ![r] = [NoTxn EXCEPT !.pc = "again", !.kind = txn[r].kind,
                                            !.item = txn[r].item, !.target = txn[r].target]]

\* The projects a request locks: the one its conversation or task is in, as the
\* read before the locks saw it, and the one the caller names, if it is live.
Resolved(refs) == {p \in Projects : p \in refs /\ project[p] = "live"}
Needed(kind, item, target) ==
    CASE kind = "turn" ->
           Resolved({target} \cup (IF conv[item].status = "active" THEN {conv[item].ref} ELSE {}))
      [] kind = "move" -> {conv[item].ref, target} \ {None}
      [] kind = "archive" -> {conv[item].ref} \ {None}
      [] kind = "updateTask" -> {task[item].ref} \ {None}
      [] OTHER -> {target} \ {None}

\* The reads that come before the locks refuse the request.
Refused(kind, item, target) ==
    \/ kind \in {"move", "archive"} /\ ~Visible(item)
    \/ /\ kind = "turn"
       /\ IF conv[item].status = "active" THEN ~Live(conv[item].ref) ELSE ~Live(target)
    \/ kind = "updateTask" /\ task[item].status = "absent"

Read(r, kind, item, target) ==
    LET ref == CASE kind \in {"turn", "move", "archive"} -> conv[item].ref
                 [] kind = "updateTask" -> task[item].ref
                 [] OTHER -> target
    IN IF Refused(kind, item, target)
         THEN End(r)
         ELSE txn' = [txn EXCEPT ![r] =
                [NoTxn EXCEPT
                   !.pc = "locking", !.kind = kind, !.item = item, !.target = target,
                   !.fresh = kind = "turn" /\ conv[item].status # "active",
                   !.ref = IF kind = "turn" /\ conv[item].status # "active" THEN target ELSE ref,
                   !.need = Needed(kind, item, target)]]

\* What a request of a kind may name: its conversation or task, and its project.
Begin(r) ==
    /\ txn[r].pc = "idle"
    /\ \E kind \in Kinds[r] \ {"deleteConversation"} :
         \E item \in (CASE kind \in {"turn", "move", "archive"} -> Convs
                        [] kind \in {"createTask", "updateTask"} -> Tasks
                        [] OTHER -> {None}),
            target \in (CASE kind \in {"turn", "move", "createTask"} -> Ref
                          [] kind = "deleteProject" -> Projects
                          [] OTHER -> {None}) :
           Read(r, kind, item, target)
    /\ UNCHANGED <<rows, outbox, faults>>

Again(r) ==
    /\ txn[r].pc = "again"
    /\ Read(r, txn[r].kind, txn[r].item, txn[r].target)
    /\ UNCHANGED <<rows, outbox, faults>>

\* Mutant: a turn takes no lock on the project it joins.
LocksButTurns(r, p) ==
    \A q \in Requests \ {r} :
        p \in txn[q].held => txn[r].kind = "turn" \/ (Shared(r) /\ Shared(q))
\* Mutant: a task is created without a lock on its project.
LocksButTasks(r, p) ==
    \A q \in Requests \ {r} :
        p \in txn[q].held => txn[r].kind = "createTask" \/ (Shared(r) /\ Shared(q))

\* Projects are locked in the order of their ids; turns and tasks lock them FOR
\* SHARE.
Locks(r, p) ==
    \A q \in Requests \ {r} : p \in txn[q].held => Shared(r) /\ Shared(q)

\* Mutant: in whatever order they come.
NextProjectUnsorted(r) == txn[r].need

NextProject(r) == {p \in txn[r].need : \A q \in txn[r].need : p <= q}

\* A deleted row is not returned: the request ends, an archive starts again, a
\* turn goes on if it is not the project of its conversation.
LockProject(r) ==
    /\ txn[r].pc = "locking"
    /\ \E p \in NextProject(r) :
         /\ Locks(r, p)
         /\ IF project[p] = "live"
              THEN txn' = [txn EXCEPT
                     ![r].need = @ \ {p}, ![r].held = @ \cup {p},
                     ![r].pc = IF txn[r].kind = "deleteProject" THEN "members" ELSE @,
                     ![r].members = IF txn[r].kind = "deleteProject"
                                      THEN {c \in Convs : conv[c].ref = p} ELSE @]
              ELSE IF txn[r].kind = "archive" THEN Retry(r)
              ELSE IF txn[r].kind = "turn" /\ txn[r].ref # p
                THEN txn' = [txn EXCEPT ![r].need = @ \ {p}]
              ELSE End(r)
    /\ UNCHANGED <<rows, outbox, faults>>

Free(r, c) == \A q \in Requests \ {r} : c \notin txn[q].locked
Ready(r, kind) == txn[r].pc = "locking" /\ txn[r].need = {} /\ txn[r].kind = kind

\* The conversation is locked: it is gone, or not where it was read.
Gone(r) == IF txn[r].fresh THEN conv[txn[r].item].status = "deleted"
                           ELSE conv[txn[r].item].status # "active"
Changed(r) ==
    /\ conv[txn[r].item].status = "active"
    /\ txn[r].fresh \/ conv[txn[r].item].ref # txn[r].ref
OnConversation(r) == txn[r].kind \in {"turn", "move", "archive"}

LosesConversation(r) ==
    /\ OnConversation(r) /\ Ready(r, txn[r].kind) /\ Free(r, txn[r].item)
    /\ \/ Gone(r) /\ End(r)
       \/ Changed(r) /\ Retry(r)
    /\ UNCHANGED <<rows, outbox, faults>>

\* commitChatTurn: the conversation is created where it does not exist; a project
\* named by the caller must be the one the conversation is in.
CommitTurn(r) ==
    LET c == txn[r].item
        ref == txn[r].ref
    IN /\ Ready(r, "turn") /\ Free(r, c) /\ ~Gone(r) /\ ~Changed(r)
       /\ IF txn[r].target \notin {None, ref}
            THEN UNCHANGED <<conv, runs>>
            ELSE /\ conv' = IF txn[r].fresh
                             THEN [conv EXCEPT ![c] = [status |-> "active", ref |-> ref,
                                                       archived |-> FALSE]]
                             ELSE conv
                 /\ runs' = runs \cup {[conv |-> c, project |-> ref,
                                        epoch |-> moves[c], retired |-> FALSE]}
       /\ End(r)
       /\ UNCHANGED <<project, task, moves, outbox, faults>>

\* moveConversation: leaving a project retires the execution context of every
\* run of the conversation.
\* Mutant: the runs keep their execution context.
RetiredRunsKept(c) == {u \in runs : c = c}

RetiredRuns(c) == {IF u.conv = c THEN [u EXCEPT !.retired = TRUE] ELSE u : u \in runs}

CommitMove(r) ==
    LET c == txn[r].item
        leaves == txn[r].ref # txn[r].target
    IN /\ Ready(r, "move") /\ Free(r, c) /\ ~Gone(r) /\ ~Changed(r)
       /\ conv' = [conv EXCEPT ![c].ref = txn[r].target]
       /\ runs' = IF leaves THEN RetiredRuns(c) ELSE runs
       /\ moves' = IF leaves THEN [moves EXCEPT ![c] = @ + 1] ELSE moves
       /\ End(r)
       /\ UNCHANGED <<project, task, outbox, faults>>

\* changeArchiveState.
CommitArchive(r) ==
    LET c == txn[r].item
    IN /\ Ready(r, "archive") /\ Free(r, c) /\ ~Gone(r) /\ ~Changed(r)
       /\ conv' = [conv EXCEPT ![c].archived = ~@]
       /\ End(r)
       /\ UNCHANGED <<project, task, runs, moves, outbox, faults>>

\* createScheduledTask: an id that is taken is a conflict.
CommitCreateTask(r) ==
    LET t == txn[r].item
    IN /\ Ready(r, "createTask")
       /\ task' = IF task[t].status = "absent"
                    THEN [task EXCEPT ![t] = [status |-> "active", ref |-> txn[r].target]]
                    ELSE task
       /\ End(r)
       /\ UNCHANGED <<project, conv, runs, moves, outbox, faults>>

\* updateScheduledTask: the patch may pause or resume the task.
CommitUpdateTask(r) ==
    LET t == txn[r].item
    IN /\ Ready(r, "updateTask")
       /\ \E status \in {"active", "paused"} : task' = [task EXCEPT ![t].status = status]
       /\ End(r)
       /\ UNCHANGED <<project, conv, runs, moves, outbox, faults>>

\* deleteConversation: one statement finds, checks and locks the row.
DeleteConversation(r) ==
    /\ txn[r].pc = "idle" /\ "deleteConversation" \in Kinds[r]
    /\ \E c \in Convs :
         /\ Visible(c) /\ Free(r, c)
         /\ conv' = [conv EXCEPT ![c].status = "deleted"]
    /\ End(r)
    /\ UNCHANGED <<project, task, runs, moves, outbox, faults>>

-----------------------------------------------------------------------------
(* The deletion of a project.                                                 *)

\* The members are locked one after the other, in the order of their ids.
LockMember(r) ==
    /\ txn[r].pc = "members"
    /\ \E c \in txn[r].members \ txn[r].locked :
         /\ \A b \in txn[r].members \ txn[r].locked : c <= b
         /\ Free(r, c)
         /\ txn' = [txn EXCEPT ![r].locked = @ \cup {c}]
    /\ UNCHANGED <<rows, outbox, faults>>

Deleted(members) ==
    [c \in Convs |-> IF c \in members
                       THEN [conv[c] EXCEPT !.status = "deleted"] ELSE conv[c]]

Paused(p) ==
    [t \in Tasks |-> IF task[t].ref = p /\ task[t].status = "active"
                       THEN [task[t] EXCEPT !.status = "paused"] ELSE task[t]]
Commands(p, members) == {[project |-> p, conv |-> c] : c \in members \cup {None}}

\* The members are deleted (those that are already keep their row), the tasks
\* paused, and one command is written for every member and one for the project.
CommitDeletion(r) ==
    LET p == txn[r].target
        members == txn[r].members
    IN /\ txn[r].pc = "members" /\ txn[r].locked = members
       /\ project' = [project EXCEPT ![p] = "deleted"]
       /\ conv' = Deleted(members)
       /\ task' = Paused(p)
       /\ deletion' = [deletion EXCEPT ![p] =
                         [commands |-> Cardinality(members) + 1, state |-> "pending"]]
       /\ release' = [s \in Scope |-> IF s \in Commands(p, members)
                                        THEN NewCommand ELSE release[s]]
       /\ End(r)
       /\ UNCHANGED <<runs, moves, tickets, accepted, faults>>

\* lock_timeout, a deadline, a crash: the transaction is rolled back; a move is
\* tried again.
Abort(r) ==
    /\ txn[r].pc \in {"locking", "members"}
    /\ IF txn[r].kind = "move" THEN Retry(r) ELSE End(r)
    /\ UNCHANGED <<rows, outbox, faults>>

-----------------------------------------------------------------------------
(* The release outbox.                                                        *)

Recoverable(s) == release[s].state = "blocked" /\ release[s].cause = "credentials"

\* Mutant: a lease that lapsed is not taken over.
ClaimablePending(s) == release[s].due /\ (release[s].state = "pending" \/ Recoverable(s))

Claimable(s) == release[s].due /\ (release[s].state \in {"pending", "leased"} \/ Recoverable(s))

\* A dispatcher with nothing in hand takes commands that are due, one of them at
\* most a command that waits for new credentials.  The deletion's stored state
\* is left alone.
Claim(w) ==
    /\ \A t \in tickets : t.worker # w
    /\ \E taken \in SUBSET {s \in Scope : Claimable(s)} :
         /\ taken # {} /\ Cardinality(taken) <= BatchSize
         /\ Cardinality({s \in taken : Recoverable(s)}) <= 1
         /\ release' = [s \in Scope |-> IF s \in taken
                          THEN [state |-> "leased", due |-> FALSE, fence |-> release[s].fence + 1,
                                owner |-> w, cause |-> "none"]
                          ELSE release[s]]
         /\ tickets' = tickets \cup {[worker |-> w, scope |-> s, fence |-> release[s].fence + 1,
                                      answer |-> "none"] : s \in taken}
    /\ UNCHANGED <<rows, txn, deletion, accepted, faults>>

Held(t) ==
    /\ release[t.scope].state = "leased"
    /\ release[t.scope].owner = t.worker /\ release[t.scope].fence = t.fence
    /\ ~release[t.scope].due

Becomes(t, answer) == tickets' = (tickets \ {t}) \cup {[t EXCEPT !.answer = answer]}

\* Storage releases the scope, or answers that it already has.
Accept(t) ==
    /\ t.answer = "none" /\ Held(t)
    /\ accepted' = accepted \cup {t.scope}
    /\ Becomes(t, "released")
    /\ UNCHANGED <<rows, txn, deletion, release, faults>>

\* It is not to be had, denies the credentials, refuses the command, or gives an
\* answer that is not trusted, after it did or did not do its work.
Refuse(t) ==
    /\ t.answer = "none" /\ Held(t) /\ Fault
    /\ \/ Becomes(t, "credentials") /\ accepted' = accepted
       \/ /\ Becomes(t, "retry") \/ Becomes(t, "terminal")
          /\ accepted' \in {accepted, accepted \cup {t.scope}}
    /\ UNCHANGED <<rows, txn, deletion, release>>

\* The deadline passes or the process stops: nothing is settled.
GiveUp(t) ==
    /\ Fault
    /\ tickets' = tickets \ {t}
    /\ UNCHANGED <<rows, txn, deletion, release, accepted>>

\* The lease is over: the command is skipped, or its settlement finds no row.
Skip(t) ==
    /\ ~Held(t)
    /\ tickets' = tickets \ {t}
    /\ UNCHANGED <<rows, txn, deletion, release, accepted, faults>>

\* What a settlement writes to its row.
SettledCommand(command, answer) ==
    [command EXCEPT !.state = CASE answer = "released" -> "released"
                                [] answer = "retry" -> "pending"
                                [] OTHER -> "blocked",
                    !.cause = IF answer \in {"credentials", "terminal"} THEN answer ELSE "none",
                    !.owner = None, !.due = FALSE]

\* The set of commands is the one the deletion froze, and its members are still
\* the conversations of the project.
Written(p, table) == {s \in Scope : s.project = p /\ table[s].state # "none"}
Members(p) == {c \in Convs : conv[c].ref = p}
Intact(p, table) ==
    /\ Cardinality(Written(p, table)) = deletion[p].commands
    /\ Written(p, table) = Commands(p, Members(p))
\* Mutant: only the conversations are counted.
StateOfConversations(p, table) ==
    IF \E s \in Written(p, table) : table[s].state = "blocked" THEN "blocked"
    ELSE IF \A s \in Written(p, table) : s.conv = None \/ table[s].state = "released" THEN "released"
    ELSE "pending"

\* What the commands of a deletion say of it.
StateOf(p, table) ==
    IF \E s \in Written(p, table) : table[s].state = "blocked" THEN "blocked"
    ELSE IF \A s \in Written(p, table) : table[s].state = "released" THEN "released"
    ELSE "pending"

Settle(t) ==
    LET p == t.scope.project
        settled == [release EXCEPT ![t.scope] = SettledCommand(@, t.answer)]
    IN /\ t.answer # "none" /\ Held(t)
       /\ IF Intact(p, settled)
            THEN /\ release' = settled
                 /\ deletion' = [deletion EXCEPT ![p].state = StateOf(p, settled)]
            ELSE /\ release' = [settled EXCEPT ![t.scope].state = "blocked",
                                               ![t.scope].cause = "integrity"]
                 /\ deletion' = [deletion EXCEPT ![p].state = "blocked"]
       /\ tickets' = tickets \ {t}
       /\ UNCHANGED <<rows, txn, accepted, faults>>

\* Time: a retry's delay, a lease, the interval before credentials are tried
\* again.  A lease outlasts the work of its dispatcher, except for a fault.
Elapse(s) ==
    /\ ~release[s].due
    /\ release[s].state \in {"pending", "leased"} \/ Recoverable(s)
    /\ IF \E t \in tickets : t.scope = s /\ Held(t) THEN Fault ELSE faults' = faults
    /\ release' = [release EXCEPT ![s].due = TRUE]
    /\ UNCHANGED <<rows, txn, deletion, tickets, accepted>>

\* The owner of a project's deletion reads (readProjectDeletion).
Reported(p) == StateOf(p, release)

-----------------------------------------------------------------------------
Request(r) ==
    \/ Begin(r) \/ Again(r) \/ LockProject(r) \/ LosesConversation(r)
    \/ CommitTurn(r) \/ CommitMove(r) \/ CommitArchive(r)
    \/ CommitCreateTask(r) \/ CommitUpdateTask(r) \/ DeleteConversation(r)
    \/ LockMember(r) \/ CommitDeletion(r) \/ Abort(r)
Carry(t) == Accept(t) \/ Refuse(t) \/ GiveUp(t) \/ Skip(t) \/ Settle(t)
Next ==
    \/ \E r \in Requests : Request(r)
    \/ \E w \in Workers : Claim(w)
    \/ \E t \in tickets : Carry(t)
    \/ \E s \in Scope : Elapse(s)

Spec == Init /\ [][Next]_vars

\* Some dispatcher polls, some command in hand is carried on, some timer runs out,
\* as long as there is one: the weakest the timers of the processes and of the
\* database, and a Storage that answers in the end, provide.
Fairness ==
    /\ WF_vars(\E w \in Workers : Claim(w))
    /\ WF_vars(\E t \in tickets : Accept(t) \/ Skip(t) \/ Settle(t))
    /\ WF_vars(\E s \in Scope : Elapse(s))
FairSpec == Spec /\ Fairness

-----------------------------------------------------------------------------
(* Properties.                                                                *)

\* Every variable has its type.
TypeOK ==
    /\ project \in [Projects -> {"live", "deleted"}]
    /\ conv \in [Convs -> Conv] /\ task \in [Tasks -> Task]
    /\ runs \subseteq Run /\ moves \in [Convs -> Nat]
    /\ txn \in [Requests -> Txn]
    /\ deletion \in [Projects -> Deletion] /\ release \in [Scope -> Command]
    /\ tickets \subseteq Ticket /\ accepted \subseteq Scope
    /\ faults \in 0..MaxFaults

\* No conversation joins or leaves a project once it is deleted, whatever turns
\* and moves were under way: the commands of the deletion are those of its
\* members and one for the project, all its members are deleted, and the check
\* of every settlement and of the owner's read never finds otherwise
\* (PROJECT_DELETION_RELEASE_SET_INVALID, project_scope_release_integrity_invalid).
MembersFrozen ==
    \A p \in Projects : project[p] = "deleted" =>
        /\ Intact(p, release)
        /\ \A c \in Members(p) : conv[c].status = "deleted"
        /\ \A s \in Scope : release[s].cause # "integrity"

\* Storage is told to release only what is gone for good: never the scope of a
\* conversation or a project that is in use.
ReleasedAreGone ==
    \A s \in accepted : /\ project[s.project] = "deleted"
                        /\ s.conv # None => conv[s.conv].status = "deleted"

\* What the owner is told of a deletion: "released" only if Storage has accepted
\* every scope; and what the deletion row stores agrees, except that it stays at
\* "blocked" while a command that waited for credentials is tried again.
HonestReport ==
    \A p \in Projects : project[p] = "deleted" =>
        /\ Reported(p) = "released" => Written(p, release) \subseteq accepted
        /\ deletion[p].state = Reported(p)
             \/ (deletion[p].state = "blocked" /\ Reported(p) = "pending")

\* Requests never wait for one another in a circle: every transaction that waits
\* is waiting, in the end, for one that can go on.  (The database would abort one
\* of them, 40P01.)
Waits(r, q) ==
    \/ \E p \in NextProject(r) :
         txn[r].pc = "locking" /\ p \in txn[q].held /\ ~(Shared(r) /\ Shared(q))
    \/ /\ txn[r].pc = "locking" /\ txn[r].need = {} /\ OnConversation(r)
       /\ txn[r].item \in txn[q].locked
    \/ txn[r].pc = "members" /\ \E c \in txn[r].members \ txn[r].locked :
         /\ \A b \in txn[r].members \ txn[r].locked : c <= b
         /\ c \in txn[q].locked
NoWaitCycle ==
    \A set \in (SUBSET Requests) \ {{}} :
        \E r \in set : \A q \in set \ {r} : ~Waits(r, q)

\* A run may use its project (readProjectExecutionBinding) only if its conversation
\* has been there, and the project live, since the turn was committed: coming back
\* to a project does not revive the runs from before the move.
Bindable(u) ==
    ~u.retired /\ conv[u.conv].status = "active" /\ conv[u.conv].ref = u.project
    /\ Live(u.project)
BindingLineage == \A u \in runs : Bindable(u) => moves[u.conv] = u.epoch

\* No task of a deleted project is active: not one that was created or resumed
\* while the project was being deleted.
TasksPaused ==
    \A t \in Tasks : task[t].status = "active" => Live(task[t].ref)

\* A deleted project is at rest: nothing a turn, a move, an archive or a task's
\* change does, begun before the deletion or after it, reaches what was deleted.
DeletedAtRest == MembersFrozen /\ TasksPaused

\* A deletion does what its owner is told of it, and nothing undoes it.
DeletionSound == DeletedAtRest /\ HonestReport

\* Every command of a deletion ends, released or blocked for good.
Ended(s) == release[s].state \in {"none", "released"} \/ (release[s].state = "blocked" /\ ~Recoverable(s))
EveryScopeEnds ==
    \A p \in Projects : project[p] = "deleted" ~> \A s \in Scope : s.project = p => Ended(s)
=============================================================================
