------------------------- MODULE ScheduledTaskProofs -------------------------
(***************************************************************************)
(* Theorems about ScheduledTask, for every number of dispatchers, commands *)
(* and faults.                                                             *)
(***************************************************************************)
EXTENDS ScheduledTask, TLAPS

-----------------------------------------------------------------------------
(* Types *)

LEMMA FaultTypes == faults \in 0..MaxFaults /\ Fault => faults' \in 0..MaxFaults
BY ConstantsAssumption DEF Fault

LEMMA InitTypes == Init => TypeOK
<1> SUFFICES ASSUME Init PROVE TypeOK
  OBVIOUS
<1>1. NoRow \in Command
  BY ConstantsAssumption DEF NoRow, Command, Open, Closed, Operations
<1>2. Resting \in Worker
  BY ConstantsAssumption DEF Resting, Worker
<1>3. job \in [present: BOOLEAN, by: 0..MaxCommands]
  BY ConstantsAssumption DEF Init, NoCommand
<1>4. task \in Task
  BY ConstantsAssumption DEF Init, Task
<1> QED
  BY ConstantsAssumption, <1>1, <1>2, <1>3, <1>4 DEF Init, TypeOK

\* A write adds a row of its type.
LEMMA WriteTypes ==
    ASSUME TypeOK, NEW operation \in Operations, NEW revision \in 0..MaxCommands,
           NEW active \in BOOLEAN, NEW created \in 0..MaxCommands,
           Writes(operation, revision, active, created)
    PROVE  /\ last' \in 0..MaxCommands
           /\ outbox' \in [Commands -> Command]
<1>1. last \in 0..MaxCommands /\ last < MaxCommands /\ last' = last + 1
  BY DEF TypeOK, Writes
<1>2. last' \in 0..MaxCommands /\ last + 1 \in Commands
  BY <1>1, ConstantsAssumption DEF Commands
<1>3. Pending(operation, revision, active, created) \in Command
  BY DEF Pending, Command, Open, Closed
<1> QED BY <1>2, <1>3 DEF TypeOK, Writes

LEMMA ChangeTypes == ASSUME TypeOK, Change PROVE TypeOK'
<1>1. /\ task \in Task /\ clock \in 0..MaxCommands /\ begun \subseteq Commands
      /\ Commands \subseteq 0..MaxCommands
  BY DEF TypeOK, Commands
<1>2. CASE CreateTask
  <2>1. clock' \in 0..MaxCommands /\ 1 \in 0..MaxCommands
    BY <1>1, <1>2, ConstantsAssumption DEF CreateTask
  <2>2. Writes("register", 1, TRUE, clock') /\ clock' = clock + 1
    BY <1>2 DEF CreateTask
  <2>3. task' \in Task
    BY <1>2, <2>1 DEF CreateTask, Task
  <2> QED BY <1>2, <2>1, <2>2, <2>3, WriteTypes DEF CreateTask, TypeOK, Operations, scheduler
<1>3. CASE BeginChange
  <2>1. clock' \in 0..MaxCommands /\ clock + 1 \in Commands
    BY <1>1, <1>3, ConstantsAssumption DEF BeginChange, Commands
  <2> QED BY <1>3, <2>1 DEF BeginChange, TypeOK, scheduler
<1>4. ASSUME NEW t \in Commands, NEW status \in {"active", "paused", "failed"},
             UpdateTask(t, status)
      PROVE  TypeOK'
  <2>1. task.revision + 1 \in 0..MaxCommands /\ t \in 0..MaxCommands
    BY <1>1, <1>4, ConstantsAssumption DEF UpdateTask, Task
  <2>2. task' \in Task
    BY <1>1, <1>4, <2>1 DEF UpdateTask, Task
  <2>3. Writes("replace", task.revision + 1, status = "active", t)
    BY <1>4 DEF UpdateTask
  <2>4. last' \in 0..MaxCommands /\ outbox' \in [Commands -> Command]
    BY <2>1, <2>3, WriteTypes DEF Operations
  <2> QED BY <1>4, <2>2, <2>4 DEF UpdateTask, Locks, TypeOK, scheduler
<1>5. ASSUME NEW t \in Commands, DeleteTask(t) PROVE TypeOK'
  <2>1. task.revision \in 0..MaxCommands /\ t \in 0..MaxCommands /\ task' \in Task
    BY <1>1, <1>5 DEF DeleteTask, Task
  <2>2. Writes("delete", task.revision, task.status = "active", t)
    BY <1>5 DEF DeleteTask
  <2>3. last' \in 0..MaxCommands /\ outbox' \in [Commands -> Command]
    BY <2>1, <2>2, WriteTypes DEF Operations
  <2> QED BY <1>5, <2>1, <2>3 DEF DeleteTask, Locks, TypeOK, scheduler
<1>6. ASSUME NEW t \in Commands, ChangeNothing(t) PROVE TypeOK'
  BY <1>6 DEF ChangeNothing, Locks, TypeOK, scheduler
<1> QED BY <1>2, <1>3, <1>4, <1>5, <1>6 DEF Change

\* A worker that is not idle has a command.
LEMMA BusyTypes ==
    ASSUME TypeOK, NEW w \in Workers, worker[w].pc # "idle"
    PROVE  worker[w] \in [pc: {"calling", "waiting", "settling"}, command: Commands,
                          fence: Nat, attempts: Nat, call: Calls,
                          outcome: {"none", "succeeded", "retryable", "failed"}]
BY DEF TypeOK, Worker, Resting

\* What a worker hears leaves it a worker.
LEMMA HeardTypes ==
    ASSUME TypeOK, NEW w \in Workers, worker[w].pc = "waiting", NEW answer
    PROVE  Heard(w, answer) \in Worker
BY BusyTypes DEF Heard, Worker, Calls

LEMMA ClaimTypes ==
    ASSUME TypeOK, NEW w \in Workers, NEW c \in Commands, Claim(w, c)
    PROVE  TypeOK'
<1>1. outbox[c] \in Command
  BY DEF TypeOK
<1>2. outbox[c].fence + 1 \in Nat /\ outbox[c].attempts + 1 \in Nat
  BY <1>1 DEF Command
<1>3. FirstCall(outbox[c].operation) \in Calls
  BY <1>1 DEF FirstCall, Calls, Command, Operations
<1>4. [pc |-> "calling", command |-> c, fence |-> outbox[c].fence + 1,
       attempts |-> outbox[c].attempts + 1,
       call |-> FirstCall(outbox[c].operation), outcome |-> "none"] \in Worker
  BY <1>2, <1>3 DEF Worker
<1>5. outbox' \in [Commands -> Command]
  <2>1. [outbox[c] EXCEPT !.status = "leased", !.fence = outbox[c].fence + 1,
                          !.attempts = outbox[c].attempts + 1, !.due = FALSE] \in Command
    BY <1>1, <1>2 DEF Command, Open
  <2> QED BY <2>1 DEF Claim, TypeOK
<1> QED BY <1>4, <1>5 DEF Claim, TypeOK, scheduler

\* A call, its failure and a death keep the types.
LEMMA CallTypes ==
    ASSUME TypeOK, NEW w \in Workers, Call(w) \/ CallFails(w) \/ Crash(w)
    PROVE  TypeOK'
<1>1. CASE Call(w)
  <2>1. worker' \in [Workers -> Worker]
    BY <1>1, BusyTypes DEF Call, TypeOK, Worker
  <2>2. requests' \subseteq Request
    BY <1>1, BusyTypes DEF Call, TypeOK, Request
  <2> QED BY <1>1, <2>1, <2>2 DEF Call, TypeOK, taskVars
<1>2. CASE CallFails(w)
  <2>1. worker' \in [Workers -> Worker]
    BY <1>2, BusyTypes DEF CallFails, TypeOK, Worker
  <2>2. requests' \subseteq Request
    BY <1>2 DEF CallFails, TypeOK
  <2> QED BY <1>2, <2>1, <2>2, FaultTypes DEF CallFails, TypeOK, taskVars
<1>3. CASE Crash(w)
  BY <1>3, FaultTypes DEF Crash, Rests, Worker, TypeOK, taskVars, scheduler
<1> QED BY <1>1, <1>2, <1>3

LEMMA SettleTypes ==
    ASSUME TypeOK, NEW w \in Workers, Settle(w)
    PROVE  TypeOK'
<1>1. worker[w].pc # "idle" /\ worker' \in [Workers -> Worker]
  BY DEF Settle, MarkSucceeded, MarkRetryable, MarkFailed, Rests, TypeOK, Worker
<1>2. worker[w].command \in Commands /\ outbox[worker[w].command] \in Command
  BY <1>1, BusyTypes DEF TypeOK
<1>3. CASE MarkSucceeded(w)
  <2>1. outbox' \in [Commands -> Command]
    BY <1>2, <1>3 DEF MarkSucceeded, TypeOK, Command, Closed
  <2> QED BY <1>1, <1>3, <2>1 DEF MarkSucceeded, TypeOK, scheduler
<1>4. CASE MarkRetryable(w)
  <2>1. outbox' \in [Commands -> Command]
    BY <1>2, <1>4 DEF MarkRetryable, TypeOK, Command, Open
  <2> QED BY <1>1, <1>4, <2>1 DEF MarkRetryable, TypeOK, scheduler
<1>5. CASE MarkFailed(w)
  <2>1. PICK doubt \in BOOLEAN : doubt = InDoubt(w)
    BY DEF InDoubt
  <2> HIDE DEF InDoubt
  <2>2. outbox' \in [Commands -> Command]
    <3>1. CASE Holds(w)
      <4>1. outbox' = [outbox EXCEPT ![worker[w].command].status = "failed",
                                     ![worker[w].command].doubt = doubt]
        BY <1>5, <2>1, <3>1 DEF MarkFailed
      <4> QED BY <1>2, <4>1 DEF TypeOK, Command, Closed
    <3>2. CASE ~Holds(w)
      BY <1>5, <3>2 DEF MarkFailed, TypeOK
    <3> QED BY <3>1, <3>2
  <2>3. task' \in Task
    BY <1>5 DEF MarkFailed, TypeOK, Task
  <2> QED BY <1>1, <1>5, <2>2, <2>3 DEF MarkFailed, TypeOK, scheduler
<1> QED BY <1>3, <1>4, <1>5 DEF Settle

LEMMA HandleTypes == ASSUME TypeOK, NEW r \in requests, Handle(r) PROVE TypeOK'
<1>1. r \in Request /\ r.command \in 0..MaxCommands
  BY DEF TypeOK, Request, Commands
<1>2. worker' \in [Workers -> Worker]
  <2> SUFFICES ASSUME NEW w \in Workers
               PROVE  (IF Waits(w, r) THEN Heard(w, Answer(r)) ELSE worker[w]) \in Worker
    BY DEF Handle
  <2>1. CASE Waits(w, r)
    BY <2>1, HeardTypes DEF Waits
  <2>2. CASE ~Waits(w, r)
    BY <2>2 DEF TypeOK
  <2> QED BY <2>1, <2>2
<1>3. Answer(r) \in {"none", "done", "missing", "exists"}
  BY <1>1 DEF Answer, TypeOK, Request
<1>4. answers' \in [Commands \X Calls -> {"none", "done", "missing", "exists"}]
  BY <1>3 DEF Handle, Obeys, TypeOK
<1>5. job' \in [present: BOOLEAN, by: 0..MaxCommands]
  BY <1>1 DEF Handle, Obeys, TypeOK
<1> QED BY <1>2, <1>4, <1>5 DEF Handle, TypeOK, taskVars

LEMMA FallsDueTypes == ASSUME TypeOK, NEW c \in Commands, FallsDue(c) PROVE TypeOK'
<1>1. outbox' \in [Commands -> Command]
  BY DEF FallsDue, TypeOK, Command
<1>2. faults' \in 0..MaxFaults
  BY FaultTypes DEF FallsDue, TypeOK
<1> QED BY <1>1, <1>2 DEF FallsDue, TypeOK, scheduler

LEMMA NextTypes == TypeOK /\ [Next]_vars => TypeOK'
<1> SUFFICES ASSUME TypeOK, [Next]_vars PROVE TypeOK'
  OBVIOUS
<1>1. CASE Next
  BY <1>1, ChangeTypes, ClaimTypes, CallTypes, SettleTypes, HandleTypes, FallsDueTypes DEF Next
<1>2. CASE UNCHANGED vars
  BY <1>2 DEF vars, TypeOK
<1> QED BY <1>1, <1>2

\* TypeOK: every variable keeps its type, for all numbers of dispatchers,
\* commands, attempts and faults (the CHECKs of bff_scheduled_task_outbox).
THEOREM TypeCorrect == Spec => []TypeOK
BY InitTypes, NextTypes, PTL DEF Spec

-----------------------------------------------------------------------------
(* What a step does to the rows *)

\* What a change of the task wrote stays; tickets are never taken back; a closed
\* row is left alone.
RowKept(c) ==
    /\ outbox'[c].operation = outbox[c].operation
    /\ outbox'[c].revision = outbox[c].revision
    /\ outbox'[c].active = outbox[c].active
    /\ outbox'[c].created = outbox[c].created
    /\ outbox'[c].fence >= outbox[c].fence
    /\ outbox'[c].attempts >= outbox[c].attempts
    /\ outbox'[c].status = "absent" <=> outbox[c].status = "absent"
    /\ outbox[c].status \in Closed => outbox'[c] = outbox[c]

LEMMA SameKept ==
    ASSUME TypeOK, NEW c \in Commands, outbox'[c] = outbox[c]
    PROVE  RowKept(c)
<1>1. outbox[c].fence \in Nat /\ outbox[c].attempts \in Nat
  BY DEF TypeOK, Command
<1> QED BY <1>1 DEF RowKept

\* The steps that write no command.
Quiet ==
    /\ last' = last /\ clock' = clock /\ begun' = begun
    /\ \A c \in Commands : RowKept(c)
    /\ \/ task' = task
       \/ task.status = "active" /\ task' = [task EXCEPT !.status = "failed"]

LEMMA ClaimQuiet ==
    ASSUME TypeOK, NEW w \in Workers, NEW c \in Commands, Claim(w, c)
    PROVE  Quiet
<1>1. \A d \in Commands \ {c} : outbox'[d] = outbox[d]
  BY DEF Claim, TypeOK
<1>2. RowKept(c)
  <2>1. outbox[c].fence \in Nat /\ outbox[c].attempts \in Nat
    BY DEF TypeOK, Command
  <2> QED BY <2>1 DEF Claim, Claimable, IsHead, RowKept, Open, Closed, TypeOK, Command
<1> QED BY <1>1, <1>2, SameKept DEF Quiet, Claim

LEMMA SettleQuiet == ASSUME TypeOK, NEW w \in Workers, Settle(w) PROVE Quiet
<1> DEFINE c == worker[w].command
<1>1. c \in Commands
  <2>1. worker[w].pc # "idle"
    BY DEF Settle, MarkSucceeded, MarkRetryable, MarkFailed
  <2> QED BY <2>1, BusyTypes
<1>2. \A d \in Commands \ {c} : outbox'[d] = outbox[d]
  BY DEF Settle, MarkSucceeded, MarkRetryable, MarkFailed, TypeOK
<1>3. outbox[c].fence \in Nat /\ outbox[c].attempts \in Nat
  BY <1>1 DEF TypeOK, Command
<1> HIDE DEF InDoubt, Exhausted, FailsTask, Rests
<1>4. RowKept(c)
  <2>1. CASE ~Holds(w)
    <3>1. outbox' = outbox
      BY <2>1 DEF Settle, MarkSucceeded, MarkRetryable, MarkFailed
    <3> QED BY <1>1, <3>1, SameKept
  <2>2. CASE Holds(w) /\ MarkSucceeded(w)
    BY <1>1, <1>3, <2>2 DEF Holds, MarkSucceeded, RowKept, Closed, TypeOK, Command
  <2>3. CASE Holds(w) /\ MarkRetryable(w)
    BY <1>1, <1>3, <2>3 DEF Holds, MarkRetryable, RowKept, Closed, TypeOK, Command
  <2>4. CASE Holds(w) /\ MarkFailed(w)
    BY <1>1, <1>3, <2>4 DEF Holds, MarkFailed, RowKept, Closed, TypeOK, Command
  <2> QED BY <2>1, <2>2, <2>3, <2>4 DEF Settle
<1>5. \A d \in Commands : RowKept(d)
  BY <1>2, <1>4, SameKept
<1>6. last' = last /\ clock' = clock /\ begun' = begun
  BY DEF Settle, MarkSucceeded, MarkRetryable, MarkFailed
<1>7. \/ task' = task
      \/ task.status = "active" /\ task' = [task EXCEPT !.status = "failed"]
  BY DEF Settle, MarkSucceeded, MarkRetryable, MarkFailed, FailsTask
<1> QED BY <1>5, <1>6, <1>7 DEF Quiet

LEMMA OthersQuiet ==
    ASSUME TypeOK,
           \/ \E w \in Workers : Call(w) \/ CallFails(w) \/ Crash(w)
           \/ \E r \in requests : Handle(r)
           \/ \E c \in Commands : FallsDue(c)
           \/ UNCHANGED vars
    PROVE  Quiet
<1>1. ASSUME UNCHANGED taskVars PROVE Quiet
  BY <1>1, SameKept DEF Quiet, taskVars
<1>2. ASSUME NEW c \in Commands, FallsDue(c) PROVE Quiet
  <2>1. \A d \in Commands \ {c} : outbox'[d] = outbox[d]
    BY <1>2 DEF FallsDue, TypeOK
  <2>2. RowKept(c)
    <3>1. outbox[c].fence \in Nat /\ outbox[c].attempts \in Nat
      BY DEF TypeOK, Command
    <3> QED BY <1>2, <3>1 DEF FallsDue, RowKept, Closed, TypeOK, Command
  <2> QED BY <1>2, <2>1, <2>2, SameKept DEF FallsDue, Quiet
<1> QED BY <1>1, <1>2 DEF Call, CallFails, Crash, Handle, vars, taskVars

\* A step that is not a change of the task is quiet.
LEMMA StepsAreQuiet == ASSUME TypeOK, [Next]_vars PROVE Change \/ Quiet
BY ClaimQuiet, SettleQuiet, OthersQuiet DEF Next

\* A write leaves the other rows alone.
LEMMA WriteRows ==
    ASSUME TypeOK, NEW operation, NEW revision, NEW active, NEW created,
           Writes(operation, revision, active, created)
    PROVE  /\ last + 1 \in Commands
           /\ last' = last + 1
           /\ outbox'[last + 1] = Pending(operation, revision, active, created)
           /\ \A c \in Commands : c # last + 1 => outbox'[c] = outbox[c]
<1>1. last + 1 \in Commands
  BY ConstantsAssumption DEF Writes, TypeOK, Commands
<1> QED BY <1>1 DEF Writes, TypeOK

\* What was written stays what it is, and closed rows stay closed.
LEMMA WrittenKept ==
    ASSUME TypeOK, RowsInv, [Next]_vars, NEW c \in Commands, c <= last
    PROVE  RowKept(c)
<1>1. CASE Quiet
  BY <1>1 DEF Quiet
<1>2. CASE Change
  <2>1. last \in Nat /\ c \in Nat /\ c # last + 1
    BY DEF TypeOK, Commands
  <2>2. CASE BeginChange \/ \E t \in Commands : ChangeNothing(t)
    <3>1. outbox' = outbox
      BY <2>2 DEF BeginChange, ChangeNothing
    <3> QED BY <3>1, SameKept
  <2>3. CASE ~(BeginChange \/ \E t \in Commands : ChangeNothing(t))
    <3>1. PICK operation, revision, active, created :
             Writes(operation, revision, active, created)
      BY <1>2, <2>3 DEF Change, CreateTask, UpdateTask, DeleteTask
    <3> QED BY <2>1, <3>1, WriteRows, SameKept
  <2> QED BY <2>2, <2>3
<1> QED BY <1>1, <1>2, StepsAreQuiet

-----------------------------------------------------------------------------
(* Rows, revisions and the order of both *)

LEMMA InitInv == Init => TaskInv
<1> SUFFICES ASSUME Init PROVE TaskInv
  OBVIOUS
<1>1. \A c \in Commands : outbox[c] = NoRow /\ ~(c <= last)
  BY DEF Init, Commands
<1>2. RowsInv /\ RevisionInv
  BY <1>1 DEF RowsInv, RevisionInv, NoRow, Init, Commands
<1>3. TicketsInv
  BY DEF TicketsInv, Init, Resting
<1> QED BY <1>2, <1>3 DEF TaskInv

\* What the changes of the task do to the task, the clock and the transactions.
LEMMA CreateStep ==
    ASSUME TypeOK, RowsInv, CreateTask
    PROVE  /\ last = 0 /\ last' = 1 /\ 1 \in Commands
           /\ begun' = begun
           /\ clock \in Nat /\ clock' = clock + 1
           /\ outbox'[1] = Pending("register", 1, TRUE, clock + 1)
           /\ \A c \in Commands : c # 1 => outbox'[c] = outbox[c]
           /\ task' = [stage |-> "present", revision |-> 1, status |-> "active"]
<1>1. last = 0 /\ clock \in Nat
  BY DEF CreateTask, RowsInv, TypeOK
<1>2. Writes("register", 1, TRUE, clock + 1)
  BY DEF CreateTask
<1>3. /\ last' = last + 1 /\ last + 1 \in Commands
      /\ outbox'[last + 1] = Pending("register", 1, TRUE, clock + 1)
      /\ \A c \in Commands : c # last + 1 => outbox'[c] = outbox[c]
  BY <1>2, WriteRows
<1>4. last + 1 = 1
  BY <1>1
<1> QED BY <1>1, <1>3, <1>4 DEF CreateTask

\* An update or a deletion, of which only its row matters.
Locked(t, operation, revision, active) ==
    /\ t \in begun /\ begun' = begun \ {t}
    /\ clock' = clock
    /\ last + 1 \in Commands /\ last' = last + 1
    /\ outbox'[last + 1] = Pending(operation, revision, active, t)
    /\ \A c \in Commands : c # last + 1 => outbox'[c] = outbox[c]
    /\ task.stage = "present"

LEMMA UpdateStep ==
    ASSUME TypeOK, NEW t \in Commands, NEW status, UpdateTask(t, status)
    PROVE  /\ Locked(t, "replace", task.revision + 1, status = "active")
           /\ task' = [task EXCEPT !.revision = task.revision + 1, !.status = status]
<1>1. Writes("replace", task.revision + 1, status = "active", t)
  BY DEF UpdateTask
<1>2. /\ last' = last + 1 /\ last + 1 \in Commands
      /\ outbox'[last + 1] = Pending("replace", task.revision + 1, status = "active", t)
      /\ \A c \in Commands : c # last + 1 => outbox'[c] = outbox[c]
  BY <1>1, WriteRows
<1> QED BY <1>2 DEF UpdateTask, Locks, Locked

LEMMA DeleteStep ==
    ASSUME TypeOK, NEW t \in Commands, DeleteTask(t)
    PROVE  /\ Locked(t, "delete", task.revision, task.status = "active")
           /\ task' = [task EXCEPT !.stage = "deleted"]
<1>1. Writes("delete", task.revision, task.status = "active", t)
  BY DEF DeleteTask
<1>2. /\ last' = last + 1 /\ last + 1 \in Commands
      /\ outbox'[last + 1] = Pending("delete", task.revision, task.status = "active", t)
      /\ \A c \in Commands : c # last + 1 => outbox'[c] = outbox[c]
  BY <1>1, WriteRows
<1> QED BY <1>2 DEF DeleteTask, Locks, Locked

LEMMA NumberTypes ==
    ASSUME TypeOK
    PROVE  /\ last \in Nat /\ clock \in Nat /\ task.revision \in Nat
           /\ \A c \in Commands : /\ c \in Nat
                                  /\ outbox[c].created \in Nat
                                  /\ outbox[c].revision \in Nat
                                  /\ outbox[c].fence \in Nat
                                  /\ outbox[c].attempts \in Nat
           /\ begun \subseteq Nat
BY DEF TypeOK, Command, Task, Commands

\* A locked transaction keeps the rows numbered.
LEMMA LockedKeeps ==
    ASSUME TypeOK, RowsInv,
           NEW t \in Commands, NEW operation, NEW revision, NEW active,
           Locked(t, operation, revision, active), task'.stage # "absent"
    PROVE  RowsInv'
<1> USE NumberTypes
<1>1. /\ outbox'[last + 1].status = "pending" /\ outbox'[last + 1].created = t
      /\ t \in begun /\ t \in Nat
  BY DEF Locked, Pending
<1>2. \A c \in Commands : /\ c <= last + 1 <=> outbox'[c].status # "absent"
                          /\ outbox'[c].created <= clock
  <2> TAKE c \in Commands
  <2>1. CASE c = last + 1
    BY <1>1, <2>1 DEF RowsInv
  <2>2. CASE c # last + 1
    <3>1. outbox'[c] = outbox[c] /\ (c <= last + 1 <=> c <= last)
      BY <2>2 DEF Locked
    <3> QED BY <3>1 DEF RowsInv
  <2> QED BY <2>1, <2>2
<1>3. \A u \in begun' : u <= clock'
  BY DEF RowsInv, Locked
<1> QED BY <1>2, <1>3 DEF RowsInv, Locked

LEMMA RowsStay ==
    ASSUME TypeOK, RowsInv, [Next]_vars
    PROVE  RowsInv'
<1> USE NumberTypes
<1>1. CASE Quiet
  <2>1. /\ last' = last /\ clock' = clock /\ begun' = begun /\ task'.stage = task.stage
        /\ \A c \in Commands : /\ outbox'[c].created = outbox[c].created
                               /\ outbox'[c].status = "absent" <=> outbox[c].status = "absent"
    BY <1>1 DEF Quiet, RowKept, TypeOK, Task
  <2> QED BY <2>1 DEF RowsInv
<1>2. CASE CreateTask
  <2>1. /\ last = 0 /\ last' = 1 /\ clock' = clock + 1
        /\ begun' = begun
        /\ outbox'[1].status = "pending" /\ outbox'[1].created = clock + 1
        /\ \A c \in Commands : c # 1 => outbox'[c] = outbox[c]
        /\ task'.stage = "present"
    BY <1>2, CreateStep DEF Pending
  <2>2. \A c \in Commands : /\ c <= 1 <=> outbox'[c].status # "absent"
                            /\ outbox'[c].created <= clock + 1
    <3> TAKE c \in Commands
    <3>1. c >= 1
      BY DEF Commands
    <3> QED BY <2>1, <3>1 DEF RowsInv
  <2> QED BY <2>1, <2>2 DEF RowsInv
<1>3. CASE BeginChange
  <2>1. /\ task' = task /\ outbox' = outbox /\ last' = last
        /\ clock' = clock + 1 /\ begun' = begun \cup {clock + 1}
    BY <1>3 DEF BeginChange
  <2>2. \A c \in Commands : outbox[c].created < clock + 1
    BY DEF RowsInv
  <2> QED BY <2>1, <2>2 DEF RowsInv
<1>4. ASSUME NEW t \in Commands, NEW status \in {"active", "paused", "failed"},
             UpdateTask(t, status)
      PROVE  RowsInv'
  <2>1. /\ Locked(t, "replace", task.revision + 1, status = "active")
        /\ task' = [task EXCEPT !.revision = task.revision + 1, !.status = status]
    BY <1>4, UpdateStep
  <2>2. task'.stage # "absent"
    BY <2>1 DEF Locked, TypeOK, Task
  <2> QED BY <2>1, <2>2, LockedKeeps
<1>5. ASSUME NEW t \in Commands, DeleteTask(t) PROVE RowsInv'
  <2>1. /\ Locked(t, "delete", task.revision, task.status = "active")
        /\ task' = [task EXCEPT !.stage = "deleted"]
    BY <1>5, DeleteStep
  <2>2. task'.stage # "absent"
    BY <2>1 DEF TypeOK, Task
  <2> QED BY <2>1, <2>2, LockedKeeps
<1>6. ASSUME NEW t \in Commands, ChangeNothing(t) PROVE RowsInv'
  <2>1. /\ task' = task /\ outbox' = outbox /\ last' = last /\ clock' = clock
        /\ begun' = begun \ {t}
    BY <1>6 DEF ChangeNothing, Locks
  <2> QED BY <2>1 DEF RowsInv
<1> QED BY <1>1, <1>2, <1>3, <1>4, <1>5, <1>6, StepsAreQuiet DEF Change

LEMMA RevisionsKept ==
    ASSUME TypeOK, RowsInv, RevisionInv, [Next]_vars
    PROVE  RevisionInv'
<1> USE NumberTypes
<1>1. CASE Quiet
  <2>1. /\ last' = last /\ task'.revision = task.revision
        /\ task'.status = task.status \/ task'.status = "failed"
        /\ \A c \in Commands : /\ outbox'[c].revision = outbox[c].revision
                               /\ outbox'[c].operation = outbox[c].operation
                               /\ outbox'[c].active = outbox[c].active
    BY <1>1 DEF Quiet, RowKept, TypeOK, Task
  <2> QED BY <2>1 DEF RevisionInv
<1>2. CASE CreateTask
  <2>1. /\ last' = 1 /\ outbox'[1].revision = 1
        /\ task'.revision = 1 /\ task'.status = "active"
    BY <1>2, CreateStep DEF Pending
  <2>2. \A c \in Commands : c <= 1 => c = 1
    BY DEF Commands
  <2> QED BY <2>1, <2>2 DEF RevisionInv
<1>3. CASE BeginChange \/ \E t \in Commands : ChangeNothing(t)
  BY <1>3 DEF BeginChange, ChangeNothing, RevisionInv
<1>4. ASSUME NEW t \in Commands, NEW status \in {"active", "paused", "failed"},
             UpdateTask(t, status)
      PROVE  RevisionInv'
  <2> PICK active \in BOOLEAN : active = (status = "active")
    OBVIOUS
  <2>0. /\ Locked(t, "replace", task.revision + 1, active)
        /\ task' = [task EXCEPT !.revision = task.revision + 1, !.status = status]
    BY <1>4, UpdateStep
  <2>1. /\ last' = last + 1
        /\ outbox'[last + 1].operation = "replace"
        /\ outbox'[last + 1].revision = task.revision + 1
        /\ outbox'[last + 1].active = active
        /\ \A c \in Commands : c # last + 1 => outbox'[c] = outbox[c]
        /\ task'.revision = task.revision + 1 /\ task'.status = status
    BY <2>0 DEF Locked, Pending, TypeOK, Task
  <2>2. \A c \in Commands : c <= last + 1 /\ c # last + 1 => c <= last
    OBVIOUS
  <2> SUFFICES ASSUME NEW c \in Commands, c <= last + 1
               PROVE  /\ outbox'[c].revision <= task'.revision
                      /\ outbox'[c].operation # "delete" /\ outbox'[c].revision = task'.revision
                            /\ outbox'[c].active => task'.status # "paused"
    BY <2>1 DEF RevisionInv
  <2>3. CASE c = last + 1
    <3>1. active => task'.status # "paused"
      <4>1. CASE status = "active"
        BY <2>1, <4>1
      <4>2. CASE status # "active"
        BY <4>2
      <4> QED BY <4>1, <4>2
    <3>2. outbox'[c].active => task'.status # "paused"
      <4>1. outbox'[c].active = active
        BY <2>1, <2>3
      <4> QED BY <3>1, <4>1, Zenon
    <3>3. outbox'[c].revision = task'.revision /\ task'.revision \in Nat
      BY <2>1, <2>3
    <3> QED BY <3>2, <3>3
  <2>4. CASE c # last + 1
    <3>1. outbox'[c] = outbox[c] /\ outbox[c].revision <= task.revision
      BY <2>1, <2>2, <2>4 DEF RevisionInv
    <3>2. outbox'[c].revision < task'.revision
      BY <2>1, <3>1
    <3>3. outbox'[c].revision \in Nat /\ task'.revision \in Nat
      BY <2>1, <3>1
    <3> QED BY <3>2, <3>3
  <2> QED BY <2>3, <2>4
<1>5. ASSUME NEW t \in Commands, DeleteTask(t) PROVE RevisionInv'
  <2>1. /\ last' = last + 1
        /\ outbox'[last + 1] = Pending("delete", task.revision, task.status = "active", t)
        /\ \A c \in Commands : c # last + 1 => outbox'[c] = outbox[c]
        /\ task'.revision = task.revision /\ task'.status = task.status
    BY <1>5, DeleteStep DEF Locked, TypeOK, Task
  <2> SUFFICES ASSUME NEW c \in Commands, c <= last + 1
               PROVE  /\ outbox'[c].revision <= task'.revision
                      /\ outbox'[c].operation # "delete" /\ outbox'[c].revision = task'.revision
                            /\ outbox'[c].active => task'.status # "paused"
    BY <2>1 DEF RevisionInv
  <2>2. CASE c = last + 1
    BY <2>1, <2>2 DEF Pending
  <2>3. CASE c # last + 1
    BY <2>1, <2>3 DEF RevisionInv
  <2> QED BY <2>2, <2>3
<1> QED BY <1>1, <1>2, <1>3, <1>4, <1>5, StepsAreQuiet DEF Change

-----------------------------------------------------------------------------
(* Claims in memory *)

\* A worker that is not idle has just claimed, or had its claim before.
LEMMA ClaimsComeFromRows ==
    ASSUME TypeOK, [Next]_vars, NEW w \in Workers, worker'[w].pc # "idle"
    PROVE  \/ \E c \in Commands : Claim(w, c)
           \/ /\ worker[w].pc # "idle"
              /\ worker'[w].command = worker[w].command
              /\ worker'[w].fence = worker[w].fence
              /\ worker'[w].attempts = worker[w].attempts
<1> DEFINE Goal == \/ \E c \in Commands : Claim(w, c)
                   \/ /\ worker[w].pc # "idle"
                      /\ worker'[w].command = worker[w].command
                      /\ worker'[w].fence = worker[w].fence
                      /\ worker'[w].attempts = worker[w].attempts
<1> SUFFICES Goal
  OBVIOUS
<1>1. CASE worker' = worker
  BY <1>1
<1>2. ASSUME NEW v \in Workers, NEW c \in Commands, Claim(v, c) PROVE Goal
  BY <1>2 DEF Claim, TypeOK
<1>3. ASSUME NEW v \in Workers, Call(v) \/ CallFails(v) \/ Settle(v) \/ Crash(v) PROVE Goal
  <2>1. CASE v = w
    <3>1. worker[w].pc # "idle"
      BY <1>3, <2>1 DEF Call, CallFails, Settle, MarkSucceeded, MarkRetryable, MarkFailed, Crash
    <3>2. worker[w] \in [pc: {"calling", "waiting", "settling"}, command: Commands,
                         fence: Nat, attempts: Nat, call: Calls,
                         outcome: {"none", "succeeded", "retryable", "failed"}]
      BY <3>1, BusyTypes
    <3>3. CASE Call(w)
      BY <3>1, <3>2, <3>3 DEF Call, TypeOK
    <3>4. CASE CallFails(w)
      BY <3>1, <3>2, <3>4 DEF CallFails, TypeOK
    <3>5. CASE Settle(w) \/ Crash(w)
      <4>1. worker'[w] = Resting
        BY <3>5 DEF Settle, MarkSucceeded, MarkRetryable, MarkFailed, Crash, Rests, TypeOK
      <4> QED BY <4>1 DEF Resting
    <3> QED BY <1>3, <2>1, <3>3, <3>4, <3>5
  <2>2. CASE v # w
    <3>1. worker'[w] = worker[w]
      BY <1>3, <2>2 DEF Call, CallFails, Settle, MarkSucceeded, MarkRetryable, MarkFailed,
                        Crash, Rests, TypeOK
    <3> QED BY <3>1
  <2> QED BY <2>1, <2>2
<1>4. ASSUME NEW r \in requests, Handle(r) PROVE Goal
  <2>1. worker'[w] = IF Waits(w, r) THEN Heard(w, Answer(r)) ELSE worker[w]
    BY <1>4 DEF Handle
  <2>2. CASE Waits(w, r)
    <3>1. worker[w].pc # "idle"
      BY <2>2 DEF Waits
    <3>2. worker[w] \in [pc: {"calling", "waiting", "settling"}, command: Commands,
                         fence: Nat, attempts: Nat, call: Calls,
                         outcome: {"none", "succeeded", "retryable", "failed"}]
      BY <3>1, BusyTypes
    <3> QED BY <2>1, <2>2, <3>1, <3>2 DEF Heard
  <2>3. CASE ~Waits(w, r)
    BY <2>1, <2>3
  <2> QED BY <2>2, <2>3
<1>5. CASE Change \/ (\E c \in Commands : FallsDue(c)) \/ UNCHANGED vars
  <2>1. worker' = worker
    BY <1>5 DEF Change, CreateTask, BeginChange, UpdateTask, DeleteTask, ChangeNothing,
                FallsDue, vars
  <2> QED BY <1>1, <2>1
<1> HIDE DEF Goal
<1> QED BY <1>2, <1>3, <1>4, <1>5 DEF Next

LEMMA LastGrows == ASSUME TypeOK, [Next]_vars PROVE last' >= last /\ last' \in Nat
<1>1. CASE Quiet
  BY <1>1, NumberTypes DEF Quiet
<1>2. CASE Change
  <2>1. last' = last \/ last' = last + 1
    BY <1>2 DEF Change, CreateTask, BeginChange, UpdateTask, DeleteTask, ChangeNothing, Writes
  <2> QED BY <2>1, NumberTypes
<1> QED BY <1>1, <1>2, StepsAreQuiet

LEMMA TicketsKept ==
    ASSUME TypeOK, RowsInv, TicketsInv, [Next]_vars
    PROVE  TicketsInv'
<1> USE NumberTypes
<1> SUFFICES ASSUME NEW w \in Workers, worker'[w].pc # "idle"
             PROVE  /\ worker'[w].command \in 1..last'
                    /\ worker'[w].fence <= outbox'[worker'[w].command].fence
                    /\ worker'[w].attempts <= outbox'[worker'[w].command].attempts
  BY DEF TicketsInv
<1>1. last' >= last /\ last' \in Nat
  BY LastGrows
<1>2. CASE \E c \in Commands : Claim(w, c)
  <2>1. PICK c \in Commands : Claim(w, c)
    BY <1>2
  <2>2. /\ worker'[w].command = c
        /\ worker'[w].fence = outbox[c].fence + 1 /\ outbox'[c].fence = outbox[c].fence + 1
        /\ worker'[w].attempts = outbox[c].attempts + 1
        /\ outbox'[c].attempts = outbox[c].attempts + 1
    BY <2>1 DEF Claim, TypeOK, Command
  <2>3. c \in 1..last
    BY <2>1 DEF Claim, Claimable, IsHead, Open, RowsInv, Commands
  <2> QED BY <1>1, <2>2, <2>3
<1>3. CASE ~\E c \in Commands : Claim(w, c)
  <2>1. /\ worker[w].pc # "idle"
        /\ worker'[w].command = worker[w].command
        /\ worker'[w].fence = worker[w].fence
        /\ worker'[w].attempts = worker[w].attempts
    BY <1>3, ClaimsComeFromRows
  <2>2. PICK c \in Commands : c = worker[w].command /\ c <= last /\ c \in 1..last'
    BY <1>1, <2>1, BusyTypes DEF TicketsInv
  <2>3. RowKept(c)
    BY <2>2, WrittenKept
  <2>4. /\ worker[w].fence <= outbox[c].fence /\ worker[w].attempts <= outbox[c].attempts
        /\ worker[w].fence \in Nat /\ worker[w].attempts \in Nat
        /\ outbox[c].fence \in Nat /\ outbox[c].attempts \in Nat
    BY <2>1, <2>2, BusyTypes DEF TicketsInv
  <2>5. outbox'[c].fence \in Nat /\ outbox'[c].attempts \in Nat
    <3>1. TypeOK'
      BY NextTypes
    <3> QED BY <3>1 DEF TypeOK, Command
  <2> QED BY <2>1, <2>2, <2>3, <2>4, <2>5 DEF RowKept
<1> QED BY <1>2, <1>3

LEMMA StepInv == TypeOK /\ TaskInv /\ [Next]_vars => TaskInv'
BY RowsStay, RevisionsKept, TicketsKept DEF TaskInv

\* TaskInv: rows are numbered as they commit and never ahead of the task; the row
\* of the current revision carries its status; claims in memory are claims the
\* rows gave out (the transactions of scheduled-task-repository.ts).
THEOREM TaskCorrect == Spec => []TaskInv
<1>1. Init => TypeOK /\ TaskInv
  BY InitTypes, InitInv
<1>2. TypeOK /\ TaskInv /\ [Next]_vars => (TypeOK /\ TaskInv)'
  BY NextTypes, StepInv
<1> QED BY <1>1, <1>2, PTL DEF Spec

-----------------------------------------------------------------------------
(* What follows for claims and settlements *)

LEMMA TypedInv == Spec => [](TypeOK /\ TaskInv)
BY TypeCorrect, TaskCorrect, PTL

\* ClosedIsFinal: a settled command is never changed again, although workers whose
\* lease was taken over still settle (the fence of scheduled-task-repository.ts:542).
THEOREM ClosedStaysClosed == Spec => ClosedIsFinal
<1>1. TypeOK /\ TaskInv /\ [Next]_vars
      => \A c \in Commands : outbox[c].status \in Closed => outbox'[c] = outbox[c]
  <2> SUFFICES ASSUME TypeOK, TaskInv, [Next]_vars, NEW c \in Commands,
                      outbox[c].status \in Closed
               PROVE  outbox'[c] = outbox[c]
    OBVIOUS
  <2>1. c <= last
    BY DEF TaskInv, RowsInv, Closed
  <2> QED BY <2>1, WrittenKept DEF TaskInv, RowKept
<1>2. [](TypeOK /\ TaskInv) /\ [][Next]_vars => ClosedIsFinal
  BY <1>1, PTL DEF ClosedIsFinal
<1> QED BY <1>2, TypedInv, PTL DEF Spec

\* A row becomes leased when it is the head of the open rows.
LEMMA LeasedAtHead ==
    ASSUME TypeOK, [Next]_vars, NEW c \in Commands,
           outbox'[c].status = "leased", outbox[c].status # "leased"
    PROVE  IsHead(c)
<1>1. CASE outbox' = outbox
  BY <1>1
<1>2. ASSUME NEW w \in Workers, NEW d \in Commands, Claim(w, d) PROVE IsHead(c)
  <2>1. d = c
    BY <1>2 DEF Claim, TypeOK
  <2> QED BY <1>2, <2>1 DEF Claim, Claimable
<1>3. ASSUME NEW w \in Workers, Settle(w) PROVE IsHead(c)
  <2> HIDE DEF InDoubt, FailsTask, Exhausted
  <2> QED BY <1>3 DEF Settle, MarkSucceeded, MarkRetryable, MarkFailed, TypeOK, Command
<1>4. ASSUME NEW d \in Commands, FallsDue(d) PROVE IsHead(c)
  BY <1>4 DEF FallsDue, TypeOK, Command
<1>5. ASSUME NEW operation, NEW revision, NEW active, NEW created,
             Writes(operation, revision, active, created)
      PROVE  IsHead(c)
  <2>1. /\ outbox'[last + 1] = Pending(operation, revision, active, created)
        /\ \A d \in Commands : d # last + 1 => outbox'[d] = outbox[d]
    BY <1>5, WriteRows
  <2>2. Pending(operation, revision, active, created).status = "pending"
    BY DEF Pending
  <2> HIDE DEF Pending
  <2> QED BY <2>1, <2>2
<1>6. CASE Change
  BY <1>1, <1>5, <1>6 DEF Change, CreateTask, BeginChange, UpdateTask, DeleteTask, ChangeNothing
<1>7. CASE \/ \E w \in Workers : Call(w) \/ CallFails(w) \/ Crash(w)
           \/ \E r \in requests : Handle(r)
           \/ UNCHANGED vars
  <2>1. outbox' = outbox
    BY <1>7 DEF Call, CallFails, Crash, Handle, taskVars, vars
  <2> QED BY <1>1, <2>1
<1> QED BY <1>2, <1>3, <1>4, <1>6, <1>7 DEF Next

\* Rows that are in the order of their beginnings were so before.
LEMMA TimelyBefore == ASSUME TypeOK, RowsInv, [Next]_vars, Timely' PROVE Timely
<1> SUFFICES ASSUME NEW c \in Commands, NEW d \in Commands, c < d, d <= last
             PROVE  outbox[c].created < outbox[d].created
  BY DEF Timely
<1>1. c <= last /\ d <= last'
  BY LastGrows, NumberTypes
<1>2. RowKept(c) /\ RowKept(d)
  BY <1>1, WrittenKept
<1> QED BY <1>1, <1>2 DEF Timely, RowKept

\* TimelyInCommitOrder: if transactions lock the task in the order they began, no
\* command is claimed while one that committed before it is open (the claim's
\* NOT EXISTS prior, scheduled-task-repository.ts:503-510).
THEOREM TimelyClaimsInOrder == Spec => []TimelyInCommitOrder
<1>1. Init => TimelyInCommitOrder
  BY DEF Init, TimelyInCommitOrder, InCommitOrder, NoRow
<1>2. TypeOK /\ TaskInv /\ TimelyInCommitOrder /\ [Next]_vars => TimelyInCommitOrder'
  <2> SUFFICES ASSUME TypeOK, TaskInv, TimelyInCommitOrder, [Next]_vars, Timely',
                      NEW c \in Commands, NEW d \in Commands,
                      c < d, outbox'[d].status = "leased"
               PROVE  outbox'[c].status \in Closed
    BY DEF TimelyInCommitOrder, InCommitOrder
  <2>1. RowsInv
    BY DEF TaskInv
  <2>2. Timely
    BY <2>1, TimelyBefore
  <2>3. /\ outbox[d].status \in Open
        /\ outbox[d].status = "leased" \/ IsHead(d)
    BY LeasedAtHead DEF IsHead, Open
  <2>4. d <= last /\ c <= last
    BY <2>1, <2>3, NumberTypes DEF RowsInv, Open
  <2>5. outbox[c].status \in Closed
    <3>1. CASE outbox[d].status = "leased"
      BY <2>2, <3>1 DEF TimelyInCommitOrder, InCommitOrder
    <3>2. CASE IsHead(d)
      <4>1. outbox[c].created < outbox[d].created
        BY <2>2, <2>4 DEF Timely
      <4>2. outbox[c].status \notin Open
        BY <3>2, <4>1, NumberTypes DEF IsHead
      <4>3. outbox[c].status # "absent"
        BY <2>1, <2>4 DEF RowsInv
      <4> QED BY <4>2, <4>3 DEF TypeOK, Command
    <3> QED BY <2>3, <3>1, <3>2
  <2>6. outbox'[c] = outbox[c]
    BY <2>1, <2>4, <2>5, WrittenKept DEF RowKept
  <2> QED BY <2>5, <2>6
<1> QED BY <1>1, <1>2, TypedInv, PTL DEF Spec

-----------------------------------------------------------------------------
(* Failures *)

\* A row fails by MarkFailed of the worker that holds it.
LEMMA FailsByItsHolder ==
    ASSUME TypeOK, [Next]_vars, NEW c \in Commands,
           outbox'[c].status = "failed", outbox[c].status # "failed"
    PROVE  /\ outbox[c].status = "leased"
           /\ task' = IF FailsTask(c) THEN [task EXCEPT !.status = "failed"] ELSE task
<1> DEFINE Goal == /\ outbox[c].status = "leased"
                   /\ task' = IF FailsTask(c) THEN [task EXCEPT !.status = "failed"] ELSE task
<1> SUFFICES Goal
  OBVIOUS
<1>1. CASE outbox' = outbox
  BY <1>1
<1>2. ASSUME NEW w \in Workers, NEW d \in Commands, Claim(w, d) PROVE Goal
  BY <1>2 DEF Claim, TypeOK, Command
<1>3. ASSUME NEW w \in Workers, Settle(w) PROVE Goal
  <2> HIDE DEF InDoubt, FailsTask, Exhausted
  <2>1. CASE MarkSucceeded(w)
    BY <1>3, <2>1 DEF MarkSucceeded, TypeOK, Command
  <2>2. CASE MarkRetryable(w)
    BY <1>3, <2>2 DEF MarkRetryable, TypeOK, Command
  <2>3. CASE MarkFailed(w)
    <3>1. Holds(w) /\ worker[w].command = c
      BY <2>3 DEF MarkFailed, TypeOK
    <3> QED BY <2>3, <3>1 DEF MarkFailed, Holds
  <2> QED BY <1>3, <2>1, <2>2, <2>3 DEF Settle
<1>4. ASSUME NEW d \in Commands, FallsDue(d) PROVE Goal
  BY <1>4 DEF FallsDue, TypeOK, Command
<1>5. ASSUME NEW operation, NEW revision, NEW active, NEW created,
             Writes(operation, revision, active, created)
      PROVE  Goal
  <2>1. /\ outbox'[last + 1] = Pending(operation, revision, active, created)
        /\ \A d \in Commands : d # last + 1 => outbox'[d] = outbox[d]
    BY <1>5, WriteRows
  <2>2. Pending(operation, revision, active, created).status = "pending"
    BY DEF Pending
  <2> HIDE DEF Pending, Goal
  <2> QED BY <2>1, <2>2
<1>6. CASE Change
  <2> HIDE DEF Goal
  <2> QED BY <1>1, <1>5, <1>6
          DEF Change, CreateTask, BeginChange, UpdateTask, DeleteTask, ChangeNothing
<1>7. CASE \/ \E w \in Workers : Call(w) \/ CallFails(w) \/ Crash(w)
           \/ \E r \in requests : Handle(r)
           \/ UNCHANGED vars
  <2>1. outbox' = outbox
    BY <1>7 DEF Call, CallFails, Crash, Handle, taskVars, vars
  <2> QED BY <1>1, <2>1
<1> HIDE DEF Goal
<1> QED BY <1>2, <1>3, <1>4, <1>6, <1>7 DEF Next

\* FailureShown: when the command of the task's current revision fails, the task
\* says so (scheduled-task-repository.ts:586-594).
THEOREM FailuresAreShown == Spec => []FailureShown
<1>1. Init => FailureShown
  BY DEF Init, FailureShown, NoRow
<1>2. TypeOK /\ TaskInv /\ FailureShown /\ [Next]_vars => FailureShown'
  <2> SUFFICES ASSUME TypeOK, TaskInv, FailureShown, [Next]_vars, NEW c \in Commands,
                      outbox'[c].status = "failed", outbox'[c].operation # "delete",
                      outbox'[c].active, task'.stage = "present",
                      task'.revision = outbox'[c].revision
               PROVE  task'.status = "failed"
    BY DEF FailureShown
  <2>1. RowsInv /\ RevisionInv
    BY DEF TaskInv
  <2>2. outbox[c].status # "absent" => c <= last
    BY <2>1 DEF RowsInv
  <2>3. CASE outbox[c].status = "failed"
    <3>1. outbox'[c] = outbox[c] /\ outbox[c].revision <= task.revision
      BY <2>1, <2>2, <2>3, WrittenKept DEF RowKept, Closed, RevisionInv
    <3>2. CASE Quiet
      <4>1. /\ task'.stage = task.stage /\ task'.revision = task.revision
            /\ task'.status = task.status \/ task'.status = "failed"
        BY <3>2 DEF Quiet, TypeOK, Task
      <4> QED BY <2>3, <3>1, <4>1 DEF FailureShown
    <3>3. CASE CreateTask
      BY <2>1, <2>2, <2>3, <3>3, CreateStep DEF Commands
    <3>4. CASE BeginChange \/ \E t \in Commands : ChangeNothing(t)
      <4>1. task' = task
        BY <3>4 DEF BeginChange, ChangeNothing
      <4> QED BY <2>3, <3>1, <4>1 DEF FailureShown
    <3>5. ASSUME NEW t \in Commands, NEW status \in {"active", "paused", "failed"},
                 UpdateTask(t, status)
          PROVE  FALSE
      <4>1. task'.revision = task.revision + 1
        BY <3>5 DEF UpdateTask, TypeOK, Task
      <4> QED BY <3>1, <4>1, NumberTypes
    <3>6. ASSUME NEW t \in Commands, DeleteTask(t) PROVE FALSE
      <4>1. task'.stage = "deleted"
        BY <3>6 DEF DeleteTask, TypeOK, Task
      <4> QED BY <4>1
    <3> QED BY <3>2, <3>3, <3>4, <3>5, <3>6, StepsAreQuiet DEF Change
  <2>4. CASE outbox[c].status # "failed"
    <3>1. /\ outbox[c].status = "leased"
          /\ task' = IF FailsTask(c) THEN [task EXCEPT !.status = "failed"] ELSE task
      BY <2>4, FailsByItsHolder
    <3>2. CASE FailsTask(c)
      BY <3>1, <3>2 DEF TypeOK, Task
    <3>3. CASE ~FailsTask(c)
      <4>1. task' = task /\ c <= last
        BY <2>2, <3>1, <3>3
      <4>2. RowKept(c)
        BY <2>1, <4>1, WrittenKept
      <4>3. /\ outbox[c].operation # "delete" /\ outbox[c].revision = task.revision
            /\ outbox[c].active /\ task.stage = "present"
        BY <4>1, <4>2 DEF RowKept
      <4>4. task.status # "paused"
        BY <2>1, <4>1, <4>3 DEF RevisionInv
      <4>5. task.status # "active"
        BY <3>3, <4>3 DEF FailsTask
      <4> QED BY <4>1, <4>4, <4>5 DEF TypeOK, Task
    <3> QED BY <3>2, <3>3
  <2> QED BY <2>3, <2>4
<1> QED BY <1>1, <1>2, TypedInv, PTL DEF Spec

\* The status of the task changes outside a change of the task when a row fails.
LEMMA TaskFailsWithItsRow ==
    ASSUME TypeOK, [Next]_vars, ~Change, task' # task
    PROVE  \E c \in Commands : FailsTask(c) /\ outbox'[c].status = "failed"
<1>1. PICK w \in Workers : MarkFailed(w)
  BY DEF Next, Claim, Call, CallFails, Settle, MarkSucceeded, MarkRetryable, Crash, Handle,
         FallsDue, taskVars, vars
<1>2. Holds(w) /\ FailsTask(worker[w].command)
  BY <1>1 DEF MarkFailed
<1>3. worker[w].command \in Commands
  <2>1. worker[w].pc # "idle"
    BY <1>1 DEF MarkFailed
  <2> QED BY <2>1, BusyTypes
<1>4. outbox'[worker[w].command].status = "failed"
  <2> HIDE DEF InDoubt, FailsTask, Exhausted
  <2> QED BY <1>1, <1>2, <1>3 DEF MarkFailed, TypeOK, Command
<1> QED BY <1>2, <1>3, <1>4

\* FailureIsOwn: a task that says "failed" has the failed command of its current
\* revision; the failure of an older command is not put on it
\* (scheduled-task-repository.ts:588-592).
THEOREM FailuresAreOwn == Spec => []FailureIsOwn
<1>1. Init => FailureIsOwn
  BY DEF Init, FailureIsOwn
<1>2. TypeOK /\ TaskInv /\ FailureIsOwn /\ [Next]_vars => FailureIsOwn'
  <2> SUFFICES ASSUME TypeOK, TaskInv, FailureIsOwn, [Next]_vars,
                      task'.stage = "present", task'.status = "failed"
               PROVE  \E c \in Commands :
                         /\ outbox'[c].revision = task'.revision
                         /\ outbox'[c].operation # "delete"
                         /\ outbox'[c].active => outbox'[c].status = "failed"
    BY DEF FailureIsOwn
  <2>1. CASE task' = task /\ (Quiet \/ outbox' = outbox)
    <3>1. PICK c \in Commands :
             /\ outbox[c].revision = task.revision
             /\ outbox[c].operation # "delete"
             /\ outbox[c].active => outbox[c].status = "failed"
      BY <2>1 DEF FailureIsOwn
    <3>2. RowKept(c)
      BY <2>1, SameKept DEF Quiet
    <3>3. /\ outbox'[c].revision = task'.revision
          /\ outbox'[c].operation # "delete"
          /\ outbox'[c].active => outbox'[c].status = "failed"
      BY <2>1, <3>1, <3>2 DEF RowKept, Closed
    <3> QED BY <3>3
  <2>2. CASE task' # task /\ ~Change
    <3>1. PICK c \in Commands : FailsTask(c) /\ outbox'[c].status = "failed"
      BY <2>2, TaskFailsWithItsRow
    <3>2. RowKept(c) /\ task'.revision = task.revision
      BY <2>2, StepsAreQuiet DEF Quiet, TypeOK, Task
    <3> QED BY <3>1, <3>2 DEF FailsTask, RowKept
  <2>3. CASE CreateTask
    BY <2>3 DEF CreateTask
  <2>4. CASE BeginChange \/ \E t \in Commands : ChangeNothing(t)
    <3>1. task' = task /\ outbox' = outbox
      BY <2>4 DEF BeginChange, ChangeNothing
    <3> QED BY <2>1, <3>1
  <2>5. ASSUME NEW t \in Commands, NEW status \in {"active", "paused", "failed"},
               UpdateTask(t, status)
        PROVE  \E c \in Commands :
                  /\ outbox'[c].revision = task'.revision
                  /\ outbox'[c].operation # "delete"
                  /\ outbox'[c].active => outbox'[c].status = "failed"
    <3>1. task'.status = status /\ task'.revision = task.revision + 1
      BY <2>5 DEF UpdateTask, TypeOK, Task
    <3>2. (status = "active") = FALSE
      BY <3>1
    <3>3. Locked(t, "replace", task.revision + 1, FALSE)
      BY <2>5, <3>2, UpdateStep
    <3>4. /\ last + 1 \in Commands
          /\ outbox'[last + 1].revision = task'.revision
          /\ outbox'[last + 1].operation # "delete"
          /\ ~outbox'[last + 1].active
      BY <3>1, <3>3 DEF Locked, Pending
    <3> QED BY <3>4
  <2>6. ASSUME NEW t \in Commands, DeleteTask(t) PROVE FALSE
    BY <2>6 DEF DeleteTask, TypeOK, Task
  <2> QED BY <2>1, <2>2, <2>3, <2>4, <2>5, <2>6, StepsAreQuiet DEF Change
<1> QED BY <1>1, <1>2, TypedInv, PTL DEF Spec

\* FailureVerdict: the two together, the task's status as the verdict on its
\* current revision (scheduled-task-repository.ts:569-607).
THEOREM FailuresAreJudged == Spec => []FailureVerdict
<1>1. FailureShown /\ FailureIsOwn => FailureVerdict
  BY DEF FailureVerdict
<1> QED BY <1>1, FailuresAreShown, FailuresAreOwn, PTL

-----------------------------------------------------------------------------
(* What a delivery has done *)

Claimed(c) == outbox[c].fence > 0

\* The other call of a register or a replace, and the answer that asks for it.
SecondCall(operation) == IF operation = "register" THEN "replace" ELSE "create"

FirstAnswer(c) == answers[<<c, FirstCall(outbox[c].operation)>>]
SecondAnswer(c) == answers[<<c, SecondCall(outbox[c].operation)>>]

FallsBack(c) ==
    \/ outbox[c].operation = "register" /\ FirstAnswer(c) = "exists"
    \/ outbox[c].operation = "replace" /\ FirstAnswer(c) = "missing"

\* A call the delivery of c may make.
OnPath(c, call) ==
    \/ call = FirstCall(outbox[c].operation)
    \/ FallsBack(c) /\ call = SecondCall(outbox[c].operation)

\* The Scheduler has answered every call the delivery of c will ever make.
Decided(c) == FirstAnswer(c) # "none" /\ (FallsBack(c) => SecondAnswer(c) # "none")

\* It has obeyed c: an answer a worker may take for a success.
Obeyed(c) ==
    \/ FirstAnswer(c) = "done"
    \/ FallsBack(c) /\ SecondAnswer(c) = "done"
    \/ outbox[c].operation = "delete" /\ FirstAnswer(c) = "missing"

Reachable(c) ==
    \/ \E r \in requests : r.command = c
    \/ \E w \in Workers : worker[w].pc = "calling" /\ worker[w].command = c

\* Rows that are not there have no ticket, and only a failure is in doubt.
FencesInv ==
    \A c \in Commands : /\ outbox[c].status = "absent" => ~Claimed(c)
                        /\ outbox[c].doubt => outbox[c].status = "failed"

\* Calls and answers follow the path of their command, which was claimed.
PathInv ==
    /\ \A r \in requests : Claimed(r.command) /\ OnPath(r.command, r.call)
    /\ \A w \in Workers : worker[w].pc \in {"calling", "waiting"} =>
          OnPath(worker[w].command, worker[w].call)
    /\ \A w \in Workers : worker[w].pc # "idle" => Claimed(worker[w].command)
    /\ \A c \in Commands, call \in Calls : answers[<<c, call>>] # "none" =>
          Claimed(c) /\ OnPath(c, call)

\* Nothing is taken for a success that the Scheduler has not obeyed.
ObeyedInv ==
    /\ \A w \in Workers : worker[w].pc = "settling" /\ worker[w].outcome = "succeeded" =>
          Obeyed(worker[w].command)
    /\ \A c \in Commands : outbox[c].status = "succeeded" => Obeyed(c)

\* A command that failed without a doubt is out of the Scheduler's reach.
FailedInv ==
    \A c \in Commands : outbox[c].status = "failed" /\ ~outbox[c].doubt => ~Reachable(c)

\* Commands are claimed in the order of their commits, each when those before it
\* are settled.
SettledBefore ==
    Orderly => \A c, d \in Commands : c < d /\ d <= last /\ Claimed(d) =>
                    outbox[c].status \in Closed

Latest(c) == Claimed(c) /\ \A d \in Commands : Claimed(d) => d <= c

\* The job is what c says.
Makes(c) == IF outbox[c].operation = "delete" THEN ~job.present
            ELSE job.present /\ job.by = c

\* The job is what the last claimed command made it, once the Scheduler obeyed.
JobInv ==
    /\ job.by # 0 => Claimed(job.by)
    /\ Orderly => \A c \in Commands : Latest(c) /\ Obeyed(c) => Makes(c)

DeliveryInv == FencesInv /\ PathInv /\ ObeyedInv /\ FailedInv /\ SettledBefore /\ JobInv

LEMMA InitDelivery == Init => DeliveryInv
<1> SUFFICES ASSUME Init PROVE DeliveryInv
  OBVIOUS
<1>1. \A c \in Commands : outbox[c] = NoRow /\ ~Claimed(c)
  BY DEF Init, NoRow, Claimed
<1>2. /\ requests = {} /\ job.by = 0
      /\ \A w \in Workers : worker[w].pc = "idle"
      /\ \A c \in Commands, call \in Calls : answers[<<c, call>>] = "none"
  BY DEF Init, Resting, NoCommand
<1>3. FencesInv
  BY <1>1 DEF FencesInv, NoRow
<1>4. PathInv
  BY <1>2 DEF PathInv
<1>5. ObeyedInv /\ FailedInv
  BY <1>1, <1>2 DEF ObeyedInv, FailedInv, NoRow
<1>6. SettledBefore /\ JobInv
  BY <1>1, <1>2 DEF SettledBefore, JobInv, Latest
<1> QED BY <1>3, <1>4, <1>5, <1>6 DEF DeliveryInv

-----------------------------------------------------------------------------
(* What a step does to a row, a dispatcher and the Scheduler *)

\* What a step does to one row.
LEMMA RowSteps ==
    ASSUME TypeOK, RowsInv, [Next]_vars, NEW c \in Commands
    PROVE  \/ outbox'[c] = outbox[c]
           \/ /\ outbox[c].status = "absent" /\ outbox'[c].status = "pending"
              /\ outbox'[c].fence = 0 /\ ~outbox'[c].doubt
           \/ \E w \in Workers : Claim(w, c)
           \/ \E w \in Workers : MarkSucceeded(w) /\ worker[w].command = c
           \/ \E w \in Workers : MarkFailed(w) /\ Holds(w) /\ worker[w].command = c
           \/ /\ outbox[c].status \in Open /\ outbox'[c].status \in Open
              /\ outbox'[c].fence = outbox[c].fence /\ outbox'[c].doubt = outbox[c].doubt
<1> DEFINE Goal ==
       \/ outbox'[c] = outbox[c]
       \/ /\ outbox[c].status = "absent" /\ outbox'[c].status = "pending"
          /\ outbox'[c].fence = 0 /\ ~outbox'[c].doubt
       \/ \E w \in Workers : Claim(w, c)
       \/ \E w \in Workers : MarkSucceeded(w) /\ worker[w].command = c
       \/ \E w \in Workers : MarkFailed(w) /\ Holds(w) /\ worker[w].command = c
       \/ /\ outbox[c].status \in Open /\ outbox'[c].status \in Open
          /\ outbox'[c].fence = outbox[c].fence /\ outbox'[c].doubt = outbox[c].doubt
<1> SUFFICES Goal
  OBVIOUS
<1>1. ASSUME outbox'[c] = outbox[c] PROVE Goal
  BY <1>1
<1>2. ASSUME NEW w \in Workers, NEW d \in Commands, Claim(w, d) PROVE Goal
  <2>1. CASE d = c
    BY <1>2, <2>1
  <2>2. CASE d # c
    BY <1>2, <2>2 DEF Claim, TypeOK
  <2> QED BY <2>1, <2>2
<1>3. ASSUME NEW w \in Workers, Settle(w) PROVE Goal
  <2> HIDE DEF InDoubt, FailsTask, Exhausted, Rests
  <2>1. CASE ~(Holds(w) /\ worker[w].command = c)
    <3>1. outbox'[c] = outbox[c]
      BY <1>3, <2>1 DEF Settle, MarkSucceeded, MarkRetryable, MarkFailed, TypeOK
    <3> QED BY <3>1
  <2>2. CASE Holds(w) /\ worker[w].command = c /\ MarkRetryable(w)
    <3>1. /\ outbox[c].status \in Open /\ outbox'[c].status \in Open
          /\ outbox'[c].fence = outbox[c].fence /\ outbox'[c].doubt = outbox[c].doubt
      BY <2>2 DEF Holds, MarkRetryable, TypeOK, Command, Open
    <3> QED BY <3>1
  <2>3. CASE Holds(w) /\ worker[w].command = c /\ (MarkSucceeded(w) \/ MarkFailed(w))
    <3> HIDE DEF MarkSucceeded, MarkFailed, Holds
    <3> QED BY <2>3
  <2> QED BY <1>3, <2>1, <2>2, <2>3 DEF Settle
<1>4. ASSUME NEW d \in Commands, FallsDue(d) PROVE Goal
  <2>1. CASE d = c
    <3>1. /\ outbox[c].status \in Open /\ outbox'[c].status \in Open
          /\ outbox'[c].fence = outbox[c].fence /\ outbox'[c].doubt = outbox[c].doubt
      BY <1>4, <2>1 DEF FallsDue, TypeOK, Command, Open
    <3> QED BY <3>1
  <2>2. CASE d # c
    BY <1>4, <2>2 DEF FallsDue, TypeOK
  <2> QED BY <2>1, <2>2
<1>5. ASSUME NEW operation, NEW revision, NEW active, NEW created,
             Writes(operation, revision, active, created)
      PROVE  Goal
  <2>1. /\ outbox'[last + 1] = Pending(operation, revision, active, created)
        /\ \A d \in Commands : d # last + 1 => outbox'[d] = outbox[d]
        /\ last + 1 \in Commands /\ last \in Nat
    BY <1>5, WriteRows, NumberTypes
  <2>2. outbox[last + 1].status = "absent"
    BY <2>1 DEF RowsInv
  <2>3. /\ outbox'[last + 1].status = "pending"
        /\ outbox'[last + 1].fence = 0 /\ ~outbox'[last + 1].doubt
    BY <2>1 DEF Pending
  <2> QED BY <2>1, <2>2, <2>3
<1>6. CASE Change
  <2> HIDE DEF Goal
  <2>1. ASSUME outbox' = outbox PROVE Goal
    BY <1>1, <2>1
  <2> QED BY <1>5, <1>6, <2>1
          DEF Change, CreateTask, BeginChange, UpdateTask, DeleteTask, ChangeNothing
<1>7. CASE \/ \E w \in Workers : Call(w) \/ CallFails(w) \/ Crash(w)
           \/ \E r \in requests : Handle(r)
           \/ UNCHANGED vars
  <2>1. outbox' = outbox
    BY <1>7 DEF Call, CallFails, Crash, Handle, taskVars, vars
  <2> QED BY <1>1, <2>1
<1> HIDE DEF Goal
<1> QED BY <1>2, <1>3, <1>4, <1>6, <1>7 DEF Next

\* What a step does to a dispatcher that goes on.
LEMMA WorkerSteps ==
    ASSUME TypeOK, [Next]_vars, NEW w \in Workers, worker'[w].pc # "idle"
    PROVE  \/ worker'[w] = worker[w]
           \/ \E c \in Commands : Claim(w, c)
           \/ /\ worker[w].pc = "calling" /\ worker'[w] = [worker[w] EXCEPT !.pc = "waiting"]
           \/ /\ worker[w].pc = "waiting"
              /\ \E outcome \in {"retryable", "failed"} :
                    worker'[w] = [worker[w] EXCEPT !.pc = "settling", !.outcome = outcome]
           \/ \E r \in requests : /\ Handle(r) /\ Waits(w, r)
                                  /\ worker'[w] = Heard(w, Answer(r))
<1> DEFINE Goal ==
       \/ worker'[w] = worker[w]
       \/ \E c \in Commands : Claim(w, c)
       \/ /\ worker[w].pc = "calling" /\ worker'[w] = [worker[w] EXCEPT !.pc = "waiting"]
       \/ /\ worker[w].pc = "waiting"
          /\ \E outcome \in {"retryable", "failed"} :
                worker'[w] = [worker[w] EXCEPT !.pc = "settling", !.outcome = outcome]
       \/ \E r \in requests : /\ Handle(r) /\ Waits(w, r)
                              /\ worker'[w] = Heard(w, Answer(r))
<1> SUFFICES Goal
  OBVIOUS
<1>1. ASSUME worker'[w] = worker[w] PROVE Goal
  BY <1>1
<1>2. ASSUME NEW v \in Workers, NEW c \in Commands, Claim(v, c) PROVE Goal
  <2>1. CASE v = w
    BY <1>2, <2>1
  <2>2. CASE v # w
    BY <1>2, <2>2 DEF Claim, TypeOK
  <2> QED BY <2>1, <2>2
<1>3. ASSUME NEW v \in Workers, Call(v) \/ CallFails(v) \/ Settle(v) \/ Crash(v) PROVE Goal
  <2>1. CASE v # w
    <3>1. worker'[w] = worker[w]
      BY <1>3, <2>1 DEF Call, CallFails, Settle, MarkSucceeded, MarkRetryable, MarkFailed,
                        Crash, Rests, TypeOK
    <3> QED BY <3>1
  <2>2. CASE v = w /\ Call(w)
    BY <2>2 DEF Call, TypeOK
  <2>3. CASE v = w /\ CallFails(w)
    <3>1. /\ worker[w].pc = "waiting"
          /\ \E outcome \in {"retryable", "failed"} :
                worker'[w] = [worker[w] EXCEPT !.pc = "settling", !.outcome = outcome]
      BY <2>3 DEF CallFails, TypeOK
    <3> QED BY <3>1
  <2>4. CASE v = w /\ (Settle(w) \/ Crash(w))
    <3>1. worker'[w] = Resting
      BY <2>4 DEF Settle, MarkSucceeded, MarkRetryable, MarkFailed, Crash, Rests, TypeOK
    <3> QED BY <3>1 DEF Resting
  <2> QED BY <1>3, <2>1, <2>2, <2>3, <2>4
<1>4. ASSUME NEW r \in requests, Handle(r) PROVE Goal
  <2>1. worker'[w] = IF Waits(w, r) THEN Heard(w, Answer(r)) ELSE worker[w]
    BY <1>4 DEF Handle
  <2> QED BY <1>4, <2>1
<1>5. CASE Change \/ (\E c \in Commands : FallsDue(c)) \/ UNCHANGED vars
  <2>1. worker' = worker
    BY <1>5 DEF Change, CreateTask, BeginChange, UpdateTask, DeleteTask, ChangeNothing,
                FallsDue, vars
  <2> QED BY <1>1, <2>1
<1> HIDE DEF Goal
<1> QED BY <1>2, <1>3, <1>4, <1>5 DEF Next

\* The Scheduler acts when it handles a request, and never takes an answer back.
LEMMA SchedulerSteps ==
    ASSUME TypeOK, [Next]_vars
    PROVE  \/ \E r \in requests : Handle(r)
           \/ UNCHANGED <<job, answers>>
BY DEF Next, Change, CreateTask, BeginChange, UpdateTask, DeleteTask, ChangeNothing, Claim, Call,
       CallFails, Settle, MarkSucceeded, MarkRetryable, MarkFailed, Crash, FallsDue,
       scheduler, vars

LEMMA AnswersStay ==
    ASSUME TypeOK, [Next]_vars, NEW c \in Commands, NEW call \in Calls,
           answers[<<c, call>>] # "none"
    PROVE  answers'[<<c, call>>] = answers[<<c, call>>]
<1>1. ASSUME NEW r \in requests, Handle(r) PROVE answers'[<<c, call>>] = answers[<<c, call>>]
  <2>1. CASE r.command = c /\ r.call = call
    BY <1>1, <2>1 DEF Handle, Obeys, Answer, TypeOK
  <2>2. CASE ~(r.command = c /\ r.call = call)
    <3>1. <<c, call>> # <<r.command, r.call>>
      BY <2>2
    <3> QED BY <1>1, <3>1 DEF Handle, Obeys, TypeOK
  <2> QED BY <2>1, <2>2
<1> QED BY <1>1, SchedulerSteps

\* Requests are made by Call.
LEMMA RequestSteps ==
    ASSUME [Next]_vars, NEW r \in requests', r \notin requests
    PROVE  \E w \in Workers :
              /\ worker[w].pc = "calling"
              /\ r = [command |-> worker[w].command, fence |-> worker[w].fence,
                      call |-> worker[w].call]
BY DEF Next, Change, CreateTask, BeginChange, UpdateTask, DeleteTask, ChangeNothing, Claim, Call,
       CallFails, Settle, MarkSucceeded, MarkRetryable, MarkFailed, Crash, Handle, FallsDue,
       scheduler, vars

\* A claimed row stays claimed and what it was, and its path only grows.
LEMMA ClaimedKept ==
    ASSUME TypeOK, TaskInv, FencesInv, [Next]_vars, NEW c \in Commands, Claimed(c)
    PROVE  /\ c <= last /\ RowKept(c) /\ Claimed(c)'
           /\ \A call : OnPath(c, call) => OnPath(c, call)'
           /\ Obeyed(c) => Obeyed(c)'
<1>1. c <= last
  BY DEF FencesInv, TaskInv, RowsInv
<1>2. RowKept(c)
  BY <1>1, WrittenKept DEF TaskInv
<1>3. Claimed(c)'
  <2>1. TypeOK'
    BY NextTypes
  <2>2. outbox'[c].fence \in Nat
    BY <2>1 DEF TypeOK, Command
  <2> QED BY <1>2, <2>2, NumberTypes DEF RowKept, Claimed
<1>4. /\ FirstCall(outbox[c].operation) \in Calls
      /\ SecondCall(outbox[c].operation) \in Calls
  BY DEF TypeOK, Command, Operations, Calls, FirstCall, SecondCall
<1>5. /\ FirstAnswer(c) # "none" => FirstAnswer(c)' = FirstAnswer(c)
      /\ SecondAnswer(c) # "none" => SecondAnswer(c)' = SecondAnswer(c)
  BY <1>2, <1>4, AnswersStay DEF FirstAnswer, SecondAnswer, RowKept
<1> HIDE DEF FirstAnswer, SecondAnswer
<1>6. FallsBack(c) => FallsBack(c)'
  BY <1>2, <1>5 DEF FallsBack, RowKept
<1>7. \A call : OnPath(c, call) => OnPath(c, call)'
  BY <1>2, <1>6 DEF OnPath, RowKept
<1>8. Obeyed(c) => Obeyed(c)'
  BY <1>2, <1>5, <1>6 DEF Obeyed, RowKept
<1> QED BY <1>1, <1>2, <1>3, <1>7, <1>8

LEMMA FencesKept == ASSUME TypeOK, TaskInv, FencesInv, [Next]_vars PROVE FencesInv'
<1> SUFFICES ASSUME NEW c \in Commands
             PROVE  /\ outbox'[c].status = "absent" => ~Claimed(c)'
                    /\ outbox'[c].doubt => outbox'[c].status = "failed"
  BY DEF FencesInv
<1>1. CASE outbox'[c] = outbox[c]
  BY <1>1 DEF FencesInv, Claimed
<1>2. CASE /\ outbox[c].status = "absent" /\ outbox'[c].status = "pending"
           /\ outbox'[c].fence = 0 /\ ~outbox'[c].doubt
  BY <1>2
<1>3. ASSUME NEW w \in Workers, Claim(w, c)
      PROVE  /\ outbox'[c].status = "absent" => ~Claimed(c)'
             /\ outbox'[c].doubt => outbox'[c].status = "failed"
  <2>1. /\ outbox'[c].status = "leased" /\ outbox[c].status \in Open
        /\ outbox'[c].doubt = outbox[c].doubt
    BY <1>3 DEF Claim, Claimable, IsHead, TypeOK, Command
  <2> QED BY <2>1 DEF FencesInv, Open
<1>4. ASSUME NEW w \in Workers, MarkSucceeded(w), worker[w].command = c,
             outbox'[c] # outbox[c]
      PROVE  /\ outbox'[c].status = "absent" => ~Claimed(c)'
             /\ outbox'[c].doubt => outbox'[c].status = "failed"
  <2>1. /\ outbox'[c].status = "succeeded" /\ outbox[c].status = "leased"
        /\ outbox'[c].doubt = outbox[c].doubt
    BY <1>4 DEF MarkSucceeded, Holds, TypeOK, Command
  <2> QED BY <2>1 DEF FencesInv
<1>5. ASSUME NEW w \in Workers, MarkFailed(w), Holds(w), worker[w].command = c
      PROVE  outbox'[c].status = "failed"
  <2> HIDE DEF InDoubt, FailsTask, Exhausted, Rests
  <2> QED BY <1>5 DEF MarkFailed, TypeOK, Command
<1>6. CASE /\ outbox[c].status \in Open /\ outbox'[c].status \in Open
           /\ outbox'[c].fence = outbox[c].fence /\ outbox'[c].doubt = outbox[c].doubt
  BY <1>6 DEF FencesInv, Open
<1>7. RowsInv
  BY DEF TaskInv
<1> QED BY <1>1, <1>2, <1>3, <1>4, <1>5, <1>6, <1>7, RowSteps

\* What is orderly was orderly.
LEMMA OrderlyBefore ==
    ASSUME TypeOK, TaskInv, FencesInv, [Next]_vars, Orderly'
    PROVE  Orderly
<1>1. RowsInv
  BY DEF TaskInv
<1>2. Timely
  BY <1>1, TimelyBefore DEF Orderly
<1>3. ASSUME NEW c \in Commands, outbox[c].doubt PROVE FALSE
  <2>1. outbox[c].status = "failed" /\ c <= last
    BY <1>1, <1>3 DEF FencesInv, RowsInv
  <2>2. outbox'[c] = outbox[c]
    BY <1>1, <2>1, WrittenKept DEF RowKept, Closed
  <2> QED BY <1>3, <2>2 DEF Orderly
<1> QED BY <1>2, <1>3 DEF Orderly

\* Rows are claimed by Claim.
LEMMA ClaimedByClaim ==
    ASSUME TypeOK, TaskInv, FencesInv, [Next]_vars, NEW c \in Commands, Claimed(c)', ~Claimed(c)
    PROVE  \E w \in Workers : Claim(w, c)
<1>1. outbox'[c].fence > 0 /\ outbox[c].fence = 0
  BY NumberTypes DEF Claimed
<1>2. ASSUME NEW w \in Workers, MarkSucceeded(w) \/ (MarkFailed(w) /\ Holds(w)),
             worker[w].command = c
      PROVE  outbox'[c].fence = outbox[c].fence
  <2> HIDE DEF InDoubt, FailsTask, Exhausted, Rests
  <2> QED BY <1>2 DEF MarkSucceeded, MarkFailed, TypeOK, Command
<1>3. RowsInv
  BY DEF TaskInv
<1> QED BY <1>1, <1>2, <1>3, RowSteps

LEMMA SettledBeforeKept ==
    ASSUME TypeOK, TaskInv, FencesInv, SettledBefore, [Next]_vars
    PROVE  SettledBefore'
<1> SUFFICES ASSUME Orderly', NEW c \in Commands, NEW d \in Commands,
                    c < d, d <= last', Claimed(d)'
             PROVE  outbox'[c].status \in Closed
  BY DEF SettledBefore
<1>1. Orderly /\ RowsInv
  BY OrderlyBefore DEF TaskInv
<1>2. CASE Claimed(d)
  <2>1. d <= last /\ c <= last
    BY <1>2, ClaimedKept, NumberTypes
  <2>2. outbox[c].status \in Closed
    BY <1>1, <1>2, <2>1 DEF SettledBefore
  <2>3. outbox'[c] = outbox[c]
    BY <1>1, <2>1, <2>2, WrittenKept DEF RowKept
  <2> QED BY <2>2, <2>3
<1>3. CASE ~Claimed(d)
  <2>1. IsHead(d)
    BY <1>3, ClaimedByClaim DEF Claim, Claimable
  <2>2. d <= last /\ c <= last
    BY <1>1, <2>1, NumberTypes DEF IsHead, Open, RowsInv
  <2>3. outbox[c].created < outbox[d].created
    BY <1>1, <2>2 DEF Orderly, Timely
  <2>4. outbox[c].status \notin Open /\ outbox[c].status # "absent"
    BY <1>1, <2>1, <2>2, <2>3, NumberTypes DEF IsHead, RowsInv
  <2>5. outbox[c].status \in Closed
    BY <2>4 DEF TypeOK, Command
  <2>6. outbox'[c] = outbox[c]
    BY <1>1, <2>2, <2>5, WrittenKept DEF RowKept
  <2> QED BY <2>5, <2>6
<1> QED BY <1>2, <1>3

-----------------------------------------------------------------------------
(* Calls and their answers *)

\* The answer to a request is on record once it is handled.
LEMMA HandleAnswers ==
    ASSUME TypeOK, NEW r \in requests, Handle(r)
    PROVE  /\ r.command \in Commands /\ r.call \in Calls
           /\ answers'[<<r.command, r.call>>] = Answer(r)
           /\ \A c \in Commands, call \in Calls :
                 ~(c = r.command /\ call = r.call) =>
                    answers'[<<c, call>>] = answers[<<c, call>>]
<1>1. r.command \in Commands /\ r.call \in Calls
  BY DEF TypeOK, Request
<1>2. answers' = [answers EXCEPT ![<<r.command, r.call>>] = Answer(r)]
  BY DEF Handle, Obeys
<1> HIDE DEF Answer
<1>3. \A c \in Commands, call \in Calls :
         ~(c = r.command /\ call = r.call) => <<c, call>> # <<r.command, r.call>>
  OBVIOUS
<1> QED BY <1>1, <1>2, <1>3 DEF TypeOK

LEMMA OperationTypes ==
    ASSUME TypeOK, NEW c \in Commands
    PROVE  /\ outbox[c].operation \in Operations
           /\ FirstCall(outbox[c].operation) \in Calls
           /\ SecondCall(outbox[c].operation) \in Calls
BY DEF TypeOK, Command, Operations, Calls, FirstCall, SecondCall

LEMMA PathKept ==
    ASSUME TypeOK, TaskInv, FencesInv, PathInv, [Next]_vars
    PROVE  PathInv'
<1>1. ASSUME NEW r \in requests'
      PROVE  Claimed(r.command)' /\ OnPath(r.command, r.call)'
  <2>1. CASE r \in requests
    <3>1. r.command \in Commands /\ Claimed(r.command) /\ OnPath(r.command, r.call)
      BY <2>1 DEF PathInv, TypeOK, Request
    <3> QED BY <3>1, ClaimedKept
  <2>2. CASE r \notin requests
    <3>1. PICK w \in Workers :
             /\ worker[w].pc = "calling"
             /\ r = [command |-> worker[w].command, fence |-> worker[w].fence,
                     call |-> worker[w].call]
      BY <2>2, RequestSteps
    <3>2. /\ r.command \in Commands /\ Claimed(r.command)
          /\ OnPath(r.command, r.call)
      BY <3>1, BusyTypes DEF PathInv
    <3> QED BY <3>2, ClaimedKept
  <2> QED BY <2>1, <2>2
<1>2. ASSUME NEW w \in Workers, worker'[w].pc # "idle"
      PROVE  \E c \in Commands, call \in Calls :
                /\ worker'[w].command = c /\ Claimed(c)'
                /\ worker'[w].pc \in {"calling", "waiting"} =>
                      worker'[w].call = call /\ OnPath(c, call)'
  <2>1. ASSUME worker[w].pc # "idle", worker'[w].command = worker[w].command,
               worker'[w].call = worker[w].call,
               worker'[w].pc \in {"calling", "waiting"} => worker[w].pc \in {"calling", "waiting"}
        PROVE  \E c \in Commands, call \in Calls :
                  /\ worker'[w].command = c /\ Claimed(c)'
                  /\ worker'[w].pc \in {"calling", "waiting"} =>
                        worker'[w].call = call /\ OnPath(c, call)'
    <3>1. PICK c \in Commands, call \in Calls : c = worker[w].command /\ call = worker[w].call
      BY <2>1, BusyTypes
    <3>2. /\ Claimed(c)
          /\ worker[w].pc \in {"calling", "waiting"} => OnPath(c, call)
      BY <2>1, <3>1 DEF PathInv
    <3>3. /\ Claimed(c)'
          /\ OnPath(c, call) => OnPath(c, call)'
      BY <3>2, ClaimedKept
    <3> QED BY <2>1, <3>1, <3>2, <3>3
  <2>2. ASSUME NEW c \in Commands, Claim(w, c)
        PROVE  \E call \in Calls : /\ worker'[w].command = c /\ Claimed(c)'
                                   /\ worker'[w].call = call /\ OnPath(c, call)'
    <3>1. /\ worker'[w].command = c /\ worker'[w].call = FirstCall(outbox[c].operation)
          /\ outbox'[c].fence = outbox[c].fence + 1
          /\ outbox'[c].operation = outbox[c].operation
      BY <2>2 DEF Claim, TypeOK, Command
    <3>2. PICK call \in Calls : call = FirstCall(outbox[c].operation)
      BY OperationTypes
    <3>3. Claimed(c)'
      BY <3>1, NumberTypes DEF Claimed
    <3>4. OnPath(c, call)'
      BY <3>1, <3>2 DEF OnPath
    <3> QED BY <3>1, <3>2, <3>3, <3>4
  <2>3. CASE \/ worker'[w] = worker[w]
             \/ worker[w].pc = "calling" /\ worker'[w] = [worker[w] EXCEPT !.pc = "waiting"]
             \/ /\ worker[w].pc = "waiting"
                /\ \E outcome \in {"retryable", "failed"} :
                      worker'[w] = [worker[w] EXCEPT !.pc = "settling", !.outcome = outcome]
    <3>1. /\ worker[w].pc # "idle" /\ worker'[w].command = worker[w].command
          /\ worker'[w].call = worker[w].call
          /\ worker'[w].pc \in {"calling", "waiting"} => worker[w].pc \in {"calling", "waiting"}
      <4>1. CASE worker'[w] = worker[w]
        BY <1>2, <4>1
      <4>2. CASE worker'[w] # worker[w]
        BY <2>3, <4>2, BusyTypes
      <4> QED BY <4>1, <4>2
    <3> QED BY <2>1, <3>1
  <2>4. ASSUME NEW r \in requests, Handle(r), Waits(w, r), worker'[w] = Heard(w, Answer(r))
        PROVE  \E c \in Commands, call \in Calls :
                  /\ worker'[w].command = c /\ Claimed(c)'
                  /\ worker'[w].pc \in {"calling", "waiting"} =>
                        worker'[w].call = call /\ OnPath(c, call)'
    <3>1. PICK c \in Commands, call \in Calls : c = worker[w].command /\ call = worker[w].call
      BY <2>4, BusyTypes DEF Waits
    <3>2. worker[w].pc = "waiting" /\ c = r.command /\ call = r.call
      BY <2>4, <3>1 DEF Waits
    <3>3. Claimed(c) /\ OnPath(c, call)
      BY <3>1, <3>2 DEF PathInv
    <3>4. Claimed(c)' /\ outbox'[c].operation = outbox[c].operation
      BY <3>3, ClaimedKept DEF RowKept
    <3>5. worker'[w].command = c
      BY <2>4, <3>1, <3>2, BusyTypes DEF Heard
    <3>6. CASE worker'[w].pc \notin {"calling", "waiting"}
      BY <3>4, <3>5, <3>6
    <3>7. CASE worker'[w].pc \in {"calling", "waiting"}
      <4>1. /\ call = FirstCall(outbox[c].operation)
            /\ \/ outbox[c].operation = "register" /\ Answer(r) = "exists"
               \/ outbox[c].operation = "replace" /\ Answer(r) = "missing"
            /\ worker'[w].call = SecondCall(outbox[c].operation)
        <5> HIDE DEF Answer
        <5> QED BY <2>4, <3>1, <3>2, <3>7, BusyTypes DEF Heard, SecondCall
      <4>2. PICK second \in Calls : second = SecondCall(outbox[c].operation)
        BY OperationTypes
      <4>3. answers'[<<c, call>>] = Answer(r)
        BY <2>4, <3>2, HandleAnswers
      <4>4. FirstAnswer(c)' = Answer(r)
        BY <3>4, <4>1, <4>3 DEF FirstAnswer
      <4>5. OnPath(c, second)'
        BY <3>4, <4>1, <4>2, <4>4 DEF FallsBack, OnPath
      <4> QED BY <3>4, <3>5, <4>1, <4>2, <4>5
    <3> QED BY <3>6, <3>7
  <2> QED BY <1>2, <2>2, <2>3, <2>4, WorkerSteps
<1>3. ASSUME NEW c \in Commands, NEW call \in Calls, answers'[<<c, call>>] # "none"
      PROVE  Claimed(c)' /\ OnPath(c, call)'
  <2>1. CASE answers[<<c, call>>] # "none"
    BY <2>1, ClaimedKept DEF PathInv
  <2>2. CASE answers[<<c, call>>] = "none"
    <3>1. PICK r \in requests : Handle(r)
      BY <1>3, <2>2, SchedulerSteps
    <3>2. c = r.command /\ call = r.call
      BY <1>3, <2>2, <3>1, HandleAnswers
    <3>3. Claimed(c) /\ OnPath(c, call)
      BY <3>2 DEF PathInv
    <3> QED BY <3>3, ClaimedKept
  <2> QED BY <2>1, <2>2
<1>4. ASSUME NEW w \in Workers, worker'[w].pc # "idle"
      PROVE  /\ Claimed(worker[w].command)'
             /\ worker'[w].pc \in {"calling", "waiting"} =>
                   OnPath(worker[w].command, worker[w].call)'
  <2>1. PICK c \in Commands, call \in Calls :
           /\ worker'[w].command = c /\ Claimed(c)'
           /\ worker'[w].pc \in {"calling", "waiting"} =>
                 worker'[w].call = call /\ OnPath(c, call)'
    BY <1>2, <1>4
  <2> QED BY <2>1 DEF Claimed, OnPath, FallsBack, FirstAnswer
<1> QED BY <1>1, <1>3, <1>4 DEF PathInv

LEMMA ObeyedKept ==
    ASSUME TypeOK, TaskInv, FencesInv, PathInv, ObeyedInv, [Next]_vars
    PROVE  ObeyedInv'
<1>1. ASSUME NEW w \in Workers, worker'[w].pc = "settling", worker'[w].outcome = "succeeded"
      PROVE  \E c \in Commands : worker'[w].command = c /\ Obeyed(c)'
  <2>1. CASE worker'[w] = worker[w]
    <3>1. PICK c \in Commands : c = worker[w].command
      BY <1>1, <2>1, BusyTypes
    <3>2. Claimed(c) /\ Obeyed(c)
      BY <1>1, <2>1, <3>1 DEF PathInv, ObeyedInv
    <3> QED BY <2>1, <3>1, <3>2, ClaimedKept
  <2>2. ASSUME NEW c \in Commands, Claim(w, c) PROVE FALSE
    BY <1>1, <2>2 DEF Claim, TypeOK
  <2>3. CASE /\ worker[w].pc = "calling" /\ worker'[w] = [worker[w] EXCEPT !.pc = "waiting"]
    BY <1>1, <2>3, BusyTypes
  <2>4. CASE /\ worker[w].pc = "waiting"
             /\ \E outcome \in {"retryable", "failed"} :
                   worker'[w] = [worker[w] EXCEPT !.pc = "settling", !.outcome = outcome]
    BY <1>1, <2>4, BusyTypes
  <2>5. ASSUME NEW r \in requests, Handle(r), Waits(w, r), worker'[w] = Heard(w, Answer(r))
        PROVE  \E c \in Commands : worker'[w].command = c /\ Obeyed(c)'
    <3>1. PICK c \in Commands, call \in Calls : c = worker[w].command /\ call = worker[w].call
      BY <2>5, BusyTypes DEF Waits
    <3>2. worker[w].pc = "waiting" /\ c = r.command /\ call = r.call
      BY <2>5, <3>1 DEF Waits
    <3>3. Claimed(c) /\ OnPath(c, call)
      BY <3>1, <3>2 DEF PathInv
    <3>4. /\ outbox'[c].operation = outbox[c].operation
          /\ OnPath(c, call)'
      BY <3>3, ClaimedKept DEF RowKept
    <3>5. /\ worker'[w].command = c
          /\ Answer(r) = "done" \/ (outbox[c].operation = "delete" /\ Answer(r) = "missing")
      <4> HIDE DEF Answer
      <4> QED BY <1>1, <2>5, <3>1, <3>2, BusyTypes DEF Heard
    <3>6. answers'[<<c, call>>] = Answer(r)
      BY <2>5, <3>2, HandleAnswers
    <3>7. CASE call = FirstCall(outbox[c].operation)
      BY <3>4, <3>5, <3>6, <3>7 DEF Obeyed, FirstAnswer
    <3>8. CASE call # FirstCall(outbox[c].operation)
      <4>1. /\ FallsBack(c)' /\ call = SecondCall(outbox[c].operation)
        BY <3>4, <3>8 DEF OnPath
      <4>2. outbox[c].operation # "delete"
        BY <3>4, <4>1 DEF FallsBack
      <4> QED BY <3>4, <3>5, <3>6, <4>1, <4>2 DEF Obeyed, SecondAnswer
    <3> QED BY <3>5, <3>7, <3>8
  <2> QED BY <1>1, <2>1, <2>2, <2>3, <2>4, <2>5, WorkerSteps
<1>2. ASSUME NEW c \in Commands, outbox'[c].status = "succeeded"
      PROVE  Obeyed(c)'
  <2>1. CASE outbox[c].status = "succeeded"
    <3>1. Obeyed(c)
      BY <2>1 DEF ObeyedInv
    <3>2. Claimed(c)
      BY <3>1, OperationTypes DEF Obeyed, FirstAnswer, SecondAnswer, PathInv
    <3> QED BY <3>1, <3>2, ClaimedKept
  <2>2. CASE outbox[c].status # "succeeded"
    <3>1. ASSUME NEW w \in Workers, Claim(w, c) PROVE FALSE
      BY <1>2, <3>1 DEF Claim, TypeOK, Command
    <3>2. ASSUME NEW w \in Workers, MarkFailed(w), Holds(w), worker[w].command = c PROVE FALSE
      <4> HIDE DEF InDoubt, FailsTask, Exhausted, Rests
      <4> QED BY <1>2, <3>2 DEF MarkFailed, TypeOK, Command
    <3>3. ASSUME NEW w \in Workers, MarkSucceeded(w), worker[w].command = c
          PROVE  Obeyed(c)'
      <4>1. Obeyed(c) /\ Claimed(c)
        BY <3>3 DEF ObeyedInv, PathInv, MarkSucceeded
      <4> QED BY <4>1, ClaimedKept
    <3>4. RowsInv
      BY DEF TaskInv
    <3> QED BY <1>2, <2>2, <3>1, <3>2, <3>3, <3>4, RowSteps DEF Open
  <2> QED BY <2>1, <2>2
<1>3. ASSUME NEW w \in Workers, worker'[w].pc = "settling", worker'[w].outcome = "succeeded"
      PROVE  Obeyed(worker[w].command)'
  <2>1. PICK c \in Commands : worker'[w].command = c /\ Obeyed(c)'
    BY <1>1, <1>3
  <2> QED BY <2>1 DEF Obeyed, FallsBack, FirstAnswer, SecondAnswer
<1> QED BY <1>2, <1>3 DEF ObeyedInv

\* A command comes within the Scheduler's reach when it is claimed.
LEMMA ReachedByClaim ==
    ASSUME TypeOK, [Next]_vars, NEW c \in Commands, Reachable(c)', ~Reachable(c)
    PROVE  \E w \in Workers : Claim(w, c)
<1>1. ASSUME NEW r \in requests', r.command = c PROVE FALSE
  <2>1. r \notin requests
    BY <1>1 DEF Reachable
  <2>2. PICK w \in Workers : worker[w].pc = "calling" /\ r.command = worker[w].command
    BY <2>1, RequestSteps
  <2> QED BY <1>1, <2>2 DEF Reachable
<1>2. ASSUME NEW w \in Workers, worker'[w].pc = "calling", worker'[w].command = c
      PROVE  \E v \in Workers : Claim(v, c)
  <2>1. CASE worker'[w] = worker[w]
    BY <1>2, <2>1 DEF Reachable
  <2>2. ASSUME NEW d \in Commands, Claim(w, d) PROVE \E v \in Workers : Claim(v, c)
    <3>1. c = d
      BY <1>2, <2>2 DEF Claim, TypeOK
    <3> QED BY <2>2, <3>1
  <2>3. ASSUME NEW r \in requests, Handle(r), Waits(w, r), worker'[w] = Heard(w, Answer(r))
        PROVE  FALSE
    <3>1. worker'[w].command = worker[w].command /\ worker[w].command = r.command
      <4> HIDE DEF Answer
      <4> QED BY <2>3, BusyTypes DEF Waits, Heard
    <3> QED BY <1>2, <3>1 DEF Reachable
  <2>4. CASE \/ worker[w].pc = "calling" /\ worker'[w] = [worker[w] EXCEPT !.pc = "waiting"]
             \/ /\ worker[w].pc = "waiting"
                /\ \E outcome \in {"retryable", "failed"} :
                      worker'[w] = [worker[w] EXCEPT !.pc = "settling", !.outcome = outcome]
    BY <1>2, <2>4, BusyTypes
  <2> QED BY <1>2, <2>1, <2>2, <2>3, <2>4, WorkerSteps
<1> QED BY <1>1, <1>2 DEF Reachable

LEMMA FailedKept ==
    ASSUME TypeOK, TaskInv, FencesInv, FailedInv, [Next]_vars
    PROVE  FailedInv'
<1> SUFFICES ASSUME NEW c \in Commands, outbox'[c].status = "failed", ~outbox'[c].doubt,
                    Reachable(c)'
             PROVE  FALSE
  BY DEF FailedInv
<1>1. RowsInv
  BY DEF TaskInv
<1>2. ASSUME NEW w \in Workers, Claim(w, c) PROVE FALSE
  BY <1>2 DEF Claim, TypeOK, Command
<1>3. CASE outbox[c].status = "failed"
  <2>1. outbox'[c] = outbox[c]
    BY <1>1, <1>3, WrittenKept DEF RowsInv, RowKept, Closed
  <2>2. ~Reachable(c)
    BY <1>3, <2>1 DEF FailedInv
  <2> QED BY <1>2, <2>2, ReachedByClaim
<1>4. ASSUME NEW w \in Workers, MarkFailed(w), Holds(w), worker[w].command = c PROVE FALSE
  <2>1. ~InDoubt(w)
    <3>1. PICK doubt \in BOOLEAN : doubt = InDoubt(w)
      BY DEF InDoubt
    <3> HIDE DEF InDoubt
    <3>2. outbox' = [outbox EXCEPT ![c].status = "failed", ![c].doubt = doubt]
      BY <1>4, <3>1 DEF MarkFailed
    <3>3. outbox'[c].doubt = doubt
      BY <3>2 DEF TypeOK, Command
    <3> QED BY <3>1, <3>3
  <2>2. requests' = requests /\ worker' = [worker EXCEPT ![w] = Resting]
    BY <1>4 DEF MarkFailed, Rests, scheduler
  <2>3. PICK v \in Workers : worker'[v].pc = "calling" /\ worker'[v].command = c
    BY <1>4, <2>1, <2>2 DEF Reachable, InDoubt
  <2>4. v # w /\ worker'[v] = worker[v]
    BY <2>2, <2>3 DEF TypeOK, Resting
  <2> QED BY <1>4, <2>1, <2>3, <2>4 DEF InDoubt
<1>5. ASSUME NEW w \in Workers, MarkSucceeded(w), worker[w].command = c,
             outbox'[c] # outbox[c]
      PROVE  FALSE
  BY <1>5 DEF MarkSucceeded, TypeOK, Command
<1> QED BY <1>1, <1>2, <1>3, <1>4, <1>5, RowSteps DEF Open

-----------------------------------------------------------------------------
(* The job *)

\* A request of a command after which another was claimed has been answered.
LEMMA OlderIsAnswered ==
    ASSUME TypeOK, TaskInv, DeliveryInv, Orderly,
           NEW r \in requests, NEW d \in Commands, Claimed(d), r.command < d
    PROVE  answers[<<r.command, r.call>>] # "none"
<1> DEFINE c == r.command
<1>1. c \in Commands /\ r.call \in Calls
  BY DEF TypeOK, Request
<1>2. outbox[c].status \in Closed
  <2>1. d <= last
    BY DEF FencesInv, DeliveryInv, TaskInv, RowsInv
  <2> QED BY <1>1, <2>1 DEF SettledBefore, DeliveryInv
<1>3. outbox[c].status # "failed"
  <2>1. ~outbox[c].doubt /\ Reachable(c)
    BY <1>1 DEF Orderly, Reachable
  <2> QED BY <1>1, <2>1 DEF FailedInv, DeliveryInv
<1>4. Obeyed(c) /\ OnPath(c, r.call)
  BY <1>1, <1>2, <1>3 DEF Closed, ObeyedInv, PathInv, DeliveryInv
<1>5. CASE r.call = FirstCall(outbox[c].operation)
  BY <1>4, <1>5 DEF Obeyed, FallsBack, FirstAnswer
<1>6. CASE r.call # FirstCall(outbox[c].operation)
  BY <1>4, <1>6 DEF Obeyed, OnPath, FallsBack, FirstAnswer, SecondAnswer
<1> QED BY <1>5, <1>6

\* A call that was answered changes nothing.
LEMMA AnsweredChangesNothing ==
    ASSUME TypeOK, NEW r \in requests, Handle(r), answers[<<r.command, r.call>>] # "none"
    PROVE  UNCHANGED <<job, answers>>
<1>1. job' = job
  BY DEF Handle, Obeys
<1>2. Answer(r) = answers[<<r.command, r.call>>]
  BY DEF Answer
<1>3. answers' = answers
  BY <1>2 DEF Handle, Obeys, TypeOK
<1> QED BY <1>1, <1>3

\* The Scheduler obeys a command by the call that makes the job what it says.
LEMMA ObeyingMakes ==
    ASSUME TypeOK, TaskInv, DeliveryInv, NEW r \in requests, Handle(r),
           answers[<<r.command, r.call>>] = "none",
           NEW c \in Commands, c = r.command, Obeyed(c)'
    PROVE  Makes(c)'
<1>1. /\ r.call \in Calls /\ OnPath(c, r.call)
      /\ outbox'[c] = outbox[c]
      /\ \A call \in Calls : answers[<<c, call>>] # "none" => OnPath(c, call)
  BY DEF TypeOK, Request, DeliveryInv, PathInv, Handle, taskVars
<1>2. /\ answers'[<<c, r.call>>] = Answer(r)
      /\ \A call \in Calls : call # r.call => answers'[<<c, call>>] = answers[<<c, call>>]
  BY HandleAnswers
<1>3. Answer(r) = IF r.call = "create" /\ job.present THEN "exists"
                  ELSE IF r.call # "create" /\ ~job.present THEN "missing"
                  ELSE "done"
  BY DEF Answer
<1>4. job' = IF Answer(r) = "done"
             THEN [present |-> r.call # "delete", by |-> c]
             ELSE job
  BY DEF Handle, Obeys
<1>5. outbox[c].operation \in Operations
  BY OperationTypes
<1>6. CASE outbox[c].operation = "delete"
  <2>1. r.call = "delete"
    BY <1>1, <1>6 DEF OnPath, FallsBack, FirstCall
  <2>2. Answer(r) = "done" \/ ~job.present
    BY <1>3, <2>1
  <2>3. ~job'.present
    BY <1>3, <1>4, <2>1, <2>2
  <2> QED BY <1>1, <1>6, <2>3 DEF Makes
<1>7. CASE outbox[c].operation = "register"
  <2>1. FirstCall(outbox[c].operation) = "create" /\ SecondCall(outbox[c].operation) = "replace"
    BY <1>7 DEF FirstCall, SecondCall
  <2>2. Answer(r) = "done" /\ r.call # "delete"
    <3>1. r.call \in {"create", "replace"}
      BY <1>1, <2>1 DEF OnPath
    <3>2. CASE r.call = "create"
      <4>1. answers'[<<c, "replace">>] = "none"
        <5>1. answers[<<c, "replace">>] = "none"
          BY <1>1, <1>7, <2>1, <3>2 DEF OnPath, FallsBack, FirstAnswer, Calls
        <5> QED BY <1>2, <3>2, <5>1 DEF Calls
      <4> QED BY <1>1, <1>2, <1>7, <2>1, <3>2, <4>1
              DEF Obeyed, FallsBack, FirstAnswer, SecondAnswer
    <3>3. CASE r.call = "replace"
      <4>1. answers'[<<c, "create">>] = "exists"
        BY <1>1, <1>2, <1>7, <2>1, <3>3 DEF OnPath, FallsBack, FirstAnswer, Calls
      <4> QED BY <1>1, <1>2, <1>7, <2>1, <3>3, <4>1
              DEF Obeyed, FallsBack, FirstAnswer, SecondAnswer
    <3> QED BY <3>1, <3>2, <3>3
  <2> QED BY <1>1, <1>4, <1>7, <2>2 DEF Makes
<1>8. CASE outbox[c].operation = "replace"
  <2>1. FirstCall(outbox[c].operation) = "replace" /\ SecondCall(outbox[c].operation) = "create"
    BY <1>8 DEF FirstCall, SecondCall
  <2>2. Answer(r) = "done" /\ r.call # "delete"
    <3>1. r.call \in {"create", "replace"}
      BY <1>1, <2>1 DEF OnPath
    <3>2. CASE r.call = "replace"
      <4>1. answers'[<<c, "create">>] = "none"
        <5>1. answers[<<c, "create">>] = "none"
          BY <1>1, <1>8, <2>1, <3>2 DEF OnPath, FallsBack, FirstAnswer, Calls
        <5> QED BY <1>2, <3>2, <5>1 DEF Calls
      <4> QED BY <1>1, <1>2, <1>8, <2>1, <3>2, <4>1
              DEF Obeyed, FallsBack, FirstAnswer, SecondAnswer
    <3>3. CASE r.call = "create"
      <4>1. answers'[<<c, "replace">>] = "missing"
        BY <1>1, <1>2, <1>8, <2>1, <3>3 DEF OnPath, FallsBack, FirstAnswer, Calls
      <4> QED BY <1>1, <1>2, <1>8, <2>1, <3>3, <4>1
              DEF Obeyed, FallsBack, FirstAnswer, SecondAnswer
    <3> QED BY <3>1, <3>2, <3>3
  <2> QED BY <1>1, <1>4, <1>8, <2>2 DEF Makes
<1> QED BY <1>5, <1>6, <1>7, <1>8 DEF Operations

LEMMA JobKept ==
    ASSUME TypeOK, TaskInv, DeliveryInv, [Next]_vars
    PROVE  JobInv'
<1>1. FencesInv /\ PathInv /\ JobInv
  BY DEF DeliveryInv
<1>2. job'.by # 0 => Claimed(job.by)'
  <2>1. ASSUME NEW c \in Commands, c = job'.by, Claimed(c) PROVE Claimed(job.by)'
    <3>1. Claimed(c)'
      BY <1>1, <2>1, ClaimedKept
    <3> QED BY <2>1, <3>1 DEF Claimed
  <2>2. CASE job' = job /\ job.by # 0
    <3>1. PICK c \in Commands : c = job.by
      BY <2>2 DEF TypeOK, Commands
    <3> QED BY <1>1, <2>1, <2>2, <3>1 DEF JobInv
  <2>3. CASE job' # job
    <3>1. PICK r \in requests : Handle(r)
      BY <2>3, SchedulerSteps
    <3>2. job'.by = r.command
      BY <2>3, <3>1 DEF Handle, Obeys
    <3>3. r.command \in Commands /\ Claimed(r.command)
      BY <1>1 DEF PathInv, TypeOK, Request
    <3> QED BY <2>1, <3>2, <3>3
  <2> QED BY <2>2, <2>3
<1>3. ASSUME Orderly', NEW c \in Commands, Latest(c)', Obeyed(c)'
      PROVE  Makes(c)'
  <2>1. Orderly
    BY <1>1, <1>3, OrderlyBefore
  <2>2. ASSUME UNCHANGED <<job, answers>> PROVE Makes(c)'
    <3>1. Claimed(c)
      <4>1. ASSUME NEW w \in Workers, Claim(w, c) PROVE Obeyed(c)
        <5>1. /\ outbox'[c].operation = outbox[c].operation
          BY <4>1 DEF Claim, TypeOK, Command
        <5> QED BY <1>3, <2>2, <5>1 DEF Obeyed, FallsBack, FirstAnswer, SecondAnswer
      <4>2. Obeyed(c) => Claimed(c)
        BY <1>1, OperationTypes DEF Obeyed, FirstAnswer, SecondAnswer, PathInv
      <4> QED BY <1>1, <1>3, <4>1, <4>2, ClaimedByClaim DEF Latest
    <3>2. outbox'[c].operation = outbox[c].operation
      BY <1>1, <3>1, ClaimedKept DEF RowKept
    <3>3. Obeyed(c)
      BY <1>3, <2>2, <3>2 DEF Obeyed, FallsBack, FirstAnswer, SecondAnswer
    <3>4. Latest(c)
      <4>1. ASSUME NEW d \in Commands, Claimed(d) PROVE d <= c
        BY <1>1, <1>3, <4>1, ClaimedKept DEF Latest
      <4> QED BY <3>1, <4>1 DEF Latest
    <3>5. Makes(c)
      BY <1>1, <2>1, <3>3, <3>4 DEF JobInv
    <3> QED BY <2>2, <3>2, <3>5 DEF Makes
  <2>3. ASSUME NEW r \in requests, Handle(r), ~UNCHANGED <<job, answers>> PROVE Makes(c)'
    <3>1. answers[<<r.command, r.call>>] = "none"
      BY <2>3, AnsweredChangesNothing
    <3>2. /\ r.command \in Commands /\ Claimed(r.command)
          /\ outbox'[c] = outbox[c]
      BY <1>1, <2>3 DEF PathInv, TypeOK, Request, Handle, taskVars
    <3>3. Claimed(c) /\ r.command <= c
      BY <1>1, <1>3, <3>2, ClaimedKept DEF Latest, Claimed
    <3>4. ~(r.command < c)
      BY <2>1, <3>1, <3>3, OlderIsAnswered
    <3>5. r.command = c
      BY <3>2, <3>3, <3>4, NumberTypes
    <3> QED BY <1>3, <2>3, <3>1, <3>5, ObeyingMakes
  <2> QED BY <2>2, <2>3, SchedulerSteps
<1> QED BY <1>2, <1>3 DEF JobInv

LEMMA StepDelivery ==
    TypeOK /\ TaskInv /\ DeliveryInv /\ [Next]_vars => DeliveryInv'
<1> SUFFICES ASSUME TypeOK, TaskInv, DeliveryInv, [Next]_vars PROVE DeliveryInv'
  OBVIOUS
<1>1. FencesInv /\ PathInv /\ ObeyedInv /\ FailedInv /\ SettledBefore
  BY DEF DeliveryInv
<1> QED BY <1>1, FencesKept, PathKept, ObeyedKept, FailedKept, SettledBeforeKept, JobKept
        DEF DeliveryInv

\* DeliveryInv: calls and answers follow the path of their command; what failed
\* without a doubt is out of the Scheduler's reach; commands are claimed after
\* those before them are settled; the job is what the last claimed command made
\* it once the Scheduler has obeyed (outbox-delivery.ts:122-141 and the claim).
THEOREM DeliveryCorrect == Spec => []DeliveryInv
<1>1. Init => DeliveryInv
  BY InitDelivery
<1>2. TypeOK /\ TaskInv /\ DeliveryInv /\ [Next]_vars => DeliveryInv'
  BY StepDelivery
<1> QED BY <1>1, <1>2, TypedInv, PTL DEF Spec

\* LastWins: when the last command has succeeded the job is what it says, whatever
\* was lost, repeated, late or failed before it, provided that transactions locked
\* the task in the order they began and no command failed in doubt
\* (outbox-delivery.ts:122-141; the FIFO of docs/RELIABILITY.md:43-44).
THEOREM LastCommandWins == Spec => []LastWins
<1>1. TypeOK /\ TaskInv /\ DeliveryInv => LastWins
  <2> SUFFICES ASSUME TypeOK, TaskInv, DeliveryInv, Orderly, last > 0,
                      outbox[last].status = "succeeded"
               PROVE  Wanted
    BY DEF LastWins
  <2>1. last \in Commands
    BY DEF TypeOK, Commands
  <2>2. Obeyed(last)
    BY <2>1 DEF DeliveryInv, ObeyedInv
  <2>3. Claimed(last)
    BY <2>1, <2>2, OperationTypes DEF Obeyed, FirstAnswer, SecondAnswer, DeliveryInv, PathInv
  <2>4. \A d \in Commands : Claimed(d) => d <= last
    BY DEF DeliveryInv, FencesInv, TaskInv, RowsInv
  <2> QED BY <2>1, <2>2, <2>3, <2>4 DEF DeliveryInv, JobInv, Latest, Makes, Wanted
<1> QED BY <1>1, TypedInv, DeliveryCorrect, PTL

\* JobMovesForward: no call takes the job back to a command older than the one it
\* last obeyed (with the same proviso; outbox-delivery.ts:122-141).
THEOREM JobOnlyMovesForward == Spec => JobMovesForward
<1>1. TypeOK /\ TaskInv /\ DeliveryInv /\ [Next]_vars => (Orderly' => job'.by >= job.by)
  <2> SUFFICES ASSUME TypeOK, TaskInv, DeliveryInv, [Next]_vars, Orderly'
               PROVE  job'.by >= job.by
    OBVIOUS
  <2>1. FencesInv /\ PathInv /\ JobInv
    BY DEF DeliveryInv
  <2>2. Orderly
    BY <2>1, OrderlyBefore
  <2>3. job.by \in 0..MaxCommands
    BY DEF TypeOK
  <2>4. CASE job' = job
    BY <2>3, <2>4
  <2>5. CASE job' # job
    <3>1. PICK r \in requests : Handle(r)
      BY <2>5, SchedulerSteps
    <3>2. job'.by = r.command /\ r.command \in Commands
      BY <2>5, <3>1 DEF Handle, Obeys, TypeOK, Request
    <3>3. ASSUME r.command < job.by PROVE FALSE
      <4>1. job.by \in Commands /\ Claimed(job.by)
        BY <2>1, <2>3, <3>2, <3>3 DEF JobInv, Commands
      <4>2. answers[<<r.command, r.call>>] # "none"
        BY <2>2, <3>3, <4>1, OlderIsAnswered
      <4> QED BY <2>5, <3>1, <4>2, AnsweredChangesNothing
    <3> QED BY <2>3, <3>2, <3>3, NumberTypes
  <2> QED BY <2>4, <2>5
<1>2. [](TypeOK /\ TaskInv) /\ []DeliveryInv /\ [][Next]_vars => JobMovesForward
  BY <1>1, PTL DEF JobMovesForward
<1> QED BY <1>2, TypedInv, DeliveryCorrect, PTL DEF Spec

=============================================================================
