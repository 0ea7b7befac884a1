----------------------- MODULE ScheduledDispatchProofs -----------------------
(***************************************************************************)
(* Theorems about ScheduledDispatch, for every number of occurrences,      *)
(* dispatchers, readers and faults.                                        *)
(***************************************************************************)
EXTENDS ScheduledDispatch, TLAPS

-----------------------------------------------------------------------------
(* Types *)

LEMMA InitTypes == Init => TypeOK
<1> SUFFICES ASSUME Init PROVE TypeOK
  OBVIOUS
<1>1. AbsentRow \in Row
  BY ConstantsAssumption DEF AbsentRow, Row, Open, Closed
<1>2. log \in Seq(Event)
  BY DEF Init
<1>3. scope \in Scope
  BY ConstantsAssumption DEF Init, Scope, NoOccurrence
<1> QED
  BY ConstantsAssumption, <1>1, <1>2, <1>3 DEF Init, TypeOK

LEMMA FaultTypes == faults \in 0..MaxFaults /\ Fault => faults' \in 0..MaxFaults
BY ConstantsAssumption DEF Fault

\* A dispatcher or reader that is not idle has a ticket.
LEMMA BusyTypes ==
    ASSUME TypeOK
    PROVE  /\ \A w \in Workers : worker[w].pc # "idle" => worker[w] \in Ticket
           /\ \A k \in Readers : reader[k].pc # "idle" => reader[k] \in Reading
           /\ \A k \in Readers : reader[k].after \in Nat /\ reader[k].upto \in Nat
BY DEF TypeOK, Ticket, Idle, Reading, Resting

LEMMA RowTypes ==
    ASSUME NEW row \in Row
    PROVE  /\ [row EXCEPT !.elapsed = TRUE] \in Row
           /\ [row EXCEPT !.status = "pending", !.elapsed = TRUE] \in Row
           /\ \A w \in Workers : Claimed(row, w) \in Row
           /\ \A status \in Open \cup Closed : Unleased(row, status) \in Row
           /\ [Unleased(row, "retryable") EXCEPT !.unknown = TRUE] \in Row
           /\ Refused(row) \in Row
<1>1. /\ [row EXCEPT !.elapsed = TRUE] \in Row
      /\ [row EXCEPT !.status = "pending", !.elapsed = TRUE] \in Row
  BY DEF Row, Open
<1>2. \A w \in Workers : Claimed(row, w) \in Row
  <2> SUFFICES ASSUME NEW w \in Workers PROVE Claimed(row, w) \in Row
    OBVIOUS
  <2>1. (IF row.attempts < MaxAttempts THEN row.attempts + 1 ELSE row.attempts) \in 0..MaxAttempts
    BY ConstantsAssumption DEF Row
  <2>2. (row.unknown \/ row.status = "leased") \in BOOLEAN
    BY Zenon DEF Row
  <2> QED BY <2>1, <2>2 DEF Claimed, Row, Open
<1>3. \A status \in Open \cup Closed : Unleased(row, status) \in Row
  BY DEF Unleased, Row
<1>4. [Unleased(row, "retryable") EXCEPT !.unknown = TRUE] \in Row
  BY DEF Unleased, Row, Open
<1>5. Refused(row) \in Row
  BY <1>3 DEF Refused, Open, Closed
<1> QED BY <1>1, <1>2, <1>3, <1>4, <1>5
-----------------------------------------------------------------------------
(* The inductive invariant *)

Unsent(o) == agent[o] = "none" /\ \A r \in requests : r.run # o

\* Only the row's own holder can have sent anything.
Doubtless(o) ==
    /\ ~dispatch[o].unknown
    /\ dispatch[o].status \in {"absent", "pending", "retryable", "leased", "failed"}

\* What a worker at a row nobody doubts may have done.
OnlySender(o, w) ==
    /\ dispatch[o].status = "leased" /\ dispatch[o].holder = w
    /\ worker[w].pc = "claimed" => Unsent(o)
    /\ worker[w].pc = "waiting" => \A r \in requests : r.run = o => r.from = w /\ agent[o] = "none"
    /\ worker[w].pc = "answered" /\ worker[w].outcome = "not_admitted" => Unsent(o)

DoubtOf(o) ==
    /\ dispatch[o].status \in {"absent", "pending", "failed"} => ~dispatch[o].unknown
    /\ Doubtless(o) => /\ dispatch[o].status # "leased" => Unsent(o)
                       /\ \A w \in Workers : worker[w].run = o => OnlySender(o, w)

DoubtInv == \A o \in Occurrences : DoubtOf(o)

\* A request with a sender is the one its sender waits for.
ListenInv ==
    \A r \in requests : r.from \in Workers =>
        worker[r.from].pc = "waiting" /\ worker[r.from].run = r.run

ActiveInv ==
    \A o \in Occurrences :
        /\ dispatch[o].status \in {"leased", "retryable", "admitted"} => scope.active = o
        /\ scope.active = o => dispatch[o].status \in {"leased", "retryable", "admitted", "terminal"}

LogInv ==
    /\ \A i \in DOMAIN log :
        /\ log[i].run # NoOccurrence => agent[log[i].run] # "none"
        /\ log[i].last => log[i].run # NoOccurrence /\ agent[log[i].run] = "ended"
    /\ \A i, j \in DOMAIN log : i < j /\ log[i].last => log[j].run # log[i].run

ReadInv ==
    /\ scope.watermark <= Len(log)
    /\ \A k \in Readers : reader[k].after <= reader[k].upto /\ reader[k].upto <= Len(log)
    /\ \A i \in DOMAIN log : i <= scope.watermark /\ log[i].last => dispatch[log[i].run].status = "terminal"
    /\ \A o \in Occurrences : dispatch[o].status = "terminal" =>
        \E i \in DOMAIN log : i <= scope.watermark /\ log[i].last /\ log[i].run = o

DispatchInv == DoubtInv /\ ListenInv /\ ActiveInv /\ LogInv /\ ReadInv

LEMMA AcceptTypes == ASSUME TypeOK, NEW o \in Occurrences, Accept(o) PROVE TypeOK'
BY RowTypes DEF Accept, TypeOK

LEMMA ClaimTypes ==
    ASSUME TypeOK, NEW w \in Workers, NEW o \in Occurrences, Claim(w, o) PROVE TypeOK'
<1>1. dispatch' \in [Occurrences -> Row]
  BY RowTypes DEF Claim, TypeOK
<1>2. scope' \in Scope
  BY DEF Claim, TypeOK, Scope
<1>3. worker' \in [Workers -> Ticket \cup {Idle}]
  BY DEF Claim, TypeOK, Ticket
<1> QED BY <1>1, <1>2, <1>3 DEF Claim, TypeOK

\* A ticket that is answered is a ticket; orphaned requests are requests.
LEMMA AnsweredTypes ==
    ASSUME NEW t \in Ticket, NEW outcome \in {"admitted", "not_admitted", "unknown"}
    PROVE  Answered(t, outcome) \in Ticket
BY DEF Answered, Ticket

LEMMA OrphanedTypes == ASSUME TypeOK, NEW w \in Workers PROVE Orphaned(w) \subseteq Request
<1> SUFFICES ASSUME NEW r \in requests
             PROVE  [r EXCEPT !.from = IF @ = w THEN NoWorker ELSE @] \in Request
  BY DEF Orphaned
<1>1. r \in Request
  BY DEF TypeOK
<1>2. (IF r.from = w THEN NoWorker ELSE r.from) \in Workers \cup {NoWorker}
  BY <1>1 DEF Request
<1> QED BY <1>1, <1>2 DEF Request

LEMMA DeliveryTypes ==
    ASSUME TypeOK, NEW w \in Workers,
           Deliver(w) \/ RefuseLocally(w) \/ GiveUp(w) \/ Crash(w)
    PROVE  TypeOK'
<1>1. worker[w].pc # "idle" /\ worker[w] \in Ticket
  BY BusyTypes DEF Deliver, RefuseLocally, GiveUp, Crash
<1>2. CASE Deliver(w)
  <2>1. [worker[w] EXCEPT !.pc = "waiting"] \in Ticket
    BY <1>1 DEF Ticket
  <2>2. [run |-> worker[w].run, from |-> w] \in Request
    BY <1>1 DEF Ticket, Request
  <2> QED BY <1>2, <2>1, <2>2 DEF Deliver, TypeOK
<1>3. CASE RefuseLocally(w)
  BY <1>1, <1>3, AnsweredTypes, FaultTypes DEF RefuseLocally, TypeOK
<1>4. CASE GiveUp(w)
  BY <1>1, <1>4, AnsweredTypes, OrphanedTypes, FaultTypes DEF GiveUp, TypeOK
<1>5. CASE Crash(w)
  BY <1>5, OrphanedTypes, FaultTypes DEF Crash, TypeOK
<1> QED BY <1>2, <1>3, <1>4, <1>5

\* Every settlement and give-back replaces one row and rests its worker.
LEMMA SettledTypes ==
    ASSUME TypeOK, NEW w \in Workers, NEW row \in Row, Settled(w, row), scope' \in Scope
    PROVE  TypeOK'
BY DEF Settled, TypeOK

LEMMA SettleTypes ==
    ASSUME TypeOK, NEW w \in Workers,
           MarkAdmitted(w) \/ MarkUnknown(w) \/ MarkNotAdmitted(w) \/ DropSettlement(w) \/ ReleaseNeverSent(w)
    PROVE  TypeOK'
<1> DEFINE o == worker[w].run
<1>1. worker[w].pc # "idle" /\ o \in Occurrences /\ dispatch[o] \in Row /\ scope \in Scope
  BY BusyTypes DEF MarkAdmitted, MarkUnknown, MarkNotAdmitted, DropSettlement, ReleaseNeverSent,
     Settles, Ticket, TypeOK
<1>2. CASE MarkAdmitted(w)
  BY <1>1, <1>2, RowTypes, SettledTypes DEF MarkAdmitted, Open
<1>3. CASE MarkUnknown(w)
  BY <1>1, <1>3, RowTypes, SettledTypes DEF MarkUnknown
<1>4. CASE MarkNotAdmitted(w)
  <2>1. scope' \in Scope
    BY <1>1, <1>4 DEF MarkNotAdmitted, Scope
  <2> QED BY <1>1, <1>4, <2>1, RowTypes, SettledTypes DEF MarkNotAdmitted
<1>5. CASE DropSettlement(w)
  BY <1>5 DEF DropSettlement, TypeOK
<1>6. CASE ReleaseNeverSent(w)
  <2>1. dispatch' \in [Occurrences -> Row]
    BY <1>1, <1>6, RowTypes DEF ReleaseNeverSent, TypeOK, Open
  <2> QED BY <1>6, <2>1, FaultTypes DEF ReleaseNeverSent, TypeOK
<1> QED BY <1>2, <1>3, <1>4, <1>5, <1>6

LEMMA ElapseTypes == ASSUME TypeOK, NEW o \in Occurrences, Elapse(o) PROVE TypeOK'
<1>1. faults' \in 0..MaxFaults
  BY FaultTypes DEF Elapse, TypeOK
<1> QED BY <1>1, RowTypes DEF Elapse, TypeOK

LEMMA ReplyTypes ==
    ASSUME TypeOK, ListenInv, NEW r \in requests,
           NEW outcome \in {"admitted", "not_admitted", "unknown"}, Reply(r, outcome)
    PROVE  worker' \in [Workers -> Ticket \cup {Idle}]
<1>1. ASSUME NEW w \in Workers, w = r.from PROVE Answered(worker[w], outcome) \in Ticket
  BY <1>1, BusyTypes, AnsweredTypes DEF ListenInv
<1> QED BY <1>1 DEF Reply, TypeOK

LEMMA AgentTypes ==
    ASSUME TypeOK, ListenInv,
           \/ \E r \in requests : AgentAccept(r) \/ AgentReject(r)
           \/ \E o \in Occurrences : AgentEnd(o)
           \/ \E o \in Occurrences \cup {NoOccurrence} : AgentEmit(o)
    PROVE  TypeOK'
<1>1. ASSUME NEW r \in requests, AgentAccept(r) PROVE TypeOK'
  BY <1>1, ReplyTypes DEF AgentAccept, TypeOK
<1>2. ASSUME NEW r \in requests, AgentReject(r) PROVE TypeOK'
  BY <1>2, ReplyTypes, FaultTypes DEF AgentReject, TypeOK
<1>3. ASSUME NEW o \in Occurrences, AgentEnd(o) PROVE TypeOK'
  <2>1. [run |-> o, last |-> TRUE] \in Event
    BY DEF Event
  <2> QED BY <1>3, <2>1 DEF AgentEnd, TypeOK
<1>4. ASSUME NEW o \in Occurrences \cup {NoOccurrence}, AgentEmit(o) PROVE TypeOK'
  <2>1. [run |-> o, last |-> FALSE] \in Event
    BY DEF Event
  <2> QED BY <1>4, <2>1 DEF AgentEmit, TypeOK
<1> QED BY <1>1, <1>2, <1>3, <1>4

LEMMA ReaderTypes ==
    ASSUME TypeOK, NEW k \in Readers, ReaderStep(k) \/ ReaderFault(k) PROVE TypeOK'
<1>0. /\ scope \in Scope /\ scope.watermark \in Nat /\ scope.active \in Occurrences \cup {NoOccurrence}
      /\ log \in Seq(Event) /\ Len(log) \in Nat /\ PageSize \in Nat
  BY ConstantsAssumption DEF TypeOK, Scope
<1>1. CASE ClaimConsumer(k)
  <2>1. scope' \in Scope
    BY <1>0, <1>1 DEF ClaimConsumer, Scope
  <2> QED BY <1>0, <1>1, <2>1 DEF ClaimConsumer, TypeOK, Reading
<1>2. CASE ReadPage(k)
  <2>1. reader[k].after \in Nat
    BY BusyTypes
  <2>2. (IF Len(log) < reader[k].after + PageSize THEN Len(log) ELSE reader[k].after + PageSize) \in Nat
    BY <1>0, <2>1
  <2> QED BY <1>2, <2>1, <2>2 DEF ReadPage, TypeOK, Reading
<1>3. CASE CommitPage(k)
  <2>1. reader[k] \in Reading /\ reader[k].upto \in Nat /\ reader[k].exhausted \in BOOLEAN
    BY <1>3, BusyTypes DEF CommitPage, Reading
  <2>2. scope' \in Scope
    BY <1>0, <1>3, <2>1 DEF CommitPage, Scope
  <2>3. dispatch' \in [Occurrences -> Row]
    <3>1. CASE EndsActive(k)
      <4>1. scope.active \in Occurrences
        BY <1>0, <3>1 DEF EndsActive, OfActive
      <4> QED BY <1>3, <3>1, <4>1, RowTypes DEF CommitPage, TypeOK, Closed
    <3> QED BY <1>3, <3>1 DEF CommitPage, TypeOK
  <2> QED BY <1>3, <2>2, <2>3 DEF CommitPage, TypeOK
<1>4. CASE DropPage(k)
  BY <1>4 DEF DropPage, TypeOK
<1>5. CASE ReleaseConsumer(k)
  <2>1. scope' \in Scope
    BY <1>0, <1>5 DEF ReleaseConsumer, Scope
  <2> QED BY <1>5, <2>1 DEF ReleaseConsumer, TypeOK
<1>6. CASE ReadFails(k) \/ CommitFails(k)
  <2>1. reader[k] \in Reading /\ [reader[k] EXCEPT !.pc = "failed"] \in Reading
    BY <1>6, BusyTypes DEF ReadFails, CommitFails, Reading
  <2>2. faults' \in 0..MaxFaults
    BY <1>6, FaultTypes DEF ReadFails, CommitFails, TypeOK
  <2> QED BY <1>6, <2>1, <2>2 DEF ReadFails, CommitFails, TypeOK
<1>7. CASE ReaderCrash(k)
  BY <1>7, FaultTypes DEF ReaderCrash, TypeOK
<1> QED BY <1>1, <1>2, <1>3, <1>4, <1>5, <1>6, <1>7 DEF ReaderStep, ReaderFault

LEMMA ClockTypes == ASSUME TypeOK, ReaderElapses \/ PollDue PROVE TypeOK'
<1>1. scope' \in Scope
  BY DEF ReaderElapses, PollDue, TypeOK, Scope
<1>2. faults' \in 0..MaxFaults
  BY FaultTypes DEF ReaderElapses, PollDue, TypeOK
<1> QED BY <1>1, <1>2 DEF ReaderElapses, PollDue, TypeOK

LEMMA NextTypes == TypeOK /\ ListenInv /\ [Next]_vars => TypeOK'
<1> SUFFICES ASSUME TypeOK, ListenInv, [Next]_vars PROVE TypeOK'
  OBVIOUS
<1>1. CASE UNCHANGED vars
  BY <1>1 DEF vars, TypeOK
<1>2. CASE \E w \in Workers : WorkerStep(w) \/ WorkerFault(w)
  BY <1>2, ClaimTypes, DeliveryTypes, SettleTypes DEF WorkerStep, WorkerFault
<1> QED BY <1>1, <1>2, AcceptTypes, ElapseTypes, AgentTypes, ReaderTypes, ClockTypes DEF Next

-----------------------------------------------------------------------------
(* Each part is kept by every step *)

LEMMA NullIsNoOccurrence == NoOccurrence \notin Occurrences
BY ConstantsAssumption DEF NoOccurrence

LEMMA InitInv == Init => DispatchInv
<1> SUFFICES ASSUME Init PROVE DispatchInv
  OBVIOUS
<1> USE NullIsNoOccurrence
<1>1. DoubtInv
  BY DEF Init, DoubtInv, DoubtOf, Doubtless, Unsent, AbsentRow, Idle
<1>2. ListenInv /\ ActiveInv
  BY DEF Init, ListenInv, ActiveInv, AbsentRow
<1>3. LogInv /\ ReadInv
  BY DEF Init, LogInv, ReadInv, AbsentRow, Resting
<1> QED BY <1>1, <1>2, <1>3 DEF DispatchInv

\* One sender waits for one request.
LEMMA OneRequest ==
    ASSUME TypeOK, NEW r \in requests, NEW s \in requests, r.run = s.run, r.from = s.from
    PROVE  r = s
BY DEF TypeOK, Request

\* Who stops listening leaves its requests without a sender.
LEMMA OrphanedRequests ==
    ASSUME TypeOK, NEW w \in Workers, NEW s \in Orphaned(w)
    PROVE  /\ s.from # w
           /\ \E r \in requests : s.run = r.run /\ IF r.from = w THEN s.from = NoWorker ELSE s = r
<1>1. PICK r \in requests : s = [r EXCEPT !.from = IF @ = w THEN NoWorker ELSE @]
  BY DEF Orphaned
<1>2. r \in Request
  BY DEF TypeOK
<1>3. s.run = r.run /\ IF r.from = w THEN s.from = NoWorker ELSE s = r
  BY <1>1, <1>2 DEF Request
<1>4. s.from # w
  BY <1>1, <1>2, ConstantsAssumption DEF Request
<1> QED BY <1>3, <1>4

LEMMA ListenStep == ASSUME TypeOK, ListenInv, [Next]_vars PROVE ListenInv'
<1> SUFFICES ASSUME NEW s \in requests', s.from \in Workers
             PROVE  worker'[s.from].pc = "waiting" /\ worker'[s.from].run = s.run
  BY DEF ListenInv
<1> DEFINE Goal == worker'[s.from].pc = "waiting" /\ worker'[s.from].run = s.run
<1> SUFFICES Goal
  OBVIOUS
<1>0. worker \in [Workers -> Ticket \cup {Idle}]
  BY DEF TypeOK
<1>1. CASE requests' = requests /\ worker' = worker
  BY <1>1 DEF ListenInv
<1>2. ASSUME NEW w \in Workers, NEW o \in Occurrences, Claim(w, o) PROVE Goal
  BY <1>0, <1>2 DEF Claim, ListenInv
<1>3. ASSUME NEW w \in Workers, Deliver(w) PROVE Goal
  BY <1>0, <1>3, BusyTypes DEF Deliver, ListenInv, Ticket
<1>4. ASSUME NEW w \in Workers, RefuseLocally(w) PROVE Goal
  BY <1>0, <1>4 DEF RefuseLocally, ListenInv
<1>5. ASSUME NEW w \in Workers, GiveUp(w) \/ Crash(w) PROVE Goal
  <2>1. PICK r \in requests : s.run = r.run /\ IF r.from = w THEN s.from = NoWorker ELSE s = r
    BY <1>5, OrphanedRequests DEF GiveUp, Crash
  <2>2. r.from # w /\ s = r
    BY <2>1, ConstantsAssumption
  <2>3. worker'[s.from] = worker[s.from]
    BY <1>0, <1>5, <2>2 DEF GiveUp, Crash
  <2> QED BY <2>2, <2>3 DEF ListenInv
<1>6. ASSUME NEW w \in Workers,
             MarkAdmitted(w) \/ MarkUnknown(w) \/ MarkNotAdmitted(w) \/ DropSettlement(w) \/ ReleaseNeverSent(w)
      PROVE  Goal
  <2>1. worker[w].pc # "waiting" /\ worker' = [worker EXCEPT ![w] = Idle] /\ requests' = requests
    BY <1>6 DEF MarkAdmitted, MarkUnknown, MarkNotAdmitted, DropSettlement, ReleaseNeverSent, Settles, Settled
  <2> QED BY <1>0, <2>1 DEF ListenInv
<1>7. ASSUME NEW r \in requests, AgentAccept(r) \/ AgentReject(r) PROVE Goal
  <2>1. s \in requests /\ s # r
    BY <1>7 DEF AgentAccept, AgentReject
  <2>2. s.from # r.from
    BY <2>1, OneRequest DEF ListenInv
  <2>3. worker'[s.from] = worker[s.from]
    BY <1>7, <2>2 DEF AgentAccept, AgentReject, Reply
  <2> QED BY <2>1, <2>3 DEF ListenInv
<1> QED
  <2>1. CASE \E o \in Occurrences : Accept(o) \/ Elapse(o) \/ AgentEnd(o)
    BY <2>1, <1>1 DEF Accept, Elapse, AgentEnd
  <2>2. CASE \E o \in Occurrences \cup {NoOccurrence} : AgentEmit(o)
    BY <2>2, <1>1 DEF AgentEmit
  <2>3. CASE \E w \in Workers : WorkerStep(w) \/ WorkerFault(w)
    BY <2>3, <1>2, <1>3, <1>4, <1>5, <1>6 DEF WorkerStep, WorkerFault
  <2>4. CASE \E k \in Readers : ReaderStep(k) \/ ReaderFault(k)
    BY <2>4, <1>1 DEF ReaderStep, ReaderFault, ClaimConsumer, ReadPage, CommitPage, DropPage,
       ReleaseConsumer, ReadFails, CommitFails, ReaderCrash
  <2>5. CASE ReaderElapses \/ PollDue \/ UNCHANGED vars
    BY <2>5, <1>1 DEF ReaderElapses, PollDue, vars
  <2> QED BY <1>7, <2>1, <2>2, <2>3, <2>4, <2>5 DEF Next

\* Who is not at a row and does not change it leaves its doubts alone.
LEMMA DoubtKept ==
    ASSUME NEW o \in Occurrences, DoubtOf(o), agent'[o] = agent[o],
           dispatch'[o].status = dispatch[o].status, dispatch'[o].unknown = dispatch[o].unknown,
           dispatch'[o].holder = dispatch[o].holder,
           \A s \in requests' : s.run = o => s \in requests,
           \A w \in Workers : worker'[w].run = o => worker'[w] = worker[w]
    PROVE  DoubtOf(o)'
<1>1. Unsent(o) => Unsent(o)'
  BY DEF Unsent
<1>2. Doubtless(o)' = Doubtless(o)
  BY DEF Doubtless
<1>3. ASSUME NEW w \in Workers, worker'[w].run = o, OnlySender(o, w) PROVE OnlySender(o, w)'
  BY <1>1, <1>3 DEF OnlySender
<1> QED BY <1>1, <1>2, <1>3 DEF DoubtOf

\* The requests a worker leaves behind are of the run it was at.
LEMMA OrphansElsewhere ==
    ASSUME TypeOK, ListenInv, NEW w \in Workers, NEW s \in Orphaned(w), s.run # worker[w].run
    PROVE  s \in requests
<1>1. PICK r \in requests : s.run = r.run /\ IF r.from = w THEN s.from = NoWorker ELSE s = r
  BY OrphanedRequests
<1> QED BY <1>1 DEF ListenInv

\* A worker changes no doubt but that of the row it is at.
LEMMA DoubtElsewhere ==
    ASSUME TypeOK, ListenInv, DoubtInv, NEW w \in Workers, NEW o \in Occurrences,
           \/ worker[w].run # o /\ (WorkerFault(w) \/ Deliver(w) \/ MarkAdmitted(w) \/ MarkUnknown(w)
                                    \/ MarkNotAdmitted(w) \/ DropSettlement(w))
           \/ \E p \in Occurrences \ {o} : Claim(w, p)
    PROVE  DoubtOf(o)'
<1>0. /\ worker \in [Workers -> Ticket \cup {Idle}] /\ dispatch \in [Occurrences -> Row]
      /\ Idle.run \notin Occurrences
  BY NullIsNoOccurrence DEF TypeOK, Idle
<1>1. agent'[o] = agent[o]
  BY DEF WorkerFault, Deliver, MarkAdmitted, MarkUnknown, MarkNotAdmitted, DropSettlement, Settled, Claim,
     RefuseLocally, GiveUp, ReleaseNeverSent, Crash
<1>2. dispatch'[o] = dispatch[o]
  BY <1>0 DEF WorkerFault, Deliver, MarkAdmitted, MarkUnknown, MarkNotAdmitted, DropSettlement, Settled, Claim,
     RefuseLocally, GiveUp, ReleaseNeverSent, Crash
<1>3. \A v \in Workers : worker'[v].run = o => worker'[v] = worker[v]
  <2>1. \A v \in Workers \ {w} : worker'[v] = worker[v]
    BY <1>0 DEF WorkerFault, Deliver, MarkAdmitted, MarkUnknown, MarkNotAdmitted, DropSettlement, Settled,
       Claim, RefuseLocally, GiveUp, ReleaseNeverSent, Crash
  <2>2. worker'[w].run # o
    <3>1. CASE \E p \in Occurrences \ {o} : Claim(w, p)
      BY <1>0, <3>1 DEF Claim
    <3>2. CASE worker[w].run # o /\ (Deliver(w) \/ RefuseLocally(w) \/ GiveUp(w))
      BY <1>0, <3>2, BusyTypes DEF Deliver, RefuseLocally, GiveUp, Answered, Ticket
    <3>3. CASE Crash(w) \/ ReleaseNeverSent(w) \/ MarkAdmitted(w) \/ MarkUnknown(w)
               \/ MarkNotAdmitted(w) \/ DropSettlement(w)
      BY <1>0, <3>3 DEF Crash, ReleaseNeverSent, MarkAdmitted, MarkUnknown, MarkNotAdmitted,
         DropSettlement, Settled
    <3> QED BY <3>1, <3>2, <3>3 DEF WorkerFault
  <2> QED BY <2>1, <2>2
<1>4. \A s \in requests' : s.run = o => s \in requests
  <2>1. CASE worker[w].run # o /\ (GiveUp(w) \/ Crash(w))
    BY <2>1, OrphansElsewhere DEF GiveUp, Crash
  <2>2. CASE worker[w].run # o /\ Deliver(w)
    BY <2>2 DEF Deliver
  <2>3. CASE requests' = requests
    BY <2>3
  <2> QED BY <2>1, <2>2, <2>3 DEF WorkerFault, MarkAdmitted, MarkUnknown, MarkNotAdmitted, DropSettlement,
             Settled, Claim, RefuseLocally, ReleaseNeverSent
<1> QED BY <1>1, <1>2, <1>3, <1>4, DoubtKept DEF DoubtInv

LEMMA DoubtClaim ==
    ASSUME TypeOK, DoubtInv, NEW w \in Workers, NEW o \in Occurrences, Claim(w, o)
    PROVE  DoubtOf(o)'
<1>0. worker \in [Workers -> Ticket \cup {Idle}] /\ dispatch \in [Occurrences -> Row]
  BY DEF TypeOK
<1>1. dispatch'[o] = Claimed(dispatch[o], w) /\ dispatch[o] \in Row
  BY <1>0 DEF Claim
<1>2. dispatch'[o].status = "leased" /\ dispatch'[o].holder = w
  BY <1>1 DEF Claimed, Row
<1>3. dispatch'[o].unknown = (dispatch[o].unknown \/ dispatch[o].status = "leased")
  BY <1>1 DEF Claimed, Row
<1>4. Doubtless(o)' => Doubtless(o) /\ dispatch[o].status # "leased"
  BY <1>3 DEF Doubtless, Claim, Due
<1>5. Doubtless(o)' => Unsent(o) /\ \A v \in Workers : worker[v].run # o
  BY <1>4 DEF DoubtInv, DoubtOf, OnlySender
<1>6. \A v \in Workers : worker'[v].run = o /\ worker[v].run # o => v = w /\ worker'[v].pc = "claimed"
  BY <1>0 DEF Claim
<1>7. Unsent(o)' = Unsent(o)
  BY DEF Claim, Unsent
<1> QED BY <1>2, <1>5, <1>6, <1>7 DEF DoubtOf, OnlySender

\* A delivery is the first thing its holder sends.
LEMMA DoubtDelivery ==
    ASSUME TypeOK, DoubtInv, NEW w \in Workers, NEW o \in Occurrences, worker[w].run = o,
           Deliver(w) \/ RefuseLocally(w) \/ GiveUp(w) \/ Crash(w)
    PROVE  DoubtOf(o)'
<1>0. worker \in [Workers -> Ticket \cup {Idle}] /\ worker[w] \in Ticket /\ Idle.run \notin Occurrences
  BY NullIsNoOccurrence, BusyTypes DEF TypeOK, Idle, Deliver, RefuseLocally, GiveUp, Crash
<1>1. dispatch' = dispatch /\ agent' = agent /\ Doubtless(o)' = Doubtless(o)
  BY DEF Deliver, RefuseLocally, GiveUp, Crash, Doubtless
<1> SUFFICES ASSUME Doubtless(o)
             PROVE  /\ dispatch[o].status # "leased" => Unsent(o)'
                    /\ \A v \in Workers : worker'[v].run = o => OnlySender(o, v)'
  BY <1>1 DEF DoubtInv, DoubtOf
<1>2. OnlySender(o, w) /\ dispatch[o].status = "leased" /\ dispatch[o].holder = w
  BY DEF DoubtInv, DoubtOf, OnlySender
<1>3. \A v \in Workers : worker[v].run = o => v = w
  BY <1>2 DEF DoubtInv, DoubtOf, OnlySender
<1>4. \A v \in Workers : worker'[v].run = o => v = w
  BY <1>0, <1>3 DEF Deliver, RefuseLocally, GiveUp, Crash
<1>5. CASE Deliver(w)
  BY <1>0, <1>1, <1>2, <1>4, <1>5 DEF Deliver, OnlySender, Unsent, Ticket
<1>6. CASE RefuseLocally(w)
  BY <1>0, <1>1, <1>2, <1>4, <1>6 DEF RefuseLocally, OnlySender, Unsent, Answered, Ticket
<1>7. CASE GiveUp(w)
  BY <1>0, <1>1, <1>2, <1>4, <1>7 DEF GiveUp, OnlySender, Answered, Ticket
<1>8. CASE Crash(w)
  BY <1>0, <1>2, <1>4, <1>8 DEF Crash
<1> QED BY <1>2, <1>5, <1>6, <1>7, <1>8

\* A row that is given back or settled has no worker any more.
LEMMA DoubtSettle ==
    ASSUME TypeOK, DoubtInv, NEW w \in Workers, NEW o \in Occurrences, worker[w].run = o,
           MarkAdmitted(w) \/ MarkUnknown(w) \/ MarkNotAdmitted(w) \/ DropSettlement(w) \/ ReleaseNeverSent(w)
    PROVE  DoubtOf(o)'
<1>0. /\ worker \in [Workers -> Ticket \cup {Idle}] /\ Idle.run \notin Occurrences
      /\ dispatch \in [Occurrences -> Row] /\ dispatch[o] \in Row
  BY NullIsNoOccurrence DEF TypeOK, Idle
<1>1. Unsent(o)' = Unsent(o) /\ worker' = [worker EXCEPT ![w] = Idle]
  BY DEF MarkAdmitted, MarkUnknown, MarkNotAdmitted, DropSettlement, ReleaseNeverSent, Settled, Unsent
<1>2. Doubtless(o) => /\ dispatch[o].status = "leased" /\ dispatch[o].holder = w
                      /\ \A v \in Workers : worker'[v].run # o
  BY <1>0, <1>1 DEF DoubtInv, DoubtOf, OnlySender
<1>3. CASE MarkAdmitted(w)
  <2>1. dispatch'[o].status = "admitted"
    BY <1>0, <1>3 DEF MarkAdmitted, Settled, Unleased, Row
  <2> QED BY <2>1 DEF DoubtOf, Doubtless
<1>4. CASE MarkUnknown(w)
  <2>1. dispatch'[o].unknown /\ dispatch'[o].status = "retryable"
    BY <1>0, <1>4 DEF MarkUnknown, Settled, Unleased, Row
  <2> QED BY <2>1 DEF DoubtOf, Doubtless
<1>5. CASE MarkNotAdmitted(w)
  <2>1. /\ dispatch[o].status = "leased" /\ worker[w].pc = "answered" /\ worker[w].outcome = "not_admitted"
        /\ dispatch'[o] = Refused(dispatch[o])
    BY <1>0, <1>5 DEF MarkNotAdmitted, Settles, Holds, Settled
  <2>2. CASE dispatch[o].unknown
    <3>1. dispatch'[o].unknown /\ dispatch'[o].status = "retryable"
      BY <1>0, <2>1, <2>2 DEF Refused, Unleased, Row
    <3> QED BY <3>1 DEF DoubtOf, Doubtless
  <2>3. CASE ~dispatch[o].unknown
    <3>1. Doubtless(o) /\ Unsent(o)
      BY <2>1, <2>3 DEF Doubtless, DoubtInv, DoubtOf, OnlySender
    <3>2. ~dispatch'[o].unknown
      BY <1>0, <2>1, <2>3 DEF Refused, Unleased, Row
    <3> QED BY <1>1, <1>2, <3>1, <3>2 DEF DoubtOf
  <2> QED BY <2>2, <2>3
<1>6. CASE DropSettlement(w)
  BY <1>0, <1>1, <1>2, <1>6 DEF DropSettlement, DoubtInv, DoubtOf, Doubtless
<1>7. CASE ReleaseNeverSent(w)
  <2>1. worker[w].pc = "claimed"
    BY <1>7 DEF ReleaseNeverSent
  <2>2. CASE Holds(w)
    <3>1. dispatch'[o].unknown = dispatch[o].unknown /\ dispatch'[o].status = "retryable" /\ dispatch[o].status = "leased"
      BY <1>0, <1>7, <2>2 DEF ReleaseNeverSent, Unleased, Row, Holds
    <3>2. Doubtless(o)' => Doubtless(o)
      BY <3>1 DEF Doubtless
    <3>3. Doubtless(o) => Unsent(o)
      BY <2>1 DEF DoubtInv, DoubtOf, OnlySender
    <3> QED BY <1>1, <1>2, <3>1, <3>2, <3>3 DEF DoubtOf
  <2>3. CASE ~Holds(w)
    <3>1. dispatch' = dispatch
      BY <1>7, <2>3 DEF ReleaseNeverSent
    <3>2. ~Doubtless(o)
      BY <1>2, <2>3 DEF Holds
    <3> QED BY <3>1, <3>2 DEF DoubtInv, DoubtOf, Doubtless
  <2> QED BY <2>2, <2>3
<1> QED BY <1>3, <1>4, <1>5, <1>6, <1>7

\* What the Agent does with a request of a doubtless row, it does with the one
\* its holder waits for.
LEMMA DoubtAnswer ==
    ASSUME TypeOK, ListenInv, DoubtInv, NEW r \in requests, AgentAccept(r) \/ AgentReject(r)
    PROVE  DoubtInv'
<1> SUFFICES ASSUME NEW o \in Occurrences PROVE DoubtOf(o)'
  BY DEF DoubtInv
<1>0. /\ worker \in [Workers -> Ticket \cup {Idle}] /\ r \in Request /\ requests' = requests \ {r}
      /\ dispatch' = dispatch /\ agent \in [Occurrences -> {"none", "running", "ended"}]
  BY DEF TypeOK, AgentAccept, AgentReject
<1>1. \A v \in Workers : v # r.from => worker'[v] = worker[v]
  BY DEF AgentAccept, AgentReject, Reply
<1>2. ASSUME r.from \in Workers
      PROVE  /\ worker[r.from].pc = "waiting" /\ worker[r.from].run = r.run
             /\ worker'[r.from].run = r.run /\ worker'[r.from].pc = "answered"
             /\ AgentAccept(r) => worker'[r.from].outcome # "not_admitted"
  <2>1. worker[r.from].pc = "waiting" /\ worker[r.from].run = r.run /\ worker[r.from] \in Ticket
    BY <1>2, BusyTypes DEF ListenInv
  <2> QED BY <1>2, <2>1 DEF AgentAccept, AgentReject, Reply, Answered, Ticket
<1>3. CASE o # r.run
  <2>1. agent'[o] = agent[o]
    BY <1>0, <1>3 DEF AgentAccept, AgentReject
  <2>2. \A v \in Workers : worker'[v].run = o => worker'[v] = worker[v]
    BY <1>1, <1>2, <1>3
  <2> QED BY <1>0, <2>1, <2>2, DoubtKept DEF DoubtInv
<1>4. CASE o = r.run
  <2> SUFFICES ASSUME Doubtless(o)
               PROVE  /\ dispatch[o].status # "leased" => Unsent(o)'
                      /\ \A v \in Workers : worker'[v].run = o => OnlySender(o, v)'
    BY <1>0 DEF DoubtInv, DoubtOf, Doubtless
  <2>1. ~Unsent(o) /\ dispatch[o].status = "leased"
    BY <1>4 DEF Unsent, DoubtInv, DoubtOf
  <2> SUFFICES ASSUME NEW v \in Workers, worker'[v].run = o PROVE OnlySender(o, v)'
    BY <2>1
  <2>2. worker[v].run = o
    BY <1>1, <1>2, <1>4
  <2>3. OnlySender(o, v)
    BY <2>2 DEF DoubtInv, DoubtOf
  <2>4. CASE v = r.from
    <3>1. worker[v].pc = "waiting" /\ worker'[v].pc = "answered"
      BY <1>2, <2>4
    <3>2. agent[o] = "none" /\ \A s \in requests : s.run = o => s = r
      BY <1>4, <2>3, <2>4, <3>1, OneRequest DEF OnlySender
    <3>3. CASE AgentAccept(r)
      BY <1>0, <1>2, <2>3, <2>4, <3>1, <3>3 DEF OnlySender
    <3>4. CASE AgentReject(r)
      <4>1. Unsent(o)'
        BY <1>0, <3>2, <3>4 DEF Unsent, AgentReject
      <4> QED BY <1>0, <2>3, <3>1, <4>1 DEF OnlySender
    <3> QED BY <3>3, <3>4
  <2>5. CASE v # r.from
    <3>1. worker'[v] = worker[v] /\ worker[v].pc # "waiting"
      BY <1>1, <1>4, <2>3, <2>5 DEF OnlySender
    <3> QED BY <1>0, <2>1, <2>3, <3>1 DEF OnlySender
  <2> QED BY <2>4, <2>5
<1> QED BY <1>3, <1>4

LEMMA DoubtStep == ASSUME TypeOK, ListenInv, DoubtInv, [Next]_vars PROVE DoubtInv'
<1>0. dispatch \in [Occurrences -> Row] /\ worker \in [Workers -> Ticket \cup {Idle}]
      /\ agent \in [Occurrences -> {"none", "running", "ended"}]
  BY DEF TypeOK
<1>1. CASE UNCHANGED <<dispatch, worker, requests, agent>>
  BY <1>1, DoubtKept DEF DoubtInv
<1>2. ASSUME NEW p \in Occurrences, Accept(p) PROVE DoubtInv'
  <2> SUFFICES ASSUME NEW o \in Occurrences PROVE DoubtOf(o)'
    BY DEF DoubtInv
  <2>1. CASE o # p
    BY <1>0, <1>2, <2>1, DoubtKept DEF Accept, DoubtInv
  <2>2. CASE o = p
    <3>1. /\ dispatch[o].status = "absent" /\ dispatch'[o].status = "pending"
          /\ dispatch'[o].unknown = dispatch[o].unknown
      BY <1>0, <1>2, <2>2 DEF Accept, Row
    <3>2. Doubtless(o) /\ Unsent(o) /\ \A w \in Workers : worker[w].run # o
      BY <3>1 DEF DoubtInv, DoubtOf, Doubtless, OnlySender
    <3>3. Unsent(o)' /\ worker' = worker
      BY <1>2, <3>2 DEF Accept, Unsent
    <3> QED BY <3>1, <3>2, <3>3 DEF DoubtOf, Doubtless
  <2> QED BY <2>1, <2>2
<1>3. ASSUME NEW p \in Occurrences, Elapse(p) PROVE DoubtInv'
  <2> SUFFICES ASSUME NEW o \in Occurrences PROVE DoubtOf(o)'
    BY DEF DoubtInv
  <2>1. /\ dispatch'[o].status = dispatch[o].status /\ dispatch'[o].unknown = dispatch[o].unknown
        /\ dispatch'[o].holder = dispatch[o].holder
    BY <1>0, <1>3 DEF Elapse, Row
  <2> QED BY <1>3, <2>1, DoubtKept DEF Elapse, DoubtInv
<1>4. ASSUME NEW p \in Occurrences, AgentEnd(p) PROVE DoubtInv'
  <2> SUFFICES ASSUME NEW o \in Occurrences PROVE DoubtOf(o)'
    BY DEF DoubtInv
  <2>1. CASE o # p
    BY <1>0, <1>4, <2>1, DoubtKept DEF AgentEnd, DoubtInv
  <2>2. CASE o = p
    BY <1>0, <1>4, <2>2 DEF AgentEnd, DoubtInv, DoubtOf, Doubtless, OnlySender, Unsent
  <2> QED BY <2>1, <2>2
<1>5. ASSUME NEW w \in Workers, WorkerStep(w) \/ WorkerFault(w) PROVE DoubtInv'
  <2> SUFFICES ASSUME NEW o \in Occurrences PROVE DoubtOf(o)'
    BY DEF DoubtInv
  <2>1. CASE \E p \in Occurrences : Claim(w, p)
    BY <2>1, DoubtClaim, DoubtElsewhere
  <2>2. CASE WorkerFault(w) \/ Deliver(w) \/ MarkAdmitted(w) \/ MarkUnknown(w)
             \/ MarkNotAdmitted(w) \/ DropSettlement(w)
    <3>1. CASE worker[w].run # o
      BY <2>2, <3>1, DoubtElsewhere
    <3>2. CASE worker[w].run = o
      BY <2>2, <3>2, DoubtDelivery, DoubtSettle DEF WorkerFault
    <3> QED BY <3>1, <3>2
  <2> QED BY <1>5, <2>1, <2>2 DEF WorkerStep
<1>6. ASSUME NEW k \in Readers, CommitPage(k) PROVE DoubtInv'
  <2> SUFFICES ASSUME NEW o \in Occurrences PROVE DoubtOf(o)'
    BY DEF DoubtInv
  <2>1. CASE dispatch'[o] = dispatch[o]
    BY <1>6, <2>1, DoubtKept DEF CommitPage, DoubtInv
  <2>2. CASE dispatch'[o] # dispatch[o]
    <3>1. dispatch'[o].status = "terminal"
      BY <1>0, <1>6, <2>2 DEF CommitPage, Unleased, Row
    <3> QED BY <3>1 DEF DoubtOf, Doubtless
  <2> QED BY <2>1, <2>2
<1> QED
  <2>1. CASE \E k \in Readers : ReaderStep(k) \/ ReaderFault(k)
    BY <2>1, <1>1, <1>6 DEF ReaderStep, ReaderFault, ClaimConsumer, ReadPage, DropPage,
       ReleaseConsumer, ReadFails, CommitFails, ReaderCrash
  <2>2. CASE ReaderElapses \/ PollDue \/ UNCHANGED vars
    BY <2>2, <1>1 DEF ReaderElapses, PollDue, vars
  <2>3. CASE \E o \in Occurrences \cup {NoOccurrence} : AgentEmit(o)
    BY <2>3, <1>1 DEF AgentEmit
  <2> QED BY <1>2, <1>3, <1>4, <1>5, <2>1, <2>2, <2>3, DoubtAnswer DEF Next

\* What each step does to the rows: a claim and an end of a run are the only
\* ways into the statuses that hold the scope, and nothing leaves "terminal".
LEMMA TerminalStays ==
    ASSUME TypeOK, [Next]_vars, NEW o \in Occurrences, dispatch[o].status \in Closed
    PROVE  dispatch'[o].status = dispatch[o].status
<1>0. dispatch \in [Occurrences -> Row] /\ dispatch[o].status \in {"terminal", "failed"}
  BY DEF TypeOK, Closed
<1>1. CASE \E p \in Occurrences : Accept(p) \/ Elapse(p) \/ AgentEnd(p)
  BY <1>0, <1>1 DEF Accept, Elapse, AgentEnd, Row
<1>2. CASE \E w \in Workers : WorkerStep(w) \/ WorkerFault(w)
  <2>1. ASSUME NEW w \in Workers, NEW p \in Occurrences, Claim(w, p)
        PROVE  dispatch'[o] = dispatch[o]
    BY <1>0, <2>1 DEF Claim, Due
  <2>2. ASSUME NEW w \in Workers, WorkerFault(w) \/ (WorkerStep(w) /\ \A p \in Occurrences : ~Claim(w, p))
        PROVE  dispatch'[o] = dispatch[o]
    BY <1>0, <2>2 DEF WorkerStep, WorkerFault, Deliver, MarkAdmitted, MarkUnknown, MarkNotAdmitted,
       DropSettlement, Settles, Settled, Holds, RefuseLocally, GiveUp, ReleaseNeverSent, Crash
  <2> QED BY <1>2, <2>1, <2>2
<1>3. CASE \E k \in Readers : ReaderStep(k) \/ ReaderFault(k)
  <2>1. ASSUME NEW k \in Readers, CommitPage(k) PROVE dispatch'[o].status = dispatch[o].status
    BY <1>0, <2>1 DEF CommitPage, Settleable
  <2> QED BY <1>3, <2>1 DEF ReaderStep, ReaderFault, ClaimConsumer, ReadPage, DropPage,
             ReleaseConsumer, ReadFails, CommitFails, ReaderCrash
<1>4. CASE \E r \in requests : AgentAccept(r) \/ AgentReject(r)
  BY <1>4 DEF AgentAccept, AgentReject
<1>5. CASE \E p \in Occurrences \cup {NoOccurrence} : AgentEmit(p)
  BY <1>5 DEF AgentEmit
<1> QED BY <1>1, <1>2, <1>3, <1>4, <1>5 DEF Next, ReaderElapses, PollDue, vars

ActiveOf(o) ==
    /\ dispatch[o].status \in {"leased", "retryable", "admitted"} => scope.active = o
    /\ scope.active = o => dispatch[o].status \in {"leased", "retryable", "admitted", "terminal"}

LEMMA ActiveWorker ==
    ASSUME TypeOK, ActiveInv, NEW w \in Workers, WorkerStep(w) \/ WorkerFault(w)
    PROVE  ActiveInv'
<1> SUFFICES ASSUME NEW o \in Occurrences PROVE ActiveOf(o)'
  BY DEF ActiveInv, ActiveOf
<1>0. /\ dispatch \in [Occurrences -> Row] /\ scope \in Scope /\ dispatch[o] \in Row /\ ActiveOf(o)
      /\ NoOccurrence \notin Occurrences
  BY NullIsNoOccurrence DEF TypeOK, ActiveInv, ActiveOf
<1>1. ASSUME NEW p \in Occurrences, Claim(w, p) PROVE ActiveOf(o)'
  <2>1. scope'.active = p /\ (scope.active = p \/ scope.active = NoOccurrence)
    BY <1>0, <1>1 DEF Claim, Target, Scope
  <2>2. dispatch'[p].status = "leased"
    BY <1>0, <1>1 DEF Claim, Claimed, Row
  <2>3. o # p => dispatch'[o] = dispatch[o]
    BY <1>0, <1>1 DEF Claim
  <2> QED BY <1>0, <2>1, <2>2, <2>3 DEF ActiveOf
<1>2. CASE UNCHANGED <<dispatch, scope>>
  BY <1>0, <1>2 DEF ActiveOf
<1>3. CASE MarkAdmitted(w) \/ MarkUnknown(w) \/ (ReleaseNeverSent(w) /\ Holds(w))
  <2> DEFINE p == worker[w].run
  <2>1. p \in Occurrences /\ dispatch[p].status = "leased" /\ scope' = scope
    BY <1>3, BusyTypes DEF MarkAdmitted, MarkUnknown, ReleaseNeverSent, Settles, Holds, Ticket
  <2>2. dispatch'[p].status \in {"retryable", "admitted"} /\ (o # p => dispatch'[o] = dispatch[o])
    <3>1. ASSUME NEW status \in {"retryable", "admitted"}
          PROVE  /\ Unleased(dispatch[p], status).status = status
                 /\ [Unleased(dispatch[p], status) EXCEPT !.unknown = TRUE].status = status
      BY <1>0, <2>1 DEF Unleased, Row
    <3>2. PICK row : /\ dispatch' = [dispatch EXCEPT ![p] = row]
                     /\ row.status \in {"retryable", "admitted"}
      BY <1>3, <3>1 DEF MarkAdmitted, MarkUnknown, ReleaseNeverSent, Settled
    <3> QED BY <1>0, <2>1, <3>2
  <2>3. o = p => scope.active = o
    BY <1>0, <2>1 DEF ActiveOf
  <2> QED BY <1>0, <2>1, <2>2, <2>3 DEF ActiveOf
<1>4. CASE MarkNotAdmitted(w)
  <2> DEFINE p == worker[w].run
  <2>1. p \in Occurrences /\ dispatch[p].status = "leased" /\ dispatch[p] \in Row
    BY <1>0, <1>4, BusyTypes DEF MarkNotAdmitted, Settles, Holds, Ticket
  <2>2. scope.active = p
    BY <2>1 DEF ActiveInv
  <2>3. dispatch' = [dispatch EXCEPT ![p] = Refused(dispatch[p])]
    BY <1>4 DEF MarkNotAdmitted, Settled
  <2>4. scope' = IF Refused(dispatch[p]).status = "failed" /\ scope.active = p
                 THEN [scope EXCEPT !.active = NoOccurrence] ELSE scope
    BY <1>4 DEF MarkNotAdmitted
  <2>5. Refused(dispatch[p]).status \in {"failed", "retryable"}
    BY <2>1 DEF Refused, Unleased, Row
  <2> QED BY <1>0, <2>1, <2>2, <2>3, <2>4, <2>5 DEF ActiveOf, Scope
<1> QED
  <2>1. CASE WorkerFault(w)
    BY <1>2, <1>3, <2>1 DEF WorkerFault, RefuseLocally, GiveUp, ReleaseNeverSent, Crash
  <2>2. CASE WorkerStep(w)
    BY <1>1, <1>2, <1>3, <1>4, <2>2 DEF WorkerStep, Deliver, DropSettlement
  <2> QED BY <2>1, <2>2

\* A page that frees the scope leaves its dispatch settled.
LEMMA ActivePage ==
    ASSUME TypeOK, ActiveInv, NEW k \in Readers, CommitPage(k)
    PROVE  ActiveInv'
<1> SUFFICES ASSUME NEW o \in Occurrences PROVE ActiveOf(o)'
  BY DEF ActiveInv, ActiveOf
<1>0. /\ dispatch \in [Occurrences -> Row] /\ scope \in Scope /\ dispatch[o] \in Row /\ ActiveOf(o)
      /\ NoOccurrence \notin Occurrences
  BY NullIsNoOccurrence DEF TypeOK, ActiveInv, ActiveOf
<1>1. EndsActive(k) => /\ scope.active \in Occurrences
                       /\ dispatch'[scope.active].status = "terminal"
  BY <1>0 DEF CommitPage, EndsActive, OfActive, Scope, Unleased, Row
<1>2. o # scope.active \/ ~EndsActive(k) => dispatch'[o] = dispatch[o]
  BY <1>0 DEF CommitPage
<1>3. scope'.active = IF Frees(k) THEN NoOccurrence ELSE scope.active
  BY <1>0 DEF CommitPage, Scope
<1>4. CASE o = scope.active
  <2>1. CASE EndsActive(k)
    BY <1>1, <1>3, <1>4, <2>1 DEF ActiveOf
  <2>2. CASE ~EndsActive(k)
    BY <1>0, <1>2, <1>3, <1>4, <2>2 DEF ActiveOf, Frees, AlreadyEnded
  <2> QED BY <2>1, <2>2
<1>5. CASE o # scope.active
  BY <1>0, <1>2, <1>3, <1>5 DEF ActiveOf
<1> QED BY <1>4, <1>5

LEMMA ActiveStep == ASSUME TypeOK, ActiveInv, [Next]_vars PROVE ActiveInv'
<1>0. dispatch \in [Occurrences -> Row] /\ scope \in Scope
  BY DEF TypeOK
<1>1. CASE /\ scope'.active = scope.active
           /\ \A o \in Occurrences : dispatch'[o].status = dispatch[o].status
  BY <1>1 DEF ActiveInv
<1>2. ASSUME NEW p \in Occurrences, Accept(p) PROVE ActiveInv'
  BY <1>0, <1>2 DEF Accept, ActiveInv, Row
<1>3. ASSUME NEW p \in Occurrences, Elapse(p) PROVE ActiveInv'
  BY <1>0, <1>1, <1>3 DEF Elapse, Row
<1>4. CASE \E k \in Readers : ReaderStep(k) \/ ReaderFault(k)
  <2>1. ASSUME NEW k \in Readers, ReaderFault(k) \/ ReadPage(k) \/ DropPage(k)
        PROVE  ActiveInv'
    BY <1>1, <2>1 DEF ReaderFault, ReadPage, DropPage, ReadFails, CommitFails, ReaderCrash
  <2>2. ASSUME NEW k \in Readers, ClaimConsumer(k) \/ ReleaseConsumer(k) PROVE ActiveInv'
    <3>1. dispatch' = dispatch /\ scope'.active = scope.active
      BY <1>0, <2>2 DEF ClaimConsumer, ReleaseConsumer, Scope
    <3> QED BY <1>1, <3>1
  <2> QED BY <1>4, <2>1, <2>2, ActivePage DEF ReaderStep
<1>5. CASE ReaderElapses \/ PollDue
  <2>1. dispatch' = dispatch /\ scope'.active = scope.active
    BY <1>0, <1>5 DEF ReaderElapses, PollDue, Scope
  <2> QED BY <1>1, <2>1
<1>6. CASE \/ UNCHANGED vars
           \/ \E o \in Occurrences : AgentEnd(o)
           \/ \E o \in Occurrences \cup {NoOccurrence} : AgentEmit(o)
           \/ \E r \in requests : AgentAccept(r) \/ AgentReject(r)
  BY <1>1, <1>6 DEF AgentEnd, AgentEmit, AgentAccept, AgentReject, vars
<1> QED BY <1>2, <1>3, <1>4, <1>5, <1>6, ActiveWorker DEF Next

LEMMA LogTypes ==
    ASSUME TypeOK
    PROVE  /\ Len(log) \in Nat /\ DOMAIN log = 1..Len(log)
           /\ \A i \in DOMAIN log : log[i] \in Event /\ log[i].run \in Occurrences \cup {NoOccurrence}
<1>1. log \in Seq(Event)
  BY DEF TypeOK
<1>2. \A i \in DOMAIN log : log[i] \in Event
  BY <1>1
<1> QED BY <1>1, <1>2 DEF Event

\* The log grows by events of running runs, or by the end of one.
LEMMA LogGrows ==
    ASSUME TypeOK, [Next]_vars
    PROVE  \/ log' = log /\ \A o \in Occurrences : agent'[o] # agent[o] => agent[o] = "none" /\ agent'[o] = "running"
           \/ \E o \in Occurrences : agent[o] = "running" /\ AgentEnd(o)
           \/ \E o \in Occurrences \cup {NoOccurrence} :
                (o # NoOccurrence => agent[o] = "running") /\ AgentEmit(o)
<1>0. agent \in [Occurrences -> {"none", "running", "ended"}]
  BY DEF TypeOK
<1>1. CASE log' = log /\ agent' = agent
  BY <1>1
<1>2. ASSUME NEW r \in requests, AgentAccept(r) \/ AgentReject(r)
      PROVE  log' = log /\ \A o \in Occurrences : agent'[o] # agent[o] => agent[o] = "none" /\ agent'[o] = "running"
  BY <1>0, <1>2 DEF AgentAccept, AgentReject
<1>3. CASE \E w \in Workers : WorkerStep(w) \/ WorkerFault(w)
  BY <1>1, <1>3 DEF WorkerStep, WorkerFault, Claim, Deliver, MarkAdmitted, MarkUnknown, MarkNotAdmitted,
     DropSettlement, Settled, RefuseLocally, GiveUp, ReleaseNeverSent, Crash
<1>4. CASE \E k \in Readers : ReaderStep(k) \/ ReaderFault(k)
  BY <1>1, <1>4 DEF ReaderStep, ReaderFault, ClaimConsumer, ReadPage, CommitPage, DropPage,
     ReleaseConsumer, ReadFails, CommitFails, ReaderCrash
<1>5. CASE \/ \E o \in Occurrences : Accept(o) \/ Elapse(o)
           \/ ReaderElapses \/ PollDue \/ UNCHANGED vars
  BY <1>1, <1>5 DEF Accept, Elapse, ReaderElapses, PollDue, vars
<1>6. ASSUME NEW o \in Occurrences, AgentEnd(o) PROVE agent[o] = "running"
  BY <1>6 DEF AgentEnd
<1>7. ASSUME NEW o \in Occurrences \cup {NoOccurrence}, AgentEmit(o)
      PROVE  o # NoOccurrence => agent[o] = "running"
  BY <1>7 DEF AgentEmit
<1> QED BY <1>2, <1>3, <1>4, <1>5, <1>6, <1>7 DEF Next

\* Appending an event of a run that has not ended keeps the order of the log.
LEMMA LogAppend ==
    ASSUME TypeOK, LogInv, NEW e \in Event, log' = Append(log, e),
           agent' \in [Occurrences -> {"none", "running", "ended"}],
           \A o \in Occurrences : agent[o] # "none" => agent'[o] # "none",
           \A o \in Occurrences : agent[o] = "ended" => agent'[o] = "ended",
           e.run # NoOccurrence => agent[e.run] = "running",
           e.last => e.run # NoOccurrence /\ agent'[e.run] = "ended"
    PROVE  LogInv'
<1>0. /\ log \in Seq(Event) /\ Len(log) \in Nat /\ DOMAIN log = 1..Len(log)
      /\ DOMAIN log' = 1..(Len(log) + 1) /\ log'[Len(log) + 1] = e
      /\ \A i \in 1..Len(log) : log'[i] = log[i] /\ log[i] \in Event
  BY DEF TypeOK
<1>1. \A i \in 1..Len(log) : log[i].run # NoOccurrence => log[i].run \in Occurrences
  BY <1>0 DEF Event
<1>2. e.run # NoOccurrence => e.run \in Occurrences
  BY DEF Event
<1>3. \A i \in 1..(Len(log) + 1) : i = Len(log) + 1 \/ i \in 1..Len(log)
  BY <1>0
<1>4. ASSUME NEW i \in DOMAIN log' PROVE log'[i].run # NoOccurrence => agent'[log'[i].run] # "none"
  BY <1>0, <1>1, <1>2, <1>3, <1>4 DEF LogInv
<1>5. ASSUME NEW i \in DOMAIN log', log'[i].last
      PROVE  log'[i].run # NoOccurrence /\ agent'[log'[i].run] = "ended"
  BY <1>0, <1>1, <1>2, <1>3, <1>5 DEF LogInv
<1>6. ASSUME NEW i \in DOMAIN log', NEW j \in DOMAIN log', i < j, log'[i].last
      PROVE  log'[j].run # log'[i].run
  <2>1. i \in 1..Len(log) /\ log[i].last /\ log'[i] = log[i]
    BY <1>0, <1>3, <1>6
  <2>2. log[i].run # NoOccurrence /\ agent[log[i].run] = "ended"
    BY <1>0, <2>1 DEF LogInv
  <2>3. CASE j = Len(log) + 1
    BY <1>0, <2>1, <2>2, <2>3
  <2>4. CASE j \in 1..Len(log)
    BY <1>0, <1>6, <2>1, <2>4 DEF LogInv
  <2> QED BY <1>0, <1>3, <2>3, <2>4
<1> QED BY <1>4, <1>5, <1>6 DEF LogInv

LEMMA LogStep == ASSUME TypeOK, TypeOK', LogInv, [Next]_vars PROVE LogInv'
<1>0. /\ agent \in [Occurrences -> {"none", "running", "ended"}]
      /\ agent' \in [Occurrences -> {"none", "running", "ended"}]
      /\ NoOccurrence \notin Occurrences
  BY NullIsNoOccurrence DEF TypeOK
<1>1. CASE log' = log /\ \A o \in Occurrences : agent'[o] # agent[o] => agent[o] = "none" /\ agent'[o] = "running"
  <2>1. \A i \in DOMAIN log : log[i].run # NoOccurrence => log[i].run \in Occurrences
    BY LogTypes
  <2> QED BY <1>1, <2>1 DEF LogInv
<1>2. ASSUME NEW o \in Occurrences, agent[o] = "running", AgentEnd(o) PROVE LogInv'
  <2> DEFINE e == [run |-> o, last |-> TRUE]
  <2>1. /\ e \in Event /\ e.run = o /\ log' = Append(log, e)
        /\ agent' = [agent EXCEPT ![o] = "ended"]
    BY <1>2 DEF AgentEnd, Event
  <2> HIDE DEF e
  <2> QED BY <1>0, <1>2, <2>1, LogAppend
<1>3. ASSUME NEW o \in Occurrences \cup {NoOccurrence}, o # NoOccurrence => agent[o] = "running", AgentEmit(o)
      PROVE  LogInv'
  <2> DEFINE e == [run |-> o, last |-> FALSE]
  <2>1. e \in Event /\ e.run = o /\ ~e.last /\ log' = Append(log, e) /\ agent' = agent
    BY <1>3 DEF AgentEmit, Event
  <2> HIDE DEF e
  <2> QED BY <1>0, <1>3, <2>1, LogAppend
<1> QED BY <1>1, <1>2, <1>3, LogGrows

\* A run the Agent has is that of an occurrence that holds or held the scope.
LEMMA RunsAreSettledOrActive ==
    ASSUME TypeOK, DoubtInv, ActiveInv, NEW o \in Occurrences, agent[o] # "none"
    PROVE  \/ dispatch[o].status = "terminal"
           \/ scope.active = o /\ dispatch[o].status \in {"leased", "retryable", "admitted"}
<1>1. dispatch[o].status \notin {"absent", "pending", "failed"}
  BY DEF DoubtInv, DoubtOf, Doubtless, Unsent
<1>2. dispatch[o] \in Row
  BY DEF TypeOK
<1>3. dispatch[o].status \in {"leased", "retryable", "admitted", "terminal"}
  BY <1>1, <1>2 DEF Row, Open, Closed
<1>4. dispatch[o].status # "terminal" => scope.active = o
  BY <1>3 DEF ActiveInv
<1> QED BY <1>3, <1>4

\* The log keeps what it has.
LEMMA LogPrefix ==
    ASSUME TypeOK, [Next]_vars
    PROVE  /\ Len(log') \in Nat /\ Len(log) <= Len(log') /\ DOMAIN log' = 1..Len(log')
           /\ \A i \in DOMAIN log : i \in DOMAIN log' /\ log'[i] = log[i]
<1>0. log \in Seq(Event) /\ Len(log) \in Nat /\ DOMAIN log = 1..Len(log)
  BY LogTypes DEF TypeOK
<1>1. CASE log' = log
  BY <1>0, <1>1
<1>2. ASSUME NEW e \in Event, log' = Append(log, e)
      PROVE  /\ Len(log') \in Nat /\ Len(log) <= Len(log') /\ DOMAIN log' = 1..Len(log')
             /\ \A i \in DOMAIN log : i \in DOMAIN log' /\ log'[i] = log[i]
  BY <1>0, <1>2
<1>3. \A o \in Occurrences \cup {NoOccurrence} : \A last \in BOOLEAN : [run |-> o, last |-> last] \in Event
  BY DEF Event
<1>4. log' = log \/ \E e \in Event : log' = Append(log, e)
  BY <1>3, LogGrows DEF AgentEnd, AgentEmit
<1> QED BY <1>1, <1>2, <1>4

\* Where the cursor and the rows stay, what the cursor has passed is settled.
LEMMA ReadKept ==
    ASSUME TypeOK, LogInv, ReadInv, [Next]_vars,
           scope'.watermark = scope.watermark,
           \A o \in Occurrences : dispatch'[o].status = "terminal" => dispatch[o].status = "terminal",
           \A k \in Readers : reader'[k].after <= reader'[k].upto /\ reader'[k].upto <= Len(log),
           \A k \in Readers : reader'[k].upto \in Nat
    PROVE  ReadInv'
<1>0. /\ Len(log) \in Nat /\ DOMAIN log = 1..Len(log) /\ scope.watermark \in Nat
      /\ scope.watermark <= Len(log)
  BY LogTypes DEF TypeOK, Scope, ReadInv
<1>1. scope'.watermark <= Len(log') /\ \A k \in Readers : reader'[k].upto <= Len(log')
  BY <1>0, LogPrefix
<1>2. ASSUME NEW i \in DOMAIN log', i <= scope.watermark
      PROVE  i \in DOMAIN log /\ log'[i] = log[i]
  <2>1. i \in 1..Len(log') /\ Len(log') \in Nat
    BY <1>2, LogPrefix
  <2> QED BY <1>0, <1>2, <2>1, LogPrefix
<1>3. ASSUME NEW i \in DOMAIN log', i <= scope.watermark, log'[i].last
      PROVE  dispatch'[log'[i].run].status = "terminal"
  <2>1. dispatch[log[i].run].status = "terminal" /\ log[i].run \in Occurrences
    BY <1>2, <1>3, LogTypes DEF ReadInv, LogInv
  <2> QED BY <1>2, <1>3, <2>1, TerminalStays DEF Closed
<1>4. ASSUME NEW o \in Occurrences, dispatch'[o].status = "terminal"
      PROVE  \E i \in DOMAIN log' : i <= scope.watermark /\ log'[i].last /\ log'[i].run = o
  BY <1>4, LogPrefix DEF ReadInv
<1> QED BY <1>1, <1>3, <1>4 DEF ReadInv

\* A page that commits moves the cursor over what it settles.
LEMMA ReadPageStep ==
    ASSUME TypeOK, DoubtInv, ActiveInv, LogInv, ReadInv, NEW k \in Readers, CommitPage(k)
    PROVE  ReadInv'
<1>0. /\ Len(log) \in Nat /\ DOMAIN log = 1..Len(log) /\ scope \in Scope /\ scope.watermark \in Nat
      /\ dispatch \in [Occurrences -> Row] /\ reader[k] \in Reading
      /\ reader \in [Readers -> Reading \cup {Resting}]
      /\ agent \in [Occurrences -> {"none", "running", "ended"}]
  BY LogTypes, BusyTypes DEF TypeOK, Scope, CommitPage
<1>1. /\ reader[k].after = scope.watermark /\ reader[k].after <= reader[k].upto
      /\ reader[k].upto <= Len(log) /\ reader[k].upto \in Nat /\ log' = log
  BY <1>0 DEF CommitPage, PageFits, ReadInv, Reading
<1>2. scope'.watermark = reader[k].upto
  BY <1>0 DEF CommitPage, Scope
<1>3. \A j \in Readers : reader'[j].after <= reader'[j].upto /\ reader'[j].upto <= Len(log)
  <2>1. Resting.after <= Resting.upto /\ Resting.upto <= Len(log)
    BY <1>0 DEF Resting
  <2> QED BY <1>0, <2>1 DEF CommitPage, ReadInv
<1>4. EndsActive(k) => scope.active \in Occurrences /\ dispatch'[scope.active].status = "terminal"
  BY <1>0 DEF CommitPage, EndsActive, OfActive, Scope, Unleased, Row
<1>5. \A o \in Occurrences : dispatch[o].status = "terminal" => dispatch'[o].status = "terminal"
  BY <1>0, <1>4 DEF CommitPage
<1>6. ASSUME NEW i \in DOMAIN log, i <= reader[k].upto, log[i].last
      PROVE  dispatch'[log[i].run].status = "terminal"
  <2>1. log[i].run \in Occurrences /\ agent[log[i].run] = "ended"
    BY <1>6, LogTypes DEF LogInv
  <2>2. CASE i <= scope.watermark
    BY <1>5, <1>6, <2>1, <2>2 DEF ReadInv
  <2>3. CASE ~(i <= scope.watermark)
    <3>1. i \in Page(k)
      BY <1>0, <1>1, <1>6, <2>3 DEF Page
    <3>2. CASE scope.active = log[i].run
      <4>1. EndsActive(k)
        BY <1>6, <2>1, <3>1, <3>2, NullIsNoOccurrence DEF EndsActive, OfActive
      <4> QED BY <1>4, <3>2, <4>1
    <3>3. CASE dispatch[log[i].run].status = "terminal"
      BY <1>5, <2>1, <3>3
    <3> QED BY <2>1, <3>2, <3>3, RunsAreSettledOrActive
  <2> QED BY <2>2, <2>3
<1>7. ASSUME NEW o \in Occurrences, dispatch'[o].status = "terminal"
      PROVE  \E i \in DOMAIN log : i <= reader[k].upto /\ log[i].last /\ log[i].run = o
  <2>1. CASE dispatch[o].status = "terminal"
    <3>1. PICK i \in DOMAIN log : i <= scope.watermark /\ log[i].last /\ log[i].run = o
      BY <2>1 DEF ReadInv
    <3>2. i <= reader[k].upto
      BY <1>0, <1>1, <3>1
    <3> QED BY <3>1, <3>2
  <2>2. CASE dispatch[o].status # "terminal"
    <3>1. EndsActive(k) /\ o = scope.active
      BY <1>0, <1>7, <2>2 DEF CommitPage
    <3>2. PICK i \in Page(k) : OfActive(i) /\ log[i].last
      BY <3>1 DEF EndsActive
    <3>3. i \in DOMAIN log /\ i <= reader[k].upto
      BY <1>0, <1>1, <3>2 DEF Page
    <3> QED BY <3>1, <3>2, <3>3 DEF OfActive
  <2> QED BY <2>1, <2>2
<1> QED BY <1>1, <1>2, <1>3, <1>6, <1>7 DEF ReadInv

LEMMA ReadStep ==
    ASSUME TypeOK, TypeOK', DoubtInv, ActiveInv, LogInv, ReadInv, [Next]_vars
    PROVE  ReadInv'
<1>0. /\ dispatch \in [Occurrences -> Row] /\ scope \in Scope /\ Len(log) \in Nat
      /\ reader \in [Readers -> Reading \cup {Resting}]
  BY LogTypes DEF TypeOK
<1>1. \A k \in Readers : reader'[k].upto \in Nat
  BY DEF TypeOK, Reading, Resting
<1>2. Resting.after <= Resting.upto /\ Resting.upto <= Len(log)
  BY <1>0 DEF Resting
<1>3. CASE \E k \in Readers : CommitPage(k)
  BY <1>3, ReadPageStep
<1>4. CASE \A k \in Readers : ~CommitPage(k)
  <2>1. scope'.watermark = scope.watermark
    BY <1>0, <1>4 DEF Next, Accept, Elapse, AgentEnd, AgentEmit, AgentAccept, AgentReject, WorkerStep,
       WorkerFault, Claim, Deliver, MarkAdmitted, MarkUnknown, MarkNotAdmitted, DropSettlement,
       RefuseLocally, GiveUp, ReleaseNeverSent, Crash, ReaderStep, ReaderFault, ClaimConsumer, ReadPage,
       DropPage, ReleaseConsumer, ReadFails, CommitFails, ReaderCrash, ReaderElapses, PollDue, vars, Scope
  <2>2. \A o \in Occurrences : dispatch'[o].status = "terminal" => dispatch[o].status = "terminal"
    <3>1. CASE \E w \in Workers : WorkerStep(w) \/ WorkerFault(w)
      <4>1. ASSUME NEW w \in Workers, NEW p \in Occurrences, Claim(w, p) PROVE dispatch'[p].status = "leased"
        BY <1>0, <4>1 DEF Claim, Claimed, Row
      <4>2. ASSUME NEW row \in Row
            PROVE  /\ Unleased(row, "admitted").status = "admitted"
                   /\ Unleased(row, "retryable").status = "retryable"
                   /\ [Unleased(row, "retryable") EXCEPT !.unknown = TRUE].status = "retryable"
                   /\ Refused(row).status \in {"retryable", "failed"}
        BY DEF Unleased, Refused, Row
      <4>3. ASSUME NEW w \in Workers, MarkAdmitted(w) \/ MarkUnknown(w) \/ MarkNotAdmitted(w) \/ ReleaseNeverSent(w)
            PROVE  \/ dispatch' = dispatch
                   \/ \E row : row.status # "terminal" /\ dispatch' = [dispatch EXCEPT ![worker[w].run] = row]
        <5>1. dispatch[worker[w].run] \in Row
          BY <1>0, <4>3, BusyTypes DEF MarkAdmitted, MarkUnknown, MarkNotAdmitted, ReleaseNeverSent,
             Settles, Ticket
        <5> QED BY <4>2, <4>3, <5>1 DEF MarkAdmitted, MarkUnknown, MarkNotAdmitted, ReleaseNeverSent, Settled
      <4>4. ASSUME NEW w \in Workers, MarkAdmitted(w) \/ MarkUnknown(w) \/ MarkNotAdmitted(w) \/ ReleaseNeverSent(w)
            PROVE  \A o \in Occurrences : dispatch'[o].status = "terminal" => dispatch[o].status = "terminal"
        BY <1>0, <4>3, <4>4
      <4>5. ASSUME NEW w \in Workers, NEW p \in Occurrences, Claim(w, p)
            PROVE  \A o \in Occurrences : dispatch'[o].status = "terminal" => dispatch[o].status = "terminal"
        BY <1>0, <4>1, <4>5 DEF Claim
      <4> QED BY <3>1, <4>4, <4>5 DEF WorkerStep, WorkerFault, Deliver, DropSettlement, RefuseLocally,
               GiveUp, Crash
    <3>2. CASE dispatch' = dispatch
      BY <3>2
    <3>3. CASE \E p \in Occurrences : Accept(p) \/ Elapse(p)
      BY <1>0, <3>3 DEF Accept, Elapse, Row
    <3> QED BY <1>4, <3>1, <3>2, <3>3 DEF Next, AgentEnd, AgentEmit, AgentAccept, AgentReject, ReaderStep,
             ReaderFault, ClaimConsumer, ReadPage, DropPage, ReleaseConsumer, ReadFails, CommitFails,
             ReaderCrash, ReaderElapses, PollDue, vars
  <2>3. \A k \in Readers : reader'[k].after <= reader'[k].upto /\ reader'[k].upto <= Len(log)
    <3>1. CASE reader' = reader
      BY <3>1 DEF ReadInv
    <3>2. ASSUME NEW j \in Readers, reader' = [reader EXCEPT ![j] = Resting]
          PROVE  \A k \in Readers : reader'[k].after <= reader'[k].upto /\ reader'[k].upto <= Len(log)
      BY <1>0, <1>2, <3>2 DEF ReadInv
    <3>3. ASSUME NEW j \in Readers, ReadFails(j) \/ CommitFails(j)
          PROVE  \A k \in Readers : reader'[k].after <= reader'[k].upto /\ reader'[k].upto <= Len(log)
      <4>1. reader[j] \in Reading /\ reader' = [reader EXCEPT ![j].pc = "failed"]
        BY <3>3, BusyTypes DEF ReadFails, CommitFails
      <4> QED BY <1>0, <4>1 DEF ReadInv, Reading
    <3>4. ASSUME NEW j \in Readers, ReadPage(j)
          PROVE  \A k \in Readers : reader'[k].after <= reader'[k].upto /\ reader'[k].upto <= Len(log)
      <4>1. reader[j].after \in Nat /\ reader[j].after <= Len(log) /\ PageSize \in Nat
        BY <1>0, <3>4, BusyTypes, ConstantsAssumption DEF ReadInv
      <4>2. /\ reader'[j].after = reader[j].after
            /\ reader'[j].upto = IF Len(log) < reader[j].after + PageSize
                                 THEN Len(log) ELSE reader[j].after + PageSize
            /\ \A k \in Readers \ {j} : reader'[k] = reader[k]
        BY <1>0, <3>4 DEF ReadPage
      <4>3. reader'[j].after <= reader'[j].upto /\ reader'[j].upto <= Len(log)
        BY <1>0, <4>1, <4>2
      <4> QED BY <4>2, <4>3 DEF ReadInv
    <3>5. ASSUME NEW j \in Readers, ClaimConsumer(j)
          PROVE  \A k \in Readers : reader'[k].after <= reader'[k].upto /\ reader'[k].upto <= Len(log)
      <4>1. scope.watermark \in Nat /\ scope.watermark <= Len(log)
        BY <1>0 DEF Scope, ReadInv
      <4> QED BY <1>0, <3>5, <4>1 DEF ClaimConsumer, ReadInv
    <3>6. CASE \E j \in Readers : ReaderStep(j) \/ ReaderFault(j)
      BY <1>4, <3>2, <3>3, <3>4, <3>5, <3>6 DEF ReaderStep, ReaderFault, DropPage, ReleaseConsumer, ReaderCrash
    <3> QED BY <3>1, <3>6 DEF Next, Accept, Elapse, AgentEnd, AgentEmit, AgentAccept, AgentReject, WorkerStep,
             WorkerFault, Claim, Deliver, MarkAdmitted, MarkUnknown, MarkNotAdmitted, DropSettlement, Settled,
             RefuseLocally, GiveUp, ReleaseNeverSent, Crash, ReaderElapses, PollDue, vars
  <2> QED BY <1>1, <2>1, <2>2, <2>3, ReadKept
<1> QED BY <1>3, <1>4

-----------------------------------------------------------------------------
(* Theorems *)

LEMMA StepInv == TypeOK /\ DispatchInv /\ [Next]_vars => TypeOK' /\ DispatchInv'
<1> SUFFICES ASSUME TypeOK, DispatchInv, [Next]_vars PROVE TypeOK' /\ DispatchInv'
  OBVIOUS
<1>1. TypeOK'
  BY NextTypes DEF DispatchInv
<1> QED BY <1>1, ListenStep, DoubtStep, ActiveStep, LogStep, ReadStep DEF DispatchInv

\* Every row, claim, request, event and page has its type.
THEOREM TypeCorrect == Spec => []TypeOK
<1>1. Init => TypeOK /\ DispatchInv
  BY InitTypes, InitInv
<1> QED BY <1>1, StepInv, PTL DEF Spec

\* What was sent is doubted or held, one occurrence holds the scope, and what
\* the cursor has passed is settled: the inductive invariant.
THEOREM DispatchCorrect == Spec => [](TypeOK /\ DispatchInv)
<1>1. Init => TypeOK /\ DispatchInv
  BY InitTypes, InitInv
<1> QED BY <1>1, StepInv, PTL DEF Spec

\* A dispatch that is settled as failed was never admitted and never will be.
THEOREM FailedIsNeverAdmitted == Spec => []FailedNeverAdmitted
<1>1. TypeOK /\ DispatchInv => FailedNeverAdmitted
  <2> SUFFICES ASSUME DispatchInv, NEW o \in Occurrences, dispatch[o].status = "failed"
               PROVE  /\ agent[o] = "none" /\ \A r \in requests : r.run # o
                      /\ \A w \in Workers : worker[w].run # o
    BY DEF FailedNeverAdmitted
  <2>1. Doubtless(o) /\ DoubtOf(o)
    BY DEF DispatchInv, DoubtInv, DoubtOf, Doubtless
  <2> QED BY <2>1 DEF DoubtOf, OnlySender, Unsent
<1> QED BY <1>1, DispatchCorrect, PTL

\* The Agent never runs two occurrences of a task at the same time.
THEOREM OneRunAtATime == Spec => []RunsOneAtATime
<1>1. TypeOK /\ DispatchInv => RunsOneAtATime
  <2> SUFFICES ASSUME TypeOK, DispatchInv, NEW o \in Occurrences, agent[o] = "running"
               PROVE  scope.active = o
    BY DEF RunsOneAtATime
  <2>1. dispatch[o].status # "terminal"
    BY DEF DispatchInv, LogInv, ReadInv
  <2> QED BY <2>1, RunsAreSettledOrActive DEF DispatchInv
<1> QED BY <1>1, DispatchCorrect, PTL

\* A free scope has settled every run the Agent ever had and read it to its end.
THEOREM FreeScopesAreDrained == Spec => []FreeMeansDrained
<1>1. TypeOK /\ DispatchInv => FreeMeansDrained
  <2> SUFFICES ASSUME TypeOK, DispatchInv, scope.active = NoOccurrence,
                      NEW o \in Occurrences, agent[o] # "none"
               PROVE  /\ agent[o] = "ended" /\ dispatch[o].status = "terminal"
                      /\ \A i \in DOMAIN log : log[i].run = o => i <= scope.watermark
    BY DEF FreeMeansDrained
  <2>1. dispatch[o].status = "terminal"
    BY RunsAreSettledOrActive, NullIsNoOccurrence DEF DispatchInv
  <2>2. PICK j \in DOMAIN log : j <= scope.watermark /\ log[j].last /\ log[j].run = o
    BY <2>1 DEF DispatchInv, ReadInv
  <2>3. ASSUME NEW i \in DOMAIN log, log[i].run = o PROVE i <= scope.watermark
    <3>1. ~(j < i)
      BY <2>2, <2>3 DEF DispatchInv, LogInv
    <3>2. i \in Nat /\ j \in Nat /\ scope.watermark \in Nat
      BY LogTypes DEF TypeOK, Scope
    <3> QED BY <2>2, <3>1, <3>2
  <2> QED BY <2>1, <2>2, <2>3 DEF DispatchInv, LogInv
<1> QED BY <1>1, DispatchCorrect, PTL

\* The runs of a scope follow one another, each told to its end before the next.
THEOREM ScopesAreSerial == Spec => []ScopeSerial
BY OneRunAtATime, FreeScopesAreDrained, PTL DEF ScopeSerial

\* The page of a live claim never fails: its reader frees the scope in the end.
THEOREM PagesCommit == Spec => []PageCommits
<1>1. TypeOK /\ DispatchInv => PageCommits
  <2> SUFFICES ASSUME TypeOK, DispatchInv, NEW k \in Readers, reader[k].pc = "read", PageFits(k)
               PROVE  ~PageThrows(k) /\ Settleable(k)
    BY DEF PageCommits
  <2>1. /\ reader[k].after = scope.watermark /\ scope.watermark \in Nat /\ reader[k].upto \in Nat
        /\ reader[k].upto <= Len(log) /\ Len(log) \in Nat /\ DOMAIN log = 1..Len(log)
    BY BusyTypes, LogTypes DEF PageFits, TypeOK, Scope, DispatchInv, ReadInv
  <2>2. \A i \in Page(k) : i \in DOMAIN log /\ i \in Nat /\ scope.watermark < i
    BY <2>1 DEF Page
  <2>3. ASSUME NEW i \in Page(k), OfActive(i) PROVE ~AlreadyEnded
    <3> SUFFICES ASSUME AlreadyEnded PROVE FALSE
      OBVIOUS
    <3>1. scope.active \in Occurrences /\ dispatch[scope.active].status = "terminal"
      BY DEF AlreadyEnded, TypeOK, Scope
    <3>2. PICK j \in DOMAIN log : j <= scope.watermark /\ log[j].last /\ log[j].run = scope.active
      BY <3>1 DEF DispatchInv, ReadInv
    <3>3. j < i
      BY <2>1, <2>2, <3>2
    <3> QED BY <2>2, <2>3, <3>2, <3>3 DEF OfActive, DispatchInv, LogInv
  <2>4. ~PageThrows(k)
    BY <2>2, <2>3 DEF PageThrows, OfActive, DispatchInv, LogInv
  <2>5. ASSUME EndsActive(k) PROVE dispatch[scope.active].status \in {"leased", "retryable", "admitted"}
    <3>1. PICK i \in Page(k) : OfActive(i) /\ log[i].last
      BY <2>5 DEF EndsActive
    <3>2. scope.active \in Occurrences /\ dispatch[scope.active].status # "terminal"
      BY <2>3, <3>1 DEF OfActive, AlreadyEnded, TypeOK, Scope
    <3> QED BY <3>2 DEF DispatchInv, ActiveInv
  <2> QED BY <2>4, <2>5 DEF Settleable
<1> QED BY <1>1, DispatchCorrect, PTL

\* Settled dispatches stay settled; an active one is replaced by none before.
THEOREM ActiveStaysUntilSettled == Spec => ActiveUntilSettled
<1>1. ASSUME TypeOK, DispatchInv, TypeOK', DispatchInv', [Next]_vars
      PROVE  /\ \A o \in Occurrences : dispatch[o].status \in Closed => dispatch'[o].status = dispatch[o].status
             /\ scope.active # NoOccurrence /\ scope'.active # scope.active =>
                   scope'.active = NoOccurrence /\ dispatch'[scope.active].status \in Closed
  <2> SUFFICES ASSUME scope.active # NoOccurrence, scope'.active # scope.active
               PROVE  scope'.active = NoOccurrence /\ dispatch'[scope.active].status \in Closed
    BY <1>1, TerminalStays
  <2>1. scope \in Scope /\ dispatch \in [Occurrences -> Row] /\ scope.active \in Occurrences
    BY <1>1 DEF TypeOK, Scope
  <2>2. CASE \E w \in Workers : WorkerStep(w) \/ WorkerFault(w)
    <3>1. PICK w \in Workers : MarkNotAdmitted(w)
      BY <2>1, <2>2 DEF WorkerStep, WorkerFault, Claim, Target, Deliver, MarkAdmitted, MarkUnknown,
         DropSettlement, RefuseLocally, GiveUp, ReleaseNeverSent, Crash, Scope
    <3>2. /\ scope' = [scope EXCEPT !.active = NoOccurrence] /\ scope.active = worker[w].run
          /\ Refused(dispatch[scope.active]).status = "failed"
          /\ dispatch' = [dispatch EXCEPT ![scope.active] = Refused(dispatch[scope.active])]
      BY <3>1 DEF MarkNotAdmitted, Settled
    <3> QED BY <2>1, <3>2 DEF Scope, Closed
  <2>3. CASE \E k \in Readers : CommitPage(k)
    <3>1. PICK k \in Readers : CommitPage(k)
      BY <2>3
    <3>2. Frees(k) /\ scope'.active = NoOccurrence
      BY <2>1, <3>1 DEF CommitPage, Scope
    <3>3. dispatch'[scope.active].status = "terminal"
      BY <2>1, <3>1, <3>2 DEF CommitPage, Frees, AlreadyEnded, Unleased, Row
    <3> QED BY <3>2, <3>3 DEF Closed
  <2> QED BY <1>1, <2>1, <2>2, <2>3 DEF Next, Accept, Elapse, AgentEnd, AgentEmit, AgentAccept, AgentReject,
           ReaderStep, ReaderFault, ClaimConsumer, ReadPage, DropPage, ReleaseConsumer, ReadFails,
           CommitFails, ReaderCrash, ReaderElapses, PollDue, vars, Scope
<1>2. TypeOK /\ DispatchInv /\ TypeOK' /\ DispatchInv' /\ [Next]_vars =>
        [/\ \A o \in Occurrences : dispatch[o].status \in Closed => dispatch'[o].status = dispatch[o].status
         /\ scope.active # NoOccurrence /\ scope'.active # scope.active =>
               scope'.active = NoOccurrence /\ dispatch'[scope.active].status \in Closed]_vars
  BY <1>1
<1> QED BY <1>2, DispatchCorrect, PTL DEF Spec, ActiveUntilSettled

=============================================================================
