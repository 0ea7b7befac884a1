-------------------------- MODULE ProjectScopeProofs --------------------------
(* Theorems about ProjectScope, for every set of projects, conversations,     *)
(* tasks, requests and dispatchers, every initial assignment and every number *)
(* of faults.                                                                 *)
EXTENDS ProjectScope, FiniteSetTheorems, WellFoundedInduction, TLAPS

-----------------------------------------------------------------------------
(* What a request is about                                                    *)

Busy == {"again", "locking", "members"}

\* A request under way has named what its kind needs.
Named(t) ==
    t.pc \in Busy =>
        /\ t.kind \in Kind \ {"deleteConversation"}
        /\ t.kind \in {"turn", "move", "archive"} => t.item \in Convs
        /\ t.kind \in {"createTask", "updateTask"} => t.item \in Tasks
        /\ t.kind = "deleteProject" => t.target \in Projects
        /\ t.pc = "members" => t.kind = "deleteProject"
NamedInv == \A r \in Requests : Named(txn[r])

\* The transactions of the requests but r's are untouched.
OthersRest(r) == \A q \in Requests \ {r} : txn'[q] = txn[q]

LEMMA TxnTypes ==
    ASSUME TypeOK, NEW r \in Requests
    PROVE  /\ txn[r] \in Txn
           /\ \A t \in Txn : txn' = [txn EXCEPT ![r] = t] =>
                 txn' \in [Requests -> Txn] /\ txn'[r] = t /\ OthersRest(r)
BY DEF TypeOK, OthersRest

LEMMA NoTxnTypes ==
    /\ NoTxn \in Txn
    /\ \A pc \in {"idle", "again", "locking", "members", "done"} :
          [NoTxn EXCEPT !.pc = pc] \in Txn
BY DEF NoTxn, Txn, Ref

LEMMA EndTypes ==
    ASSUME TypeOK, NEW r \in Requests, End(r)
    PROVE  /\ txn' \in [Requests -> Txn] /\ OthersRest(r)
           /\ txn'[r] = [NoTxn EXCEPT !.pc = "done"] /\ Named(txn'[r])
<1>1. [NoTxn EXCEPT !.pc = "done"] \in Txn
  BY NoTxnTypes
<1>2. txn' \in [Requests -> Txn] /\ OthersRest(r) /\ txn'[r] = [NoTxn EXCEPT !.pc = "done"]
  BY <1>1, TxnTypes DEF End
<1>3. Named([NoTxn EXCEPT !.pc = "done"])
  BY DEF Named, NoTxn, Busy
<1> QED BY <1>2, <1>3

LEMMA RetryTypes ==
    ASSUME TypeOK, NEW r \in Requests, Named(txn[r]), txn[r].pc \in {"locking", "members"},
           txn[r].kind # "deleteProject", Retry(r)
    PROVE  /\ txn' \in [Requests -> Txn] /\ OthersRest(r)
           /\ txn'[r].pc = "again" /\ txn'[r].held = {} /\ txn'[r].locked = {} /\ Named(txn'[r])
<1> DEFINE t == [NoTxn EXCEPT !.pc = "again", !.kind = txn[r].kind,
                              !.item = txn[r].item, !.target = txn[r].target]
<1>1. t \in Txn
  BY TxnTypes DEF NoTxn, Txn, Ref
<1>2. /\ txn' \in [Requests -> Txn] /\ OthersRest(r) /\ txn'[r] = t
  BY <1>1, TxnTypes DEF Retry
<1>3. t.pc = "again" /\ t.held = {} /\ t.locked = {} /\ Named(t)
  BY DEF Named, NoTxn, Busy
<1> QED BY <1>2, <1>3

\* What a request of a kind may name.
Nameable(kind, item, target) ==
    /\ kind \in Kind \ {"deleteConversation"}
    /\ item \in Convs \cup Tasks \cup {None} /\ target \in Ref
    /\ kind \in {"turn", "move", "archive"} => item \in Convs
    /\ kind \in {"createTask", "updateTask"} => item \in Tasks
    /\ kind = "deleteProject" => target \in Projects

LEMMA NeededTypes ==
    ASSUME TypeOK, NEW kind, NEW item, NEW target, Nameable(kind, item, target)
    PROVE  Needed(kind, item, target) \in SUBSET Projects
<1>1. /\ item \in Convs => conv[item].ref \in Ref
      /\ item \in Tasks => task[item].ref \in Ref
  BY DEF TypeOK, Conv, Task
<1> QED BY <1>1 DEF Needed, Resolved, Nameable, Kind, Ref

\* The reads before the locks end the request or fix what it will lock.
Started(r, kind, item, target) ==
    /\ txn'[r].pc = "locking" /\ txn'[r].kind = kind
    /\ txn'[r].item = item /\ txn'[r].target = target
    /\ txn'[r].fresh = (kind = "turn" /\ conv[item].status # "active")
    /\ txn'[r].need = Needed(kind, item, target) /\ txn'[r].held = {} /\ txn'[r].locked = {}
    /\ ~Refused(kind, item, target)
    /\ kind = "turn" => txn'[r].ref = IF conv[item].status # "active" THEN target ELSE conv[item].ref
    /\ kind = "move" => txn'[r].ref = conv[item].ref

LEMMA ReadTypes ==
    ASSUME TypeOK, NEW r \in Requests, NEW kind, NEW item, NEW target,
           Nameable(kind, item, target), Read(r, kind, item, target)
    PROVE  /\ txn' \in [Requests -> Txn] /\ OthersRest(r) /\ Named(txn'[r])
           /\ \/ End(r)
              \/ Started(r, kind, item, target)
<1>1. CASE Refused(kind, item, target)
  BY <1>1, EndTypes DEF Read
<1>2. CASE ~Refused(kind, item, target)
  <2> DEFINE fresh == kind = "turn" /\ conv[item].status # "active"
             seen == CASE kind \in {"turn", "move", "archive"} -> conv[item].ref
                       [] kind = "updateTask" -> task[item].ref
                       [] OTHER -> target
             ref == IF fresh THEN target ELSE seen
             need == Needed(kind, item, target)
             t == [NoTxn EXCEPT !.pc = "locking", !.kind = kind, !.item = item,
                                !.target = target, !.fresh = fresh, !.ref = ref, !.need = need]
  <2>1. ref \in Ref
    BY DEF TypeOK, Conv, Task, Nameable
  <2>2. need \in SUBSET Projects
    BY NeededTypes
  <2>3. fresh \in BOOLEAN
    OBVIOUS
  <2>4. txn' = [txn EXCEPT ![r] = t]
    BY <1>2 DEF Read
  <2>5. /\ kind = "turn" => ref = IF conv[item].status # "active" THEN target ELSE conv[item].ref
        /\ kind = "move" => ref = conv[item].ref
    OBVIOUS
  <2> HIDE DEF fresh, ref, need
  <2>6. t \in Txn
    BY <2>1, <2>2, <2>3 DEF NoTxn, Txn, Ref, Nameable
  <2>7. txn' \in [Requests -> Txn] /\ OthersRest(r) /\ txn'[r] = t
    BY <2>4, <2>6, TxnTypes
  <2>8. Named(t)
    BY DEF Named, Busy, Nameable, NoTxn
  <2>9. /\ t.pc = "locking" /\ t.kind = kind /\ t.item = item /\ t.target = target
        /\ t.fresh = fresh /\ t.ref = ref /\ t.need = need /\ t.held = {} /\ t.locked = {}
    BY DEF NoTxn
  <2> QED BY <1>2, <2>5, <2>7, <2>8, <2>9 DEF Started, fresh, need
<1> QED BY <1>1, <1>2

\* The request goes on as it is, but for its locks.
Same(r) ==
    /\ txn'[r].kind = txn[r].kind /\ txn'[r].item = txn[r].item
    /\ txn'[r].target = txn[r].target /\ txn'[r].fresh = txn[r].fresh
    /\ txn'[r].ref = txn[r].ref

\* A deleted project that is not the one of its conversation is passed over.
Passes(r, p) ==
    /\ Same(r) /\ txn'[r].pc = "locking" /\ txn[r].kind = "turn" /\ txn[r].ref # p
    /\ txn'[r].need = txn[r].need \ {p} /\ txn'[r].held = txn[r].held
    /\ txn'[r].locked = txn[r].locked

\* A project is locked; a deletion has then found its members.
Takes(r, p) ==
    /\ Same(r) /\ project[p] = "live"
    /\ txn'[r].need = txn[r].need \ {p} /\ txn'[r].held = txn[r].held \cup {p}
    /\ txn'[r].locked = txn[r].locked
    /\ IF txn[r].kind = "deleteProject"
         THEN txn'[r].pc = "members" /\ txn'[r].members = {c \in Convs : conv[c].ref = p}
         ELSE txn'[r].pc = "locking"

LEMMA LockProjectEffect ==
    ASSUME TypeOK, NamedInv, NEW r \in Requests, LockProject(r)
    PROVE  /\ txn' \in [Requests -> Txn] /\ OthersRest(r) /\ Named(txn'[r])
           /\ \/ End(r)
              \/ txn'[r].pc = "again" /\ txn'[r].held = {} /\ txn'[r].locked = {}
              \/ \E p \in NextProject(r) : Passes(r, p) \/ (Locks(r, p) /\ Takes(r, p))
<1>0. Named(txn[r]) /\ txn[r].pc = "locking" /\ txn[r] \in Txn
  BY TxnTypes DEF NamedInv, LockProject
<1>1. PICK p \in NextProject(r) :
         /\ Locks(r, p)
         /\ IF project[p] = "live"
              THEN txn' = [txn EXCEPT
                     ![r].need = @ \ {p}, ![r].held = @ \cup {p},
                     ![r].pc = IF txn[r].kind = "deleteProject" THEN "members" ELSE @,
                     ![r].members = IF txn[r].kind = "deleteProject"
                                      THEN {c \in Convs : conv[c].ref = p} ELSE @]
              ELSE IF txn[r].kind = "archive" THEN Retry(r)
              ELSE IF txn[r].kind = "turn" /\ txn[r].ref # p
                THEN txn' = [txn EXCEPT ![r].need = @ \ {p}]
              ELSE End(r)
  BY DEF LockProject
<1>2. p \in Projects /\ p \in txn[r].need
  BY <1>0, <1>1 DEF NextProject, Txn
<1>3. CASE project[p] = "live"
  <2> DEFINE pc == IF txn[r].kind = "deleteProject" THEN "members" ELSE "locking"
             members == IF txn[r].kind = "deleteProject"
                          THEN {c \in Convs : conv[c].ref = p} ELSE txn[r].members
             t == [txn[r] EXCEPT !.need = txn[r].need \ {p}, !.held = txn[r].held \cup {p},
                                 !.pc = pc, !.members = members]
  <2>1. txn' = [txn EXCEPT ![r] = t]
    BY <1>0, <1>1, <1>3, TxnTypes DEF TypeOK
  <2>2. members \in SUBSET Convs /\ pc \in {"members", "locking"}
    BY <1>0 DEF Txn
  <2>3. /\ pc = "members" <=> txn[r].kind = "deleteProject"
        /\ txn[r].kind = "deleteProject" => members = {c \in Convs : conv[c].ref = p}
    OBVIOUS
  <2> HIDE DEF pc, members
  <2>4. t \in Txn
    BY <1>0, <1>2, <2>2 DEF Txn
  <2>5. txn' \in [Requests -> Txn] /\ OthersRest(r) /\ txn'[r] = t
    BY <2>1, <2>4, TxnTypes
  <2>6. /\ t.pc = pc /\ t.kind = txn[r].kind /\ t.item = txn[r].item /\ t.target = txn[r].target
        /\ t.fresh = txn[r].fresh /\ t.ref = txn[r].ref /\ t.members = members
        /\ t.need = txn[r].need \ {p} /\ t.held = txn[r].held \cup {p}
        /\ t.locked = txn[r].locked
    BY <1>0 DEF Txn
  <2>7. Named(t)
    BY <1>0, <2>2, <2>3, <2>6 DEF Named, Busy
  <2>8. Takes(r, p)
    BY <1>3, <2>2, <2>3, <2>5, <2>6 DEF Takes, Same
  <2> QED BY <1>1, <2>5, <2>7, <2>8
<1>4. CASE project[p] # "live" /\ txn[r].kind = "archive"
  BY <1>0, <1>1, <1>4, RetryTypes
<1>5. CASE project[p] # "live" /\ txn[r].kind = "turn" /\ txn[r].ref # p
  <2> DEFINE t == [txn[r] EXCEPT !.need = txn[r].need \ {p}]
  <2>1. txn' = [txn EXCEPT ![r] = t]
    BY <1>1, <1>5, TxnTypes DEF TypeOK
  <2>2. t \in Txn
    BY <1>0 DEF Txn
  <2>3. txn' \in [Requests -> Txn] /\ OthersRest(r) /\ txn'[r] = t
    BY <2>1, <2>2, TxnTypes
  <2>4. /\ t.pc = "locking" /\ t.kind = txn[r].kind /\ t.item = txn[r].item
        /\ t.target = txn[r].target /\ t.fresh = txn[r].fresh /\ t.ref = txn[r].ref
        /\ t.need = txn[r].need \ {p} /\ t.held = txn[r].held
        /\ t.locked = txn[r].locked
    BY <1>0 DEF Txn
  <2>5. Named(t)
    BY <1>0, <2>4 DEF Named, Busy
  <2>6. Passes(r, p)
    BY <1>5, <2>3, <2>4 DEF Passes, Same
  <2> QED BY <1>1, <2>3, <2>5, <2>6
<1>6. CASE project[p] # "live" /\ txn[r].kind # "archive" /\ ~(txn[r].kind = "turn" /\ txn[r].ref # p)
  BY <1>1, <1>6, EndTypes
<1> QED BY <1>3, <1>4, <1>5, <1>6

\* LockMember: one more conversation is locked.
LEMMA LockMemberEffect ==
    ASSUME TypeOK, NamedInv, NEW r \in Requests, LockMember(r)
    PROVE  /\ txn' \in [Requests -> Txn] /\ OthersRest(r) /\ Named(txn'[r])
           /\ Same(r) /\ txn'[r].pc = txn[r].pc /\ txn'[r].need = txn[r].need
           /\ txn'[r].held = txn[r].held /\ txn'[r].members = txn[r].members
           /\ \E c \in txn[r].members \ txn[r].locked :
                 Free(r, c) /\ txn'[r].locked = txn[r].locked \cup {c}
<1>0. Named(txn[r]) /\ txn[r] \in Txn
  BY TxnTypes DEF NamedInv
<1>1. PICK c \in txn[r].members \ txn[r].locked :
         Free(r, c) /\ txn' = [txn EXCEPT ![r].locked = @ \cup {c}]
  BY DEF LockMember
<1> DEFINE t == [txn[r] EXCEPT !.locked = txn[r].locked \cup {c}]
<1>2. t \in Txn
  BY <1>0, <1>1 DEF Txn
<1>3. txn' = [txn EXCEPT ![r] = t]
  BY <1>1, TxnTypes DEF TypeOK
<1>4. txn' \in [Requests -> Txn] /\ OthersRest(r) /\ txn'[r] = t
  BY <1>2, <1>3, TxnTypes
<1>5. /\ t.pc = txn[r].pc /\ t.kind = txn[r].kind /\ t.item = txn[r].item
      /\ t.target = txn[r].target /\ t.fresh = txn[r].fresh /\ t.ref = txn[r].ref
      /\ t.need = txn[r].need /\ t.held = txn[r].held /\ t.members = txn[r].members
      /\ t.locked = txn[r].locked \cup {c}
  BY <1>0 DEF Txn
<1>6. Named(t)
  BY <1>0, <1>5 DEF Named
<1> QED BY <1>1, <1>4, <1>5, <1>6 DEF Same

-----------------------------------------------------------------------------
(* What a step does to the transactions                                       *)

\* The ways in which the transaction of a request ends or goes on.
Ends(r) == End(r) \/ (txn'[r].pc = "again" /\ txn'[r].held = {} /\ txn'[r].locked = {})
Starts(r) == \E kind, item, target : Nameable(kind, item, target) /\ Started(r, kind, item, target)
Locking(r) == \E p \in NextProject(r) : Passes(r, p) \/ (Locks(r, p) /\ Takes(r, p))

\* The requests that write when they end.
Writes(r) ==
    \/ CommitTurn(r) \/ CommitMove(r) \/ CommitArchive(r) \/ CommitCreateTask(r)
    \/ CommitUpdateTask(r) \/ DeleteConversation(r) \/ CommitDeletion(r)

LEMMA WritesEnd == ASSUME NEW r \in Requests, Writes(r) PROVE End(r)
BY DEF Writes, CommitTurn, CommitMove, CommitArchive, CommitCreateTask, CommitUpdateTask,
       DeleteConversation, CommitDeletion

LEMMA RequestEffect ==
    ASSUME TypeOK, NamedInv, NEW r \in Requests, Request(r)
    PROVE  /\ txn' \in [Requests -> Txn] /\ OthersRest(r) /\ Named(txn'[r])
           /\ \/ Writes(r) /\ End(r)
              \/ /\ UNCHANGED <<rows, outbox, faults>>
                 /\ \/ Ends(r)
                    \/ txn[r].pc \in {"idle", "again"} /\ Starts(r)
                    \/ txn[r].pc = "locking" /\ Locking(r)
                    \/ LockMember(r)
<1>0. txn[r] \in Txn /\ Named(txn[r])
  BY TxnTypes DEF NamedInv
<1>1. CASE Begin(r)
  <2>1. PICK kind \in Kinds[r] \ {"deleteConversation"} :
         \E item \in (CASE kind \in {"turn", "move", "archive"} -> Convs
                        [] kind \in {"createTask", "updateTask"} -> Tasks
                        [] OTHER -> {None}),
            target \in (CASE kind \in {"turn", "move", "createTask"} -> Ref
                          [] kind = "deleteProject" -> Projects
                          [] OTHER -> {None}) :
           Read(r, kind, item, target)
    BY <1>1 DEF Begin
  <2>2. PICK item \in (CASE kind \in {"turn", "move", "archive"} -> Convs
                        [] kind \in {"createTask", "updateTask"} -> Tasks
                        [] OTHER -> {None}),
            target \in (CASE kind \in {"turn", "move", "createTask"} -> Ref
                          [] kind = "deleteProject" -> Projects
                          [] OTHER -> {None}) :
           Read(r, kind, item, target)
    BY <2>1
  <2>3. kind \in Kind \ {"deleteConversation"}
    BY <2>1, KindsAssumption
  <2>4. Nameable(kind, item, target)
    BY <2>2, <2>3 DEF Nameable, Ref, Kind
  <2> QED BY <1>1, <2>2, <2>4, ReadTypes DEF Begin, Ends, Starts
<1>2. CASE Again(r)
  <2>1. Nameable(txn[r].kind, txn[r].item, txn[r].target)
    BY <1>0, <1>2 DEF Again, Named, Busy, Nameable, Txn
  <2> QED BY <1>2, <2>1, ReadTypes DEF Again, Ends, Starts
<1>3. CASE LockProject(r)
  BY <1>3, LockProjectEffect DEF LockProject, Ends, Locking
<1>4. CASE LosesConversation(r)
  <2>1. txn[r].pc = "locking" /\ txn[r].kind # "deleteProject"
    BY <1>4 DEF LosesConversation, Ready, OnConversation
  <2> QED BY <1>0, <1>4, <2>1, EndTypes, RetryTypes DEF LosesConversation, Ends
<1>5. CASE LockMember(r)
  BY <1>5, LockMemberEffect DEF LockMember
<1>6. CASE Abort(r)
  <2>1. CASE txn[r].kind = "move"
    BY <1>0, <1>6, <2>1, RetryTypes DEF Abort, Ends
  <2>2. CASE txn[r].kind # "move"
    BY <1>6, <2>2, EndTypes DEF Abort, Ends
  <2> QED BY <2>1, <2>2
<1>7. CASE Writes(r)
  BY <1>7, WritesEnd, EndTypes
<1> QED BY <1>1, <1>2, <1>3, <1>4, <1>5, <1>6, <1>7 DEF Request, Writes

-----------------------------------------------------------------------------
(* Types                                                                      *)

LEMMA FaultTypes == faults \in 0..MaxFaults /\ Fault => faults' \in 0..MaxFaults
BY LimitsAssumption DEF Fault

\* What the requests write has its type.
LEMMA WriteTypes ==
    ASSUME TypeOK, NamedInv, NEW r \in Requests, Writes(r)
    PROVE  /\ project' \in [Projects -> {"live", "deleted"}]
           /\ conv' \in [Convs -> Conv] /\ task' \in [Tasks -> Task]
           /\ runs' \subseteq Run /\ moves' \in [Convs -> Nat]
           /\ deletion' \in [Projects -> Deletion] /\ release' \in [Scope -> Command]
           /\ tickets' = tickets /\ accepted' = accepted /\ faults' = faults
<1>0. txn[r] \in Txn /\ Named(txn[r])
  BY TxnTypes DEF NamedInv
<1>a. /\ \A c \in Convs : conv[c] \in Conv /\ moves[c] \in Nat
      /\ \A t \in Tasks : task[t] \in Task
  BY DEF TypeOK
<1>1. CASE CommitTurn(r)
  <2>1. txn[r].item \in Convs /\ txn[r].ref \in Ref
    BY <1>0, <1>1 DEF CommitTurn, Ready, Named, Busy, Txn
  <2>2. [status |-> "active", ref |-> txn[r].ref, archived |-> FALSE] \in Conv
    BY <2>1 DEF Conv
  <2>3. CASE txn[r].target \notin {None, txn[r].ref}
    BY <1>1, <2>3 DEF CommitTurn, outbox, TypeOK
  <2>4. CASE ~(txn[r].target \notin {None, txn[r].ref})
    <3>1. conv' \in [Convs -> Conv]
      BY <1>1, <2>2, <2>4 DEF CommitTurn, TypeOK
    <3>2. [conv |-> txn[r].item, project |-> txn[r].ref, epoch |-> moves[txn[r].item],
           retired |-> FALSE] \in Run
      BY <1>a, <2>1 DEF Run
    <3>3. runs' \subseteq Run
      BY <1>1, <2>4, <3>2 DEF CommitTurn, TypeOK
    <3> QED BY <1>1, <3>1, <3>3 DEF CommitTurn, outbox, TypeOK
  <2> QED BY <2>3, <2>4
<1>2. CASE CommitMove(r)
  <2>1. txn[r].item \in Convs /\ txn[r].target \in Ref
    BY <1>0, <1>2 DEF CommitMove, Ready, Named, Busy, Txn
  <2>2. [conv[txn[r].item] EXCEPT !.ref = txn[r].target] \in Conv
    BY <1>a, <2>1 DEF Conv
  <2>3. conv' \in [Convs -> Conv]
    BY <1>2, <2>2 DEF CommitMove, TypeOK
  <2>4. \A u \in Run : [u EXCEPT !.retired = TRUE] \in Run
    BY DEF Run
  <2>5. RetiredRuns(txn[r].item) \subseteq Run
    BY <2>4 DEF RetiredRuns, TypeOK
  <2>6. moves' \in [Convs -> Nat]
    BY <1>2, <1>a, <2>1 DEF CommitMove, TypeOK
  <2> QED BY <1>2, <2>3, <2>5, <2>6 DEF CommitMove, outbox, TypeOK
<1>3. CASE CommitArchive(r)
  <2>1. txn[r].item \in Convs
    BY <1>0, <1>3 DEF CommitArchive, Ready, Named, Busy
  <2>2. [conv[txn[r].item] EXCEPT !.archived = ~conv[txn[r].item].archived] \in Conv
    BY <1>a, <2>1 DEF Conv
  <2> QED BY <1>3, <2>2 DEF CommitArchive, outbox, TypeOK
<1>4. CASE CommitCreateTask(r)
  <2>1. txn[r].item \in Tasks /\ txn[r].target \in Ref
    BY <1>0, <1>4 DEF CommitCreateTask, Ready, Named, Busy, Txn
  <2>2. [status |-> "active", ref |-> txn[r].target] \in Task
    BY <2>1 DEF Task
  <2> QED BY <1>4, <2>2 DEF CommitCreateTask, outbox, TypeOK
<1>5. CASE CommitUpdateTask(r)
  <2>1. txn[r].item \in Tasks
    BY <1>0, <1>5 DEF CommitUpdateTask, Ready, Named, Busy
  <2>2. \A status \in {"active", "paused"} : [task[txn[r].item] EXCEPT !.status = status] \in Task
    BY <1>a, <2>1 DEF Task
  <2> QED BY <1>5, <2>2 DEF CommitUpdateTask, outbox, TypeOK
<1>6. CASE DeleteConversation(r)
  <2>1. PICK c \in Convs : conv' = [conv EXCEPT ![c].status = "deleted"]
    BY <1>6 DEF DeleteConversation
  <2>2. [conv[c] EXCEPT !.status = "deleted"] \in Conv
    BY <1>a DEF Conv
  <2> QED BY <1>6, <2>1, <2>2 DEF DeleteConversation, outbox, TypeOK
<1>7. CASE CommitDeletion(r)
  <2>1. txn[r].members \in SUBSET Convs
    BY <1>0 DEF Txn
  <2>2. Cardinality(txn[r].members) \in Nat
    BY <2>1, FiniteAssumption, FS_Subset, FS_CardinalityType
  <2>3. [commands |-> Cardinality(txn[r].members) + 1, state |-> "pending"] \in Deletion
    BY <2>2 DEF Deletion
  <2>4. deletion' \in [Projects -> Deletion]
    BY <1>7, <2>3 DEF CommitDeletion, TypeOK
  <2>5. NewCommand \in Command
    BY DEF NewCommand, NoCommand, Command
  <2>6. release' \in [Scope -> Command]
    BY <1>7, <2>5 DEF CommitDeletion, TypeOK
  <2>7. \A c \in Convs : [conv[c] EXCEPT !.status = "deleted"] \in Conv
    BY <1>a DEF Conv
  <2>8. \A t \in Tasks : [task[t] EXCEPT !.status = "paused"] \in Task
    BY <1>a DEF Task
  <2>9. conv' \in [Convs -> Conv] /\ task' \in [Tasks -> Task]
    BY <1>7, <1>a, <2>7, <2>8 DEF CommitDeletion, Deleted, Paused
  <2>10. project' \in [Projects -> {"live", "deleted"}]
    BY <1>7 DEF CommitDeletion, TypeOK
  <2> QED BY <1>7, <2>4, <2>6, <2>9, <2>10 DEF CommitDeletion, TypeOK
<1> QED BY <1>1, <1>2, <1>3, <1>4, <1>5, <1>6, <1>7 DEF Writes

\* What the dispatchers, Storage and the clock do.
Releases ==
    \/ \E w \in Workers : Claim(w)
    \/ \E t \in tickets : Carry(t)
    \/ \E s \in Scope : Elapse(s)

\* A settled command is a command, whether or not the set of commands is intact.
LEMMA SettledTypes ==
    ASSUME NEW command \in Command, NEW answer
    PROVE  /\ SettledCommand(command, answer) \in Command
           /\ [SettledCommand(command, answer) EXCEPT !.state = "blocked",
                                                      !.cause = "integrity"] \in Command
<1> DEFINE state == CASE answer = "released" -> "released"
                      [] answer = "retry" -> "pending"
                      [] OTHER -> "blocked"
           cause == IF answer \in {"credentials", "terminal"} THEN answer ELSE "none"
<1>1. state \in {"pending", "released", "blocked"}
  OBVIOUS
<1>2. cause \in {"none", "credentials", "terminal"}
  OBVIOUS
<1>3. SettledCommand(command, answer) =
        [command EXCEPT !.state = state, !.cause = cause, !.owner = None, !.due = FALSE]
  BY DEF SettledCommand
<1> HIDE DEF state, cause
<1>4. [command EXCEPT !.state = state, !.cause = cause, !.owner = None, !.due = FALSE] \in Command
  BY <1>1, <1>2 DEF Command
<1>5. \A d \in Command : [d EXCEPT !.state = "blocked", !.cause = "integrity"] \in Command
  BY DEF Command
<1> QED BY <1>3, <1>4, <1>5

LEMMA ReleaseTypes ==
    ASSUME TypeOK, Releases
    PROVE  /\ deletion' \in [Projects -> Deletion] /\ release' \in [Scope -> Command]
           /\ tickets' \subseteq Ticket /\ accepted' \subseteq Scope
           /\ faults' \in 0..MaxFaults /\ UNCHANGED <<rows, txn>>
<1>a. /\ \A s \in Scope : release[s] \in Command
      /\ \A t \in tickets : t \in Ticket /\ t.scope \in Scope
  BY DEF TypeOK, Ticket
<1>1. ASSUME NEW w \in Workers, Claim(w)
      PROVE  release' \in [Scope -> Command] /\ tickets' \subseteq Ticket
  <2>1. PICK taken \in SUBSET {s \in Scope : Claimable(s)} :
         /\ release' = [s \in Scope |-> IF s \in taken
                          THEN [state |-> "leased", due |-> FALSE, fence |-> release[s].fence + 1,
                                owner |-> w, cause |-> "none"]
                          ELSE release[s]]
         /\ tickets' = tickets \cup {[worker |-> w, scope |-> s, fence |-> release[s].fence + 1,
                                      answer |-> "none"] : s \in taken}
    BY <1>1 DEF Claim
  <2>2. \A s \in Scope : release[s].fence + 1 \in Nat
    BY <1>a DEF Command
  <2>3. \A s \in Scope : [state |-> "leased", due |-> FALSE, fence |-> release[s].fence + 1,
                          owner |-> w, cause |-> "none"] \in Command
    BY <2>2 DEF Command
  <2>4. \A s \in Scope : [worker |-> w, scope |-> s, fence |-> release[s].fence + 1,
                          answer |-> "none"] \in Ticket
    BY <2>2 DEF Ticket
  <2> QED BY <1>a, <2>1, <2>3, <2>4 DEF TypeOK
<1>2. ASSUME NEW t \in tickets,
             NEW answer \in {"none", "released", "retry", "credentials", "terminal"},
             Becomes(t, answer)
      PROVE  tickets' \subseteq Ticket
  <2>1. [t EXCEPT !.answer = answer] \in Ticket
    BY <1>a DEF Ticket
  <2> QED BY <1>2, <2>1 DEF Becomes, TypeOK
<1>3. ASSUME NEW t \in tickets, Accept(t)
      PROVE  tickets' \subseteq Ticket /\ accepted' \subseteq Scope
  BY <1>a, <1>2, <1>3 DEF Accept, TypeOK
<1>4. ASSUME NEW t \in tickets, Refuse(t)
      PROVE  tickets' \subseteq Ticket /\ accepted' \subseteq Scope
  BY <1>a, <1>2, <1>4 DEF Refuse, TypeOK
<1>5. ASSUME NEW t \in tickets, Settle(t)
      PROVE  release' \in [Scope -> Command] /\ deletion' \in [Projects -> Deletion]
  <2> DEFINE p == t.scope.project
             settled == [release EXCEPT ![t.scope] = SettledCommand(@, t.answer)]
  <2>1. p \in Projects /\ t.scope \in Scope
    BY <1>a DEF Scope
  <2>2. /\ SettledCommand(release[t.scope], t.answer) \in Command
        /\ [SettledCommand(release[t.scope], t.answer) EXCEPT !.state = "blocked",
                                                              !.cause = "integrity"] \in Command
    BY <1>a, <2>1, SettledTypes
  <2>3. settled = [release EXCEPT ![t.scope] = SettledCommand(release[t.scope], t.answer)]
    OBVIOUS
  <2>4. settled \in [Scope -> Command]
    BY <2>1, <2>2 DEF TypeOK
  <2>5. settled[t.scope] = SettledCommand(release[t.scope], t.answer)
    BY <2>1 DEF TypeOK
  <2>6. CASE Intact(p, settled)
    <3>1. release' = settled /\ deletion' = [deletion EXCEPT ![p].state = StateOf(p, settled)]
      BY <1>5, <2>6 DEF Settle
    <3>2. StateOf(p, settled) \in {"pending", "blocked", "released"}
      BY DEF StateOf
    <3>3. [deletion[p] EXCEPT !.state = StateOf(p, settled)] \in Deletion
      BY <2>1, <3>2 DEF TypeOK, Deletion
    <3> QED BY <2>4, <3>1, <3>3 DEF TypeOK
  <2>7. CASE ~Intact(p, settled)
    <3>1. /\ release' = [settled EXCEPT ![t.scope].state = "blocked", ![t.scope].cause = "integrity"]
          /\ deletion' = [deletion EXCEPT ![p].state = "blocked"]
      BY <1>5, <2>7 DEF Settle
    <3> HIDE DEF settled
    <3>2. release' = [settled EXCEPT ![t.scope] =
                        [settled[t.scope] EXCEPT !.state = "blocked", !.cause = "integrity"]]
      BY <2>1, <2>4, <3>1
    <3>3. release' \in [Scope -> Command]
      BY <2>2, <2>4, <2>5, <3>2
    <3>4. [deletion[p] EXCEPT !.state = "blocked"] \in Deletion
      BY <2>1 DEF TypeOK, Deletion
    <3> QED BY <3>1, <3>3, <3>4 DEF TypeOK
  <2> QED BY <2>6, <2>7
<1>6. ASSUME NEW s \in Scope, Elapse(s)
      PROVE  release' \in [Scope -> Command] /\ faults' \in 0..MaxFaults
  <2>1. [release[s] EXCEPT !.due = TRUE] \in Command
    BY <1>a DEF Command
  <2> QED BY <1>6, <2>1, FaultTypes DEF Elapse, TypeOK
<1>7. ASSUME NEW t \in tickets, Carry(t)
      PROVE  /\ deletion' \in [Projects -> Deletion] /\ release' \in [Scope -> Command]
             /\ tickets' \subseteq Ticket /\ accepted' \subseteq Scope
             /\ faults' \in 0..MaxFaults /\ UNCHANGED <<rows, txn>>
  <2>1. CASE Accept(t)
    BY <1>3, <2>1 DEF Accept, TypeOK
  <2>2. CASE Refuse(t)
    BY <1>4, <2>2, FaultTypes DEF Refuse, TypeOK
  <2>3. CASE GiveUp(t) \/ Skip(t)
    BY <2>3, FaultTypes DEF GiveUp, Skip, TypeOK
  <2>4. CASE Settle(t)
    BY <1>5, <2>4 DEF Settle, TypeOK
  <2> QED BY <1>7, <2>1, <2>2, <2>3, <2>4 DEF Carry
<1>8. ASSUME NEW w \in Workers, Claim(w) PROVE UNCHANGED <<rows, txn, deletion, accepted, faults>>
  BY <1>8 DEF Claim
<1>9. ASSUME NEW s \in Scope, Elapse(s) PROVE UNCHANGED <<rows, txn, deletion, tickets, accepted>>
  BY <1>9 DEF Elapse
<1> QED BY <1>1, <1>6, <1>7, <1>8, <1>9 DEF Releases, TypeOK

LEMMA NextSplits == Next <=> (\E r \in Requests : Request(r)) \/ Releases
BY DEF Next, Releases

LEMMA TypesInductive ==
    TypeOK /\ NamedInv /\ [Next]_vars => TypeOK' /\ NamedInv'
<1> SUFFICES ASSUME TypeOK, NamedInv, [Next]_vars PROVE TypeOK' /\ NamedInv'
  OBVIOUS
<1>1. ASSUME NEW r \in Requests, Request(r) PROVE TypeOK' /\ NamedInv'
  <2>1. /\ txn' \in [Requests -> Txn] /\ OthersRest(r) /\ Named(txn'[r])
        /\ Writes(r) \/ UNCHANGED <<rows, outbox, faults>>
    BY <1>1, RequestEffect
  <2>2. NamedInv'
    BY <2>1 DEF NamedInv, OthersRest
  <2>3. CASE Writes(r)
    BY <2>1, <2>2, <2>3, WriteTypes DEF TypeOK
  <2>4. CASE UNCHANGED <<rows, outbox, faults>>
    BY <2>1, <2>2, <2>4 DEF TypeOK, rows, outbox
  <2> QED BY <2>1, <2>3, <2>4
<1>2. CASE Releases
  BY <1>2, ReleaseTypes DEF TypeOK, NamedInv, rows
<1>3. CASE UNCHANGED vars
  BY <1>3 DEF TypeOK, NamedInv, vars
<1> QED BY <1>1, <1>2, <1>3, NextSplits

LEMMA TypesInitially == Init => TypeOK /\ NamedInv
<1> SUFFICES ASSUME Init PROVE TypeOK /\ NamedInv
  OBVIOUS
<1>1. NoTxn \in Txn /\ Named(NoTxn)
  BY NoTxnTypes DEF Named, NoTxn, Busy
<1>2. conv \in [Convs -> Conv] /\ task \in [Tasks -> Task]
  BY InitialAssumption DEF Init
<1>3. runs \subseteq Run
  <2>1. \A c \in Convs : conv[c].ref \in Ref
    BY <1>2 DEF Conv
  <2>2. \A c \in Convs :
           [conv |-> c, project |-> conv[c].ref, epoch |-> 0, retired |-> FALSE] \in Run
    BY <2>1 DEF Run
  <2>3. runs = {[conv |-> c, project |-> conv[c].ref, epoch |-> 0, retired |-> FALSE] :
                   c \in {b \in Convs : conv[b].status = "active"}}
    BY DEF Init
  <2> QED BY <2>2, <2>3
<1>4. NoDeletion \in Deletion /\ NoCommand \in Command
  BY DEF NoDeletion, Deletion, NoCommand, Command
<1>5. faults \in 0..MaxFaults
  BY LimitsAssumption DEF Init
<1> QED BY <1>1, <1>2, <1>3, <1>4, <1>5 DEF Init, TypeOK, NamedInv

\* Every variable keeps its type, and a request what it is about.
LEMMA TypedInv == Spec => [](TypeOK /\ NamedInv)
BY TypesInitially, TypesInductive, PTL DEF Spec

\* TypeOK: every variable keeps its type.
THEOREM TypeCorrect == Spec => []TypeOK
BY TypedInv, PTL
-----------------------------------------------------------------------------
(* Locks                                                                      *)

\* A project a request depends on is one it still has to lock or has locked.
Covers(r, ref) == ref = None \/ ref \in txn[r].need \cup txn[r].held

Covering(r) ==
    /\ txn[r].pc = "locking" =>
         /\ txn[r].kind # "turn" => ~txn[r].fresh
         /\ txn[r].kind \in {"turn", "move"} => Covers(r, txn[r].ref)
         /\ txn[r].kind \in {"move", "createTask"} => Covers(r, txn[r].target)
         /\ txn[r].kind = "updateTask" =>
              task[txn[r].item].status # "absent" /\ Covers(r, task[txn[r].item].ref)
         /\ txn[r].kind = "deleteProject" => txn[r].need = {txn[r].target}
    /\ txn[r].pc = "members" =>
         txn[r].target \in txn[r].held /\ txn[r].members = Members(txn[r].target)

Exclusive ==
    \A r \in Requests : \A q \in Requests \ {r} :
        \A p \in txn[r].held : p \in txn[q].held => Shared(r) /\ Shared(q)
HeldLive == \A r \in Requests : \A p \in txn[r].held : project[p] = "live"
AbsentInv == \A c \in Convs : conv[c].status = "absent" => conv[c].ref = None

LockInv ==
    /\ \A r \in Requests : Covering(r)
    /\ Exclusive /\ HeldLive /\ AbsentInv

\* A request writes only where it holds the locks: a conversation changes its
\* project only between projects the request has locked, a deleted one never; a
\* task never does; only a deletion touches a project, the one it has locked.
ConvKept(r) ==
    \A c \in Convs :
        /\ conv'[c].ref = conv[c].ref
             \/ {conv[c].ref, conv'[c].ref} \subseteq txn[r].held \cup {None}
        /\ conv[c].status = "deleted" => conv'[c] = conv[c]
        /\ conv'[c].status = "absent" => conv'[c] = conv[c]
TaskKept ==
    \A t \in Tasks : task[t].status # "absent" =>
        task'[t].status # "absent" /\ task'[t].ref = task[t].ref
ProjectKept(r) ==
    \A p \in Projects : project'[p] = project[p]
        \/ (CommitDeletion(r) /\ p = txn[r].target /\ p \in txn[r].held)

\* A conversation that is active where it was read is in the project locked.
LEMMA InPlace ==
    ASSUME TypeOK, NamedInv, LockInv, NEW r \in Requests, Ready(r, "move"), ~Gone(r), ~Changed(r)
    PROVE  /\ txn[r].item \in Convs /\ conv[txn[r].item].status = "active"
           /\ conv[txn[r].item].ref = txn[r].ref
           /\ txn[r].ref \in txn[r].held \cup {None} /\ txn[r].target \in txn[r].held \cup {None}
<1>1. Named(txn[r]) /\ Covering(r) /\ txn[r] \in Txn
  BY TxnTypes DEF NamedInv, LockInv
<1>2. ~txn[r].fresh
  BY <1>1 DEF Ready, Covering
<1> QED BY <1>1, <1>2 DEF Ready, Named, Busy, Gone, Changed, Covering, Covers

LEMMA WriteEffect ==
    ASSUME TypeOK, NamedInv, LockInv, NEW r \in Requests, Writes(r)
    PROVE  ConvKept(r) /\ TaskKept /\ ProjectKept(r)
<1>0. txn[r] \in Txn /\ Named(txn[r]) /\ Covering(r)
  BY TxnTypes DEF NamedInv, LockInv
<1>a. conv \in [Convs -> Conv] /\ task \in [Tasks -> Task] /\ project \in [Projects -> {"live", "deleted"}]
  BY DEF TypeOK
<1>1. CASE CommitTurn(r)
  <2>1. UNCHANGED <<project, task>>
    BY <1>1 DEF CommitTurn
  <2>2. CASE txn[r].fresh /\ conv' # conv
    <3>1. /\ txn[r].item \in Convs /\ txn[r].ref \in txn[r].held \cup {None}
          /\ conv' = [conv EXCEPT ![txn[r].item] =
                        [status |-> "active", ref |-> txn[r].ref, archived |-> FALSE]]
      BY <1>0, <1>1, <2>2 DEF CommitTurn, Ready, Named, Busy, Covering, Covers
    <3>2. conv[txn[r].item].status = "absent"
      BY <1>1, <1>a, <2>2, <3>1 DEF CommitTurn, Gone, Changed, Conv
    <3>3. conv[txn[r].item].ref = None
      BY <3>1, <3>2 DEF LockInv, AbsentInv
    <3> QED BY <1>a, <2>1, <3>1, <3>2, <3>3 DEF ConvKept, TaskKept, ProjectKept
  <2>3. CASE conv' = conv
    BY <2>1, <2>3 DEF ConvKept, TaskKept, ProjectKept
  <2> QED BY <1>1, <2>2, <2>3 DEF CommitTurn
<1>2. CASE CommitMove(r)
  <2>1. /\ txn[r].item \in Convs /\ conv[txn[r].item].status = "active"
        /\ conv[txn[r].item].ref = txn[r].ref
        /\ txn[r].ref \in txn[r].held \cup {None} /\ txn[r].target \in txn[r].held \cup {None}
    BY <1>2, InPlace DEF CommitMove
  <2>2. conv' = [conv EXCEPT ![txn[r].item].ref = txn[r].target] /\ UNCHANGED <<project, task>>
    BY <1>2 DEF CommitMove
  <2>3. /\ conv'[txn[r].item].status = "active" /\ conv'[txn[r].item].ref = txn[r].target
        /\ \A c \in Convs \ {txn[r].item} : conv'[c] = conv[c]
    BY <1>a, <2>1, <2>2 DEF Conv
  <2> QED BY <2>1, <2>2, <2>3 DEF ConvKept, TaskKept, ProjectKept
<1>3. CASE CommitArchive(r)
  <2>1. txn[r].item \in Convs /\ conv[txn[r].item].status = "active"
    <3>1. ~txn[r].fresh
      BY <1>0, <1>3 DEF CommitArchive, Ready, Covering
    <3> QED BY <1>0, <1>3, <3>1 DEF CommitArchive, Ready, Named, Busy, Gone
  <2>2. /\ conv' = [conv EXCEPT ![txn[r].item].archived = ~conv[txn[r].item].archived]
        /\ UNCHANGED <<project, task>>
    BY <1>3, <1>a, <2>1 DEF CommitArchive
  <2>3. /\ conv'[txn[r].item].status = "active" /\ conv'[txn[r].item].ref = conv[txn[r].item].ref
        /\ \A c \in Convs \ {txn[r].item} : conv'[c] = conv[c]
    BY <1>a, <2>1, <2>2 DEF Conv
  <2> QED BY <2>1, <2>2, <2>3 DEF ConvKept, TaskKept, ProjectKept
<1>4. CASE CommitCreateTask(r)
  BY <1>a, <1>4 DEF CommitCreateTask, ConvKept, TaskKept, ProjectKept
<1>5. CASE CommitUpdateTask(r)
  <2>1. PICK status \in {"active", "paused"} : task' = [task EXCEPT ![txn[r].item].status = status]
    BY <1>5 DEF CommitUpdateTask
  <2>2. \A t \in Tasks : task[t].status # "absent" =>
           task'[t].status # "absent" /\ task'[t].ref = task[t].ref
    BY <1>a, <2>1 DEF Task
  <2> QED BY <1>5, <2>2 DEF CommitUpdateTask, ConvKept, TaskKept, ProjectKept
<1>6. CASE DeleteConversation(r)
  <2>1. PICK c \in Convs : Visible(c) /\ conv' = [conv EXCEPT ![c].status = "deleted"]
    BY <1>6 DEF DeleteConversation
  <2>2. /\ conv[c].status = "active" /\ conv'[c].status = "deleted" /\ conv'[c].ref = conv[c].ref
        /\ \A b \in Convs \ {c} : conv'[b] = conv[b]
    BY <1>a, <2>1 DEF Visible, Conv
  <2>3. UNCHANGED <<project, task>>
    BY <1>6 DEF DeleteConversation
  <2> QED BY <2>2, <2>3 DEF ConvKept, TaskKept, ProjectKept
<1>7. CASE CommitDeletion(r)
  <2>1. /\ project' = [project EXCEPT ![txn[r].target] = "deleted"]
        /\ conv' = Deleted(txn[r].members) /\ task' = Paused(txn[r].target)
        /\ txn[r].target \in txn[r].held
    BY <1>0, <1>7 DEF CommitDeletion, Covering
  <2>2. \A c \in Convs : conv'[c] = conv[c] \/ conv'[c] = [conv[c] EXCEPT !.status = "deleted"]
    BY <2>1 DEF Deleted
  <2>3. \A d \in Conv : LET e == [d EXCEPT !.status = "deleted"]
                        IN e.ref = d.ref /\ e.status = "deleted" /\ (d.status = "deleted" => e = d)
    BY DEF Conv
  <2>4. ConvKept(r)
    BY <1>a, <2>2, <2>3 DEF ConvKept
  <2>5. \A t \in Tasks : task'[t] = task[t] \/ task'[t] = [task[t] EXCEPT !.status = "paused"]
    BY <2>1 DEF Paused
  <2>6. \A d \in Task : LET e == [d EXCEPT !.status = "paused"]
                        IN e.ref = d.ref /\ e.status = "paused"
    BY DEF Task
  <2>7. TaskKept
    BY <1>a, <2>5, <2>6 DEF TaskKept
  <2>8. ProjectKept(r)
    BY <1>7, <1>a, <2>1 DEF ProjectKept
  <2> QED BY <2>4, <2>7, <2>8
<1> QED BY <1>1, <1>2, <1>3, <1>4, <1>5, <1>6, <1>7 DEF Writes

LEMMA LocksInitially == Init => LockInv
BY InitialAssumption DEF Init, LockInv, Covering, Exclusive, HeldLive, AbsentInv, NoTxn

\* Projects of a request that holds none, and of the others while one only ends.
LEMMA EndingKeepsLocks ==
    ASSUME TypeOK, NamedInv, LockInv, NEW r \in Requests, OthersRest(r),
           txn'[r].held = {}
    PROVE  /\ Exclusive'
           /\ UNCHANGED project => HeldLive'
BY DEF LockInv, Exclusive, HeldLive, OthersRest, Shared

LEMMA WritesKeepLocks ==
    ASSUME TypeOK, NamedInv, LockInv, NEW r \in Requests, Writes(r), OthersRest(r),
           txn'[r] = [NoTxn EXCEPT !.pc = "done"]
    PROVE  LockInv'
<1>0. ConvKept(r) /\ TaskKept /\ ProjectKept(r)
  BY WriteEffect
<1>1. txn'[r].held = {} /\ txn'[r].pc = "done"
  BY DEF NoTxn
<1>2. Exclusive'
  BY <1>1, EndingKeepsLocks
<1>3. AbsentInv'
  BY <1>0 DEF ConvKept, LockInv, AbsentInv
<1>4. ASSUME NEW q \in Requests \ {r}, NEW p \in txn[q].held PROVE project'[p] = "live"
  <2>1. project[p] = "live" /\ p \in Projects
    BY TxnTypes DEF LockInv, HeldLive, Txn
  <2>2. ASSUME CommitDeletion(r), p \in txn[r].held PROVE FALSE
    <3>1. txn[r].kind = "deleteProject"
      BY <2>2 DEF CommitDeletion, NamedInv, Named, Busy
    <3>2. Shared(r)
      BY <2>2 DEF LockInv, Exclusive
    <3> QED BY <3>1, <3>2 DEF Shared
  <2> QED BY <1>0, <2>1, <2>2 DEF ProjectKept
<1>5. HeldLive'
  BY <1>1, <1>4 DEF HeldLive, OthersRest
<1>6. ASSUME NEW q \in Requests \ {r} PROVE Covering(q)'
  <2>1. txn'[q] = txn[q] /\ Covering(q) /\ Named(txn[q]) /\ txn[q] \in Txn
    BY TxnTypes DEF LockInv, NamedInv, OthersRest
  <2>2. ASSUME txn[q].pc = "locking", txn[q].kind = "updateTask"
        PROVE  /\ task'[txn[q].item].status # "absent"
               /\ task'[txn[q].item].ref = task[txn[q].item].ref
    BY <1>0, <2>1, <2>2 DEF Covering, TaskKept, Named, Busy
  <2>3. ASSUME txn[q].pc = "members" PROVE Members(txn[q].target)' = Members(txn[q].target)
    <3>1. txn[q].target \in txn[q].held /\ txn[q].kind = "deleteProject" /\ txn[q].target \in Projects
      BY <2>1, <2>3 DEF Covering, Named, Busy
    <3>2. txn[q].target \notin txn[r].held \cup {None}
      BY <3>1, NoneAssumption DEF LockInv, Exclusive, Shared
    <3>3. \A c \in Convs : conv'[c].ref = txn[q].target <=> conv[c].ref = txn[q].target
      BY <1>0, <3>2 DEF ConvKept
    <3> QED BY <2>1, <3>3 DEF Members
  <2> QED BY <2>1, <2>2, <2>3 DEF Covering, Covers
<1>7. Covering(r)'
  BY <1>1 DEF Covering
<1> QED BY <1>2, <1>3, <1>5, <1>6, <1>7 DEF LockInv

LEMMA StartedCovers ==
    ASSUME TypeOK, NEW r \in Requests, NEW kind, NEW item, NEW target,
           Nameable(kind, item, target), Started(r, kind, item, target), UNCHANGED rows
    PROVE  Covering(r)'
<1>1. /\ item \in Convs => conv[item].ref \in Ref
      /\ item \in Tasks => task[item].ref \in Ref
      /\ target \in Ref
  BY DEF TypeOK, Conv, Task, Nameable
<1>2. /\ txn'[r].pc = "locking" /\ txn'[r].kind = kind
      /\ txn'[r].item = item /\ txn'[r].target = target /\ task' = task
      /\ txn'[r].fresh = (kind = "turn" /\ conv[item].status # "active")
      /\ txn'[r].need = Needed(kind, item, target)
      /\ ~Refused(kind, item, target)
  BY DEF Started, rows
<1>3. CASE kind = "turn"
  <2> DEFINE ref == IF conv[item].status # "active" THEN target ELSE conv[item].ref
  <2>1. txn'[r].ref = ref /\ ref \in Ref /\ Live(ref)
    BY <1>1, <1>2, <1>3 DEF Started, Refused, Nameable
  <2>2. Needed(kind, item, target)
          = Resolved({target} \cup (IF conv[item].status = "active" THEN {conv[item].ref} ELSE {}))
    BY <1>3 DEF Needed
  <2>3. ref \in Projects => ref \in Needed(kind, item, target)
    BY <2>1, <2>2, NoneAssumption DEF Resolved, Live
  <2> QED BY <1>2, <1>3, <2>1, <2>3 DEF Covering, Covers, Ref
<1>4. CASE kind = "move"
  <2>1. Needed(kind, item, target) = {conv[item].ref, target} \ {None}
    BY <1>4 DEF Needed
  <2>2. txn'[r].ref = conv[item].ref
    BY <1>4 DEF Started
  <2>3. ~txn'[r].fresh
    BY <1>2, <1>4
  <2> QED BY <1>2, <1>4, <2>1, <2>2, <2>3 DEF Covering, Covers
<1>5. CASE kind = "updateTask"
  <2>1. Needed(kind, item, target) = {task[item].ref} \ {None}
    BY <1>5 DEF Needed
  <2>2. task[item].status # "absent"
    BY <1>2, <1>5 DEF Refused
  <2>3. ~txn'[r].fresh
    BY <1>2, <1>5
  <2> QED BY <1>2, <1>5, <2>1, <2>2, <2>3 DEF Covering, Covers
<1>6. CASE kind \in {"createTask", "deleteProject"}
  <2>1. Needed(kind, item, target) = {target} \ {None}
    BY <1>6 DEF Needed
  <2>2. kind = "deleteProject" => target # None
    BY NoneAssumption DEF Nameable
  <2>3. ~txn'[r].fresh
    BY <1>2, <1>6
  <2> QED BY <1>2, <1>6, <2>1, <2>2, <2>3 DEF Covering, Covers
<1>7. CASE kind = "archive"
  BY <1>2, <1>7 DEF Covering
<1> QED BY <1>3, <1>4, <1>5, <1>6, <1>7 DEF Nameable, Kind

LEMMA TakingKeepsLocks ==
    ASSUME TypeOK, NamedInv, LockInv, NEW r \in Requests, OthersRest(r), UNCHANGED rows,
           txn[r].pc = "locking", Locking(r)
    PROVE  Covering(r)' /\ Exclusive' /\ HeldLive'
<1>1. PICK p \in NextProject(r) : Passes(r, p) \/ (Locks(r, p) /\ Takes(r, p))
  BY DEF Locking
<1>2. /\ txn[r] \in Txn /\ Covering(r) /\ Same(r) /\ p \in txn[r].need
      /\ task' = task /\ conv' = conv /\ project' = project
  BY <1>1, TxnTypes DEF LockInv, Passes, Takes, NextProject, rows
<1>3. CASE Passes(r, p)
  <2>1. /\ txn'[r].need = txn[r].need \ {p} /\ txn'[r].held = txn[r].held
        /\ txn[r].kind = "turn" /\ txn[r].ref # p /\ txn'[r].pc = "locking"
    BY <1>3 DEF Passes
  <2>2. Covering(r)'
    BY <1>2, <2>1 DEF Covering, Covers, Same
  <2> QED BY <1>2, <2>1, <2>2 DEF LockInv, Exclusive, HeldLive, OthersRest, Shared, Same
<1>4. CASE Locks(r, p) /\ Takes(r, p)
  <2>1. /\ txn'[r].need = txn[r].need \ {p} /\ txn'[r].held = txn[r].held \cup {p}
        /\ project[p] = "live"
        /\ IF txn[r].kind = "deleteProject"
             THEN txn'[r].pc = "members" /\ txn'[r].members = {c \in Convs : conv[c].ref = p}
             ELSE txn'[r].pc = "locking"
    BY <1>4 DEF Takes
  <2>2. Covering(r)'
    <3>1. CASE txn[r].kind = "deleteProject"
      <4>1. p = txn[r].target
        BY <1>2, <3>1 DEF Covering
      <4> QED BY <1>2, <2>1, <3>1, <4>1 DEF Covering, Same, Members
    <3>2. CASE txn[r].kind # "deleteProject"
      BY <1>2, <2>1, <3>2 DEF Covering, Covers, Same
    <3> QED BY <3>1, <3>2
  <2>3. HeldLive'
    BY <1>2, <2>1 DEF LockInv, HeldLive, OthersRest
  <2>4. \A q \in Requests : Shared(q)' <=> Shared(q)
    BY <1>2 DEF Shared, Same, OthersRest
  <2>5. ASSUME NEW q \in Requests, NEW b \in Requests \ {q}, NEW x \in txn'[q].held, x \in txn'[b].held
        PROVE  Shared(q) /\ Shared(b)
    <3>1. CASE q = r
      BY <1>4, <2>1, <2>5, <3>1 DEF LockInv, Exclusive, OthersRest, Locks
    <3>2. CASE b = r
      BY <1>4, <2>1, <2>5, <3>2 DEF LockInv, Exclusive, OthersRest, Locks
    <3>3. CASE q # r /\ b # r
      BY <2>5, <3>3 DEF LockInv, Exclusive, OthersRest
    <3> QED BY <3>1, <3>2, <3>3
  <2>6. Exclusive'
    BY <2>4, <2>5 DEF Exclusive
  <2> QED BY <2>2, <2>3, <2>6
<1> QED BY <1>1, <1>3, <1>4

LEMMA LocksInductive ==
    TypeOK /\ NamedInv /\ LockInv /\ [Next]_vars => LockInv'
<1> SUFFICES ASSUME TypeOK, NamedInv, LockInv, [Next]_vars PROVE LockInv'
  OBVIOUS
<1>1. ASSUME NEW r \in Requests, Request(r) PROVE LockInv'
  <2>1. /\ OthersRest(r)
        /\ \/ Writes(r) /\ End(r)
           \/ /\ UNCHANGED <<rows, outbox, faults>>
              /\ \/ Ends(r)
                 \/ txn[r].pc \in {"idle", "again"} /\ Starts(r)
                 \/ txn[r].pc = "locking" /\ Locking(r)
                 \/ LockMember(r)
    BY <1>1, RequestEffect
  <2>2. CASE Writes(r) /\ End(r)
    BY <2>1, <2>2, EndTypes, WritesKeepLocks
  <2>3. ASSUME UNCHANGED <<rows, outbox, faults>>
        PROVE  /\ UNCHANGED rows /\ AbsentInv'
               /\ \A q \in Requests \ {r} : Covering(q)'
    <3>1. conv' = conv /\ task' = task /\ project' = project
      BY <2>3 DEF rows
    <3>2. AbsentInv'
      BY <3>1 DEF LockInv, AbsentInv
    <3>3. \A q \in Requests \ {r} : Covering(q)'
      BY <2>1, <3>1 DEF LockInv, Covering, Covers, Members, OthersRest
    <3> QED BY <2>3, <3>2, <3>3
  <2>4. CASE UNCHANGED <<rows, outbox, faults>> /\ Ends(r)
    <3>1. txn'[r].held = {} /\ txn'[r].pc \in {"again", "done"}
      BY <2>4, EndTypes DEF Ends, NoTxn
    <3>2. Covering(r)'
      BY <3>1 DEF Covering
    <3>3. project' = project
      BY <2>4 DEF rows
    <3> QED BY <2>1, <2>3, <2>4, <3>1, <3>2, <3>3, EndingKeepsLocks DEF LockInv
  <2>5. CASE UNCHANGED <<rows, outbox, faults>> /\ Starts(r)
    <3>1. Covering(r)' /\ txn'[r].held = {}
      BY <2>3, <2>5, StartedCovers DEF Starts, Started
    <3>3. project' = project
      BY <2>5 DEF rows
    <3> QED BY <2>1, <2>3, <2>5, <3>1, <3>3, EndingKeepsLocks DEF LockInv
  <2>6. CASE UNCHANGED <<rows, outbox, faults>> /\ txn[r].pc = "locking" /\ Locking(r)
    BY <2>1, <2>3, <2>6, TakingKeepsLocks DEF LockInv
  <2>7. CASE UNCHANGED <<rows, outbox, faults>> /\ LockMember(r)
    <3>1. /\ Same(r) /\ txn'[r].pc = txn[r].pc /\ txn'[r].need = txn[r].need
          /\ txn'[r].held = txn[r].held /\ txn'[r].members = txn[r].members
      BY <2>7, LockMemberEffect
    <3>2. conv' = conv /\ task' = task /\ project' = project
      BY <2>7 DEF rows
    <3>3. Covering(r)'
      BY <3>1, <3>2 DEF LockInv, Covering, Covers, Members, Same
    <3>4. Exclusive' /\ HeldLive'
      BY <2>1, <3>1, <3>2 DEF LockInv, Exclusive, HeldLive, OthersRest, Shared, Same
    <3> QED BY <2>3, <2>7, <3>3, <3>4 DEF LockInv
  <2> QED BY <2>1, <2>2, <2>4, <2>5, <2>6, <2>7
<1>2. CASE UNCHANGED <<rows, txn>>
  BY <1>2 DEF LockInv, Covering, Covers, Members, Exclusive, HeldLive, AbsentInv, Shared, rows
<1>3. Releases => UNCHANGED <<rows, txn>>
  BY ReleaseTypes
<1>4. UNCHANGED vars => UNCHANGED <<rows, txn>>
  BY DEF vars, rows
<1> QED BY <1>1, <1>2, <1>3, <1>4, NextSplits

\* The types and the locks, together.
Locked == TypeOK /\ NamedInv /\ LockInv

LEMMA LockedInductive ==
    /\ Init => Locked
    /\ Locked /\ [Next]_vars => Locked'
BY TypesInitially, LocksInitially, TypesInductive, LocksInductive DEF Locked

LEMMA LockedInv == Spec => []Locked
BY LockedInductive, PTL DEF Spec

-----------------------------------------------------------------------------
(* Tasks and runs                                                             *)

LEMMA TasksPausedInductive ==
    Locked /\ TasksPaused /\ [Next]_vars => TasksPaused'
<1> SUFFICES ASSUME Locked, TasksPaused, [Next]_vars PROVE TasksPaused'
  OBVIOUS
<1>a. /\ task \in [Tasks -> Task] /\ project \in [Projects -> {"live", "deleted"}]
      /\ \A t \in Tasks : task[t].ref \in Ref
  BY DEF Locked, TypeOK, Task
<1>1. ASSUME NEW r \in Requests, CommitCreateTask(r) PROVE TasksPaused'
  <2>1. txn[r].target \in txn[r].held \cup {None} /\ txn[r].item \in Tasks
    BY <1>1 DEF Locked, LockInv, NamedInv, Covering, Covers, CommitCreateTask, Ready, Named, Busy
  <2>2. Live(txn[r].target)
    BY <2>1 DEF Locked, LockInv, HeldLive, Live
  <2> QED BY <1>1, <1>a, <2>1, <2>2 DEF CommitCreateTask, TasksPaused, Live
<1>2. ASSUME NEW r \in Requests, CommitUpdateTask(r) PROVE TasksPaused'
  <2>1. PICK status \in {"active", "paused"} : task' = [task EXCEPT ![txn[r].item].status = status]
    BY <1>2 DEF CommitUpdateTask
  <2>2. txn[r].item \in Tasks /\ task[txn[r].item].ref \in txn[r].held \cup {None}
    BY <1>2 DEF Locked, LockInv, NamedInv, Covering, Covers, CommitUpdateTask, Ready, Named, Busy
  <2>3. Live(task[txn[r].item].ref)
    BY <2>2 DEF Locked, LockInv, HeldLive, Live
  <2>4. \A t \in Tasks : task'[t].ref = task[t].ref /\ (t # txn[r].item => task'[t] = task[t])
    BY <1>a, <2>1 DEF Task
  <2>5. project' = project
    BY <1>2 DEF CommitUpdateTask
  <2> QED BY <2>3, <2>4, <2>5 DEF TasksPaused, Live
<1>3. ASSUME NEW r \in Requests, CommitDeletion(r) PROVE TasksPaused'
  <2>1. /\ project' = [project EXCEPT ![txn[r].target] = "deleted"]
        /\ task' = Paused(txn[r].target)
    BY <1>3 DEF CommitDeletion
  <2>2. ASSUME NEW t \in Tasks, task'[t].status = "active"
        PROVE  task'[t] = task[t] /\ task[t].ref # txn[r].target
    <3>1. \A d \in Task : [d EXCEPT !.status = "paused"].status # "active"
      BY DEF Task
    <3> QED BY <1>a, <2>1, <2>2, <3>1 DEF Paused
  <2> QED BY <1>a, <2>1, <2>2 DEF TasksPaused, Live, Ref
<1>4. CASE UNCHANGED <<project, task>>
  BY <1>4 DEF TasksPaused, Live
<1>5. ASSUME NEW r \in Requests, Request(r)
      PROVE  \/ CommitCreateTask(r) \/ CommitUpdateTask(r) \/ CommitDeletion(r)
             \/ UNCHANGED <<project, task>>
  <2>1. Writes(r) \/ UNCHANGED <<rows, outbox, faults>>
    BY <1>5, RequestEffect DEF Locked
  <2> QED BY <2>1 DEF Writes, CommitTurn, CommitMove, CommitArchive, DeleteConversation, rows
<1>6. Releases => UNCHANGED <<project, task>>
  BY ReleaseTypes DEF Locked, rows
<1>7. UNCHANGED vars => UNCHANGED <<project, task>>
  BY DEF vars
<1> QED BY <1>1, <1>2, <1>3, <1>4, <1>5, <1>6, <1>7, NextSplits

\* TasksPaused: no task of a deleted project is active.
THEOREM DeletedProjectsRest == Spec => []TasksPaused
<1>1. Init => TasksPaused
  <2> SUFFICES ASSUME Init PROVE TasksPaused
    OBVIOUS
  <2>1. \A t \in Tasks : task[t].ref \in Ref
    BY TypesInitially DEF TypeOK, Task
  <2> QED BY <2>1 DEF Init, TasksPaused, Live, Ref
<1> QED BY <1>1, TasksPausedInductive, LockedInv, PTL DEF Spec

\* A run whose execution context was not retired is of the present stay of its
\* conversation.
EpochInv == \A u \in runs : u.retired \/ u.epoch = moves[u.conv]

LEMMA EpochsInductive == Locked /\ EpochInv /\ [Next]_vars => EpochInv'
<1> SUFFICES ASSUME Locked, EpochInv, [Next]_vars PROVE EpochInv'
  OBVIOUS
<1>a. runs \subseteq Run /\ moves \in [Convs -> Nat]
  BY DEF Locked, TypeOK
<1>1. ASSUME NEW r \in Requests, CommitTurn(r) PROVE EpochInv'
  <2>1. moves' = moves
    BY <1>1 DEF CommitTurn
  <2>2. \A u \in runs' : u \in runs \/ u.epoch = moves[u.conv]
    BY <1>1 DEF CommitTurn
  <2> QED BY <2>1, <2>2 DEF EpochInv
<1>2. ASSUME NEW r \in Requests, CommitMove(r) PROVE EpochInv'
  <2>1. txn[r].item \in Convs
    BY <1>2, InPlace DEF Locked, CommitMove
  <2>2. CASE txn[r].ref = txn[r].target
    BY <1>2, <2>2 DEF CommitMove, EpochInv
  <2>3. CASE txn[r].ref # txn[r].target
    <3>1. /\ runs' = RetiredRuns(txn[r].item)
          /\ moves' = [moves EXCEPT ![txn[r].item] = @ + 1]
      BY <1>2, <2>3 DEF CommitMove
    <3>2. \A u \in Run : [u EXCEPT !.retired = TRUE].retired
      BY DEF Run
    <3>3. \A u \in runs' : u.retired \/ (u \in runs /\ u.conv # txn[r].item)
      BY <1>a, <3>1, <3>2 DEF RetiredRuns
    <3>4. \A u \in runs : u.conv \in Convs
      BY <1>a DEF Run
    <3> QED BY <1>a, <2>1, <3>1, <3>3, <3>4 DEF EpochInv
  <2> QED BY <2>2, <2>3
<1>3. CASE UNCHANGED <<runs, moves>>
  BY <1>3 DEF EpochInv
<1>4. ASSUME NEW r \in Requests, Request(r)
      PROVE  CommitTurn(r) \/ CommitMove(r) \/ UNCHANGED <<runs, moves>>
  <2>1. Writes(r) \/ UNCHANGED <<rows, outbox, faults>>
    BY <1>4, RequestEffect DEF Locked
  <2> QED BY <2>1 DEF Writes, CommitArchive, CommitCreateTask, CommitUpdateTask,
                      DeleteConversation, CommitDeletion, rows
<1>5. Releases => UNCHANGED <<runs, moves>>
  BY ReleaseTypes DEF Locked, rows
<1>6. UNCHANGED vars => UNCHANGED <<runs, moves>>
  BY DEF vars
<1> QED BY <1>1, <1>2, <1>3, <1>4, <1>5, <1>6, NextSplits

\* BindingLineage: coming back to a project does not revive the runs of before.
THEOREM MovesCutTheLineage == Spec => []BindingLineage
<1>1. Init => EpochInv
  BY DEF Init, EpochInv
<1>2. EpochInv => BindingLineage
  BY DEF EpochInv, BindingLineage, Bindable
<1> QED BY <1>1, <1>2, EpochsInductive, LockedInv, PTL DEF Spec

-----------------------------------------------------------------------------
(* The commands of a deletion                                                 *)

\* One command for every member and one for the project.
LEMMA CommandsCount ==
    ASSUME NEW p, NEW members \in SUBSET Convs
    PROVE  Cardinality(Commands(p, members)) = Cardinality(members) + 1
<1> DEFINE named == members \cup {None}
           f == [c \in named |-> [project |-> p, conv |-> c]]
<1>1. IsFiniteSet(members)
  BY FiniteAssumption, FS_Subset
<1>2. None \notin members
  BY NoneAssumption
<1>3. IsFiniteSet(named) /\ Cardinality(named) = Cardinality(members) + 1
  BY <1>1, <1>2, FS_AddElement
<1>4. f \in [named -> Commands(p, members)]
  BY DEF Commands
<1>5. \A a, b \in named : f[a] = f[b] => a = b
  <2>1. \A c \in named : f[c].conv = c
    OBVIOUS
  <2> QED BY <2>1
<1>6. \A s \in Commands(p, members) : \E c \in named : f[c] = s
  BY DEF Commands
<1>7. f \in Bijection(named, Commands(p, members))
  BY <1>4, <1>5, <1>6 DEF Bijection, Injection, Surjection, IsInjective
<1>8. ExistsBijection(named, Commands(p, members))
  BY <1>7 DEF ExistsBijection
<1> QED BY <1>3, <1>8, FS_Bijection

CommandWritten(s) == release[s].state # "none"

\* The commands of a deleted project are those its deletion froze.
Frozen(p) ==
    /\ Written(p, release) = Commands(p, Members(p))
    /\ deletion[p].commands = Cardinality(Members(p)) + 1
    /\ \A c \in Members(p) : conv[c].status = "deleted"

ScopeInv ==
    /\ \A s \in Scope : CommandWritten(s) => project[s.project] = "deleted"
    /\ \A p \in Projects : project[p] = "deleted" => Frozen(p)
    /\ \A s \in Scope : release[s].cause # "integrity"
    /\ \A s \in accepted : CommandWritten(s)

LEMMA ScopesInitially == Init => ScopeInv
<1> SUFFICES ASSUME Init PROVE ScopeInv
  OBVIOUS
<1>1. /\ project = [p \in Projects |-> "live"] /\ accepted = {}
      /\ release = [s \in Scope |-> NoCommand]
  BY DEF Init
<1> QED BY <1>1 DEF ScopeInv, CommandWritten, NoCommand

\* A frozen deletion is intact, whatever the states of its commands.
LEMMA FrozenIntact ==
    ASSUME NEW p \in Projects, Frozen(p), NEW table,
           \A s \in Scope : s.project = p => (table[s].state # "none" <=> release[s].state # "none")
    PROVE  Intact(p, table)
<1>1. Written(p, table) = Written(p, release)
  BY DEF Written
<1>2. Members(p) \in SUBSET Convs
  BY DEF Members
<1> QED BY <1>1, <1>2, CommandsCount DEF Frozen, Intact

LEMMA SettledState ==
    ASSUME NEW command \in Command, NEW answer
    PROVE  /\ SettledCommand(command, answer).state \in {"pending", "released", "blocked"}
           /\ SettledCommand(command, answer).cause # "integrity"
           /\ SettledCommand(command, answer).state = "released" <=> answer = "released"
<1> DEFINE state == CASE answer = "released" -> "released"
                      [] answer = "retry" -> "pending"
                      [] OTHER -> "blocked"
           cause == IF answer \in {"credentials", "terminal"} THEN answer ELSE "none"
<1>1. state \in {"pending", "released", "blocked"} /\ (state = "released" <=> answer = "released")
  OBVIOUS
<1>2. cause # "integrity"
  OBVIOUS
<1>3. SettledCommand(command, answer) =
        [command EXCEPT !.state = state, !.cause = cause, !.owner = None, !.due = FALSE]
  BY DEF SettledCommand
<1> HIDE DEF state, cause
<1>4. /\ [command EXCEPT !.state = state, !.cause = cause, !.owner = None, !.due = FALSE].state = state
      /\ [command EXCEPT !.state = state, !.cause = cause, !.owner = None, !.due = FALSE].cause = cause
  BY DEF Command
<1> QED BY <1>1, <1>2, <1>3, <1>4

\* The integrity branch of a settlement is never taken.
LEMMA SettleEffect ==
    ASSUME TypeOK, ScopeInv, NEW t \in tickets, Settle(t)
    PROVE  LET settled == [release EXCEPT ![t.scope] = SettledCommand(release[t.scope], t.answer)]
           IN /\ release' = settled /\ settled \in [Scope -> Command]
              /\ t.scope \in Scope /\ t.scope.project \in Projects
              /\ release[t.scope].state = "leased"
              /\ \A s \in Scope : settled[s].state # "none" <=> release[s].state # "none"
              /\ deletion' = [deletion EXCEPT ![t.scope.project].state =
                                StateOf(t.scope.project, settled)]
<1> DEFINE p == t.scope.project
           settled == [release EXCEPT ![t.scope] = SettledCommand(release[t.scope], t.answer)]
<1>1. t.scope \in Scope /\ p \in Projects /\ release[t.scope] \in Command
  BY DEF TypeOK, Ticket, Scope
<1>2. release[t.scope].state = "leased"
  BY DEF Settle, Held
<1>3. settled \in [Scope -> Command]
  BY <1>1, SettledTypes DEF TypeOK
<1>4. \A s \in Scope : settled[s] = IF s = t.scope THEN SettledCommand(release[t.scope], t.answer)
                                                   ELSE release[s]
  BY <1>1 DEF TypeOK
<1>5. \A s \in Scope : settled[s].state # "none" <=> release[s].state # "none"
  BY <1>1, <1>2, <1>4, SettledState
<1>6. project[p] = "deleted" /\ Frozen(p)
  BY <1>1, <1>2 DEF ScopeInv, CommandWritten
<1> HIDE DEF settled
<1>7. Intact(p, settled)
  BY <1>1, <1>5, <1>6, FrozenIntact
<1>8. release' = settled /\ deletion' = [deletion EXCEPT ![p].state = StateOf(p, settled)]
  BY <1>7 DEF Settle, settled
<1> QED BY <1>1, <1>2, <1>3, <1>5, <1>8 DEF settled

\* Dispatchers, Storage and the clock leave the set of commands as it is.
LEMMA ReleaseEffect ==
    ASSUME TypeOK, ScopeInv, Releases
    PROVE  /\ \A s \in Scope : /\ release'[s].state # "none" <=> release[s].state # "none"
                               /\ release'[s].cause # "integrity"
           /\ \A p \in Projects : deletion'[p].commands = deletion[p].commands
           /\ \A s \in accepted' : CommandWritten(s)
<1>a. /\ \A s \in Scope : release[s] \in Command /\ release[s].cause # "integrity"
      /\ \A t \in tickets : t \in Ticket /\ t.scope \in Scope
      /\ \A s \in accepted : CommandWritten(s)
  BY DEF TypeOK, Ticket, ScopeInv
<1>1. ASSUME NEW w \in Workers, Claim(w)
      PROVE  \A s \in Scope : /\ release'[s].state # "none" <=> release[s].state # "none"
                              /\ release'[s].cause # "integrity"
  <2>1. PICK taken \in SUBSET {s \in Scope : Claimable(s)} :
         release' = [s \in Scope |-> IF s \in taken
                          THEN [state |-> "leased", due |-> FALSE, fence |-> release[s].fence + 1,
                                owner |-> w, cause |-> "none"]
                          ELSE release[s]]
    BY <1>1 DEF Claim
  <2>2. \A s \in taken : release[s].state # "none"
    BY DEF Claimable, Recoverable
  <2> QED BY <1>a, <2>1, <2>2
<1>2. ASSUME NEW t \in tickets, Carry(t)
      PROVE  /\ \A s \in Scope : /\ release'[s].state # "none" <=> release[s].state # "none"
                                 /\ release'[s].cause # "integrity"
             /\ \A p \in Projects : deletion'[p].commands = deletion[p].commands
             /\ \A s \in accepted' : CommandWritten(s)
  <2>1. CASE Accept(t) \/ Refuse(t)
    <3>1. CommandWritten(t.scope)
      BY <2>1 DEF Accept, Refuse, Held, CommandWritten
    <3>2. UNCHANGED <<release, deletion>> /\ accepted' \subseteq accepted \cup {t.scope}
      BY <2>1 DEF Accept, Refuse
    <3> QED BY <1>a, <3>1, <3>2
  <2>2. CASE GiveUp(t) \/ Skip(t)
    BY <1>a, <2>2 DEF GiveUp, Skip
  <2>3. CASE Settle(t)
    <3> DEFINE settled == [release EXCEPT ![t.scope] = SettledCommand(release[t.scope], t.answer)]
    <3>1. /\ release' = settled /\ t.scope \in Scope /\ t.scope.project \in Projects
          /\ \A s \in Scope : settled[s].state # "none" <=> release[s].state # "none"
          /\ deletion' = [deletion EXCEPT ![t.scope.project].state =
                            StateOf(t.scope.project, settled)]
      BY <2>3, SettleEffect
    <3>2. \A s \in Scope : settled[s].cause # "integrity"
      BY <1>a, <3>1, SettledState DEF TypeOK
    <3> HIDE DEF settled
    <3>3. \A p \in Projects : deletion'[p].commands = deletion[p].commands
      BY <3>1 DEF TypeOK, Deletion
    <3>4. accepted' = accepted
      BY <2>3 DEF Settle
    <3> QED BY <1>a, <3>1, <3>2, <3>3, <3>4
  <2> QED BY <1>2, <2>1, <2>2, <2>3 DEF Carry
<1>3. ASSUME NEW s \in Scope, Elapse(s)
      PROVE  \A q \in Scope : /\ release'[q].state = release[q].state
                              /\ release'[q].cause = release[q].cause
  <2>1. release' = [release EXCEPT ![s].due = TRUE]
    BY <1>3 DEF Elapse
  <2>2. \A d \in Command : LET e == [d EXCEPT !.due = TRUE] IN e.state = d.state /\ e.cause = d.cause
    BY DEF Command
  <2> QED BY <1>a, <2>1, <2>2 DEF TypeOK
<1>4. ASSUME NEW w \in Workers, Claim(w) PROVE UNCHANGED <<deletion, accepted>>
  BY <1>4 DEF Claim
<1>5. ASSUME NEW s \in Scope, Elapse(s) PROVE UNCHANGED <<deletion, accepted>>
  BY <1>5 DEF Elapse
<1> QED BY <1>a, <1>1, <1>2, <1>3, <1>4, <1>5 DEF Releases

\* A deleted project keeps its members, and they stay deleted.
LEMMA WritesKeepMembers ==
    ASSUME Locked, ScopeInv, NEW r \in Requests, Writes(r), NEW p \in Projects,
           project[p] = "deleted"
    PROVE  Members(p)' = Members(p) /\ \A c \in Members(p) : conv'[c].status = "deleted"
<1>1. ConvKept(r)
  BY WriteEffect DEF Locked
<1>2. p \notin txn[r].held \cup {None}
  BY NoneAssumption DEF Locked, LockInv, HeldLive
<1>3. \A c \in Convs : conv'[c].ref = p <=> conv[c].ref = p
  BY <1>1, <1>2 DEF ConvKept
<1>4. Members(p)' = Members(p)
  BY <1>3 DEF Members
<1>5. \A c \in Members(p) : conv'[c].status = "deleted"
  BY <1>1 DEF ScopeInv, Frozen, ConvKept, Members
<1> QED BY <1>4, <1>5

LEMMA DeletionEffect ==
    ASSUME Locked, NEW r \in Requests, CommitDeletion(r), NEW p, p = txn[r].target
    PROVE  /\ p \in Projects /\ project[p] = "live" /\ txn[r].members = Members(p)
           /\ project' = [project EXCEPT ![p] = "deleted"]
           /\ Members(p)' = Members(p) /\ \A c \in Members(p) : conv'[c].status = "deleted"
           /\ deletion' = [deletion EXCEPT ![p] =
                             [commands |-> Cardinality(Members(p)) + 1, state |-> "pending"]]
           /\ release' = [s \in Scope |-> IF s \in Commands(p, Members(p))
                                            THEN NewCommand ELSE release[s]]
           /\ Commands(p, Members(p)) \subseteq Scope
           /\ UNCHANGED <<tickets, accepted>>
<1>1. p \in Projects /\ p \in txn[r].held /\ txn[r].members = Members(p)
  BY DEF Locked, LockInv, NamedInv, Covering, CommitDeletion, Named, Busy
<1>2. project[p] = "live"
  BY <1>1 DEF Locked, LockInv, HeldLive
<1>3. conv' = Deleted(Members(p))
  BY <1>1 DEF CommitDeletion
<1>4. \A d \in Conv : LET e == [d EXCEPT !.status = "deleted"]
                      IN e.ref = d.ref /\ e.status = "deleted"
  BY DEF Conv
<1>5. /\ \A c \in Convs : conv'[c].ref = conv[c].ref
      /\ \A c \in Members(p) : conv'[c].status = "deleted"
  BY <1>3, <1>4 DEF Deleted, Locked, TypeOK, Members
<1>6. Members(p)' = Members(p)
  BY <1>5 DEF Members
<1>7. Commands(p, Members(p)) \subseteq Scope
  BY <1>1 DEF Commands, Members, Scope
<1> QED BY <1>1, <1>2, <1>5, <1>6, <1>7 DEF CommitDeletion

LEMMA ScopesInductive == Locked /\ ScopeInv /\ [Next]_vars => ScopeInv'
<1> SUFFICES ASSUME Locked, ScopeInv, [Next]_vars PROVE ScopeInv'
  OBVIOUS
<1>a. TypeOK
  BY DEF Locked
<1>1. ASSUME NEW r \in Requests, CommitDeletion(r) PROVE ScopeInv'
  <2> PICK p : p = txn[r].target
    OBVIOUS
  <2>1. /\ p \in Projects /\ project[p] = "live"
        /\ project' = [project EXCEPT ![p] = "deleted"]
        /\ Members(p)' = Members(p) /\ \A c \in Members(p) : conv'[c].status = "deleted"
        /\ deletion' = [deletion EXCEPT ![p] =
                          [commands |-> Cardinality(Members(p)) + 1, state |-> "pending"]]
        /\ release' = [s \in Scope |-> IF s \in Commands(p, Members(p))
                                         THEN NewCommand ELSE release[s]]
        /\ Commands(p, Members(p)) \subseteq Scope
        /\ accepted' = accepted
    BY <1>1, DeletionEffect
  <2>2. NewCommand.state = "pending" /\ NewCommand.cause = "none"
    BY DEF NewCommand, NoCommand
  <2>3. \A s \in Commands(p, Members(p)) : s.project = p
    BY DEF Commands
  <2>4. \A s \in Scope : s.project = p => release[s].state = "none"
    BY <2>1 DEF ScopeInv, CommandWritten
  <2>5. \A s \in Scope : CommandWritten(s)' => project'[s.project] = "deleted"
    BY <1>a, <2>1, <2>2, <2>3 DEF ScopeInv, CommandWritten, TypeOK, Scope
  <2>6. \A s \in Scope : release'[s].cause # "integrity"
    BY <2>1, <2>2 DEF ScopeInv
  <2>7. \A s \in accepted' : CommandWritten(s)'
    BY <1>a, <2>1, <2>2 DEF ScopeInv, CommandWritten, TypeOK
  <2>8. Frozen(p)'
    <3>1. Written(p, release)' = Commands(p, Members(p))
      BY <2>1, <2>2, <2>3, <2>4 DEF Written
    <3>2. Commands(p, Members(p))' = Commands(p, Members(p))
      BY <2>1 DEF Commands
    <3>3. deletion'[p].commands = Cardinality(Members(p)) + 1
      BY <1>a, <2>1 DEF TypeOK
    <3> QED BY <2>1, <3>1, <3>2, <3>3 DEF Frozen
  <2>9. ASSUME NEW q \in Projects \ {p}, project'[q] = "deleted" PROVE Frozen(q)'
    <3>1. project[q] = "deleted" /\ deletion'[q] = deletion[q]
      BY <1>a, <2>1, <2>9 DEF TypeOK
    <3>2. Members(q)' = Members(q) /\ \A c \in Members(q) : conv'[c].status = "deleted"
      BY <1>1, <3>1, WritesKeepMembers DEF Writes
    <3>3. Written(q, release)' = Written(q, release)
      BY <2>1, <2>3, <2>9 DEF Written
    <3>4. Commands(q, Members(q))' = Commands(q, Members(q))
      BY <3>2 DEF Commands
    <3>5. Frozen(q)
      BY <3>1 DEF ScopeInv
    <3> QED BY <3>1, <3>2, <3>3, <3>4, <3>5 DEF Frozen
  <2> QED BY <2>1, <2>5, <2>6, <2>7, <2>8, <2>9 DEF ScopeInv
<1>2. ASSUME UNCHANGED <<project, deletion, release, accepted>>,
             \A p \in Projects : project[p] = "deleted" =>
                /\ Members(p)' = Members(p)
                /\ \A c \in Members(p) : conv'[c].status = "deleted"
      PROVE  ScopeInv'
  <2>1. ASSUME NEW p \in Projects, project[p] = "deleted" PROVE Frozen(p)'
    BY <1>2, <2>1 DEF ScopeInv, Frozen, Written, Commands
  <2> QED BY <1>2, <2>1 DEF ScopeInv, CommandWritten
<1>3. ASSUME NEW r \in Requests, Request(r), ~CommitDeletion(r) PROVE ScopeInv'
  <2>1. Writes(r) \/ UNCHANGED <<rows, outbox, faults>>
    BY <1>3, RequestEffect DEF Locked
  <2>2. CASE Writes(r)
    <3>1. UNCHANGED <<project, deletion, release, accepted>>
      BY <1>3, <2>2 DEF Writes, CommitTurn, CommitMove, CommitArchive, CommitCreateTask,
                        CommitUpdateTask, DeleteConversation, outbox
    <3> QED BY <1>2, <2>2, <3>1, WritesKeepMembers
  <2>3. CASE UNCHANGED <<rows, outbox, faults>>
    <3>1. UNCHANGED <<project, deletion, release, accepted, conv>>
      BY <2>3 DEF rows, outbox
    <3> QED BY <1>2, <3>1 DEF ScopeInv, Frozen, Members
  <2> QED BY <2>1, <2>2, <2>3
<1>4. CASE Releases
  <2>1. /\ \A s \in Scope : /\ release'[s].state # "none" <=> release[s].state # "none"
                            /\ release'[s].cause # "integrity"
        /\ \A p \in Projects : deletion'[p].commands = deletion[p].commands
        /\ \A s \in accepted' : CommandWritten(s)
        /\ accepted' \subseteq Scope
        /\ project' = project /\ conv' = conv
    BY <1>a, <1>4, ReleaseEffect, ReleaseTypes DEF rows
  <2>2. ASSUME NEW p \in Projects, project[p] = "deleted" PROVE Frozen(p)'
    <3>1. Written(p, release)' = Written(p, release) /\ Members(p)' = Members(p)
      BY <2>1 DEF Written, Members
    <3> QED BY <2>1, <2>2, <3>1 DEF ScopeInv, Frozen, Commands
  <2> QED BY <2>1, <2>2 DEF ScopeInv, CommandWritten
<1>5. CASE UNCHANGED vars
  BY <1>5 DEF vars, ScopeInv, Frozen, Members, Written, Commands, CommandWritten
<1> QED BY <1>1, <1>3, <1>4, <1>5, NextSplits

LEMMA ScopesInv == Spec => [](Locked /\ ScopeInv)
BY LockedInv, LockedInductive, ScopesInitially, ScopesInductive, PTL DEF Spec

\* MembersFrozen: the commands of a deletion are, and stay, those of its members
\* and one for the project; the check of a settlement never fails.
THEOREM DeletionFreezes == Spec => []MembersFrozen
<1>1. ScopeInv => MembersFrozen
  <2> SUFFICES ASSUME ScopeInv, NEW p \in Projects, project[p] = "deleted"
               PROVE  /\ Intact(p, release)
                      /\ \A c \in Members(p) : conv[c].status = "deleted"
                      /\ \A s \in Scope : release[s].cause # "integrity"
    BY DEF MembersFrozen
  <2>1. Frozen(p)
    BY DEF ScopeInv
  <2>2. Intact(p, release)
    BY <2>1, FrozenIntact
  <2> QED BY <2>1, <2>2 DEF ScopeInv, Frozen
<1> QED BY <1>1, ScopesInv, PTL

\* DeletedAtRest: a deleted project keeps its members, their deletion and its
\* commands, and has no active task.
THEOREM DeletionIsFinal == Spec => []DeletedAtRest
<1>1. MembersFrozen /\ TasksPaused => DeletedAtRest
  BY DEF DeletedAtRest
<1> QED BY <1>1, DeletionFreezes, DeletedProjectsRest, PTL

\* ReleasedAreGone: Storage releases only the scopes of what was deleted.
THEOREM OnlyTheDeletedReleased == Spec => []ReleasedAreGone
<1>1. Locked /\ ScopeInv => ReleasedAreGone
  <2> SUFFICES ASSUME Locked, ScopeInv, NEW s \in accepted
               PROVE  /\ project[s.project] = "deleted"
                      /\ s.conv # None => conv[s.conv].status = "deleted"
    BY DEF ReleasedAreGone
  <2>1. s \in Scope /\ s.project \in Projects
    BY DEF Locked, TypeOK, Scope
  <2>2. project[s.project] = "deleted" /\ Frozen(s.project)
    BY <2>1 DEF ScopeInv
  <2>3. s \in Commands(s.project, Members(s.project))
    BY <2>1, <2>2 DEF ScopeInv, CommandWritten, Frozen, Written
  <2>4. s.conv \in Members(s.project) \cup {None}
    BY <2>3 DEF Commands
  <2> QED BY <2>2, <2>4 DEF Frozen
<1> QED BY <1>1, ScopesInv, PTL

-----------------------------------------------------------------------------
(* What the owner is told                                                     *)

\* The stored state of a deletion is the one its commands make, or "blocked"
\* while a command that waited for credentials is tried again.
Stored(p) ==
    \/ deletion[p].state = StateOf(p, release)
    \/ deletion[p].state = "blocked" /\ StateOf(p, release) = "pending"

ReportInv ==
    /\ \A s \in Scope : release[s].state = "released" => s \in accepted
    /\ \A t \in tickets : t.answer = "released" => t.scope \in accepted
    /\ \A p \in Projects : project[p] = "deleted" => Stored(p)

LEMMA StateOfMeaning ==
    ASSUME NEW p, NEW table
    PROVE  /\ StateOf(p, table) \in {"blocked", "released", "pending"}
           /\ StateOf(p, table) = "blocked" <=> \E s \in Written(p, table) : table[s].state = "blocked"
           /\ StateOf(p, table) = "released" <=>
                \A s \in Written(p, table) : table[s].state = "released"
BY DEF StateOf

LEMMA StateOfSame ==
    ASSUME NEW p, NEW one, NEW other,
           \A s \in Scope : s.project = p => one[s].state = other[s].state
    PROVE  StateOf(p, one) = StateOf(p, other)
<1>1. Written(p, one) = Written(p, other)
  BY DEF Written
<1>2. \A s \in Written(p, one) : one[s].state = other[s].state
  BY DEF Written
<1> QED BY <1>1, <1>2 DEF StateOf

\* A claim never makes a deletion look released or blocked.
LEMMA ClaimKeepsReport ==
    ASSUME TypeOK, NEW w \in Workers, Claim(w), NEW p \in Projects, Stored(p)
    PROVE  Stored(p)'
<1>1. PICK taken \in SUBSET {s \in Scope : Claimable(s)} :
         release' = [s \in Scope |-> IF s \in taken
                          THEN [state |-> "leased", due |-> FALSE, fence |-> release[s].fence + 1,
                                owner |-> w, cause |-> "none"]
                          ELSE release[s]]
  BY DEF Claim
<1>2. deletion' = deletion
  BY DEF Claim
<1>3. \A s \in Scope : /\ s \in taken => release'[s].state = "leased"
                                         /\ release[s].state \in {"pending", "leased", "blocked"}
                       /\ s \notin taken => release'[s] = release[s]
  BY <1>1 DEF Claimable, Recoverable
<1>4. CASE \A s \in Scope : s.project = p => s \notin taken
  <2>1. StateOf(p, release') = StateOf(p, release)
    BY <1>3, <1>4, StateOfSame
  <2> QED BY <1>2, <2>1 DEF Stored, StateOf, Written
<1>5. CASE \E s \in Scope : s.project = p /\ s \in taken
  <2>1. PICK s \in Scope : s.project = p /\ s \in taken
    BY <1>5
  <2>2. s \in Written(p, release) /\ s \in Written(p, release')
    BY <1>3, <2>1 DEF Written
  <2>3. StateOf(p, release) # "released" /\ StateOf(p, release') # "released"
    BY <1>3, <2>1, <2>2, StateOfMeaning
  <2>4. ASSUME StateOf(p, release') = "blocked" PROVE StateOf(p, release) = "blocked"
    <3>1. PICK b \in Written(p, release') : release'[b].state = "blocked"
      BY <2>4, StateOfMeaning
    <3>2. b \in Scope /\ b.project = p /\ release[b].state = "blocked"
      BY <1>3, <3>1 DEF Written
    <3>3. b \in Written(p, release)
      BY <3>2 DEF Written
    <3> QED BY <3>2, <3>3, StateOfMeaning
  <2>5. /\ StateOf(p, release) \in {"blocked", "released", "pending"}
        /\ StateOf(p, release') \in {"blocked", "released", "pending"}
    BY StateOfMeaning
  <2>6. deletion'[p].state = StateOf(p, release')
          \/ (deletion'[p].state = "blocked" /\ StateOf(p, release') = "pending")
    BY <1>2, <2>3, <2>4, <2>5 DEF Stored
  <2> QED BY <2>6 DEF Stored, StateOf, Written
<1> QED BY <1>4, <1>5

LEMMA SettleKeepsReport ==
    ASSUME TypeOK, ScopeInv, ReportInv, NEW t \in tickets, Settle(t) PROVE ReportInv'
<1> DEFINE settled == [release EXCEPT ![t.scope] = SettledCommand(release[t.scope], t.answer)]
<1>1. /\ release' = settled /\ settled \in [Scope -> Command]
      /\ t.scope \in Scope /\ t.scope.project \in Projects
      /\ release[t.scope] \in Command
      /\ deletion' = [deletion EXCEPT ![t.scope.project].state = StateOf(t.scope.project, settled)]
  BY SettleEffect DEF TypeOK
<1>2. \A s \in Scope : settled[s] = IF s = t.scope THEN SettledCommand(release[t.scope], t.answer)
                                                   ELSE release[s]
  BY <1>1 DEF TypeOK
<1>3. settled[t.scope].state = "released" <=> t.answer = "released"
  BY <1>1, <1>2, SettledState
<1> HIDE DEF settled
<1>4. tickets' \subseteq tickets /\ accepted' = accepted /\ project' = project
  BY DEF Settle, rows
<1>5. \A s \in Scope : release'[s].state = "released" => s \in accepted'
  BY <1>1, <1>2, <1>3, <1>4 DEF ReportInv
<1>6. \A b \in tickets' : b.answer = "released" => b.scope \in accepted'
  BY <1>4 DEF ReportInv
<1>7. ASSUME NEW p \in Projects, project[p] = "deleted" PROVE Stored(p)'
  <2>1. CASE p = t.scope.project
    <3>1. deletion'[p].state = StateOf(p, release')
      BY <1>1, <2>1 DEF TypeOK, Deletion
    <3> QED BY <3>1 DEF Stored, StateOf, Written
  <2>2. CASE p # t.scope.project
    <3>1. StateOf(p, release') = StateOf(p, release)
      BY <1>1, <1>2, <2>2, StateOfSame
    <3>2. deletion'[p] = deletion[p]
      BY <1>1, <2>2 DEF TypeOK
    <3>3. deletion'[p].state = StateOf(p, release')
            \/ (deletion'[p].state = "blocked" /\ StateOf(p, release') = "pending")
      BY <1>7, <3>1, <3>2 DEF ReportInv, Stored
    <3> QED BY <3>3 DEF Stored, StateOf, Written
  <2> QED BY <2>1, <2>2
<1> QED BY <1>4, <1>5, <1>6, <1>7 DEF ReportInv

LEMMA DeletionKeepsReport ==
    ASSUME Locked, ScopeInv, ReportInv, NEW r \in Requests, CommitDeletion(r) PROVE ReportInv'
<1> PICK p : p = txn[r].target
  OBVIOUS
<1>1. /\ p \in Projects
      /\ project' = [project EXCEPT ![p] = "deleted"]
      /\ deletion' = [deletion EXCEPT ![p] =
                        [commands |-> Cardinality(Members(p)) + 1, state |-> "pending"]]
      /\ release' = [s \in Scope |-> IF s \in Commands(p, Members(p))
                                       THEN NewCommand ELSE release[s]]
      /\ Commands(p, Members(p)) \subseteq Scope
      /\ UNCHANGED <<tickets, accepted>>
  BY DeletionEffect
<1>2. NewCommand.state = "pending"
  BY DEF NewCommand, NoCommand
<1>3. \A s \in Commands(p, Members(p)) : s.project = p
  BY DEF Commands
<1>4. project \in [Projects -> {"live", "deleted"}] /\ deletion \in [Projects -> Deletion]
  BY DEF Locked, TypeOK
<1>5. ASSUME NEW q \in Projects \ {p}, project'[q] = "deleted" PROVE Stored(q)'
  <2>1. project[q] = "deleted" /\ deletion'[q] = deletion[q]
    BY <1>1, <1>4, <1>5
  <2>2. StateOf(q, release') = StateOf(q, release)
    BY <1>1, <1>3, <1>5, StateOfSame
  <2>3. deletion'[q].state = StateOf(q, release')
          \/ (deletion'[q].state = "blocked" /\ StateOf(q, release') = "pending")
    BY <2>1, <2>2 DEF ReportInv, Stored
  <2> QED BY <2>3 DEF Stored, StateOf, Written
<1>6. Stored(p)'
  <2>0. \A s \in Scope : s.project = p => release[s].state = "none"
    <3>1. project[p] = "live"
      BY DeletionEffect
    <3> QED BY <3>1 DEF ScopeInv, CommandWritten
  <2>1. \A s \in Written(p, release') : release'[s].state = "pending"
    BY <1>1, <1>2, <2>0 DEF Written
  <2>2. [project |-> p, conv |-> None] \in Written(p, release')
    <3>1. [project |-> p, conv |-> None] \in Commands(p, Members(p))
      BY DEF Commands
    <3> QED BY <1>1, <1>2, <3>1 DEF Written
  <2>3. StateOf(p, release') = "pending"
    BY <2>1, <2>2 DEF StateOf
  <2>4. deletion'[p].state = "pending"
    BY <1>1, <1>4
  <2> QED BY <2>3, <2>4 DEF Stored, StateOf, Written
<1> QED BY <1>1, <1>2, <1>5, <1>6 DEF ReportInv

LEMMA ReportInductive == Locked /\ ScopeInv /\ ReportInv /\ [Next]_vars => ReportInv'
<1> SUFFICES ASSUME Locked, ScopeInv, ReportInv, [Next]_vars PROVE ReportInv'
  OBVIOUS
<1>a. TypeOK /\ \A t \in tickets : t \in Ticket /\ t.scope \in Scope
  BY DEF Locked, TypeOK, Ticket
<1>1. ASSUME NEW r \in Requests, Request(r) PROVE ReportInv'
  <2>1. Writes(r) \/ UNCHANGED <<rows, outbox, faults>>
    BY <1>1, RequestEffect DEF Locked
  <2>2. CommitDeletion(r) \/ UNCHANGED <<project, outbox>>
    BY <2>1 DEF Writes, CommitTurn, CommitMove, CommitArchive, CommitCreateTask,
                CommitUpdateTask, DeleteConversation, rows
  <2>3. CASE UNCHANGED <<project, outbox>>
    BY <2>3 DEF outbox, ReportInv, Stored, StateOf, Written
  <2> QED BY <2>2, <2>3, DeletionKeepsReport
<1>2. ASSUME NEW w \in Workers, Claim(w) PROVE ReportInv'
  <2>1. PICK taken \in SUBSET {s \in Scope : Claimable(s)} :
         /\ release' = [s \in Scope |-> IF s \in taken
                          THEN [state |-> "leased", due |-> FALSE, fence |-> release[s].fence + 1,
                                owner |-> w, cause |-> "none"]
                          ELSE release[s]]
         /\ tickets' = tickets \cup {[worker |-> w, scope |-> s, fence |-> release[s].fence + 1,
                                      answer |-> "none"] : s \in taken}
    BY <1>2 DEF Claim
  <2>2. project' = project /\ accepted' = accepted
    BY <1>2 DEF Claim, rows
  <2> QED BY <1>a, <1>2, <2>1, <2>2, ClaimKeepsReport DEF ReportInv
<1>3. ASSUME NEW t \in tickets, NEW answer, Becomes(t, answer),
             UNCHANGED <<project, release, deletion>>, accepted \subseteq accepted',
             answer = "released" => t.scope \in accepted'
      PROVE  ReportInv'
  <2>1. /\ [t EXCEPT !.answer = answer].answer = answer
        /\ [t EXCEPT !.answer = answer].scope = t.scope
    BY <1>a DEF Ticket
  <2>2. \A b \in tickets' : b \in tickets \/ b = [t EXCEPT !.answer = answer]
    BY <1>3 DEF Becomes
  <2>3. \A b \in tickets' : b.answer = "released" => b.scope \in accepted'
    BY <1>3, <2>1, <2>2 DEF ReportInv
  <2> QED BY <1>3, <2>3 DEF ReportInv, Stored, StateOf, Written
<1>4. ASSUME NEW t \in tickets, Carry(t) PROVE ReportInv'
  <2>1. CASE Accept(t)
    BY <1>3, <2>1 DEF Accept, rows
  <2>2. CASE Refuse(t)
    BY <1>3, <2>2 DEF Refuse, rows
  <2>3. CASE GiveUp(t) \/ Skip(t)
    BY <2>3 DEF GiveUp, Skip, rows, ReportInv, Stored, StateOf, Written
  <2> QED BY <1>a, <1>4, <2>1, <2>2, <2>3, SettleKeepsReport DEF Carry
<1>5. ASSUME NEW s \in Scope, Elapse(s) PROVE ReportInv'
  <2>1. /\ release' = [release EXCEPT ![s].due = TRUE]
        /\ UNCHANGED <<project, deletion, tickets, accepted>>
    BY <1>5 DEF Elapse, rows
  <2>2. \A d \in Command : [d EXCEPT !.due = TRUE].state = d.state
    BY DEF Command
  <2>3. \A q \in Scope : release'[q].state = release[q].state
    BY <1>a, <2>1, <2>2 DEF TypeOK
  <2>4. \A p \in Projects : StateOf(p, release') = StateOf(p, release)
    BY <2>3, StateOfSame
  <2>5. ASSUME NEW p \in Projects, Stored(p) PROVE Stored(p)'
    <3>1. deletion'[p].state = StateOf(p, release')
            \/ (deletion'[p].state = "blocked" /\ StateOf(p, release') = "pending")
      BY <2>1, <2>4, <2>5 DEF Stored
    <3> QED BY <3>1 DEF Stored, StateOf, Written
  <2> QED BY <2>1, <2>3, <2>5 DEF ReportInv
<1>6. CASE UNCHANGED vars
  BY <1>6 DEF vars, ReportInv, Stored, StateOf, Written
<1> QED BY <1>1, <1>2, <1>4, <1>5, <1>6, NextSplits DEF Releases

\* HonestReport: the owner is told "released" only when Storage has accepted every
\* scope, and the stored state agrees with the commands.
THEOREM ReportsAreHonest == Spec => []HonestReport
<1>1. Init => ReportInv
  BY DEF Init, ReportInv, NoCommand
<1>2. ReportInv => HonestReport
  <2> SUFFICES ASSUME ReportInv, NEW p \in Projects, project[p] = "deleted"
               PROVE  /\ Reported(p) = "released" => Written(p, release) \subseteq accepted
                      /\ deletion[p].state = Reported(p)
                           \/ (deletion[p].state = "blocked" /\ Reported(p) = "pending")
    BY DEF HonestReport
  <2>1. StateOf(p, release) = "released" => \A s \in Written(p, release) : release[s].state = "released"
    BY StateOfMeaning
  <2> QED BY <2>1 DEF ReportInv, Stored, Reported, Written
<1> QED BY <1>1, <1>2, ReportInductive, ScopesInv, PTL DEF Spec

\* DeletionSound: a deletion does what its owner is told of it, and nothing undoes
\* it.
THEOREM DeletionsAreSound == Spec => []DeletionSound
<1>1. DeletedAtRest /\ HonestReport => DeletionSound
  BY DEF DeletionSound
<1> QED BY <1>1, DeletionIsFinal, ReportsAreHonest, PTL

-----------------------------------------------------------------------------
(* Waiting                                                                    *)

\* A finite set of numbers has a greatest one.
LEMMA Greatest ==
    ASSUME NEW set \in SUBSET Nat, IsFiniteSet(set), set # {}
    PROVE  \E m \in set : \A n \in set : n <= m
<1> DEFINE Above(n) == {k \in set : k >= n}
           tops == {Above(n) : n \in set}
<1>1. tops \subseteq SUBSET set /\ tops # {}
  OBVIOUS
<1>2. IsWellFoundedOn(StrictSubsetOrdering(set), SUBSET set)
  BY FS_StrictSubsetOrderingWellFounded, FS_FiniteSubsetsOfFinite
<1> HIDE DEF tops
<1>3. PICK top \in tops : \A other \in tops : ~(<<other, top>> \in StrictSubsetOrdering(set))
  BY <1>1, <1>2, WFMin
<1>4. PICK m \in set : top = Above(m)
  BY <1>3 DEF tops
<1>5. ASSUME NEW n \in set, ~(n <= m) PROVE FALSE
  <2>1. n \in Nat /\ m \in Nat /\ n > m
    BY <1>5
  <2>2. Above(n) \subseteq Above(m) /\ m \in Above(m) /\ m \notin Above(n)
    <3>1. \A k \in set : k \in Nat
      OBVIOUS
    <3>2. \A k \in set : k >= n => k >= m
      BY <2>1, <3>1
    <3>3. m >= m /\ ~(m >= n)
      BY <2>1
    <3> QED BY <3>2, <3>3
  <2>3. Above(n) \in tops /\ Above(n) \in SUBSET set /\ Above(m) \in SUBSET set
    BY DEF tops
  <2> HIDE DEF Above
  <2>4. Above(n) # Above(m)
    BY <2>2
  <2>5. <<Above(n), Above(m)>> \in StrictSubsetOrdering(set)
    BY <2>2, <2>3, <2>4 DEF StrictSubsetOrdering
  <2> QED BY <1>3, <1>4, <2>3, <2>5
<1> QED BY <1>5

\* Projects are locked in the order of their ids, and conversations only by a
\* deletion that has its project and their list.
Ordered(r) ==
    /\ txn[r].pc = "locking" => \A a \in txn[r].held, b \in txn[r].need : a < b
    /\ txn[r].pc # "members" => txn[r].locked = {}
    /\ txn[r].locked \subseteq txn[r].members
OrderInv == \A r \in Requests : Ordered(r)

LEMMA OrderInitially == Init => OrderInv
BY DEF Init, OrderInv, Ordered, NoTxn

LEMMA OrderInductive == Locked /\ OrderInv /\ [Next]_vars => OrderInv'
<1> SUFFICES ASSUME Locked, OrderInv, [Next]_vars PROVE OrderInv'
  OBVIOUS
<1>a. TypeOK /\ NamedInv
  BY DEF Locked
<1>1. ASSUME NEW r \in Requests, Request(r) PROVE OrderInv'
  <2>1. /\ OthersRest(r)
        /\ \/ End(r) \/ Ends(r) \/ Starts(r)
           \/ txn[r].pc = "locking" /\ Locking(r)
           \/ LockMember(r)
    BY <1>a, <1>1, RequestEffect
  <2>2. /\ Ordered(r) /\ txn[r] \in Txn
        /\ \A q \in Requests \ {r} : Ordered(q)'
    BY <1>a, <2>1, TxnTypes DEF OrderInv, Ordered, OthersRest
  <2>3. CASE End(r) \/ Ends(r)
    <3>1. /\ txn'[r].pc \in {"done", "again"} /\ txn'[r].locked = {}
      BY <1>a, <2>3, EndTypes DEF Ends, NoTxn
    <3> QED BY <2>2, <3>1 DEF OrderInv, Ordered
  <2>4. CASE Starts(r)
    <3>1. txn'[r].held = {} /\ txn'[r].locked = {}
      BY <2>4 DEF Starts, Started
    <3> QED BY <2>2, <3>1 DEF OrderInv, Ordered
  <2>5. CASE txn[r].pc = "locking" /\ Locking(r)
    <3>1. PICK p \in NextProject(r) : Passes(r, p) \/ Takes(r, p)
      BY <2>5 DEF Locking
    <3>2. /\ txn'[r].need = txn[r].need \ {p} /\ txn'[r].held \subseteq txn[r].held \cup {p}
          /\ txn'[r].locked = {}
      BY <2>2, <2>5, <3>1 DEF Ordered, Passes, Takes
    <3>3. /\ p \in txn[r].need /\ \A b \in txn[r].need : p <= b
          /\ txn[r].need \subseteq Nat
      BY <2>2, NumbersAssumption DEF NextProject, Txn
    <3>4. \A a \in txn'[r].held, b \in txn'[r].need : a < b
      BY <2>2, <2>5, <3>2, <3>3 DEF Ordered
    <3> QED BY <2>2, <3>2, <3>4 DEF OrderInv, Ordered
  <2>6. CASE LockMember(r)
    <3>1. /\ txn'[r].pc = txn[r].pc /\ txn'[r].need = txn[r].need
          /\ txn'[r].held = txn[r].held /\ txn'[r].members = txn[r].members
          /\ \E c \in txn[r].members \ txn[r].locked : txn'[r].locked = txn[r].locked \cup {c}
      BY <1>a, <2>6, LockMemberEffect
    <3>2. txn[r].pc = "members"
      BY <2>6 DEF LockMember
    <3> QED BY <2>2, <3>1, <3>2 DEF OrderInv, Ordered
  <2> QED BY <2>1, <2>3, <2>4, <2>5, <2>6
<1>2. Releases \/ UNCHANGED vars => txn' = txn
  BY <1>a, ReleaseTypes DEF vars
<1>3. CASE txn' = txn
  BY <1>3 DEF OrderInv, Ordered
<1> QED BY <1>1, <1>2, <1>3, NextSplits

\* Two deletions never want the same conversation: it is a member of a project
\* that one of them holds alone.
LEMMA MembersApart ==
    ASSUME Locked, OrderInv, NEW r \in Requests, NEW q \in Requests \ {r},
           txn[r].pc = "members", NEW c \in txn[r].members
    PROVE  c \notin txn[q].locked
<1> SUFFICES ASSUME c \in txn[q].locked PROVE FALSE
  OBVIOUS
<1>1. txn[q].pc = "members" /\ c \in txn[q].members
  BY DEF OrderInv, Ordered
<1>2. /\ txn[r].kind = "deleteProject" /\ txn[r].target \in txn[r].held
      /\ txn[q].target \in txn[q].held
      /\ c \in Members(txn[r].target) /\ c \in Members(txn[q].target)
  BY <1>1 DEF Locked, LockInv, NamedInv, Covering, Named, Busy
<1>3. txn[r].target = txn[q].target
  BY <1>2 DEF Members
<1>4. Shared(r)
  BY <1>2, <1>3 DEF Locked, LockInv, Exclusive
<1> QED BY <1>2, <1>4 DEF Shared

LEMMA NoneWaitsInACircle ==
    ASSUME Locked, OrderInv, NEW set \in SUBSET Requests, set # {}
    PROVE  \E r \in set : \A q \in set \ {r} : ~Waits(r, q)
<1>1. ASSUME NEW r \in set, txn[r].pc = "members" PROVE \A q \in set \ {r} : ~Waits(r, q)
  BY <1>1, MembersApart DEF Waits
<1>2. CASE \A r \in set : txn[r].pc # "members"
  <2>1. \A q \in set : txn[q].locked = {}
    BY <1>2 DEF OrderInv, Ordered
  <2>2. \A r \in set, q \in set : Waits(r, q) =>
           txn[r].pc = "locking" /\ \E p \in NextProject(r) : p \in txn[q].held
    BY <1>2, <2>1 DEF Waits
  <2>3. CASE \E r \in set : NextProject(r) = {} \/ txn[r].pc # "locking"
    BY <2>2, <2>3
  <2>4. CASE \A r \in set : NextProject(r) # {} /\ txn[r].pc = "locking"
    <3> DEFINE wanted == UNION {NextProject(r) : r \in set}
    <3>1. \A r \in set : txn[r].need \subseteq Projects
      BY TxnTypes DEF Locked, Txn
    <3>2. wanted \subseteq Projects
      BY <3>1 DEF NextProject
    <3>3. IsFiniteSet(wanted) /\ wanted \in SUBSET Nat /\ wanted # {}
      <4>1. wanted # {}
        BY <2>4
      <4> HIDE DEF wanted
      <4> QED BY <3>2, <4>1, FiniteAssumption, NumbersAssumption, FS_Subset
    <3>4. PICK p \in wanted : \A b \in wanted : b <= p
      BY <3>3, Greatest
    <3>5. PICK r \in set : p \in NextProject(r)
      BY <3>4
    <3>6. ASSUME NEW q \in set \ {r}, Waits(r, q) PROVE FALSE
      <4>1. PICK a \in NextProject(r) : a \in txn[q].held
        BY <2>2, <3>6
      <4>2. PICK b \in NextProject(q) : TRUE
        BY <2>4
      <4>3. a \in Nat /\ b \in Nat /\ p \in Nat
        BY <3>3, <4>1, <4>2, <3>4
      <4>4. a = p
        BY <3>1, <3>5, <4>1, <4>3 DEF NextProject
      <4>5. a < b
        BY <2>4, <4>1, <4>2 DEF OrderInv, Ordered, NextProject
      <4>6. b <= p
        BY <3>4, <4>2
      <4> QED BY <4>3, <4>4, <4>5, <4>6
    <3> QED BY <3>6
  <2> QED BY <2>3, <2>4
<1> QED BY <1>1, <1>2

\* NoWaitCycle: requests never wait for one another in a circle.
THEOREM WaitsEnd == Spec => []NoWaitCycle
<1>1. Locked /\ OrderInv => NoWaitCycle
  BY NoneWaitsInACircle DEF NoWaitCycle
<1> QED BY <1>1, OrderInitially, OrderInductive, LockedInv, PTL DEF Spec
=============================================================================
