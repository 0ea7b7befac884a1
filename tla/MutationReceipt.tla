--------------------------- MODULE MutationReceipt ---------------------------
(***************************************************************************)
(* The receipt that makes a mutation of kokoro-bff idempotent: one row of  *)
(* bff_idempotency_receipt, the scope being tenant, user, method, path and *)
(* Idempotency-Key.                                                        *)
(*                                                                         *)
(* A request claims the row, runs its handler, and stores the answer or    *)
(* releases the claim.  Each of these is a statement of its own, and a     *)
(* claim carries no token: the row knows the fingerprint of the request    *)
(* that made it and its age, and a pending row of more than sixty seconds  *)
(* is anybody's.                                                           *)
(*                                                                         *)
(* A client is one connection that sends its request until it gets an      *)
(* answer it can keep.  A client that gave up on a request still running   *)
(* and sent it again is two of them with the same fingerprint.             *)
(***************************************************************************)
EXTENDS Naturals

CONSTANTS
    Clients,        \* connections that send requests with the same key
    Fingerprints,   \* what tells the payloads apart
    NoClient,       \* no execution: the body '{}' of a pending row
    NoFingerprint,  \* no row
    MaxFaults       \* BOUND: failures of any kind in a behaviour

ASSUME ConstantsAssumption ==
    /\ NoClient \notin Clients
    /\ NoFingerprint \notin Fingerprints
    /\ MaxFaults \in Nat

VARIABLES
    row,       \* the receipt of the scope
    claimant,  \* whose claim the pending row is (history: no column says it)
    client,    \* the requests
    overrun,   \* has a handler outlived its claim? (history)
    faults     \* faults spent so far

vars == <<row, claimant, client, overrun, faults>>

-----------------------------------------------------------------------------
(* Types *)

\* `body` is the execution whose answer is stored; `expired` says that
\* created_at lies more than sixty seconds back.
Receipt == [status: {"absent", "pending", "final"},
            fingerprint: Fingerprints \cup {NoFingerprint},
            body: Clients \cup {NoClient},
            expired: BOOLEAN]

NoReceipt == [status |-> "absent", fingerprint |-> NoFingerprint,
              body |-> NoClient, expired |-> FALSE]

\* `pc`: not sent; refused by the claim and about to look why; in the handler;
\* about to store its answer, or to give the claim back; answered.
Request == [pc: {"idle", "refused", "handling", "storing", "releasing", "done"},
            fingerprint: Fingerprints \cup {NoFingerprint},
            answer: {"none", "executed", "replayed", "conflict", "in_progress", "error"},
            body: Clients \cup {NoClient}]

NotSent == [pc |-> "idle", fingerprint |-> NoFingerprint,
            answer |-> "none", body |-> NoClient]

TypeOK ==
    /\ row \in Receipt
    /\ claimant \in Clients \cup {NoClient}
    /\ client \in [Clients -> Request]
    /\ overrun \in BOOLEAN
    /\ faults \in 0..MaxFaults

Init ==
    /\ row = NoReceipt
    /\ claimant = NoClient
    /\ client = [c \in Clients |-> NotSent]
    /\ overrun = FALSE
    /\ faults = 0

Fault == faults < MaxFaults /\ faults' = faults + 1

-----------------------------------------------------------------------------
(* The statements of the repository *)

\* Faulty forms of the claim: no reclaim; any pending row is free.
ClaimableNeverAgain == row.status = "absent"
ClaimableAtOnce == row.status \in {"absent", "pending"}

\* ON CONFLICT ... WHERE status = pending AND created_at < now - 60 seconds
Claimable == row.status = "absent" \/ (row.status = "pending" /\ row.expired)

Pending(f) == [status |-> "pending", fingerprint |-> f,
               body |-> NoClient, expired |-> FALSE]

\* A faulty form: the fingerprint is not compared.
StorableByAnyone(f) == row.status \in {"absent", "pending"}

\* INSERT, or ON CONFLICT ... WHERE status = pending AND fingerprint matches.
Storable(f) ==
    \/ row.status = "absent"
    \/ row.status = "pending" /\ row.fingerprint = f

\* The update leaves the fingerprint alone.
Final(f, c) ==
    [status |-> "final",
     fingerprint |-> IF row.status = "absent" THEN f ELSE row.fingerprint,
     body |-> c,
     expired |-> FALSE]

\* DELETE ... WHERE fingerprint matches AND status = pending
Releasable(f) == row.status = "pending" /\ row.fingerprint = f

Released(f) == IF Releasable(f) THEN NoReceipt ELSE row

-----------------------------------------------------------------------------
(* Requests *)

Moves(c, pc) == client' = [client EXCEPT ![c].pc = pc]

Answers(c, answer, body) ==
    client' = [client EXCEPT ![c].pc = "done", ![c].answer = answer, ![c].body = body]

Sends(c, f, pc, answer) ==
    client' = [client EXCEPT ![c] = [pc |-> pc, fingerprint |-> f,
                                     answer |-> answer, body |-> NoClient]]

Claim(c, f) ==
    /\ client[c].pc = "idle"
    /\ client[c].fingerprint \in {f, NoFingerprint}
    /\ IF Claimable
       THEN /\ row' = Pending(f)
            /\ claimant' = c
            /\ Sends(c, f, "handling", "none")
       ELSE /\ Sends(c, f, "refused", "none")
            /\ UNCHANGED <<row, claimant>>
    /\ UNCHANGED <<overrun, faults>>

\* The INSERT throws: the row may be claimed, and nobody knows.
ClaimUnknown(c, f) ==
    /\ client[c].pc = "idle"
    /\ client[c].fingerprint \in {f, NoFingerprint}
    /\ Fault
    /\ UNCHANGED overrun
    /\ \/ /\ Claimable
          /\ row' = Pending(f)
          /\ claimant' = c
       \/ UNCHANGED <<row, claimant>>
    /\ Sends(c, f, "done", "error")

\* getReceipt is a query of its own: what it finds need not be what refused
\* the claim.
ReadReceipt(c) ==
    /\ client[c].pc = "refused"
    /\ \/ /\ row.status = "absent"
          /\ Answers(c, "in_progress", NoClient)
       \/ /\ row.status # "absent"
          /\ row.fingerprint # client[c].fingerprint
          /\ Answers(c, "conflict", NoClient)
       \/ /\ row.status = "pending"
          /\ row.fingerprint = client[c].fingerprint
          /\ Answers(c, "in_progress", NoClient)
       \/ /\ row.status = "final"
          /\ row.fingerprint = client[c].fingerprint
          /\ Answers(c, "replayed", row.body)
    /\ UNCHANGED <<row, claimant, overrun, faults>>

\* The handler has an answer below 500.
Handle(c) ==
    /\ client[c].pc = "handling"
    /\ Moves(c, "storing")
    /\ UNCHANGED <<row, claimant, overrun, faults>>

\* The handler's answer is 500 or more.
HandleFails(c) ==
    /\ client[c].pc = "handling"
    /\ Fault
    /\ UNCHANGED overrun
    /\ Moves(c, "releasing")
    /\ UNCHANGED <<row, claimant>>

\* The process dies, or the handler throws past its reply: nobody gives the
\* claim back.
Abandon(c) ==
    /\ client[c].pc \in {"handling", "storing", "releasing"}
    /\ Fault
    /\ UNCHANGED overrun
    /\ Answers(c, "error", NoClient)
    /\ UNCHANGED <<row, claimant>>

PutReceipt(c) ==
    LET f == client[c].fingerprint IN
    /\ client[c].pc = "storing"
    /\ IF Storable(f)
       THEN /\ row' = Final(f, c)
            /\ claimant' = NoClient
            /\ Answers(c, "executed", c)
       ELSE /\ Moves(c, "releasing")
            /\ UNCHANGED <<row, claimant>>
    /\ UNCHANGED <<overrun, faults>>

\* The statement throws; it may have been applied.
PutUnknown(c) ==
    LET f == client[c].fingerprint IN
    /\ client[c].pc = "storing"
    /\ Fault
    /\ UNCHANGED overrun
    /\ \/ /\ Storable(f)
          /\ row' = Final(f, c)
          /\ claimant' = NoClient
       \/ UNCHANGED <<row, claimant>>
    /\ Moves(c, "releasing")

\* Of a 5xx, and of an answer that could not be stored.
ReleaseReceipt(c) ==
    LET f == client[c].fingerprint IN
    /\ client[c].pc = "releasing"
    /\ row' = Released(f)
    /\ claimant' = IF Releasable(f) THEN NoClient ELSE claimant
    /\ Answers(c, "error", NoClient)
    /\ UNCHANGED <<overrun, faults>>

ReleaseFails(c) ==
    /\ client[c].pc = "releasing"
    /\ Fault
    /\ UNCHANGED overrun
    /\ Answers(c, "error", NoClient)
    /\ UNCHANGED <<row, claimant>>

\* The client sends the request again, same key and payload.
Retry(c) ==
    /\ client[c].pc = "done"
    /\ client[c].answer \in {"in_progress", "error"}
    /\ client' = [client EXCEPT ![c].pc = "idle", ![c].answer = "none"]
    /\ UNCHANGED <<row, claimant, overrun, faults>>

-----------------------------------------------------------------------------
(* Time *)

Holds(c) == client[c].pc \in {"handling", "storing", "releasing"}

\* Sixty seconds pass after the claim, whether or not its request is over.
ClaimExpires ==
    /\ row.status = "pending"
    /\ ~row.expired
    /\ row' = [row EXCEPT !.expired = TRUE]
    /\ overrun' = (overrun \/ \E c \in Clients : c = claimant /\ Holds(c))
    /\ UNCHANGED <<claimant, client, faults>>

-----------------------------------------------------------------------------
(* Specification *)

Step(c) ==
    \/ \E f \in Fingerprints : Claim(c, f)
    \/ ReadReceipt(c)
    \/ Handle(c)
    \/ PutReceipt(c)
    \/ ReleaseReceipt(c)
    \/ Retry(c)

Failure(c) ==
    \/ \E f \in Fingerprints : ClaimUnknown(c, f)
    \/ HandleFails(c)
    \/ Abandon(c)
    \/ PutUnknown(c)
    \/ ReleaseFails(c)

Next ==
    \/ \E c \in Clients : Step(c) \/ Failure(c)
    \/ ClaimExpires

Spec == Init /\ [][Next]_vars

\* A request in a live process runs on and its client retries; the database's
\* clock advances.  Nothing is fair about failures.
Fairness ==
    /\ \A c \in Clients : WF_vars(Step(c))
    /\ WF_vars(ClaimExpires)

FairSpec == Spec /\ Fairness

-----------------------------------------------------------------------------
(* Properties *)

\* Every answer a client may keep is the one in the receipt: whatever claims
\* expire, are taken over, released by the wrong request or lost, two clients
\* are never given answers of different executions, nor an answer to another
\* payload (putReceipt stores once and before reply sends; nothing touches a
\* final row).
OneAnswer ==
    \A c \in Clients : client[c].answer \in {"executed", "replayed"} =>
        /\ row.status = "final"
        /\ row.body = client[c].body
        /\ row.fingerprint = client[c].fingerprint
        /\ client[c].answer = "executed" => row.body = c

\* A request that may still change something or give the claim back holds the
\* claim, or its own answer is stored: while no handler has outlived its sixty
\* seconds no release removes and no answer overwrites another's claim,
\* although neither names its claim.
ClaimInv ==
    ~overrun => \A c \in Clients :
        /\ client[c].pc \in {"handling", "storing"} =>
              /\ row = Pending(client[c].fingerprint)
              /\ claimant = c
        /\ client[c].pc = "releasing" =>
              \/ /\ row = Pending(client[c].fingerprint)
                 /\ claimant = c
              \/ /\ row.status = "final"
                 /\ row.body = c
                 /\ row.fingerprint = client[c].fingerprint

InHandler(c) == client[c].pc \in {"handling", "storing"}

\* One execution at a time, and none once an answer is stored: while the
\* original request is processed, another with its key is told so and has no
\* second side effect (docs/api/v1/README.md:126-127).
NoParallelExecution ==
    \A c \in Clients : InHandler(c) =>
        /\ row.status # "final"
        /\ \A d \in Clients : InHandler(d) => d = c

\* The same promise as long as every handler ended within sixty seconds.
TimelyNoParallelExecution == ~overrun => NoParallelExecution

\* A stored answer is never changed, released or reclaimed.
AnswerIsForever == [][row.status = "final" => row' = row]_vars

\* A key is never locked for good by a crash or a lost statement: a client that
\* goes on retrying is answered, if no handler outlives its sixty seconds
\* (RELIABILITY.md:12, the reclaim after sixty seconds).
KeyRecovers ==
    \A c \in Clients :
        []~overrun => (client[c].fingerprint # NoFingerprint ~>
                          client[c].answer \in {"executed", "replayed", "conflict"})

=============================================================================
