---------------------------- MODULE SkillHandoff ----------------------------
(***************************************************************************)
(* The hand-over of a skill package to its owner (Platform), step by step. *)
(*                                                                         *)
(* A request imports a package in five calls: create the draft, begin the  *)
(* upload, put the bytes, complete the upload, validate.  After each it    *)
(* stores a checkpoint in its idempotency receipt by compare-and-set, and  *)
(* a later request with the same key goes on from the last one.  No other  *)
(* receipt keeps requests of one key apart: they may overlap at any step.  *)
(* Calls and statements may be lost, with or without effect, and processes *)
(* may die.  The module is one scope: a user, a key, a kind of import.     *)
(***************************************************************************)
EXTENDS Naturals, FiniteSets, HandoffPromise

CONSTANTS
    Handlers,   \* requests of the key under way at the same time
    Payloads,   \* what the client sends under the key, told apart by its fingerprint
    NoPayload,
    MaxFaults   \* lost calls and statements, requests given up, processes that die

ASSUME ConstantsAssumption ==
    /\ NoPayload \notin Payloads
    /\ MaxFaults \in Nat

VARIABLES       \* with those of HandoffPromise
    stale,    \* a pending receipt is more than sixty seconds old
    handler,  \* the requests and what each knows of the receipt
    strays,   \* commands on their way whose request is gone
    puts,     \* object versions stored so far (external)
    faults

vars == <<receipt, stale, handler, draft, strays, puts, told, faults>>

-----------------------------------------------------------------------------
(* The receipt: status 102 is "pending", 200 the stages between, 201 "done" *)

Stages == {"none", "pending", "frozen", "created", "admitted", "selected", "completed", "done"}

\* State versions of the draft when it was created (initialStateVersion), when the
\* upload was begun and when it was completed; the object version that was
\* selected; the result.  Zero is a member the checkpoint does not have.
Receipt == [stage: Stages, payload: Payloads \cup {NoPayload},
            initial: Nat, begun: Nat, source: Nat, ended: Nat, result: Nat]

NoReceipt == [stage |-> "none", payload |-> NoPayload,
              initial |-> 0, begun |-> 0, source |-> 0, ended |-> 0, result |-> 0]
Pending(p) == [NoReceipt EXCEPT !.stage = "pending", !.payload = p]

Idle == [pc |-> "idle", known |-> NoReceipt, next |-> NoReceipt]

\* `known` is the receipt as the request last read or wrote it, `next` the
\* checkpoint it wants to store.
Handling == [pc: {"idle", "claiming", "claimed", "working", "checked", "storing", "verifying"},
             known: Receipt, next: Receipt]

\* A command has the payload in its body, the state version it expects, and, to
\* complete, the object version.  Its id is its kind: one of each in a scope.
Kinds == {"create", "begin", "complete", "validate"}
Command == [kind: Kinds, payload: Payloads, expected: Nat, source: Nat]

\* `made` holds each executed command with the state version it led to, `refused`
\* the commands it turned down.
Owner == [version: Nat, source: Nat, made: SUBSET [command: Command, version: Nat],
          refused: SUBSET Command, edited: BOOLEAN]

TypeOK ==
    /\ receipt \in Receipt
    /\ stale \in BOOLEAN
    /\ handler \in [Handlers -> Handling]
    /\ draft \in Owner
    /\ strays \in SUBSET Command
    /\ puts \in Nat
    /\ told \in SUBSET [payload: Payloads, result: Nat]
    /\ faults \in 0..MaxFaults

Init ==
    /\ receipt = NoReceipt /\ stale = FALSE
    /\ handler = [h \in Handlers |-> Idle]
    /\ draft = [version |-> 0, source |-> 0, made |-> {}, refused |-> {}, edited |-> FALSE]
    /\ strays = {} /\ puts = 0 /\ told = {} /\ faults = 0

Fault == faults < MaxFaults /\ faults' = faults + 1
External == <<draft, strays, puts>>

Rests(h) == handler' = [handler EXCEPT ![h] = Idle]
Wants(h, known, checkpoint) ==
    handler' = [handler EXCEPT ![h] = [pc |-> "storing", known |-> known, next |-> checkpoint]]

Frozen(known) == [known EXCEPT !.stage = "frozen"]

-----------------------------------------------------------------------------
(* The start of a request: read the receipt, claim it if there is none *)

\* Another payload under the key is a conflict: it changes nothing and is no step.
Start(h, p) ==
    /\ handler[h].pc = "idle"
    /\ \/ /\ receipt = NoReceipt
          /\ handler' = [handler EXCEPT ![h] = [Idle EXCEPT !.pc = "claiming", !.known.payload = p]]
       \/ /\ receipt.payload = p /\ receipt.stage = "pending"
          /\ Wants(h, receipt, Frozen(receipt))
       \/ /\ receipt.payload = p /\ receipt.stage \notin {"pending", "done"}
          /\ handler' = [handler EXCEPT ![h] = [Idle EXCEPT !.pc = "working", !.known = receipt]]
    /\ UNCHANGED <<receipt, stale, External, told, faults>>

\* The stored result is answered again.
Replay(p) ==
    /\ receipt.payload = p /\ receipt.stage = "done"
    /\ told' = told \cup {[payload |-> p, result |-> receipt.result]}
    /\ UNCHANGED <<receipt, stale, handler, External, faults>>

Claim(h) ==
    /\ handler[h].pc = "claiming"
    /\ IF receipt = NoReceipt \/ (receipt.stage = "pending" /\ stale)
       THEN /\ receipt' = Pending(handler[h].known.payload)
            /\ stale' = FALSE
            /\ handler' = [handler EXCEPT ![h].pc = "claimed"]
       ELSE Rests(h) /\ UNCHANGED <<receipt, stale>>
    /\ UNCHANGED <<External, told, faults>>

ReadBack(h) ==
    /\ handler[h].pc = "claimed"
    /\ IF receipt = Pending(handler[h].known.payload) THEN Wants(h, receipt, Frozen(receipt)) ELSE Rests(h)
    /\ UNCHANGED <<receipt, stale, External, told, faults>>

\* The database clock passes sixty seconds.
Ages ==
    /\ receipt.stage = "pending" /\ ~stale
    /\ stale' = TRUE
    /\ UNCHANGED <<receipt, handler, External, told, faults>>

-----------------------------------------------------------------------------
(* The owner (external).  A command id is executed once, for the version it    *)
(* expects; a repetition with the same body answers the version of that time   *)
(* or the draft's present one; a repetition with another body is refused.      *)
(* Packages it turns down, at every repetition, are left out.                  *)

Repeated(c) == {m \in draft.made : m.command.kind = c.kind}
Executable(c) == Repeated(c) = {} /\ c.expected = draft.version
Refuses(c) == ~Executable(c) /\ \A m \in Repeated(c) : m.command # c

Executed(c) ==
    [draft EXCEPT !.version = @ + 1, !.source = IF c.kind = "complete" THEN c.source ELSE @,
                  !.made = @ \cup {[command |-> c, version |-> draft.version + 1]}]

\* What becomes of the owner when it gets a command.
Obeys(c) ==
    draft' = IF Refuses(c) THEN [draft EXCEPT !.refused = @ \cup {c}]
             ELSE IF Executable(c) THEN Executed(c) ELSE draft

\* The versions it may answer with.
Answers(c) ==
    IF Executable(c) THEN {draft.version + 1}
    ELSE {draft.version} \cup {m.version : m \in Repeated(c)}

\* A command arrives whose request is gone.
Arrive(c) ==
    /\ c \in strays
    /\ strays' = strays \ {c}
    /\ Obeys(c)
    /\ UNCHANGED <<receipt, stale, handler, puts, told, faults>>

\* The user changes the draft afterwards, once in the model.
Edit ==
    /\ \E m \in draft.made : m.command.kind = "validate"
    /\ ~draft.edited
    /\ draft' = [draft EXCEPT !.edited = TRUE, !.version = @ + 1]
    /\ UNCHANGED <<receipt, stale, handler, strays, puts, told, faults>>

-----------------------------------------------------------------------------
(* The calls of a request *)

KindAfter == [frozen |-> "create", created |-> "begin", selected |-> "complete", completed |-> "validate"]

\* Mutant: the upload is begun for the version its draft had before it was created
\* again, as a request without the "created" checkpoint would see it.
ExpectedUnproven(known) == [frozen |-> 0, created |-> draft.version, selected |-> known.begun,
                            completed |-> draft.version][known.stage]

\* The state version each command expects is the one of the checkpoint before it.
Expected(known) == [frozen |-> 0, created |-> known.initial, selected |-> known.begun,
                    completed |-> known.ended][known.stage]

CommandOf(known) ==
    [kind |-> KindAfter[known.stage], payload |-> known.payload, expected |-> Expected(known),
     source |-> IF known.stage = "selected" THEN known.source ELSE 0]

After(known, version) ==
    CASE known.stage = "frozen" -> [known EXCEPT !.stage = "created", !.initial = version]
      [] known.stage = "created" -> [known EXCEPT !.stage = "admitted", !.begun = version]
      [] known.stage = "selected" -> [known EXCEPT !.stage = "completed", !.ended = version]
      [] known.stage = "completed" -> [known EXCEPT !.stage = "done", !.result = version]

\* The request is about to send a command: before the owner has been asked for the
\* upload's state it creates and begins, after that it completes and validates.
Sends(h) ==
    \/ handler[h].pc = "working" /\ handler[h].known.stage \in {"frozen", "created"}
    \/ handler[h].pc = "checked" /\ handler[h].known.stage \in {"selected", "completed"}

Call(h) ==
    /\ Sends(h)
    /\ LET known == handler[h].known
           c == CommandOf(known)
       IN  /\ Obeys(c)
           /\ IF Refuses(c) THEN Rests(h)
              ELSE \E version \in Answers(c) : Wants(h, known, After(known, version))
    /\ UNCHANGED <<receipt, stale, strays, puts, told, faults>>

\* No answer comes; the command may still arrive.
CallFails(h) ==
    /\ Sends(h)
    /\ Fault
    /\ strays' = strays \cup {CommandOf(handler[h].known)}
    /\ Rests(h)
    /\ UNCHANGED <<receipt, stale, draft, puts, told>>

\* Mutant: the upload must not have been completed yet.
UncompletedUpload(known) == draft.source = 0

\* No object is completed but the one that is selected.
UploadFits(known) == draft.source \in {0, known.source}

\* The state of the upload, read once in a request; one that does not fit ends it.
Status(h) ==
    /\ handler[h].pc = "working" /\ handler[h].known.stage \in {"admitted", "selected", "completed"}
    /\ IF UploadFits(handler[h].known)
       THEN handler' = [handler EXCEPT ![h].pc = "checked"]
       ELSE Rests(h)
    /\ UNCHANGED <<receipt, stale, External, told, faults>>

\* The upload is begun again, for the same attempt, to get a reference; the bytes
\* are put, and the store names the version.  The selection is not yet durable.
Put(h) ==
    /\ handler[h].pc = "checked" /\ handler[h].known.stage = "admitted"
    /\ LET known == handler[h].known
           begin == CommandOf([known EXCEPT !.stage = "created"])
       IN \E version \in Answers(begin) :
            IF version = known.begun
            THEN /\ puts' = puts + 1
                 /\ Wants(h, known, [known EXCEPT !.stage = "selected", !.source = puts + 1])
            ELSE Rests(h) /\ UNCHANGED puts
    /\ UNCHANGED <<receipt, stale, draft, strays, told, faults>>

-----------------------------------------------------------------------------
(* Checkpoints: compare-and-set, and exact readback when it did not answer     *)
(* that it has updated the row                                                 *)

\* What a request does once its checkpoint is stored.
Proceeds(h) ==
    LET next == handler[h].next IN
    IF next.stage = "done"
    THEN /\ told' = told \cup {[payload |-> next.payload, result |-> next.result]}
         /\ Rests(h)
    ELSE /\ handler' = [handler EXCEPT ![h] =
                [pc |-> IF next.stage \in {"selected", "completed"} THEN "checked" ELSE "working",
                 known |-> next, next |-> NoReceipt]]
         /\ UNCHANGED told

\* Mutant: the receipt is compared by fingerprint and status only.
UnchangedStatus(h) ==
    LET Status3(stage) == IF stage \in {"none", "pending", "done"} THEN stage ELSE "200" IN
    receipt.payload = handler[h].known.payload /\ Status3(receipt.stage) = Status3(handler[h].known.stage)

\* The receipt is as the request knows it.
UnchangedReceipt(h) == receipt = handler[h].known

Store(h) ==
    /\ handler[h].pc = "storing"
    /\ IF UnchangedReceipt(h)
       THEN receipt' = handler[h].next /\ stale' = FALSE /\ Proceeds(h)
       ELSE /\ handler' = [handler EXCEPT ![h].pc = "verifying"]
            /\ UNCHANGED <<receipt, stale, told>>
    /\ UNCHANGED <<External, faults>>

\* The statement throws, with or without effect.
StoreUnknown(h) ==
    /\ handler[h].pc = "storing"
    /\ Fault
    /\ \/ UnchangedReceipt(h) /\ receipt' = handler[h].next /\ stale' = FALSE
       \/ UNCHANGED <<receipt, stale>>
    /\ handler' = [handler EXCEPT ![h].pc = "verifying"]
    /\ UNCHANGED <<External, told>>

\* Mutant: a receipt that has reached the stage is taken for the request's own.
ConfirmedStage(h) == receipt.stage = handler[h].next.stage

Confirmed(h) == receipt = handler[h].next

Verify(h) ==
    /\ handler[h].pc = "verifying"
    /\ IF Confirmed(h) THEN Proceeds(h) ELSE Rests(h) /\ UNCHANGED told
    /\ UNCHANGED <<receipt, stale, External, faults>>

\* The caller cancels, a read fails or the process dies, between any two steps.
Abandon(h) ==
    /\ handler[h].pc # "idle"
    /\ Fault
    /\ Rests(h)
    /\ UNCHANGED <<receipt, stale, External, told>>

-----------------------------------------------------------------------------

Step(h) ==
    Claim(h) \/ ReadBack(h) \/ Call(h) \/ Status(h) \/ Put(h) \/ Store(h) \/ Verify(h)

Next ==
    \/ \E h \in Handlers :
        \/ Step(h) \/ CallFails(h) \/ StoreUnknown(h) \/ Abandon(h)
        \/ \E p \in Payloads : Start(h, p)
    \/ \E p \in Payloads : Replay(p)
    \/ \E c \in strays : Arrive(c)
    \/ Ages \/ Edit

Spec == Init /\ [][Next]_vars

\* Requests run on, and the client repeats the one whose payload the receipt has.
Fairness ==
    \A h \in Handlers : WF_vars(Step(h)) /\ \A p \in Payloads : WF_vars(Start(h, p))

FairSpec == Spec /\ Fairness

-----------------------------------------------------------------------------
(* Properties: HandoffSound, of HandoffPromise, and: *)

\* A claimed key is handed over in the end, if its client repeats the request and
\* the owner accepts the package:
\* no crash, loss or overlap leaves a checkpoint from which no request goes on.
HandoffEnds == (receipt.stage # "none") ~> (receipt.stage = "done")

=============================================================================
