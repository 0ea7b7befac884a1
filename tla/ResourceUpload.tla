--------------------------- MODULE ResourceUpload ---------------------------
(***************************************************************************)
(* The upload of one file to a project or to a user's library.             *)
(*                                                                         *)
(* A request holds the public receipt of its key.  It creates an upload at *)
(* its owner (Storage) and stores the upload's id in a receipt of its own, *)
(* the checkpoint; it puts the bytes, stores in the checkpoint which       *)
(* object version it has selected, and completes the upload with it.  A    *)
(* later request of the key goes on from the checkpoint.  When a request   *)
(* to a project fails it aborts the upload, unless it may be completed.    *)
(* The module is one key with one file: a public receipt, a checkpoint and *)
(* an upload.  Receipts are taken over after sixty seconds, calls and      *)
(* statements may be lost, with or without effect, processes may die.      *)
(***************************************************************************)
EXTENDS Naturals, UploadPromise

CONSTANTS
    Handlers,      \* BOUND: requests of the key under way at the same time
    Kinds,         \* what is uploaded: a "project" resource, a "personal" file
    MaxFaults      \* BOUND: lost calls and statements, overruns, processes that die

ASSUME ConstantsAssumption ==
    /\ Kinds \subseteq {"project", "personal"}
    /\ MaxFaults \in Nat

VARIABLES       \* with those of UploadPromise
    old,      \* which of the two receipts is pending for more than sixty seconds
    handler,  \* the requests
    puts,     \* object versions stored so far (external)
    strays,   \* commands on their way whose request is gone
    faults

receipts == <<kind, ticket, checkpoint, old>>
external == <<owner, puts, strays>>
vars == <<kind, ticket, checkpoint, old, handler, owner, puts, strays, faults>>

-----------------------------------------------------------------------------
(* Types *)

\* 200 with the asset, 409 for an upload that was aborted, 409 for a key whose
\* request is under way, 409 from the owner.
Answers == {"asset", "gone", "busy", "conflict"}

\* Those that say what became of the upload.
Verdicts == {"asset", "gone", "conflict"}

\* Zero is no object version.
Checkpoint == [stage: {"none", "pending", "admitted", "selected"}, source: Nat]

NoCheckpoint == [stage |-> "none", source |-> 0]
Pending == [stage |-> "pending", source |-> 0]
Admitted == [stage |-> "admitted", source |-> 0]
Stored == checkpoint.stage \in {"admitted", "selected"}

\* `upload` says that the request knows the upload's id, `attempted` is
\* completeAttempted, `seen` the version the owner has frozen as of its status,
\* `source` the version the request completes with, `answer` what it will say:
\* "failed" is any answer of 500 and above.
Handling ==
    [pc: {"idle", "begun", "claiming", "creating", "admitting", "reading", "releasing",
          "asking", "deciding", "putting", "selecting", "completing", "fetching",
          "failing", "answering"},
     upload: BOOLEAN, attempted: BOOLEAN, seen: Nat, source: Nat,
     answer: Answers \cup {"none", "failed"}]

Idle == [pc |-> "idle", upload |-> FALSE, attempted |-> FALSE,
         seen |-> 0, source |-> 0, answer |-> "none"]

Command == [kind: {"create", "complete", "abort"}, source: Nat]

\* `asked` are the versions complete commands came with.
Owner == [state: {"none", "pending", "completed", "aborted"}, source: Nat,
          asked: SUBSET Nat]

TypeOK ==
    /\ kind \in Kinds
    /\ ticket \in {"none", "pending"} \cup Answers
    /\ checkpoint \in Checkpoint
    /\ old \in [ticket: BOOLEAN, checkpoint: BOOLEAN]
    /\ handler \in [Handlers -> Handling]
    /\ owner \in Owner
    /\ puts \in Nat
    /\ strays \in SUBSET Command
    /\ faults \in 0..MaxFaults

Init ==
    /\ kind \in Kinds
    /\ ticket = "none" /\ checkpoint = NoCheckpoint
    /\ old = [ticket |-> FALSE, checkpoint |-> FALSE]
    /\ handler = [h \in Handlers |-> Idle]
    /\ owner = [state |-> "none", source |-> 0, asked |-> {}]
    /\ puts = 0 /\ strays = {} /\ faults = 0

Fault == faults < MaxFaults /\ faults' = faults + 1

At(h, pc) == handler[h].pc = pc
Goes(h, pc) == handler' = [handler EXCEPT ![h].pc = pc]
Says(h, answer) == handler' = [handler EXCEPT ![h].pc = "answering", ![h].answer = answer]

\* An error leaves the request's try block.
Fails(h) == Goes(h, "failing")

-----------------------------------------------------------------------------
(* The public receipt and the clock *)

\* A faulty form: a pending receipt is never reclaimed.
Absent == ticket = "none"

Claimable == ticket = "none" \/ (ticket = "pending" /\ old.ticket)

\* The client sends or repeats its request.  A receipt that is answered, or
\* pending for less than sixty seconds, changes nothing.
Begin(h) ==
    /\ At(h, "idle")
    /\ Claimable
    /\ ticket' = "pending"
    /\ old' = [old EXCEPT !.ticket = FALSE]
    /\ Goes(h, "begun")
    /\ UNCHANGED <<kind, checkpoint, external, faults>>

\* Sixty seconds pass since a receipt was claimed.  A request is over by then,
\* unless it overruns its budget of forty-five.
Ages(receipt) ==
    /\ ~old[receipt]
    /\ IF receipt = "ticket" THEN ticket = "pending" ELSE checkpoint = Pending
    /\ \/ (\A h \in Handlers : At(h, "idle")) /\ UNCHANGED faults
       \/ (\E h \in Handlers : ~At(h, "idle")) /\ Fault
    /\ old' = [old EXCEPT ![receipt] = TRUE]
    /\ UNCHANGED <<kind, ticket, checkpoint, handler, external>>

Released(t) == IF t = "pending" THEN "none" ELSE t

\* The request answers: what is below 500 is stored, anything else gives the key
\* back.  An answer that cannot be stored is turned into a failure.
Reply(h) ==
    /\ At(h, "answering")
    /\ ticket' = IF handler[h].answer = "failed" THEN Released(ticket)
                 ELSE IF ticket \in {"none", "pending"} THEN handler[h].answer
                 ELSE ticket
    /\ old' = [old EXCEPT !.ticket = FALSE]
    /\ handler' = [handler EXCEPT ![h] = Idle]
    /\ UNCHANGED <<kind, checkpoint, external, faults>>

\* The statement throws, with or without effect; the key is given back, or that
\* fails as well.
ReplyLost(h) ==
    /\ At(h, "answering")
    /\ Fault
    /\ \/ ticket' \in {ticket, Released(ticket)}
       \/ /\ handler[h].answer # "failed" /\ ticket \in {"none", "pending"}
          /\ ticket' = handler[h].answer
    /\ old' = [old EXCEPT !.ticket = ticket' = "pending" /\ old.ticket]
    /\ handler' = [handler EXCEPT ![h] = Idle]
    /\ UNCHANGED <<kind, checkpoint, external>>

-----------------------------------------------------------------------------
(* The owner (external): a command is executed once; its upload ends completed *)
(* or aborted.  Creation answers the same upload each time.                    *)

Create == [kind |-> "create", source |-> 0]
Complete(version) == [kind |-> "complete", source |-> version]
Abort == [kind |-> "abort", source |-> 0]

\* A complete command with another version than before has another digest.
Acceptable(c) ==
    c.kind = "complete" => /\ owner.asked \subseteq {c.source}
                           /\ owner.state \in {"pending", "completed"}

Obeyed(c) ==
    CASE c.kind = "create" ->
           [owner EXCEPT !.state = IF @ = "none" THEN "pending" ELSE @]
      [] c.kind = "complete" ->
           IF Acceptable(c)
           THEN [owner EXCEPT !.state = "completed", !.source = c.source,
                              !.asked = @ \cup {c.source}]
           ELSE [owner EXCEPT !.asked = @ \cup {c.source}]
      [] c.kind = "abort" ->
           [owner EXCEPT !.state = IF @ = "pending" THEN "aborted" ELSE @]

\* What the owner may have done with a command whose answer did not come: nothing
\* yet, or it froze the version and has not committed the asset.
Begun(c) ==
    IF c.kind = "complete" /\ Acceptable(c) /\ owner.state = "pending"
    THEN {owner, [owner EXCEPT !.source = c.source, !.asked = @ \cup {c.source}]}
    ELSE {owner}

Arrive(c) ==
    /\ c \in strays
    /\ strays' = strays \ {c}
    /\ owner' = Obeyed(c)
    /\ UNCHANGED <<receipts, handler, puts, faults>>

-----------------------------------------------------------------------------
(* The checkpoint, up to the upload's id *)

\* An upload that is known from the checkpoint may be completed.
Restore(h) ==
    /\ At(h, "begun")
    /\ handler' = IF Stored
                  THEN [handler EXCEPT ![h].pc = "asking", ![h].upload = TRUE, ![h].attempted = TRUE]
                  ELSE [handler EXCEPT ![h].pc = "claiming"]
    /\ UNCHANGED <<receipts, external, faults>>

\* A faulty form: a pending checkpoint is never reclaimed.
Unclaimed == checkpoint = NoCheckpoint

Free == checkpoint = NoCheckpoint \/ (checkpoint = Pending /\ old.checkpoint)

Claim(h) ==
    /\ At(h, "claiming")
    /\ IF Free
       THEN checkpoint' = Pending /\ old' = [old EXCEPT !.checkpoint = FALSE] /\ Goes(h, "creating")
       ELSE Says(h, "busy") /\ UNCHANGED <<checkpoint, old>>
    /\ UNCHANGED <<kind, ticket, external, faults>>

CreateUpload(h) ==
    /\ At(h, "creating")
    /\ owner' = Obeyed(Create)
    /\ handler' = [handler EXCEPT ![h].pc = "admitting", ![h].upload = TRUE]
    /\ UNCHANGED <<receipts, puts, strays, faults>>

\* putReceipt: a checkpoint that has left "pending" is not overwritten.
Admit(h) ==
    /\ At(h, "admitting")
    /\ IF Stored THEN Goes(h, "releasing") /\ UNCHANGED <<checkpoint, old>>
       ELSE checkpoint' = Admitted /\ old' = [old EXCEPT !.checkpoint = FALSE] /\ Goes(h, "reading")
    /\ UNCHANGED <<kind, ticket, external, faults>>

ReadBack(h) ==
    /\ At(h, "reading")
    /\ Goes(h, IF Stored THEN "asking" ELSE "releasing")
    /\ UNCHANGED <<receipts, external, faults>>

\* A faulty form: the checkpoint is deleted whatever it says.
ReleasesAlways == checkpoint # NoCheckpoint

\* Only a pending checkpoint is deleted.
Releases == checkpoint = Pending

Release(h) ==
    /\ At(h, "releasing")
    /\ checkpoint' = IF Releases THEN NoCheckpoint ELSE checkpoint
    /\ old' = [old EXCEPT !.checkpoint = FALSE]
    /\ Fails(h)
    /\ UNCHANGED <<kind, ticket, external, faults>>

-----------------------------------------------------------------------------
(* From the upload's id to its asset *)

\* Only "pending" says that no asset was committed; a personal file keeps no such
\* record, for it aborts nothing.
Status(h) ==
    /\ At(h, "asking")
    /\ CASE owner.state = "completed" ->
              handler' = [handler EXCEPT ![h].pc = "fetching", ![h].attempted = TRUE]
         [] owner.state = "aborted" -> Says(h, "gone")
         [] owner.state \in {"none", "pending"} ->
              handler' = [handler EXCEPT ![h].pc = "deciding", ![h].attempted = FALSE,
                                         ![h].seen = owner.source]
    /\ UNCHANGED <<receipts, external, faults>>

\* A faulty form: a selection is used only if the owner has frozen nothing.
FitsUnfrozen(h) == handler[h].seen = 0

\* The owner has frozen no version but the one that is selected.
Fits(h) == handler[h].seen \in {0, checkpoint.source}

\* The checkpoint is read again: a version that was selected is completed, or one
\* has to be put.
Decide(h) ==
    /\ At(h, "deciding")
    /\ \/ /\ checkpoint.stage = "selected" /\ Fits(h)
          /\ handler' = [handler EXCEPT ![h].pc = "completing", ![h].attempted = TRUE,
                                        ![h].source = checkpoint.source]
       \/ /\ checkpoint = Admitted /\ handler[h].seen = 0
          /\ Goes(h, "putting")
       \/ /\ ~(checkpoint.stage = "selected" /\ Fits(h))
          /\ ~(checkpoint = Admitted /\ handler[h].seen = 0)
          /\ Fails(h)
    /\ UNCHANGED <<receipts, external, faults>>

\* The creation is repeated for a reference, the bytes are put under it.
Put(h) ==
    /\ At(h, "putting")
    /\ puts' = puts + 1
    /\ handler' = [handler EXCEPT ![h].pc = "selecting", ![h].attempted = TRUE,
                                  ![h].source = puts + 1]
    /\ UNCHANGED <<receipts, owner, strays, faults>>

\* A faulty form: the selection of another request is overwritten.
UnselectedAlways == Stored

\* Compare-and-set: the checkpoint is as it was when the request decided.
Unselected == checkpoint = Admitted

Select(h) ==
    /\ At(h, "selecting")
    /\ checkpoint' = IF Unselected THEN Selected(handler[h].source) ELSE checkpoint
    /\ IF checkpoint' = Selected(handler[h].source) THEN Goes(h, "completing") ELSE Fails(h)
    /\ UNCHANGED <<kind, ticket, old, external, faults>>

CompleteUpload(h) ==
    LET c == Complete(handler[h].source) IN
    /\ At(h, "completing")
    /\ owner' = Obeyed(c)
    /\ IF Acceptable(c) THEN Goes(h, "fetching") ELSE Says(h, "conflict")
    /\ UNCHANGED <<receipts, puts, strays, faults>>

GetAsset(h) ==
    /\ At(h, "fetching")
    /\ Says(h, "asset")
    /\ UNCHANGED <<receipts, external, faults>>

-----------------------------------------------------------------------------
(* Failures *)

\* The commands a request sends, by where it is.
Sent(h) ==
    CASE At(h, "creating") -> {Create}
      [] At(h, "completing") -> {Complete(handler[h].source)}
      [] OTHER -> {}

\* No answer comes to a call, which may still arrive; or the caller is gone.
CallFails(h) ==
    /\ handler[h].pc \in {"creating", "asking", "putting", "completing", "fetching"}
    /\ Fault
    /\ strays' = strays \cup Sent(h)
    /\ IF At(h, "completing") THEN owner' \in Begun(Complete(handler[h].source))
                              ELSE UNCHANGED owner
    /\ Goes(h, IF At(h, "creating") THEN "releasing" ELSE "failing")
    /\ UNCHANGED <<receipts, puts>>

\* A statement throws, with or without effect.
StatementFails(h) ==
    /\ handler[h].pc \in {"begun", "claiming", "admitting", "reading", "releasing",
                          "deciding", "selecting"}
    /\ Fault
    /\ \/ UNCHANGED <<checkpoint, old>>
       \/ /\ At(h, "claiming")
          /\ Free
          /\ checkpoint' = Pending /\ old' = [old EXCEPT !.checkpoint = FALSE]
       \/ /\ At(h, "admitting") /\ ~Stored
          /\ checkpoint' = Admitted /\ old' = [old EXCEPT !.checkpoint = FALSE]
       \/ /\ At(h, "selecting") /\ Unselected
          /\ checkpoint' = Selected(handler[h].source) /\ UNCHANGED old
    /\ Goes(h, IF handler[h].pc \in {"admitting", "reading"} THEN "releasing" ELSE "failing")
    /\ UNCHANGED <<kind, ticket, external>>

\* A faulty form: a personal file is given up as a project's resource is.
AbortsEither(h) == handler[h].upload /\ ~handler[h].attempted

\* A failed request aborts an upload that it knows not to be completed.
Aborts(h) == kind = "project" /\ handler[h].upload /\ ~handler[h].attempted

\* The catch block; an abort may be lost.
Catch(h) ==
    /\ At(h, "failing")
    /\ \/ /\ Aborts(h)
          /\ owner' = Obeyed(Abort) /\ UNCHANGED <<strays, faults>>
       \/ /\ Aborts(h) /\ Fault
          /\ strays' = strays \cup {Abort} /\ UNCHANGED owner
       \/ ~Aborts(h) /\ UNCHANGED <<owner, strays, faults>>
    /\ Says(h, "failed")
    /\ UNCHANGED <<receipts, puts>>

\* The process dies.
Die(h) ==
    /\ ~At(h, "idle")
    /\ Fault
    /\ handler' = [handler EXCEPT ![h] = Idle]
    /\ UNCHANGED <<receipts, external>>

-----------------------------------------------------------------------------
(* Specification *)

Step(h) ==
    \/ Restore(h) \/ Claim(h) \/ CreateUpload(h) \/ Admit(h) \/ ReadBack(h) \/ Release(h)
    \/ Status(h) \/ Decide(h) \/ Put(h) \/ Select(h) \/ CompleteUpload(h) \/ GetAsset(h)
    \/ Catch(h) \/ Reply(h)

Next ==
    \/ \E h \in Handlers :
        Begin(h) \/ Step(h) \/ CallFails(h) \/ StatementFails(h) \/ ReplyLost(h) \/ Die(h)
    \/ \E c \in strays : Arrive(c)
    \/ \E receipt \in {"ticket", "checkpoint"} : Ages(receipt)

Spec == Init /\ [][Next]_vars

\* Requests run on, time passes, and the client repeats its request.
Fairness ==
    /\ \A h \in Handlers : WF_vars(Step(h)) /\ WF_vars(Begin(h))
    /\ \A receipt \in {"ticket", "checkpoint"} : WF_vars(Ages(receipt))

FairSpec == Spec /\ Fairness

-----------------------------------------------------------------------------
(* Properties: UploadSound, of UploadPromise, and: *)

\* A request comes to the checkpoint less than sixty seconds after another one has
\* claimed it, or when that one has its upload.
Hurried(h) ==
    At(h, "claiming") /\ (Stored \/ (checkpoint = Pending /\ ~old.checkpoint))

\* A key that was claimed is answered with what became of its upload: whatever
\* overlaps, is lost or dies, a request goes on from what the one before it left,
\* unless one was hurried and its "in progress" is the stored answer, for ever
\* (application/personal-file-upload.ts:39-51, 54-84).
KeyAnswered ==
    [](ticket # "busy") \/ [](\A h \in Handlers : ~Hurried(h)) =>
        (ticket = "pending" ~> ticket \in Verdicts)

\* The public receipt holds confirmed successes and deterministic errors only
\* (docs/DATA_MODEL.md:1807).  It is false: a key that is in use is
\* answered with 409, and the answer is stored.
FinalAnswers == ticket # "busy"

\* "A Complete response may be lost after committing an Asset. Never abort that
\* uncertain outcome." (application/project-resource-upload.ts:111).  It is
\* false of a request that goes on from the checkpoint while the Complete of the
\* one before it is still on its way.
NeverAbortsUncertain ==
    \A h \in Handlers : At(h, "failing") /\ Aborts(h) =>
        /\ owner.state # "completed"
        /\ \A c \in strays : c.kind # "complete"

=============================================================================
