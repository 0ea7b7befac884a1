---------------------------- MODULE RequestProofs ----------------------------
(***************************************************************************)
(* Theorems about what becomes of a request: MutationReceipt, the uploads  *)
(* of ResourceUpload, the hand-over of SkillHandoff; and about what is     *)
(* left when its conversation or its process ends, AgentCancellation and   *)
(* Lifecycle.  They hold for every set of clients, payloads, handlers,     *)
(* runs and workers, every number of loops, attempts and faults.           *)
(*                                                                         *)
(* MutationReceipt and the promises of the others are extended, the others *)
(* themselves are instances: each has constants and variables of its own,  *)
(* those with a name in common are declared once.  Every theorem is about  *)
(* one of the modules.                                                     *)
(***************************************************************************)
EXTENDS MutationReceipt, UploadPromise, HandoffPromise, ClosePromise, CancellationPromise,
        Integers, TLAPS

CONSTANTS
    Kinds, Handlers,             \* of ResourceUpload
    Payloads, NoPayload,         \* of SkillHandoff, which has Handlers too
    Batch                        \* of Lifecycle

VARIABLES
    old,                         \* of ResourceUpload
    handler, puts, strays,       \* of ResourceUpload and SkillHandoff
    stale,                       \* of SkillHandoff
    server, stopper, closer,     \* of Lifecycle
    launch                       \* of AgentCancellation, with strays

Upload == INSTANCE ResourceUpload
Handoff == INSTANCE SkillHandoff
Process == INSTANCE Lifecycle
Cancellation == INSTANCE AgentCancellation

-----------------------------------------------------------------------------
(* What the row and request operators return *)

\* A pending and a final row are receipts, and so is what a release leaves.
LEMMA RowTypes ==
    ASSUME row \in Receipt, NEW f \in Fingerprints \cup {NoFingerprint}, NEW c \in Clients
    PROVE  /\ Pending(f) \in Receipt
           /\ Final(f, c) \in Receipt
           /\ Released(f) \in Receipt
<1>2. Pending(f) \in Receipt
  BY DEF Pending, Receipt
<1>3. Final(f, c) \in Receipt
  BY DEF Final, Receipt
<1>4. Released(f) \in Receipt
  BY DEF Released, NoReceipt, Receipt
<1> QED BY <1>2, <1>3, <1>4

\* Each way a request moves leaves the other requests alone and keeps it a
\* request.
LEMMA RequestTypes ==
    ASSUME client \in [Clients -> Request], NEW c \in Clients
    PROVE  /\ \A pc \in {"idle", "refused", "handling", "storing", "releasing", "done"} :
                Moves(c, pc) => client' \in [Clients -> Request]
           /\ \A a \in {"none", "executed", "replayed", "conflict", "in_progress", "error"},
                 b \in Clients \cup {NoClient} :
                Answers(c, a, b) => client' \in [Clients -> Request]
           /\ \A f \in Fingerprints,
                 pc \in {"idle", "refused", "handling", "storing", "releasing", "done"},
                 a \in {"none", "executed", "replayed", "conflict", "in_progress", "error"} :
                Sends(c, f, pc, a) => client' \in [Clients -> Request]
<1>1. ASSUME NEW pc \in {"idle", "refused", "handling", "storing", "releasing", "done"}, Moves(c, pc)
      PROVE  client' \in [Clients -> Request]
  BY <1>1 DEF Moves, Request
<1>2. ASSUME NEW a \in {"none", "executed", "replayed", "conflict", "in_progress", "error"},
             NEW b \in Clients \cup {NoClient}, Answers(c, a, b)
      PROVE  client' \in [Clients -> Request]
  BY <1>2 DEF Answers, Request
<1>3. ASSUME NEW f \in Fingerprints,
             NEW pc \in {"idle", "refused", "handling", "storing", "releasing", "done"},
             NEW a \in {"none", "executed", "replayed", "conflict", "in_progress", "error"},
             Sends(c, f, pc, a)
      PROVE  client' \in [Clients -> Request]
  BY <1>3 DEF Sends, Request
<1> QED BY <1>1, <1>2, <1>3

-----------------------------------------------------------------------------
(* Types *)

\* A fault is counted within its bound.
LEMMA FaultTypes == faults \in 0..MaxFaults /\ Fault => faults' \in 0..MaxFaults
BY ConstantsAssumption DEF Fault

LEMMA InitTypes == Init => TypeOK
<1> SUFFICES ASSUME Init PROVE TypeOK
  OBVIOUS
<1>1. row \in Receipt /\ client \in [Clients -> Request]
  BY DEF Init, NoReceipt, Receipt, NotSent, Request
<1>2. claimant \in Clients \cup {NoClient} /\ faults \in 0..MaxFaults
  BY ConstantsAssumption DEF Init
<1>3. overrun \in BOOLEAN
  BY DEF Init
<1> QED BY <1>1, <1>2, <1>3 DEF TypeOK

\* Every step of a request keeps the types.
LEMMA StepTypes == ASSUME TypeOK, NEW c \in Clients, Step(c) PROVE TypeOK'
<1> USE DEF TypeOK
<1>1. client[c] \in Request
  OBVIOUS
<1>2. ASSUME NEW f \in Fingerprints, Claim(c, f) PROVE TypeOK'
  <2>1. CASE Claimable
    BY <1>2, <2>1, RowTypes, RequestTypes DEF Claim
  <2>2. CASE ~Claimable
    BY <1>2, <2>2, RequestTypes DEF Claim
  <2> QED BY <2>1, <2>2
<1>3. CASE ReadReceipt(c)
  <2>1. row.body \in Clients \cup {NoClient}
    BY DEF Receipt
  <2> QED BY <1>3, <2>1, RequestTypes DEF ReadReceipt
<1>4. CASE Handle(c)
  BY <1>4, RequestTypes DEF Handle
<1>5. CASE PutReceipt(c)
  <2>1. client[c].fingerprint \in Fingerprints \cup {NoFingerprint}
    BY <1>1 DEF Request
  <2>2. CASE Storable(client[c].fingerprint)
    BY <1>5, <2>1, <2>2, RowTypes, RequestTypes DEF PutReceipt
  <2>3. CASE ~Storable(client[c].fingerprint)
    BY <1>5, <2>3, RequestTypes DEF PutReceipt
  <2> QED BY <2>2, <2>3
<1>6. CASE ReleaseReceipt(c)
  <2>1. client[c].fingerprint \in Fingerprints \cup {NoFingerprint}
    BY <1>1 DEF Request
  <2> QED BY <1>6, <2>1, RowTypes, RequestTypes DEF ReleaseReceipt
<1>7. CASE Retry(c)
  BY <1>7 DEF Retry, Request
<1> QED BY <1>2, <1>3, <1>4, <1>5, <1>6, <1>7 DEF Step

\* Every failure keeps the types.
LEMMA FailureTypes == ASSUME TypeOK, NEW c \in Clients, Failure(c) PROVE TypeOK'
<1> USE DEF TypeOK
<1>1. client[c] \in Request
  OBVIOUS
<1>2. ASSUME NEW f \in Fingerprints, ClaimUnknown(c, f) PROVE TypeOK'
  BY <1>2, FaultTypes, RowTypes, RequestTypes DEF ClaimUnknown
<1>3. CASE HandleFails(c)
  BY <1>3, FaultTypes, RequestTypes DEF HandleFails
<1>4. CASE Abandon(c)
  BY <1>4, FaultTypes, RequestTypes DEF Abandon
<1>5. CASE PutUnknown(c)
  <2>1. client[c].fingerprint \in Fingerprints \cup {NoFingerprint}
    BY <1>1 DEF Request
  <2> QED BY <1>5, <2>1, FaultTypes, RowTypes, RequestTypes DEF PutUnknown
<1>6. CASE ReleaseFails(c)
  BY <1>6, FaultTypes, RequestTypes DEF ReleaseFails
<1> QED BY <1>2, <1>3, <1>4, <1>5, <1>6 DEF Failure

LEMMA NextTypes == TypeOK /\ [Next]_vars => TypeOK'
<1> SUFFICES ASSUME TypeOK, [Next]_vars PROVE TypeOK'
  OBVIOUS
<1>1. CASE \E c \in Clients : Step(c) \/ Failure(c)
  BY <1>1, StepTypes, FailureTypes
<1>2. CASE ClaimExpires
  BY <1>2 DEF ClaimExpires, TypeOK, Receipt
<1>3. CASE UNCHANGED vars
  BY <1>3 DEF vars, TypeOK
<1> QED BY <1>1, <1>2, <1>3 DEF Next

\* The receipt, the requests and the counters keep their types.
THEOREM TypeCorrect == Spec => []TypeOK
<1> QED BY InitTypes, NextTypes, PTL DEF Spec

-----------------------------------------------------------------------------
(* A stored answer is never changed *)

LEMMA FinalStays == [Next]_vars => (row.status = "final" => row' = row)
<1> SUFFICES ASSUME [Next]_vars, row.status = "final" PROVE row' = row
  OBVIOUS
<1>1. ~Claimable /\ \A f : ~Storable(f) /\ ~Releasable(f)
  BY DEF Claimable, Storable, Releasable
<1>2. ASSUME NEW c \in Clients, Step(c) PROVE row' = row
  BY <1>1, <1>2 DEF Step, Claim, ReadReceipt, Handle, PutReceipt, ReleaseReceipt, Released, Retry
<1>3. ASSUME NEW c \in Clients, Failure(c) PROVE row' = row
  BY <1>1, <1>3 DEF Failure, ClaimUnknown, HandleFails, Abandon, PutUnknown, ReleaseFails
<1>4. CASE ClaimExpires
  BY <1>4 DEF ClaimExpires
<1>5. CASE UNCHANGED vars
  BY <1>5 DEF vars
<1> QED BY <1>2, <1>3, <1>4, <1>5 DEF Next

\* Nothing changes, releases or reclaims a stored answer (putReceipt,
\* claimReceipt and releaseReceipt all compare the status).
THEOREM AnswersStayForever == Spec => AnswerIsForever
<1> QED BY FinalStays, PTL DEF Spec, AnswerIsForever

-----------------------------------------------------------------------------
(* One answer for a key *)

LEMMA InitAnswers == Init => OneAnswer
BY DEF Init, OneAnswer, NotSent

Kept == {"executed", "replayed"}

\* What a step of a request may do to any request: leave its answer, give it
\* none to keep, or give it the one the receipt then holds.
LEMMA AnswerSteps ==
    ASSUME TypeOK, NEW c \in Clients, Step(c) \/ Failure(c), NEW d \in Clients
    PROVE  \/ /\ client'[d].answer = client[d].answer
              /\ client'[d].body = client[d].body
              /\ client'[d].fingerprint = client[d].fingerprint
           \/ client'[d].answer \notin Kept
           \/ /\ row'.status = "final"
              /\ row'.body = client'[d].body
              /\ row'.fingerprint = client'[d].fingerprint
              /\ client'[d].answer = "executed" => row'.body = d
<1> DEFINE Same == /\ client'[d].answer = client[d].answer
                   /\ client'[d].body = client[d].body
                   /\ client'[d].fingerprint = client[d].fingerprint
           Held == /\ row'.status = "final"
                   /\ row'.body = client'[d].body
                   /\ row'.fingerprint = client'[d].fingerprint
                   /\ client'[d].answer = "executed" => row'.body = d
           Goal == Same \/ client'[d].answer \notin Kept \/ Held
<1> SUFFICES Goal
  OBVIOUS
<1>1. client \in [Clients -> Request] /\ client[d] \in Request /\ client[c] \in Request
  BY DEF TypeOK
<1>2. ASSUME NEW pc, Moves(c, pc) PROVE Same
  BY <1>1, <1>2 DEF Moves, Request
<1>3. ASSUME NEW a, NEW b, a \notin Kept, Answers(c, a, b) PROVE Same \/ client'[d].answer \notin Kept
  BY <1>1, <1>3 DEF Answers, Request
<1>4. ASSUME NEW f, NEW pc, NEW a, a \notin Kept, Sends(c, f, pc, a)
      PROVE  Same \/ client'[d].answer \notin Kept
  BY <1>1, <1>4 DEF Sends, Request
<1>5. "none" \notin Kept /\ "error" \notin Kept /\ "in_progress" \notin Kept /\ "conflict" \notin Kept
  BY DEF Kept
<1>6. ASSUME NEW a \in Kept, NEW b, Answers(c, a, b), row'.status = "final", row'.body = b,
             row'.fingerprint = client[c].fingerprint, a = "executed" => b = c
      PROVE  Same \/ Held
  <2>1. CASE d = c
    <3>1. client'[d].answer = a /\ client'[d].body = b /\ client'[d].fingerprint = client[c].fingerprint
      BY <1>1, <1>6, <2>1 DEF Answers, Request
    <3> QED BY <3>1, <1>6, <2>1
  <2>2. CASE d # c
    BY <1>1, <1>6, <2>2 DEF Answers, Request
  <2> QED BY <2>1, <2>2
<1>7. ASSUME NEW f \in Fingerprints, Claim(c, f) PROVE Goal
  <2>1. (Sends(c, f, "handling", "none") \/ Sends(c, f, "refused", "none"))
    BY <1>7 DEF Claim
  <2> HIDE DEF Same, Held
  <2> QED BY <2>1, <1>4, <1>5
<1>8. ASSUME NEW f \in Fingerprints, ClaimUnknown(c, f) PROVE Goal
  <2>1. Sends(c, f, "done", "error")
    BY <1>8 DEF ClaimUnknown
  <2> HIDE DEF Same, Held
  <2> QED BY <2>1, <1>4, <1>5
<1>9. CASE ReadReceipt(c)
  <2>1. \/ Answers(c, "in_progress", NoClient) \/ Answers(c, "conflict", NoClient)
        \/ /\ row.status = "final"
           /\ row.fingerprint = client[c].fingerprint
           /\ Answers(c, "replayed", row.body)
           /\ row' = row
    BY <1>9 DEF ReadReceipt
  <2>2. CASE Answers(c, "replayed", row.body) /\ row.status = "final" /\ row' = row
             /\ row.fingerprint = client[c].fingerprint
    <3>1. "replayed" \in Kept
      BY DEF Kept
    <3> HIDE DEF Same, Held
    <3> QED BY <2>2, <3>1, <1>6
  <2> HIDE DEF Same, Held
  <2> QED BY <2>1, <2>2, <1>3, <1>5
<1>10. CASE PutReceipt(c)
  <2>1. CASE Storable(client[c].fingerprint)
    <3>1. row' = Final(client[c].fingerprint, c) /\ Answers(c, "executed", c)
      BY <1>10, <2>1 DEF PutReceipt
    <3>2. row'.status = "final" /\ row'.body = c /\ row'.fingerprint = client[c].fingerprint
      BY <2>1, <3>1 DEF Final, Storable
    <3>3. "executed" \in Kept
      BY DEF Kept
    <3> HIDE DEF Same, Held
    <3> QED BY <3>1, <3>2, <3>3, <1>6
  <2>2. CASE ~Storable(client[c].fingerprint)
    <3>1. Moves(c, "releasing")
      BY <1>10, <2>2 DEF PutReceipt
    <3> HIDE DEF Same, Held
    <3> QED BY <3>1, <1>2
  <2> QED BY <2>1, <2>2
<1>11. CASE Handle(c) \/ HandleFails(c) \/ PutUnknown(c)
  <2>1. \E pc : Moves(c, pc)
    BY <1>11 DEF Handle, HandleFails, PutUnknown
  <2> HIDE DEF Same, Held
  <2> QED BY <2>1, <1>2
<1>12. CASE Abandon(c) \/ ReleaseReceipt(c) \/ ReleaseFails(c)
  <2>1. Answers(c, "error", NoClient)
    BY <1>12 DEF Abandon, ReleaseReceipt, ReleaseFails
  <2> HIDE DEF Same, Held
  <2> QED BY <2>1, <1>3, <1>5
<1>13. CASE Retry(c)
  BY <1>1, <1>13, <1>5 DEF Retry, Request
<1> HIDE DEF Same, Held
<1> QED
  BY <1>7, <1>8, <1>9, <1>10, <1>11, <1>12, <1>13 DEF Step, Failure

LEMMA NextAnswers == TypeOK /\ OneAnswer /\ [Next]_vars => OneAnswer'
<1> SUFFICES ASSUME TypeOK, OneAnswer, [Next]_vars, NEW d \in Clients,
                    client'[d].answer \in Kept
             PROVE  /\ row'.status = "final"
                    /\ row'.body = client'[d].body
                    /\ row'.fingerprint = client'[d].fingerprint
                    /\ client'[d].answer = "executed" => row'.body = d
  BY DEF OneAnswer, Kept
<1> DEFINE Same == /\ client'[d].answer = client[d].answer
                   /\ client'[d].body = client[d].body
                   /\ client'[d].fingerprint = client[d].fingerprint
\* An answer given before: the receipt was final, and stays.
<1>1. CASE Same
  <2>1. /\ row.status = "final"
        /\ row.body = client[d].body
        /\ row.fingerprint = client[d].fingerprint
        /\ client[d].answer = "executed" => row.body = d
    BY <1>1 DEF OneAnswer, Kept
  <2>2. row' = row
    BY <2>1, FinalStays
  <2> QED BY <1>1, <2>1, <2>2
<1>2. CASE ClaimExpires \/ UNCHANGED vars
  BY <1>1, <1>2 DEF ClaimExpires, vars
<1>3. CASE \E c \in Clients : Step(c) \/ Failure(c)
  <2> PICK c \in Clients : Step(c) \/ Failure(c)
    BY <1>3
  <2> QED BY <1>1, AnswerSteps
<1> QED BY <1>2, <1>3 DEF Next

\* Two clients are never given answers of different executions, nor an answer
\* to another payload, however long a handler runs.
THEOREM AnswersAgree == Spec => []OneAnswer
<1> QED BY InitTypes, NextTypes, InitAnswers, NextAnswers, PTL DEF Spec

-----------------------------------------------------------------------------
(* One execution at a time, when handlers end within sixty seconds *)

\* What ClaimInv says of one request.
HoldsClaim(c) ==
    /\ client[c].pc \in {"handling", "storing"} =>
          /\ row = Pending(client[c].fingerprint)
          /\ claimant = c
    /\ client[c].pc = "releasing" =>
          \/ /\ row = Pending(client[c].fingerprint)
             /\ claimant = c
          \/ /\ row.status = "final"
             /\ row.body = c
             /\ row.fingerprint = client[c].fingerprint

LEMMA ClaimInvSplit == ClaimInv <=> (~overrun => \A c \in Clients : HoldsClaim(c))
BY DEF ClaimInv, HoldsClaim

LEMMA InitClaims == Init => ClaimInv
<1> SUFFICES ASSUME Init, NEW c \in Clients PROVE client[c].pc = "idle"
  BY DEF ClaimInv
<1> QED BY DEF Init, NotSent

\* The row belongs to one request, and is then no one's to claim.
LEMMA OneHolder ==
    ASSUME NEW c \in Clients, NEW d \in Clients,
           HoldsClaim(c), HoldsClaim(d), Holds(c)
    PROVE  /\ ~Claimable
           /\ Holds(d) => c = d
<1>1. \/ row.status = "pending" /\ ~row.expired /\ claimant = c
      \/ row.status = "final" /\ row.body = c /\ client[c].pc = "releasing"
  BY DEF HoldsClaim, Holds, Pending
<1>2. ASSUME Holds(d)
      PROVE  \/ row.status = "pending" /\ claimant = d
             \/ row.status = "final" /\ row.body = d
  BY <1>2 DEF HoldsClaim, Holds, Pending
<1> QED BY <1>1, <1>2 DEF Claimable

\* A step of a request leaves the other requests alone.
LEMMA OthersStay ==
    ASSUME TypeOK, NEW c \in Clients, Step(c) \/ Failure(c), NEW d \in Clients, d # c
    PROVE  client'[d] = client[d]
<1> USE DEF TypeOK
<1>1. CASE Step(c)
  BY <1>1 DEF Step, Claim, ReadReceipt, Handle, PutReceipt, ReleaseReceipt, Retry,
              Sends, Answers, Moves
<1>2. CASE Failure(c)
  BY <1>2 DEF Failure, ClaimUnknown, HandleFails, Abandon, PutUnknown, ReleaseFails,
              Sends, Answers, Moves
<1> QED BY <1>1, <1>2

\* A request that holds nothing changes a row only by claiming it.
LEMMA OutsidersClaim ==
    ASSUME NEW c \in Clients, Step(c) \/ Failure(c), ~Holds(c), ~Claimable
    PROVE  UNCHANGED <<row, claimant>>
<1>1. CASE Step(c)
  BY <1>1 DEF Step, Claim, ReadReceipt, Handle, PutReceipt, ReleaseReceipt, Retry, Holds
<1>2. CASE Failure(c)
  BY <1>2 DEF Failure, ClaimUnknown, HandleFails, Abandon, PutUnknown, ReleaseFails, Holds
<1> QED BY <1>1, <1>2

\* An answer ends the request.
LEMMA AnswersEnd ==
    ASSUME client \in [Clients -> Request], NEW c \in Clients, NEW a, NEW b, Answers(c, a, b)
    PROVE  client'[c].pc = "done"
<1>1. client[c] \in Request
  OBVIOUS
<1> QED BY <1>1 DEF Answers, Request

\* A step of a request keeps its own hold of the row.
LEMMA OwnClaimStep ==
    ASSUME TypeOK, NEW c \in Clients, Step(c), HoldsClaim(c)
    PROVE  HoldsClaim(c)'
<1>1. client \in [Clients -> Request] /\ client[c] \in Request
  BY DEF TypeOK
<1>2. ASSUME NEW f \in Fingerprints, Claim(c, f) PROVE HoldsClaim(c)'
  <2>1. CASE Claimable
    <3>1. client'[c].pc = "handling" /\ client'[c].fingerprint = f
      BY <1>1, <1>2, <2>1 DEF Claim, Sends
    <3>2. row' = Pending(f) /\ claimant' = c
      BY <1>2, <2>1 DEF Claim
    <3> QED BY <3>1, <3>2 DEF HoldsClaim, Pending
  <2>2. CASE ~Claimable
    <3>1. client'[c].pc = "refused"
      BY <1>1, <1>2, <2>2 DEF Claim, Sends
    <3> QED BY <3>1 DEF HoldsClaim
  <2> QED BY <2>1, <2>2
<1>3. CASE ReadReceipt(c) \/ ReleaseReceipt(c)
  <2>1. client'[c].pc = "done"
    BY <1>1, <1>3, AnswersEnd DEF ReadReceipt, ReleaseReceipt
  <2> QED BY <2>1 DEF HoldsClaim
<1>4. CASE Handle(c)
  <2>1. /\ client'[c].pc = "storing"
        /\ client'[c].fingerprint = client[c].fingerprint
        /\ UNCHANGED <<row, claimant>>
    BY <1>1, <1>4 DEF Handle, Moves, Request
  <2>2. row = Pending(client[c].fingerprint) /\ claimant = c
    BY <1>4 DEF Handle, HoldsClaim
  <2>3. row' = Pending(client[c].fingerprint)' /\ claimant' = c
    BY <2>1, <2>2 DEF Pending
  <2> QED BY <2>1, <2>3 DEF HoldsClaim
<1>5. CASE PutReceipt(c)
  <2>1. Storable(client[c].fingerprint)
    BY <1>5 DEF PutReceipt, HoldsClaim, Storable, Pending
  <2>2. client'[c].pc = "done"
    BY <1>1, <1>5, <2>1, AnswersEnd DEF PutReceipt
  <2> QED BY <2>2 DEF HoldsClaim
<1>6. CASE Retry(c)
  <2>1. client'[c].pc = "idle"
    BY <1>1, <1>6 DEF Retry
  <2> QED BY <2>1 DEF HoldsClaim
<1> QED BY <1>2, <1>3, <1>4, <1>5, <1>6 DEF Step

\* So does a failure.
LEMMA OwnClaimFailure ==
    ASSUME TypeOK, NEW c \in Clients, Failure(c), HoldsClaim(c)
    PROVE  HoldsClaim(c)'
<1>1. client \in [Clients -> Request] /\ client[c] \in Request
  BY DEF TypeOK
<1>2. CASE (\E f \in Fingerprints : ClaimUnknown(c, f)) \/ Abandon(c) \/ ReleaseFails(c)
  <2>1. client'[c].pc = "done"
    BY <1>1, <1>2, AnswersEnd DEF ClaimUnknown, Abandon, ReleaseFails, Sends
  <2> QED BY <2>1 DEF HoldsClaim
<1>3. CASE HandleFails(c)
  <2>1. /\ client'[c].pc = "releasing"
        /\ client'[c].fingerprint = client[c].fingerprint
        /\ UNCHANGED <<row, claimant>>
    BY <1>1, <1>3 DEF HandleFails, Moves, Request
  <2>2. row = Pending(client[c].fingerprint) /\ claimant = c
    BY <1>3 DEF HandleFails, HoldsClaim
  <2>3. row' = Pending(client[c].fingerprint)' /\ claimant' = c
    BY <2>1, <2>2 DEF Pending
  <2> QED BY <2>1, <2>3 DEF HoldsClaim
<1>4. CASE PutUnknown(c)
  <2>1. /\ client'[c].pc = "releasing"
        /\ client'[c].fingerprint = client[c].fingerprint
    BY <1>1, <1>4 DEF PutUnknown, Moves, Request
  <2>2. row = Pending(client[c].fingerprint) /\ claimant = c
    BY <1>4 DEF PutUnknown, HoldsClaim
  <2>3. CASE UNCHANGED <<row, claimant>>
    <3>1. row' = Pending(client[c].fingerprint)' /\ claimant' = c
      BY <2>1, <2>2, <2>3 DEF Pending
    <3> QED BY <2>1, <3>1 DEF HoldsClaim
  <2>4. CASE row' = Final(client[c].fingerprint, c)
    <3>1. /\ row'.status = "final"
          /\ row'.body = c
          /\ row'.fingerprint = client[c].fingerprint
      BY <2>2, <2>4 DEF Final, Pending
    <3> QED BY <2>1, <3>1 DEF HoldsClaim
  <2> QED BY <1>4, <2>3, <2>4 DEF PutUnknown
<1> QED BY <1>2, <1>3, <1>4 DEF Failure

\* An overrun is never forgotten.
LEMMA OverrunStays == [Next]_vars => (overrun => overrun')
<1> SUFFICES ASSUME [Next]_vars, overrun PROVE overrun'
  OBVIOUS
<1>1. ASSUME NEW c \in Clients, Step(c) PROVE overrun'
  BY <1>1 DEF Step, Claim, ReadReceipt, Handle, PutReceipt, ReleaseReceipt, Retry
<1>2. ASSUME NEW c \in Clients, Failure(c) PROVE overrun'
  BY <1>2 DEF Failure, ClaimUnknown, HandleFails, Abandon, PutUnknown, ReleaseFails
<1>3. CASE ClaimExpires
  BY <1>3 DEF ClaimExpires
<1>4. CASE UNCHANGED vars
  BY <1>4 DEF vars
<1> QED BY <1>1, <1>2, <1>3, <1>4 DEF Next

LEMMA NextClaims == TypeOK /\ ClaimInv /\ [Next]_vars => ClaimInv'
<1> SUFFICES ASSUME TypeOK, ~overrun, ~overrun', \A e \in Clients : HoldsClaim(e),
                    [Next]_vars, NEW d \in Clients
             PROVE  HoldsClaim(d)'
  BY OverrunStays DEF ClaimInv, HoldsClaim
<1>1. CASE \E c \in Clients : Step(c) \/ Failure(c)
  <2> PICK c \in Clients : Step(c) \/ Failure(c)
    BY <1>1
  <2>1. CASE c = d
    BY <2>1, OwnClaimStep, OwnClaimFailure
  <2>2. CASE c # d /\ ~Holds(d)
    <3>1. client'[d] = client[d]
      BY <2>2, OthersStay
    <3> QED BY <2>2, <3>1 DEF HoldsClaim, Holds
  <2>3. CASE c # d /\ Holds(d)
    <3>1. client'[d] = client[d]
      BY <2>3, OthersStay
    <3>2. ~Claimable /\ ~Holds(c)
      BY <2>3, OneHolder
    <3>3. UNCHANGED <<row, claimant>>
      BY <3>2, OutsidersClaim
    <3> QED BY <3>1, <3>3 DEF HoldsClaim, Pending
  <2> QED BY <2>1, <2>2, <2>3
\* Only the claim of a request that is over gets old.
<1>2. CASE ClaimExpires
  <2>1. client' = client /\ claimant' = claimant /\ row.status = "pending"
    BY <1>2 DEF ClaimExpires
  <2>2. ~Holds(d)
    <3> SUFFICES ASSUME Holds(d) PROVE FALSE
      OBVIOUS
    <3>1. claimant = d
      BY <2>1 DEF HoldsClaim, Holds
    <3> QED BY <1>2, <3>1 DEF ClaimExpires
  <2> QED BY <2>1, <2>2 DEF HoldsClaim, Holds
<1>3. CASE UNCHANGED vars
  BY <1>3 DEF vars, HoldsClaim, Pending
<1> QED BY <1>1, <1>2, <1>3 DEF Next

\* Until a handler outlives its sixty seconds, the claim needs no token: a
\* request that releases or stores does so to its own claim.
THEOREM TimelyClaims == Spec => []ClaimInv
<1> QED BY InitTypes, NextTypes, InitClaims, NextClaims, PTL DEF Spec

LEMMA ClaimsExclude == ClaimInv => TimelyNoParallelExecution
<1> SUFFICES ASSUME ~overrun, \A e \in Clients : HoldsClaim(e),
                    NEW c \in Clients, InHandler(c)
             PROVE  /\ row.status # "final"
                    /\ \A d \in Clients : InHandler(d) => d = c
  BY DEF ClaimInv, HoldsClaim, TimelyNoParallelExecution, NoParallelExecution
<1>1. row.status # "final"
  BY DEF HoldsClaim, InHandler, Pending
<1>2. ASSUME NEW d \in Clients, InHandler(d) PROVE d = c
  BY <1>2, OneHolder DEF InHandler, Holds
<1> QED BY <1>1, <1>2

\* And one request at a time is in its handler, none after an answer.
THEOREM TimelyExclusion == Spec => []TimelyNoParallelExecution
<1> QED BY TimelyClaims, ClaimsExclude, PTL

-----------------------------------------------------------------------------
(* ResourceUpload: the inductive invariant *)

\* The version a checkpoint has is the one that every complete command has, on
\* its way, sent or executed.
UploadSelection ==
    /\ \A h \in Handlers : Upload!At(h, "completing") =>
          checkpoint = Upload!Selected(handler[h].source)
    /\ \A c \in strays : c.kind = "complete" => checkpoint = Upload!Selected(c.source)
    /\ \A v \in owner.asked : checkpoint = Upload!Selected(v)
    /\ owner.state = "completed" => checkpoint = Upload!Selected(owner.source)

UploadSays(h, answer) == Upload!At(h, "answering") /\ handler[h].answer = answer

\* What a request is about to answer, or has, is what became of the upload, which
\* is there once its id is known; only a project's resource is given up.
UploadVerdict ==
    /\ \A h \in Handlers :
          /\ Upload!At(h, "fetching") \/ UploadSays(h, "asset") => owner.state = "completed"
          /\ UploadSays(h, "gone") \/ UploadSays(h, "conflict") => owner.state = "aborted"
          /\ Upload!At(h, "admitting") => owner.state # "none"
    /\ ticket = "asset" => owner.state = "completed"
    /\ ticket \in {"gone", "conflict"} => owner.state = "aborted"
    /\ Upload!Stored => owner.state # "none"
    /\ owner.state = "aborted" \/ (\E c \in strays : c.kind = "abort") => kind = "project"

UploadInv == Upload!TypeOK /\ UploadSelection /\ UploadVerdict

-----------------------------------------------------------------------------
(* Uploads: types *)

LEMMA UploadFaultTypes ==
    ASSUME Upload!ConstantsAssumption, faults \in 0..MaxFaults, Upload!Fault
    PROVE  faults' \in 0..MaxFaults
BY DEF Upload!ConstantsAssumption, Upload!Fault

LEMMA UploadInitTypes == ASSUME Upload!ConstantsAssumption, Upload!Init PROVE Upload!TypeOK
BY DEF Upload!ConstantsAssumption, Upload!Init, Upload!TypeOK, Upload!Checkpoint,
       Upload!NoCheckpoint, Upload!Idle, Upload!Handling, Upload!Owner, Upload!Command,
       Upload!Answers

\* A request that goes somewhere or answers remains a request.
LEMMA UploadMoveTypes ==
    ASSUME handler \in [Handlers -> Upload!Handling], NEW h \in Handlers
    PROVE  /\ \A pc \in {"idle", "begun", "claiming", "creating", "admitting", "reading",
                         "releasing", "asking", "deciding", "putting", "selecting",
                         "completing", "fetching", "failing", "answering"} :
                 Upload!Goes(h, pc) => handler' \in [Handlers -> Upload!Handling]
           /\ \A answer \in Upload!Answers \cup {"none", "failed"} :
                 Upload!Says(h, answer) => handler' \in [Handlers -> Upload!Handling]
           /\ Upload!Fails(h) => handler' \in [Handlers -> Upload!Handling]
           /\ handler' = [handler EXCEPT ![h] = Upload!Idle]
                 => handler' \in [Handlers -> Upload!Handling]
<1>1. ASSUME NEW pc \in {"idle", "begun", "claiming", "creating", "admitting", "reading",
                         "releasing", "asking", "deciding", "putting", "selecting",
                         "completing", "fetching", "failing", "answering"},
             Upload!Goes(h, pc)
      PROVE  handler' \in [Handlers -> Upload!Handling]
  BY <1>1 DEF Upload!Goes, Upload!Handling
<1>2. ASSUME NEW answer \in Upload!Answers \cup {"none", "failed"}, Upload!Says(h, answer)
      PROVE  handler' \in [Handlers -> Upload!Handling]
  BY <1>2 DEF Upload!Says, Upload!Handling
<1>3. Upload!Fails(h) => handler' \in [Handlers -> Upload!Handling]
  BY <1>1 DEF Upload!Fails
<1>4. ASSUME handler' = [handler EXCEPT ![h] = Upload!Idle]
      PROVE  handler' \in [Handlers -> Upload!Handling]
  BY <1>4 DEF Upload!Idle, Upload!Handling
<1> QED BY <1>1, <1>2, <1>3, <1>4

\* So does the owner's upload by what is done with a command.
LEMMA UploadOwnerTypes ==
    ASSUME owner \in Upload!Owner, NEW c \in Upload!Command
    PROVE  /\ Upload!Obeyed(c) \in Upload!Owner
           /\ \A o \in Upload!Begun(c) : o \in Upload!Owner
<1>1. c.kind = "create" \/ c.kind = "complete" \/ c.kind = "abort"
  BY DEF Upload!Command
<1>2. Upload!Obeyed(c) \in Upload!Owner
  BY <1>1 DEF Upload!Obeyed, Upload!Owner, Upload!Command
<1>3. \A o \in Upload!Begun(c) : o \in Upload!Owner
  <2>1. [owner EXCEPT !.source = c.source, !.asked = @ \cup {c.source}] \in Upload!Owner
    BY DEF Upload!Owner, Upload!Command
  <2> QED BY <2>1 DEF Upload!Begun
<1> QED BY <1>2, <1>3

LEMMA UploadCommandTypes ==
    ASSUME Upload!TypeOK
    PROVE  /\ Upload!Create \in Upload!Command /\ Upload!Abort \in Upload!Command
           /\ \A h \in Handlers : Upload!Complete(handler[h].source) \in Upload!Command
           /\ \A h \in Handlers : Upload!Sent(h) \subseteq Upload!Command
<1>1. /\ Upload!Create \in Upload!Command /\ Upload!Abort \in Upload!Command
      /\ \A h \in Handlers : Upload!Complete(handler[h].source) \in Upload!Command
  BY DEF Upload!Create, Upload!Abort, Upload!Complete, Upload!Command, Upload!TypeOK,
         Upload!Handling
<1> QED BY <1>1 DEF Upload!Sent

\* A claim, an answer and the clock keep the types.
LEMMA UploadReceiptStepTypes ==
    ASSUME Upload!ConstantsAssumption, Upload!TypeOK,
           \/ \E h \in Handlers : Upload!Begin(h) \/ Upload!Reply(h) \/ Upload!ReplyLost(h)
           \/ \E which \in {"ticket", "checkpoint"} : Upload!Ages(which)
    PROVE  Upload!TypeOK'
<1>1. ASSUME NEW h \in Handlers, Upload!Begin(h) PROVE Upload!TypeOK'
  BY <1>1, UploadMoveTypes DEF Upload!Begin, Upload!TypeOK, Upload!external
<1>2. ASSUME NEW h \in Handlers, Upload!Reply(h) PROVE Upload!TypeOK'
  <2>1. ticket' \in {"none", "pending"} \cup Upload!Answers
    BY <1>2 DEF Upload!Reply, Upload!Released, Upload!TypeOK, Upload!Handling
  <2> QED BY <1>2, <2>1, UploadMoveTypes DEF Upload!Reply, Upload!TypeOK, Upload!external
<1>3. ASSUME NEW h \in Handlers, Upload!ReplyLost(h) PROVE Upload!TypeOK'
  <2>1. ticket' \in {"none", "pending"} \cup Upload!Answers
    BY <1>3 DEF Upload!ReplyLost, Upload!Released, Upload!TypeOK, Upload!Handling
  <2>2. old' \in [ticket: BOOLEAN, checkpoint: BOOLEAN]
    BY <1>3 DEF Upload!ReplyLost, Upload!TypeOK
  <2> QED BY <1>3, <2>1, <2>2, UploadMoveTypes, UploadFaultTypes
          DEF Upload!ReplyLost, Upload!TypeOK, Upload!external
<1>4. ASSUME NEW which \in {"ticket", "checkpoint"}, Upload!Ages(which) PROVE Upload!TypeOK'
  <2>1. old' \in [ticket: BOOLEAN, checkpoint: BOOLEAN]
    BY <1>4 DEF Upload!Ages, Upload!TypeOK
  <2>2. faults' \in 0..MaxFaults
    BY <1>4, UploadFaultTypes DEF Upload!Ages, Upload!TypeOK
  <2> QED BY <1>4, <2>1, <2>2 DEF Upload!Ages, Upload!TypeOK, Upload!external
<1> QED BY <1>1, <1>2, <1>3, <1>4

\* The steps of a request keep the types.
LEMMA UploadStepTypes ==
    ASSUME Upload!ConstantsAssumption, Upload!TypeOK, NEW h \in Handlers, Upload!Step(h)
    PROVE  Upload!TypeOK'
<1>1. CASE Upload!Restore(h)
  <2>1. [handler[h] EXCEPT !.pc = "asking", !.upload = TRUE, !.attempted = TRUE]
           \in Upload!Handling
    BY DEF Upload!TypeOK, Upload!Handling
  <2>2. [handler[h] EXCEPT !.pc = "claiming"] \in Upload!Handling
    BY DEF Upload!TypeOK, Upload!Handling
  <2>3. handler' \in [Handlers -> Upload!Handling]
    BY <1>1, <2>1, <2>2 DEF Upload!Restore, Upload!TypeOK
  <2> QED BY <1>1, <2>3 DEF Upload!Restore, Upload!TypeOK, Upload!receipts, Upload!external
<1>2. CASE Upload!Claim(h)
  <2>1. checkpoint' \in Upload!Checkpoint
    BY <1>2 DEF Upload!Claim, Upload!TypeOK, Upload!Pending, Upload!Checkpoint
  <2>2. old' \in [ticket: BOOLEAN, checkpoint: BOOLEAN]
    BY <1>2 DEF Upload!Claim, Upload!TypeOK
  <2>3. handler' \in [Handlers -> Upload!Handling]
    BY <1>2, UploadMoveTypes DEF Upload!Claim, Upload!TypeOK, Upload!Answers
  <2> QED BY <1>2, <2>1, <2>2, <2>3 DEF Upload!Claim, Upload!TypeOK, Upload!external
<1>3. CASE Upload!CreateUpload(h)
  <2>1. [handler[h] EXCEPT !.pc = "admitting", !.upload = TRUE] \in Upload!Handling
    BY DEF Upload!TypeOK, Upload!Handling
  <2>2. handler' \in [Handlers -> Upload!Handling]
    BY <1>3, <2>1 DEF Upload!CreateUpload, Upload!TypeOK
  <2> QED BY <1>3, <2>2, UploadOwnerTypes, UploadCommandTypes
          DEF Upload!CreateUpload, Upload!TypeOK, Upload!receipts
<1>4. CASE Upload!Admit(h)
  <2>1. checkpoint' \in Upload!Checkpoint
    BY <1>4 DEF Upload!Admit, Upload!TypeOK, Upload!Admitted, Upload!Checkpoint
  <2>2. old' \in [ticket: BOOLEAN, checkpoint: BOOLEAN]
    BY <1>4 DEF Upload!Admit, Upload!TypeOK
  <2>3. handler' \in [Handlers -> Upload!Handling]
    BY <1>4, UploadMoveTypes DEF Upload!Admit, Upload!TypeOK
  <2> QED BY <1>4, <2>1, <2>2, <2>3 DEF Upload!Admit, Upload!TypeOK, Upload!external
<1>5. CASE Upload!ReadBack(h)
  BY <1>5, UploadMoveTypes DEF Upload!ReadBack, Upload!TypeOK, Upload!external, Upload!receipts
<1>6. CASE Upload!Release(h)
  BY <1>6, UploadMoveTypes DEF Upload!Release, Upload!TypeOK, Upload!external, Upload!NoCheckpoint,
              Upload!Checkpoint
<1>7. CASE Upload!Status(h)
  <2>1. owner.state \in {"none", "pending", "completed", "aborted"} /\ owner.source \in Nat
    BY DEF Upload!TypeOK, Upload!Owner
  <2>2. [handler[h] EXCEPT !.pc = "fetching", !.attempted = TRUE] \in Upload!Handling
    BY DEF Upload!TypeOK, Upload!Handling
  <2>3. [handler[h] EXCEPT !.pc = "deciding", !.attempted = FALSE, !.seen = owner.source]
           \in Upload!Handling
    BY <2>1 DEF Upload!TypeOK, Upload!Handling
  <2>4. handler' \in [Handlers -> Upload!Handling]
    <3>1. CASE owner.state = "completed"
      BY <1>7, <2>2, <3>1 DEF Upload!Status, Upload!TypeOK
    <3>2. CASE owner.state = "aborted"
      BY <1>7, <3>2, UploadMoveTypes DEF Upload!Status, Upload!TypeOK, Upload!Answers
    <3>3. CASE owner.state \in {"none", "pending"}
      BY <1>7, <2>3, <3>3 DEF Upload!Status, Upload!TypeOK
    <3> QED BY <2>1, <3>1, <3>2, <3>3
  <2> QED BY <1>7, <2>4 DEF Upload!Status, Upload!TypeOK, Upload!receipts, Upload!external
<1>8. CASE Upload!Decide(h)
  <2>1. checkpoint.source \in Nat
    BY DEF Upload!TypeOK, Upload!Checkpoint
  <2>2. [handler[h] EXCEPT !.pc = "completing", !.attempted = TRUE, !.source = checkpoint.source]
           \in Upload!Handling
    BY <2>1 DEF Upload!TypeOK, Upload!Handling
  <2>3. handler' \in [Handlers -> Upload!Handling]
    BY <1>8, <2>2, UploadMoveTypes DEF Upload!Decide, Upload!TypeOK
  <2> QED BY <1>8, <2>3 DEF Upload!Decide, Upload!TypeOK, Upload!receipts, Upload!external
<1>9. CASE Upload!Put(h)
  <2>1. puts + 1 \in Nat
    BY DEF Upload!TypeOK
  <2>2. [handler[h] EXCEPT !.pc = "selecting", !.attempted = TRUE, !.source = puts + 1]
           \in Upload!Handling
    BY <2>1 DEF Upload!TypeOK, Upload!Handling
  <2>3. handler' \in [Handlers -> Upload!Handling]
    BY <1>9, <2>2 DEF Upload!Put, Upload!TypeOK
  <2> QED BY <1>9, <2>1, <2>3 DEF Upload!Put, Upload!TypeOK, Upload!receipts
<1>10. CASE Upload!Select(h)
  <2>1. checkpoint' \in Upload!Checkpoint
    BY <1>10 DEF Upload!Select, Upload!TypeOK, Upload!Handling, Upload!Selected,
                 Upload!Checkpoint
  <2> QED BY <1>10, <2>1, UploadMoveTypes DEF Upload!Select, Upload!TypeOK, Upload!external
<1>11. CASE Upload!CompleteUpload(h)
  <2>1. owner' \in Upload!Owner
    BY <1>11, UploadOwnerTypes, UploadCommandTypes DEF Upload!CompleteUpload, Upload!TypeOK
  <2>2. handler' \in [Handlers -> Upload!Handling]
    BY <1>11, UploadMoveTypes DEF Upload!CompleteUpload, Upload!TypeOK, Upload!Answers
  <2> QED BY <1>11, <2>1, <2>2 DEF Upload!CompleteUpload, Upload!TypeOK, Upload!receipts
<1>12. CASE Upload!GetAsset(h)
  BY <1>12, UploadMoveTypes DEF Upload!GetAsset, Upload!TypeOK, Upload!receipts, Upload!external, Upload!Answers
<1>13. CASE Upload!Catch(h)
  <2>1. owner' \in Upload!Owner /\ strays' \in SUBSET Upload!Command
    BY <1>13, UploadOwnerTypes, UploadCommandTypes DEF Upload!Catch, Upload!TypeOK
  <2>2. faults' \in 0..MaxFaults
    BY <1>13, UploadFaultTypes DEF Upload!Catch, Upload!TypeOK
  <2>3. handler' \in [Handlers -> Upload!Handling]
    BY <1>13, UploadMoveTypes DEF Upload!Catch, Upload!TypeOK
  <2> QED BY <1>13, <2>1, <2>2, <2>3 DEF Upload!Catch, Upload!TypeOK, Upload!receipts
<1>14. CASE Upload!Reply(h)
  BY <1>14, UploadReceiptStepTypes
<1> QED BY <1>1, <1>2, <1>3, <1>4, <1>5, <1>6, <1>7, <1>8, <1>9, <1>10, <1>11, <1>12, <1>13,
           <1>14 DEF Upload!Step

\* Failures keep the types.
LEMMA UploadFailureTypes ==
    ASSUME Upload!ConstantsAssumption, Upload!TypeOK,
           \/ \E h \in Handlers : Upload!CallFails(h) \/ Upload!StatementFails(h) \/ Upload!Die(h)
           \/ \E c \in strays : Upload!Arrive(c)
    PROVE  Upload!TypeOK'
<1>1. ASSUME NEW h \in Handlers, Upload!CallFails(h) PROVE Upload!TypeOK'
  <2>1. owner' \in Upload!Owner
    BY <1>1, UploadOwnerTypes, UploadCommandTypes DEF Upload!CallFails, Upload!TypeOK
  <2>2. strays' \in SUBSET Upload!Command
    BY <1>1, UploadCommandTypes DEF Upload!CallFails, Upload!TypeOK
  <2>3. handler' \in [Handlers -> Upload!Handling] /\ faults' \in 0..MaxFaults
    BY <1>1, UploadMoveTypes, UploadFaultTypes DEF Upload!CallFails, Upload!TypeOK
  <2> QED BY <1>1, <2>1, <2>2, <2>3 DEF Upload!CallFails, Upload!TypeOK, Upload!receipts
<1>2. ASSUME NEW h \in Handlers, Upload!StatementFails(h) PROVE Upload!TypeOK'
  <2>1. checkpoint' \in Upload!Checkpoint
    BY <1>2 DEF Upload!StatementFails, Upload!TypeOK, Upload!Handling, Upload!Checkpoint,
                Upload!Pending, Upload!Admitted, Upload!Selected
  <2>2. old' \in [ticket: BOOLEAN, checkpoint: BOOLEAN]
    BY <1>2 DEF Upload!StatementFails, Upload!TypeOK
  <2>3. handler' \in [Handlers -> Upload!Handling] /\ faults' \in 0..MaxFaults
    BY <1>2, UploadMoveTypes, UploadFaultTypes DEF Upload!StatementFails, Upload!TypeOK
  <2> QED BY <1>2, <2>1, <2>2, <2>3 DEF Upload!StatementFails, Upload!TypeOK, Upload!external
<1>3. ASSUME NEW h \in Handlers, Upload!Die(h) PROVE Upload!TypeOK'
  BY <1>3, UploadMoveTypes, UploadFaultTypes
     DEF Upload!Die, Upload!TypeOK, Upload!receipts, Upload!external
<1>4. ASSUME NEW c \in strays, Upload!Arrive(c) PROVE Upload!TypeOK'
  <2>1. c \in Upload!Command
    BY DEF Upload!TypeOK
  <2> QED BY <1>4, <2>1, UploadOwnerTypes DEF Upload!Arrive, Upload!TypeOK, Upload!receipts
<1> QED BY <1>1, <1>2, <1>3, <1>4

LEMMA UploadNextTypes ==
    ASSUME Upload!ConstantsAssumption, Upload!TypeOK, [Upload!Next]_(Upload!vars)
    PROVE  Upload!TypeOK'
<1>1. CASE Upload!Next
  BY <1>1, UploadReceiptStepTypes, UploadStepTypes, UploadFailureTypes DEF Upload!Next
<1>2. CASE UNCHANGED Upload!vars
  BY <1>2 DEF Upload!vars, Upload!TypeOK
<1> QED BY <1>1, <1>2

-----------------------------------------------------------------------------
(* Uploads: what a step does to the owner's upload and to the checkpoint *)

\* What the owner does with a command: completed and aborted are final, the
\* versions asked for are those of complete commands, an abort is obeyed once.
LEMMA UploadObeyed ==
    ASSUME owner \in Upload!Owner, NEW c \in Upload!Command, NEW o,
           o = Upload!Obeyed(c) \/ o \in Upload!Begun(c)
    PROVE  /\ owner.state \in {"completed", "aborted"} => o.state = owner.state
           /\ owner.state # "none" => o.state # "none"
           /\ o.state = "aborted" => owner.state = "aborted" \/ c.kind = "abort"
           /\ \A v \in o.asked : v \in owner.asked \/ (c.kind = "complete" /\ v = c.source)
           /\ o.state = "completed" =>
                 \/ owner.state = "completed" /\ o.source = owner.source
                 \/ c.kind = "complete" /\ o.source = c.source
<1>1. c.kind = "create" \/ c.kind = "complete" \/ c.kind = "abort"
  BY DEF Upload!Command
<1>2. CASE o \in Upload!Begun(c)
  BY <1>2 DEF Upload!Begun, Upload!Owner
<1>3. CASE o = Upload!Obeyed(c) /\ c.kind = "create"
  BY <1>3 DEF Upload!Obeyed, Upload!Owner
<1>4. CASE o = Upload!Obeyed(c) /\ c.kind = "complete"
  BY <1>4 DEF Upload!Obeyed, Upload!Acceptable, Upload!Owner
<1>5. CASE o = Upload!Obeyed(c) /\ c.kind = "abort"
  BY <1>5 DEF Upload!Obeyed, Upload!Owner
<1> QED BY <1>1, <1>2, <1>3, <1>4, <1>5

\* A step leaves the owner's upload alone or has it obey a command that was sent.
LEMMA UploadOwnerSteps ==
    ASSUME Upload!TypeOK, [Upload!Next]_(Upload!vars), owner' # owner
    PROVE  \E c \in Upload!Command :
              /\ owner' = Upload!Obeyed(c) \/ owner' \in Upload!Begun(c)
              /\ \/ c \in strays
                 \/ c.kind = "create" /\ \E h \in Handlers : Upload!At(h, "creating")
                 \/ \E h \in Handlers : /\ c = Upload!Complete(handler[h].source)
                                        /\ Upload!At(h, "completing")
                 \/ c.kind = "abort" /\ kind = "project"
<1> DEFINE Goal ==
       \E c \in Upload!Command :
          /\ owner' = Upload!Obeyed(c) \/ owner' \in Upload!Begun(c)
          /\ \/ c \in strays
             \/ c.kind = "create" /\ \E h \in Handlers : Upload!At(h, "creating")
             \/ \E h \in Handlers : /\ c = Upload!Complete(handler[h].source)
                                    /\ Upload!At(h, "completing")
             \/ c.kind = "abort" /\ kind = "project"
<1> SUFFICES Goal
  OBVIOUS
<1>1. ASSUME NEW c \in strays, Upload!Arrive(c) PROVE Goal
  BY <1>1 DEF Upload!Arrive, Upload!TypeOK
<1>2. ASSUME NEW h \in Handlers, Upload!CreateUpload(h) PROVE Goal
  BY <1>2, UploadCommandTypes DEF Upload!CreateUpload, Upload!Create
<1>3. ASSUME NEW h \in Handlers, Upload!CompleteUpload(h) PROVE Goal
  BY <1>3, UploadCommandTypes DEF Upload!CompleteUpload
<1>4. ASSUME NEW h \in Handlers, Upload!CallFails(h) PROVE Goal
  BY <1>4, UploadCommandTypes DEF Upload!CallFails
<1>5. ASSUME NEW h \in Handlers, Upload!Catch(h) PROVE Goal
  BY <1>5, UploadCommandTypes DEF Upload!Catch, Upload!Aborts, Upload!Abort
<1> HIDE DEF Goal
<1>6. ASSUME NEW h \in Handlers, Upload!Step(h) PROVE Goal
  BY <1>2, <1>3, <1>5, <1>6
     DEF Upload!Step, Upload!Restore, Upload!Claim, Upload!Admit, Upload!ReadBack,
         Upload!Release, Upload!Status, Upload!Decide, Upload!Put, Upload!Select,
         Upload!GetAsset, Upload!Reply, Upload!external
<1> QED BY <1>1, <1>4, <1>6
        DEF Upload!Next, Upload!Begin, Upload!StatementFails, Upload!ReplyLost, Upload!Die,
            Upload!Ages, Upload!external, Upload!vars

\* A selected checkpoint stays, and the rest of its life is one way.
LEMMA UploadRowSteps ==
    ASSUME Upload!TypeOK, [Upload!Next]_(Upload!vars)
    PROVE  /\ checkpoint.stage = "selected" => checkpoint' = checkpoint
           /\ Upload!Stored' => Upload!Stored \/ \E h \in Handlers : Upload!At(h, "admitting")
<1> DEFINE Goal ==
       /\ checkpoint.stage = "selected" => checkpoint' = checkpoint
       /\ Upload!Stored' => Upload!Stored \/ \E h \in Handlers : Upload!At(h, "admitting")
<1> SUFFICES Goal
  OBVIOUS
<1>1. ASSUME checkpoint' = checkpoint PROVE Goal
  BY <1>1 DEF Upload!Stored
<1>2. ASSUME NEW h \in Handlers, Upload!Claim(h) PROVE Goal
  BY <1>2 DEF Upload!Claim, Upload!Free, Upload!Stored, Upload!Pending, Upload!NoCheckpoint
<1>3. ASSUME NEW h \in Handlers, Upload!Admit(h) PROVE Goal
  BY <1>3 DEF Upload!Admit, Upload!Stored
<1>4. ASSUME NEW h \in Handlers, Upload!Release(h) PROVE Goal
  BY <1>4 DEF Upload!Release, Upload!Releases, Upload!Stored, Upload!Pending,
              Upload!NoCheckpoint
<1>5. ASSUME NEW h \in Handlers, Upload!Select(h) PROVE Goal
  BY <1>5 DEF Upload!Select, Upload!Unselected, Upload!Stored, Upload!Admitted
<1>6. ASSUME NEW h \in Handlers, Upload!StatementFails(h) PROVE Goal
  BY <1>6 DEF Upload!StatementFails, Upload!Free, Upload!Unselected, Upload!Stored, Upload!Pending,
              Upload!Admitted, Upload!NoCheckpoint
<1> HIDE DEF Goal
<1>7. ASSUME NEW h \in Handlers, Upload!Step(h) PROVE Goal
  BY <1>1, <1>2, <1>3, <1>4, <1>5, <1>7
     DEF Upload!Step, Upload!Restore, Upload!CreateUpload, Upload!ReadBack, Upload!Status,
         Upload!Decide, Upload!Put, Upload!CompleteUpload, Upload!GetAsset, Upload!Catch,
         Upload!Reply, Upload!receipts
<1> QED BY <1>1, <1>6, <1>7
        DEF Upload!Next, Upload!Begin, Upload!CallFails, Upload!ReplyLost, Upload!Die,
            Upload!Arrive, Upload!Ages, Upload!receipts, Upload!vars

\* Commands are left on their way by a call that fails and by an abort.
LEMMA UploadStraySteps ==
    ASSUME Upload!TypeOK, [Upload!Next]_(Upload!vars), NEW c \in strays', c \notin strays
    PROVE  \/ c.kind = "create"
           \/ \E h \in Handlers : /\ c = Upload!Complete(handler[h].source)
                                  /\ Upload!At(h, "completing") /\ checkpoint' = checkpoint
           \/ c.kind = "abort" /\ kind = "project"
<1> DEFINE Goal ==
       \/ c.kind = "create"
       \/ \E h \in Handlers : /\ c = Upload!Complete(handler[h].source)
                              /\ Upload!At(h, "completing") /\ checkpoint' = checkpoint
       \/ c.kind = "abort" /\ kind = "project"
<1> SUFFICES Goal
  OBVIOUS
<1>1. ASSUME NEW h \in Handlers, Upload!CallFails(h) PROVE Goal
  BY <1>1 DEF Upload!CallFails, Upload!Sent, Upload!Create, Upload!receipts
<1>2. ASSUME NEW h \in Handlers, Upload!Catch(h) PROVE Goal
  BY <1>2 DEF Upload!Catch, Upload!Aborts, Upload!Abort
<1> HIDE DEF Goal
<1>3. ASSUME NEW h \in Handlers, Upload!Step(h) PROVE Goal
  BY <1>2, <1>3
     DEF Upload!Step, Upload!Restore, Upload!Claim, Upload!CreateUpload, Upload!Admit,
         Upload!ReadBack, Upload!Release, Upload!Status, Upload!Decide, Upload!Put,
         Upload!Select, Upload!CompleteUpload, Upload!GetAsset, Upload!Reply, Upload!external
<1> QED BY <1>1, <1>3
        DEF Upload!Next, Upload!Begin, Upload!StatementFails, Upload!ReplyLost, Upload!Die,
            Upload!Arrive, Upload!Ages, Upload!external, Upload!vars

-----------------------------------------------------------------------------
(* Uploads: where a request is and what it says *)

\* What a request must have seen to be where it is.
UploadArrives(h) ==
    /\ handler'[h].pc = "completing" => checkpoint' = Upload!Selected(handler'[h].source)
    /\ handler'[h].pc = "fetching" => owner'.state = "completed"
    /\ handler'[h].pc = "admitting" => owner'.state # "none"
    /\ handler'[h].pc = "answering" =>
          /\ handler'[h].answer = "asset" => Upload!At(h, "fetching")
          /\ handler'[h].answer = "gone" => owner.state = "aborted"
          /\ handler'[h].answer = "conflict" =>
                /\ Upload!At(h, "completing")
                /\ ~Upload!Acceptable(Upload!Complete(handler[h].source))

LEMMA UploadMoves ==
    ASSUME Upload!TypeOK, NEW h \in Handlers
    PROVE  /\ \A pc \in {"begun", "claiming", "creating", "reading", "releasing", "asking",
                         "deciding", "putting", "selecting", "failing"} :
                 Upload!Goes(h, pc) => UploadArrives(h)
           /\ Upload!Fails(h) => UploadArrives(h)
           /\ \A answer \in {"busy", "failed"} : Upload!Says(h, answer) => UploadArrives(h)
           /\ handler' = [handler EXCEPT ![h] = Upload!Idle] => UploadArrives(h)
<1>1. ASSUME NEW pc \in {"begun", "claiming", "creating", "reading", "releasing", "asking",
                         "deciding", "putting", "selecting", "failing"},
             Upload!Goes(h, pc)
      PROVE  UploadArrives(h)
  <2>1. handler'[h].pc = pc
    BY <1>1 DEF Upload!Goes, Upload!TypeOK, Upload!Handling
  <2> QED BY <2>1 DEF UploadArrives
<1>2. Upload!Fails(h) => UploadArrives(h)
  BY <1>1 DEF Upload!Fails
<1>3. ASSUME NEW answer \in {"busy", "failed"}, Upload!Says(h, answer) PROVE UploadArrives(h)
  <2>1. handler'[h].pc = "answering" /\ handler'[h].answer = answer
    BY <1>3 DEF Upload!Says, Upload!TypeOK, Upload!Handling
  <2> QED BY <2>1 DEF UploadArrives
<1>4. ASSUME handler' = [handler EXCEPT ![h] = Upload!Idle] PROVE UploadArrives(h)
  BY <1>4 DEF Upload!Idle, UploadArrives, Upload!TypeOK
<1> QED BY <1>1, <1>2, <1>3, <1>4

\* A step leaves a request where it is, or it is one of its own.
LEMMA UploadOthersWait ==
    ASSUME Upload!TypeOK, [Upload!Next]_(Upload!vars), NEW h \in Handlers,
           handler'[h] # handler[h]
    PROVE  \/ Upload!Begin(h) \/ Upload!Step(h) \/ Upload!CallFails(h)
           \/ Upload!StatementFails(h) \/ Upload!ReplyLost(h) \/ Upload!Die(h)
<1>1. ASSUME NEW g \in Handlers, g # h, Upload!Step(g) PROVE FALSE
  <2>1. CASE \/ Upload!Restore(g) \/ Upload!Claim(g) \/ Upload!CreateUpload(g) \/ Upload!Admit(g)
             \/ Upload!ReadBack(g) \/ Upload!Release(g)
    BY <1>1, <2>1 DEF Upload!Restore, Upload!Claim, Upload!CreateUpload, Upload!Admit,
                      Upload!ReadBack, Upload!Release, Upload!Goes, Upload!Says, Upload!Fails,
                      Upload!TypeOK
  <2>2. CASE Upload!Status(g)
    <3>1. owner.state \in {"none", "pending", "completed", "aborted"}
      BY DEF Upload!TypeOK, Upload!Owner
    <3> QED BY <1>1, <2>2, <3>1 DEF Upload!Status, Upload!Says, Upload!TypeOK
  <2>3. CASE \/ Upload!Decide(g) \/ Upload!Put(g) \/ Upload!Select(g)
             \/ Upload!CompleteUpload(g) \/ Upload!GetAsset(g) \/ Upload!Catch(g)
             \/ Upload!Reply(g)
    BY <1>1, <2>3 DEF Upload!Decide, Upload!Put, Upload!Select, Upload!CompleteUpload,
                      Upload!GetAsset, Upload!Catch, Upload!Reply, Upload!Goes, Upload!Says,
                      Upload!Fails, Upload!TypeOK
  <2> QED BY <1>1, <2>1, <2>2, <2>3 DEF Upload!Step
<1>2. ASSUME NEW g \in Handlers, g # h,
             \/ Upload!Begin(g) \/ Upload!CallFails(g) \/ Upload!StatementFails(g)
             \/ Upload!ReplyLost(g) \/ Upload!Die(g)
      PROVE  FALSE
  BY <1>2 DEF Upload!Begin, Upload!CallFails, Upload!StatementFails, Upload!ReplyLost,
              Upload!Die, Upload!Goes, Upload!TypeOK
<1>3. CASE \/ \E c \in strays : Upload!Arrive(c)
           \/ \E which \in {"ticket", "checkpoint"} : Upload!Ages(which)
           \/ UNCHANGED Upload!vars
  BY <1>3 DEF Upload!Arrive, Upload!Ages, Upload!vars
<1> QED BY <1>1, <1>2, <1>3 DEF Upload!Next

LEMMA UploadArrival ==
    ASSUME Upload!TypeOK, [Upload!Next]_(Upload!vars), NEW h \in Handlers,
           handler'[h] # handler[h]
    PROVE  UploadArrives(h)
<1>1. CASE Upload!Restore(h)
  <2>1. handler'[h].pc \in {"asking", "claiming"}
    BY <1>1 DEF Upload!Restore, Upload!TypeOK, Upload!Handling
  <2> QED BY <2>1 DEF UploadArrives
<1>2. CASE Upload!Claim(h)
  BY <1>2, UploadMoves DEF Upload!Claim
<1>3. CASE Upload!CreateUpload(h)
  <2>1. handler'[h].pc = "admitting"
    BY <1>3 DEF Upload!CreateUpload, Upload!TypeOK, Upload!Handling
  <2>2. owner'.state # "none"
    BY <1>3 DEF Upload!CreateUpload, Upload!Obeyed, Upload!Create, Upload!TypeOK, Upload!Owner
  <2> QED BY <2>1, <2>2 DEF UploadArrives
<1>4. CASE Upload!Admit(h)
  BY <1>4, UploadMoves DEF Upload!Admit
<1>5. CASE Upload!ReadBack(h)
  BY <1>5, UploadMoves DEF Upload!ReadBack
<1>6. CASE Upload!Release(h)
  BY <1>6, UploadMoves DEF Upload!Release
<1>7. CASE Upload!Status(h)
  <2>1. owner' = owner /\ owner.state \in {"none", "pending", "completed", "aborted"}
    BY <1>7 DEF Upload!Status, Upload!external, Upload!TypeOK, Upload!Owner
  <2>2. CASE owner.state = "completed"
    <3>1. handler'[h].pc = "fetching"
      BY <1>7, <2>2 DEF Upload!Status, Upload!TypeOK, Upload!Handling
    <3> QED BY <2>1, <2>2, <3>1 DEF UploadArrives
  <2>3. CASE owner.state = "aborted"
    <3>1. handler'[h].pc = "answering" /\ handler'[h].answer = "gone"
      BY <1>7, <2>3 DEF Upload!Status, Upload!Says, Upload!TypeOK, Upload!Handling
    <3> QED BY <2>3, <3>1 DEF UploadArrives
  <2>4. CASE owner.state \in {"none", "pending"}
    <3>1. handler'[h].pc = "deciding"
      <4>1. handler' = [handler EXCEPT ![h].pc = "deciding", ![h].attempted = FALSE,
                                       ![h].seen = owner.source]
        BY <1>7, <2>4 DEF Upload!Status
      <4> QED BY <4>1 DEF Upload!TypeOK, Upload!Handling
    <3> QED BY <3>1 DEF UploadArrives
  <2> QED BY <2>1, <2>2, <2>3, <2>4
<1>8. CASE Upload!Decide(h)
  <2>1. CASE Upload!Goes(h, "putting") \/ Upload!Fails(h)
    BY <2>1, UploadMoves
  <2>2. CASE ~(Upload!Goes(h, "putting") \/ Upload!Fails(h))
    <3>1. /\ checkpoint.stage = "selected" /\ checkpoint' = checkpoint
          /\ handler'[h].pc = "completing" /\ handler'[h].source = checkpoint.source
      BY <1>8, <2>2 DEF Upload!Decide, Upload!TypeOK, Upload!Handling, Upload!receipts
    <3>2. checkpoint = Upload!Selected(checkpoint.source)
      BY <3>1 DEF Upload!Selected, Upload!TypeOK, Upload!Checkpoint
    <3> QED BY <3>1, <3>2 DEF UploadArrives
  <2> QED BY <2>1, <2>2
<1>9. CASE Upload!Put(h)
  <2>1. handler'[h].pc = "selecting"
    BY <1>9 DEF Upload!Put, Upload!TypeOK, Upload!Handling
  <2> QED BY <2>1 DEF UploadArrives
<1>10. CASE Upload!Select(h)
  <2>1. CASE checkpoint' = Upload!Selected(handler[h].source)
    <3>1. handler'[h].pc = "completing" /\ handler'[h].source = handler[h].source
      BY <1>10, <2>1 DEF Upload!Select, Upload!Goes, Upload!TypeOK, Upload!Handling
    <3> QED BY <2>1, <3>1 DEF UploadArrives
  <2>2. CASE checkpoint' # Upload!Selected(handler[h].source)
    BY <1>10, <2>2, UploadMoves DEF Upload!Select
  <2> QED BY <2>1, <2>2
<1>11. CASE Upload!CompleteUpload(h)
  <2>1. CASE Upload!Acceptable(Upload!Complete(handler[h].source))
    <3>1. handler'[h].pc = "fetching"
      BY <1>11, <2>1 DEF Upload!CompleteUpload, Upload!Goes, Upload!TypeOK, Upload!Handling
    <3>2. owner'.state = "completed"
      BY <1>11, <2>1 DEF Upload!CompleteUpload, Upload!Obeyed, Upload!Complete, Upload!TypeOK,
                         Upload!Owner
    <3> QED BY <3>1, <3>2 DEF UploadArrives
  <2>2. CASE ~Upload!Acceptable(Upload!Complete(handler[h].source))
    <3>1. handler'[h].pc = "answering" /\ handler'[h].answer = "conflict"
      BY <1>11, <2>2 DEF Upload!CompleteUpload, Upload!Says, Upload!TypeOK, Upload!Handling
    <3> QED BY <1>11, <2>2, <3>1 DEF UploadArrives, Upload!CompleteUpload
  <2> QED BY <2>1, <2>2
<1>12. CASE Upload!GetAsset(h)
  <2>1. handler'[h].pc = "answering" /\ handler'[h].answer = "asset"
    BY <1>12 DEF Upload!GetAsset, Upload!Says, Upload!TypeOK, Upload!Handling
  <2> QED BY <1>12, <2>1 DEF UploadArrives, Upload!GetAsset
<1>13. CASE Upload!Catch(h) \/ Upload!Reply(h) \/ Upload!Begin(h)
  BY <1>13, UploadMoves DEF Upload!Catch, Upload!Reply, Upload!Begin
<1>14. CASE Upload!CallFails(h) \/ Upload!StatementFails(h) \/ Upload!ReplyLost(h) \/ Upload!Die(h)
  BY <1>14, UploadMoves DEF Upload!CallFails, Upload!StatementFails, Upload!ReplyLost, Upload!Die
<1> QED BY <1>1, <1>2, <1>3, <1>4, <1>5, <1>6, <1>7, <1>8, <1>9, <1>10, <1>11, <1>12, <1>13,
           <1>14, UploadOthersWait DEF Upload!Step

-----------------------------------------------------------------------------
(* Uploads: one selection, and answers that are true *)

LEMMA UploadSelectionKept ==
    ASSUME Upload!TypeOK, UploadSelection, [Upload!Next]_(Upload!vars)
    PROVE  UploadSelection'
<1>1. ASSUME NEW v, checkpoint = Upload!Selected(v) PROVE checkpoint' = Upload!Selected(v)
  BY <1>1, UploadRowSteps DEF Upload!Selected
<1>2. ASSUME NEW h \in Handlers, handler'[h].pc = "completing"
      PROVE  checkpoint' = Upload!Selected(handler'[h].source)
  <2>1. CASE handler'[h] = handler[h]
    BY <1>1, <1>2, <2>1 DEF UploadSelection, Upload!At
  <2>2. CASE handler'[h] # handler[h]
    BY <1>2, <2>2, UploadArrival DEF UploadArrives
  <2> QED BY <2>1, <2>2
<1>3. ASSUME NEW c \in Upload!Command, c.kind = "complete",
             \/ c \in strays
             \/ c.kind = "create"
             \/ \E h \in Handlers : /\ c = Upload!Complete(handler[h].source)
                                    /\ Upload!At(h, "completing")
             \/ c.kind = "abort" /\ kind = "project"
      PROVE  checkpoint = Upload!Selected(c.source)
  BY <1>3 DEF UploadSelection, Upload!Complete
<1>4. ASSUME NEW c \in strays', c.kind = "complete"
      PROVE  checkpoint' = Upload!Selected(c.source)
  <2>1. CASE c \in strays
    <3>1. checkpoint = Upload!Selected(c.source)
      BY <1>4, <2>1 DEF UploadSelection
    <3> QED BY <1>1, <3>1
  <2>2. CASE c \notin strays
    <3>1. PICK h \in Handlers : /\ c = Upload!Complete(handler[h].source)
                                /\ Upload!At(h, "completing") /\ checkpoint' = checkpoint
      BY <1>4, <2>2, UploadStraySteps
    <3> QED BY <3>1 DEF UploadSelection, Upload!Complete
  <2> QED BY <2>1, <2>2
<1>5. /\ \A v \in owner'.asked : checkpoint' = Upload!Selected(v)
      /\ owner'.state = "completed" => checkpoint' = Upload!Selected(owner'.source)
  <2>1. CASE owner' = owner
    BY <1>1, <2>1 DEF UploadSelection
  <2>2. CASE owner' # owner
    <3>1. PICK c \in Upload!Command :
             /\ owner' = Upload!Obeyed(c) \/ owner' \in Upload!Begun(c)
             /\ \/ c \in strays
                \/ c.kind = "create" /\ \E h \in Handlers : Upload!At(h, "creating")
                \/ \E h \in Handlers : /\ c = Upload!Complete(handler[h].source)
                                       /\ Upload!At(h, "completing")
                \/ c.kind = "abort" /\ kind = "project"
      BY <2>2, UploadOwnerSteps
    <3>2. c.kind = "complete" => checkpoint' = Upload!Selected(c.source)
      BY <1>1, <1>3, <3>1
    <3>3. /\ \A v \in owner'.asked : v \in owner.asked \/ (c.kind = "complete" /\ v = c.source)
          /\ owner'.state = "completed" =>
                \/ owner.state = "completed" /\ owner'.source = owner.source
                \/ c.kind = "complete" /\ owner'.source = c.source
      BY <3>1, UploadObeyed DEF Upload!TypeOK
    <3>4. /\ \A v \in owner.asked : checkpoint' = Upload!Selected(v)
          /\ owner.state = "completed" => checkpoint' = Upload!Selected(owner.source)
      BY <1>1 DEF UploadSelection
    <3> QED BY <3>2, <3>3, <3>4
  <2> QED BY <2>1, <2>2
<1>6. \A v : Upload!Selected(v)' = Upload!Selected(v)
  BY DEF Upload!Selected
<1> QED BY <1>2, <1>4, <1>5 DEF UploadSelection, Upload!At, Upload!Selected

\* An upload that is there stays, completed and aborted are final.
LEMMA UploadOwnerFinal ==
    ASSUME Upload!TypeOK, UploadVerdict, [Upload!Next]_(Upload!vars)
    PROVE  /\ owner.state \in {"completed", "aborted"} => owner'.state = owner.state
           /\ owner.state # "none" => owner'.state # "none"
           /\ owner'.state = "aborted" => kind = "project"
<1>1. CASE owner' = owner
  BY <1>1 DEF UploadVerdict
<1>2. CASE owner' # owner
  <2>1. PICK c \in Upload!Command :
           /\ owner' = Upload!Obeyed(c) \/ owner' \in Upload!Begun(c)
           /\ \/ c \in strays
              \/ c.kind = "create" /\ \E h \in Handlers : Upload!At(h, "creating")
              \/ \E h \in Handlers : /\ c = Upload!Complete(handler[h].source)
                                     /\ Upload!At(h, "completing")
              \/ c.kind = "abort" /\ kind = "project"
    BY <1>2, UploadOwnerSteps
  <2>2. c.kind = "abort" => kind = "project"
    BY <2>1 DEF UploadVerdict, Upload!Complete
  <2> QED BY <2>1, <2>2, UploadObeyed DEF Upload!TypeOK, UploadVerdict
<1> QED BY <1>1, <1>2

\* The stored answer is one that a request gives.
LEMMA UploadTicketSteps ==
    ASSUME Upload!TypeOK, [Upload!Next]_(Upload!vars), ticket' # ticket,
           NEW answer \in Upload!Answers, ticket' = answer
    PROVE  \E h \in Handlers : UploadSays(h, answer)
<1>1. answer \notin {"none", "pending"}
  BY DEF Upload!Answers
<1>2. ASSUME NEW h \in Handlers, Upload!Reply(h) \/ Upload!ReplyLost(h)
      PROVE  UploadSays(h, answer)
  BY <1>1, <1>2 DEF Upload!Reply, Upload!ReplyLost, Upload!Released, UploadSays
<1>3. ASSUME NEW h \in Handlers, Upload!Begin(h) PROVE FALSE
  BY <1>1, <1>3 DEF Upload!Begin
<1>4. ASSUME NEW h \in Handlers, Upload!Step(h) PROVE UploadSays(h, answer)
  BY <1>2, <1>4
     DEF Upload!Step, Upload!Restore, Upload!Claim, Upload!CreateUpload, Upload!Admit,
         Upload!ReadBack, Upload!Release, Upload!Status, Upload!Decide, Upload!Put,
         Upload!Select, Upload!CompleteUpload, Upload!GetAsset, Upload!Catch, Upload!receipts
<1> QED BY <1>2, <1>3, <1>4
        DEF Upload!Next, Upload!CallFails, Upload!StatementFails, Upload!Die, Upload!Arrive,
            Upload!Ages, Upload!receipts, Upload!vars

LEMMA UploadKindStays ==
    ASSUME [Upload!Next]_(Upload!vars)
    PROVE  kind' = kind
BY DEF Upload!Next, Upload!Begin, Upload!Step, Upload!Restore, Upload!Claim, Upload!CreateUpload,
       Upload!Admit, Upload!ReadBack, Upload!Release, Upload!Status, Upload!Decide, Upload!Put,
       Upload!Select, Upload!CompleteUpload, Upload!GetAsset, Upload!Catch, Upload!Reply,
       Upload!CallFails, Upload!StatementFails, Upload!ReplyLost, Upload!Die, Upload!Arrive,
       Upload!Ages, Upload!receipts, Upload!vars

LEMMA UploadVerdictKept ==
    ASSUME Upload!TypeOK, UploadSelection, UploadVerdict, [Upload!Next]_(Upload!vars)
    PROVE  UploadVerdict'
<1>1. /\ owner.state \in {"completed", "aborted"} => owner'.state = owner.state
      /\ owner.state # "none" => owner'.state # "none"
      /\ owner'.state = "aborted" => kind = "project"
      /\ kind' = kind
  BY UploadOwnerFinal, UploadKindStays
<1>2. ASSUME NEW h \in Handlers
      PROVE  /\ handler'[h].pc = "fetching" => owner'.state = "completed"
             /\ handler'[h].pc = "admitting" => owner'.state # "none"
             /\ handler'[h].pc = "answering" =>
                   /\ handler'[h].answer = "asset" => owner'.state = "completed"
                   /\ handler'[h].answer \in {"gone", "conflict"} => owner'.state = "aborted"
  <2>1. CASE handler'[h] = handler[h]
    BY <1>1, <2>1 DEF UploadVerdict, UploadSays, Upload!At
  <2>2. CASE handler'[h] # handler[h]
    <3>1. UploadArrives(h)
      BY <2>2, UploadArrival
    <3>2. /\ handler'[h].pc = "fetching" => owner'.state = "completed"
          /\ handler'[h].pc = "admitting" => owner'.state # "none"
      BY <3>1 DEF UploadArrives
    <3>3. handler'[h].pc = "answering" /\ handler'[h].answer = "asset"
             => owner'.state = "completed"
      BY <1>1, <3>1 DEF UploadArrives, UploadVerdict
    <3>4. handler'[h].pc = "answering" /\ handler'[h].answer = "gone"
             => owner'.state = "aborted"
      BY <1>1, <3>1 DEF UploadArrives
    <3>5. ASSUME handler'[h].pc = "answering", handler'[h].answer = "conflict"
          PROVE  owner'.state = "aborted"
      <4>1. /\ Upload!At(h, "completing")
            /\ ~Upload!Acceptable(Upload!Complete(handler[h].source))
        BY <3>1, <3>5 DEF UploadArrives
      <4>2. checkpoint = Upload!Selected(handler[h].source)
        BY <4>1 DEF UploadSelection
      <4>3. \A v \in owner.asked : v = handler[h].source
        BY <4>2 DEF UploadSelection, Upload!Selected
      <4>4. owner.state \notin {"pending", "completed"}
        BY <4>1, <4>3 DEF Upload!Acceptable, Upload!Complete
      <4>5. owner.state # "none"
        BY <4>2 DEF UploadVerdict, Upload!Stored, Upload!Selected
      <4> QED BY <1>1, <4>4, <4>5 DEF Upload!TypeOK, Upload!Owner
    <3> QED BY <3>2, <3>3, <3>4, <3>5
  <2> QED BY <2>1, <2>2
<1>3. /\ ticket' = "asset" => owner'.state = "completed"
      /\ ticket' \in {"gone", "conflict"} => owner'.state = "aborted"
  <2>1. CASE ticket' = ticket
    BY <1>1, <2>1 DEF UploadVerdict
  <2>2. CASE ticket' # ticket
    BY <1>1, <2>2, UploadTicketSteps DEF UploadVerdict, Upload!Answers
  <2> QED BY <2>1, <2>2
<1>4. Upload!Stored' => owner'.state # "none"
  BY <1>1, UploadRowSteps DEF UploadVerdict
<1>5. ASSUME NEW c \in strays', c.kind = "abort" PROVE kind = "project"
  BY <1>5, UploadStraySteps DEF UploadVerdict, Upload!Complete
<1> QED BY <1>1, <1>2, <1>3, <1>4, <1>5 DEF UploadVerdict, UploadSays, Upload!At

LEMMA UploadInitInv == ASSUME Upload!ConstantsAssumption, Upload!Init PROVE UploadInv
<1>1. UploadSelection
  BY DEF Upload!Init, UploadSelection, Upload!At, Upload!Idle
<1>2. UploadVerdict
  BY DEF Upload!Init, UploadVerdict, UploadSays, Upload!At, Upload!Idle, Upload!Stored,
         Upload!NoCheckpoint
<1> QED BY <1>1, <1>2, UploadInitTypes DEF UploadInv

\* UploadInv: the checkpoint, the complete commands and the owner's upload have one
\* version; requests and receipts say what became of it (the checkpoint's
\* compare-and-set and the status check of project-resource-upload.ts:84-131).
THEOREM UploadCorrect == ASSUME Upload!ConstantsAssumption PROVE Upload!Spec => []UploadInv
<1>1. Upload!Init => UploadInv
  BY UploadInitInv
<1>2. UploadInv /\ [Upload!Next]_(Upload!vars) => UploadInv'
  BY UploadNextTypes, UploadSelectionKept, UploadVerdictKept DEF UploadInv
<1> QED BY <1>1, <1>2, PTL DEF Upload!Spec

\* UploadSound: however requests of a key overlap, are lost and start again, the
\* owner gets complete commands with one version, the one the checkpoint has, and
\* the stored answer is what became of the upload; a personal file is never given
\* up (project-resource-upload.ts:84-131, personal-file-upload.ts).
THEOREM UploadsAreSound == ASSUME Upload!ConstantsAssumption PROVE Upload!Spec => []UploadSound
<1>1. UploadInv => UploadSound
  <2>1. UploadSelection => OneSelection
    BY DEF UploadSelection, OneSelection, Upload!Selected, Selected
  <2>2. UploadVerdict => AnswersTrue
    BY DEF UploadVerdict, AnswersTrue
  <2> QED BY <2>1, <2>2 DEF UploadInv, UploadSound
<1> QED BY <1>1, UploadCorrect, PTL

-----------------------------------------------------------------------------
(* SkillHandoff *)

\* The stages a receipt can be at once it has been at `stage`.
HandoffFrom(stage) ==
    CASE stage = "frozen" -> {"frozen", "created", "admitted", "selected", "completed", "done"}
      [] stage = "created" -> {"created", "admitted", "selected", "completed", "done"}
      [] stage = "admitted" -> {"admitted", "selected", "completed", "done"}
      [] stage = "selected" -> {"selected", "completed", "done"}
      [] stage = "completed" -> {"completed", "done"}
      [] stage = "done" -> {"done"}
      [] OTHER -> {}

\* The receipt as it was at an earlier stage.  The draft's versions are what the
\* four commands have made of it, one each.
HandoffAsOf(stage) ==
    [stage |-> stage, payload |-> receipt.payload,
     initial |-> IF stage \in HandoffFrom("created") THEN 1 ELSE 0,
     begun |-> IF stage \in HandoffFrom("admitted") THEN 2 ELSE 0,
     source |-> IF stage \in HandoffFrom("selected") THEN receipt.source ELSE 0,
     ended |-> IF stage \in HandoffFrom("completed") THEN 3 ELSE 0,
     result |-> IF stage = "done" THEN receipt.result ELSE 0]

\* A receipt some request has read or stored: the row as it was.
HandoffRead(known) ==
    receipt.stage \in HandoffFrom(known.stage) /\ known = HandoffAsOf(known.stage)

\* Receipts change from stage to stage, and keep what they have.
HandoffRow ==
    \/ receipt = Handoff!NoReceipt
    \/ \E p \in Payloads : receipt = Handoff!Pending(p)
    \/ /\ HandoffRead(receipt) /\ receipt.payload \in Payloads
       /\ receipt.stage \in HandoffFrom("selected") => receipt.source # 0

HandoffMade(k) == \E m \in draft.made : m.command.kind = k

\* The only command of a kind that is ever sent, and the stages it can be sent from.
HandoffCommand(k) ==
    [kind |-> k, payload |-> receipt.payload,
     expected |-> CASE k = "create" -> 0 [] k = "begin" -> 1
                    [] k = "complete" -> 2 [] k = "validate" -> 3,
     source |-> IF k = "complete" THEN receipt.source ELSE 0]

HandoffSent(c) ==
    /\ c.kind \in Handoff!Kinds /\ c = HandoffCommand(c.kind)
    /\ receipt.stage \in CASE c.kind = "create" -> HandoffFrom("frozen")
                           [] c.kind = "begin" -> HandoffFrom("created")
                           [] c.kind = "complete" -> HandoffFrom("selected")
                           [] c.kind = "validate" -> HandoffFrom("completed")

\* Every command is the one of its kind; a checkpoint stands for one that was executed.
HandoffOwner ==
    /\ \A c \in strays : HandoffSent(c)
    /\ \A m \in draft.made : HandoffSent(m.command) /\ m.version = m.command.expected + 1
    /\ receipt.stage \in HandoffFrom("created") => HandoffMade("create")
    /\ receipt.stage \in HandoffFrom("admitted") => HandoffMade("begin")
    /\ receipt.stage \in HandoffFrom("completed") => HandoffMade("complete")
    /\ receipt.stage = "done" => HandoffMade("validate")
    /\ draft.edited => HandoffMade("validate")
    /\ draft.version = IF draft.edited THEN 5
                       ELSE IF HandoffMade("validate") THEN 4
                       ELSE IF HandoffMade("complete") THEN 3
                       ELSE IF HandoffMade("begin") THEN 2
                       ELSE IF HandoffMade("create") THEN 1
                       ELSE 0
    /\ draft.source = IF HandoffMade("complete") THEN receipt.source ELSE 0
    /\ draft.refused = {}

\* What a request that has the receipt `known` may store next.
HandoffNext(known, next) ==
    \/ \E p \in Payloads : known = Handoff!Pending(p) /\ next = Handoff!Frozen(known)
    \/ /\ known.stage = "frozen"
       /\ next = [known EXCEPT !.stage = "created", !.initial = next.initial]
    \/ /\ known.stage = "created"
       /\ next = [known EXCEPT !.stage = "admitted", !.begun = next.begun]
    \/ /\ known.stage = "admitted" /\ next.source # 0
       /\ next = [known EXCEPT !.stage = "selected", !.source = next.source]
    \/ /\ known.stage = "selected"
       /\ next = [known EXCEPT !.stage = "completed", !.ended = next.ended]
    \/ /\ known.stage = "completed"
       /\ next = [known EXCEPT !.stage = "done", !.result = next.result]

\* The command between the two was executed, and led to the version that is stored.
HandoffProven(known, next) ==
    /\ known.stage = "frozen" => HandoffMade("create") /\ next.initial = 1
    /\ known.stage = "created" => HandoffMade("begin") /\ next.begun = 2
    /\ known.stage = "selected" => HandoffMade("complete") /\ next.ended = 3
    /\ known.stage = "completed" => HandoffMade("validate")

\* What a request knows of the receipt is what it was, and what it wants to store
\* is true if the receipt is still the same.
HandoffHandler(x) ==
    /\ x.pc \in {"claiming", "claimed"} => x.known.payload \in Payloads
    /\ x.pc = "working" =>
          /\ x.known.stage \in {"frozen", "created", "admitted", "selected", "completed"}
          /\ HandoffRead(x.known)
    /\ x.pc = "checked" =>
          x.known.stage \in {"admitted", "selected", "completed"} /\ HandoffRead(x.known)
    /\ x.pc \in {"storing", "verifying"} =>
          /\ HandoffNext(x.known, x.next)
          /\ x.known.stage # "pending" => HandoffRead(x.known)
    /\ x.pc = "storing" /\ receipt = x.known => HandoffProven(x.known, x.next)

\* Requests are told what the receipt says when it is done.
HandoffTold ==
    \A t \in told : receipt.stage = "done" /\ t = [payload |-> receipt.payload, result |-> receipt.result]

HandoffInv ==
    /\ Handoff!TypeOK
    /\ HandoffRow
    /\ HandoffOwner
    /\ \A h \in Handlers : HandoffHandler(handler[h])
    /\ HandoffTold

-----------------------------------------------------------------------------
(* SkillHandoff: stages and receipts *)

LEMMA HandoffStages ==
    /\ HandoffFrom("none") = {} /\ HandoffFrom("pending") = {}
    /\ HandoffFrom("frozen") =
          {"frozen", "created", "admitted", "selected", "completed", "done"}
    /\ HandoffFrom("created") = {"created", "admitted", "selected", "completed", "done"}
    /\ HandoffFrom("admitted") = {"admitted", "selected", "completed", "done"}
    /\ HandoffFrom("selected") = {"selected", "completed", "done"}
    /\ HandoffFrom("completed") = {"completed", "done"}
    /\ HandoffFrom("done") = {"done"}
BY DEF HandoffFrom

\* Stages are in order.
LEMMA HandoffOrder ==
    /\ \A s : HandoffFrom(s) # {} => s \in HandoffFrom("frozen")
    /\ \A s, t : s \in HandoffFrom(t) => HandoffFrom(s) \subseteq HandoffFrom(t)
    /\ \A s, t : s \in HandoffFrom(t) /\ t \in HandoffFrom(s) => s = t
<1>1. \A s : HandoffFrom(s) # {} => s \in HandoffFrom("frozen")
  BY DEF HandoffFrom
<1>2. ASSUME NEW s, NEW t, s \in HandoffFrom(t) PROVE HandoffFrom(s) \subseteq HandoffFrom(t)
  BY <1>2, HandoffStages DEF HandoffFrom
<1>3. ASSUME NEW s, NEW t, s \in HandoffFrom(t), t \in HandoffFrom(s) PROVE s = t
  BY <1>3 DEF HandoffFrom
<1> QED BY <1>1, <1>2, <1>3

\* A receipt that is past its claim.
LEMMA HandoffRowRead ==
    /\ Handoff!NoReceipt.stage = "none"
    /\ \A p \in Payloads :
          Handoff!Pending(p).stage = "pending" /\ Handoff!Pending(p).payload = p
    /\ HandoffRow /\ receipt.stage \notin {"none", "pending"} =>
          /\ HandoffRead(receipt) /\ receipt.payload \in Payloads
          /\ receipt.stage \in HandoffFrom("selected") => receipt.source # 0
    /\ HandoffRow /\ receipt.stage = "none" => receipt = Handoff!NoReceipt
    /\ HandoffRow /\ receipt.stage = "pending" => \E p \in Payloads : receipt = Handoff!Pending(p)
<1>1. Handoff!NoReceipt.stage = "none"
  BY DEF Handoff!NoReceipt
<1>2. \A p \in Payloads :
         Handoff!Pending(p).stage = "pending" /\ Handoff!Pending(p).payload = p
  BY DEF Handoff!NoReceipt, Handoff!Pending
<1>3. HandoffRead(receipt) => receipt.stage \notin {"none", "pending"}
  BY HandoffStages DEF HandoffRead
<1> QED BY <1>1, <1>2, <1>3 DEF HandoffRow

\* What a checkpoint adds to a receipt.
LEMMA HandoffNextStage ==
    ASSUME NEW known \in Handoff!Receipt, NEW next, HandoffNext(known, next)
    PROVE  /\ known.stage \in {"pending", "frozen", "created", "admitted", "selected",
                               "completed"}
           /\ next.payload = known.payload
           /\ known.stage = "pending" =>
                 next.stage = "frozen" /\ \E p \in Payloads : known = Handoff!Pending(p)
           /\ known.stage = "frozen" => next.stage = "created"
           /\ known.stage = "created" => next.stage = "admitted"
           /\ known.stage = "admitted" => next.stage = "selected" /\ next.source # 0
           /\ known.stage = "selected" => next.stage = "completed"
           /\ known.stage = "completed" => next.stage = "done"
           /\ known.stage # "admitted" => next.source = known.source
           /\ known.stage # "frozen" => next.initial = known.initial
           /\ known.stage # "created" => next.begun = known.begun
           /\ known.stage # "selected" => next.ended = known.ended
           /\ known.stage # "completed" => next.result = known.result
           /\ next = [stage |-> next.stage, payload |-> next.payload,
                      initial |-> next.initial, begun |-> next.begun,
                      source |-> next.source, ended |-> next.ended, result |-> next.result]
BY DEF HandoffNext, Handoff!Receipt, Handoff!Pending, Handoff!Frozen, Handoff!NoReceipt

\* How the receipt changes: it is claimed, or a checkpoint is stored that stands for
\* what the owner has done.
HandoffAdvances ==
    \/ receipt' = receipt
    \/ receipt.stage \in {"none", "pending"} /\ \E p \in Payloads : receipt' = Handoff!Pending(p)
    \/ HandoffNext(receipt, receipt') /\ HandoffProven(receipt, receipt')

LEMMA HandoffStep ==
    ASSUME Handoff!TypeOK, HandoffAdvances, receipt.stage \in HandoffFrom("frozen")
    PROVE  /\ receipt'.payload = receipt.payload
           /\ receipt'.stage \in HandoffFrom(receipt.stage)
           /\ receipt.stage \in HandoffFrom("selected") => receipt'.source = receipt.source
           /\ receipt.stage = "done" => receipt' = receipt
           /\ receipt' # receipt => receipt.stage \notin HandoffFrom(receipt'.stage)
<1> USE HandoffStages
<1>1. receipt \in Handoff!Receipt
  BY DEF Handoff!TypeOK
<1>2. CASE receipt' = receipt
  <2>1. receipt.stage \in HandoffFrom(receipt.stage)
    OBVIOUS
  <2> QED BY <1>2, <2>1
<1>3. CASE receipt' # receipt
  <2>1. PICK new : new = receipt'
    OBVIOUS
  <2>2. HandoffNext(receipt, new)
    BY <1>3, <2>1 DEF HandoffAdvances
  <2>3. /\ new.payload = receipt.payload
        /\ receipt.stage \in HandoffFrom("selected") => new.source = receipt.source
        /\ receipt.stage # "done"
    BY <1>1, <2>2, HandoffNextStage
  <2>4. new.stage \in HandoffFrom(receipt.stage) /\ receipt.stage \notin HandoffFrom(new.stage)
    BY <1>1, <2>2, HandoffNextStage
  <2> QED BY <2>1, <2>3, <2>4
<1> QED BY <1>2, <1>3

\* What a request has read stays what the receipt was; only the present receipt can
\* still be advanced.
LEMMA HandoffReadKept ==
    ASSUME Handoff!TypeOK, HandoffAdvances, NEW r, HandoffRead(r)
    PROVE  HandoffRead(r)' /\ (receipt' # receipt => receipt' # r)
<1>1. receipt.stage \in HandoffFrom(r.stage) /\ r = HandoffAsOf(r.stage)
  BY DEF HandoffRead
<1>2. r.stage \in HandoffFrom("frozen") /\ receipt.stage \in HandoffFrom("frozen")
  BY <1>1, HandoffOrder
<1>3. /\ receipt'.payload = receipt.payload
      /\ receipt'.stage \in HandoffFrom(receipt.stage)
      /\ receipt.stage \in HandoffFrom("selected") => receipt'.source = receipt.source
      /\ receipt.stage = "done" => receipt' = receipt
      /\ receipt' # receipt => receipt.stage \notin HandoffFrom(receipt'.stage)
  BY <1>2, HandoffStep
<1>4. receipt'.stage \in HandoffFrom(r.stage)
  BY <1>1, <1>3, HandoffOrder
<1>5. r.stage \in HandoffFrom("selected") => receipt'.source = receipt.source
  BY <1>1, <1>3, HandoffOrder
<1>6. r.stage = "done" => receipt'.result = receipt.result
  BY <1>1, <1>3, HandoffStages
<1>7. r = HandoffAsOf(r.stage)'
  BY <1>1, <1>3, <1>5, <1>6 DEF HandoffAsOf
<1>8. receipt' # receipt => receipt' # r
  BY <1>1, <1>3
<1> QED BY <1>4, <1>7, <1>8 DEF HandoffRead

LEMMA HandoffSentKept ==
    ASSUME Handoff!TypeOK, HandoffAdvances, NEW c, HandoffSent(c)
    PROVE  HandoffSent(c)'
<1> USE HandoffStages
<1>1. c.kind \in Handoff!Kinds /\ c = HandoffCommand(c.kind)
  BY DEF HandoffSent
<1>2. \A s : receipt.stage \in HandoffFrom(s) =>
         /\ receipt'.payload = receipt.payload /\ receipt'.stage \in HandoffFrom(s)
         /\ receipt.stage \in HandoffFrom("selected") => receipt'.source = receipt.source
  <2> SUFFICES ASSUME NEW s, receipt.stage \in HandoffFrom(s)
               PROVE  /\ receipt'.payload = receipt.payload /\ receipt'.stage \in HandoffFrom(s)
                      /\ receipt.stage \in HandoffFrom("selected") => receipt'.source = receipt.source
    OBVIOUS
  <2>1. s \in HandoffFrom("frozen") /\ receipt.stage \in HandoffFrom("frozen")
    BY HandoffOrder
  <2> QED BY <2>1, HandoffStep, HandoffOrder
<1>3. CASE c.kind = "create"
  <2>1. receipt.stage \in HandoffFrom("frozen")
    BY <1>3 DEF HandoffSent
  <2> QED BY <1>1, <1>2, <1>3, <2>1 DEF HandoffSent, HandoffCommand
<1>4. CASE c.kind = "begin"
  <2>1. receipt.stage \in HandoffFrom("created")
    BY <1>4 DEF HandoffSent
  <2> QED BY <1>1, <1>2, <1>4, <2>1 DEF HandoffSent, HandoffCommand
<1>5. CASE c.kind = "complete"
  <2>1. receipt.stage \in HandoffFrom("selected")
    BY <1>5 DEF HandoffSent
  <2>2. receipt'.source = receipt.source
    BY <1>2, <2>1
  <2> QED BY <1>1, <1>2, <1>5, <2>1, <2>2 DEF HandoffSent, HandoffCommand
<1>6. CASE c.kind = "validate"
  <2>1. receipt.stage \in HandoffFrom("completed")
    BY <1>6 DEF HandoffSent
  <2> QED BY <1>1, <1>2, <1>6, <2>1 DEF HandoffSent, HandoffCommand
<1> QED BY <1>1, <1>3, <1>4, <1>5, <1>6 DEF Handoff!Kinds

LEMMA HandoffRowKept ==
    ASSUME Handoff!TypeOK, HandoffRow, HandoffAdvances
    PROVE  HandoffRow'
<1> USE HandoffStages
<1>1. CASE receipt' = receipt
  BY <1>1 DEF HandoffRow, HandoffRead, HandoffAsOf
<1>2. CASE \E p \in Payloads : receipt' = Handoff!Pending(p)
  BY <1>2 DEF HandoffRow
<1>3. CASE HandoffNext(receipt, receipt') /\ HandoffProven(receipt, receipt')
  <2>1. PICK new : new = receipt'
    OBVIOUS
  <2>2. HandoffNext(receipt, new) /\ HandoffProven(receipt, new) /\ receipt \in Handoff!Receipt
    BY <1>3, <2>1 DEF Handoff!TypeOK
  <2>3. new = [stage |-> new.stage, payload |-> new.payload,
               initial |-> new.initial, begun |-> new.begun,
               source |-> new.source, ended |-> new.ended, result |-> new.result]
    BY <2>2, HandoffNextStage
  <2> SUFFICES /\ new.stage \in HandoffFrom(new.stage) /\ new.payload \in Payloads
               /\ new.initial = IF new.stage \in HandoffFrom("created") THEN 1 ELSE 0
               /\ new.begun = IF new.stage \in HandoffFrom("admitted") THEN 2 ELSE 0
               /\ new.stage \in HandoffFrom("selected") <=> new.source # 0
               /\ new.ended = IF new.stage \in HandoffFrom("completed") THEN 3 ELSE 0
               /\ new.stage # "done" => new.result = 0
    <3> PICK fresh : fresh = [stage |-> new.stage, payload |-> new.payload,
               initial |-> IF new.stage \in HandoffFrom("created") THEN 1 ELSE 0,
               begun |-> IF new.stage \in HandoffFrom("admitted") THEN 2 ELSE 0,
               source |-> IF new.stage \in HandoffFrom("selected") THEN new.source ELSE 0,
               ended |-> IF new.stage \in HandoffFrom("completed") THEN 3 ELSE 0,
               result |-> IF new.stage = "done" THEN new.result ELSE 0]
      OBVIOUS
    <3> QED BY <2>1, <2>3 DEF HandoffRow, HandoffRead, HandoffAsOf
  <2>4. CASE receipt.stage = "pending"
    <3>1. PICK p \in Payloads : receipt = Handoff!Pending(p)
      BY <2>2, <2>4, HandoffNextStage
    <3>2. new.stage = "frozen" /\ new.payload = receipt.payload /\ new.initial = receipt.initial
          /\ new.begun = receipt.begun /\ new.source = receipt.source /\ new.ended = receipt.ended
          /\ new.result = receipt.result
      BY <2>2, <2>4, HandoffNextStage
    <3> QED BY <3>1, <3>2 DEF Handoff!Pending, Handoff!NoReceipt
  <2>5. CASE receipt.stage # "pending"
    <3>1. receipt.stage \in {"frozen", "created", "admitted", "selected", "completed"}
      BY <2>2, <2>5, HandoffNextStage
    <3>2. HandoffRead(receipt) /\ receipt.payload \in Payloads
      BY <3>1, HandoffRowRead
    <3>3. /\ receipt.initial = IF receipt.stage \in HandoffFrom("created") THEN 1 ELSE 0
          /\ receipt.begun = IF receipt.stage \in HandoffFrom("admitted") THEN 2 ELSE 0
          /\ receipt.stage \notin HandoffFrom("selected") => receipt.source = 0
          /\ receipt.ended = IF receipt.stage \in HandoffFrom("completed") THEN 3 ELSE 0
          /\ receipt.result = 0
      BY <3>1, <3>2 DEF HandoffRead, HandoffAsOf
    <3>4. receipt.stage \in HandoffFrom("selected") => receipt.source # 0
      BY <3>1, HandoffRowRead
    <3>5. CASE receipt.stage = "frozen"
      BY <2>2, <3>2, <3>3, <3>5, HandoffNextStage DEF HandoffProven
    <3>6. CASE receipt.stage = "created"
      BY <2>2, <3>2, <3>3, <3>6, HandoffNextStage DEF HandoffProven
    <3>7. CASE receipt.stage = "admitted"
      BY <2>2, <3>2, <3>3, <3>7, HandoffNextStage DEF HandoffProven
    <3>8. CASE receipt.stage = "selected"
      BY <2>2, <3>2, <3>3, <3>4, <3>8, HandoffNextStage DEF HandoffProven
    <3>9. CASE receipt.stage = "completed"
      BY <2>2, <3>2, <3>3, <3>4, <3>9, HandoffNextStage DEF HandoffProven
    <3> QED BY <3>1, <3>5, <3>6, <3>7, <3>8, <3>9
  <2> QED BY <2>4, <2>5
<1> QED BY <1>1, <1>2, <1>3 DEF HandoffAdvances

-----------------------------------------------------------------------------
(* SkillHandoff: the owner *)

\* What a request that has read the receipt sends: the one command of its kind.
LEMMA HandoffCalled ==
    ASSUME Handoff!TypeOK, HandoffRow, NEW r, HandoffRead(r),
           r.stage \in {"frozen", "created", "selected", "completed"}
    PROVE  /\ HandoffSent(Handoff!CommandOf(r))
           /\ Handoff!CommandOf(r) \in Handoff!Command
           /\ Handoff!CommandOf(r).kind = Handoff!KindAfter[r.stage]
<1> USE HandoffStages
<1>1. r = HandoffAsOf(r.stage) /\ receipt.stage \in HandoffFrom(r.stage)
  BY DEF HandoffRead
<1>2. receipt.stage \in HandoffFrom("frozen")
  BY <1>1, HandoffOrder
<1>3. receipt.payload \in Payloads /\ receipt.source \in Nat
  BY <1>2, HandoffRowRead DEF Handoff!TypeOK, Handoff!Receipt
<1> DEFINE c == Handoff!CommandOf(r)
<1>4. CASE r.stage = "frozen"
  <2>1. c = [kind |-> "create", payload |-> receipt.payload, expected |-> 0, source |-> 0]
    BY <1>1, <1>4
       DEF Handoff!CommandOf, Handoff!KindAfter, Handoff!Expected, HandoffAsOf
  <2> QED BY <1>1, <1>3, <1>4, <2>1
          DEF HandoffSent, HandoffCommand, Handoff!Command, Handoff!Kinds, Handoff!KindAfter
<1>5. CASE r.stage = "created"
  <2>1. c = [kind |-> "begin", payload |-> receipt.payload, expected |-> 1, source |-> 0]
    BY <1>1, <1>5
       DEF Handoff!CommandOf, Handoff!KindAfter, Handoff!Expected, HandoffAsOf
  <2> QED BY <1>1, <1>3, <1>5, <2>1
          DEF HandoffSent, HandoffCommand, Handoff!Command, Handoff!Kinds, Handoff!KindAfter
<1>6. CASE r.stage = "selected"
  <2>1. c = [kind |-> "complete", payload |-> receipt.payload, expected |-> 2,
             source |-> receipt.source]
    BY <1>1, <1>6
       DEF Handoff!CommandOf, Handoff!KindAfter, Handoff!Expected, HandoffAsOf
  <2> QED BY <1>1, <1>3, <1>6, <2>1
          DEF HandoffSent, HandoffCommand, Handoff!Command, Handoff!Kinds, Handoff!KindAfter
<1>7. CASE r.stage = "completed"
  <2>1. c = [kind |-> "validate", payload |-> receipt.payload, expected |-> 3, source |-> 0]
    BY <1>1, <1>7
       DEF Handoff!CommandOf, Handoff!KindAfter, Handoff!Expected, HandoffAsOf
  <2> QED BY <1>1, <1>3, <1>7, <2>1
          DEF HandoffSent, HandoffCommand, Handoff!Command, Handoff!Kinds, Handoff!KindAfter
<1> QED BY <1>4, <1>5, <1>6, <1>7

\* The commands are executed in their order.
LEMMA HandoffChain ==
    ASSUME HandoffOwner
    PROVE  /\ HandoffMade("begin") => HandoffMade("create")
           /\ HandoffMade("complete") => HandoffMade("begin")
           /\ HandoffMade("validate") => HandoffMade("complete")
           /\ HandoffMade("create") => receipt.stage \in HandoffFrom("frozen")
           /\ HandoffMade("begin") => receipt.stage \in HandoffFrom("created")
           /\ HandoffMade("complete") => receipt.stage \in HandoffFrom("selected")
           /\ HandoffMade("validate") => receipt.stage \in HandoffFrom("completed")
<1>1. \A m \in draft.made : HandoffSent(m.command)
  BY DEF HandoffOwner
<1>2. /\ HandoffMade("create") => receipt.stage \in HandoffFrom("frozen")
      /\ HandoffMade("begin") => receipt.stage \in HandoffFrom("created")
      /\ HandoffMade("complete") => receipt.stage \in HandoffFrom("selected")
      /\ HandoffMade("validate") => receipt.stage \in HandoffFrom("completed")
  BY <1>1 DEF HandoffMade, HandoffSent
<1>3. /\ receipt.stage \in HandoffFrom("created") => HandoffMade("create")
      /\ receipt.stage \in HandoffFrom("admitted") => HandoffMade("begin")
      /\ receipt.stage \in HandoffFrom("completed") => HandoffMade("complete")
  BY DEF HandoffOwner
<1> QED BY <1>2, <1>3, HandoffStages

\* The owner executes a command it gets for the first time, and no other; it turns
\* none down.
LEMMA HandoffExecutes ==
    ASSUME HandoffOwner, NEW c, HandoffSent(c)
    PROVE  /\ ~Handoff!Refuses(c)
           /\ Handoff!Executable(c) <=> ~HandoffMade(c.kind)
           /\ Handoff!Executable(c) => draft.version = c.expected
           /\ \A m \in Handoff!Repeated(c) : m.command = c /\ m.version = c.expected + 1
<1> USE HandoffStages
<1>1. c.kind \in Handoff!Kinds /\ c = HandoffCommand(c.kind)
  BY DEF HandoffSent
<1>2. \A m \in Handoff!Repeated(c) : m.command = c /\ m.version = c.expected + 1
  BY <1>1 DEF HandoffOwner, HandoffSent, Handoff!Repeated
<1>3. Handoff!Repeated(c) = {} <=> ~HandoffMade(c.kind)
  BY DEF Handoff!Repeated, HandoffMade
<1>4. ~HandoffMade(c.kind) => draft.version = c.expected
  <2>1. /\ draft.edited => HandoffMade("validate")
        /\ draft.version = IF draft.edited THEN 5
                           ELSE IF HandoffMade("validate") THEN 4
                           ELSE IF HandoffMade("complete") THEN 3
                           ELSE IF HandoffMade("begin") THEN 2
                           ELSE IF HandoffMade("create") THEN 1
                           ELSE 0
    BY DEF HandoffOwner
  <2>2. CASE c.kind = "create"
    BY <1>1, <2>1, <2>2, HandoffChain DEF HandoffCommand
  <2>3. CASE c.kind = "begin"
    <3>1. HandoffMade("create") /\ c.expected = 1
      BY <1>1, <2>3 DEF HandoffCommand, HandoffSent, HandoffOwner
    <3> QED BY <2>1, <2>3, <3>1, HandoffChain
  <2>4. CASE c.kind = "complete"
    <3>1. HandoffMade("begin") /\ c.expected = 2
      BY <1>1, <2>4 DEF HandoffCommand, HandoffSent, HandoffOwner
    <3> QED BY <2>1, <2>4, <3>1, HandoffChain
  <2>5. CASE c.kind = "validate"
    <3>1. HandoffMade("complete") /\ c.expected = 3
      BY <1>1, <2>5 DEF HandoffCommand, HandoffSent, HandoffOwner
    <3> QED BY <2>1, <2>5, <3>1, HandoffChain
  <2> QED BY <1>1, <2>2, <2>3, <2>4, <2>5 DEF Handoff!Kinds
<1> QED BY <1>2, <1>3, <1>4 DEF Handoff!Executable, Handoff!Refuses

\* A command that arrives leaves the owner what it may be, with that command made.
LEMMA HandoffObeyed ==
    ASSUME Handoff!TypeOK, HandoffOwner, NEW c \in Handoff!Command, HandoffSent(c),
           Handoff!Obeys(c), receipt' = receipt, \A d \in strays' : HandoffSent(d)
    PROVE  /\ HandoffOwner' /\ draft' \in Handoff!Owner
           /\ HandoffMade(c.kind)'
           /\ \A k : HandoffMade(k) => HandoffMade(k)'
<1> USE HandoffStages
<1>1. c.kind \in Handoff!Kinds /\ c = HandoffCommand(c.kind)
  BY DEF HandoffSent
<1>2. draft \in Handoff!Owner
  BY DEF Handoff!TypeOK
<1>3. draft' = IF Handoff!Executable(c) THEN Handoff!Executed(c) ELSE draft
  BY HandoffExecutes DEF Handoff!Obeys
<1>4. \A d : HandoffSent(d)' <=> HandoffSent(d)
  BY DEF HandoffSent, HandoffCommand
<1>5. CASE HandoffMade(c.kind)
  <2>1. draft' = draft
    BY <1>3, <1>5, HandoffExecutes
  <2> QED BY <1>2, <1>4, <1>5, <2>1 DEF HandoffOwner, HandoffMade
<1>6. CASE ~HandoffMade(c.kind)
  <2>1. /\ draft' = Handoff!Executed(c) /\ draft.version = c.expected
        /\ draft.version \in Nat
    BY <1>2, <1>3, <1>6, HandoffExecutes DEF Handoff!Owner
  <2> DEFINE m == [command |-> c, version |-> draft.version + 1]
  <2>2. /\ draft'.version = draft.version + 1
        /\ draft'.source = IF c.kind = "complete" THEN c.source ELSE draft.source
        /\ draft'.made = draft.made \cup {m}
        /\ draft'.refused = draft.refused /\ draft'.edited = draft.edited
    BY <1>2, <2>1 DEF Handoff!Executed, Handoff!Owner
  <2>3. draft' \in Handoff!Owner
    <3>1. m \in [command: Handoff!Command, version: Nat] /\ c.source \in Nat
      BY <2>1 DEF Handoff!Command
    <3> QED BY <1>2, <2>1, <3>1 DEF Handoff!Executed, Handoff!Owner
  <2>4. \A k : HandoffMade(k)' <=> HandoffMade(k) \/ k = c.kind
    <3>1. PICK made : made = draft'.made
      OBVIOUS
    <3>2. m.command.kind = c.kind /\ made = draft.made \cup {m}
      BY <2>2, <3>1
    <3>3. \A k : (\E n \in made : n.command.kind = k)
                       <=> (\E n \in draft.made : n.command.kind = k) \/ k = c.kind
      <4> HIDE DEF m
      <4> QED BY <3>2
    <3> QED BY <3>1, <3>3 DEF HandoffMade
  <2>5. \A n \in draft'.made : HandoffSent(n.command)' /\ n.version = n.command.expected + 1
    <3>1. PICK made : made = draft'.made
      OBVIOUS
    <3>2. \A n \in made : n \in draft.made \/ n = m
      BY <2>2, <3>1
    <3>3. \A n \in made : HandoffSent(n.command) /\ n.version = n.command.expected + 1
      BY <2>1, <3>2 DEF HandoffOwner
    <3> QED BY <1>4, <3>1, <3>3
  <2>6. c.kind = "complete" => c.source = receipt.source
    BY <1>1 DEF HandoffCommand
  <2>7. draft'.source = IF HandoffMade("complete")' THEN receipt.source ELSE 0
    BY <1>6, <2>2, <2>4, <2>6 DEF HandoffOwner
  <2>8. ~draft.edited
    BY <1>1, <1>6, HandoffChain DEF HandoffOwner, Handoff!Kinds
  <2>9. draft'.version = IF draft'.edited THEN 5
                         ELSE IF HandoffMade("validate")' THEN 4
                         ELSE IF HandoffMade("complete")' THEN 3
                         ELSE IF HandoffMade("begin")' THEN 2
                         ELSE IF HandoffMade("create")' THEN 1
                         ELSE 0
    <3>1. draft.version = IF HandoffMade("validate") THEN 4
                          ELSE IF HandoffMade("complete") THEN 3
                          ELSE IF HandoffMade("begin") THEN 2
                          ELSE IF HandoffMade("create") THEN 1
                          ELSE 0
      BY <2>8 DEF HandoffOwner
    <3> DEFINE n(k) == HandoffMade(k) \/ k = c.kind
    <3> SUFFICES draft'.version = IF n("validate") THEN 4
                                  ELSE IF n("complete") THEN 3
                                  ELSE IF n("begin") THEN 2
                                  ELSE IF n("create") THEN 1
                                  ELSE 0
      <4>1. /\ HandoffMade("validate")' <=> n("validate")
            /\ HandoffMade("complete")' <=> n("complete")
            /\ HandoffMade("begin")' <=> n("begin")
            /\ HandoffMade("create")' <=> n("create")
        BY <2>4
      <4> HIDE DEF n
      <4> QED BY <2>2, <2>8, <4>1
    <3>2. CASE c.kind = "create"
      <4>1. c.expected = 0
        BY <1>1, <3>2 DEF HandoffCommand
      <4> QED BY <1>6, <2>1, <2>2, <2>4, <2>8, <3>1, <3>2, <4>1, HandoffChain
    <3>3. CASE c.kind = "begin"
      <4>1. c.expected = 1
        BY <1>1, <3>3 DEF HandoffCommand
      <4>2. ~HandoffMade("begin") /\ ~HandoffMade("complete") /\ ~HandoffMade("validate")
        BY <1>6, <3>3, HandoffChain
      <4>3. /\ n("begin") /\ draft'.version = 2
            /\ ~n("complete") /\ ~n("validate")
        BY <2>1, <2>2, <3>3, <4>1, <4>2
      <4> QED BY <4>3
    <3>4. CASE c.kind = "complete"
      <4>1. c.expected = 2
        BY <1>1, <3>4 DEF HandoffCommand
      <4>2. ~HandoffMade("complete") /\ ~HandoffMade("validate")
        BY <1>6, <3>4, HandoffChain
      <4>3. /\ n("complete") /\ draft'.version = 3
            /\ ~n("validate")
        BY <2>1, <2>2, <3>4, <4>1, <4>2
      <4> QED BY <4>3
    <3>5. CASE c.kind = "validate"
      <4>1. c.expected = 3
        BY <1>1, <3>5 DEF HandoffCommand
      <4>2. ~HandoffMade("validate")
        BY <1>6, <3>5, HandoffChain
      <4>3. /\ n("validate") /\ draft'.version = 4
            /\ n("validate")
        BY <2>1, <2>2, <3>5, <4>1, <4>2
      <4> QED BY <4>3
    <3> QED BY <1>1, <3>2, <3>3, <3>4, <3>5 DEF Handoff!Kinds
  <2>10. /\ receipt'.stage \in HandoffFrom("created") => HandoffMade("create")'
         /\ receipt'.stage \in HandoffFrom("admitted") => HandoffMade("begin")'
         /\ receipt'.stage \in HandoffFrom("completed") => HandoffMade("complete")'
         /\ receipt'.stage = "done" => HandoffMade("validate")'
    BY <2>4 DEF HandoffOwner
  <2>11. \A d \in strays' : HandoffSent(d)'
    BY <1>4
  <2>12. draft'.refused = {}
    BY <2>2 DEF HandoffOwner
  <2>13. receipt'.source = receipt.source /\ ~draft'.edited
    BY <2>2, <2>8
  <2>14. HandoffOwner'
    <3> HIDE DEF m
    <3> QED BY <2>5, <2>7, <2>9, <2>10, <2>11, <2>12, <2>13 DEF HandoffOwner
  <2> QED BY <2>3, <2>4, <2>14
<1> QED BY <1>5, <1>6

-----------------------------------------------------------------------------
(* SkillHandoff: the invariant when the receipt advances *)

LEMMA HandoffOwnerKept ==
    ASSUME Handoff!TypeOK, HandoffOwner, HandoffAdvances, draft' = draft,
           \A d \in strays' : HandoffSent(d)
    PROVE  HandoffOwner'
<1> USE HandoffStages
<1>1. receipt \in Handoff!Receipt
  BY DEF Handoff!TypeOK
<1>2. \A k : HandoffMade(k)' <=> HandoffMade(k)
  BY DEF HandoffMade
<1>3. \A d \in strays' : HandoffSent(d)'
  <2>1. PICK commands : commands = strays'
    OBVIOUS
  <2>2. \A d \in commands : HandoffSent(d)'
    BY <2>1, HandoffSentKept
  <2> QED BY <2>1, <2>2
<1>4. \A m \in draft'.made : HandoffSent(m.command)' /\ m.version = m.command.expected + 1
  <2>1. \A m \in draft.made : HandoffSent(m.command)' /\ m.version = m.command.expected + 1
    BY HandoffSentKept DEF HandoffOwner
  <2> QED BY <2>1
<1>5. /\ receipt'.stage \in HandoffFrom("created") => HandoffMade("create")
      /\ receipt'.stage \in HandoffFrom("admitted") => HandoffMade("begin")
      /\ receipt'.stage \in HandoffFrom("completed") => HandoffMade("complete")
      /\ receipt'.stage = "done" => HandoffMade("validate")
  <2>1. /\ receipt.stage \in HandoffFrom("created") => HandoffMade("create")
        /\ receipt.stage \in HandoffFrom("admitted") => HandoffMade("begin")
        /\ receipt.stage \in HandoffFrom("completed") => HandoffMade("complete")
        /\ receipt.stage = "done" => HandoffMade("validate")
    BY DEF HandoffOwner
  <2>2. CASE receipt' = receipt
    BY <2>1, <2>2
  <2>3. CASE \E p \in Payloads : receipt' = Handoff!Pending(p)
    <3>1. receipt'.stage = "pending"
      BY <2>3 DEF Handoff!Pending, Handoff!NoReceipt
    <3> QED BY <3>1
  <2>4. CASE HandoffNext(receipt, receipt') /\ HandoffProven(receipt, receipt')
    <3>1. PICK new : new = receipt'
      OBVIOUS
    <3>2. HandoffNext(receipt, new) /\ HandoffProven(receipt, new)
      BY <2>4, <3>1
    <3>3. /\ receipt.stage = "frozen" => HandoffMade("create")
          /\ receipt.stage = "created" => HandoffMade("begin")
          /\ receipt.stage = "selected" => HandoffMade("complete")
          /\ receipt.stage = "completed" => HandoffMade("validate")
      BY <3>2 DEF HandoffProven
    <3>4. /\ receipt.stage \in {"pending", "frozen", "created", "admitted", "selected", "completed"}
          /\ receipt.stage = "pending" => new.stage = "frozen"
          /\ receipt.stage = "frozen" => new.stage = "created"
          /\ receipt.stage = "created" => new.stage = "admitted"
          /\ receipt.stage = "admitted" => new.stage = "selected"
          /\ receipt.stage = "selected" => new.stage = "completed"
          /\ receipt.stage = "completed" => new.stage = "done"
      BY <1>1, <3>2, HandoffNextStage
    <3> HIDE DEF HandoffMade
    <3> QED BY <2>1, <3>1, <3>3, <3>4
  <2> QED BY <2>2, <2>3, <2>4 DEF HandoffAdvances
<1>6. HandoffMade("complete") => receipt'.source = receipt.source
  BY HandoffChain, HandoffStep
<1>7. draft'.source = IF HandoffMade("complete") THEN receipt'.source ELSE 0
  BY <1>6 DEF HandoffOwner
<1>8. /\ HandoffMade("create")' <=> HandoffMade("create")
      /\ HandoffMade("begin")' <=> HandoffMade("begin")
      /\ HandoffMade("complete")' <=> HandoffMade("complete")
      /\ HandoffMade("validate")' <=> HandoffMade("validate")
  BY <1>2
<1>9. /\ draft'.refused = {}
      /\ draft'.edited => HandoffMade("validate")
      /\ draft'.version = IF draft'.edited THEN 5
                          ELSE IF HandoffMade("validate") THEN 4
                          ELSE IF HandoffMade("complete") THEN 3
                          ELSE IF HandoffMade("begin") THEN 2
                          ELSE IF HandoffMade("create") THEN 1
                          ELSE 0
  BY DEF HandoffOwner
<1> QED BY <1>3, <1>4, <1>5, <1>7, <1>8, <1>9 DEF HandoffOwner

LEMMA HandoffToldKept ==
    ASSUME Handoff!TypeOK, HandoffTold, HandoffAdvances, told' = told
    PROVE  HandoffTold'
<1>1. CASE told = {}
  BY <1>1 DEF HandoffTold
<1>2. CASE told # {}
  <2>1. receipt.stage = "done"
    BY <1>2 DEF HandoffTold
  <2>2. receipt' = receipt
    BY <2>1, HandoffStep, HandoffStages
  <2> QED BY <2>2 DEF HandoffTold
<1> QED BY <1>1, <1>2

\* A request that does nothing stays what it may be.
LEMMA HandoffHandlerKept ==
    ASSUME Handoff!TypeOK, HandoffAdvances,
           \A k : HandoffMade(k) => HandoffMade(k)',
           NEW x, HandoffHandler(x)
    PROVE  HandoffHandler(x)'
<1>1. HandoffRead(x.known) => HandoffRead(x.known)' /\ (receipt' # receipt => receipt' # x.known)
  BY HandoffReadKept
<1>2. x.pc = "storing" /\ receipt' = x.known => HandoffProven(x.known, x.next)'
  <2> SUFFICES ASSUME x.pc = "storing", receipt' = x.known
               PROVE  HandoffProven(x.known, x.next)'
    OBVIOUS
  <2>1. x.known.stage # "pending" => HandoffRead(x.known)
    BY DEF HandoffHandler
  <2>2. CASE x.known.stage = "pending"
    BY <2>2 DEF HandoffProven
  <2>3. CASE x.known.stage # "pending"
    <3>1. receipt = x.known
      BY <1>1, <2>1, <2>3
    <3>2. HandoffProven(x.known, x.next)
      BY <3>1 DEF HandoffHandler
    <3>3. /\ HandoffMade("create") => HandoffMade("create")'
          /\ HandoffMade("begin") => HandoffMade("begin")'
          /\ HandoffMade("complete") => HandoffMade("complete")'
          /\ HandoffMade("validate") => HandoffMade("validate")'
      OBVIOUS
    <3> QED BY <3>2, <3>3 DEF HandoffProven
  <2> QED BY <2>2, <2>3
<1> QED BY <1>1, <1>2 DEF HandoffHandler

\* One request takes a step.
LEMMA HandoffHandlersKept ==
    ASSUME Handoff!TypeOK, HandoffAdvances,
           \A k : HandoffMade(k) => HandoffMade(k)',
           \A g \in Handlers : HandoffHandler(handler[g]),
           NEW h \in Handlers, NEW x \in Handoff!Handling, HandoffHandler(x)',
           handler' = [handler EXCEPT ![h] = x]
    PROVE  /\ handler' \in [Handlers -> Handoff!Handling]
           /\ \A g \in Handlers : HandoffHandler(handler[g])'
<1>1. handler \in [Handlers -> Handoff!Handling]
  BY DEF Handoff!TypeOK
<1>2. ASSUME NEW g \in Handlers PROVE HandoffHandler(handler[g])'
  <2>1. PICK y : y = handler[g]
    OBVIOUS
  <2>2. HandoffHandler(y)'
    BY <2>1, HandoffHandlerKept
  <2>3. PICK z : z = handler'[g]
    OBVIOUS
  <2>4. z = x \/ z = y
    BY <1>1, <2>1, <2>3
  <2>5. HandoffHandler(z)'
    BY <2>2, <2>4
  <2>6. HandoffHandler(handler[g])' <=> HandoffHandler(z)'
    BY <2>3 DEF HandoffHandler
  <2> QED BY <2>5, <2>6
<1> QED BY <1>1, <1>2

-----------------------------------------------------------------------------
(* SkillHandoff: the steps *)

LEMMA HandoffReceipts ==
    /\ Handoff!NoReceipt \in Handoff!Receipt
    /\ \A p \in Payloads : Handoff!Pending(p) \in Handoff!Receipt
    /\ \A r \in Handoff!Receipt : Handoff!Frozen(r) \in Handoff!Receipt
    /\ \A r \in Handoff!Receipt, v \in Nat :
          /\ [r EXCEPT !.stage = "created", !.initial = v] \in Handoff!Receipt
          /\ [r EXCEPT !.stage = "admitted", !.begun = v] \in Handoff!Receipt
          /\ [r EXCEPT !.stage = "selected", !.source = v] \in Handoff!Receipt
          /\ [r EXCEPT !.stage = "completed", !.ended = v] \in Handoff!Receipt
          /\ [r EXCEPT !.stage = "done", !.result = v] \in Handoff!Receipt
<1>1. Handoff!NoReceipt \in Handoff!Receipt
  BY DEF Handoff!NoReceipt, Handoff!Receipt, Handoff!Stages
<1>2. \A p \in Payloads : Handoff!Pending(p) \in Handoff!Receipt
  BY <1>1 DEF Handoff!Pending, Handoff!NoReceipt, Handoff!Receipt, Handoff!Stages
<1>3. \A r \in Handoff!Receipt : Handoff!Frozen(r) \in Handoff!Receipt
  BY DEF Handoff!Frozen, Handoff!Receipt, Handoff!Stages
<1>4. \A r \in Handoff!Receipt, v \in Nat :
         /\ [r EXCEPT !.stage = "created", !.initial = v] \in Handoff!Receipt
         /\ [r EXCEPT !.stage = "admitted", !.begun = v] \in Handoff!Receipt
         /\ [r EXCEPT !.stage = "selected", !.source = v] \in Handoff!Receipt
         /\ [r EXCEPT !.stage = "completed", !.ended = v] \in Handoff!Receipt
         /\ [r EXCEPT !.stage = "done", !.result = v] \in Handoff!Receipt
  BY DEF Handoff!Receipt, Handoff!Stages
<1> QED BY <1>1, <1>2, <1>3, <1>4

\* A request takes a step, and the owner none.
LEMMA HandoffStepKept ==
    ASSUME HandoffInv, HandoffAdvances, receipt' \in Handoff!Receipt, stale' \in BOOLEAN,
           draft' = draft, strays' \subseteq Handoff!Command,
           \A d \in strays' : HandoffSent(d), puts' \in Nat,
           told' \in SUBSET [payload: Payloads, result: Nat], HandoffTold',
           faults' \in 0..MaxFaults,
           NEW h \in Handlers, NEW x \in Handoff!Handling, HandoffHandler(x)',
           handler' = [handler EXCEPT ![h] = x]
    PROVE  HandoffInv'
<1>1. Handoff!TypeOK /\ draft \in Handoff!Owner
  BY DEF HandoffInv, Handoff!TypeOK
<1>2. \A k : HandoffMade(k) => HandoffMade(k)'
  BY DEF HandoffMade
<1>3. /\ handler' \in [Handlers -> Handoff!Handling]
      /\ \A g \in Handlers : HandoffHandler(handler[g])'
  BY <1>1, <1>2, HandoffHandlersKept DEF HandoffInv
<1>4. HandoffRow' /\ HandoffOwner'
  BY <1>1, HandoffRowKept, HandoffOwnerKept DEF HandoffInv
<1>5. Handoff!TypeOK'
  BY <1>1, <1>3 DEF Handoff!TypeOK
<1> QED BY <1>3, <1>4, <1>5 DEF HandoffInv

\* A request takes a step, and nothing else changes.
LEMMA HandoffQuiet ==
    ASSUME HandoffInv, receipt' = receipt, stale' = stale, draft' = draft, told' = told,
           strays' \subseteq Handoff!Command, \A d \in strays' : HandoffSent(d),
           puts' \in Nat, faults' \in 0..MaxFaults,
           NEW h \in Handlers, NEW x \in Handoff!Handling, HandoffHandler(x),
           handler' = [handler EXCEPT ![h] = x]
    PROVE  HandoffInv'
<1>1. /\ HandoffAdvances /\ receipt' \in Handoff!Receipt /\ stale' \in BOOLEAN
      /\ told' \in SUBSET [payload: Payloads, result: Nat]
  BY DEF HandoffInv, Handoff!TypeOK, HandoffAdvances
<1>2. HandoffTold'
  BY DEF HandoffInv, HandoffTold
<1>3. HandoffHandler(x)'
  BY DEF HandoffHandler, HandoffRead, HandoffAsOf, HandoffProven, HandoffMade
<1> HIDE DEF HandoffInv
<1> QED BY <1>1, <1>2, <1>3, HandoffStepKept

\* What a handler is made of.
LEMMA HandoffShapes ==
    ASSUME HandoffInv
    PROVE  /\ \A g \in Handlers :
                 /\ handler[g] \in Handoff!Handling /\ HandoffHandler(handler[g])
                 /\ handler[g].known \in Handoff!Receipt /\ handler[g].next \in Handoff!Receipt
           /\ Handoff!Idle \in Handoff!Handling /\ HandoffHandler(Handoff!Idle)
           /\ Handoff!TypeOK /\ receipt \in Handoff!Receipt
           /\ strays \subseteq Handoff!Command /\ \A d \in strays : HandoffSent(d)
           /\ puts \in Nat /\ faults \in 0..MaxFaults
           /\ handler \in [Handlers -> Handoff!Handling]
<1>1. Handoff!Idle \in Handoff!Handling /\ HandoffHandler(Handoff!Idle)
  BY HandoffReceipts DEF Handoff!Idle, Handoff!Handling, HandoffHandler
<1>2. handler \in [Handlers -> Handoff!Handling] /\ Handoff!TypeOK
  BY DEF HandoffInv, Handoff!TypeOK
<1>3. \A g \in Handlers :
         /\ handler[g] \in Handoff!Handling /\ HandoffHandler(handler[g])
         /\ handler[g].known \in Handoff!Receipt /\ handler[g].next \in Handoff!Receipt
  BY <1>2 DEF HandoffInv, Handoff!Handling
<1> QED BY <1>1, <1>2, <1>3 DEF HandoffInv, Handoff!TypeOK, HandoffOwner

\* A pending receipt is frozen next.
LEMMA HandoffFreezes ==
    ASSUME HandoffInv, receipt.stage = "pending"
    PROVE  LET x == [pc |-> "storing", known |-> receipt, next |-> Handoff!Frozen(receipt)] IN
           x \in Handoff!Handling /\ HandoffHandler(x)
<1> DEFINE x == [pc |-> "storing", known |-> receipt, next |-> Handoff!Frozen(receipt)]
<1>1. receipt \in Handoff!Receipt /\ Handoff!Frozen(receipt) \in Handoff!Receipt
  BY HandoffShapes, HandoffReceipts
<1>2. x \in Handoff!Handling
  BY <1>1 DEF Handoff!Handling
<1>3. HandoffNext(receipt, Handoff!Frozen(receipt))
  BY HandoffRowRead DEF HandoffInv, HandoffNext
<1>4. HandoffProven(receipt, Handoff!Frozen(receipt))
  BY DEF HandoffProven
<1> QED BY <1>2, <1>3, <1>4 DEF HandoffHandler

LEMMA HandoffStartKept ==
    ASSUME Handoff!ConstantsAssumption, HandoffInv, NEW h \in Handlers, NEW p \in Payloads,
           Handoff!Start(h, p)
    PROVE  HandoffInv'
<1>1. UNCHANGED <<receipt, stale, draft, strays, puts, told, faults>>
  BY DEF Handoff!Start, Handoff!External
<1>2. CASE handler' = [handler EXCEPT ![h] = [Handoff!Idle EXCEPT !.pc = "claiming",
                                                                 !.known.payload = p]]
  <2>1. PICK x : x = [Handoff!Idle EXCEPT !.pc = "claiming", !.known.payload = p]
    OBVIOUS
  <2>2. [Handoff!NoReceipt EXCEPT !.payload = p] \in Handoff!Receipt
    BY HandoffReceipts DEF Handoff!Receipt
  <2>3. x = [pc |-> "claiming", known |-> [Handoff!NoReceipt EXCEPT !.payload = p],
             next |-> Handoff!NoReceipt]
    BY <2>1 DEF Handoff!Idle
  <2>4. x \in Handoff!Handling
    BY <2>2, <2>3, HandoffReceipts DEF Handoff!Handling
  <2>5. HandoffHandler(x)
    BY <2>3 DEF HandoffHandler, Handoff!NoReceipt
  <2> QED BY <1>1, <1>2, <2>1, <2>4, <2>5, HandoffShapes, HandoffQuiet
<1>3. CASE receipt.stage = "pending" /\ Handoff!Wants(h, receipt, Handoff!Frozen(receipt))
  <2>1. PICK x : x = [pc |-> "storing", known |-> receipt, next |-> Handoff!Frozen(receipt)]
    OBVIOUS
  <2>2. x \in Handoff!Handling /\ HandoffHandler(x)
    BY <1>3, <2>1, HandoffFreezes
  <2>3. handler' = [handler EXCEPT ![h] = x]
    BY <1>3, <2>1 DEF Handoff!Wants
  <2> QED BY <1>1, <2>2, <2>3, HandoffShapes, HandoffQuiet
<1>4. CASE /\ receipt.payload = p /\ receipt.stage \notin {"pending", "done"}
           /\ handler' = [handler EXCEPT ![h] = [Handoff!Idle EXCEPT !.pc = "working",
                                                                    !.known = receipt]]
  <2>1. PICK x : x = [Handoff!Idle EXCEPT !.pc = "working", !.known = receipt]
    OBVIOUS
  <2>2. x = [pc |-> "working", known |-> receipt, next |-> Handoff!NoReceipt]
    BY <2>1 DEF Handoff!Idle
  <2>3. receipt \in Handoff!Receipt
    BY HandoffShapes
  <2>4. x \in Handoff!Handling
    BY <2>2, <2>3, HandoffReceipts DEF Handoff!Handling
  <2>5. receipt.stage # "none"
    <3>1. Handoff!NoReceipt.payload = NoPayload
      BY DEF Handoff!NoReceipt
    <3> QED BY <1>4, <3>1, HandoffRowRead DEF HandoffInv, Handoff!ConstantsAssumption
  <2>6. HandoffRead(receipt)
    BY <1>4, <2>5, HandoffRowRead DEF HandoffInv
  <2>7. HandoffHandler(x)
    BY <1>4, <2>2, <2>3, <2>5, <2>6 DEF HandoffHandler, Handoff!Receipt, Handoff!Stages
  <2> QED BY <1>1, <1>4, <2>1, <2>4, <2>7, HandoffShapes, HandoffQuiet
<1> QED BY <1>2, <1>3, <1>4 DEF Handoff!Start

LEMMA HandoffRests ==
    ASSUME HandoffInv, NEW h \in Handlers, Handoff!Rests(h),
           UNCHANGED <<receipt, stale, draft, told>>, puts' \in Nat, faults' \in 0..MaxFaults,
           strays' \subseteq Handoff!Command, \A d \in strays' : HandoffSent(d)
    PROVE  HandoffInv'
BY HandoffShapes, HandoffQuiet DEF Handoff!Rests

\* A claim, and its reading back.
LEMMA HandoffClaimKept ==
    ASSUME HandoffInv, NEW h \in Handlers, Handoff!Claim(h) \/ Handoff!ReadBack(h)
    PROVE  HandoffInv'
<1> USE HandoffShapes
<1>1. UNCHANGED <<draft, strays, puts, told, faults>>
  BY DEF Handoff!Claim, Handoff!ReadBack, Handoff!External
<1>2. CASE Handoff!Rests(h) /\ receipt' = receipt /\ stale' = stale
  BY <1>1, <1>2, HandoffRests
<1>3. CASE /\ handler[h].pc = "claiming" /\ receipt.stage \in {"none", "pending"}
           /\ receipt' = Handoff!Pending(handler[h].known.payload) /\ stale' = FALSE
           /\ handler' = [handler EXCEPT ![h].pc = "claimed"]
  <2>1. PICK x : x = [handler[h] EXCEPT !.pc = "claimed"]
    OBVIOUS
  <2>2. handler[h].known.payload \in Payloads
    BY <1>3 DEF HandoffHandler
  <2>3. x \in Handoff!Handling /\ x.pc = "claimed" /\ x.known.payload \in Payloads
    BY <2>1, <2>2 DEF Handoff!Handling
  <2>4. HandoffHandler(x)'
    BY <2>3 DEF HandoffHandler
  <2>5. HandoffAdvances /\ receipt' \in Handoff!Receipt
    BY <1>3, <2>2, HandoffReceipts DEF HandoffAdvances
  <2>6. HandoffTold' /\ told' \in SUBSET [payload: Payloads, result: Nat]
    BY <1>1, <2>5, HandoffToldKept DEF HandoffInv, Handoff!TypeOK
  <2> QED BY <1>1, <1>3, <2>1, <2>3, <2>4, <2>5, <2>6, HandoffStepKept
<1>4. CASE /\ receipt.stage = "pending" /\ Handoff!Wants(h, receipt, Handoff!Frozen(receipt))
           /\ receipt' = receipt /\ stale' = stale
  <2>1. PICK x : x = [pc |-> "storing", known |-> receipt, next |-> Handoff!Frozen(receipt)]
    OBVIOUS
  <2>2. x \in Handoff!Handling /\ HandoffHandler(x)
    BY <1>4, <2>1, HandoffFreezes
  <2>3. handler' = [handler EXCEPT ![h] = x]
    BY <1>4, <2>1 DEF Handoff!Wants
  <2> QED BY <1>1, <1>4, <2>2, <2>3, HandoffQuiet
<1>5. CASE Handoff!Claim(h)
  BY <1>2, <1>3, <1>5, HandoffRowRead DEF Handoff!Claim
<1>6. CASE Handoff!ReadBack(h)
  <2>1. handler[h].known.payload \in Payloads
    BY <1>6 DEF Handoff!ReadBack, HandoffHandler
  <2> QED BY <1>2, <1>4, <1>6, <2>1, HandoffRowRead DEF Handoff!ReadBack
<1> QED BY <1>5, <1>6

\* An answer leads to the checkpoint it proves.
LEMMA HandoffAnswered ==
    ASSUME HandoffInv, NEW r \in Handoff!Receipt, HandoffRead(r),
           r.stage \in {"frozen", "created", "selected", "completed"},
           NEW version \in Handoff!Answers(Handoff!CommandOf(r))
    PROVE  /\ version \in Nat
           /\ Handoff!After(r, version) \in Handoff!Receipt
           /\ HandoffNext(r, Handoff!After(r, version))
           /\ receipt = r => /\ r.stage = "frozen" => Handoff!After(r, version).initial = 1
                             /\ r.stage = "created" => Handoff!After(r, version).begun = 2
                             /\ r.stage = "selected" => Handoff!After(r, version).ended = 3
<1> USE HandoffStages
<1>1. Handoff!TypeOK /\ HandoffRow /\ HandoffOwner /\ draft \in Handoff!Owner
  BY DEF HandoffInv, Handoff!TypeOK
<1> DEFINE c == Handoff!CommandOf(r)
<1>2. /\ HandoffSent(c) /\ c.expected \in Nat
      /\ c.kind = Handoff!KindAfter[r.stage] /\ c = HandoffCommand(c.kind)
  BY <1>1, HandoffCalled DEF Handoff!Command, HandoffSent
<1>3. /\ Handoff!Executable(c) => draft.version = c.expected /\ ~HandoffMade(c.kind)
      /\ ~Handoff!Executable(c) => HandoffMade(c.kind)
      /\ \A m \in Handoff!Repeated(c) : m.version = c.expected + 1
  BY <1>1, <1>2, HandoffExecutes
<1>4. draft.version \in Nat
  BY <1>1 DEF Handoff!Owner
<1>5. \/ Handoff!Executable(c) /\ version = c.expected + 1
      \/ HandoffMade(c.kind) /\ version \in {draft.version, c.expected + 1}
  BY <1>3 DEF Handoff!Answers
<1>6. version \in Nat
  BY <1>2, <1>4, <1>5
<1>7. /\ r.stage = "frozen" => Handoff!After(r, version) =
            [r EXCEPT !.stage = "created", !.initial = version]
      /\ r.stage = "created" => Handoff!After(r, version) =
            [r EXCEPT !.stage = "admitted", !.begun = version]
      /\ r.stage = "selected" => Handoff!After(r, version) =
            [r EXCEPT !.stage = "completed", !.ended = version]
      /\ r.stage = "completed" => Handoff!After(r, version) =
            [r EXCEPT !.stage = "done", !.result = version]
  BY DEF Handoff!After
<1>8. Handoff!After(r, version) \in Handoff!Receipt
  <2>1. /\ [r EXCEPT !.stage = "created", !.initial = version] \in Handoff!Receipt
        /\ [r EXCEPT !.stage = "admitted", !.begun = version] \in Handoff!Receipt
        /\ [r EXCEPT !.stage = "completed", !.ended = version] \in Handoff!Receipt
        /\ [r EXCEPT !.stage = "done", !.result = version] \in Handoff!Receipt
    BY <1>6, HandoffReceipts
  <2> QED BY <1>7, <2>1
<1>9. /\ r.stage = "frozen" => Handoff!After(r, version).initial = version
      /\ r.stage = "created" => Handoff!After(r, version).begun = version
      /\ r.stage = "selected" => Handoff!After(r, version).ended = version
      /\ r.stage = "completed" => Handoff!After(r, version).result = version
  BY <1>7 DEF Handoff!Receipt
<1>10. HandoffNext(r, Handoff!After(r, version))
  <2>1. PICK next : next = Handoff!After(r, version)
    OBVIOUS
  <2>2. HandoffNext(r, next)
    BY <1>7, <1>9, <2>1 DEF HandoffNext
  <2> QED BY <2>1, <2>2
<1>11. ASSUME receipt = r, r.stage # "completed" PROVE version = c.expected + 1
  <2>1. /\ draft.edited => HandoffMade("validate")
        /\ draft.version = IF draft.edited THEN 5
                           ELSE IF HandoffMade("validate") THEN 4
                           ELSE IF HandoffMade("complete") THEN 3
                           ELSE IF HandoffMade("begin") THEN 2
                           ELSE IF HandoffMade("create") THEN 1
                           ELSE 0
    BY <1>1 DEF HandoffOwner
  <2>2. CASE r.stage = "frozen"
    <3>1. /\ ~HandoffMade("begin") /\ ~HandoffMade("complete") /\ ~HandoffMade("validate")
      BY <1>1, <1>11, <2>2, HandoffChain
    <3>2. c.kind = "create" /\ c.expected = 0
      BY <1>2, <2>2 DEF Handoff!KindAfter, HandoffCommand
    <3>3. HandoffMade("create") => draft.version = 1
      BY <2>1, <3>1
    <3> QED BY <1>5, <3>2, <3>3
  <2>3. CASE r.stage = "created"
    <3>1. ~HandoffMade("complete") /\ ~HandoffMade("validate")
      BY <1>1, <1>11, <2>3, HandoffChain
    <3>2. c.kind = "begin" /\ c.expected = 1
      BY <1>2, <2>3 DEF Handoff!KindAfter, HandoffCommand
    <3>3. HandoffMade("begin") => draft.version = 2
      BY <2>1, <3>1
    <3> QED BY <1>5, <3>2, <3>3
  <2>4. CASE r.stage = "selected"
    <3>1. ~HandoffMade("validate")
      BY <1>1, <1>11, <2>4, HandoffChain
    <3>2. c.kind = "complete" /\ c.expected = 2
      BY <1>2, <2>4 DEF Handoff!KindAfter, HandoffCommand
    <3>3. HandoffMade("complete") => draft.version = 3
      BY <2>1, <3>1
    <3> QED BY <1>5, <3>2, <3>3
  <2> QED BY <1>11, <2>2, <2>3, <2>4
<1>12. /\ r.stage = "frozen" => c.expected = 0
       /\ r.stage = "created" => c.expected = 1
       /\ r.stage = "selected" => c.expected = 2
  BY <1>2 DEF Handoff!KindAfter, HandoffCommand
<1>13. receipt = r => /\ r.stage = "frozen" => version = 1
                      /\ r.stage = "created" => version = 2
                      /\ r.stage = "selected" => version = 3
  BY <1>11, <1>12
<1> QED BY <1>6, <1>8, <1>9, <1>10, <1>13

\* The request is about to send the command of a receipt it has read.
LEMMA HandoffSender ==
    ASSUME HandoffInv, NEW h \in Handlers, Handoff!Sends(h)
    PROVE  /\ HandoffRead(handler[h].known)
           /\ handler[h].known.stage \in {"frozen", "created", "selected", "completed"}
           /\ HandoffSent(Handoff!CommandOf(handler[h].known))
           /\ Handoff!CommandOf(handler[h].known) \in Handoff!Command
<1>1. /\ HandoffRead(handler[h].known)
      /\ handler[h].known.stage \in {"frozen", "created", "selected", "completed"}
  BY HandoffShapes DEF Handoff!Sends, HandoffHandler
<1> QED BY <1>1, HandoffCalled DEF HandoffInv

LEMMA HandoffCallKept ==
    ASSUME HandoffInv, NEW h \in Handlers, Handoff!Call(h)
    PROVE  HandoffInv'
<1> DEFINE known == handler[h].known
<1>0. PICK c : c = Handoff!CommandOf(known)
  OBVIOUS
<1>1. /\ HandoffRead(known) /\ known \in Handoff!Receipt
      /\ known.stage \in {"frozen", "created", "selected", "completed"}
      /\ HandoffSent(c) /\ c \in Handoff!Command
      /\ c.kind = Handoff!KindAfter[known.stage]
  BY <1>0, HandoffSender, HandoffShapes, HandoffCalled DEF Handoff!Call, HandoffInv
<1>2. UNCHANGED <<receipt, stale, strays, puts, told, faults>> /\ Handoff!Obeys(c)
  BY <1>0 DEF Handoff!Call
<1>3. /\ HandoffOwner' /\ draft' \in Handoff!Owner
      /\ HandoffMade(c.kind)' /\ \A k : HandoffMade(k) => HandoffMade(k)'
      /\ ~Handoff!Refuses(c)
  <2>1. Handoff!TypeOK /\ HandoffOwner /\ \A d \in strays' : HandoffSent(d)
    BY <1>2 DEF HandoffInv, HandoffOwner
  <2> QED BY <1>1, <1>2, <2>1, HandoffObeyed, HandoffExecutes
<1>4. PICK version \in Handoff!Answers(c) :
         Handoff!Wants(h, known, Handoff!After(known, version))
  BY <1>0, <1>3 DEF Handoff!Call
<1>5. PICK next : next = Handoff!After(known, version)
  OBVIOUS
<1>6. /\ next \in Handoff!Receipt /\ HandoffNext(known, next)
      /\ receipt = known => /\ known.stage = "frozen" => next.initial = 1
                            /\ known.stage = "created" => next.begun = 2
                            /\ known.stage = "selected" => next.ended = 3
  BY <1>0, <1>1, <1>4, <1>5, HandoffAnswered
<1>7. PICK x : x = [pc |-> "storing", known |-> known, next |-> next]
  OBVIOUS
<1>8. x \in Handoff!Handling /\ x.known = known /\ x.next = next /\ x.pc = "storing"
  BY <1>1, <1>6, <1>7 DEF Handoff!Handling
<1>9. PICK earlier : earlier = known
  OBVIOUS
<1>10. HandoffRead(earlier)'
  BY <1>1, <1>2, <1>9 DEF HandoffRead, HandoffAsOf
<1>11. /\ earlier.stage = "frozen" => HandoffMade("create")'
       /\ earlier.stage = "created" => HandoffMade("begin")'
       /\ earlier.stage = "selected" => HandoffMade("complete")'
       /\ earlier.stage = "completed" => HandoffMade("validate")'
  <2>1. c.kind = Handoff!KindAfter[earlier.stage]
    BY <1>1, <1>9
  <2> QED BY <1>3, <2>1 DEF Handoff!KindAfter
<1>12. receipt' = earlier => HandoffProven(earlier, next)'
  BY <1>2, <1>6, <1>9, <1>11 DEF HandoffProven
<1>13. HandoffHandler(x)'
  BY <1>6, <1>8, <1>9, <1>10, <1>12 DEF HandoffHandler
<1>14. /\ handler' \in [Handlers -> Handoff!Handling]
       /\ \A g \in Handlers : HandoffHandler(handler[g])'
  <2>1. handler' = [handler EXCEPT ![h] = x]
    BY <1>4, <1>5, <1>7 DEF Handoff!Wants
  <2> QED BY <1>2, <1>3, <1>8, <1>13, <2>1, HandoffHandlersKept
          DEF HandoffInv, HandoffAdvances
<1>15. HandoffRow' /\ HandoffTold'
  BY <1>2 DEF HandoffInv, HandoffRow, HandoffRead, HandoffAsOf, HandoffTold
<1>16. Handoff!TypeOK'
  BY <1>2, <1>3, <1>14 DEF HandoffInv, Handoff!TypeOK
<1> QED BY <1>3, <1>14, <1>15, <1>16 DEF HandoffInv

\* The owner gets a command late, or the user edits the draft.
LEMMA HandoffOwnerMoves ==
    ASSUME HandoffInv, HandoffOwner', draft' \in Handoff!Owner,
           \A k : HandoffMade(k) => HandoffMade(k)',
           strays' \subseteq Handoff!Command,
           UNCHANGED <<receipt, stale, handler, puts, told, faults>>
    PROVE  HandoffInv'
<1>1. Handoff!TypeOK'
  BY DEF HandoffInv, Handoff!TypeOK
<1>2. HandoffRow' /\ HandoffTold'
  BY DEF HandoffInv, HandoffRow, HandoffRead, HandoffAsOf, HandoffTold
<1>3. ASSUME NEW g \in Handlers PROVE HandoffHandler(handler[g])'
  <2>1. PICK x : x = handler[g]
    OBVIOUS
  <2>2. HandoffHandler(x)'
    BY <2>1, HandoffHandlerKept DEF HandoffInv, HandoffAdvances
  <2> QED BY <2>1, <2>2 DEF HandoffHandler
<1> QED BY <1>1, <1>2, <1>3 DEF HandoffInv

LEMMA HandoffArriveKept ==
    ASSUME HandoffInv, NEW c \in strays, Handoff!Arrive(c)
    PROVE  HandoffInv'
<1>1. /\ c \in Handoff!Command /\ HandoffSent(c) /\ strays' \subseteq Handoff!Command
      /\ \A d \in strays' : HandoffSent(d)
      /\ UNCHANGED <<receipt, stale, handler, puts, told, faults>> /\ Handoff!Obeys(c)
  BY HandoffShapes DEF Handoff!Arrive
<1>2. /\ HandoffOwner' /\ draft' \in Handoff!Owner
      /\ \A k : HandoffMade(k) => HandoffMade(k)'
  BY <1>1, HandoffObeyed DEF HandoffInv
<1> QED BY <1>1, <1>2, HandoffOwnerMoves

LEMMA HandoffEditKept ==
    ASSUME HandoffInv, Handoff!Edit
    PROVE  HandoffInv'
<1>1. /\ HandoffMade("validate") /\ ~draft.edited
      /\ draft' = [draft EXCEPT !.edited = TRUE, !.version = @ + 1]
      /\ UNCHANGED <<receipt, stale, handler, strays, puts, told, faults>>
  BY DEF Handoff!Edit, HandoffMade
<1>2. draft \in Handoff!Owner /\ HandoffOwner
  BY DEF HandoffInv, Handoff!TypeOK
<1>3. /\ draft'.edited /\ draft'.version = 5
      /\ draft'.made = draft.made /\ draft'.source = draft.source
      /\ draft'.refused = draft.refused
  BY <1>1, <1>2 DEF Handoff!Owner, HandoffOwner
<1>4. \A k : HandoffMade(k)' <=> HandoffMade(k)
  BY <1>3 DEF HandoffMade
<1>5. \A c : HandoffSent(c)' <=> HandoffSent(c)
  BY <1>1 DEF HandoffSent, HandoffCommand
<1>6. draft' \in Handoff!Owner
  <2>1. draft.version + 1 \in Nat
    BY <1>2 DEF Handoff!Owner
  <2> QED BY <1>1, <1>2, <2>1 DEF Handoff!Owner
<1>7. HandoffOwner'
  BY <1>1, <1>2, <1>3, <1>4, <1>5 DEF HandoffOwner
<1>8. strays' \subseteq Handoff!Command
  BY <1>1, HandoffShapes
<1> QED BY <1>1, <1>4, <1>6, <1>7, <1>8, HandoffOwnerMoves

\* A call is lost, a request is given up, or the clock goes on.
LEMMA HandoffLossKept ==
    ASSUME Handoff!ConstantsAssumption, HandoffInv,
           \/ \E h \in Handlers : Handoff!CallFails(h) \/ Handoff!Abandon(h)
           \/ Handoff!Ages
    PROVE  HandoffInv'
<1> USE HandoffShapes
<1>1. Handoff!Fault => faults' \in 0..MaxFaults
  BY DEF Handoff!Fault, Handoff!ConstantsAssumption
<1>2. ASSUME NEW h \in Handlers, Handoff!CallFails(h) PROVE HandoffInv'
  <2>1. /\ HandoffSent(Handoff!CommandOf(handler[h].known))
        /\ Handoff!CommandOf(handler[h].known) \in Handoff!Command
    BY <1>2, HandoffSender DEF Handoff!CallFails
  <2>2. strays' \subseteq Handoff!Command /\ \A d \in strays' : HandoffSent(d)
    BY <1>2, <2>1 DEF Handoff!CallFails
  <2> QED BY <1>1, <1>2, <2>2, HandoffRests DEF Handoff!CallFails
<1>3. ASSUME NEW h \in Handlers, Handoff!Abandon(h) PROVE HandoffInv'
  BY <1>1, <1>3, HandoffRests DEF Handoff!Abandon, Handoff!External
<1>4. CASE Handoff!Ages
  <2>1. /\ UNCHANGED <<receipt, handler, draft, strays, puts, told, faults>> /\ stale' \in BOOLEAN
    BY <1>4 DEF Handoff!Ages, Handoff!External
  <2>2. Handoff!TypeOK'
    BY <2>1 DEF Handoff!TypeOK
  <2>3. HandoffRow' /\ HandoffTold'
    BY <2>1 DEF HandoffInv, HandoffRow, HandoffRead, HandoffAsOf, HandoffTold
  <2>4. HandoffAdvances /\ \A k : HandoffMade(k) => HandoffMade(k)'
    BY <2>1 DEF HandoffAdvances, HandoffMade
  <2>5. HandoffOwner'
    BY <2>1, <2>4, HandoffOwnerKept DEF HandoffInv
  <2>6. ASSUME NEW g \in Handlers PROVE HandoffHandler(handler[g])'
    <3>1. PICK x : x = handler[g]
      OBVIOUS
    <3>2. HandoffHandler(x)'
      BY <2>4, <3>1, HandoffHandlerKept
    <3> QED BY <2>1, <3>1, <3>2 DEF HandoffHandler
  <2> QED BY <2>2, <2>3, <2>5, <2>6 DEF HandoffInv
<1> QED BY <1>2, <1>3, <1>4

\* The state of the upload is read, or the bytes are put.
LEMMA HandoffUploadKept ==
    ASSUME HandoffInv, NEW h \in Handlers, Handoff!Status(h) \/ Handoff!Put(h)
    PROVE  HandoffInv'
<1> USE HandoffShapes
<1>1. UNCHANGED <<receipt, stale, draft, strays, told, faults>>
  BY DEF Handoff!Status, Handoff!Put, Handoff!External
<1>2. CASE Handoff!Status(h)
  <2>1. CASE Handoff!Rests(h)
    BY <1>1, <1>2, <2>1, HandoffRests DEF Handoff!Status, Handoff!External
  <2>2. CASE handler' = [handler EXCEPT ![h].pc = "checked"]
    <3>1. PICK x : x = [handler[h] EXCEPT !.pc = "checked"]
      OBVIOUS
    <3>2. x \in Handoff!Handling /\ x.pc = "checked" /\ x.known = handler[h].known
      BY <3>1 DEF Handoff!Handling
    <3>3. HandoffHandler(x)
      BY <1>2, <3>2 DEF Handoff!Status, HandoffHandler
    <3>4. puts' \in Nat /\ handler' = [handler EXCEPT ![h] = x]
      BY <1>2, <2>2, <3>1 DEF Handoff!Status, Handoff!External
    <3> QED BY <1>1, <3>2, <3>3, <3>4, HandoffQuiet
  <2> QED BY <1>2, <2>1, <2>2 DEF Handoff!Status
<1>3. CASE Handoff!Put(h)
  <2> DEFINE known == handler[h].known
             next == [known EXCEPT !.stage = "selected", !.source = puts + 1]
  <2>1. CASE Handoff!Rests(h) /\ puts' = puts
    BY <1>1, <2>1, HandoffRests
  <2>2. CASE puts' = puts + 1 /\ Handoff!Wants(h, known, next)
    <3>1. known.stage = "admitted" /\ HandoffRead(known) /\ known \in Handoff!Receipt
      BY <1>3 DEF Handoff!Put, HandoffHandler
    <3>2. puts + 1 \in Nat /\ puts + 1 # 0
      OBVIOUS
    <3>3. next \in Handoff!Receipt
      BY <3>1, <3>2, HandoffReceipts
    <3>4. next.source = puts + 1
      BY <3>1 DEF Handoff!Receipt
    <3>5. HandoffNext(known, next)
      BY <3>1, <3>2, <3>4 DEF HandoffNext
    <3>6. PICK x : x = [pc |-> "storing", known |-> known, next |-> next]
      OBVIOUS
    <3>7. x \in Handoff!Handling
      BY <3>1, <3>3, <3>6 DEF Handoff!Handling
    <3>8. HandoffProven(known, next)
      BY <3>1 DEF HandoffProven
    <3>9. HandoffHandler(x)
      BY <3>1, <3>5, <3>6, <3>8 DEF HandoffHandler
    <3>10. handler' = [handler EXCEPT ![h] = x]
      BY <2>2, <3>6 DEF Handoff!Wants
    <3> QED BY <1>1, <2>2, <3>2, <3>7, <3>9, <3>10, HandoffQuiet
  <2> QED BY <1>3, <2>1, <2>2 DEF Handoff!Put
<1> QED BY <1>2, <1>3

-----------------------------------------------------------------------------
(* SkillHandoff: checkpoints *)

\* A request whose checkpoint is stored goes on from it, or answers its result.
LEMMA HandoffProceeds ==
    ASSUME HandoffInv, HandoffAdvances, UNCHANGED <<draft, strays, puts, faults>>,
           stale' \in BOOLEAN, NEW h \in Handlers,
           handler[h].pc \in {"storing", "verifying"},
           receipt' = handler[h].next, Handoff!Proceeds(h)
    PROVE  HandoffInv'
<1> USE HandoffShapes, HandoffStages
<1>1. PICK next : next = handler[h].next
  OBVIOUS
<1>2. /\ receipt' = next /\ next \in Handoff!Receipt
      /\ HandoffNext(handler[h].known, next) /\ handler[h].known \in Handoff!Receipt
  BY <1>1 DEF HandoffHandler
<1>3. next.stage \in HandoffFrom("frozen")
  BY <1>2, HandoffNextStage
<1>4. HandoffRow'
  BY HandoffRowKept DEF HandoffInv
<1>5. HandoffRead(next)' /\ next.payload \in Payloads
  <2>1. Handoff!NoReceipt.stage = "none"
        /\ \A p \in Payloads : Handoff!Pending(p).stage = "pending"
    BY HandoffRowRead
  <2>2. receipt' # Handoff!NoReceipt /\ \A p \in Payloads : receipt' # Handoff!Pending(p)
    BY <1>2, <1>3, <2>1
  <2>3. HandoffRead(receipt)' /\ receipt'.payload \in Payloads
    BY <1>4, <2>2 DEF HandoffRow
  <2> QED BY <1>2, <2>3 DEF HandoffRead, HandoffAsOf
<1>6. CASE next.stage = "done"
  <2>1. /\ told' = told \cup {[payload |-> next.payload, result |-> next.result]}
        /\ Handoff!Rests(h)
    BY <1>1, <1>6 DEF Handoff!Proceeds
  <2>2. told' \in SUBSET [payload: Payloads, result: Nat]
    BY <1>2, <1>5, <2>1 DEF Handoff!TypeOK, Handoff!Receipt
  <2>3. HandoffTold'
    <3>1. CASE told = {}
      BY <1>2, <1>6, <2>1, <3>1 DEF HandoffTold
    <3>2. CASE told # {}
      <4>1. receipt.stage = "done"
        BY <3>2 DEF HandoffInv, HandoffTold
      <4>2. receipt' = receipt
        BY <4>1, HandoffStep
      <4> QED BY <1>2, <1>6, <2>1, <4>2 DEF HandoffInv, HandoffTold
    <3> QED BY <3>1, <3>2
  <2>4. PICK x : x = Handoff!Idle
    OBVIOUS
  <2>5. x \in Handoff!Handling /\ HandoffHandler(x)' /\ handler' = [handler EXCEPT ![h] = x]
    BY <2>1, <2>4 DEF Handoff!Rests, HandoffHandler, Handoff!Idle
  <2>6. receipt' \in Handoff!Receipt /\ puts' \in Nat /\ faults' \in 0..MaxFaults
        /\ strays' \subseteq Handoff!Command /\ \A d \in strays' : HandoffSent(d)
    BY <1>2
  <2> QED BY <2>2, <2>3, <2>5, <2>6, HandoffStepKept
<1>7. CASE next.stage # "done"
  <2>1. PICK x : x = [pc |-> IF next.stage \in {"selected", "completed"} THEN "checked"
                             ELSE "working",
                      known |-> next, next |-> Handoff!NoReceipt]
    OBVIOUS
  <2>2. handler' = [handler EXCEPT ![h] = x] /\ told' = told
    BY <1>1, <1>7, <2>1 DEF Handoff!Proceeds
  <2>3. /\ x.known = next
        /\ x.pc = IF next.stage \in {"selected", "completed"} THEN "checked" ELSE "working"
    BY <2>1
  <2>4. x \in Handoff!Handling
    BY <1>2, <2>1, HandoffReceipts DEF Handoff!Handling
  <2>5. HandoffHandler(x)'
    BY <1>3, <1>5, <1>7, <2>3 DEF HandoffHandler
  <2>6. HandoffTold' /\ told' \in SUBSET [payload: Payloads, result: Nat]
    BY <2>2, HandoffToldKept DEF HandoffInv, Handoff!TypeOK
  <2>7. receipt' \in Handoff!Receipt /\ puts' \in Nat /\ faults' \in 0..MaxFaults
        /\ strays' \subseteq Handoff!Command /\ \A d \in strays' : HandoffSent(d)
    BY <1>2
  <2> QED BY <2>2, <2>4, <2>5, <2>6, <2>7, HandoffStepKept
<1> QED BY <1>6, <1>7

\* What is stored over the receipt a request has read is true.
LEMMA HandoffStores ==
    ASSUME HandoffInv, NEW h \in Handlers, handler[h].pc = "storing",
           Handoff!UnchangedReceipt(h), receipt' = handler[h].next
    PROVE  HandoffAdvances
<1>1. /\ receipt = handler[h].known
      /\ HandoffNext(handler[h].known, handler[h].next)
      /\ HandoffProven(handler[h].known, handler[h].next)
  BY HandoffShapes DEF HandoffHandler, Handoff!UnchangedReceipt
<1>2. HandoffNext(receipt, receipt') /\ HandoffProven(receipt, receipt')
  BY <1>1
<1> QED BY <1>2 DEF HandoffAdvances

\* The statement did not answer that it has updated the row.
LEMMA HandoffVerifies ==
    ASSUME Handoff!ConstantsAssumption, HandoffInv, HandoffAdvances,
           UNCHANGED <<draft, strays, puts, told>>,
           receipt' \in Handoff!Receipt, stale' \in BOOLEAN, faults' \in 0..MaxFaults,
           NEW h \in Handlers, handler[h].pc = "storing",
           handler' = [handler EXCEPT ![h].pc = "verifying"]
    PROVE  HandoffInv'
<1> USE HandoffShapes
<1>1. PICK x : x = [handler[h] EXCEPT !.pc = "verifying"]
  OBVIOUS
<1>2. /\ x \in Handoff!Handling /\ x.pc = "verifying"
      /\ x.known = handler[h].known /\ x.next = handler[h].next
  BY <1>1 DEF Handoff!Handling
<1>3. HandoffHandler(x)
  BY <1>2 DEF HandoffHandler
<1>4. HandoffHandler(x)'
  <2>1. \A k : HandoffMade(k) => HandoffMade(k)'
    BY DEF HandoffMade
  <2> QED BY <1>3, <2>1, HandoffHandlerKept
<1>5. HandoffTold' /\ told' \in SUBSET [payload: Payloads, result: Nat]
  BY HandoffToldKept DEF HandoffInv, Handoff!TypeOK
<1> QED BY <1>1, <1>2, <1>4, <1>5, HandoffStepKept

LEMMA HandoffStoreKept ==
    ASSUME Handoff!ConstantsAssumption, HandoffInv, NEW h \in Handlers,
           Handoff!Store(h) \/ Handoff!StoreUnknown(h) \/ Handoff!Verify(h)
    PROVE  HandoffInv'
<1> USE HandoffShapes
<1>1. stale \in BOOLEAN
  BY DEF Handoff!TypeOK
<1>2. CASE Handoff!Store(h)
  <2>1. UNCHANGED <<draft, strays, puts, faults>> /\ handler[h].pc = "storing"
    BY <1>2 DEF Handoff!Store, Handoff!External
  <2>2. CASE Handoff!UnchangedReceipt(h)
    <3>1. receipt' = handler[h].next /\ stale' = FALSE /\ Handoff!Proceeds(h)
      BY <1>2, <2>2 DEF Handoff!Store
    <3> QED BY <2>1, <2>2, <3>1, HandoffStores, HandoffProceeds
  <2>3. CASE ~Handoff!UnchangedReceipt(h)
    <3>1. /\ handler' = [handler EXCEPT ![h].pc = "verifying"]
          /\ UNCHANGED <<receipt, stale, told>>
      BY <1>2, <2>3 DEF Handoff!Store
    <3> QED BY <1>1, <2>1, <3>1, HandoffVerifies DEF HandoffAdvances
  <2> QED BY <2>2, <2>3
<1>3. CASE Handoff!StoreUnknown(h)
  <2>1. /\ UNCHANGED <<draft, strays, puts, told>> /\ handler[h].pc = "storing"
        /\ handler' = [handler EXCEPT ![h].pc = "verifying"]
        /\ faults' \in 0..MaxFaults
    BY <1>3 DEF Handoff!StoreUnknown, Handoff!External, Handoff!Fault,
                Handoff!ConstantsAssumption
  <2>2. CASE Handoff!UnchangedReceipt(h) /\ receipt' = handler[h].next /\ stale' = FALSE
    BY <2>1, <2>2, HandoffStores, HandoffVerifies
  <2>3. CASE UNCHANGED <<receipt, stale>>
    BY <1>1, <2>1, <2>3, HandoffVerifies DEF HandoffAdvances
  <2> QED BY <1>3, <2>2, <2>3 DEF Handoff!StoreUnknown
<1>4. CASE Handoff!Verify(h)
  <2>1. UNCHANGED <<receipt, stale, draft, strays, puts, faults>> /\ handler[h].pc = "verifying"
    BY <1>4 DEF Handoff!Verify, Handoff!External
  <2>2. CASE Handoff!Confirmed(h)
    BY <1>1, <1>4, <2>1, <2>2, HandoffProceeds
       DEF Handoff!Verify, Handoff!Confirmed, HandoffAdvances
  <2>3. CASE ~Handoff!Confirmed(h)
    BY <1>4, <2>1, <2>3, HandoffRests DEF Handoff!Verify
  <2> QED BY <2>2, <2>3
<1> QED BY <1>2, <1>3, <1>4

LEMMA HandoffReplayKept ==
    ASSUME HandoffInv, NEW p \in Payloads, Handoff!Replay(p)
    PROVE  HandoffInv'
<1>1. /\ UNCHANGED <<receipt, stale, handler, draft, strays, puts, faults>>
      /\ receipt.payload = p /\ receipt.stage = "done"
      /\ told' = told \cup {[payload |-> p, result |-> receipt.result]}
  BY DEF Handoff!Replay, Handoff!External
<1>2. receipt.result \in Nat
  BY HandoffShapes DEF Handoff!Receipt
<1>3. Handoff!TypeOK'
  BY <1>1, <1>2 DEF HandoffInv, Handoff!TypeOK
<1>4. HandoffTold'
  BY <1>1 DEF HandoffInv, HandoffTold
<1>5. HandoffRow'
  BY <1>1 DEF HandoffInv, HandoffRow, HandoffRead, HandoffAsOf
<1>6. HandoffOwner'
  BY <1>1, HandoffOwnerKept, HandoffShapes DEF HandoffInv, HandoffAdvances
<1>7. ASSUME NEW g \in Handlers PROVE HandoffHandler(handler[g])'
  <2>1. PICK x : x = handler[g]
    OBVIOUS
  <2>2. \A k : HandoffMade(k) => HandoffMade(k)'
    BY <1>1 DEF HandoffMade
  <2>3. HandoffHandler(x)'
    BY <1>1, <2>1, <2>2, HandoffHandlerKept, HandoffShapes DEF HandoffAdvances
  <2> QED BY <1>1, <2>1, <2>3 DEF HandoffHandler
<1> QED BY <1>3, <1>4, <1>5, <1>6, <1>7 DEF HandoffInv

\* A key starts without a receipt, and the owner without a draft.
LEMMA HandoffInitInv == ASSUME Handoff!ConstantsAssumption, Handoff!Init PROVE HandoffInv
<1> USE HandoffStages
<1>1. Handoff!Idle \in Handoff!Handling /\ HandoffHandler(Handoff!Idle)
  BY HandoffReceipts DEF Handoff!Idle, Handoff!Handling, HandoffHandler
<1>2. draft \in Handoff!Owner
  BY DEF Handoff!Init, Handoff!Owner
<1>3. Handoff!TypeOK
  <2>1. receipt \in Handoff!Receipt /\ handler \in [Handlers -> Handoff!Handling]
    BY <1>1, HandoffReceipts DEF Handoff!Init
  <2>2. faults \in 0..MaxFaults /\ puts \in Nat
    BY DEF Handoff!Init, Handoff!ConstantsAssumption
  <2> QED BY <1>2, <2>1, <2>2 DEF Handoff!Init, Handoff!TypeOK
<1>4. HandoffRow /\ HandoffTold
  BY DEF Handoff!Init, HandoffRow, HandoffTold
<1>5. \A k : ~HandoffMade(k)
  BY DEF Handoff!Init, HandoffMade
<1>6. HandoffOwner
  BY <1>5 DEF Handoff!Init, HandoffOwner, Handoff!NoReceipt
<1>7. \A g \in Handlers : HandoffHandler(handler[g])
  BY <1>1 DEF Handoff!Init
<1> QED BY <1>3, <1>4, <1>6, <1>7 DEF HandoffInv

\* The inductive invariant of a hand-over (skill-ai-handoff.ts): a receipt is what the
\* owner has done, whatever a request last read of it is what it was, and every
\* command sent of a kind is the same one, whichever request sent it and when.
THEOREM HandoffCorrect ==
    ASSUME Handoff!ConstantsAssumption PROVE Handoff!Spec => []HandoffInv
<1>1. Handoff!Init => HandoffInv
  BY HandoffInitInv
<1>2. HandoffInv /\ [Handoff!Next]_(Handoff!vars) => HandoffInv'
  <2>1. ASSUME HandoffInv, Handoff!Next PROVE HandoffInv'
    BY <2>1, HandoffStartKept, HandoffClaimKept, HandoffCallKept, HandoffUploadKept,
       HandoffStoreKept, HandoffLossKept, HandoffReplayKept, HandoffArriveKept,
       HandoffEditKept
       DEF Handoff!Next, Handoff!Step
  <2>2. ASSUME HandoffInv, UNCHANGED Handoff!vars PROVE HandoffInv'
    <3>1. UNCHANGED <<receipt, stale, handler, draft, strays, puts, told, faults>>
      BY <2>2 DEF Handoff!vars
    <3>2. \A k : HandoffMade(k) => HandoffMade(k)'
      BY <3>1 DEF HandoffMade
    <3>3. HandoffOwner' /\ draft' \in Handoff!Owner /\ strays' \subseteq Handoff!Command
      BY <2>2, <3>1, HandoffOwnerKept, HandoffShapes
         DEF HandoffInv, HandoffAdvances, Handoff!TypeOK
    <3> QED BY <2>2, <3>1, <3>2, <3>3, HandoffOwnerMoves
  <2> QED BY <2>1, <2>2
<1> QED BY <1>1, <1>2, PTL DEF Handoff!Spec

\* However requests of a key overlap, are lost and start again, no command is turned
\* down, and the owner, the receipt and the caller agree on one draft.
THEOREM HandoffsAreSound ==
    ASSUME Handoff!ConstantsAssumption PROVE Handoff!Spec => []HandoffSound
<1>1. HandoffInv => HandoffSound
  <2> SUFFICES ASSUME HandoffInv PROVE HandoffSound
    OBVIOUS
  <2>1. CommandsNeverRefused
    BY DEF HandoffInv, HandoffOwner, CommandsNeverRefused
  <2>2. \A m \in draft.made : m.command.payload = receipt.payload
    <3>1. \A m \in draft.made : m.command = HandoffCommand(m.command.kind)
      BY DEF HandoffInv, HandoffOwner, HandoffSent
    <3>2. \A k : HandoffCommand(k).payload = receipt.payload
      BY DEF HandoffCommand
    <3> QED BY <3>1, <3>2
  <2>3. draft.source # 0 => draft.source = receipt.source
    BY DEF HandoffInv, HandoffOwner
  <2>4. \A t \in told : receipt.stage = "done" /\ t = [payload |-> receipt.payload,
                                                       result |-> receipt.result]
    BY DEF HandoffInv, HandoffTold
  <2> QED BY <2>1, <2>2, <2>3, <2>4 DEF HandoffSound, OneOutcome
<1> QED BY <1>1, HandoffCorrect, PTL

-----------------------------------------------------------------------------
(* Lifecycle: the inductive invariant *)

\* A cycle has a command to take.  A loop that was told to stop has no timer, and
\* has answered once it has no cycle.
ProcessLoops ==
    \A w \in Process!Loops :
        /\ loop[w].cycle # "none" => loop[w].left > 0
        /\ loop[w].stop = "waiting" => ~loop[w].timer /\ loop[w].cycle # "none"
        /\ loop[w].stop \in {"done", "rejected"} => Process!Quiet(w)

\* Loops are stopped one after the other, from the signal on.
ProcessStops ==
    /\ server \in {"unbound", "open"} =>
          /\ stopper.state = "no" /\ closer = "no" /\ store = "open"
          /\ \A w \in Process!Loops : loop[w].stop = "no"
    /\ stopper.state # "no" =>
          \A w \in Process!Loops : w < stopper.at => loop[w].stop = "done"
    /\ stopper.state = "done" => \A w \in Process!Loops : loop[w].stop = "done"

\* The store is closed after the loops and the server, and status 0 after that.
ProcessCloses ==
    /\ closer # "no" => server = "closed"
    /\ closer = "done" => store = "closed"
    /\ store # "open" => stopper.state = "done" /\ server = "closed"
    /\ server = "closed" => \A q \in Requests : request[q] # "served"
    /\ main.exit = "clean" => server = "closed" /\ closer = "done"

ProcessInv == Process!TypeOK /\ ProcessLoops /\ ProcessStops /\ ProcessCloses

-----------------------------------------------------------------------------
(* Processes: types *)

LEMMA ProcessLoopNumbers ==
    ASSUME Process!ConstantsAssumption
    PROVE  /\ Process!Projector \in Process!Loops /\ Process!Releaser \in Process!Loops
           /\ Process!Projector # Process!Releaser
           /\ Process!Releaser \in Int
           /\ \A w \in Process!Loops : /\ w \in Int
                                       /\ w <= Process!Releaser
                                       /\ w # Process!Releaser => w + 1 \in Process!Loops
BY DEF Process!ConstantsAssumption, Process!Loops, Process!Projector, Process!Releaser

LEMMA ProcessInitTypes == ASSUME Process!ConstantsAssumption, Process!Init PROVE Process!TypeOK
BY ProcessLoopNumbers
   DEF Process!ConstantsAssumption, Process!Init, Process!TypeOK, Process!Loop, Process!Unstarted

\* Stopping a loop and the end of its cycle keep it a loop.
LEMMA ProcessLoopTypes ==
    ASSUME Process!ConstantsAssumption, NEW loops \in [Process!Loops -> Process!Loop],
           NEW w \in Process!Loops
    PROVE  /\ Process!Stopped(loops, w) \in [Process!Loops -> Process!Loop]
           /\ \A failed \in BOOLEAN :
                 loop = loops /\ Process!EndCycle(w, failed)
                    => loop' \in [Process!Loops -> Process!Loop]
<1>1. loops[w] \in Process!Loop /\ 0 \in 0..Batch
  BY DEF Process!ConstantsAssumption
<1>2. [loops[w] EXCEPT !.timer = FALSE,
                       !.stop = IF loops[w].cycle = "none" THEN "done" ELSE "waiting"]
         \in Process!Loop
  BY <1>1 DEF Process!Loop
<1>3. Process!Stopped(loops, w) \in [Process!Loops -> Process!Loop]
  BY <1>2 DEF Process!Stopped
<1>4. ASSUME NEW failed \in BOOLEAN, loop = loops, Process!EndCycle(w, failed)
      PROVE  loop' \in [Process!Loops -> Process!Loop]
  <2>1. Process!Rearms(w) \in BOOLEAN
    BY <1>1, <1>4 DEF Process!Rearms, Process!Loop
  <2>2. Process!Answered(w, failed) \in {"no", "waiting", "done", "rejected"}
    BY <1>1, <1>4 DEF Process!Answered, Process!Loop
  <2>3. [timer |-> Process!Rearms(w), cycle |-> "none", left |-> 0,
         stop |-> Process!Answered(w, failed)] \in Process!Loop
    BY <1>1, <2>1, <2>2 DEF Process!Loop
  <2> QED BY <1>4, <2>3 DEF Process!EndCycle
<1> QED BY <1>3, <1>4

\* A step of a cycle.
ProcessCycleStep(w) ==
    \/ Process!Tick(w) \/ Process!Claim(w) \/ Process!CycleFails(w) \/ Process!Deliver(w)
    \/ Process!Settle(w)

LEMMA ProcessCycleTypes ==
    ASSUME Process!ConstantsAssumption, Process!TypeOK, ProcessLoops,
           NEW w \in Process!Loops, ProcessCycleStep(w)
    PROVE  Process!TypeOK'
<1>1. loop[w] \in Process!Loop /\ loop \in [Process!Loops -> Process!Loop]
  BY DEF Process!TypeOK
<1>2. \A failed \in BOOLEAN :
         Process!EndCycle(w, failed) => loop' \in [Process!Loops -> Process!Loop]
  BY <1>1, ProcessLoopTypes
<1>3. \A cycle \in {"none", "claiming", "delivering", "settling"} :
         [loop[w] EXCEPT !.cycle = cycle] \in Process!Loop
  BY <1>1 DEF Process!Loop
<1>4. loop' \in [Process!Loops -> Process!Loop]
  <2>1. CASE Process!Tick(w)
    <3>1. \A left \in 0..Batch : \A timer \in BOOLEAN :
             [loop[w] EXCEPT !.timer = timer, !.cycle = "claiming", !.left = left]
                \in Process!Loop
      BY <1>1 DEF Process!Loop
    <3>2. (IF w = Process!Projector THEN 1 ELSE Batch) \in 0..Batch
      BY DEF Process!ConstantsAssumption
    <3>3. [loop[w] EXCEPT !.timer = w # Process!Projector, !.cycle = "claiming",
                          !.left = IF w = Process!Projector THEN 1 ELSE Batch] \in Process!Loop
      BY <3>1, <3>2
    <3> QED BY <1>1, <2>1, <3>3 DEF Process!Tick
  <2>2. CASE Process!Claim(w)
    BY <1>1, <1>2, <1>3, <2>2 DEF Process!Claim
  <2>3. CASE Process!CycleFails(w)
    BY <1>2, <2>3 DEF Process!CycleFails
  <2>4. CASE Process!Deliver(w)
    BY <1>1, <1>2, <1>3, <2>4 DEF Process!Deliver
  <2>5. CASE Process!Settle(w)
    <3>1. CASE Process!Leaves(w) \/ loop[w].left = 1
      BY <1>2, <2>5, <3>1 DEF Process!Settle
    <3>2. CASE ~(Process!Leaves(w) \/ loop[w].left = 1)
      <4>1. loop[w].left \in 0..Batch /\ loop[w].left > 0 /\ Batch \in Nat
        BY <1>1, <2>5 DEF Process!Loop, Process!Settle, ProcessLoops,
                          Process!ConstantsAssumption
      <4>2. loop[w].left - 1 \in 0..Batch
        BY <4>1
      <4>3. [loop[w] EXCEPT !.cycle = "claiming", !.left = loop[w].left - 1] \in Process!Loop
        BY <1>1, <4>2 DEF Process!Loop
      <4> QED BY <1>1, <2>5, <3>2, <4>3 DEF Process!Settle
    <3> QED BY <3>1, <3>2
  <2> QED BY <2>1, <2>2, <2>3, <2>4, <2>5 DEF ProcessCycleStep
<1>5. faults' \in 0..MaxFaults
  <2>1. faults \in 0..MaxFaults /\ MaxFaults \in Nat
    BY DEF Process!TypeOK, Process!ConstantsAssumption
  <2>2. Process!Fault => faults' \in 0..MaxFaults
    BY <2>1 DEF Process!Fault
  <2>3. faults' = faults \/ Process!Fault
    BY DEF ProcessCycleStep, Process!Tick, Process!Claim, Process!CycleFails,
           Process!Deliver, Process!Settle
  <2> QED BY <2>1, <2>2, <2>3
<1>6. Process!OfCycles
  BY DEF ProcessCycleStep, Process!Tick, Process!Claim, Process!CycleFails, Process!Deliver,
         Process!Settle
<1> QED BY <1>4, <1>5, <1>6 DEF Process!OfCycles, Process!TypeOK

LEMMA ProcessRequestTypes ==
    ASSUME Process!TypeOK,
           \/ \E q \in Requests : Process!Arrive(q) \/ Process!HangUp(q) \/ Process!Finish(q)
           \/ Process!GraceEnds
    PROVE  Process!TypeOK'
<1>1. request' \in [Requests -> {"none", "served", "cut", "done"}]
  BY DEF Process!Arrive, Process!HangUp, Process!Finish, Process!GraceEnds, Process!TypeOK
<1> QED BY <1>1 DEF Process!Arrive, Process!HangUp, Process!Finish, Process!GraceEnds,
                    Process!TypeOK, Process!workers

LEMMA ProcessEndTypes ==
    ASSUME Process!TypeOK,
           \/ Process!ServerCloses \/ Process!CloseStore \/ Process!StoreCloses
           \/ Process!Terminated \/ Process!Leave \/ Process!ShutdownFails
           \/ Process!HardDeadline
    PROVE  Process!TypeOK'
<1>1. main' \in [phase: {"running", "terminating", "leaving", "exited"},
                 exit: {"none", "clean", "failed", "deadline"}]
  BY DEF Process!ServerCloses, Process!CloseStore, Process!StoreCloses, Process!Terminated,
         Process!Leave, Process!ShutdownFails, Process!HardDeadline, Process!TypeOK
<1> QED BY <1>1 DEF Process!ServerCloses, Process!CloseStore, Process!StoreCloses,
                    Process!Terminated, Process!Leave, Process!ShutdownFails,
                    Process!HardDeadline, Process!TypeOK, Process!workers

LEMMA ProcessStopTypes ==
    ASSUME Process!ConstantsAssumption, Process!TypeOK,
           Process!Listen \/ Process!Signal \/ Process!StopNext
    PROVE  Process!TypeOK'
<1> USE ProcessLoopNumbers
<1>1. loop \in [Process!Loops -> Process!Loop]
  BY DEF Process!TypeOK
<1>2. CASE Process!Listen
  <2>1. \A w \in Process!Loops : Process!Started(w) \in Process!Loop
    <3> TAKE w \in Process!Loops
    <3>1. 0 \in 0..Batch /\ Batch \in 0..Batch
      BY DEF Process!ConstantsAssumption
    <3>2. CASE w = Process!Projector
      BY <3>1, <3>2 DEF Process!Started, Process!Unstarted, Process!Loop
    <3>3. CASE w # Process!Projector
      BY <3>1, <3>3 DEF Process!Started, Process!Unstarted, Process!Loop
    <3> QED BY <3>2, <3>3
  <2> QED BY <1>2, <2>1 DEF Process!Listen, Process!TypeOK
<1>3. CASE Process!Signal
  <2>1. Process!Stopped(loop, Process!Releaser) \in [Process!Loops -> Process!Loop]
    BY <1>1, ProcessLoopTypes
  <2>2. loop' \in [Process!Loops -> Process!Loop]
    BY <1>3, <2>1, ProcessLoopTypes DEF Process!Signal
  <2> QED BY <1>3, <2>2 DEF Process!Signal, Process!TypeOK
<1>4. CASE Process!StopNext
  <2>1. stopper.at \in Process!Loops
    BY DEF Process!TypeOK
  <2>2. stopper.at # Process!Releaser => stopper.at + 1 \in Process!Loops
    BY <2>1
  <2>3. stopper' \in [state: {"no", "awaiting", "done", "rejected"}, at: Process!Loops]
    BY <1>4, <2>2 DEF Process!StopNext, Process!TypeOK
  <2>4. loop' \in [Process!Loops -> Process!Loop]
    BY <1>1, <1>4, <2>2, ProcessLoopTypes DEF Process!StopNext
  <2> QED BY <1>4, <2>3, <2>4 DEF Process!StopNext, Process!TypeOK
<1> QED BY <1>2, <1>3, <1>4

LEMMA ProcessNextTypes ==
    ASSUME Process!ConstantsAssumption, Process!TypeOK, ProcessLoops,
           [Process!Next]_(Process!vars)
    PROVE  Process!TypeOK'
<1>1. CASE Process!Next
  BY <1>1, ProcessCycleTypes, ProcessRequestTypes, ProcessEndTypes, ProcessStopTypes
     DEF Process!Next, ProcessCycleStep
<1>2. CASE UNCHANGED Process!vars
  BY <1>2 DEF Process!vars, Process!TypeOK
<1> QED BY <1>1, <1>2

-----------------------------------------------------------------------------
(* Processes: loops and their stop *)

\* What a step of a cycle does to its loop: the cycle goes on, or it ends.
LEMMA ProcessCycleSteps ==
    ASSUME Process!ConstantsAssumption, Process!TypeOK, ProcessLoops,
           NEW w \in Process!Loops, ProcessCycleStep(w)
    PROVE  /\ \A v \in Process!Loops \ {w} : loop'[v] = loop[v]
           /\ Process!OfCycles
           /\ \/ /\ loop'[w].cycle # "none" /\ loop'[w].left > 0
                 /\ loop'[w].stop = loop[w].stop
                 /\ loop'[w].timer => loop[w].timer
                 /\ loop[w].timer \/ loop[w].cycle # "none"
              \/ /\ loop[w].cycle # "none" /\ loop'[w].cycle = "none"
                 /\ loop'[w].stop = "no" /\ loop[w].stop = "no"
              \/ /\ loop[w].cycle # "none" /\ loop'[w].cycle = "none"
                 /\ loop[w].stop = "waiting" /\ loop'[w].stop \in {"done", "rejected"}
                 /\ ~loop'[w].timer
<1> USE ProcessLoopNumbers
<1>1. /\ loop \in [Process!Loops -> Process!Loop] /\ loop[w] \in Process!Loop
      /\ Batch \in Nat \ {0}
  BY DEF Process!TypeOK, Process!ConstantsAssumption
<1>2. /\ loop[w].cycle # "none" => loop[w].left > 0
      /\ loop[w].stop = "waiting" => ~loop[w].timer /\ loop[w].cycle # "none"
      /\ loop[w].stop \in {"done", "rejected"} => loop[w].cycle = "none"
      /\ loop[w].stop \in {"no", "waiting", "done", "rejected"}
  BY <1>1 DEF ProcessLoops, Process!Quiet, Process!Loop
<1>3. /\ \A v \in Process!Loops \ {w} : loop'[v] = loop[v]
      /\ Process!OfCycles
  BY <1>1 DEF ProcessCycleStep, Process!Tick, Process!Claim, Process!CycleFails,
              Process!Deliver, Process!Settle, Process!EndCycle
<1> DEFINE Goes == /\ loop'[w].cycle # "none" /\ loop'[w].left > 0
                   /\ loop'[w].stop = loop[w].stop
                   /\ loop'[w].timer => loop[w].timer
                   /\ loop[w].timer \/ loop[w].cycle # "none"
           Ends == \/ /\ loop[w].cycle # "none" /\ loop'[w].cycle = "none"
                      /\ loop'[w].stop = "no" /\ loop[w].stop = "no"
                   \/ /\ loop[w].cycle # "none" /\ loop'[w].cycle = "none"
                      /\ loop[w].stop = "waiting" /\ loop'[w].stop \in {"done", "rejected"}
                      /\ ~loop'[w].timer
<1>4. ASSUME NEW failed \in BOOLEAN, Process!EndCycle(w, failed), loop[w].cycle # "none"
      PROVE  Ends
  <2>1. /\ loop'[w].timer = Process!Rearms(w) /\ loop'[w].cycle = "none"
        /\ loop'[w].stop = Process!Answered(w, failed)
    BY <1>1, <1>4 DEF Process!EndCycle
  <2>2. CASE loop[w].stop = "no"
    BY <1>4, <2>1, <2>2 DEF Process!Answered
  <2>3. CASE loop[w].stop = "waiting"
    <3>1. Process!Answered(w, failed) \in {"done", "rejected"}
      BY <2>3 DEF Process!Answered
    <3>2. ~Process!Rearms(w)
      BY <1>2, <2>3 DEF Process!Rearms
    <3> QED BY <1>4, <2>1, <2>3, <3>1, <3>2
  <2> QED BY <1>2, <1>4, <2>2, <2>3
<1>5. ASSUME NEW cycle \in {"claiming", "delivering", "settling"}, loop[w].cycle # "none",
             loop' = [loop EXCEPT ![w].cycle = cycle]
      PROVE  Goes
  BY <1>1, <1>2, <1>5 DEF Process!Loop
<1>6. CASE Process!Tick(w)
  <2>1. /\ loop'[w].cycle = "claiming" /\ loop'[w].stop = loop[w].stop /\ loop[w].timer
        /\ loop'[w].left = IF w = Process!Projector THEN 1 ELSE Batch
    BY <1>1, <1>6 DEF Process!Tick, Process!Loop
  <2>2. loop'[w].left > 0
    BY <1>1, <2>1
  <2>3. Goes
    BY <2>1, <2>2
  <2> QED BY <1>3, <2>3
<1> HIDE DEF Goes, Ends
<1>7. CASE Process!Claim(w) \/ Process!CycleFails(w) \/ Process!Deliver(w)
  <2>1. Goes \/ Ends
    BY <1>4, <1>5, <1>7 DEF Process!Claim, Process!CycleFails, Process!Deliver
  <2> QED BY <1>3, <2>1 DEF Goes, Ends
<1>8. CASE Process!Settle(w)
  <2>1. CASE Process!Leaves(w) \/ loop[w].left = 1
    <3>1. Ends
      BY <1>4, <1>8, <2>1 DEF Process!Settle
    <3> QED BY <1>3, <3>1 DEF Ends
  <2>2. CASE ~(Process!Leaves(w) \/ loop[w].left = 1)
    <3>1. loop' = [loop EXCEPT ![w].cycle = "claiming", ![w].left = loop[w].left - 1]
      BY <1>8, <2>2 DEF Process!Settle
    <3>2. /\ loop'[w].cycle = "claiming" /\ loop'[w].left = loop[w].left - 1
          /\ loop'[w].stop = loop[w].stop /\ loop'[w].timer = loop[w].timer
      BY <1>1, <3>1 DEF Process!Loop
    <3>3. loop[w].cycle # "none" /\ loop[w].left \in 0..Batch /\ loop[w].left # 1
      BY <1>1, <1>8, <2>2 DEF Process!Settle, Process!Loop
    <3>4. loop'[w].left > 0
      BY <1>1, <1>2, <3>2, <3>3
    <3>5. Goes
      BY <3>2, <3>3, <3>4 DEF Goes
    <3> QED BY <1>3, <3>5 DEF Goes
  <2> QED BY <2>1, <2>2
<1> QED BY <1>6, <1>7, <1>8 DEF ProcessCycleStep

\* What stopping a loop does.
LEMMA ProcessStopped ==
    ASSUME NEW loops \in [Process!Loops -> Process!Loop], NEW w \in Process!Loops
    PROVE  /\ \A v \in Process!Loops \ {w} : Process!Stopped(loops, w)[v] = loops[v]
           /\ ~Process!Stopped(loops, w)[w].timer
           /\ Process!Stopped(loops, w)[w].cycle = loops[w].cycle
           /\ Process!Stopped(loops, w)[w].left = loops[w].left
           /\ Process!Stopped(loops, w)[w].stop =
                 IF loops[w].cycle = "none" THEN "done" ELSE "waiting"
BY DEF Process!Stopped, Process!Loop

\* A loop of the invariant.
ProcessSound(x) ==
    /\ x.cycle # "none" => x.left > 0
    /\ x.stop = "waiting" => ~x.timer /\ x.cycle # "none"
    /\ x.stop \in {"done", "rejected"} => ~x.timer /\ x.cycle = "none"

LEMMA ProcessStoppedSound ==
    ASSUME NEW loops \in [Process!Loops -> Process!Loop], NEW w \in Process!Loops,
           \A v \in Process!Loops : ProcessSound(loops[v])
    PROVE  \A v \in Process!Loops : ProcessSound(Process!Stopped(loops, w)[v])
<1> TAKE v \in Process!Loops
<1>1. CASE v = w
  BY <1>1, ProcessStopped DEF ProcessSound
<1>2. CASE v # w
  BY <1>2, ProcessStopped
<1> QED BY <1>1, <1>2

LEMMA ProcessLoopsKept ==
    ASSUME Process!ConstantsAssumption, Process!TypeOK, ProcessLoops,
           [Process!Next]_(Process!vars)
    PROVE  ProcessLoops'
<1> USE ProcessLoopNumbers
<1>1. \A w \in Process!Loops : ProcessSound(loop[w])
  BY DEF ProcessLoops, Process!Quiet, ProcessSound
<1> SUFFICES \A w \in Process!Loops : ProcessSound(loop'[w])
  BY DEF ProcessLoops, Process!Quiet, ProcessSound
<1>2. loop \in [Process!Loops -> Process!Loop]
  BY DEF Process!TypeOK
<1>3. CASE loop' = loop
  BY <1>1, <1>3
<1>4. CASE Process!Listen
  <2>1. \A w \in Process!Loops : loop'[w] = Process!Started(w)
    BY <1>4 DEF Process!Listen
  <2>2. Batch \in Nat /\ Batch > 0
    BY DEF Process!ConstantsAssumption
  <2>3. \A w \in Process!Loops : ProcessSound(Process!Started(w))
    <3> TAKE w \in Process!Loops
    <3>1. CASE w = Process!Projector
      BY <3>1 DEF Process!Started, Process!Unstarted, ProcessSound
    <3>2. CASE w # Process!Projector
      BY <2>2, <3>2 DEF Process!Started, Process!Unstarted, ProcessSound
    <3> QED BY <3>1, <3>2
  <2> QED BY <2>1, <2>3
<1>5. CASE Process!Signal
  <2>1. /\ Process!Stopped(loop, Process!Releaser) \in [Process!Loops -> Process!Loop]
        /\ \A w \in Process!Loops :
              ProcessSound(Process!Stopped(loop, Process!Releaser)[w])
    BY <1>1, <1>2, ProcessLoopTypes, ProcessStoppedSound
  <2> QED BY <1>5, <2>1, ProcessStoppedSound DEF Process!Signal
<1>6. CASE Process!StopNext
  <2>1. stopper.at # Process!Releaser => stopper.at + 1 \in Process!Loops
    BY DEF Process!TypeOK
  <2>2. CASE /\ stopper.at # Process!Releaser
             /\ loop' = Process!Stopped(loop, stopper.at + 1)
    BY <1>1, <1>2, <2>1, <2>2, ProcessStoppedSound
  <2> QED BY <1>3, <1>6, <2>2 DEF Process!StopNext
<1>7. ASSUME NEW w \in Process!Loops, ProcessCycleStep(w)
      PROVE  \A v \in Process!Loops : ProcessSound(loop'[v])
  <2> TAKE v \in Process!Loops
  <2>1. CASE v # w
    BY <1>1, <1>7, <2>1, ProcessCycleSteps
  <2>2. CASE v = w
    <3>1. loop[w].stop \in {"no", "waiting", "done", "rejected"}
      BY <1>2 DEF Process!Loop
    <3> QED BY <1>1, <1>7, <2>2, <3>1, ProcessCycleSteps DEF ProcessSound
  <2> QED BY <2>1, <2>2
<1> QED BY <1>3, <1>4, <1>5, <1>6, <1>7
        DEF Process!Next, ProcessCycleStep, Process!Arrive, Process!HangUp, Process!Finish,
            Process!GraceEnds, Process!ServerCloses, Process!CloseStore, Process!StoreCloses,
            Process!Terminated, Process!Leave, Process!ShutdownFails, Process!HardDeadline,
            Process!workers, Process!vars

\* A loop that is done stays done once the server has been open.
LEMMA ProcessDoneStays ==
    ASSUME Process!ConstantsAssumption, Process!TypeOK, ProcessLoops,
           [Process!Next]_(Process!vars), server \notin {"unbound", "open"},
           NEW w \in Process!Loops, loop[w].stop = "done",
           stopper.state # "awaiting" \/ w <= stopper.at
    PROVE  loop'[w].stop = "done"
<1> USE ProcessLoopNumbers
<1>1. loop \in [Process!Loops -> Process!Loop]
  BY DEF Process!TypeOK
<1>2. CASE loop' = loop
  BY <1>2
<1>3. CASE Process!StopNext
  <2>1. stopper.at \in Process!Loops /\ stopper.at \in Int
    BY DEF Process!TypeOK
  <2>2. CASE /\ stopper.at # Process!Releaser
             /\ loop' = Process!Stopped(loop, stopper.at + 1)
    <3>1. w # stopper.at + 1 /\ stopper.at + 1 \in Process!Loops
      BY <1>3, <2>1, <2>2 DEF Process!StopNext
    <3> QED BY <1>1, <2>2, <3>1, ProcessStopped
  <2> QED BY <1>2, <1>3, <2>2 DEF Process!StopNext
<1>4. ASSUME NEW v \in Process!Loops, ProcessCycleStep(v) PROVE loop'[w].stop = "done"
  <2>1. CASE v # w
    BY <1>4, <2>1, ProcessCycleSteps
  <2>2. CASE v = w
    <3>1. ~loop[w].timer /\ loop[w].cycle = "none"
      BY DEF ProcessLoops, Process!Quiet
    <3> QED BY <1>4, <2>2, <3>1, ProcessCycleSteps
  <2> QED BY <2>1, <2>2
<1> QED BY <1>2, <1>3, <1>4
        DEF Process!Next, ProcessCycleStep, Process!Arrive, Process!HangUp, Process!Finish,
            Process!Listen, Process!Signal,
            Process!GraceEnds, Process!ServerCloses, Process!CloseStore, Process!StoreCloses,
            Process!Terminated, Process!Leave, Process!ShutdownFails, Process!HardDeadline,
            Process!workers, Process!vars

LEMMA ProcessStopsKept ==
    ASSUME Process!ConstantsAssumption, Process!TypeOK, ProcessLoops, ProcessStops,
           ProcessCloses, [Process!Next]_(Process!vars)
    PROVE  ProcessStops'
<1> USE ProcessLoopNumbers
<1>1. /\ stopper.at \in Process!Loops /\ stopper.at \in Int
      /\ stopper \in [state: {"no", "awaiting", "done", "rejected"}, at: Process!Loops]
      /\ loop \in [Process!Loops -> Process!Loop]
  BY DEF Process!TypeOK
<1>2. server' \in {"unbound", "open"} =>
         /\ stopper'.state = "no" /\ closer' = "no" /\ store' = "open"
         /\ \A w \in Process!Loops : loop'[w].stop = "no"
  <2> SUFFICES ASSUME server' \in {"unbound", "open"}
               PROVE  /\ stopper'.state = "no" /\ closer' = "no" /\ store' = "open"
                      /\ \A w \in Process!Loops : loop'[w].stop = "no"
    OBVIOUS
  <2>1. /\ server \in {"unbound", "open"}
        /\ stopper.state = "no" /\ closer = "no" /\ store = "open"
        /\ \A w \in Process!Loops : loop[w].stop = "no"
    BY DEF ProcessStops, Process!Next, Process!Listen, Process!Signal, Process!StopNext,
           Process!Tick, Process!Claim, Process!CycleFails, Process!Deliver, Process!Settle,
           Process!OfCycles, Process!Arrive, Process!HangUp, Process!Finish,
           Process!GraceEnds, Process!ServerCloses, Process!CloseStore, Process!StoreCloses,
           Process!Terminated, Process!Leave, Process!ShutdownFails, Process!HardDeadline,
           Process!workers, Process!vars
  <2>2. CASE Process!Listen
    BY <2>1, <2>2 DEF Process!Listen, Process!Started, Process!Unstarted
  <2>3. ASSUME NEW w \in Process!Loops, ProcessCycleStep(w)
        PROVE  /\ stopper'.state = "no" /\ closer' = "no" /\ store' = "open"
               /\ \A v \in Process!Loops : loop'[v].stop = "no"
    BY <2>1, <2>3, ProcessCycleSteps DEF Process!OfCycles
  <2> QED BY <2>1, <2>2, <2>3
          DEF Process!Next, ProcessCycleStep, Process!Signal, Process!StopNext,
              Process!Arrive, Process!HangUp, Process!Finish,
              Process!GraceEnds, Process!ServerCloses, Process!CloseStore,
              Process!StoreCloses, Process!WorkersDone,
              Process!Terminated, Process!Leave, Process!ShutdownFails, Process!HardDeadline,
              Process!workers, Process!vars
<1>3. CASE Process!Signal
  <2>1. stopper' = [state |-> "awaiting", at |-> Process!Projector] /\ server' = "closing"
    BY <1>3 DEF Process!Signal
  <2>2. \A w \in Process!Loops : ~(w < Process!Projector)
    BY DEF Process!Loops, Process!Projector
  <2> QED BY <2>1, <2>2 DEF ProcessStops
<1>4. CASE Process!StopNext
  <2>1. server \notin {"unbound", "open"}
    BY <1>4 DEF Process!StopNext, ProcessStops
  <2>2. \A w \in Process!Loops : w < stopper.at => loop[w].stop = "done"
    BY <1>4 DEF Process!StopNext, ProcessStops
  <2>3. \A w \in Process!Loops : w <= stopper.at /\ loop[w].stop = "done" =>
           loop'[w].stop = "done"
    BY <1>4, <2>1, ProcessDoneStays DEF Process!Next
  <2>4. CASE stopper' = [stopper EXCEPT !.state = "rejected"]
    BY <1>1, <1>2, <2>2, <2>3, <2>4 DEF ProcessStops
  <2>5. CASE /\ loop[stopper.at].stop = "done" /\ stopper.at = Process!Releaser
             /\ stopper' = [stopper EXCEPT !.state = "done"]
    <3>1. \A w \in Process!Loops : w < stopper.at \/ w = stopper.at
      BY <1>1, <2>5
    <3>2. \A w \in Process!Loops : loop'[w].stop = "done"
      BY <1>1, <2>2, <2>3, <2>5, <3>1
    <3> QED BY <1>1, <1>2, <2>5, <3>2 DEF ProcessStops
  <2>6. CASE /\ loop[stopper.at].stop = "done"
             /\ stopper' = [stopper EXCEPT !.at = stopper.at + 1]
    <3>1. stopper'.at = stopper.at + 1 /\ stopper'.state = "awaiting"
      BY <1>1, <1>4, <2>6 DEF Process!StopNext
    <3>2. \A w \in Int : w < stopper'.at => w < stopper.at \/ w = stopper.at
      <4> HIDE ProcessLoopNumbers
      <4> QED BY <1>1, <3>1
    <3>3. \A w \in Process!Loops : w < stopper'.at => loop'[w].stop = "done"
      <4> SUFFICES ASSUME NEW w \in Process!Loops, w < stopper'.at
                   PROVE  loop'[w].stop = "done"
        OBVIOUS
      <4>1. w \in Int
        OBVIOUS
      <4>2. w <= stopper.at /\ loop[w].stop = "done"
        BY <1>1, <2>2, <2>6, <3>2, <4>1
      <4> QED BY <2>3, <4>2
    <3> QED BY <1>2, <3>1, <3>3 DEF ProcessStops
  <2> QED BY <1>4, <2>4, <2>5, <2>6 DEF Process!StopNext
<1>5. CASE stopper' = stopper
  <2>1. CASE stopper.state = "no"
    BY <1>2, <1>5, <2>1 DEF ProcessStops
  <2>2. CASE stopper.state # "no"
    <3>1. server \notin {"unbound", "open"}
      BY <2>2 DEF ProcessStops
    <3>2. \A w \in Process!Loops :
             loop[w].stop = "done" /\ (stopper.state # "awaiting" \/ w <= stopper.at) =>
                loop'[w].stop = "done"
      BY <3>1, ProcessDoneStays
    <3> QED BY <1>1, <1>2, <1>5, <2>2, <3>2 DEF ProcessStops
  <2> QED BY <2>1, <2>2
<1> QED BY <1>3, <1>4, <1>5
        DEF Process!Next, Process!Listen, Process!Tick, Process!Claim, Process!CycleFails,
            Process!Deliver, Process!Settle, Process!OfCycles,
            Process!Arrive, Process!HangUp, Process!Finish,
            Process!GraceEnds, Process!ServerCloses, Process!CloseStore, Process!StoreCloses,
            Process!Terminated, Process!Leave, Process!ShutdownFails, Process!HardDeadline,
            Process!workers, Process!vars

-----------------------------------------------------------------------------
(* Processes: what is closed, and when *)

\* From the signal on, no request comes in and no timer is set again.
LEMMA ProcessClosesKept ==
    ASSUME Process!ConstantsAssumption, Process!TypeOK, ProcessLoops, ProcessStops,
           ProcessCloses, [Process!Next]_(Process!vars)
    PROVE  ProcessCloses'
<1>1. /\ request \in [Requests -> {"none", "served", "cut", "done"}]
      /\ main \in [phase: {"running", "terminating", "leaving", "exited"},
                   exit: {"none", "clean", "failed", "deadline"}]
      /\ stopper \in [state: {"no", "awaiting", "done", "rejected"}, at: Process!Loops]
  BY DEF Process!TypeOK
<1>2. CASE UNCHANGED <<server, request, stopper, closer, store, main>>
  BY <1>2 DEF ProcessCloses
<1>3. CASE Process!Listen \/ Process!Signal
  BY <1>1, <1>3 DEF Process!Listen, Process!Signal, ProcessCloses, ProcessStops
<1>4. CASE Process!StopNext
  BY <1>1, <1>4 DEF Process!StopNext, ProcessCloses
<1>5. CASE \E q \in Requests : Process!Arrive(q) \/ Process!HangUp(q) \/ Process!Finish(q)
  BY <1>1, <1>5 DEF Process!Arrive, Process!HangUp, Process!Finish, ProcessCloses,
                    Process!workers
<1>6. CASE Process!GraceEnds
  BY <1>1, <1>6 DEF Process!GraceEnds, ProcessCloses, Process!workers
<1>7. CASE Process!ServerCloses
  <2>1. store = "open" /\ closer = "no" /\ main.exit # "clean"
    BY <1>7 DEF Process!ServerCloses, ProcessCloses
  <2> QED BY <1>7, <2>1 DEF Process!ServerCloses, ProcessCloses, Process!workers
<1>8. CASE Process!CloseStore
  <2>1. closer = "waiting" /\ stopper.state = "done" /\ server = "closed"
    BY <1>8 DEF Process!CloseStore, Process!WorkersDone, ProcessCloses
  <2> QED BY <1>8, <2>1 DEF Process!CloseStore, ProcessCloses, Process!workers
<1>9. CASE Process!StoreCloses
  BY <1>9 DEF Process!StoreCloses, ProcessCloses, Process!workers
<1>10. CASE \/ Process!Terminated \/ Process!Leave \/ Process!ShutdownFails
            \/ Process!HardDeadline
  BY <1>1, <1>10 DEF Process!Terminated, Process!ShutdownEnds, Process!Leave,
                     Process!ShutdownFails, Process!HardDeadline, ProcessCloses,
                     Process!workers
<1>11. CASE \E w \in Process!Loops : ProcessCycleStep(w)
  BY <1>2, <1>11 DEF ProcessCycleStep, Process!Tick, Process!Claim, Process!CycleFails,
                     Process!Deliver, Process!Settle, Process!OfCycles
<1> QED BY <1>2, <1>3, <1>4, <1>5, <1>6, <1>7, <1>8, <1>9, <1>10, <1>11
        DEF Process!Next, ProcessCycleStep, Process!vars

\* A process starts with the invariant.
LEMMA ProcessInitInv == ASSUME Process!ConstantsAssumption, Process!Init PROVE ProcessInv
<1>1. ProcessLoops
  BY DEF Process!Init, Process!Unstarted, ProcessLoops
<1>2. ProcessStops
  BY DEF Process!Init, Process!Unstarted, ProcessStops
<1>3. ProcessCloses
  BY DEF Process!Init, ProcessCloses
<1> QED BY <1>1, <1>2, <1>3, ProcessInitTypes DEF ProcessInv

\* The inductive invariant of the end of a process (src/bootstrap/runtime.ts): loops
\* are told to stop in their order and awaited, whatever cycle is under way; the
\* store goes after them and after the requests that have a client.
THEOREM ProcessCorrect ==
    ASSUME Process!ConstantsAssumption PROVE Process!Spec => []ProcessInv
<1>1. Process!Init => ProcessInv
  BY ProcessInitInv
<1>2. ProcessInv /\ [Process!Next]_(Process!vars) => ProcessInv'
  BY ProcessNextTypes, ProcessLoopsKept, ProcessStopsKept, ProcessClosesKept DEF ProcessInv
<1> QED BY <1>1, <1>2, PTL DEF Process!Spec

\* Whatever fails, hangs or ends late, the store is not closed under a worker or under
\* a request that has a client, and status 0 is earned.
THEOREM ClosesAreSound ==
    ASSUME Process!ConstantsAssumption PROVE Process!Spec => []CloseSound
<1>1. ProcessInv => CloseSound
  <2> SUFFICES ASSUME ProcessInv PROVE CloseSound
    OBVIOUS
  <2>1. stopper.state = "done" => \A w \in Loops : Quiet(w)
    <3>1. stopper.state = "done" => \A w \in Process!Loops : Process!Quiet(w)
      BY DEF ProcessInv, ProcessStops, ProcessLoops
    <3> QED BY <3>1 DEF Process!Loops, Process!Projector, Process!Releaser, Process!Quiet,
                        Loops, Projector, Releaser, Quiet
  <2>2. StoreClosesLast
    BY <2>1 DEF ProcessInv, ProcessCloses, StoreClosesLast
  <2>3. HonestExit
    <3> SUFFICES ASSUME main.exit = "clean" PROVE Drained
      BY DEF HonestExit
    <3>1. store = "closed" /\ server = "closed" /\ stopper.state = "done"
      BY DEF ProcessInv, ProcessCloses
    <3>2. \A q \in Requests : request[q] \in {"none", "cut", "done"}
      BY <3>1 DEF ProcessInv, ProcessCloses, Process!TypeOK
    <3> QED BY <2>1, <3>1, <3>2 DEF Drained
  <2> QED BY <2>2, <2>3 DEF CloseSound
<1> QED BY <1>1, ProcessCorrect, PTL

-----------------------------------------------------------------------------
(* AgentCancellation *)

\* No two workers work on the same attempt, and none on one that was not given out.
CancellationLeases ==
    \A w \in Workers : worker[w] # Cancellation!Idle =>
        /\ worker[w].at.number <= cancellation[worker[w].at.run].attempts
        /\ \A v \in Workers \ {w} :
              worker[v] # Cancellation!Idle => worker[v].at # worker[w].at

\* A launch on its way is of a run the Agent does not know yet, so what the Agent has
\* recorded of a run is never undone; a success is of a run of which it has.
CancellationRecords ==
    /\ \A r \in launch : agent[r] = "unknown"
    /\ \A w \in Workers :
          worker[w].pc = "settling" /\ worker[w].outcome = "succeeded" =>
             agent[worker[w].at.run] \in Cancellation!Recorded

CancellationInv == Cancellation!TypeOK /\ CancellationLeases /\ CancellationRecords

CancellationWorking == [pc: {"claimed", "waiting"}, at: Cancellation!Attempt]
                          \cup [pc: {"settling"}, at: Cancellation!Attempt,
                                outcome: Cancellation!Outcomes]

\* A worker that is not idle works on an attempt.
LEMMA CancellationWorker ==
    ASSUME Cancellation!TypeOK, NEW w \in Workers
    PROVE  /\ worker[w] \in {Cancellation!Idle} \cup CancellationWorking
           /\ worker[w] # Cancellation!Idle <=> worker[w].pc # "idle"
           /\ worker[w].pc # "idle" =>
                 /\ worker[w] \in CancellationWorking
                 /\ worker[w].at \in Cancellation!Attempt
                 /\ worker[w].at.run \in Runs /\ worker[w].at.number \in 1..MaxAttempts
           /\ worker[w].pc = "settling" =>
                 /\ worker[w].outcome \in Cancellation!Outcomes
                 /\ worker[w] = Cancellation!Settling(worker[w].at, worker[w].outcome)
<1>1. worker[w] \in {Cancellation!Idle} \cup CancellationWorking
  BY DEF Cancellation!TypeOK, CancellationWorking
<1>2. CASE worker[w] = Cancellation!Idle
  BY <1>1, <1>2 DEF Cancellation!Idle
<1>3. CASE worker[w] \in [pc: {"claimed", "waiting"}, at: Cancellation!Attempt]
  BY <1>1, <1>3 DEF Cancellation!Idle, CancellationWorking, Cancellation!Attempt
<1>4. CASE worker[w] \in [pc: {"settling"}, at: Cancellation!Attempt,
                          outcome: Cancellation!Outcomes]
  BY <1>1, <1>4 DEF Cancellation!Idle, CancellationWorking, Cancellation!Attempt,
                    Cancellation!Settling
<1> QED BY <1>1, <1>2, <1>3, <1>4 DEF CancellationWorking

\* Sweeping changes a row only if its attempts are spent, and no row's attempts.
LEMMA CancellationSwept ==
    ASSUME Cancellation!ConstantsAssumption, Cancellation!TypeOK
    PROVE  /\ Cancellation!Swept \in [Runs -> Cancellation!Row]
           /\ \A r \in Runs :
                 /\ Cancellation!Swept[r].attempts = cancellation[r].attempts
                 /\ Cancellation!Swept[r] # cancellation[r] =>
                       /\ cancellation[r].attempts = MaxAttempts
                       /\ Cancellation!Swept[r].status = "failed"
<1> SUFFICES ASSUME NEW r \in Runs
             PROVE  /\ Cancellation!Swept[r] \in Cancellation!Row
                    /\ Cancellation!Swept[r].attempts = cancellation[r].attempts
                    /\ Cancellation!Swept[r] # cancellation[r] =>
                          /\ cancellation[r].attempts = MaxAttempts
                          /\ Cancellation!Swept[r].status = "failed"
  BY DEF Cancellation!Swept
<1>1. cancellation[r] \in Cancellation!Row /\ cancellation[r].attempts \in 0..MaxAttempts /\ MaxAttempts \in Nat
  BY DEF Cancellation!TypeOK, Cancellation!Row, Cancellation!ConstantsAssumption
<1>2. CASE r \in Cancellation!Exhausted
  <2>1. cancellation[r].attempts = MaxAttempts
    BY <1>1, <1>2 DEF Cancellation!Exhausted
  <2>2. Cancellation!Swept[r] = [cancellation[r] EXCEPT !.status = "failed", !.lapsed = FALSE]
    BY <1>2 DEF Cancellation!Swept
  <2> QED BY <1>1, <2>1, <2>2 DEF Cancellation!Row, Cancellation!Closed
<1>3. CASE r \notin Cancellation!Exhausted
  BY <1>1, <1>3 DEF Cancellation!Swept
<1> QED BY <1>2, <1>3

\* A claim leases one row for one more attempt and leaves the others as swept.
LEMMA CancellationClaimed ==
    ASSUME Cancellation!ConstantsAssumption, Cancellation!TypeOK,
           NEW r \in Cancellation!Candidates(Cancellation!Swept)
    PROVE  /\ r \in Runs
           /\ Cancellation!Leased(Cancellation!Swept, r) \in [Runs -> Cancellation!Row]
           /\ Cancellation!Leased(Cancellation!Swept, r)[r].attempts = cancellation[r].attempts + 1
           /\ Cancellation!Leased(Cancellation!Swept, r)[r].status = "leased"
           /\ cancellation[r].attempts + 1 \in 1..MaxAttempts
           /\ \A q \in Runs \ {r} :
                 Cancellation!Leased(Cancellation!Swept, r)[q] = Cancellation!Swept[q]
<1>1. r \in Runs /\ Cancellation!Swept[r].attempts < MaxAttempts
  BY DEF Cancellation!Candidates
<1>2. /\ Cancellation!Swept \in [Runs -> Cancellation!Row]
      /\ Cancellation!Swept[r].attempts = cancellation[r].attempts
  BY <1>1, CancellationSwept
<1>3. cancellation[r].attempts + 1 \in 1..MaxAttempts /\ cancellation[r].attempts + 1 \in 0..MaxAttempts
  <2>1. cancellation[r].attempts \in 0..MaxAttempts /\ MaxAttempts \in Nat
    BY <1>1 DEF Cancellation!TypeOK, Cancellation!Row, Cancellation!ConstantsAssumption
  <2> QED BY <1>1, <1>2, <2>1
<1>4. [status |-> "leased", lapsed |-> FALSE, attempts |-> Cancellation!Swept[r].attempts + 1]
         \in Cancellation!Row
  BY <1>2, <1>3 DEF Cancellation!Row, Cancellation!Open
<1> QED BY <1>1, <1>2, <1>3, <1>4 DEF Cancellation!Leased

-----------------------------------------------------------------------------
(* AgentCancellation: the invariant, step by step *)

\* The steps that change no row, take up no attempt and end none but their own.
CancellationWorks(w) ==
    \/ Cancellation!Send(w) \/ Cancellation!Answer(w) \/ Cancellation!GiveUp(w)
    \/ Cancellation!Abandon(w)

LEMMA CancellationWorkTypes ==
    ASSUME Cancellation!TypeOK, NEW w \in Workers, CancellationWorks(w)
    PROVE  /\ cancellation' = cancellation /\ launch' = launch
           /\ strays' \subseteq Runs
           /\ worker' = [worker EXCEPT ![w] = worker'[w]]
           /\ worker'[w] \in {Cancellation!Idle} \cup CancellationWorking
           /\ worker'[w] # Cancellation!Idle =>
                 worker[w] # Cancellation!Idle /\ worker'[w].at = worker[w].at
<1> USE CancellationWorker
<1>1. worker \in [Workers -> {Cancellation!Idle} \cup CancellationWorking] /\ strays \subseteq Runs
  BY DEF Cancellation!TypeOK, CancellationWorking
<1>2. Cancellation!StraysWithout(w) \subseteq Runs
  BY <1>1 DEF Cancellation!StraysWithout
<1>3. worker[w].pc # "idle" =>
         /\ Cancellation!Waiting(worker[w].at) \in CancellationWorking
         /\ \A o \in Cancellation!Outcomes :
               Cancellation!Settling(worker[w].at, o) \in CancellationWorking
  BY DEF Cancellation!Waiting, Cancellation!Settling, CancellationWorking
<1>4. CASE Cancellation!Send(w)
  BY <1>1, <1>3, <1>4 DEF Cancellation!Send, Cancellation!Waiting
<1>5. CASE Cancellation!Answer(w)
  <2>1. PICK o \in Cancellation!Outcomes :
           worker' = [worker EXCEPT ![w] = Cancellation!Settling(worker[w].at, o)]
    BY <1>5 DEF Cancellation!Answer, Cancellation!OutcomesOf
  <2>2. worker'[w] = Cancellation!Settling(worker[w].at, o)
    BY <1>1, <2>1
  <2> QED BY <1>1, <1>3, <1>5, <2>1, <2>2 DEF Cancellation!Answer, Cancellation!Settling
<1>6. CASE Cancellation!GiveUp(w)
  <2>1. worker'[w] = Cancellation!Settling(worker[w].at, "retryable")
    BY <1>1, <1>6 DEF Cancellation!GiveUp
  <2>2. worker'[w] \in CancellationWorking /\ worker'[w].at = worker[w].at
    BY <1>3, <1>6, <2>1 DEF Cancellation!GiveUp, Cancellation!Outcomes, Cancellation!Settling
  <2> QED BY <1>1, <1>2, <1>6, <2>1, <2>2 DEF Cancellation!GiveUp
<1>7. CASE Cancellation!Abandon(w)
  BY <1>1, <1>2, <1>7 DEF Cancellation!Abandon
<1> QED BY <1>4, <1>5, <1>6, <1>7 DEF CancellationWorks

\* How what the Agent has of a run changes: what it has recorded stays recorded, and
\* an unknown run is known by its launch only.
LEMMA CancellationAgentMoves ==
    ASSUME CancellationInv, Cancellation!Next
    PROVE  /\ agent' \in [Runs -> {"unknown", "running"} \cup Cancellation!Recorded]
           /\ launch' \subseteq launch
           /\ \A r \in Runs :
                 /\ agent[r] \in Cancellation!Recorded => agent'[r] \in Cancellation!Recorded
                 /\ agent[r] = "unknown" => agent'[r] = "unknown" \/ r \in launch \ launch'
<1>1. /\ agent \in [Runs -> {"unknown", "running"} \cup Cancellation!Recorded]
      /\ \A r \in launch : r \in Runs /\ agent[r] = "unknown"
  BY DEF CancellationInv, Cancellation!TypeOK, CancellationRecords
<1>2. CASE agent' = agent /\ launch' = launch
  BY <1>1, <1>2
<1>3. ASSUME NEW r \in Runs, Cancellation!Record(r), launch' = launch
      PROVE  /\ agent' \in [Runs -> {"unknown", "running"} \cup Cancellation!Recorded]
             /\ launch' \subseteq launch
             /\ \A q \in Runs :
                   /\ agent[q] \in Cancellation!Recorded => agent'[q] \in Cancellation!Recorded
                   /\ agent[q] = "unknown" => agent'[q] = "unknown"
  BY <1>1, <1>3 DEF Cancellation!Record, Cancellation!Recorded
<1>4. CASE \E w \in Workers : Cancellation!Answer(w)
  <2>1. PICK w \in Workers : Cancellation!Answer(w)
    BY <1>4
  <2>2. worker[w].at.run \in Runs
    BY <2>1, CancellationWorker DEF Cancellation!Answer, CancellationInv
  <2> QED BY <1>2, <1>3, <2>1, <2>2 DEF Cancellation!Answer
<1>5. CASE \E r \in Runs : Cancellation!StrayArrives(r)
  BY <1>3, <1>5 DEF Cancellation!StrayArrives
<1>6. CASE \E r \in Runs : Cancellation!LaunchArrives(r)
  <2>1. PICK r \in Runs : Cancellation!LaunchArrives(r)
    BY <1>6
  <2>2. agent[r] = "unknown" /\ r \notin launch' /\ r \in launch /\ launch' \subseteq launch
    BY <1>1, <2>1 DEF Cancellation!LaunchArrives
  <2>3. agent' = agent \/ agent' = [agent EXCEPT ![r] = "running"]
    BY <2>1 DEF Cancellation!LaunchArrives
  <2> QED BY <1>1, <2>2, <2>3 DEF Cancellation!Recorded
<1>7. CASE \E r \in Runs : Cancellation!RunMoves(r)
  <2>1. PICK r \in Runs : Cancellation!RunMoves(r)
    BY <1>7
  <2>2. /\ launch' = launch
        /\ \E s \in {"ended", "cancelled", "spared"} : agent' = [agent EXCEPT ![r] = s]
        /\ agent[r] \in {"running", "spared", "cancelling"}
    BY <2>1 DEF Cancellation!RunMoves
  <2> QED BY <1>1, <2>2 DEF Cancellation!Recorded
<1> QED BY <1>2, <1>4, <1>5, <1>6, <1>7
        DEF Cancellation!Next, Cancellation!Claim, Cancellation!Send, Cancellation!GiveUp,
            Cancellation!Settle, Cancellation!Abandon, Cancellation!Lapse

\* A settlement closes the row for good if the worker still has its lease, or leaves
\* all rows as they are; an attempt that is spent closes its row in any case.
LEMMA CancellationSettles ==
    ASSUME Cancellation!ConstantsAssumption, Cancellation!TypeOK,
           NEW w \in Workers, Cancellation!Settle(w)
    PROVE  LET r == worker[w].at.run IN
           /\ UNCHANGED <<strays, agent, launch>>
           /\ worker' = [worker EXCEPT ![w] = Cancellation!Idle]
           /\ r \in Runs
           /\ cancellation' \in [Runs -> Cancellation!Row]
           /\ \A q \in Runs : cancellation'[q].attempts = cancellation[q].attempts
           /\ \A q \in Runs \ {r} : cancellation'[q] = cancellation[q]
           /\ cancellation'[r] # cancellation[r] =>
                 /\ worker[w] = Cancellation!Settling([run |-> r, number |-> cancellation[r].attempts],
                                                      worker[w].outcome)
                 /\ cancellation'[r].status = Cancellation!Settled(w)
<1> DEFINE r == worker[w].at.run
<1>1. /\ r \in Runs /\ worker[w].at \in Cancellation!Attempt
      /\ worker[w].outcome \in Cancellation!Outcomes
      /\ worker[w] = Cancellation!Settling(worker[w].at, worker[w].outcome)
  BY CancellationWorker DEF Cancellation!Settle
<1>2. cancellation \in [Runs -> Cancellation!Row] /\ cancellation[r] \in Cancellation!Row
  BY <1>1 DEF Cancellation!TypeOK
<1>3. /\ UNCHANGED <<strays, agent, launch>>
      /\ worker' = [worker EXCEPT ![w] = Cancellation!Idle]
  BY DEF Cancellation!Settle
<1>4. CASE ~Cancellation!HoldsLease(w)
  BY <1>1, <1>2, <1>3, <1>4 DEF Cancellation!Settle
<1>5. CASE Cancellation!HoldsLease(w)
  <2>1. cancellation' = [cancellation EXCEPT ![r].status = Cancellation!Settled(w)]
    BY <1>5 DEF Cancellation!Settle
  <2>2. Cancellation!Settled(w) \in {"succeeded", "retryable", "failed"}
    BY DEF Cancellation!Settled
  <2>3. [cancellation[r] EXCEPT !.status = Cancellation!Settled(w)] \in Cancellation!Row
    BY <1>2, <2>2 DEF Cancellation!Row, Cancellation!Open, Cancellation!Closed
  <2>4. cancellation' = [cancellation EXCEPT ![r] = [cancellation[r] EXCEPT !.status = Cancellation!Settled(w)]]
    BY <2>1
  <2>5. /\ cancellation' \in [Runs -> Cancellation!Row]
        /\ cancellation'[r].attempts = cancellation[r].attempts /\ cancellation'[r].status = Cancellation!Settled(w)
        /\ \A q \in Runs \ {r} : cancellation'[q] = cancellation[q]
    BY <1>1, <1>2, <2>3, <2>4 DEF Cancellation!Row
  <2>6. worker[w].at = [run |-> r, number |-> cancellation[r].attempts]
    <3>1. worker[w].at.number = cancellation[r].attempts
      BY <1>5 DEF Cancellation!HoldsLease
    <3> QED BY <1>1, <3>1 DEF Cancellation!Attempt
  <2>7. worker[w] = Cancellation!Settling([run |-> r, number |-> cancellation[r].attempts],
                                          worker[w].outcome)
    BY <1>1, <2>6
  <2> QED BY <1>1, <1>3, <2>5, <2>7
<1> QED BY <1>4, <1>5

\* A claim sweeps the rows, and leases one of them to the worker or none.
LEMMA CancellationClaims ==
    ASSUME Cancellation!ConstantsAssumption, Cancellation!TypeOK,
           NEW w \in Workers, Cancellation!Claim(w)
    PROVE  /\ UNCHANGED <<strays, agent, launch>>
           /\ worker[w] = Cancellation!Idle
           /\ cancellation' \in [Runs -> Cancellation!Row]
           /\ \/ /\ worker' = worker
                 /\ \A q \in Runs : cancellation'[q] = Cancellation!Swept[q]
              \/ \E r \in Runs :
                    /\ cancellation[r].attempts + 1 \in 1..MaxAttempts
                    /\ worker' = [worker EXCEPT ![w] =
                          Cancellation!Claimed([run |-> r, number |-> cancellation[r].attempts + 1])]
                    /\ cancellation'[r].attempts = cancellation[r].attempts + 1 /\ cancellation'[r].status = "leased"
                    /\ \A q \in Runs \ {r} : cancellation'[q] = Cancellation!Swept[q]
<1>1. UNCHANGED <<strays, agent, launch>> /\ worker[w] = Cancellation!Idle
  BY DEF Cancellation!Claim
<1>2. CASE cancellation' = Cancellation!Swept /\ worker' = worker
  BY <1>1, <1>2, CancellationSwept
<1>3. ASSUME NEW r \in Cancellation!Candidates(Cancellation!Swept),
             cancellation' = Cancellation!Leased(Cancellation!Swept, r),
             worker' = [worker EXCEPT ![w] =
                          Cancellation!Claimed([run |-> r, number |-> cancellation'[r].attempts])]
      PROVE  /\ cancellation' \in [Runs -> Cancellation!Row]
             /\ r \in Runs
             /\ cancellation[r].attempts + 1 \in 1..MaxAttempts
             /\ worker' = [worker EXCEPT ![w] =
                   Cancellation!Claimed([run |-> r, number |-> cancellation[r].attempts + 1])]
             /\ cancellation'[r].attempts = cancellation[r].attempts + 1 /\ cancellation'[r].status = "leased"
             /\ \A q \in Runs \ {r} : cancellation'[q] = Cancellation!Swept[q]
  BY <1>3, CancellationClaimed
<1> QED BY <1>1, <1>2, <1>3 DEF Cancellation!Claim

LEMMA CancellationLapses ==
    ASSUME Cancellation!TypeOK, NEW r \in Runs, Cancellation!Lapse(r)
    PROVE  /\ UNCHANGED <<worker, strays, agent, launch>>
           /\ cancellation' \in [Runs -> Cancellation!Row]
           /\ \A q \in Runs :
                 cancellation'[q].attempts = cancellation[q].attempts /\ cancellation'[q].status = cancellation[q].status
<1>1. cancellation \in [Runs -> Cancellation!Row] /\ cancellation[r] \in Cancellation!Row
  BY DEF Cancellation!TypeOK
<1>2. cancellation' = [cancellation EXCEPT ![r] = [cancellation[r] EXCEPT !.lapsed = TRUE]]
  BY DEF Cancellation!Lapse
<1>3. [cancellation[r] EXCEPT !.lapsed = TRUE] \in Cancellation!Row
  BY <1>1 DEF Cancellation!Row
<1> QED BY <1>1, <1>2, <1>3 DEF Cancellation!Lapse, Cancellation!Row

\* Steps of the Agent and of its launches change no row and no worker.
CancellationElsewhere ==
    \E r \in Runs : \/ Cancellation!StrayArrives(r) \/ Cancellation!LaunchArrives(r)
                    \/ Cancellation!RunMoves(r)

LEMMA CancellationTypesKept ==
    ASSUME Cancellation!ConstantsAssumption, CancellationInv, Cancellation!Next
    PROVE  Cancellation!TypeOK'
<1>1. /\ cancellation \in [Runs -> Cancellation!Row] /\ strays \subseteq Runs /\ launch \subseteq Runs
      /\ worker \in [Workers -> {Cancellation!Idle} \cup CancellationWorking]
      /\ Cancellation!TypeOK
  BY DEF CancellationInv, Cancellation!TypeOK, CancellationWorking
<1>2. cancellation' \in [Runs -> Cancellation!Row] /\ strays' \subseteq Runs
  BY <1>1, CancellationWorkTypes, CancellationSettles, CancellationClaims, CancellationLapses
     DEF Cancellation!Next, CancellationWorks, Cancellation!StrayArrives,
         Cancellation!LaunchArrives, Cancellation!RunMoves
<1>3. worker' \in [Workers -> {Cancellation!Idle} \cup CancellationWorking]
  <2>1. ASSUME NEW w \in Workers, CancellationWorks(w)
        PROVE  worker' \in [Workers -> {Cancellation!Idle} \cup CancellationWorking]
    <3>1. PICK x : x = worker'[w]
      OBVIOUS
    <3> QED BY <1>1, <2>1, <3>1, CancellationWorkTypes
  <2>2. ASSUME NEW w \in Workers, Cancellation!Settle(w)
        PROVE  worker' \in [Workers -> {Cancellation!Idle} \cup CancellationWorking]
    BY <1>1, <2>2 DEF Cancellation!Settle
  <2>3. ASSUME NEW w \in Workers, Cancellation!Claim(w)
        PROVE  worker' \in [Workers -> {Cancellation!Idle} \cup CancellationWorking]
    <3>1. \A r \in Runs : cancellation[r].attempts + 1 \in 1..MaxAttempts =>
             Cancellation!Claimed([run |-> r, number |-> cancellation[r].attempts + 1])
                \in CancellationWorking
      BY DEF Cancellation!Claimed, CancellationWorking, Cancellation!Attempt
    <3>2. \/ worker' = worker
          \/ \E x \in CancellationWorking : worker' = [worker EXCEPT ![w] = x]
      BY <1>1, <2>3, <3>1, CancellationClaims
    <3> QED BY <1>1, <3>2
  <2> QED BY <1>1, <2>1, <2>2, <2>3
          DEF Cancellation!Next, CancellationWorks, Cancellation!Lapse,
              Cancellation!StrayArrives, Cancellation!LaunchArrives, Cancellation!RunMoves
<1>4. /\ agent' \in [Runs -> {"unknown", "running"} \cup Cancellation!Recorded]
      /\ launch' \subseteq Runs
  BY <1>1, CancellationAgentMoves
<1> QED BY <1>2, <1>3, <1>4 DEF Cancellation!TypeOK, CancellationWorking

\* A claim gives out an attempt that no worker has: they all are at most the ones
\* given out so far.
LEMMA CancellationLeasesKept ==
    ASSUME Cancellation!ConstantsAssumption, CancellationInv, Cancellation!Next
    PROVE  CancellationLeases'
<1>1. /\ cancellation \in [Runs -> Cancellation!Row] /\ MaxAttempts \in Nat
      /\ worker \in [Workers -> {Cancellation!Idle} \cup CancellationWorking]
      /\ Cancellation!TypeOK
      /\ \A r \in Runs : cancellation[r].attempts \in Nat
  BY DEF CancellationInv, Cancellation!TypeOK, CancellationWorking, Cancellation!Row,
         Cancellation!ConstantsAssumption
<1>2. \A w \in Workers : worker[w] # Cancellation!Idle =>
         /\ worker[w].at.run \in Runs /\ worker[w].at.number \in Nat
         /\ worker[w].at.number <= cancellation[worker[w].at.run].attempts
         /\ \A v \in Workers \ {w} :
               worker[v] # Cancellation!Idle => worker[v].at # worker[w].at
  BY <1>1, CancellationWorker DEF CancellationInv, CancellationLeases
\* Workers keep their attempts, or drop them.
<1>3. ASSUME \A w \in Workers : worker'[w] # Cancellation!Idle =>
                worker[w] # Cancellation!Idle /\ worker'[w].at = worker[w].at,
             \A r \in Runs : cancellation'[r].attempts = cancellation[r].attempts
      PROVE  CancellationLeases'
  <2>1. PICK workers : workers = worker'
    OBVIOUS
  <2> QED BY <1>2, <1>3, <2>1 DEF CancellationLeases, Cancellation!Idle
<1>4. ASSUME NEW w \in Workers, CancellationWorks(w) PROVE CancellationLeases'
  <2>1. \A v \in Workers \ {w} : worker'[v] = worker[v]
    <3>1. PICK x : x = worker'[w]
      OBVIOUS
    <3> QED BY <1>1, <1>4, <3>1, CancellationWorkTypes
  <2> QED BY <1>1, <1>3, <1>4, <2>1, CancellationWorkTypes
<1>5. ASSUME NEW w \in Workers, Cancellation!Settle(w) PROVE CancellationLeases'
  <2>1. /\ worker' = [worker EXCEPT ![w] = Cancellation!Idle]
        /\ \A q \in Runs : cancellation'[q].attempts = cancellation[q].attempts
    BY <1>1, <1>5, CancellationSettles
  <2> QED BY <1>1, <1>3, <2>1
<1>6. ASSUME NEW w \in Workers, Cancellation!Claim(w) PROVE CancellationLeases'
  <2>1. \A q \in Runs : Cancellation!Swept[q].attempts = cancellation[q].attempts
    BY <1>1, CancellationSwept
  <2>2. CASE worker' = worker /\ \A q \in Runs : cancellation'[q] = Cancellation!Swept[q]
    BY <1>3, <2>1, <2>2
  <2>3. ASSUME NEW r \in Runs,
               worker' = [worker EXCEPT ![w] =
                  Cancellation!Claimed([run |-> r, number |-> cancellation[r].attempts + 1])],
               cancellation'[r].attempts = cancellation[r].attempts + 1,
               \A q \in Runs \ {r} : cancellation'[q] = Cancellation!Swept[q]
        PROVE  CancellationLeases'
    <3>1. /\ worker'[w].at.run = r /\ worker'[w].at.number = cancellation[r].attempts + 1
          /\ \A v \in Workers \ {w} : worker'[v] = worker[v]
      BY <1>1, <2>3 DEF Cancellation!Claimed
    <3>3. PICK workers, rows : workers = worker' /\ rows = cancellation'
      OBVIOUS
    <3>4. \A v \in Workers \ {w} : workers[v] # Cancellation!Idle =>
             /\ workers[v].at # workers[w].at
             /\ workers[v].at.number <= rows[workers[v].at.run].attempts
      <4> SUFFICES ASSUME NEW v \in Workers \ {w}, workers[v] # Cancellation!Idle
                   PROVE  /\ workers[v].at # workers[w].at
                          /\ workers[v].at.number <= rows[workers[v].at.run].attempts
        OBVIOUS
      <4>1. workers[v] = worker[v]
        BY <3>1, <3>3
      <4> DEFINE q == worker[v].at.run  n == worker[v].at.number
      <4>2. q \in Runs /\ n \in Nat /\ n <= cancellation[q].attempts /\ cancellation[q].attempts \in Nat
        BY <1>1, <1>2, <4>1
      <4>3. rows[q].attempts = cancellation[q].attempts \/ rows[q].attempts = cancellation[q].attempts + 1
        BY <2>1, <2>3, <3>3, <4>2
      <4>4. n <= rows[q].attempts
        BY <4>2, <4>3
      <4>5. q # r \/ n # cancellation[r].attempts + 1
        BY <4>2
      <4> QED BY <3>1, <3>3, <4>1, <4>4, <4>5
    <3>5. workers[w].at.number <= rows[workers[w].at.run].attempts
      BY <1>1, <2>3, <3>1, <3>3
    <3>6. \A u, v \in Workers : u # v /\ workers[u] # Cancellation!Idle
                                  /\ workers[v] # Cancellation!Idle =>
             workers[v].at # workers[u].at
      <4> TAKE u, v \in Workers
      <4>1. CASE u = w \/ v = w
        BY <3>4, <4>1
      <4>2. CASE u # w /\ v # w
        BY <1>2, <3>1, <3>3, <4>2
      <4> QED BY <4>1, <4>2
    <3>7. \A v \in Workers : workers[v] # Cancellation!Idle =>
             workers[v].at.number <= rows[workers[v].at.run].attempts
      BY <3>4, <3>5
    <3> QED BY <3>3, <3>6, <3>7 DEF CancellationLeases, Cancellation!Idle
  <2> QED BY <1>1, <1>6, <2>2, <2>3, CancellationClaims
<1>7. ASSUME NEW r \in Runs, Cancellation!Lapse(r) PROVE CancellationLeases'
  BY <1>1, <1>3, <1>7, CancellationLapses
<1>8. CASE CancellationElsewhere
  BY <1>3, <1>8 DEF CancellationElsewhere, Cancellation!StrayArrives,
                    Cancellation!LaunchArrives, Cancellation!RunMoves
<1> QED BY <1>4, <1>5, <1>6, <1>7, <1>8
        DEF Cancellation!Next, CancellationWorks, CancellationElsewhere

LEMMA CancellationRecordsKept ==
    ASSUME Cancellation!ConstantsAssumption, CancellationInv, Cancellation!Next
    PROVE  CancellationRecords'
<1>1. /\ worker \in [Workers -> {Cancellation!Idle} \cup CancellationWorking]
      /\ Cancellation!TypeOK /\ launch \subseteq Runs
      /\ agent \in [Runs -> {"unknown", "running"} \cup Cancellation!Recorded]
  BY DEF CancellationInv, Cancellation!TypeOK, CancellationWorking
<1>2. \A r \in launch' : agent'[r] = "unknown"
  <2>1. PICK launches : launches = launch'
    OBVIOUS
  <2>2. \A r \in launches : r \in launch /\ r \in Runs /\ agent'[r] = "unknown"
    BY <1>1, <2>1, CancellationAgentMoves DEF CancellationInv, CancellationRecords
  <2> QED BY <2>1, <2>2
<1>3. SUFFICES ASSUME NEW v \in Workers,
                      worker'[v].pc = "settling", worker'[v].outcome = "succeeded"
               PROVE  agent'[worker'[v].at.run] \in Cancellation!Recorded
  BY <1>2 DEF CancellationRecords
<1>4. CASE worker'[v] = worker[v]
  <2>1. worker[v].at.run \in Runs /\ agent[worker[v].at.run] \in Cancellation!Recorded
    BY <1>1, <1>3, <1>4, CancellationWorker DEF CancellationInv, CancellationRecords
  <2> QED BY <1>4, <2>1, CancellationAgentMoves
<1>5. ASSUME NEW w \in Workers, v # w,
             worker' = [worker EXCEPT ![w] = worker'[w]]
      PROVE  worker'[v] = worker[v]
  <2>1. PICK x : x = worker'[w]
    OBVIOUS
  <2> QED BY <1>1, <1>5, <2>1
<1>6. ASSUME NEW w \in Workers, CancellationWorks(w)
      PROVE  agent'[worker'[v].at.run] \in Cancellation!Recorded
  <2>1. CASE v # w
    BY <1>1, <1>4, <1>5, <1>6, <2>1, CancellationWorkTypes
  <2>2. CASE v = w
    <3>1. CASE Cancellation!Answer(w)
      <4> DEFINE r == worker[w].at.run
      <4>1. PICK o \in Cancellation!OutcomesOf(agent[r]) :
               /\ worker' = [worker EXCEPT ![w] = Cancellation!Settling(worker[w].at, o)]
               /\ \/ Cancellation!Record(r)
                  \/ (agent[r] = "running" => o # "succeeded") /\ agent' = agent
        BY <3>1 DEF Cancellation!Answer
      <4>2. worker'[w] = Cancellation!Settling(worker[w].at, o)
        BY <1>1, <4>1
      <4>3. o = "succeeded" /\ worker'[v].at.run = r
        BY <1>3, <2>2, <4>2 DEF Cancellation!Settling
      <4>4. r \in Runs /\ agent[r] # "unknown"
        BY <1>1, <3>1, <4>1, <4>3, CancellationWorker
           DEF Cancellation!Answer, Cancellation!OutcomesOf
      <4>5. CASE Cancellation!Record(r)
        BY <1>1, <4>3, <4>4, <4>5 DEF Cancellation!Record, Cancellation!Recorded
      <4>6. CASE ~Cancellation!Record(r)
        BY <1>1, <4>1, <4>3, <4>4, <4>6
      <4> QED BY <4>5, <4>6
    <3>2. CASE Cancellation!Send(w) \/ Cancellation!GiveUp(w) \/ Cancellation!Abandon(w)
      <4>1. \/ worker'[w] = Cancellation!Waiting(worker[w].at)
            \/ worker'[w] = Cancellation!Settling(worker[w].at, "retryable")
            \/ worker'[w] = Cancellation!Idle
        BY <1>1, <3>2 DEF Cancellation!Send, Cancellation!GiveUp, Cancellation!Abandon
      <4> QED BY <1>3, <2>2, <4>1
              DEF Cancellation!Waiting, Cancellation!Settling, Cancellation!Idle
    <3> QED BY <1>6, <3>1, <3>2 DEF CancellationWorks
  <2> QED BY <2>1, <2>2
<1>7. ASSUME NEW w \in Workers, Cancellation!Settle(w)
      PROVE  agent'[worker'[v].at.run] \in Cancellation!Recorded
  <2>1. v # w /\ worker'[v] = worker[v]
    BY <1>1, <1>3, <1>7 DEF Cancellation!Settle, Cancellation!Idle
  <2> QED BY <1>4, <2>1
<1>8. ASSUME NEW w \in Workers, Cancellation!Claim(w)
      PROVE  agent'[worker'[v].at.run] \in Cancellation!Recorded
  <2>1. \/ worker' = worker
        \/ \E a : worker' = [worker EXCEPT ![w] = Cancellation!Claimed(a)]
    BY <1>8 DEF Cancellation!Claim
  <2>2. worker'[v] = worker[v]
    BY <1>1, <1>3, <2>1 DEF Cancellation!Claimed
  <2> QED BY <1>4, <2>2
<1> QED BY <1>4, <1>6, <1>7, <1>8
        DEF Cancellation!Next, CancellationWorks, Cancellation!Lapse,
            Cancellation!StrayArrives, Cancellation!LaunchArrives, Cancellation!RunMoves

LEMMA CancellationInitInv ==
    ASSUME Cancellation!ConstantsAssumption, Cancellation!Init PROVE CancellationInv
<1>1. [status |-> "cancel_requested", attempts |-> 0, lapsed |-> FALSE] \in Cancellation!Row
  BY DEF Cancellation!ConstantsAssumption, Cancellation!Row, Cancellation!Open
<1>2. launch \subseteq Runs /\ \A r \in launch : agent[r] = "unknown"
  <2>1. Cancellation!LatestRun \in Runs
    BY DEF Cancellation!ConstantsAssumption, Cancellation!LatestRun
  <2>2. agent \in [Runs -> {"unknown", "running", "ended"}]
    BY DEF Cancellation!Init
  <2>3. launch \subseteq {r \in {Cancellation!LatestRun} : agent[r] = "unknown"}
    BY DEF Cancellation!Init
  <2> QED BY <2>1, <2>3
<1>3. Cancellation!TypeOK
  BY <1>1, <1>2 DEF Cancellation!Init, Cancellation!TypeOK, Cancellation!Recorded
<1>4. CancellationLeases
  BY DEF Cancellation!Init, CancellationLeases
<1>5. CancellationRecords
  BY <1>2 DEF Cancellation!Init, CancellationRecords, Cancellation!Idle
<1> QED BY <1>3, <1>4, <1>5 DEF CancellationInv

\* The inductive invariant of the cancellations of a deleted conversation.
THEOREM CancellationCorrect ==
    ASSUME Cancellation!ConstantsAssumption PROVE Cancellation!Spec => []CancellationInv
<1>1. Cancellation!Init => CancellationInv
  BY CancellationInitInv
<1>2. CancellationInv /\ [Cancellation!Next]_(Cancellation!vars) => CancellationInv'
  <2>1. ASSUME CancellationInv, Cancellation!Next PROVE CancellationInv'
    BY <2>1, CancellationTypesKept, CancellationLeasesKept, CancellationRecordsKept
       DEF CancellationInv
  <2>2. ASSUME CancellationInv, UNCHANGED Cancellation!vars PROVE CancellationInv'
    BY <2>2 DEF CancellationInv, Cancellation!vars, Cancellation!TypeOK, CancellationLeases,
                CancellationRecords
  <2> QED BY <2>1, <2>2
<1> QED BY <1>1, <1>2, PTL DEF Cancellation!Spec

\* A cancellation is closed by the outcome of the attempt that is current.
CancellationEarned(r) ==
    LET Judged(o) == \E w \in Workers :
           worker[w] = Cancellation!Settling([run |-> r, number |-> cancellation[r].attempts], o)
    IN  IF cancellation'[r].status = "succeeded"
        THEN Judged("succeeded") /\ agent[r] \in Cancellation!Recorded
        ELSE Judged("failed") \/ cancellation[r].attempts = MaxAttempts

LEMMA CancellationClosesEarned ==
    ASSUME Cancellation!ConstantsAssumption, CancellationInv, Cancellation!Next,
           NEW r \in Runs, cancellation[r].status \in Cancellation!Open,
           cancellation'[r].status \in Cancellation!Closed
    PROVE  CancellationEarned(r)
<1>1. Cancellation!TypeOK /\ cancellation[r].status # cancellation'[r].status
  BY DEF CancellationInv, Cancellation!Open, Cancellation!Closed
<1>2. ASSUME NEW w \in Workers, Cancellation!Claim(w) PROVE CancellationEarned(r)
  <2>1. cancellation'[r] = Cancellation!Swept[r]
    BY <1>1, <1>2, CancellationClaims DEF Cancellation!Closed
  <2>2. cancellation[r].attempts = MaxAttempts /\ cancellation'[r].status = "failed"
    BY <1>1, <2>1, CancellationSwept
  <2> QED BY <2>2 DEF CancellationEarned
<1>3. ASSUME NEW w \in Workers, Cancellation!Settle(w) PROVE CancellationEarned(r)
  <2>1. /\ worker[w] = Cancellation!Settling([run |-> r, number |-> cancellation[r].attempts],
                                             worker[w].outcome)
        /\ worker[w].at.run = r
        /\ cancellation'[r].status = Cancellation!Settled(w)
    BY <1>1, <1>3, CancellationSettles
  <2>2. worker[w].at.number = cancellation[r].attempts /\ worker[w].pc = "settling"
    BY <2>1 DEF Cancellation!Settling
  <2>3. /\ worker[w].outcome \in Cancellation!Outcomes
        /\ cancellation[r].attempts \in 0..MaxAttempts /\ MaxAttempts \in Nat
    BY <1>1, <2>2, CancellationWorker
       DEF Cancellation!TypeOK, Cancellation!Row, Cancellation!ConstantsAssumption
  <2>4. CASE worker[w].outcome = "succeeded"
    <3>1. cancellation'[r].status = "succeeded" /\ agent[r] \in Cancellation!Recorded
      BY <2>1, <2>2, <2>4 DEF CancellationInv, CancellationRecords, Cancellation!Settled
    <3> QED BY <2>1, <2>4, <3>1 DEF CancellationEarned
  <2>5. CASE worker[w].outcome = "failed"
    <3>1. cancellation'[r].status = "failed"
      BY <2>1, <2>5 DEF Cancellation!Settled
    <3> QED BY <2>1, <2>5, <3>1 DEF CancellationEarned
  <2>6. CASE worker[w].outcome = "retryable"
    <3>1. ~(worker[w].at.number < MaxAttempts) /\ cancellation'[r].status = "failed"
      BY <2>1, <2>6 DEF Cancellation!Settled, Cancellation!Closed
    <3>2. cancellation[r].attempts = MaxAttempts
      BY <2>2, <2>3, <3>1
    <3> QED BY <3>1, <3>2 DEF CancellationEarned
  <2> QED BY <2>3, <2>4, <2>5, <2>6 DEF Cancellation!Outcomes
<1>4. ASSUME NEW q \in Runs, Cancellation!Lapse(q) PROVE FALSE
  BY <1>1, <1>4, CancellationLapses
<1>5. ASSUME NEW w \in Workers, CancellationWorks(w) PROVE FALSE
  BY <1>1, <1>5, CancellationWorkTypes
<1>6. CASE CancellationElsewhere
  BY <1>1, <1>6 DEF CancellationElsewhere, Cancellation!StrayArrives,
                    Cancellation!LaunchArrives, Cancellation!RunMoves
<1> QED BY <1>2, <1>3, <1>4, <1>5, <1>6
        DEF Cancellation!Next, CancellationWorks, CancellationElsewhere

\* Workers whose leases were taken over are told from those that hold them, and a
\* cancellation is closed by the outcome of its current attempt or when its attempts
\* are spent; it succeeds only if the Agent has recorded it or its run is over.
THEOREM CancellationsAreEarned ==
    ASSUME Cancellation!ConstantsAssumption
    PROVE  Cancellation!Spec => SettlementsAreEarned
<1>1. CancellationInv => LeasesApart
  BY DEF CancellationInv, CancellationLeases, LeasesApart, Cancellation!Idle, Idle
<1> DEFINE Earned == \A r \in Runs :
              cancellation[r].status \in Open /\ cancellation'[r].status \in Closed =>
                 LET Judged(o) == \E w \in Workers :
                        worker[w] = Settling([run |-> r, number |-> cancellation[r].attempts], o)
                 IN  IF cancellation'[r].status = "succeeded"
                     THEN Judged("succeeded") /\ agent[r] \in Recorded
                     ELSE Judged("failed") \/ cancellation[r].attempts = MaxAttempts
<1>2. CancellationInv /\ [Cancellation!Next]_(Cancellation!vars) => [Earned]_cancellation
  BY CancellationClosesEarned
     DEF CancellationEarned, Cancellation!vars, Cancellation!Open, Cancellation!Closed,
         Cancellation!Recorded, Cancellation!Settling, Open, Closed, Recorded, Settling
<1> HIDE DEF Earned
<1>3. Cancellation!Spec => []LeasesApart /\ [][Earned]_cancellation
  BY <1>1, <1>2, CancellationCorrect, PTL DEF Cancellation!Spec
<1> QED BY <1>3 DEF SettlementsAreEarned, Earned

=============================================================================
