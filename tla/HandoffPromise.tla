--------------------------- MODULE HandoffPromise ---------------------------
(***************************************************************************)
(* What SkillHandoff promises: one draft comes of a key, and its owner,    *)
(* the receipt and the caller agree on it.                                 *)
(***************************************************************************)
VARIABLES
    receipt,  \* of the key: its fingerprint and its checkpoint
    draft,    \* the owner's draft and the commands it has executed (external)
    told      \* history: the results requests have answered with

\* However requests of a key overlap, are lost and start again, the owner never
\* gets one command id with two bodies, and no command for a state version the
\* draft does not have: whatever was sent is what the next request sends
\* (skill-ai-handoff.ts:24, docs/API_CONTRACT.md:432).
CommandsNeverRefused == draft.refused = {}

\* The object the owner has completed is the one selected in the receipt, every
\* result told is the stored one and of the stored payload, and the draft was made
\* from that payload (skill-ai-handoff.ts:192-215).
OneOutcome ==
    /\ draft.source # 0 => draft.source = receipt.source
    /\ \A t \in told : receipt.stage = "done" /\ t = [payload |-> receipt.payload, result |-> receipt.result]
    /\ \A m \in draft.made : m.command.payload = receipt.payload

\* However requests overlap and are lost, the owner, the receipt and the caller
\* agree on one draft.
HandoffSound == CommandsNeverRefused /\ OneOutcome

=============================================================================
