--------------------------- MODULE MCAgentDispatch ---------------------------
(* Small instances of AgentDispatch for TLC. *)
EXTENDS AgentDispatch

CONSTANTS c1, r1, r2, w1, w2

\* All turns in one conversation.
OneConversation == [d \in Runs |-> c1]

=============================================================================
