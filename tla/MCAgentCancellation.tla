------------------------- MODULE MCAgentCancellation -------------------------
(* Small instances of AgentCancellation for TLC. *)
EXTENDS AgentCancellation

=============================================================================
