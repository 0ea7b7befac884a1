----------------------------- MODULE MCAguiStream -----------------------------
(* Small instances of AguiStream for TLC. *)
EXTENDS AguiStream

=============================================================================
