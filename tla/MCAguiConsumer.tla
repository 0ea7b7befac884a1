---------------------------- MODULE MCAguiConsumer ----------------------------
(* Small instances of AguiConsumer for TLC. *)
EXTENDS AguiConsumer

=============================================================================
