-------------------------- MODULE MCMutationReceipt --------------------------
(* Small instances of MutationReceipt for TLC. *)
EXTENDS MutationReceipt

=============================================================================
