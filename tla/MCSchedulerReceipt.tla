-------------------------- MODULE MCSchedulerReceipt --------------------------
(* Small instances of SchedulerReceipt for TLC. *)
EXTENDS SchedulerReceipt

=============================================================================
