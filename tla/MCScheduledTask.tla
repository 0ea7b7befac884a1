--------------------------- MODULE MCScheduledTask ---------------------------
(* Small instances of ScheduledTask for TLC. *)
EXTENDS ScheduledTask

=============================================================================
