------------------------- MODULE MCScheduledDispatch -------------------------
(* Small instances of ScheduledDispatch for TLC. *)
EXTENDS ScheduledDispatch

=============================================================================
