--------------------------- MODULE MCScheduled ---------------------------
(* A rack that is started, stopped and started again. *)
EXTENDS Scheduled

=============================================================================
