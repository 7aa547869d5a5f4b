------------------------------ MODULE MCClock -------------------------------
(* Clock on a small instance. *)
EXTENDS Clock

=============================================================================
