------------------------------- MODULE MCCard -------------------------------
(* Card on a small instance. *)
EXTENDS Card

=============================================================================
