------------------------------ MODULE MCPanel -------------------------------
(* Panel on a small instance. *)
EXTENDS Panel

=============================================================================
