----------------------------- MODULE MCCollect -----------------------------
(* Collect on a small instance. *)
EXTENDS Collect, TLC

=============================================================================
