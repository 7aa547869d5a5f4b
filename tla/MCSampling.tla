----------------------------- MODULE MCSampling -----------------------------
(* Sampling on a small instance. *)
EXTENDS Sampling

=============================================================================
