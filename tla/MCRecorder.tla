----------------------------- MODULE MCRecorder -----------------------------
(* Recorder on a small instance: which visitor is which does not matter. *)
EXTENDS Recorder, TLC

VisitorSymmetry == Permutations(Visitors)

=============================================================================
