----------------------------- MODULE MCDownload -----------------------------
(* Download on a small instance: a run of three recordings. *)
EXTENDS Download

MCRecordings == 1..3
MCJoined == {2, 3}

=============================================================================
