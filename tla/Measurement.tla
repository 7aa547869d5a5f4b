---------------------------- MODULE Measurement -----------------------------
(***************************************************************************)
(* What the recorder promises to whoever fits it and comes back, without   *)
(* the threads, the lock, the flags and the order of calls that keep the   *)
(* promise (module Recorder):                                              *)
(*   - nothing is recorded once somebody has visited, and one recording at *)
(*     a time before that;                                                 *)
(*   - an open recording ends because somebody has visited, because of an  *)
(*     error that is reported, or with the process, and by itself only if  *)
(*     the settings say so;                                                *)
(*   - what became of a recording is decided once, after it was closed;    *)
(*   - a recording that is kept is thrown away only if a visitor was told  *)
(*     so while it was open;                                               *)
(*   - maintenance and error last until the device is started again.       *)
(***************************************************************************)

CONSTANT EndsByItself   \* segments, or a stop when the device is shaken, are set

VARIABLES
    phase,      \* what the device says it is doing
    open,       \* a recording is being written
    fate,       \* what the latest recording is on the card
    visited,    \* somebody has visited since the device was started
    promised,   \* a visitor was told that the latest recording will be thrown away
    ending      \* the process is on its way out, or has gone

vars == <<phase, open, fate, visited, promised, ending>>

Init ==
    /\ phase = "waiting_http" /\ open = FALSE /\ fate = "none"
    /\ visited = FALSE /\ promised = FALSE /\ ending = FALSE

Visit == visited' = TRUE /\ UNCHANGED <<phase, open, fate, promised, ending>>

Promise ==
    /\ visited /\ open /\ phase = "recording"
    /\ promised' = TRUE
    /\ UNCHANGED <<phase, open, fate, visited, ending>>

End == ending' = TRUE /\ UNCHANGED <<phase, open, fate, visited, promised>>

Begin ==
    /\ phase \in {"waiting_stable", "recording"} /\ ~open /\ ~visited /\ ~ending
    /\ phase' = "recording" /\ open' = TRUE /\ fate' = "partial" /\ promised' = FALSE
    /\ UNCHANGED <<visited, ending>>

Close ==
    /\ open /\ (visited \/ phase = "error" \/ ending \/ EndsByItself)
    /\ open' = FALSE
    /\ UNCHANGED <<phase, fate, visited, promised, ending>>

Keep ==
    /\ ~open /\ fate = "partial"
    /\ fate' \in {"listed", "corrupt"}
    /\ UNCHANGED <<phase, open, visited, promised, ending>>

\* The card may refuse, and the refusal may end the process.
Discard ==
    /\ ~open /\ fate = "listed" /\ promised
    /\ fate' \in {"listed", "trash"} /\ promised' = FALSE
    /\ ending' \in {ending, TRUE}
    /\ UNCHANGED <<phase, open, visited>>

\* From one phase to the next, with no recording open.
GoOn ==
    /\ ~open
    /\ <<phase, phase'>> \in {<<"waiting_http", "waiting_stable">>,
                              <<"waiting_http", "maintenance">>,
                              <<"waiting_stable", "maintenance">>,
                              <<"recording", "waiting_stable">>,
                              <<"recording", "maintenance">>}
    /\ UNCHANGED <<open, fate, visited, promised, ending>>

\* The sensor is not there, or the card refuses a block or is full.
Fail ==
    /\ phase \in {"waiting_http", "recording"}
    /\ phase' = "error"
    /\ ending' \in {ending, TRUE}
    /\ UNCHANGED <<open, fate, visited, promised>>

\* The device is started again, and deals with what it finds.
StartAgain ==
    /\ ending /\ ~open
    /\ phase' = "waiting_http" /\ visited' = FALSE /\ promised' = FALSE /\ ending' = FALSE
    /\ fate' \in IF fate = "partial" THEN {"partial", "listed", "corrupt"} ELSE {fate}
    /\ UNCHANGED open

Next ==
    \/ Visit \/ Promise \/ End
    \/ Begin \/ Close \/ Keep \/ Discard
    \/ GoOn \/ Fail \/ StartAgain

Spec == Init /\ [][Next]_vars

=============================================================================
