------------------------------- MODULE Clock --------------------------------
(***************************************************************************)
(* The times that are written into recordings, on a board without a clock  *)
(* chip (class TimeKeeper of recorder.py).                                 *)
(*                                                                         *)
(* When the power returns the kernel's clock is somewhere in the past.     *)
(* The recorder adds an offset that brings it to the time in .lastknown,   *)
(* which it saves every so often, and a recording is stamped with that     *)
(* time.  Listing, sorting and joining recordings rest on the stamps.      *)
(*                                                                         *)
(* Time is counted in units of some seconds.                               *)
(***************************************************************************)
EXTENDS Integers

CONSTANTS SaveEvery,    \* time_save_interval_seconds
          MountDelay,   \* mount_delay_seconds, the shortest hold
          Gap,          \* merge_gap_tolerance_seconds
          LateSync,     \* the system clock may be set after the hold
          SavesFail,    \* save_last_known may meet an OSError
          MaxTime       \* bound of the time that passes and of the clock

ASSUME ClockAssumption ==
  /\ SaveEvery \in Nat
  /\ MountDelay \in Nat
  /\ Gap \in Nat
  /\ LateSync \in BOOLEAN
  /\ SavesFail \in BOOLEAN
  /\ MaxTime \in Nat

VARIABLES
  real,       \* what a right clock says
  kernel,     \* time.time()
  offset,     \* TimeKeeper._offset
  saved,      \* .lastknown
  phase,      \* the power is off, the service is down, it holds, or it loops
  held,       \* how long it has been holding
  unsaved,    \* how long ago the time was saved
  recording,  \* a recording is open
  start,      \* of the latest recording: its stamp
  length,     \* and how long it is
  cut         \* the recorder has started again since

clock == <<real, kernel, offset>>
file == <<saved, unsaved>>
latest == <<start, length, cut>>
vars == <<clock, file, phase, held, recording, latest>>

now == kernel + offset
end == start + length

Init ==
  /\ real \in 0..1
  /\ kernel = 0
  /\ offset = 0
  /\ saved = 0
  /\ phase = "off"
  /\ held = 0
  /\ unsaved = 0
  /\ recording = FALSE
  /\ start = 0 - (Gap + 1)
  /\ length = 0
  /\ cut = TRUE

-----------------------------------------------------------------------------

(***************************************************************************)
(* _restore: only ever forward.                                            *)
(***************************************************************************)
\* Mutant: .lastknown is added to the kernel's clock, as if that began at zero.
Restored_Added(k) == IF saved > k THEN saved ELSE 0

Restored(k) == IF saved > k THEN saved - k ELSE 0

\* The recorder starts while the kernel's clock says k.
StartsAt(k) ==
  /\ kernel' = k
  /\ offset' = Restored(k)
  /\ phase' = "hold"
  /\ held' = 0
  /\ UNCHANGED <<real, file, recording, latest>>

\* After a power cut the kernel's clock has stood still, or is further back.
Boot ==
  /\ phase = "off"
  /\ \E k \in 0..kernel : StartsAt(k)

\* systemd starts the service again; the kernel's clock went on.
Restart ==
  /\ phase = "down"
  /\ StartsAt(kernel)

-----------------------------------------------------------------------------

(***************************************************************************)
(* save_last_known.  A save that fails is logged and no more, and the next *)
(* is due as if it had not.                                                *)
(***************************************************************************)
Save ==
  /\ saved' \in {now} \cup (IF SavesFail THEN {saved} ELSE {})
  /\ unsaved' = 0

\* The hold ends, and the first tick saves the time before anything else.
HoldEnds ==
  /\ phase = "hold"
  /\ held >= MountDelay
  /\ phase' = "loop"
  /\ Save
  /\ UNCHANGED <<clock, held, recording, latest>>

\* Mutant: the time is saved only while nothing is recorded.
SaveLastKnown_WhenIdle ==
  /\ phase = "loop"
  /\ unsaved >= SaveEvery
  /\ IF recording THEN unsaved' = 0 /\ saved' = saved ELSE Save
  /\ UNCHANGED <<clock, phase, held, recording, latest>>

\* A tick at which the time is due to be saved.
SaveLastKnown ==
  /\ phase = "loop"
  /\ unsaved >= SaveEvery
  /\ Save
  /\ UNCHANGED <<clock, phase, held, recording, latest>>

\* _open_recording stamps the recording.
Start ==
  /\ phase = "loop"
  /\ ~recording
  /\ recording' = TRUE
  /\ start' = now
  /\ length' = 0
  /\ cut' = FALSE
  /\ UNCHANGED <<clock, file, phase, held>>

\* _stop_recording.
Stop ==
  /\ recording
  /\ recording' = FALSE
  /\ UNCHANGED <<clock, file, phase, held, latest>>

\* _shutdown stops the recording and saves the time a last time.
Shutdown ==
  /\ phase \in {"hold", "loop"}
  /\ phase' = "down"
  /\ Save
  /\ held' = 0
  /\ recording' = FALSE
  /\ cut' = TRUE
  /\ UNCHANGED <<clock, start, length>>

-----------------------------------------------------------------------------

(***************************************************************************)
(* The system sets its clock from the network.  The offset stays on top of *)
(* it, so the next boot begins from a time that much later; the bound is   *)
(* on that.                                                                *)
(***************************************************************************)
Synchronise ==
  /\ phase = "hold" \/ (phase = "loop" /\ LateSync)
  /\ kernel < real
  /\ real + offset <= MaxTime
  /\ kernel' = real
  /\ UNCHANGED <<real, offset, file, phase, held, recording, latest>>

(***************************************************************************)
(* Time passes.  The loop turns several times in a unit, so the time is    *)
(* saved when it is due; blocks count monotonic time from the start.       *)
(***************************************************************************)
Pass ==
  /\ real < MaxTime
  /\ phase = "loop" => unsaved < SaveEvery
  /\ real' = real + 1
  /\ kernel' = IF phase = "off" THEN kernel ELSE kernel + 1
  /\ held' = IF phase = "hold" /\ held < MountDelay THEN held + 1 ELSE held
  /\ unsaved' = IF phase = "loop" THEN unsaved + 1 ELSE unsaved
  /\ length' = IF recording THEN length + 1 ELSE length
  /\ UNCHANGED <<offset, saved, phase, recording, start, cut>>

(***************************************************************************)
(* The power is cut.  The directory is not synced after the rename of      *)
(* .lastknown; but a journal commits changes in their order, so a cut that *)
(* loses the rename loses what came after it too, and is a cut that came   *)
(* before the rename.                                                      *)
(***************************************************************************)
PowerCut ==
  /\ phase # "off"
  /\ phase' = "off"
  /\ held' = 0
  /\ unsaved' = 0
  /\ recording' = FALSE
  /\ cut' = TRUE
  /\ UNCHANGED <<clock, saved, start, length>>

Next ==
  \/ Boot \/ Restart
  \/ HoldEnds \/ SaveLastKnown \/ Start \/ Stop \/ Shutdown
  \/ Pass \/ Synchronise \/ PowerCut

Spec == Init /\ [][Next]_vars

-----------------------------------------------------------------------------

TypeOK ==
  /\ real \in Nat /\ kernel \in Nat /\ offset \in Nat
  /\ saved \in Nat
  /\ phase \in {"off", "down", "hold", "loop"}
  /\ held \in 0..MountDelay
  /\ unsaved \in 0..SaveEvery
  /\ recording \in BOOLEAN
  /\ start \in Int /\ length \in Nat
  /\ cut \in BOOLEAN

(***************************************************************************)
(* "Two recordings made either side of a power cut stay in the order they  *)
(* happened" (recorder.py:112), and do not overlap or look like one that   *)
(* went on: whatever the kernel's clock says at boot, the later recording  *)
(* starts more than the tolerance of the continuity grouping after the end *)
(* of the earlier one.                                                     *)
(***************************************************************************)
CutSeparates == [][Start /\ cut => start' > end + Gap]_vars

(***************************************************************************)
(* "A recorded time can be behind reality but never ahead of it"           *)
(* (recorder.py:128).                                                      *)
(***************************************************************************)
NeverAhead == start <= real

(***************************************************************************)
(* What is left of that claim: from where nothing is ahead of reality,     *)
(* neither the clock, nor .lastknown, nor the stamp of a recording, only   *)
(* the system setting its clock under an offset takes anything ahead.  No  *)
(* restoring, saving, power cut or restart does, in any order, and the     *)
(* system may set its clock as it likes while nothing was restored         *)
(* (recorder.py _restore).                                                 *)
(***************************************************************************)
Behind == now <= real /\ saved <= real /\ start <= real

AheadOnlyBySync == [][Behind => Behind' \/ (Synchronise /\ offset > 0)]_vars

=============================================================================
