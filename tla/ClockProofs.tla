----------------------------- MODULE ClockProofs ----------------------------
(***************************************************************************)
(* Proofs about Clock: recordings on either side of a restart are in their *)
(* order and apart, for every value of the delays that lets the mount      *)
(* delay exceed the time between two saves by more than the tolerance.     *)
(***************************************************************************)
EXTENDS Clock, TLAPS

(***************************************************************************)
(* What the proof of CutSeparates asks of the settings and the board.  The *)
(* defaults are 10 s, 60 s and 2 s.                                        *)
(***************************************************************************)
Spaced ==
  /\ MountDelay > SaveEvery + Gap
  /\ ~LateSync
  /\ ~SavesFail

(***************************************************************************)
(* The inductive invariant: how far .lastknown is behind the clock in each *)
(* phase, and the end of the latest recording behind or ahead of both.     *)
(***************************************************************************)
SavedInLoop == phase = "loop" => now = saved + unsaved
SavedInHold == phase = "hold" => now >= saved + held
EndOfOpen == ~cut => phase = "loop" /\ end <= now
EndOfCut == cut => end <= saved + SaveEvery
EndLeftBehind == cut /\ phase = "loop" => end + Gap < saved

IInv ==
  /\ TypeOK
  /\ recording => ~cut
  /\ SavedInLoop
  /\ SavedInHold
  /\ EndOfOpen
  /\ EndOfCut
  /\ EndLeftBehind

USE DEF clock, file, latest, now, end

(* The initial state is well typed. *)
LEMMA TypeInit == Init => TypeOK
<1>1. Init => recording \in BOOLEAN /\ cut \in BOOLEAN
  BY Zenon DEF Init
<1> QED
  BY <1>1, ClockAssumption DEF Init, TypeOK

(***************************************************************************)
(* TimeKeeper never goes below zero, the kernel's clock and .lastknown     *)
(* included, and the times of the recorder are within their limits.        *)
(***************************************************************************)
THEOREM TypeCorrect == Spec => []TypeOK
<1>1. Init => TypeOK
  BY TypeInit
<1>2. TypeOK /\ [Next]_vars => TypeOK'
  <2> SUFFICES ASSUME TypeOK, [Next]_vars PROVE TypeOK'
    OBVIOUS
  <2> USE ClockAssumption DEF TypeOK
  <2>1. CASE Boot
    BY <2>1 DEF Boot, StartsAt, Restored
  <2>2. CASE Restart
    BY <2>2 DEF Restart, StartsAt, Restored
  <2>3. CASE HoldEnds
    BY <2>3 DEF HoldEnds, Save
  <2>4. CASE SaveLastKnown
    BY <2>4 DEF SaveLastKnown, Save
  <2>5. CASE Start
    <3>1. recording' \in BOOLEAN /\ cut' \in BOOLEAN
      BY <2>5, Zenon DEF Start
    <3> QED
      BY <2>5, <3>1 DEF Start
  <2>6. CASE Stop
    BY <2>6 DEF Stop
  <2>7. CASE Shutdown
    <3>1. recording' \in BOOLEAN /\ cut' \in BOOLEAN
      BY <2>7, Zenon DEF Shutdown
    <3> QED
      BY <2>7, <3>1 DEF Shutdown, Save
  <2>8. CASE Synchronise
    BY <2>8 DEF Synchronise
  <2>9. CASE Pass
    BY <2>9 DEF Pass
  <2>10. CASE PowerCut
    <3>1. recording' \in BOOLEAN /\ cut' \in BOOLEAN
      BY <2>10, Zenon DEF PowerCut
    <3> QED
      BY <2>10, <3>1 DEF PowerCut
  <2>11. CASE UNCHANGED vars
    BY <2>11 DEF vars
  <2> QED
    BY <2>1, <2>2, <2>3, <2>4, <2>5, <2>6, <2>7, <2>8, <2>9, <2>10, <2>11
    DEF Next
<1> QED
  BY <1>1, <1>2, PTL DEF Spec

(***************************************************************************)
(* The invariant holds at first and is kept by every step.                 *)
(***************************************************************************)
LEMMA InvariantInit ==
  ASSUME Spaced, Init
  PROVE  IInv
  BY ClockAssumption, TypeInit
  DEF Spaced, Init, IInv, TypeOK, SavedInLoop, SavedInHold, EndOfOpen,
      EndOfCut, EndLeftBehind

LEMMA InvariantStep ==
  ASSUME Spaced, IInv, TypeOK', [Next]_vars
  PROVE  IInv'
<1> USE ClockAssumption DEF Spaced, IInv, TypeOK, SavedInLoop, SavedInHold,
        EndOfOpen, EndOfCut, EndLeftBehind
<1>1. CASE Boot
  BY <1>1 DEF Boot, StartsAt, Restored
<1>2. CASE Restart
  BY <1>2 DEF Restart, StartsAt, Restored
<1>3. CASE HoldEnds
  <2>1. saved' = now
    BY <1>3 DEF HoldEnds, Save
  <2>2. cut /\ now >= saved + MountDelay
    BY <1>3 DEF HoldEnds
  <2> QED
    BY <1>3, <2>1, <2>2 DEF HoldEnds, Save
<1>4. CASE SaveLastKnown
  BY <1>4 DEF SaveLastKnown, Save
<1>5. CASE Start
  BY <1>5 DEF Start
<1>6. CASE Stop
  BY <1>6 DEF Stop
<1>7. CASE Shutdown
  BY <1>7 DEF Shutdown, Save
<1>8. CASE Synchronise
  BY <1>8 DEF Synchronise
<1>9. CASE Pass
  BY <1>9 DEF Pass
<1>10. CASE PowerCut
  BY <1>10 DEF PowerCut
<1>11. CASE UNCHANGED vars
  BY <1>11 DEF vars
<1> QED
  BY <1>1, <1>2, <1>3, <1>4, <1>5, <1>6, <1>7, <1>8, <1>9, <1>10, <1>11
  DEF Next

(***************************************************************************)
(* Two recordings on either side of a power cut, or of a restart of the    *)
(* service, stay in their order (recorder.py:112) and are not taken for    *)
(* one that went on: for every mount delay that is longer than the time    *)
(* between two saves of the clock and the tolerance together.              *)
(***************************************************************************)
THEOREM CutsSeparate ==
  ASSUME Spaced
  PROVE  Spec => CutSeparates
<1>1. Init => IInv
  BY InvariantInit
<1>2. IInv /\ TypeOK' /\ [Next]_vars => IInv'
  BY InvariantStep
<1>3. IInv => (Start /\ cut => start' > end + Gap)
  <2> SUFFICES ASSUME IInv, Start, cut PROVE start' > end + Gap
    OBVIOUS
  <2>1. phase = "loop" /\ start' = now
    BY DEF Start
  <2>2. now = saved + unsaved /\ end + Gap < saved
    BY <2>1 DEF IInv, SavedInLoop, EndLeftBehind
  <2> QED
    BY <2>1, <2>2, ClockAssumption DEF IInv, TypeOK
<1>4. Spec => []TypeOK
  BY TypeCorrect
<1> QED
  BY <1>1, <1>2, <1>3, <1>4, PTL DEF Spec, CutSeparates

(***************************************************************************)
(* The only way ahead of reality is the one README.md (section 5) shows:   *)
(* the system sets its clock while an offset is applied.  This asks        *)
(* nothing of the delays, of when the clock is set or of the saves.        *)
(***************************************************************************)
THEOREM OnlySyncGetsAhead == Spec => AheadOnlyBySync
<1>1. TypeOK /\ [Next]_vars => [Behind => Behind' \/ (Synchronise /\ offset > 0)]_vars
  <2> SUFFICES ASSUME TypeOK, Next, Behind, ~(Synchronise /\ offset > 0) PROVE Behind'
    OBVIOUS
  <2> USE ClockAssumption DEF TypeOK, Behind
  <2>1. CASE Boot
    BY <2>1 DEF Boot, StartsAt, Restored
  <2>2. CASE Restart
    BY <2>2 DEF Restart, StartsAt, Restored
  <2>3. CASE HoldEnds
    BY <2>3 DEF HoldEnds, Save
  <2>4. CASE SaveLastKnown
    BY <2>4 DEF SaveLastKnown, Save
  <2>5. CASE Start
    BY <2>5 DEF Start
  <2>6. CASE Stop
    BY <2>6 DEF Stop
  <2>7. CASE Shutdown
    BY <2>7 DEF Shutdown, Save
  <2>8. CASE Synchronise
    BY <2>8 DEF Synchronise
  <2>9. CASE Pass
    BY <2>9 DEF Pass
  <2>10. CASE PowerCut
    BY <2>10 DEF PowerCut
  <2> QED
    BY <2>1, <2>2, <2>3, <2>4, <2>5, <2>6, <2>7, <2>8, <2>9, <2>10 DEF Next
<1> QED
  BY <1>1, TypeCorrect, PTL DEF Spec, AheadOnlyBySync

(***************************************************************************)
(* As long as the system never does that, no recording is stamped ahead of *)
(* reality, as _restore promises, across any number of cuts and restarts.  *)
(***************************************************************************)
THEOREM NeverAheadWithoutSync ==
  Spec /\ [][~(Synchronise /\ offset > 0)]_vars => []NeverAhead
<1>1. Init => Behind
  BY ClockAssumption DEF Init, Behind
<1>2. Behind => NeverAhead
  BY DEF Behind, NeverAhead
<1>3. Behind /\ UNCHANGED vars => Behind'
  BY DEF Behind, vars
<1> QED
  BY <1>1, <1>2, <1>3, OnlySyncGetsAhead, PTL DEF Spec, AheadOnlyBySync

=============================================================================
