------------------------------ MODULE BtProofs ------------------------------
(***************************************************************************)
(* Proofs about the modules of bt/: WifiConnect, for any names of profiles *)
(* and any passwords; BlePeripheral, whose worker makes the calls of       *)
(* WifiConnect, for any hosts; and one turn of the loop of WifiScan.       *)
(***************************************************************************)
EXTENDS WifiConnect, BlePeripheral, Integers, Sequences, TLAPS

-----------------------------------------------------------------------------
(* wifi_manager.connect and forget. *)

Listing   == {"before", "up", "security"}
Attempted == Listing \cup {"attempt", "retry", "cleanup"}

(***************************************************************************)
(* Before the attempt nothing has been made or deleted, and what is        *)
(* believed to be there was there.                                         *)
(***************************************************************************)
FirstInv ==
  /\ before \subseteq known
  /\ pc \in Listing => Saved = known /\ ~retried
  /\ pc \in {"up", "security"} => given = Open
  /\ pc \in {"up", "security"} /\ clean => before = Saved

(***************************************************************************)
(* At an attempt, when nmcli does its part: the first meets exactly the    *)
(* listed profiles, the second meets none.                                 *)
(***************************************************************************)
AttemptInv ==
  pc = "attempt" /\ clean => before = Saved /\ (retried => Saved = {})

\* With the right password the failure branch is not reached.
RightKey == given = router /\ given # Open /\ inRange

FailInv ==
  /\ pc = "cleanup" /\ clean => ~RightKey
  /\ pc = "returned" /\ clean /\ result # "ok" =>
       ~RightKey /\ Saved \subseteq known

\* Success is a profile with the right key, and in the end a pinned one.
OkInv ==
  /\ pc \in {"pin", "status"} /\ clean => active \in Names /\ profile[active] = router
  /\ pc = "status" /\ clean => active \in pinned
  /\ pc = "returned" /\ clean /\ result = "ok" =>
       active \in pinned /\ profile[active] = router

\* What has connected is saved, and until an attempt succeeds it was so from the beginning.
ProvenInv ==
  /\ proven \subseteq Saved
  /\ pc \in Attempted => proven \subseteq known

IInv == TypeOK /\ FirstInv /\ AttemptInv /\ FailInv /\ OkInv /\ ProvenInv

-----------------------------------------------------------------------------
(***************************************************************************)
(* A candidate of "device wifi connect" is a saved profile with its key or *)
(* a new one with what nmcli makes of the password; never no profile.      *)
(***************************************************************************)
LEMMA CandidateShape ==
  ASSUME TypeOK, NEW c \in Candidates
  PROVE  /\ c[1] \in Names
         /\ c[2] \in Keys \cup {Half}
         /\ \/ c[1] \in Saved /\ c[2] = profile[c[1]]
            \/ c[1] \notin Saved /\ c[2] = Made
<1>1. ASSUME NEW n \in Saved, c = <<n, profile[n]>>
      PROVE  c[1] \in Names /\ c[2] \in Keys \cup {Half} /\ c[1] \in Saved /\ c[2] = profile[c[1]]
  BY <1>1 DEF TypeOK, Saved
<1>2. ASSUME NEW n \in Names \ Saved, c = <<n, Made>>
      PROVE  c[1] \in Names /\ c[2] \in Keys \cup {Half} /\ c[1] \notin Saved /\ c[2] = Made
  BY <1>2 DEF TypeOK, Made
<1> QED BY <1>1, <1>2 DEF Candidates

(***************************************************************************)
(* A profile is written over with a key that it has, or made.              *)
(***************************************************************************)
LEMMA SavedGrows ==
  ASSUME TypeOK, NEW c \in Candidates, profile' = [profile EXCEPT ![c[1]] = c[2]]
  PROVE  /\ profile' \in [Names -> Keys \cup {Half, Absent}]
         /\ Saved' = Saved \cup {c[1]}
         /\ profile'[c[1]] = c[2]
         /\ \A n \in Saved : profile'[n] = profile[n]
<1>1. /\ c[1] \in Names /\ c[2] \in Keys \cup {Half} /\ c[2] # Absent
      /\ c[1] \in Saved => c[2] = profile[c[1]]
  BY CandidateShape, WifiAssumption DEF Keys
<1> QED BY <1>1 DEF TypeOK, Saved

\* A deletion takes the profile away and no other.
LEMMA SavedShrinks ==
  ASSUME TypeOK, NEW ns \in SUBSET Names, Delete(ns)
  PROVE  /\ profile' \in [Names -> Keys \cup {Half, Absent}]
         /\ Saved' = Saved \ ns
         /\ \A n \in Names \ ns : profile'[n] = profile[n]
         /\ pinned' \subseteq Names /\ active' \in Names \cup {NotUp}
         /\ proven' = proven \ ns
BY DEF TypeOK, Saved, Delete

\* The state that decides which profiles there are, unchanged.
LEMMA SavedStays == ASSUME UNCHANGED profile PROVE Saved' = Saved
BY DEF Saved

-----------------------------------------------------------------------------
\* A device that has never been connected satisfies the invariant.
THEOREM InitInv == Init => IInv
<1> SUFFICES ASSUME Init PROVE IInv OBVIOUS
<1>1. Saved = {} BY DEF Init, Saved
<1>2. TypeOK BY DEF Init, TypeOK, Keys
<1> QED BY <1>1, <1>2
  DEF Init, IInv, FirstInv, AttemptInv, FailInv, OkInv, ProvenInv, Listing, Attempted

(***************************************************************************)
(* Everything the invariant speaks of.                                     *)
(***************************************************************************)
LEMMA StutterInv == ASSUME IInv, UNCHANGED vars PROVE IInv'
<1>1. Saved' = Saved BY SavedStays DEF vars
<1> QED BY <1>1
  DEF IInv, TypeOK, FirstInv, AttemptInv, FailInv, OkInv, ProvenInv, RightKey, Listing,
      Attempted, vars, outside, call

(***************************************************************************)
(* The steps of a call that touch no profile.                              *)
(***************************************************************************)
LEMMA LookStep ==
  ASSUME IInv, \/ \E k \in Keys : Connect(k)
               \/ Before \/ Security \/ Pin \/ Status \/ Done
  PROVE  IInv'
<1>1. ASSUME NEW k \in Keys, Connect(k) PROVE IInv'
  <2>1. Saved' = Saved BY <1>1, SavedStays DEF Connect
  <2> QED BY <1>1, <2>1
    DEF IInv, TypeOK, FirstInv, AttemptInv, FailInv, OkInv, ProvenInv, RightKey, Listing,
        Attempted, Connect, outside, Saved
<1>2. CASE Before
  <2>1. Saved' = Saved BY <1>2, SavedStays DEF Before
  <2>2. before' \subseteq Saved /\ (clean' => clean /\ before' = Saved)
    BY <1>2 DEF Before
  <2>3. Saved = known /\ ~retried BY <1>2 DEF IInv, FirstInv, Listing, Before
  <2> QED BY <1>2, <2>1, <2>2, <2>3
    DEF IInv, TypeOK, FirstInv, AttemptInv, FailInv, OkInv, ProvenInv, RightKey, Listing,
        Attempted, Before, outside
<1>3. CASE Security
  <2>1. Saved' = Saved BY <1>3, SavedStays DEF Security
  <2> QED BY <1>3, <2>1
    DEF IInv, TypeOK, FirstInv, AttemptInv, FailInv, OkInv, ProvenInv, RightKey, Listing,
        Attempted, Security, Return, outside
<1>4. CASE Pin
  <2>1. Saved' = Saved BY <1>4, SavedStays DEF Pin
  <2>2. /\ pc = "pin" /\ pc' = "status" /\ clean' \in BOOLEAN
        /\ UNCHANGED <<profile, active, router, inRange, given, before, retried, result, known, proven>>
    BY <1>4 DEF IInv, TypeOK, Pin, outside, call
  <2>3. pinned' \subseteq Names /\ (clean' => clean /\ active \in pinned')
    BY <1>4 DEF IInv, TypeOK, Pin
  <2> QED BY <2>1, <2>2, <2>3
    DEF IInv, TypeOK, FirstInv, AttemptInv, FailInv, OkInv, ProvenInv, RightKey, Listing,
        Attempted
<1>5. CASE Status
  <2>1. Saved' = Saved BY <1>5, SavedStays DEF Status
  <2>2. /\ pc = "status" /\ pc' = "returned" /\ clean' \in BOOLEAN
        /\ UNCHANGED <<profile, pinned, active, router, inRange, given, before, retried, known, proven>>
    BY <1>5 DEF IInv, TypeOK, Status, Return, outside
  <2>3. result' \in {"ok", "failed"} /\ (clean' => clean /\ result' = "ok")
    BY <1>5 DEF Status, Return
  <2> QED BY <2>1, <2>2, <2>3
    DEF IInv, TypeOK, FirstInv, AttemptInv, FailInv, OkInv, ProvenInv, RightKey, Listing,
        Attempted
<1>6. CASE Done
  <2>1. Saved' = Saved BY <1>6, SavedStays DEF Done
  <2> QED BY <1>6, <2>1
    DEF IInv, TypeOK, FirstInv, AttemptInv, FailInv, OkInv, ProvenInv, RightKey, Listing,
        Attempted, Done, outside, call
<1> QED BY <1>1, <1>2, <1>3, <1>4, <1>5, <1>6

(***************************************************************************)
(* Coming up on a saved profile, with or without a password.               *)
(***************************************************************************)
LEMMA UpStep == ASSUME IInv, UpSaved PROVE IInv'
<1>1. PICK n \in before :
        IF Works(profile[n])
          THEN Up(n, profile[n]) /\ pc' = "pin" /\ UNCHANGED result
          ELSE Return("failed") /\ UNCHANGED <<profile, active, proven>>
  BY DEF UpSaved
<1>2. n \in Names /\ before \subseteq known /\ Saved = known /\ n \in Saved /\ given = Open /\ pc = "up"
  BY DEF IInv, TypeOK, FirstInv, Listing, UpSaved
<1>3. CASE Works(profile[n])
  <2>1. profile' = profile BY <1>1, <1>2, <1>3 DEF Up, IInv, TypeOK
  <2>2. Saved' = Saved BY <2>1, SavedStays
  <2> QED BY <1>1, <1>2, <1>3, <2>1, <2>2
    DEF IInv, TypeOK, FirstInv, AttemptInv, FailInv, OkInv, ProvenInv, RightKey, Listing,
        Attempted, UpSaved, Up, Works
<1>4. CASE ~Works(profile[n])
  <2>1. Saved' = Saved BY <1>1, <1>4, SavedStays
  <2> QED BY <1>1, <1>2, <1>4, <2>1
    DEF IInv, TypeOK, FirstInv, AttemptInv, FailInv, OkInv, ProvenInv, RightKey, Listing,
        Attempted, UpSaved, Return
<1> QED BY <1>3, <1>4

\* Coming up on a new profile, or on an old one with the new key.
LEMMA AttemptOkStep == ASSUME IInv, AttemptOk PROVE IInv'
<1>1. PICK c \in Candidates : Works(c[2]) /\ Up(c[1], c[2]) BY DEF AttemptOk
<1>2. TypeOK BY DEF IInv
<1>3. c[1] \in Names BY <1>2, CandidateShape
<1>4. /\ profile' \in [Names -> Keys \cup {Half, Absent}]
      /\ Saved' = Saved \cup {c[1]} /\ profile'[c[1]] = c[2]
  BY <1>1, <1>2, SavedGrows DEF Up
<1> QED BY <1>1, <1>3, <1>4
  DEF IInv, TypeOK, FirstInv, AttemptInv, FailInv, OkInv, ProvenInv, RightKey, Listing,
      Attempted, AttemptOk, Up, Works, call

(***************************************************************************)
(* An attempt that fails.  With the right password it was a saved profile  *)
(* with another key that failed, so the retry is still to come.            *)
(***************************************************************************)
LEMMA AttemptFailsStep == ASSUME IInv, AttemptFails PROVE IInv'
<1>1. PICK c \in Candidates :
        /\ ~Works(c[2])
        /\ \/ profile' = [profile EXCEPT ![c[1]] = c[2]]
           \/ UNCHANGED profile
  BY DEF AttemptFails
<1>2. TypeOK BY DEF IInv
<1>3. /\ profile' \in [Names -> Keys \cup {Half, Absent}]
      /\ Saved \subseteq Saved'
  BY <1>1, <1>2, SavedGrows, SavedStays DEF TypeOK
<1>4. RightKey /\ clean => pc' = "retry"
  <2> SUFFICES ASSUME RightKey, clean PROVE pc' = "retry" OBVIOUS
  <2>1. before = Saved /\ (retried => Saved = {}) BY DEF IInv, AttemptInv, AttemptFails
  <2>2. c[2] # given BY <1>1 DEF Works, RightKey
  <2>3. c[2] # Made BY <2>2 DEF Made, RightKey
  <2>4. c[1] \in Saved BY <1>2, <2>3, CandidateShape
  <2> QED BY <2>1, <2>4 DEF AttemptFails, RightKey
<1>5. pc' \in {"retry", "cleanup"} /\ pc = "attempt" BY DEF AttemptFails
<1> QED BY <1>3, <1>4, <1>5
  DEF IInv, TypeOK, FirstInv, AttemptInv, FailInv, OkInv, ProvenInv, RightKey, Listing,
      Attempted, AttemptFails, outside, call

(***************************************************************************)
(* The two steps that delete.                                              *)
(***************************************************************************)
LEMMA RetryStep == ASSUME IInv, Retry PROVE IInv'
<1>1. PICK ns \in SUBSET Saved : Delete(ns) /\ (clean' => ns = Saved) BY DEF Retry
<1>2. TypeOK /\ ns \subseteq Names BY DEF IInv, Saved
<1>3. /\ profile' \in [Names -> Keys \cup {Half, Absent}]
      /\ Saved' = Saved \ ns
      /\ pinned' \subseteq Names /\ active' \in Names \cup {NotUp}
      /\ proven' = proven \ ns
  BY <1>1, <1>2, SavedShrinks
<1>4. clean' \in BOOLEAN BY DEF Retry, IInv, TypeOK
<1> QED BY <1>1, <1>3, <1>4
  DEF IInv, TypeOK, FirstInv, AttemptInv, FailInv, OkInv, ProvenInv, RightKey, Listing,
      Attempted, Retry

\* What the attempt brought with it goes again.
LEMMA CleanupStep == ASSUME IInv, Cleanup PROVE IInv'
<1>1. PICK ns \in SUBSET (Saved \ before) : Delete(ns) /\ (clean' => clean /\ ns = Saved \ before)
  BY DEF Cleanup
<1>2. TypeOK /\ ns \subseteq Names BY DEF IInv, Saved
<1>3. /\ profile' \in [Names -> Keys \cup {Half, Absent}]
      /\ Saved' = Saved \ ns
      /\ pinned' \subseteq Names /\ active' \in Names \cup {NotUp}
      /\ proven' = proven \ ns
  BY <1>1, <1>2, SavedShrinks
<1>4. clean' \in BOOLEAN BY DEF Cleanup, IInv, TypeOK
<1> QED BY <1>1, <1>3, <1>4
  DEF IInv, TypeOK, FirstInv, AttemptInv, FailInv, OkInv, ProvenInv, RightKey, Listing,
      Attempted, Cleanup, Return

\* A silent nmcli ends the call wherever it is.
LEMMA TimesOutStep == ASSUME IInv, TimesOut PROVE IInv'
<1>1. /\ pc' = "returned" /\ result' = "failed" /\ ~clean' /\ clean' \in BOOLEAN
      /\ UNCHANGED <<given, before, retried, known, pinned, router, inRange>>
  BY DEF TimesOut, Raise, Return
<1>2. /\ profile' \in [Names -> Keys \cup {Half, Absent}]
      /\ active' \in Names \cup {NotUp}
      /\ proven' \subseteq Saved'
  <2>1. CASE UNCHANGED <<profile, active, proven>>
    BY <2>1, SavedStays DEF IInv, TypeOK, ProvenInv
  <2>2. CASE \E c \in Candidates :
               IF Works(c[2]) THEN Up(c[1], c[2])
               ELSE profile' = [profile EXCEPT ![c[1]] = c[2]] /\ UNCHANGED <<active, proven>>
    <3>1. PICK c \in Candidates :
               IF Works(c[2]) THEN Up(c[1], c[2])
               ELSE profile' = [profile EXCEPT ![c[1]] = c[2]] /\ UNCHANGED <<active, proven>>
      BY <2>2
    <3>2. TypeOK /\ c[1] \in Names BY CandidateShape DEF IInv
    <3>3. /\ profile' \in [Names -> Keys \cup {Half, Absent}]
          /\ Saved' = Saved \cup {c[1]}
      BY <3>1, <3>2, SavedGrows DEF Up
    <3> QED BY <3>1, <3>2, <3>3 DEF IInv, TypeOK, ProvenInv, Up
  <2> QED BY <2>1, <2>2 DEF TimesOut
<1>3. proven' \subseteq Names BY <1>2 DEF Saved
<1> QED BY <1>1, <1>2, <1>3
  DEF IInv, TypeOK, FirstInv, AttemptInv, FailInv, OkInv, ProvenInv, RightKey, Listing,
      Attempted

(***************************************************************************)
(* The other commands and the world.                                       *)
(***************************************************************************)
LEMMA OutsideStep ==
  ASSUME IInv, Forget \/ Disconnect \/ NewKey \/ Moves \/ PowerCut
  PROVE  IInv'
<1>1. CASE Forget
  <2>1. PICK ns \in SUBSET Saved : Delete(ns) BY <1>1 DEF Forget
  <2>2. TypeOK /\ ns \subseteq Names BY DEF IInv, Saved
  <2>3. /\ profile' \in [Names -> Keys \cup {Half, Absent}]
        /\ Saved' = Saved \ ns
        /\ pinned' \subseteq Names /\ active' \in Names \cup {NotUp}
        /\ proven' = proven \ ns
    BY <2>1, <2>2, SavedShrinks
  <2> QED BY <1>1, <2>3
    DEF IInv, TypeOK, FirstInv, AttemptInv, FailInv, OkInv, ProvenInv, RightKey, Listing,
        Attempted, Forget, call
<1>2. CASE Disconnect
  <2>1. Saved' = Saved BY <1>2, SavedStays DEF Disconnect
  <2> QED BY <1>2, <2>1
    DEF IInv, TypeOK, FirstInv, AttemptInv, FailInv, OkInv, ProvenInv, RightKey, Listing,
        Attempted, Disconnect, call
<1>3. CASE NewKey
  <2>1. Saved' = Saved BY <1>3, SavedStays DEF NewKey
  <2> QED BY <1>3, <2>1
    DEF IInv, TypeOK, FirstInv, AttemptInv, FailInv, OkInv, ProvenInv, RightKey, Listing,
        Attempted, NewKey, call
<1>4. CASE Moves
  <2>1. Saved' = Saved BY <1>4, SavedStays DEF Moves
  <2> QED BY <1>4, <2>1
    DEF IInv, TypeOK, FirstInv, AttemptInv, FailInv, OkInv, ProvenInv, RightKey, Listing,
        Attempted, Moves, call
<1>5. CASE PowerCut
  <2>1. Saved' = Saved BY <1>5, SavedStays DEF PowerCut
  <2> QED BY <1>5, <2>1
    DEF IInv, TypeOK, FirstInv, AttemptInv, FailInv, OkInv, ProvenInv, RightKey, Listing,
        Attempted, PowerCut, call
<1> QED BY <1>1, <1>2, <1>3, <1>4, <1>5

\* Every step keeps the invariant: the call by its own step (connect), the other commands and
\* the world together.
THEOREM StepInv == IInv /\ [Next]_vars => IInv'
<1> SUFFICES ASSUME IInv, [Next]_vars PROVE IInv' OBVIOUS
<1>1. CASE UNCHANGED vars BY <1>1, StutterInv
<1>2. CASE (\E k \in Keys : Connect(k)) \/ Before \/ Security \/ Pin \/ Status \/ Done
  BY <1>2, LookStep
<1>3. CASE UpSaved BY <1>3, UpStep
<1>4. CASE AttemptOk BY <1>4, AttemptOkStep
<1>5. CASE AttemptFails BY <1>5, AttemptFailsStep
<1>6. CASE Retry BY <1>6, RetryStep
<1>7. CASE Cleanup BY <1>7, CleanupStep
<1>8. CASE TimesOut BY <1>8, TimesOutStep
<1>9. CASE Forget \/ Disconnect \/ NewKey \/ Moves \/ PowerCut BY <1>9, OutsideStep
<1> QED BY <1>1, <1>2, <1>3, <1>4, <1>5, <1>6, <1>7, <1>8, <1>9 DEF Next, Call

\* The invariant always holds.
THEOREM Invariance == Spec => []IInv
BY InitInv, StepInv, PTL DEF Spec

-----------------------------------------------------------------------------
\* The variables have their types (TypeOK).
THEOREM TypeCorrect == Spec => []TypeOK
<1>1. IInv => TypeOK BY DEF IInv
<1> QED BY <1>1, Invariance, PTL

\* A call that fails leaves no profile behind that was not there (_drop_new_profiles).
THEOREM NothingHalfStaysAlways == Spec => []NothingHalfStays
<1>1. IInv => NothingHalfStays BY DEF IInv, FailInv, NothingHalfStays
<1> QED BY <1>1, Invariance, PTL

\* The right password connects, on a pinned profile that holds it, whatever profiles stand
\* in the way (connect and its one retry).
THEOREM RightPasswordAlwaysConnects == Spec => []RightPasswordConnects
<1>1. IInv => RightPasswordConnects BY DEF IInv, FailInv, OkInv, RightKey, RightPasswordConnects
<1> QED BY <1>1, Invariance, PTL

(***************************************************************************)
(* What a step deletes although it has connected, the steps that have leave*)
(* to.                                                                     *)
(***************************************************************************)
LEMMA OnlyTheseDelete ==
  ASSUME IInv, [Next]_vars, NEW n \in proven, profile'[n] = Absent
  PROVE  Forget \/ Retry \/ n \in known \ before
<1>1. TypeOK /\ n \in Saved /\ n \in Names /\ profile[n] # Absent
  BY DEF IInv, TypeOK, ProvenInv, Saved
<1>2. profile' # profile BY <1>1
<1>3. ASSUME NEW c \in Candidates, profile' = [profile EXCEPT ![c[1]] = c[2]] PROVE FALSE
  BY <1>1, <1>3, SavedGrows
<1>4. CASE UpSaved
  <2>1. PICK m \in before : Works(profile[m]) /\ Up(m, profile[m])
    BY <1>2, <1>4 DEF UpSaved
  <2> QED BY <1>1, <1>2, <2>1 DEF Up, TypeOK
<1>5. CASE AttemptOk BY <1>3, <1>5 DEF AttemptOk, Up
<1>6. CASE AttemptFails BY <1>2, <1>3, <1>6 DEF AttemptFails
<1>7. CASE TimesOut BY <1>2, <1>3, <1>7 DEF TimesOut, Up
<1>8. CASE Cleanup
  <2>1. PICK ns \in SUBSET (Saved \ before) : Delete(ns) BY <1>8 DEF Cleanup
  <2>2. n \in ns BY <1>1, <2>1 DEF Delete, TypeOK
  <2> QED BY <1>8, <2>2 DEF Cleanup, IInv, ProvenInv, Attempted
<1> QED
  BY <1>2, <1>4, <1>5, <1>6, <1>7, <1>8
  DEF Next, Call, Connect, Before, Security, Pin, Status, Done, Disconnect, NewKey, Moves,
      PowerCut, vars

\* A profile that works is deleted by the command forget, by the retry, or by a cleanup
\* after a listing that missed it, and by nothing else.
THEOREM WhatWorksIsKept == Spec => KeepsWhatWorks
<1>1. IInv /\ [Next]_vars =>
        [\A n \in proven : profile'[n] = Absent => Forget \/ Retry \/ n \in known \ before]_vars
  BY OnlyTheseDelete
<1> QED BY <1>1, Invariance, PTL DEF Spec, KeepsWhatWorks

-----------------------------------------------------------------------------
(***************************************************************************)
(* The Bluetooth service.  Its variables are its own: what it shares with  *)
(* WifiConnect is the worker, which makes one call at a time.              *)
(***************************************************************************)
USE DEF radio, link, window, buffers, work, owed, history

\* The Booleans, which are the better typed apart.
FlagsTyped ==
  /\ adv \in BOOLEAN /\ instance \in BOOLEAN /\ notifying \in BOOLEAN /\ advDirty \in BOOLEAN
  /\ windowOver \in BOOLEAN /\ windowShut \in BOOLEAN
  /\ lost \in BOOLEAN /\ unseen \in BOOLEAN /\ stuck \in BOOLEAN

LEMMA BleTypeInit == BleInit => BleTypeOK
<1> SUFFICES ASSUME BleInit PROVE BleTypeOK
  OBVIOUS
<1>1. FlagsTyped BY Zenon DEF BleInit, FlagsTyped
<1> QED BY <1>1 DEF BleInit, BleTypeOK, FlagsTyped

LEMMA BleTypeStep == BleTypeOK /\ [BleNext]_bleVars => BleTypeOK'
<1> SUFFICES ASSUME BleTypeOK, [BleNext]_bleVars PROVE BleTypeOK'
  OBVIOUS
<1> USE DEF BleTypeOK
<1>1. ASSUME NEW h \in Hosts, Connects(h) PROVE BleTypeOK'
  BY <1>1 DEF Connects
<1>2. ASSUME NEW h \in Hosts, Subscribes(h) PROVE BleTypeOK'
  BY <1>2 DEF Subscribes
<1>3. ASSUME NEW h \in Hosts, Unsubscribes(h) PROVE BleTypeOK'
  <2>1. FlagsTyped' BY <1>3, Zenon DEF Unsubscribes, FlagsTyped
  <2> QED BY <1>3, <2>1 DEF Unsubscribes, CountOut, FlagsTyped
<1>4. ASSUME NEW h \in Hosts, WritesPart(h) PROVE BleTypeOK'
  BY <1>4 DEF WritesPart
<1>5. ASSUME NEW h \in Hosts, WritesPing(h) PROVE BleTypeOK'
  BY <1>5 DEF WritesPing
<1>6. ASSUME NEW h \in Hosts, WritesCommand(h) PROVE BleTypeOK'
  BY <1>6 DEF WritesCommand, Answer
<1>7. ASSUME NEW h \in Hosts, Leaves(h) PROVE BleTypeOK'
  <2>1. FlagsTyped' BY <1>7, Zenon DEF Leaves, ResetLink, FlagsTyped
  <2> QED BY <1>7, <2>1 DEF Leaves, ResetLink, CountOut, FlagsTyped
<1>8. CASE TimePasses
  <2>1. FlagsTyped' BY <1>8, Zenon DEF TimePasses, Ages, FlagsTyped
  <2> QED BY <1>8, <2>1 DEF TimePasses, Ages, FlagsTyped
<1>9. CASE ShutWindow
  BY <1>9 DEF ShutWindow, StopAdvertising
<1>10. CASE RestartOk
  BY <1>10 DEF RestartOk
<1>11. CASE RestartFails
  BY <1>11 DEF RestartFails
<1>12. CASE DropHost
  BY <1>12 DEF DropHost, ResetLink, CountOut
<1>13. CASE AutoStatus
  BY <1>13 DEF AutoStatus
<1>14. CASE Drain
  BY <1>14 DEF Drain
<1>15. CASE WorkerTakes
  BY <1>15 DEF WorkerTakes
<1>16. CASE WorkerBusy
  BY <1>16 DEF WorkerBusy
<1>17. CASE WorkerEnds
  BY <1>17 DEF WorkerEnds, Answer
<1>18. CASE UNCHANGED bleVars
  BY <1>18 DEF bleVars
<1> QED
  BY <1>1, <1>2, <1>3, <1>4, <1>5, <1>6, <1>7, <1>8, <1>9, <1>10, <1>11, <1>12,
     <1>13, <1>14, <1>15, <1>16, <1>17, <1>18
  DEF BleNext, Host, Watchdog, Restart, Worker

\* Every variable of the service keeps its type, whatever the hosts, bluetoothd and the kernel
\* do.
THEOREM BleTypeCorrect == BleSpec => []BleTypeOK
<1> QED BY BleTypeInit, BleTypeStep, PTL DEF BleSpec

\* Bytes in the buffer are of hosts that are there, but for one that has gone unreported.
BufferInv == ~lost => rxBuf \subseteq linked

LEMMA BufferStep == BufferInv /\ [BleNext]_bleVars => BufferInv'
<1> SUFFICES ASSUME BufferInv, [BleNext]_bleVars PROVE BufferInv'
  OBVIOUS
<1> USE DEF BufferInv
<1>1. ASSUME NEW h \in Hosts, Connects(h) PROVE BufferInv'
  BY <1>1 DEF Connects
<1>2. ASSUME NEW h \in Hosts, Subscribes(h) PROVE BufferInv'
  BY <1>2 DEF Subscribes
<1>3. ASSUME NEW h \in Hosts, Unsubscribes(h) PROVE BufferInv'
  BY <1>3 DEF Unsubscribes
<1>4. ASSUME NEW h \in Hosts, WritesPart(h) PROVE BufferInv'
  BY <1>4 DEF WritesPart
<1>5. ASSUME NEW h \in Hosts, WritesPing(h) PROVE BufferInv'
  BY <1>5 DEF WritesPing
<1>6. ASSUME NEW h \in Hosts, WritesCommand(h) PROVE BufferInv'
  BY <1>6 DEF WritesCommand
<1>7. ASSUME NEW h \in Hosts, Leaves(h) PROVE BufferInv'
  BY <1>7 DEF Leaves, ResetLink
<1>8. CASE TimePasses
  BY <1>8 DEF TimePasses
<1>9. CASE ShutWindow
  BY <1>9 DEF ShutWindow
<1>10. CASE RestartOk
  BY <1>10 DEF RestartOk
<1>11. CASE RestartFails
  BY <1>11 DEF RestartFails
<1>12. CASE DropHost
  BY <1>12 DEF DropHost, ResetLink
<1>13. CASE AutoStatus
  BY <1>13 DEF AutoStatus
<1>14. CASE Drain
  BY <1>14 DEF Drain
<1>15. CASE WorkerTakes
  BY <1>15 DEF WorkerTakes
<1>16. CASE WorkerBusy
  BY <1>16 DEF WorkerBusy
<1>17. CASE WorkerEnds
  BY <1>17 DEF WorkerEnds
<1>18. CASE UNCHANGED bleVars
  BY <1>18 DEF bleVars
<1> QED
  BY <1>1, <1>2, <1>3, <1>4, <1>5, <1>6, <1>7, <1>8, <1>9, <1>10, <1>11, <1>12,
     <1>13, <1>14, <1>15, <1>16, <1>17, <1>18
  DEF BleNext, Host, Watchdog, Restart, Worker

\* No host's line is completed with half a frame of another's, however links come, go and
\* are dropped (rx_write_callback, _reset_link, tx_notify_callback).
THEOREM NothingIsHandedDown == BleSpec => NothingHandedDown
<1>1. BufferInv =>
        \A h \in Hosts : Subscribes(h) /\ linked = {h} /\ ~lost => rxBuf \subseteq {h}
  BY DEF BufferInv
<1>2. BleInit => BufferInv BY DEF BleInit, BufferInv
<1> QED BY <1>1, <1>2, BufferStep, PTL DEF BleSpec, NothingHandedDown

\* A window that was shut is over, and with it what the kernel might resume.
ShutInv ==
  /\ windowShut => windowOver
  /\ windowShut /\ ~stuck => ~instance /\ ~adv

LEMMA ShutStep == ShutInv /\ [BleNext]_bleVars => ShutInv'
<1> SUFFICES ASSUME ShutInv, [BleNext]_bleVars PROVE ShutInv'
  OBVIOUS
<1> USE DEF ShutInv
<1>1. ASSUME NEW h \in Hosts, Connects(h) PROVE ShutInv'
  BY <1>1 DEF Connects
<1>2. ASSUME NEW h \in Hosts, Subscribes(h) PROVE ShutInv'
  BY <1>2 DEF Subscribes
<1>3. ASSUME NEW h \in Hosts, Unsubscribes(h) PROVE ShutInv'
  BY <1>3 DEF Unsubscribes
<1>4. ASSUME NEW h \in Hosts, WritesPart(h) PROVE ShutInv'
  BY <1>4 DEF WritesPart
<1>5. ASSUME NEW h \in Hosts, WritesPing(h) PROVE ShutInv'
  BY <1>5 DEF WritesPing
<1>6. ASSUME NEW h \in Hosts, WritesCommand(h) PROVE ShutInv'
  BY <1>6 DEF WritesCommand
<1>7. ASSUME NEW h \in Hosts, Leaves(h) PROVE ShutInv'
  BY <1>7 DEF Leaves, ResetLink
<1>8. CASE TimePasses
  BY <1>8 DEF TimePasses, Ages
<1>9. CASE ShutWindow
  BY <1>9 DEF ShutWindow, StopAdvertising
<1>10. CASE RestartOk
  BY <1>10 DEF RestartOk
<1>11. CASE RestartFails
  BY <1>11 DEF RestartFails
<1>12. CASE DropHost
  BY <1>12 DEF DropHost, ResetLink
<1>13. CASE AutoStatus
  BY <1>13 DEF AutoStatus
<1>14. CASE Drain
  BY <1>14 DEF Drain
<1>15. CASE WorkerTakes
  BY <1>15 DEF WorkerTakes
<1>16. CASE WorkerBusy
  BY <1>16 DEF WorkerBusy
<1>17. CASE WorkerEnds
  BY <1>17 DEF WorkerEnds
<1>18. CASE UNCHANGED bleVars
  BY <1>18 DEF bleVars
<1> QED
  BY <1>1, <1>2, <1>3, <1>4, <1>5, <1>6, <1>7, <1>8, <1>9, <1>10, <1>11, <1>12,
     <1>13, <1>14, <1>15, <1>16, <1>17, <1>18
  DEF BleNext, Host, Watchdog, Restart, Worker

\* A device whose window was shut is not found again (_rx_watchdog, _restart_advertising).
THEOREM ShutForGood == BleSpec => []StaysShut
<1>1. BleInit => ShutInv BY DEF BleInit, ShutInv
<1>2. ShutInv => StaysShut BY DEF ShutInv, StaysShut
<1> QED BY <1>1, <1>2, ShutStep, PTL DEF BleSpec

\* Whoever is owed an answer has not been forgotten, so the service takes someone to be
\* subscribed; and an idle worker does nothing for anybody.
OwedInv ==
  /\ BleTypeOK
  /\ ~notifying => waiting \subseteq forgotten
  /\ worker = "idle" => job = Nobody
  /\ AnswerIsUnderWay

LEMMA OwedStep ==
  ASSUME OwedInv, BleTypeOK', [BleNext]_bleVars
  PROVE  OwedInv'
<1> USE BleAssumption DEF OwedInv, AnswerIsUnderWay, BleTypeOK
<1>1. ASSUME NEW h \in Hosts, Connects(h) PROVE OwedInv'
  BY <1>1 DEF Connects
<1>2. ASSUME NEW h \in Hosts, Subscribes(h) PROVE OwedInv'
  BY <1>2 DEF Subscribes
<1>3. ASSUME NEW h \in Hosts, Unsubscribes(h) PROVE OwedInv'
  BY <1>3 DEF Unsubscribes, CountOut
<1>4. ASSUME NEW h \in Hosts, WritesPart(h) PROVE OwedInv'
  BY <1>4 DEF WritesPart
<1>5. ASSUME NEW h \in Hosts, WritesPing(h) PROVE OwedInv'
  BY <1>5 DEF WritesPing
<1>6. ASSUME NEW h \in Hosts, WritesCommand(h) PROVE OwedInv'
  BY <1>6 DEF WritesCommand, Answer
<1>7. ASSUME NEW h \in Hosts, Leaves(h) PROVE OwedInv'
  BY <1>7 DEF Leaves, ResetLink, CountOut
<1>8. CASE TimePasses
  BY <1>8 DEF TimePasses, Ages
<1>9. CASE ShutWindow
  BY <1>9 DEF ShutWindow, StopAdvertising
<1>10. CASE RestartOk
  BY <1>10 DEF RestartOk
<1>11. CASE RestartFails
  BY <1>11 DEF RestartFails
<1>12. CASE DropHost
  BY <1>12 DEF DropHost, ResetLink, CountOut
<1>13. CASE AutoStatus
  BY <1>13 DEF AutoStatus
<1>14. CASE Drain
  BY <1>14 DEF Drain
<1>15. CASE WorkerTakes
  <2>1. ASSUME NEW h \in waiting \ forgotten, NEW i \in 1 .. Len(jobs), jobs[i] = h
        PROVE  job' = h \/ \E k \in 1 .. Len(jobs') : jobs'[k] = h
    <3>1. CASE i = 1 BY <1>15, <2>1, <3>1 DEF WorkerTakes
    <3>2. CASE i # 1
      <4>1. i - 1 \in 1 .. Len(jobs') BY <1>15, <3>2 DEF WorkerTakes
      <4>2. jobs'[i - 1] = h BY <1>15, <2>1, <3>2 DEF WorkerTakes
      <4> QED BY <4>1, <4>2
    <3> QED BY <3>1, <3>2
  <2>2. AnswerIsUnderWay'
    <3> SUFFICES ASSUME NEW h \in waiting \ forgotten
                 PROVE  h \in txQueue \/ job' = h \/ \E k \in 1 .. Len(jobs') : jobs'[k] = h
      BY <1>15 DEF WorkerTakes
    <3>1. h # job BY <1>15, BleAssumption DEF WorkerTakes
    <3> QED BY <2>1, <3>1
  <2> QED BY <1>15, <2>2 DEF WorkerTakes
<1>16. CASE WorkerBusy
  BY <1>16 DEF WorkerBusy
<1>17. CASE WorkerEnds
  BY <1>17 DEF WorkerEnds, Answer
<1>18. CASE UNCHANGED bleVars
  BY <1>18 DEF bleVars
<1> QED
  BY <1>1, <1>2, <1>3, <1>4, <1>5, <1>6, <1>7, <1>8, <1>9, <1>10, <1>11, <1>12,
     <1>13, <1>14, <1>15, <1>16, <1>17, <1>18
  DEF BleNext, Host, Watchdog, Restart, Worker

\* The answer to the command of a subscribed host is never lost on its way, however links,
\* subscriptions, refusals and jobs interleave with it, unless the service has taken the host
\* for unsubscribed since the command, of its own accord or with another host.  What
\* CommandIsAnswered adds is that the answer gets there.
THEOREM AnswerIsAlwaysUnderWay == BleSpec => []AnswerIsUnderWay
<1>1. BleInit => OwedInv BY BleTypeInit DEF BleInit, OwedInv, AnswerIsUnderWay
<1>2. OwedInv /\ BleTypeOK' /\ [BleNext]_bleVars => OwedInv' BY OwedStep
<1>3. OwedInv => AnswerIsUnderWay BY DEF OwedInv
<1> QED BY <1>1, <1>2, <1>3, BleTypeCorrect, PTL DEF BleSpec

-----------------------------------------------------------------------------
(***************************************************************************)
(* One turn of the loop in scan.  That the turns add up to Scan takes an   *)
(* induction over the rows, which is left to TLC on bounded lists.         *)
(***************************************************************************)
List == INSTANCE WifiScan WITH Esc <- "esc", Sep <- "sep"

Row == [ssid : STRING, signal : Int, secure : BOOLEAN, current : BOOLEAN]

\* What scan promises of an entry, among the rows seen.
Right(e, rows) ==
  /\ \E r \in rows : r.ssid = e.ssid /\ r.signal = e.signal /\ r.secure = e.secure
  /\ \A r \in rows : r.ssid = e.ssid => r.signal <= e.signal
  /\ e.current <=> \E r \in rows : r.ssid = e.ssid /\ r.current

\* best is what scan promises of the rows seen.
KeepsStrongest(best, seen) ==
  /\ best \subseteq Row /\ seen \subseteq Row
  /\ \A e \in best : Right(e, seen)
  /\ \A r \in seen : \E e \in best : e.ssid = r.ssid
  /\ \A d, e \in best : d.ssid = e.ssid => d = e

\* The entry of the row's network takes the place of the one it had, beside the others.
LEMMA PutBack ==
  ASSUME NEW best, NEW seen, NEW row \in Row, KeepsStrongest(best, seen),
         NEW x \in Row, x.ssid = row.ssid, Right(x, seen \cup {row})
  PROVE  KeepsStrongest({e \in best : e.ssid # row.ssid} \cup {x}, seen \cup {row})
<1> DEFINE rest == {e \in best : e.ssid # row.ssid}
           more == seen \cup {row}
<1>1. rest \cup {x} \subseteq Row /\ more \subseteq Row BY DEF KeepsStrongest
<1>2. ASSUME NEW e \in rest PROVE Right(e, more) BY DEF KeepsStrongest, Right
<1>3. \A r \in more : \E e \in rest \cup {x} : e.ssid = r.ssid BY DEF KeepsStrongest
<1>4. \A d, e \in rest \cup {x} : d.ssid = e.ssid => d = e BY DEF KeepsStrongest
<1> HIDE DEF rest, more
<1>5. \A e \in rest \cup {x} : Right(e, more) BY <1>2 DEF more
<1> QED BY <1>1, <1>3, <1>4, <1>5 DEF KeepsStrongest, rest, more

\* An empty scan keeps what it must.
LEMMA NothingSeen == KeepsStrongest({}, {})
BY DEF KeepsStrongest

\* However many channels a network is heard on and in whatever order, one more row leaves it
\* in the list once, at its strongest, with that row's security, and current if any of its
\* rows is (scan).
THEOREM OneMoreRow ==
  ASSUME NEW best, NEW seen, NEW row \in Row, KeepsStrongest(best, seen)
  PROVE  KeepsStrongest(List!Better(best, row), seen \cup {row})
<1> DEFINE old == {e \in best : e.ssid = row.ssid}
           heard == \E e \in old : e.current
           new == [row EXCEPT !.current = row.current \/ heard]
<1>1. best \subseteq Row /\ seen \subseteq Row BY DEF KeepsStrongest
<1>2. best \ old = {e \in best : e.ssid # row.ssid} OBVIOUS
<1>3. heard <=> \E r \in seen : r.ssid = row.ssid /\ r.current
  BY DEF KeepsStrongest, Right
<1>4. CASE \A e \in old : row.signal > e.signal
  <2>1. List!Better(best, row) = (best \ old) \cup {new} BY <1>4 DEF List!Better
  <2>2. new \in Row /\ new.ssid = row.ssid /\ new.signal = row.signal
        /\ new.secure = row.secure /\ new.current = (row.current \/ heard)
    BY DEF Row
  <2>3. \A r \in seen \cup {row} : r.ssid = new.ssid => r.signal <= new.signal
    <3> SUFFICES ASSUME NEW r \in seen, r.ssid = row.ssid PROVE r.signal <= row.signal
      BY <2>2 DEF Row
    <3>1. PICK e \in old : e.ssid = r.ssid BY DEF KeepsStrongest
    <3>2. r.signal <= e.signal /\ e.signal < row.signal
      BY <1>4, <3>1 DEF KeepsStrongest, Right
    <3>3. r.signal \in Int /\ e.signal \in Int /\ row.signal \in Int BY <1>1 DEF Row
    <3> QED BY <3>2, <3>3
  <2>4. Right(new, seen \cup {row}) BY <1>3, <2>2, <2>3 DEF Right
  <2> HIDE DEF old, new
  <2>5. KeepsStrongest({e \in best : e.ssid # row.ssid} \cup {new}, seen \cup {row})
    BY <2>2, <2>4, PutBack
  <2> QED BY <1>2, <2>1, <2>5
<1>5. CASE \E e \in old : row.signal <= e.signal
  <2>1. PICK e0 \in old : row.signal <= e0.signal BY <1>5
  <2> DEFINE kept == [e0 EXCEPT !.current = e0.current \/ row.current]
  <2>2. old = {e0} BY <2>1 DEF KeepsStrongest
  <2>3. row.signal \in Int /\ e0.signal \in Int /\ ~(row.signal > e0.signal)
    BY <1>1, <2>1 DEF Row
  <2>4. List!Better(best, row) = (best \ old) \cup {kept}
    BY <2>2, <2>3 DEF List!Better
  <2>5. kept \in Row /\ kept.ssid = row.ssid /\ kept.signal = e0.signal
        /\ kept.secure = e0.secure /\ kept.current = (e0.current \/ row.current)
    BY <1>1, <2>1 DEF Row
  <2>6. Right(kept, seen \cup {row})
    <3>1. Right(e0, seen) BY DEF KeepsStrongest
    <3> QED BY <2>1, <2>5, <3>1 DEF Right
  <2> HIDE DEF old, kept
  <2>7. KeepsStrongest({e \in best : e.ssid # row.ssid} \cup {kept}, seen \cup {row})
    BY <2>5, <2>6, PutBack
  <2> QED BY <1>2, <2>4, <2>7
<1>6. \A e \in old : row.signal \in Int /\ e.signal \in Int BY <1>1 DEF Row
<1> QED BY <1>4, <1>5, <1>6

=============================================================================
