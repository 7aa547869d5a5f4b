----------------------------- MODULE PanelProofs ----------------------------
(***************************************************************************)
(* Proofs about Panel: for any positions, addresses and reasons, and with  *)
(* any of the cases of Faults, no wake-up of the panel's thread is lost.   *)
(***************************************************************************)
EXTENDS Panel, TLAPS

(***************************************************************************)
(* A change that the panel's thread has still to be told of, or has been   *)
(* told of since it last cleared the event.  It is going to be told of a   *)
(* new address only while the recorder polls.                              *)
(***************************************************************************)
Pending == wake \/ rpc # "loop" \/ (Polling /\ noted # ip)

\* The thread has read the state, and has not begun to read it anew.
Drawing == pc \in {"copy", "draw", "schedule", "wait"}

(***************************************************************************)
(* The status being drawn is that of the device, as far as it can be       *)
(* without a change, except that the recording may have grown old.         *)
(***************************************************************************)
SeenIsNow ==
  /\ seen.state = state
  /\ seen.position = position
  /\ pc \in {"draw", "schedule"} =>
       /\ seen.issue = issue
       /\ seen.ip = ip
       /\ seen.booting = booting
       /\ seen.mature => mature

(***************************************************************************)
(* The frame on the panel is right, and if time alone can make it wrong,   *)
(* the deadline for that is the one that is waited for.                    *)
(***************************************************************************)
GlassIsTruth ==
  /\ glass = Truth
  /\ booting => timer = "splash"
  /\ Truth.screen = "record" => timer = "handover"

(***************************************************************************)
(* The inductive invariant, beside the types.                              *)
(***************************************************************************)
AssignIsTold == Drawing /\ rpc = "assign" => wake \/ excused

SeenShape ==
  /\ pc = "copy" => seen \in [state : States, position : Positions]
  /\ pc \in {"draw", "schedule"} => seen \in Status

SeenInv ==
  pc \in {"copy", "draw", "schedule"} /\ ~Pending /\ ~excused => SeenIsNow

DrawnInv ==
  pc = "schedule" /\ retry = "unset" /\ glass = last => glass = Render(seen)

GlassInv ==
  pc = "wait" /\ ~Pending /\ ~Explained /\ retry = "unset" =>
    GlassIsTruth \/ TimerFires

IInv ==
  /\ TypeOK
  /\ AssignIsTold
  /\ SeenShape
  /\ SeenInv
  /\ DrawnInv
  /\ GlassInv

-----------------------------------------------------------------------------
(* The types. *)

Typed == TypeOK /\ SeenShape

(* What pick_screen and render give. *)
LEMMA ScreenType ==
  ASSUME NEW s PROVE PickScreen(s) \in Screens
  BY DEF PickScreen, Screens

LEMMA FrameType ==
  ASSUME NEW s \in Status PROVE Render(s) \in Frames
  BY ScreenType DEF Render, Frames, Status

LEMMA NowType == TypeOK => Now \in Status
  BY DEF TypeOK, Now, Status

(* The recorder's thread, the web and the clock keep the types. *)
LEMMA WorldTyped ==
  ASSUME Typed, Change \/ Finish \/ Passes
  PROVE  Typed'
<1> USE PanelAssumption DEF Typed, TypeOK, SeenShape, recorder, world, panel
<1>1. CASE \E s \in States : SetState(s)
  BY <1>1 DEF SetState
<1>2. CASE \E i \in Issues : SensorChanges(i)
  BY <1>2 DEF SensorChanges
<1>3. CASE \E p \in Positions : SaveSettings(p)
  BY <1>3 DEF SaveSettings
<1>4. CASE \E a \in Addresses : AddressChanges(a)
  BY <1>4 DEF AddressChanges
<1>5. CASE Assign
  <2>1. mature' \in BOOLEAN
    BY <1>5, Zenon DEF Assign
  <2> QED
    BY <1>5, <2>1 DEF Assign, States
<1>6. CASE RefreshNow
  BY <1>6 DEF RefreshNow
<1>7. CASE NoteAddress
  BY <1>7 DEF NoteAddress
<1>8. CASE SplashEnds
  <2>1. booting' \in BOOLEAN
    BY <1>8, Zenon DEF SplashEnds
  <2> QED
    BY <1>8, <2>1 DEF SplashEnds
<1>9. CASE Matures
  BY <1>9 DEF Matures
<1>10. CASE RetryDue
  BY <1>10 DEF RetryDue
<1> QED
  BY <1>1, <1>2, <1>3, <1>4, <1>5, <1>6, <1>7, <1>8, <1>9, <1>10
  DEF Change, Finish, Passes

(* So does the panel's thread. *)
LEMMA PanelTyped ==
  ASSUME Typed, Draw \/ Sleep
  PROVE  Typed'
<1> USE DEF Typed, TypeOK, SeenShape, recorder, world
<1>1. CASE ReadState
  BY <1>1 DEF ReadState
<1>2. CASE ReadRest
  <2>1. seen \in [state : States, position : Positions]
    BY <1>2 DEF ReadRest
  <2>2. seen' \in Status
    BY <1>2, <2>1, NowType DEF ReadRest, Status
  <2> QED
    BY <1>2, <2>2 DEF ReadRest
<1>3. CASE TooSoon
  BY <1>3 DEF TooSoon
<1>4. CASE SameFrame
  BY <1>4 DEF SameFrame
<1>5. CASE PushOk
  <2>1. Render(seen) \in Frames
    BY <1>5, FrameType DEF PushOk
  <2> QED
    BY <1>5, <2>1 DEF PushOk
<1>6. CASE PushFails
  <2>1. Render(seen) \in Frames
    BY <1>6, FrameType DEF PushFails
  <2> QED
    BY <1>6, <2>1 DEF PushFails
<1>7. CASE Schedule
  BY <1>7 DEF Schedule, ScreenWait
<1>8. CASE Wakes
  BY <1>8 DEF Wakes
<1>9. CASE Clear
  BY <1>9 DEF Clear
<1> QED
  BY <1>1, <1>2, <1>3, <1>4, <1>5, <1>6, <1>7, <1>8, <1>9 DEF Draw, Sleep

LEMMA InitTyped == Init => Typed
  BY PanelAssumption DEF Init, Typed, TypeOK, SeenShape, States, Issues

LEMMA TypedStep ==
  ASSUME Typed, [Next]_vars
  PROVE  Typed'
<1>1. CASE UNCHANGED vars
  BY <1>1 DEF Typed, TypeOK, SeenShape, vars, recorder, world, panel
<1> QED
  BY <1>1, WorldTyped, PanelTyped DEF Next

(***************************************************************************)
(* Every variable of the panel and of what it draws keeps its type.        *)
(***************************************************************************)
THEOREM TypeCorrect == Spec => []TypeOK
<1>1. Init => Typed
  BY InitTyped
<1>2. Typed /\ [Next]_vars => Typed'
  BY TypedStep
<1>3. Typed => TypeOK
  BY DEF Typed
<1> QED
  BY <1>1, <1>2, <1>3, PTL DEF Spec

-----------------------------------------------------------------------------
(* The conjuncts of the invariant, one by one. *)

LEMMA AssignIsToldStep ==
  ASSUME IInv, [Next]_vars
  PROVE  AssignIsTold'
<1> USE DEF IInv, TypeOK, AssignIsTold, Drawing, recorder, world, panel
<1>1. CASE Change
  BY <1>1 DEF Change, SetState, SensorChanges, SaveSettings, AddressChanges
<1>2. CASE Finish
  BY <1>2 DEF Finish, Assign, RefreshNow, NoteAddress
<1>3. CASE Passes
  BY <1>3 DEF Passes, SplashEnds, Matures, RetryDue
<1>4. CASE Draw
  BY <1>4 DEF Draw, ReadState, ReadRest, TooSoon, SameFrame, PushOk, PushFails
<1>5. CASE Sleep
  BY <1>5 DEF Sleep, Schedule, Wakes, Clear
<1>6. CASE UNCHANGED vars
  BY <1>6 DEF vars
<1> QED
  BY <1>1, <1>2, <1>3, <1>4, <1>5, <1>6 DEF Next

LEMMA DrawnStep ==
  ASSUME IInv, [Next]_vars
  PROVE  DrawnInv'
<1> USE DEF IInv, TypeOK, DrawnInv, recorder, world, panel
<1>1. CASE Change
  BY <1>1 DEF Change, SetState, SensorChanges, SaveSettings, AddressChanges,
              Render, PickScreen
<1>2. CASE Finish
  BY <1>2 DEF Finish, Assign, RefreshNow, NoteAddress, Render, PickScreen
<1>3. CASE Passes
  BY <1>3 DEF Passes, SplashEnds, Matures, RetryDue, Render, PickScreen
<1>4. CASE Draw
  BY <1>4 DEF Draw, ReadState, ReadRest, TooSoon, SameFrame, PushOk, PushFails,
              Render, PickScreen
<1>5. CASE Sleep
  BY <1>5 DEF Sleep, Schedule, Wakes, Clear
<1>6. CASE UNCHANGED vars
  BY <1>6 DEF vars, Render, PickScreen
<1> QED
  BY <1>1, <1>2, <1>3, <1>4, <1>5, <1>6 DEF Next

LEMMA SeenStep ==
  ASSUME IInv, [Next]_vars
  PROVE  SeenInv'
<1> USE DEF IInv, TypeOK, SeenInv, SeenIsNow, Pending, Polling, recorder, world, panel
<1>1. CASE Change
  BY <1>1 DEF Change, SetState, SensorChanges, SaveSettings, AddressChanges
<1>2. CASE Assign
  <2>1. pc \in {"copy", "draw", "schedule"} => wake \/ excused
    BY <1>2 DEF Assign, AssignIsTold, Drawing
  <2> QED
    BY <1>2, <2>1 DEF Assign
<1>3. CASE RefreshNow \/ NoteAddress
  BY <1>3 DEF RefreshNow, NoteAddress
<1>4. CASE SplashEnds
  BY <1>4 DEF SplashEnds
<1>5. CASE Matures \/ RetryDue
  BY <1>5 DEF Matures, RetryDue
<1>6. CASE ReadState
  BY <1>6 DEF ReadState
<1>7. CASE ReadRest
  <2>1. seen \in [state : States, position : Positions]
    BY <1>7 DEF ReadRest, SeenShape
  <2> QED
    BY <1>7, <2>1 DEF ReadRest, Now
<1>8. CASE TooSoon \/ SameFrame \/ PushOk \/ PushFails
  BY <1>8 DEF TooSoon, SameFrame, PushOk, PushFails
<1>9. CASE Sleep
  BY <1>9 DEF Sleep, Schedule, Wakes, Clear
<1>10. CASE UNCHANGED vars
  BY <1>10 DEF vars
<1> QED
  BY <1>1, <1>2, <1>3, <1>4, <1>5, <1>6, <1>7, <1>8, <1>9, <1>10
  DEF Next, Finish, Passes, Draw

(***************************************************************************)
(* The end of a drawing: the frame that was drawn is the truth, or it is   *)
(* the frame of a new recording whose deadline has passed.                 *)
(***************************************************************************)
LEMMA ScheduleStep ==
  ASSUME IInv, Schedule
  PROVE  GlassInv'
<1> SUFFICES ASSUME (~Pending)', (~Explained)', retry' = "unset"
             PROVE  GlassIsTruth' \/ TimerFires'
  BY DEF GlassInv
<1>1. SeenIsNow /\ glass = Render(seen)
  BY DEF IInv, SeenInv, DrawnInv, Pending, Polling, Explained, Schedule, recorder, world
<1>2. /\ seen.state = state /\ seen.position = position
      /\ seen.issue = issue /\ seen.ip = ip /\ seen.booting = booting
      /\ seen.mature => mature
  BY <1>1 DEF SeenIsNow, Schedule
<1>3. seen.mature \in BOOLEAN /\ mature \in BOOLEAN /\ booting \in BOOLEAN
      /\ state \in States
  BY DEF IInv, TypeOK, SeenShape, Schedule, Status
<1>4. Truth' = Truth /\ glass' = glass /\ booting' = booting /\ mature' = mature
      /\ state' = state
  BY DEF Schedule, Truth, Now, Render, PickScreen, recorder, world
<1>5. timer' = ScreenWait(seen)
  BY DEF Schedule
<1>6. CASE PickScreen(seen) = PickScreen(Now)
  <2>1. glass = Truth
    BY <1>1, <1>2, <1>6 DEF Truth, Render, Now
  <2>2. booting => timer' = "splash"
    BY <1>5 DEF ScreenWait
  <2>3. Truth.screen = "record" => timer' = "handover"
    BY <1>2, <1>3, <1>5, <1>6 DEF ScreenWait, Truth, Render, Now, PickScreen
  <2> QED
    BY <1>4, <2>1, <2>2, <2>3 DEF GlassIsTruth
<1>7. CASE PickScreen(seen) # PickScreen(Now)
  <2>1. PickScreen(seen) = "record" /\ mature /\ ~booting
    BY <1>2, <1>3, <1>7 DEF PickScreen, Now
  <2>2. timer' = "handover"
    BY <1>5, <2>1 DEF ScreenWait
  <2> QED
    BY <1>4, <2>1, <2>2 DEF TimerFires
<1> QED
  BY <1>6, <1>7

(***************************************************************************)
(* While the panel's thread waits, whatever makes the frame wrong is       *)
(* pending, is one of the cases of Faults, or makes the deadline due.      *)
(***************************************************************************)
LEMMA GlassStep ==
  ASSUME IInv, [Next]_vars
  PROVE  GlassInv'
<1> USE DEF IInv, TypeOK, Polling, recorder, world, panel
<1>1. CASE Change
  <2>1. CASE \E s \in States : SetState(s)
    BY <2>1 DEF SetState, GlassInv, Pending
  <2>2. CASE \E i \in Issues : SensorChanges(i)
    BY <2>2 DEF SensorChanges, GlassInv, Pending
  <2>3. CASE \E p \in Positions : SaveSettings(p)
    BY <2>3 DEF SaveSettings, GlassInv, Pending, Explained
  <2>4. CASE \E a \in Addresses : AddressChanges(a)
    BY <2>4 DEF AddressChanges, GlassInv, Pending, Explained
  <2> QED
    BY <1>1, <2>1, <2>2, <2>3, <2>4 DEF Change
<1>2. CASE Assign
  <2>1. pc = "wait" => wake \/ excused
    BY <1>2 DEF Assign, AssignIsTold, Drawing
  <2> QED
    BY <1>2, <2>1 DEF Assign, GlassInv, Pending, Explained
<1>3. CASE RefreshNow \/ NoteAddress
  BY <1>3 DEF RefreshNow, NoteAddress, GlassInv, Pending
<1>4. CASE SplashEnds
  <2> SUFFICES ASSUME pc' = "wait", (~Pending)', (~Explained)', retry' = "unset"
               PROVE  TimerFires'
    BY DEF GlassInv
  <2>1. pc = "wait" /\ booting /\ ~booting'
    BY <1>4 DEF SplashEnds
  <2>2. GlassIsTruth \/ TimerFires
    BY <1>4, <2>1 DEF SplashEnds, GlassInv, Pending, Explained
  <2>3. CASE TimerFires
    BY <1>4, <2>3 DEF SplashEnds, TimerFires
  <2>4. CASE GlassIsTruth
    BY <1>4, <2>1, <2>4 DEF SplashEnds, TimerFires, GlassIsTruth
  <2> QED
    BY <2>2, <2>3, <2>4
<1>5. CASE Matures
  <2> SUFFICES ASSUME pc' = "wait", (~Pending)', (~Explained)', retry' = "unset"
               PROVE  GlassIsTruth' \/ TimerFires'
    BY DEF GlassInv
  <2>1. GlassIsTruth \/ TimerFires
    BY <1>5 DEF Matures, GlassInv, Pending, Explained
  <2>2. mature' /\ state' = state /\ booting' = booting /\ timer' = timer
    BY <1>5 DEF Matures
  <2>3. CASE TimerFires
    BY <1>5, <2>2, <2>3 DEF Matures, TimerFires
  <2>4. CASE GlassIsTruth /\ Truth.screen = "record"
    BY <2>2, <2>4 DEF GlassIsTruth, TimerFires
  <2>5. CASE GlassIsTruth /\ Truth.screen # "record"
    <3>1. Truth' = Truth
      BY <1>5, <2>5 DEF Matures, Truth, Render, PickScreen, Now
    <3> QED
      BY <1>5, <2>5, <3>1 DEF Matures, GlassIsTruth
  <2> QED
    BY <2>1, <2>3, <2>4, <2>5
<1>6. CASE RetryDue
  BY <1>6 DEF RetryDue, GlassInv
<1>7. CASE Draw
  BY <1>7 DEF Draw, ReadState, ReadRest, TooSoon, SameFrame, PushOk, PushFails,
              GlassInv
<1>8. CASE Schedule
  BY <1>8, ScheduleStep
<1>9. CASE Wakes \/ Clear
  BY <1>9 DEF Wakes, Clear, GlassInv
<1>10. CASE UNCHANGED vars
  BY <1>10 DEF vars, GlassInv, GlassIsTruth, TimerFires, Pending, Explained,
               Truth, Render, PickScreen, Now
<1> QED
  BY <1>1, <1>2, <1>3, <1>4, <1>5, <1>6, <1>7, <1>8, <1>9, <1>10
  DEF Next, Finish, Passes, Sleep

(***************************************************************************)
(* No wake-up that is sent is lost: for any constants and with any of the  *)
(* six cases, a panel that sleeps with nothing going to wake it shows what *)
(* is the case, unless it met one of those cases since its latest snapshot *)
(* was begun or its last push failed half-way.  An address that changes    *)
(* while nothing polls, in maintenance or after an error, is one of them:  *)
(* nothing looks at it, and so no wake-up is sent.                         *)
(***************************************************************************)
THEOREM StaleIsAlwaysExplained == Spec => []StaleIsExplained
<1>1. Init => IInv
  <2>1. Init => Typed
    BY InitTyped
  <2> QED
    BY <2>1 DEF Init, IInv, Typed, AssignIsTold, Drawing, SeenInv, DrawnInv,
                GlassInv
<1>2. IInv /\ [Next]_vars => IInv'
  <2> SUFFICES ASSUME IInv, [Next]_vars PROVE IInv'
    OBVIOUS
  <2>1. Typed'
    BY TypedStep DEF IInv, Typed
  <2> QED
    BY <2>1, AssignIsToldStep, SeenStep, DrawnStep, GlassStep DEF IInv, Typed
<1>3. IInv => StaleIsExplained
  BY DEF IInv, GlassInv, StaleIsExplained, Asleep, Settled, Pending, GlassIsTruth
<1> QED
  BY <1>1, <1>2, <1>3, PTL DEF Spec

(***************************************************************************)
(* A panel that sleeps with nothing going to wake it shows what is the     *)
(* case.                                                                   *)
(***************************************************************************)
NeverStale == Asleep /\ Settled => glass = Truth

NothingExcused == ~excused /\ glass = last

LEMMA NothingExcusedStep ==
  ASSUME Faults = {}, NothingExcused, [Next]_vars
  PROVE  NothingExcused'
<1> USE DEF NothingExcused, recorder, world, panel
<1>1. CASE Change
  <2>1. glass' = last' BY <1>1 DEF Change, SetState, SensorChanges, SaveSettings, AddressChanges
  <2>2. ~excused'
    BY <1>1, Zenon DEF Change, SetState, SensorChanges, SaveSettings, AddressChanges
  <2> QED BY <2>1, <2>2
<1>2. CASE Finish
  BY <1>2 DEF Finish, Assign, RefreshNow, NoteAddress
<1>3. CASE Passes
  <2>1. glass' = last' BY <1>3 DEF Passes, SplashEnds, Matures, RetryDue
  <2>2. ~excused' BY <1>3, Zenon DEF Passes, SplashEnds, Matures, RetryDue
  <2> QED BY <2>1, <2>2
<1>4. CASE Draw
  <2>1. glass' = last'
    BY <1>4 DEF Draw, ReadState, ReadRest, TooSoon, SameFrame, PushFails, PushOk
  <2>2. ~excused'
    BY <1>4, Zenon DEF Draw, ReadState, ReadRest, TooSoon, SameFrame, PushFails, PushOk
  <2> QED BY <2>1, <2>2
<1>5. CASE Sleep
  BY <1>5 DEF Sleep, Schedule, Wakes, Clear
<1>6. CASE UNCHANGED vars
  BY <1>6 DEF vars
<1> QED
  BY <1>1, <1>2, <1>3, <1>4, <1>5, <1>6 DEF Next

(***************************************************************************)
(* Without the six cases that is always so, however the two threads        *)
(* interleave and whichever pushes fail cleanly: the six are all that can  *)
(* leave the panel wrong (PanelThread, refresh_now, _note_address).        *)
(***************************************************************************)
THEOREM OnlyTheseCases ==
  ASSUME Faults = {}
  PROVE  Spec => []NeverStale
<1>1. Init => NothingExcused
  BY DEF Init, NothingExcused
<1>2. NothingExcused /\ [Next]_vars => NothingExcused'
  BY NothingExcusedStep
<1>3. NothingExcused /\ StaleIsExplained => NeverStale
  BY DEF NothingExcused, StaleIsExplained, Explained, NeverStale
<1> QED
  BY <1>1, <1>2, <1>3, StaleIsAlwaysExplained, PTL DEF Spec

=============================================================================
