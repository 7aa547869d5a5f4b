------------------------------- MODULE Panel --------------------------------
(***************************************************************************)
(* The e-paper panel of a device: the thread of eink_panel.py that draws   *)
(* it, and the threads that change what it should show.                    *)
(*                                                                         *)
(* The panel thread sleeps on an event.  The recorder's thread changes its *)
(* state, the sensor's condition and the address it has noted, and calls   *)
(* refresh_now(), which sets the event; a web thread may change the        *)
(* position of the device in the settings; and time ends the boot frame    *)
(* and the frame that says a recording has begun.  A drawing reads a       *)
(* snapshot, compares the frame with the last one pushed, and pushes it,   *)
(* which takes seconds and may fail.                                       *)
(***************************************************************************)
EXTENDS Naturals

CONSTANTS Positions,   \* of the device on the crane, in the settings
          Addresses,   \* its network addresses
          NoAddress,   \* one of them, for no network
          Reasons,     \* why there are no measurements, when there are none
          Faults       \* which of the cases below can happen

(***************************************************************************)
(* "preempt": the panel's thread takes its snapshot between refresh_now()  *)
(*   and the assignment of the new state.                                  *)
(* "settings": the position is changed on the settings page also when the  *)
(*   recorder has no change of its own to tell the panel of.               *)
(* "flap": the address changes again before the recorder has looked.       *)
(* "idle": the address changes in maintenance or after an error, when the  *)
(*   recorder does not look at it any more.                                *)
(* "splash": the ten seconds of the boot frame end during a drawing.       *)
(* "halfway": a push that fails has changed what the panel shows.          *)
(***************************************************************************)
AllFaults == {"preempt", "settings", "flap", "idle", "splash", "halfway"}

ASSUME PanelAssumption ==
  /\ Faults \subseteq AllFaults
  /\ NoAddress \in Addresses
  /\ "none" \notin Reasons

VARIABLES
  state,      \* Recorder.state
  issue,      \* Status.sensor_issue
  position,   \* sensor_flag of the settings
  ip,         \* the address of the device
  noted,      \* Recorder._panel_ip
  rpc,        \* the recorder's thread: in its loop, or within a change
  next,       \* the argument of _set_state
  booting,    \* less than BOOT_SPLASH_S since the start
  mature,     \* the recording is MEASURE_AFTER_S old
  pc,         \* the panel's thread
  wake,       \* PanelThread._wake
  retry,      \* _retry_at: not set, in the future, or past
  seen,       \* the status that _status returned, until the wait is known
  timer,      \* what _screen_wait waits for, besides the event
  last,       \* _last_frame
  glass,      \* what the panel shows
  excused     \* one of the cases has happened since the latest snapshot was begun

recorder == <<state, issue, noted, rpc, next>>
world == <<position, ip, booting>>
panel == <<pc, retry, seen, timer, last, glass>>
vars == <<recorder, world, panel, mature, wake, excused>>

States == {"waiting", "recording", "maintenance", "error"}
Issues == Reasons \cup {"none"}
Screens == {"boot", "install", "record", "measure", "brand", "sensor", "error"}

Status == [state : States, issue : Issues, position : Positions, ip : Addresses,
           booting : BOOLEAN, mature : BOOLEAN]
Blank == [screen |-> "unknown"]
Frames == [screen : Screens, position : Positions, ip : Addresses]

-----------------------------------------------------------------------------
(* What to draw, and how long to wait after it. *)

PickScreen(s) ==
  IF s.state = "error" THEN "error"
  ELSE IF s.booting THEN "boot"
  ELSE IF s.issue # "none" /\ s.state # "maintenance" THEN "sensor"
  ELSE IF s.state = "maintenance" THEN "brand"
  ELSE IF s.state = "waiting" THEN "install"
  ELSE IF s.mature THEN "measure" ELSE "record"

(***************************************************************************)
(* render(): every screen has the position in its title and the address in *)
(* its footer.  The numbers of the measurement are left out.               *)
(***************************************************************************)
Render(s) ==
  [screen |-> PickScreen(s), position |-> s.position, ip |-> s.ip]

\* Mutant: the measurement is drawn once.
ScreenWait_NoRepeat(s) ==
  IF booting THEN "splash"
  ELSE IF PickScreen(s) = "record" THEN "handover"
  ELSE "event"

\* Mutant: nothing waits for the reading to take over.
ScreenWait_NoHandover(s) ==
  IF booting THEN "splash"
  ELSE IF PickScreen(s) = "measure" THEN "period"
  ELSE "event"

(***************************************************************************)
(* _screen_wait: the end of the boot frame, the handover from the frame of *)
(* a new recording to its reading, the period of the reading, or the event *)
(* alone.                                                                  *)
(***************************************************************************)
ScreenWait(s) ==
  CASE booting -> "splash"
    [] ~booting /\ PickScreen(s) = "record" -> "handover"
    [] ~booting /\ PickScreen(s) = "measure" -> "period"
    [] OTHER -> "event"

(***************************************************************************)
(* What the device is doing at this moment, and so what the panel should   *)
(* say.                                                                    *)
(***************************************************************************)
Now == [state |-> state, issue |-> issue, position |-> position, ip |-> ip,
        booting |-> booting, mature |-> mature]

Truth == Render(Now)

-----------------------------------------------------------------------------

Init ==
  /\ state = "waiting"
  /\ issue = "none"
  /\ position \in Positions
  /\ ip \in Addresses
  /\ noted = NoAddress
  /\ rpc = "loop"
  /\ next = "waiting"
  /\ booting = TRUE
  /\ mature = FALSE
  /\ pc = "read"
  /\ wake = FALSE
  /\ retry = "unset"
  /\ seen = Blank
  /\ timer = "event"
  /\ last = Blank
  /\ glass = Blank
  /\ excused = FALSE

-----------------------------------------------------------------------------
(* The recorder's thread. *)

(***************************************************************************)
(* _tick returns before _poll_once in maintenance and after an error, and  *)
(* with it goes everything that _poll_once does.                           *)
(***************************************************************************)
Polling == state \in {"waiting", "recording"}

(***************************************************************************)
(* _set_state calls refresh_now() and then assigns.  Recorder says which   *)
(* state follows which; here any may, except that maintenance and error    *)
(* last (ErrorStays and MeasurementIsKept of RecorderProofs).              *)
(***************************************************************************)
SetState(s) ==
  /\ rpc = "loop"
  /\ s # state /\ Polling
  /\ wake' = TRUE
  /\ next' = s
  /\ rpc' = "assign"
  /\ UNCHANGED <<state, issue, noted, world, panel, mature, excused>>

Assign ==
  /\ rpc = "assign"
  /\ state' = next
  /\ mature' = FALSE
  /\ rpc' = "loop"
  /\ next' = "waiting"
  /\ UNCHANGED <<issue, noted, world, panel, wake, excused>>

(***************************************************************************)
(* _sensor_read_failed and the end of _poll_once: the status first, then   *)
(* refresh_now(), if the reason has changed.  A poll whose own block ended *)
(* the recording still goes on to its end.                                 *)
(***************************************************************************)
\* Mutant: only the first failure of the sensor is news.
SensorChanges_FirstOnly(i) ==
  /\ rpc = "loop"
  /\ i # issue /\ (Polling \/ i = "none")
  /\ issue' = i
  /\ rpc' = IF issue = "none" THEN "refresh" ELSE "loop"
  /\ UNCHANGED <<state, noted, next, world, panel, mature, wake, excused>>

SensorChanges(i) ==
  /\ rpc = "loop"
  /\ i # issue /\ (Polling \/ i = "none")
  /\ issue' = i
  /\ rpc' = "refresh"
  /\ UNCHANGED <<state, noted, next, world, panel, mature, wake, excused>>

(***************************************************************************)
(* _note_address, called from _poll_once alone, looks every ten seconds    *)
(* whether the address is the one it saw last.                             *)
(***************************************************************************)
NoteAddress ==
  /\ rpc = "loop" /\ Polling
  /\ ip # noted
  /\ noted' = ip
  /\ rpc' = "refresh"
  /\ UNCHANGED <<state, issue, next, world, panel, mature, wake, excused>>

RefreshNow ==
  /\ rpc = "refresh"
  /\ wake' = TRUE
  /\ rpc' = "loop"
  /\ UNCHANGED <<state, issue, noted, next, world, panel, mature, excused>>

-----------------------------------------------------------------------------
(* The web thread, the network and time. *)

(***************************************************************************)
(* save_settings: cfg.update(staged), and nothing else.                    *)
(***************************************************************************)
SaveSettings(p) ==
  /\ "settings" \in Faults \/ rpc # "loop"
  /\ p # position
  /\ position' = p
  /\ excused' = (excused \/ rpc = "loop")
  /\ UNCHANGED <<recorder, ip, booting, panel, mature, wake>>

AddressChanges(a) ==
  /\ a # ip
  /\ IF Polling THEN "flap" \in Faults \/ noted = ip ELSE "idle" \in Faults
  /\ ip' = a
  /\ excused' = (excused \/ noted # ip \/ ~Polling)
  /\ UNCHANGED <<recorder, position, booting, panel, mature, wake>>

SplashEnds ==
  /\ booting
  /\ "splash" \in Faults \/ pc = "wait"
  /\ booting' = FALSE
  /\ excused' = (excused \/ pc # "wait")
  /\ UNCHANGED <<recorder, position, ip, panel, mature, wake>>

Matures ==
  /\ state = "recording"
  /\ ~mature
  /\ mature' = TRUE
  /\ UNCHANGED <<recorder, world, panel, wake, excused>>

RetryDue ==
  /\ retry = "later"
  /\ retry' = "due"
  /\ UNCHANGED <<recorder, world, pc, seen, timer, last, glass, mature, wake, excused>>

-----------------------------------------------------------------------------
(* The panel's thread. *)

(***************************************************************************)
(* _status: Recorder.snapshot reads the state and the position, copies the *)
(* rest, and then the address and the time are read.                       *)
(***************************************************************************)
ReadState ==
  /\ pc = "read"
  /\ rpc = "assign" => "preempt" \in Faults
  /\ seen' = [state |-> state, position |-> position]
  /\ pc' = "copy"
  /\ excused' = (rpc = "assign")
  /\ UNCHANGED <<recorder, world, retry, timer, last, glass, mature, wake>>

ReadRest ==
  /\ pc = "copy"
  /\ seen' = [Now EXCEPT !.state = seen.state, !.position = seen.position]
  /\ pc' = "draw"
  /\ UNCHANGED <<recorder, world, retry, timer, last, glass, mature, wake, excused>>

(***************************************************************************)
(* _draw: nothing while a failed push waits for its retry; nothing either  *)
(* when the frame is the last one that was pushed.                         *)
(***************************************************************************)
TooSoon ==
  /\ pc = "draw"
  /\ retry = "later"
  /\ pc' = "schedule"
  /\ UNCHANGED <<recorder, world, retry, seen, timer, last, glass, mature, wake, excused>>

SameFrame ==
  /\ pc = "draw"
  /\ retry # "later"
  /\ Render(seen) = last
  /\ retry' = "unset"
  /\ pc' = "schedule"
  /\ UNCHANGED <<recorder, world, seen, timer, last, glass, mature, wake, excused>>

PushOk ==
  /\ pc = "draw"
  /\ retry # "later"
  /\ Render(seen) # last
  /\ last' = Render(seen)
  /\ glass' = last'
  /\ retry' = "unset"
  /\ pc' = "schedule"
  /\ UNCHANGED <<recorder, world, seen, timer, mature, wake, excused>>

PushFails ==
  /\ pc = "draw"
  /\ retry # "later"
  /\ Render(seen) # last
  /\ glass' \in {glass} \cup (IF "halfway" \in Faults THEN {Render(seen)} ELSE {})
  /\ retry' = "later"
  /\ pc' = "schedule"
  /\ UNCHANGED <<recorder, world, seen, timer, last, mature, wake, excused>>

Schedule ==
  /\ pc = "schedule"
  /\ timer' = ScreenWait(seen)
  /\ seen' = Blank
  /\ pc' = "wait"
  /\ UNCHANGED <<recorder, world, retry, last, glass, mature, wake, excused>>

(***************************************************************************)
(* _wake.wait returns for the event or for a deadline, and the event is    *)
(* then cleared.                                                           *)
(***************************************************************************)
TimerFires ==
  \/ timer = "splash" /\ ~booting
  \/ timer = "handover" /\ (mature \/ state # "recording")
  \/ timer = "period"
  \/ retry = "due"

Wakes ==
  /\ pc = "wait"
  /\ wake \/ TimerFires
  /\ pc' = "clear"
  /\ UNCHANGED <<recorder, world, retry, seen, timer, last, glass, mature, wake, excused>>

Clear ==
  /\ pc = "clear"
  /\ wake' = FALSE
  /\ pc' = "read"
  /\ timer' = "event"
  /\ UNCHANGED <<recorder, world, retry, seen, last, glass, mature, excused>>

-----------------------------------------------------------------------------

Change ==
  \/ \E s \in States : SetState(s)
  \/ \E i \in Issues : SensorChanges(i)
  \/ \E p \in Positions : SaveSettings(p)
  \/ \E a \in Addresses : AddressChanges(a)

Finish == Assign \/ RefreshNow \/ NoteAddress

Passes == SplashEnds \/ Matures \/ RetryDue

Draw == ReadState \/ ReadRest \/ TooSoon \/ SameFrame \/ PushFails \/ PushOk

Sleep == Schedule \/ Wakes \/ Clear

Next == Change \/ Finish \/ Passes \/ Draw \/ Sleep

Spec == Init /\ [][Next]_vars

(***************************************************************************)
(* Both threads are scheduled, time passes, and of the pushes tried again  *)
(* and again one succeeds.  Nobody has to change anything.  The recorder   *)
(* looks at the address as long as it polls.                               *)
(***************************************************************************)
Fairness ==
  /\ WF_vars(Assign \/ RefreshNow)
  /\ WF_vars(NoteAddress)
  /\ WF_vars(SplashEnds) /\ WF_vars(Matures) /\ WF_vars(RetryDue)
  /\ WF_vars(Draw \/ Sleep)
  /\ SF_vars(PushOk)

FairSpec == Spec /\ Fairness

-----------------------------------------------------------------------------

TypeOK ==
  /\ state \in States
  /\ issue \in Issues
  /\ position \in Positions
  /\ ip \in Addresses
  /\ noted \in Addresses
  /\ rpc \in {"loop", "assign", "refresh"}
  /\ next \in States
  /\ booting \in BOOLEAN
  /\ mature \in BOOLEAN
  /\ pc \in {"read", "copy", "draw", "schedule", "wait", "clear"}
  /\ wake \in BOOLEAN
  /\ retry \in {"unset", "later", "due"}
  /\ seen \in Status \cup [state : States, position : Positions] \cup {Blank}
  /\ timer \in {"splash", "handover", "period", "event"}
  /\ last \in Frames \cup {Blank}
  /\ glass \in Frames \cup {Blank}
  /\ excused \in BOOLEAN

(***************************************************************************)
(* A panel that sleeps, with nothing that has happened going to wake it,   *)
(* on a frame that is out of date has met one of the six cases since its   *)
(* latest snapshot was begun, or has a frame on it whose push failed       *)
(* half-way.  So nothing else goes wrong, and the next event repairs what  *)
(* did -- if there is one: after "idle" there may be none until the device *)
(* is started again.  An address that changed is going to wake the panel   *)
(* only while the recorder polls.                                          *)
(***************************************************************************)
Asleep == pc = "wait" /\ ~wake /\ ~TimerFires /\ retry = "unset"
Settled == rpc = "loop" /\ (Polling => noted = ip)
Explained == excused \/ glass # last

StaleIsExplained == Asleep /\ Settled /\ ~Explained => glass = Truth

(***************************************************************************)
(* "The panel is drawn on events, so a network that comes back while the   *)
(* device sits idle has to be pushed at it" (recorder.py:477).  It does    *)
(* not hold: nothing polls while the device is idle in maintenance, so     *)
(* nothing looks, and the footer keeps the address of before.              *)
(***************************************************************************)
AddressReachesPanel ==
  <>[][FALSE]_<<state, issue, position, ip>> =>
    []<>(glass # Blank /\ glass.ip = ip)

(***************************************************************************)
(* When nothing changes any more, the panel comes to show it, after the    *)
(* boot frame, the first seconds of a recording and any failed pushes      *)
(* ("panel output that fails is tried again", README.md:685), with the     *)
(* same exceptions.                                                        *)
(***************************************************************************)
Settles ==
  <>[][FALSE]_<<state, issue, position, ip>> => <>[](glass = Truth \/ Explained)

(***************************************************************************)
(* The reading keeps being drawn anew as long as a recording stands on it: *)
(* "a number frozen an hour ago is worse than none" (eink_panel.py:463).   *)
(* Again and again, then, a drawing begins or there is no reading to draw. *)
(***************************************************************************)
Measuring == Truth.screen = "measure"

MeasureRepeats == []<>(~Measuring \/ pc = "read" \/ Explained)

=============================================================================
