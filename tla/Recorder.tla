------------------------------ MODULE Recorder ------------------------------
(***************************************************************************)
(* The recording loop of recorder.py and the web threads that talk to it.  *)
(*                                                                         *)
(* One thread (run, _tick, _poll_once, _flush_block, _start_recording,     *)
(* _stop_recording) owns the state machine and the open file.  Flask runs  *)
(* every request on a thread of its own: note_http_request takes           *)
(* _start_lock, sets two Event flags and reads the state the recorder      *)
(* thread writes without that lock; request_manual_stop takes no lock at   *)
(* all.  A step of the recorder thread here is the code between two of its *)
(* reads or writes of what the threads share, or one operation on the      *)
(* card, so every interleaving of those is a behaviour of this module.     *)
(*                                                                         *)
(* Time is abstracted: a hold may end, a segment fall due or the stability *)
(* judgement come up at any turn.  The card is abstracted to what became   *)
(* of the latest recording; module Card has the files themselves.          *)
(***************************************************************************)
EXTENDS Naturals

CONSTANTS
    Visitors,           \* browsers and scripts whose requests run on web threads
    NoOne,              \* the holder of a free lock
    BlockSize,          \* ahrs_file.SAMPLES_PER_BLOCK (25 in the code)
    OpenFailureLimit,   \* recorder.OPEN_FAILURE_LIMIT (5 in the code)
    Segments,           \* cfg["segment_minutes"] > 0
    StopOnUnstable,     \* cfg["stop_on_unstable"]
    FailOnNoSensor,     \* --require-sensor
    Forces              \* the values of --force the process may be started with

Thread == "recorder"    \* the recorder thread, as a holder of _start_lock

ASSUME RecorderAssumption ==
    /\ BlockSize \in Nat \ {0}
    /\ OpenFailureLimit \in Nat \ {0}
    /\ Segments \in BOOLEAN
    /\ StopOnUnstable \in BOOLEAN
    /\ FailOnNoSensor \in BOOLEAN
    /\ Forces \subseteq {"none", "maintenance", "waiting_stable", "recording"}
    /\ NoOne \notin Visitors
    /\ Thread \notin Visitors
    /\ NoOne # Thread

VARIABLES
    state,          \* Recorder.state
    httpSeen,       \* Recorder._http_seen
    wantStop,       \* Recorder._want_stop
    wantDiscard,    \* Recorder._want_discard
    stopEvent,      \* Recorder.stop_event
    startLock,      \* Recorder._start_lock: who holds it
    writer,         \* Recorder.writer is not None
    pending,        \* len(Recorder._pending)
    timed,          \* Recorder._record_start_mono is not 0.0
    openFailures,   \* Recorder._open_failures
    pc,             \* where the recorder thread is
    caller,         \* who called the _stop_recording or _start_recording in progress
    discard,        \* the argument of the _stop_recording in progress
    force,          \* --force of this start
    recording,      \* what the latest recording is on the card
    hasBlock,       \* the latest recording holds a complete block
    vpc,            \* where each request is: note_http_request, then request_manual_stop
    presses,        \* whether a request is POST /api/record/stop
    doomed,         \* history: note_http_request promised to discard the latest recording,
                    \* and the card has not refused to
    stopAsked       \* history: a stop was requested of the latest recording

shared    == <<state, httpSeen, wantStop, wantDiscard, stopEvent, startLock>>
thread    == <<writer, pending, timed, openFailures, pc, caller, discard, force>>
card      == <<recording, hasBlock>>
web       == <<vpc, presses>>
history   == <<doomed, stopAsked>>
vars      == <<shared, thread, card, web, history>>

States == {"waiting_http", "waiting_stable", "recording", "maintenance", "error"}

StopCallers  == {"discarded", "manual", "unstable", "segment", "refused", "full", "exit"}
StartCallers == {"forced", "settled", "segment"}

Points == {"connect", "hold", "visited", "unvisited", "loop", "wantStop", "seen", "poll",
           "flush", "disk", "boundary", "judge", "start", "check", "open", "stop", "close",
           "finalise", "retire", "stopped", "shutdown", "exited"}

CountersOK ==
    /\ pending \in 0..BlockSize
    /\ openFailures \in 0..OpenFailureLimit

FlagsOK ==
    /\ httpSeen \in BOOLEAN /\ wantStop \in BOOLEAN /\ wantDiscard \in BOOLEAN
    /\ stopEvent \in BOOLEAN
    /\ writer \in BOOLEAN /\ timed \in BOOLEAN
    /\ discard \in BOOLEAN
    /\ hasBlock \in BOOLEAN
    /\ doomed \in BOOLEAN /\ stopAsked \in BOOLEAN

PlacesOK ==
    /\ state \in States
    /\ startLock \in Visitors \cup {NoOne, Thread}
    /\ pc \in Points
    /\ caller \in StopCallers \cup StartCallers \cup {"none"}
    /\ force \in Forces
    /\ recording \in {"none", "partial", "listed", "trash", "corrupt"}
    /\ vpc \in [Visitors -> {"idle", "noting", "noted", "pressed", "asking"}]
    /\ presses \in [Visitors -> BOOLEAN]

TypeOK == CountersOK /\ FlagsOK /\ PlacesOK

-----------------------------------------------------------------------------
(* Recorder.__init__ on a fresh card. *)
Init ==
    /\ state = "waiting_http"
    /\ httpSeen = FALSE /\ wantStop = FALSE /\ wantDiscard = FALSE
    /\ stopEvent = FALSE
    /\ startLock = NoOne
    /\ writer = FALSE /\ timed = FALSE
    /\ pending = 0
    /\ openFailures = 0
    /\ pc = "connect"
    /\ caller = "none"
    /\ discard = FALSE
    /\ force \in Forces
    /\ recording = "none" /\ hasBlock = FALSE
    /\ vpc = [v \in Visitors |-> "idle"]
    /\ presses = [v \in Visitors |-> FALSE]
    /\ doomed = FALSE /\ stopAsked = FALSE

\* A call of _stop_recording by who, from the present step.
CallStop(who, discarding) ==
    pc' = "stop" /\ caller' = who /\ discard' = discarding

\* A call of _start_recording by who, from the present step.
CallStart(who) ==
    pc' = "start" /\ caller' = who /\ UNCHANGED discard

\* The recorder thread goes on to label without calling either.
Goto(label) ==
    pc' = label /\ UNCHANGED <<caller, discard>>

-----------------------------------------------------------------------------
(* run(): boot. *)

\* sensor.connect() failed: the device shows the error and never records.
ConnectFails ==
    /\ pc = "connect"
    /\ state' = "error"
    /\ Goto(IF FailOnNoSensor THEN "exited" ELSE "loop")
    /\ UNCHANGED <<httpSeen, wantStop, wantDiscard, stopEvent, startLock, writer,
                   pending, timed, openFailures, force, card, web, history>>

ConnectOk ==
    /\ pc = "connect"
    /\ state' = CASE force = "maintenance"                    -> "maintenance"
                  [] force \in {"recording", "waiting_stable"} -> "waiting_stable"
                  [] OTHER                                     -> "waiting_http"
    /\ CASE force = "recording" -> CallStart("forced")
         [] force = "none"      -> Goto("hold")
         [] OTHER               -> Goto("loop")
    /\ UNCHANGED <<httpSeen, wantStop, wantDiscard, stopEvent, startLock, writer,
                   pending, timed, openFailures, force, card, web, history>>

\* wait_for_http: the last reading of _http_seen decides.  The holds are bounded
\* by deadlines, so this is always free to happen.
HoldEnds ==
    /\ pc = "hold"
    /\ Goto(IF httpSeen THEN "visited" ELSE "unvisited")
    /\ UNCHANGED <<shared, writer, pending, timed, openFailures, force, card, web, history>>

HoldDecides ==
    /\ pc \in {"visited", "unvisited"}
    /\ state' = IF pc = "visited" THEN "maintenance" ELSE "waiting_stable"
    /\ Goto("loop")
    /\ UNCHANGED <<httpSeen, wantStop, wantDiscard, stopEvent, startLock, writer,
                   pending, timed, openFailures, force, card, web, history>>

-----------------------------------------------------------------------------
(* _tick: what the web asked for comes first. *)

\* Mutant: the idle states sleep and return without looking at stop_event.
LeaveLoop_IdleDeaf ==
    /\ pc = "loop" /\ stopEvent /\ state # "maintenance"
    /\ Goto("shutdown")
    /\ UNCHANGED <<shared, writer, pending, timed, openFailures, force, card, web, history>>

LeaveLoop ==
    /\ pc = "loop" /\ stopEvent
    /\ Goto("shutdown")
    /\ UNCHANGED <<shared, writer, pending, timed, openFailures, force, card, web, history>>

\* Mutant: _stop_recording is called without discard=True.
TickDiscard_KeepsFile ==
    /\ pc = "loop" /\ ~stopEvent
    /\ wantDiscard' = FALSE
    /\ IF wantDiscard /\ state = "recording"
         THEN CallStop("discarded", FALSE)
         ELSE Goto("wantStop")
    /\ UNCHANGED <<state, httpSeen, wantStop, stopEvent, startLock, writer, pending,
                   timed, openFailures, force, card, web, history>>

TickDiscard ==
    /\ pc = "loop" /\ ~stopEvent
    /\ wantDiscard' = FALSE
    /\ IF wantDiscard /\ state = "recording"
         THEN CallStop("discarded", TRUE)
         ELSE Goto("wantStop")
    /\ UNCHANGED <<state, httpSeen, wantStop, stopEvent, startLock, writer, pending,
                   timed, openFailures, force, card, web, history>>

TickStop ==
    /\ pc = "wantStop"
    /\ wantStop' = FALSE
    /\ IF wantStop /\ state = "recording"
         THEN CallStop("manual", FALSE)
         ELSE Goto("seen")
    /\ UNCHANGED <<state, httpSeen, wantDiscard, stopEvent, startLock, writer, pending,
                   timed, openFailures, force, card, web, history>>

\* Mutant: a device that is settling does not look at _http_seen.
TickSeen_WhileSettling ==
    /\ pc = "seen"
    /\ UNCHANGED state
    /\ Goto(IF state \in {"maintenance", "error"} THEN "loop" ELSE "poll")
    /\ UNCHANGED <<httpSeen, wantStop, wantDiscard, stopEvent, startLock, writer, pending,
                   timed, openFailures, force, card, web, history>>

TickSeen ==
    /\ pc = "seen"
    /\ state' = IF state = "waiting_stable" /\ httpSeen THEN "maintenance" ELSE state
    /\ Goto(IF state' \in {"maintenance", "error"} THEN "loop" ELSE "poll")
    /\ UNCHANGED <<httpSeen, wantStop, wantDiscard, stopEvent, startLock, writer, pending,
                   timed, openFailures, force, card, web, history>>

-----------------------------------------------------------------------------
(* _poll_once, _append_sample and _flush_block. *)

\* The sensor did not answer: no sample, and the tick returns.
PollFails ==
    /\ pc = "poll"
    /\ Goto("loop")
    /\ UNCHANGED <<shared, writer, pending, timed, openFailures, force, card, web, history>>

PollOk ==
    /\ pc = "poll"
    /\ IF state = "recording" /\ writer
         THEN /\ pending' = pending + 1
              /\ Goto(IF pending' >= BlockSize THEN "flush" ELSE "judge")
         ELSE /\ UNCHANGED pending
              /\ Goto("judge")
    /\ UNCHANGED <<shared, writer, timed, openFailures, force, card, web, history>>

\* Mutant: the refused block stays pending.
WriteFails_KeepsBlock ==
    /\ pc = "flush"
    /\ state' = "error"
    /\ CallStop("refused", FALSE)
    /\ UNCHANGED <<httpSeen, wantStop, wantDiscard, stopEvent, startLock, writer, pending,
                   timed, openFailures, force, card, web, history>>

\* writer.write_block raised: the block is dropped before the recording is stopped.
WriteFails ==
    /\ pc = "flush"
    /\ pending' = 0
    /\ state' = "error"
    /\ CallStop("refused", FALSE)
    /\ UNCHANGED <<httpSeen, wantStop, wantDiscard, stopEvent, startLock, writer, timed,
                   openFailures, force, card, web, history>>

BlockWritten ==
    /\ pc = "flush"
    /\ pending' = 0
    /\ hasBlock' = TRUE
    /\ Goto("disk")
    /\ UNCHANGED <<shared, writer, timed, openFailures, force, recording, web, history>>

\* _check_disk: too little room, and purging the trash did not make enough.
DiskLow ==
    /\ pc = "disk"
    /\ state' = "error"
    /\ CallStop("full", FALSE)
    /\ UNCHANGED <<httpSeen, wantStop, wantDiscard, stopEvent, startLock, writer, pending,
                   timed, openFailures, force, card, web, history>>

\* purge_trash cannot list the trash, in _tick or in _check_disk: its OSError ends the
\* loop and runs _shutdown.
PurgeRaises ==
    /\ pc = "disk" \/ (pc = "loop" /\ ~stopEvent)
    /\ Goto("shutdown")
    /\ UNCHANGED <<shared, writer, pending, timed, openFailures, force, card, web, history>>

DiskEnough ==
    /\ pc = "disk"
    /\ Goto("boundary")
    /\ UNCHANGED <<shared, writer, pending, timed, openFailures, force, card, web, history>>

\* _maybe_segment, when the segment's time is up.
SegmentDue ==
    /\ pc = "boundary"
    /\ Segments /\ timed
    /\ CallStop("segment", FALSE)
    /\ UNCHANGED <<shared, writer, pending, timed, openFailures, force, card, web, history>>

SegmentNotDue ==
    /\ pc = "boundary"
    /\ Goto("judge")
    /\ UNCHANGED <<shared, writer, pending, timed, openFailures, force, card, web, history>>

-----------------------------------------------------------------------------
(* The rest of _tick: the stability verdict, once every BlockSize good polls. *)

\* No verdict is due, or the state has no use for the one that came.
JudgeNothing ==
    /\ pc = "judge"
    /\ Goto("loop")
    /\ UNCHANGED <<shared, writer, pending, timed, openFailures, force, card, web, history>>

JudgeSettled ==
    /\ pc = "judge"
    /\ state = "waiting_stable"
    /\ CallStart("settled")
    /\ UNCHANGED <<shared, writer, pending, timed, openFailures, force, card, web, history>>

\* Mutant: an unstable verdict is acted on in any state.
JudgeUnstable_AnyState ==
    /\ pc = "judge"
    /\ StopOnUnstable
    /\ CallStop("unstable", FALSE)
    /\ UNCHANGED <<shared, writer, pending, timed, openFailures, force, card, web, history>>

JudgeUnstable ==
    /\ pc = "judge"
    /\ state = "recording"
    /\ StopOnUnstable
    /\ CallStop("unstable", FALSE)
    /\ UNCHANGED <<shared, writer, pending, timed, openFailures, force, card, web, history>>

-----------------------------------------------------------------------------
(* _start_recording, under _start_lock, and _open_recording. *)

\* Mutant: _http_seen is checked and the file opened without _start_lock.
StartLocks_Without ==
    /\ pc = "start"
    /\ Goto("check")
    /\ UNCHANGED <<shared, writer, pending, timed, openFailures, force, card, web, history>>

StartLocks ==
    /\ pc = "start"
    /\ startLock = NoOne
    /\ startLock' = Thread
    /\ Goto("check")
    /\ UNCHANGED <<state, httpSeen, wantStop, wantDiscard, stopEvent, writer, pending,
                   timed, openFailures, force, card, web, history>>

\* Where the caller of _start_recording goes on.
StartReturns ==
    /\ startLock' = NoOne
    /\ Goto(IF caller = "segment" THEN "judge" ELSE "loop")

StartChecks ==
    /\ pc = "check"
    /\ IF state # "error" /\ ~httpSeen
         THEN Goto("open") /\ UNCHANGED <<state, startLock>>
         ELSE /\ state' = IF state = "error" THEN state ELSE "maintenance"
              /\ StartReturns
    /\ UNCHANGED <<httpSeen, wantStop, wantDiscard, stopEvent, writer, pending, timed,
                   openFailures, force, card, web, history>>

OpenSucceeds ==
    /\ pc = "open"
    /\ timed' = TRUE
    /\ writer' = TRUE
    /\ openFailures' = 0
    /\ recording' = "partial" /\ hasBlock' = FALSE
    /\ doomed' = FALSE /\ stopAsked' = FALSE
    /\ state' = "recording"
    /\ StartReturns
    /\ UNCHANGED <<httpSeen, wantStop, wantDiscard, stopEvent, pending, force, web>>

\* Mutant: one attempt too many before giving up.
OpenFails_OffByOne ==
    /\ pc = "open"
    /\ timed' = TRUE
    /\ openFailures' = openFailures + 1
    /\ state' = IF openFailures' > OpenFailureLimit THEN "maintenance" ELSE state
    /\ StartReturns
    /\ UNCHANGED <<httpSeen, wantStop, wantDiscard, stopEvent, writer, pending, force,
                   card, web, history>>

\* The card refused the file: _record_start_mono was set all the same.
OpenFails ==
    /\ pc = "open"
    /\ timed' = TRUE
    /\ openFailures' = openFailures + 1
    /\ state' = IF openFailures' >= OpenFailureLimit THEN "maintenance" ELSE state
    /\ StartReturns
    /\ UNCHANGED <<httpSeen, wantStop, wantDiscard, stopEvent, writer, pending, force,
                   card, web, history>>

-----------------------------------------------------------------------------
(* _stop_recording. *)

\* Mutant: what does not fill a block stays pending.
Stop_KeepsTail ==
    /\ pc = "stop"
    /\ IF ~writer
         THEN Goto("stopped")
         ELSE IF pending < BlockSize THEN Goto("close") ELSE Goto("flush")
    /\ UNCHANGED <<shared, writer, pending, timed, openFailures, force, card, web, history>>

\* Nothing to stop, or _flush_block first: it drops what does not fill a block.
Stop ==
    /\ pc = "stop"
    /\ IF ~writer
         THEN Goto("stopped") /\ UNCHANGED pending
         ELSE IF pending < BlockSize
                THEN Goto("close") /\ pending' = 0
                ELSE Goto("flush") /\ UNCHANGED pending
    /\ UNCHANGED <<shared, writer, timed, openFailures, force, card, web, history>>

\* An error of close is only logged.
Close ==
    /\ pc = "close"
    /\ writer' = FALSE
    /\ Goto("finalise")
    /\ UNCHANGED <<shared, pending, timed, openFailures, force, card, web, history>>

\* Mutant: a recording that could be finished is thrown away without being asked to.
Finalise_DiscardsAll ==
    /\ pc = "finalise"
    /\ \/ recording' = "listed" /\ hasBlock
       \/ recording' = "corrupt"
       \/ recording' = "partial"
    /\ IF recording' = "listed"
         THEN Goto("retire") /\ UNCHANGED timed
         ELSE Goto("stopped") /\ timed' = FALSE
    /\ UNCHANGED <<shared, writer, pending, openFailures, force, hasBlock, web, history>>

\* recover_partial: renamed into the list, quarantined, or left as it is by an OSError.
Finalise ==
    /\ pc = "finalise"
    /\ \/ recording' = "listed" /\ hasBlock
       \/ recording' = "corrupt"
       \/ recording' = "partial"
    /\ IF discard /\ recording' = "listed"
         THEN Goto("retire") /\ UNCHANGED timed
         ELSE Goto("stopped") /\ timed' = FALSE
    /\ UNCHANGED <<shared, writer, pending, openFailures, force, hasBlock, web, history>>

\* move_to_trash: done, refused by os.replace (only logged), or dead in os.makedirs,
\* whose OSError ends the loop and runs _shutdown.
Retire ==
    /\ pc = "retire"
    /\ \/ recording' = "trash" /\ timed' = FALSE /\ Goto("stopped")
       \/ UNCHANGED recording /\ timed' = FALSE /\ Goto("stopped")
       \/ UNCHANGED <<recording, timed>> /\ Goto("shutdown")
    /\ doomed' = FALSE
    /\ UNCHANGED <<shared, writer, pending, openFailures, force, hasBlock, web, stopAsked>>

\* Mutant: the stop the web asked for leaves the state as it was.
StopReturns_KeepsState ==
    /\ pc = "stopped"
    /\ state' = CASE caller = "discarded" -> "maintenance"
                  [] caller = "unstable"  -> "waiting_stable"
                  [] OTHER                -> state
    /\ CASE caller = "discarded" -> Goto("wantStop")
         [] caller = "manual"    -> Goto("seen")
         [] caller = "unstable"  -> Goto("loop")
         [] caller = "segment"   -> CallStart("segment")
         [] caller = "refused"   -> Goto("judge")
         [] caller = "full"      -> Goto("boundary")
         [] OTHER                -> Goto("exited")
    /\ UNCHANGED <<httpSeen, wantStop, wantDiscard, stopEvent, startLock, writer, pending,
                   timed, openFailures, force, card, web, history>>

\* Each caller's own next statement.
StopReturns ==
    /\ pc = "stopped"
    /\ state' = CASE caller \in {"discarded", "manual"} -> "maintenance"
                  [] caller = "unstable"                -> "waiting_stable"
                  [] OTHER                              -> state
    /\ CASE caller = "discarded" -> Goto("wantStop")
         [] caller = "manual"    -> Goto("seen")
         [] caller = "unstable"  -> Goto("loop")
         [] caller = "segment"   -> CallStart("segment")
         [] caller = "refused"   -> Goto("judge")
         [] caller = "full"      -> Goto("boundary")
         [] OTHER                -> Goto("exited")
    /\ UNCHANGED <<httpSeen, wantStop, wantDiscard, stopEvent, startLock, writer, pending,
                   timed, openFailures, force, card, web, history>>

-----------------------------------------------------------------------------
(* The end of the process, and the next one. *)

\* Mutant: the process ends without _stop_recording.
Shutdown_LeavesOpen ==
    /\ pc = "shutdown"
    /\ Goto("exited")
    /\ UNCHANGED <<shared, writer, pending, timed, openFailures, force, card, web, history>>

Shutdown ==
    /\ pc = "shutdown"
    /\ CallStop("exit", FALSE)
    /\ UNCHANGED <<shared, writer, pending, timed, openFailures, force, card, web, history>>

\* SIGTERM, SIGINT or --seconds.
Signal ==
    /\ pc # "exited"
    /\ stopEvent' = TRUE
    /\ UNCHANGED <<state, httpSeen, wantStop, wantDiscard, startLock, thread, card, web,
                   history>>

\* systemd restarts the service; recover_leftovers deals with the last file first.
Restart ==
    /\ pc = "exited"
    /\ state' = "waiting_http"
    /\ httpSeen' = FALSE /\ wantStop' = FALSE /\ wantDiscard' = FALSE
    /\ stopEvent' = FALSE
    /\ startLock' = NoOne
    /\ writer' = FALSE /\ timed' = FALSE
    /\ pending' = 0
    /\ openFailures' = 0
    /\ pc' = "connect"
    /\ caller' = "none"
    /\ discard' = FALSE
    /\ force' \in Forces
    /\ vpc' = [v \in Visitors |-> "idle"]
    /\ presses' = [v \in Visitors |-> FALSE]
    /\ doomed' = FALSE /\ stopAsked' = FALSE
    /\ \/ recording # "partial" /\ UNCHANGED recording
       \/ recording = "partial" /\ recording' \in {"partial", "corrupt"}
       \/ recording = "partial" /\ hasBlock /\ recording' = "listed"
    /\ UNCHANGED hasBlock

-----------------------------------------------------------------------------
(* The web threads. *)

\* Mutant: note_http_request does not take _start_lock.
VisitorLocks_Without(v) ==
    /\ pc # "exited"
    /\ vpc[v] = "idle"
    /\ vpc' = [vpc EXCEPT ![v] = "noting"]
    /\ \E press \in BOOLEAN : presses' = [presses EXCEPT ![v] = press]
    /\ UNCHANGED <<shared, thread, card, history>>

\* before_request: a request without ?auto=1 enters note_http_request.
VisitorLocks(v) ==
    /\ pc # "exited"
    /\ vpc[v] = "idle"
    /\ startLock = NoOne
    /\ startLock' = v
    /\ vpc' = [vpc EXCEPT ![v] = "noting"]
    /\ \E press \in BOOLEAN : presses' = [presses EXCEPT ![v] = press]
    /\ UNCHANGED <<state, httpSeen, wantStop, wantDiscard, stopEvent, thread, card, history>>

VisitorSeen(v) ==
    /\ pc # "exited"
    /\ vpc[v] = "noting"
    /\ httpSeen' = TRUE
    /\ vpc' = [vpc EXCEPT ![v] = "noted"]
    /\ UNCHANGED <<state, wantStop, wantDiscard, stopEvent, startLock, thread, card,
                   presses, history>>

VisitorDooms(v) ==
    /\ pc # "exited"
    /\ vpc[v] = "noted"
    /\ wantDiscard' = (wantDiscard \/ state = "recording")
    /\ doomed' = (doomed \/ (state = "recording" /\ writer))
    /\ startLock' = NoOne
    /\ vpc' = [vpc EXCEPT ![v] = IF presses[v] THEN "pressed" ELSE "idle"]
    /\ UNCHANGED <<state, httpSeen, wantStop, stopEvent, thread, card, presses, stopAsked>>

\* request_manual_stop reads the state...
PressReads(v) ==
    /\ pc # "exited"
    /\ vpc[v] = "pressed"
    /\ vpc' = [vpc EXCEPT ![v] = IF state = "recording" THEN "asking" ELSE "idle"]
    /\ UNCHANGED <<shared, thread, card, presses, history>>

\* ...and sets the flag, by when the state may be another.
PressAsks(v) ==
    /\ pc # "exited"
    /\ vpc[v] = "asking"
    /\ wantStop' = TRUE
    /\ stopAsked' = TRUE
    /\ vpc' = [vpc EXCEPT ![v] = "idle"]
    /\ UNCHANGED <<state, httpSeen, wantDiscard, stopEvent, startLock, thread, card,
                   presses, doomed>>

-----------------------------------------------------------------------------
Boot      == ConnectFails \/ ConnectOk \/ HoldEnds \/ HoldDecides
Tick      == LeaveLoop \/ TickDiscard \/ TickStop \/ TickSeen
Sampling  == \/ PollFails \/ PollOk \/ WriteFails \/ BlockWritten
             \/ PurgeRaises \/ DiskLow \/ DiskEnough \/ SegmentDue \/ SegmentNotDue
Judging   == JudgeNothing \/ JudgeSettled \/ JudgeUnstable
Starting  == StartLocks \/ StartChecks \/ OpenSucceeds \/ OpenFails
Stopping  == Stop \/ Close \/ Finalise \/ Retire \/ StopReturns \/ Shutdown

RecorderStep == Boot \/ Tick \/ Sampling \/ Judging \/ Starting \/ Stopping

VisitorStep(v) ==
    VisitorSeen(v) \/ VisitorDooms(v) \/ PressReads(v) \/ PressAsks(v)

Next ==
    \/ RecorderStep
    \/ Signal
    \/ Restart
    \/ \E v \in Visitors : VisitorLocks(v) \/ VisitorStep(v)

Spec == Init /\ [][Next]_vars

(***************************************************************************)
(* Both threads are scheduled; a request that entered note_http_request    *)
(* leaves it.  StartLocks gets strong fairness: requests hold _start_lock  *)
(* for microseconds and a waiter is woken at a release, so they cannot     *)
(* starve the recorder of it for ever.  Nobody has to visit, signal or     *)
(* restart.                                                                *)
(***************************************************************************)
Fairness ==
    /\ WF_vars(RecorderStep)
    /\ SF_vars(StartLocks)
    /\ \A v \in Visitors : WF_vars(VisitorStep(v))

FairSpec == Spec /\ Fairness

-----------------------------------------------------------------------------
(* Properties. *)

\* The file of a recording comes open in this step.
OpensFile == ~writer /\ writer'

\* Once a visitor's request has passed note_http_request no recording is ever opened in
\* this run of the process: _start_lock makes the check of _http_seen and the opening one
\* step as far as any request can tell (recorder.py _start_recording).
NoOpenAfterVisit == [][OpensFile => ~httpSeen]_vars

\* A recording never goes on unaware of a visitor.  When no request is inside
\* note_http_request and one has been, a device that says it is recording is about to
\* discard, or is already in a _stop_recording, or at a segment boundary that will look.
InsideNote == \E v \in Visitors : vpc[v] \in {"noting", "noted"}

EndingRecording ==
    \/ pc \in {"stop", "close", "finalise", "retire", "stopped", "shutdown", "exited"}
    \/ pc \in {"start", "check"} /\ caller = "segment"

VisitIsActedOn ==
    httpSeen /\ state = "recording" /\ ~InsideNote => wantDiscard \/ EndingRecording

\* A device that has reported an error stays in it until it is restarted: no flag from
\* the web, verdict or segment boundary that the same tick still runs through replaces
\* the report by another state (_start_recording, _maybe_segment, _tick).
ErrorIsFinal == [][state = "error" /\ pc # "exited" => state' = "error"]_vars

\* Samples of one recording never reach the next: whenever no file is open nothing is
\* pending (_flush_block called by _stop_recording).
NoSampleCrossesRecordings == ~writer => pending = 0

\* The flush inside _stop_recording never writes, so a card that refuses a block cannot
\* make _flush_block and _stop_recording call each other for ever (the comment in
\* _flush_block's error path).
FlushNeverReenters == pc = "stop" /\ writer => pending < BlockSize

\* OPEN_FAILURE_LIMIT failures in a row end the attempts: the counter never passes the
\* limit, and at the limit the device is not about to try again (_open_recording).
GivesUpAtLimit ==
    /\ openFailures <= OpenFailureLimit
    /\ openFailures = OpenFailureLimit => state \in {"maintenance", "error"}

\* Whatever ended the loop, a process that has gone left no recording open and no sample
\* behind (run's finally, _shutdown).
ExitLeavesNothingOpen == pc = "exited" => ~writer /\ pending = 0

\* What the device promises of its measurements, step by step: whatever the threads do, it
\* is a step of Measurement or none at all to it.
Promised == INSTANCE Measurement WITH
    EndsByItself <- Segments \/ StopOnUnstable,
    phase <- state, open <- writer, fate <- recording, visited <- httpSeen,
    promised <- doomed, ending <- pc \in {"shutdown", "exited"} \/ caller = "exit"

KeepsThePromise == Promised!Spec

\* The recording a visitor interrupted goes to the trash, not to the operator's list
\* (note_http_request).  Left out: a stop that was also asked for, a recording that ended
\* in an error, and a process told to end before its next tick.
DiscardHonoured ==
    doomed /\ recording = "listed" =>
        (pc = "retire" /\ discard) \/ stopAsked \/ state = "error" \/ caller = "exit"

\* Between two ticks the device says it is recording exactly when a file is open, so a
\* state of "recording" is a measurement being kept (_set_state, _open_recording).
RecordingMeansFileOpen == pc = "loop" => (writer <=> state = "recording")

\* A visitor ends the measurement: the device gets to maintenance, or to an error, or the
\* process ends.
VisitEndsMeasurement == httpSeen ~> (state \in {"maintenance", "error"} \/ pc = "exited")

\* SIGTERM ends the process, whatever it was in the middle of.
SignalEndsProcess == stopEvent ~> pc = "exited"

\* "Retries run about once a second, so five rides out a momentary glitch" (recorder.py
\* 50-51): a device whose last opening failed, short of the limit, does not go on saying
\* that it records -- a state in which nothing is retried.
OpenFailureIsRetried ==
    pc = "loop" /\ openFailures \in 1..OpenFailureLimit - 1 => state # "recording"

=============================================================================
