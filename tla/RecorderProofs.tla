--------------------------- MODULE RecorderProofs ---------------------------
(***************************************************************************)
(* Proofs about Recorder, for any set of visitors, block size, open limit, *)
(* and settings.  Inv says what holds at each point of the recorder        *)
(* thread; it is inductive, and the properties follow from it.             *)
(***************************************************************************)
EXTENDS Recorder, TLAPS

InStop  == {"stop", "close", "finalise", "retire", "stopped"}
InStart == {"start", "check", "open"}

\* Who may be in _stop_recording, and in which state each of them calls it.
StopInv ==
    /\ pc \in InStop =>
         /\ caller \in StopCallers
         /\ caller \in {"discarded", "manual", "unstable", "segment"} => state = "recording"
         /\ caller \in {"refused", "full"} => state = "error"
         /\ discard => caller = "discarded"
    /\ pc \in {"stop", "stopped"} /\ caller \in {"discarded", "manual", "unstable"}
         => state = "recording"
    /\ pc = "retire" => discard

\* Who may be in _start_recording, and in which state each of them calls it.
StartInv ==
    pc \in InStart =>
      /\ caller \in StartCallers
      /\ caller = "segment" => state = "recording"
      /\ caller # "segment" => state = "waiting_stable"
      /\ ~writer

\* The state at the other points.
StateInv ==
    /\ pc \in {"connect", "hold", "visited", "unvisited"} <=> state = "waiting_http"
    /\ pc = "poll" => state \in {"waiting_stable", "recording"}
    /\ pc \in {"flush", "disk"} => state = "recording" /\ writer
    /\ pc = "boundary" => \/ state = "recording" /\ writer
                          \/ state = "error" /\ ~writer /\ ~timed

\* A file is open only in a recording, or on the way out of one into an error.
WriterInv ==
    /\ writer => \/ state = "recording"
                 \/ state = "error" /\ pc \in {"stop", "close"}
    /\ pc = "close" => writer
    /\ pc \in {"finalise", "retire", "stopped", "exited"} => ~writer
    /\ pc = "stop" /\ caller = "full" => writer
    /\ pc = "stopped" /\ caller = "full" => ~timed

\* Only _flush_block ever sees a full block, and nothing is pending without a file.
PendingInv ==
    /\ pending >= BlockSize => pc = "flush"
    /\ ~writer => pending = 0
    /\ pc \in {"close", "disk", "boundary"} => pending = 0

\* The limit on failed openings is reached only by leaving the states that open.
FailuresInv ==
    state \notin {"maintenance", "error"} => openFailures < OpenFailureLimit

\* _start_lock is held by who is in the code it guards, so no request can be seen
\* between the check of _http_seen and the opening.
LockInv ==
    /\ startLock = Thread <=> pc \in {"check", "open"}
    /\ \A v \in Visitors : startLock = v <=> vpc[v] \in {"noting", "noted"}
    /\ pc = "open" => ~httpSeen

Control ==
    /\ CountersOK
    /\ StopInv
    /\ StartInv
    /\ StateInv
    /\ WriterInv
    /\ PendingInv
    /\ FailuresInv
    /\ LockInv
    /\ VisitIsActedOn

Inv == FlagsOK /\ PlacesOK /\ Control

-----------------------------------------------------------------------------
LEMMA InitInv == Init => Inv
<1> SUFFICES ASSUME Init PROVE Inv
  OBVIOUS
<1> USE RecorderAssumption
    DEF Init, InStop, InStart, States, Points, StopCallers, StartCallers
<1>1. FlagsOK
  BY DEF FlagsOK
<1>2. PlacesOK
  BY DEF PlacesOK
<1>3. CountersOK
  BY DEF CountersOK
<1>4. StopInv
  BY DEF StopInv
<1>5. StartInv
  BY DEF StartInv
<1>6. StateInv
  BY DEF StateInv
<1>7. WriterInv
  BY DEF WriterInv
<1>8. PendingInv
  BY DEF PendingInv
<1>9. FailuresInv
  BY DEF FailuresInv
<1>10. LockInv
  BY DEF LockInv
<1>11. VisitIsActedOn
  BY DEF VisitIsActedOn, InsideNote, EndingRecording
<1> QED
  BY <1>1, <1>2, <1>3, <1>4, <1>5, <1>6, <1>7, <1>8, <1>9, <1>10, <1>11 DEF Inv, Control

\* The flags, states and labels keep their types: apart from the counters, whose ranges
\* need the rest of Inv, typing is inductive by itself.
LEMMA FlagsStep == FlagsOK /\ [Next]_vars => FlagsOK'
<1> SUFFICES ASSUME FlagsOK, [Next]_vars
             PROVE  FlagsOK'
  OBVIOUS
<1> USE DEF FlagsOK, vars, shared, thread,
            card, web, history, Goto, CallStop, CallStart, StartReturns
<1>1. CASE ConnectFails
  BY <1>1 DEF ConnectFails
<1>2. CASE ConnectOk
  BY <1>2 DEF ConnectOk
<1>3. CASE HoldEnds
  BY <1>3 DEF HoldEnds
<1>4. CASE HoldDecides
  BY <1>4 DEF HoldDecides
<1>5. CASE LeaveLoop
  BY <1>5 DEF LeaveLoop
<1>6. CASE TickDiscard
  BY <1>6 DEF TickDiscard
<1>7. CASE TickStop
  BY <1>7 DEF TickStop
<1>8. CASE TickSeen
  BY <1>8 DEF TickSeen
<1>9. CASE PollFails
  BY <1>9 DEF PollFails
<1>10. CASE PollOk
  BY <1>10 DEF PollOk
<1>11. CASE WriteFails
  BY <1>11 DEF WriteFails
<1>12. CASE BlockWritten
  BY <1>12 DEF BlockWritten
<1>13. CASE DiskLow
  BY <1>13 DEF DiskLow
<1>14. CASE DiskEnough
  BY <1>14 DEF DiskEnough
<1>15. CASE SegmentDue
  BY <1>15 DEF SegmentDue
<1>16. CASE SegmentNotDue
  BY <1>16 DEF SegmentNotDue
<1>17. CASE JudgeNothing
  BY <1>17 DEF JudgeNothing
<1>18. CASE JudgeSettled
  BY <1>18 DEF JudgeSettled
<1>19. CASE JudgeUnstable
  BY <1>19 DEF JudgeUnstable
<1>20. CASE StartLocks
  BY <1>20 DEF StartLocks
<1>21. CASE StartChecks
  BY <1>21 DEF StartChecks
<1>22. CASE OpenSucceeds
  BY <1>22 DEF OpenSucceeds
<1>23. CASE OpenFails
  BY <1>23 DEF OpenFails
<1>24. CASE Stop
  BY <1>24 DEF Stop
<1>25. CASE Close
  BY <1>25 DEF Close
<1>26. CASE Finalise
  BY <1>26 DEF Finalise
<1>27. CASE Retire
  BY <1>27 DEF Retire
<1>28. CASE StopReturns
  BY <1>28 DEF StopReturns
<1>29. CASE Shutdown
  BY <1>29 DEF Shutdown
<1>30. CASE Signal
  BY <1>30 DEF Signal
<1>31. CASE Restart
  BY <1>31 DEF Restart
<1>32. ASSUME NEW v \in Visitors, VisitorLocks(v)
      PROVE  FlagsOK'
  BY <1>32 DEF VisitorLocks
<1>33. ASSUME NEW v \in Visitors, VisitorSeen(v)
      PROVE  FlagsOK'
  BY <1>33 DEF VisitorSeen
<1>34. ASSUME NEW v \in Visitors, VisitorDooms(v)
      PROVE  FlagsOK'
  BY <1>34 DEF VisitorDooms
<1>35. ASSUME NEW v \in Visitors, PressReads(v)
      PROVE  FlagsOK'
  BY <1>35 DEF PressReads
<1>36. ASSUME NEW v \in Visitors, PressAsks(v)
      PROVE  FlagsOK'
  BY <1>36 DEF PressAsks
<1>37. CASE PurgeRaises
  BY <1>37 DEF PurgeRaises
<1>38. CASE UNCHANGED vars
  BY <1>38
<1> QED
  BY <1>1, <1>2, <1>3, <1>4, <1>5, <1>6, <1>7, <1>8, <1>9, <1>10, <1>11, <1>12, <1>13,
     <1>14, <1>15, <1>16, <1>17, <1>18, <1>19, <1>20, <1>21, <1>22, <1>23, <1>24, <1>25,
     <1>26, <1>27, <1>28, <1>29, <1>30, <1>31, <1>32, <1>33, <1>34, <1>35, <1>36, <1>37,
     <1>38
  DEF Next, RecorderStep, Boot, Tick, Sampling, Judging, Starting, Stopping, VisitorStep

LEMMA PlacesStep == PlacesOK /\ [Next]_vars => PlacesOK'
<1> SUFFICES ASSUME PlacesOK, [Next]_vars
             PROVE  PlacesOK'
  OBVIOUS
<1> USE DEF PlacesOK, States, Points, StopCallers, StartCallers, vars, shared, thread,
            card, web, history, Goto, CallStop, CallStart, StartReturns
<1>1. CASE ConnectFails
  BY <1>1 DEF ConnectFails
<1>2. CASE ConnectOk
  BY <1>2 DEF ConnectOk
<1>3. CASE HoldEnds
  BY <1>3 DEF HoldEnds
<1>4. CASE HoldDecides
  BY <1>4 DEF HoldDecides
<1>5. CASE LeaveLoop
  BY <1>5 DEF LeaveLoop
<1>6. CASE TickDiscard
  BY <1>6 DEF TickDiscard
<1>7. CASE TickStop
  BY <1>7 DEF TickStop
<1>8. CASE TickSeen
  BY <1>8 DEF TickSeen
<1>9. CASE PollFails
  BY <1>9 DEF PollFails
<1>10. CASE PollOk
  BY <1>10 DEF PollOk
<1>11. CASE WriteFails
  BY <1>11 DEF WriteFails
<1>12. CASE BlockWritten
  BY <1>12 DEF BlockWritten
<1>13. CASE DiskLow
  BY <1>13 DEF DiskLow
<1>14. CASE DiskEnough
  BY <1>14 DEF DiskEnough
<1>15. CASE SegmentDue
  BY <1>15 DEF SegmentDue
<1>16. CASE SegmentNotDue
  BY <1>16 DEF SegmentNotDue
<1>17. CASE JudgeNothing
  BY <1>17 DEF JudgeNothing
<1>18. CASE JudgeSettled
  BY <1>18 DEF JudgeSettled
<1>19. CASE JudgeUnstable
  BY <1>19 DEF JudgeUnstable
<1>20. CASE StartLocks
  BY <1>20 DEF StartLocks
<1>21. CASE StartChecks
  BY <1>21 DEF StartChecks
<1>22. CASE OpenSucceeds
  BY <1>22 DEF OpenSucceeds
<1>23. CASE OpenFails
  BY <1>23 DEF OpenFails
<1>24. CASE Stop
  BY <1>24 DEF Stop
<1>25. CASE Close
  BY <1>25 DEF Close
<1>26. CASE Finalise
  BY <1>26 DEF Finalise
<1>27. CASE Retire
  BY <1>27 DEF Retire
<1>28. CASE StopReturns
  BY <1>28 DEF StopReturns
<1>29. CASE Shutdown
  BY <1>29 DEF Shutdown
<1>30. CASE Signal
  BY <1>30 DEF Signal
<1>31. CASE Restart
  BY <1>31 DEF Restart
<1>32. ASSUME NEW v \in Visitors, VisitorLocks(v)
      PROVE  PlacesOK'
  BY <1>32 DEF VisitorLocks
<1>33. ASSUME NEW v \in Visitors, VisitorSeen(v)
      PROVE  PlacesOK'
  BY <1>33 DEF VisitorSeen
<1>34. ASSUME NEW v \in Visitors, VisitorDooms(v)
      PROVE  PlacesOK'
  BY <1>34 DEF VisitorDooms
<1>35. ASSUME NEW v \in Visitors, PressReads(v)
      PROVE  PlacesOK'
  BY <1>35 DEF PressReads
<1>36. ASSUME NEW v \in Visitors, PressAsks(v)
      PROVE  PlacesOK'
  BY <1>36 DEF PressAsks
<1>37. CASE PurgeRaises
  BY <1>37 DEF PurgeRaises
<1>38. CASE UNCHANGED vars
  BY <1>38
<1> QED
  BY <1>1, <1>2, <1>3, <1>4, <1>5, <1>6, <1>7, <1>8, <1>9, <1>10, <1>11, <1>12, <1>13,
     <1>14, <1>15, <1>16, <1>17, <1>18, <1>19, <1>20, <1>21, <1>22, <1>23, <1>24, <1>25,
     <1>26, <1>27, <1>28, <1>29, <1>30, <1>31, <1>32, <1>33, <1>34, <1>35, <1>36, <1>37,
     <1>38
  DEF Next, RecorderStep, Boot, Tick, Sampling, Judging, Starting, Stopping, VisitorStep

LEMMA StepInv == Inv /\ [Next]_vars => Inv'
<1> SUFFICES ASSUME Inv, [Next]_vars
             PROVE  Control'
  BY FlagsStep, PlacesStep DEF Inv
<1> USE RecorderAssumption
    DEF Inv, Control, FlagsOK, PlacesOK, CountersOK, StopInv, StartInv, StateInv,
        WriterInv, PendingInv, FailuresInv, LockInv, VisitIsActedOn, InStop, InStart,
        States, Points, StopCallers, StartCallers, InsideNote, EndingRecording,
        vars, shared, thread, card, web, history, Goto, CallStop, CallStart, StartReturns
<1>1. CASE ConnectFails
  BY <1>1 DEF ConnectFails
<1>2. CASE ConnectOk
  BY <1>2 DEF ConnectOk
<1>3. CASE HoldEnds
  BY <1>3 DEF HoldEnds
<1>4. CASE HoldDecides
  BY <1>4 DEF HoldDecides
<1>5. CASE LeaveLoop
  BY <1>5 DEF LeaveLoop
<1>6. CASE TickDiscard
  BY <1>6 DEF TickDiscard
<1>7. CASE TickStop
  BY <1>7 DEF TickStop
<1>8. CASE TickSeen
  BY <1>8 DEF TickSeen
<1>9. CASE PollFails
  BY <1>9 DEF PollFails
<1>10. CASE PollOk
  BY <1>10 DEF PollOk
<1>11. CASE WriteFails
  BY <1>11 DEF WriteFails
<1>12. CASE BlockWritten
  BY <1>12 DEF BlockWritten
<1>13. CASE DiskLow
  BY <1>13 DEF DiskLow
<1>14. CASE DiskEnough
  BY <1>14 DEF DiskEnough
<1>15. CASE SegmentDue
  BY <1>15 DEF SegmentDue
<1>16. CASE SegmentNotDue
  BY <1>16 DEF SegmentNotDue
<1>17. CASE JudgeNothing
  BY <1>17 DEF JudgeNothing
<1>18. CASE JudgeSettled
  BY <1>18 DEF JudgeSettled
<1>19. CASE JudgeUnstable
  BY <1>19 DEF JudgeUnstable
<1>20. CASE StartLocks
  BY <1>20 DEF StartLocks
<1>21. CASE StartChecks
  BY <1>21 DEF StartChecks
<1>22. CASE OpenSucceeds
  BY <1>22 DEF OpenSucceeds
<1>23. CASE OpenFails
  BY <1>23 DEF OpenFails
<1>24. CASE Stop
  BY <1>24 DEF Stop
<1>25. CASE Close
  BY <1>25 DEF Close
<1>26. CASE Finalise
  BY <1>26 DEF Finalise
<1>27. CASE Retire
  BY <1>27 DEF Retire
<1>28. CASE StopReturns
  BY <1>28 DEF StopReturns
<1>29. CASE Shutdown
  BY <1>29 DEF Shutdown
<1>30. CASE Signal
  BY <1>30 DEF Signal
<1>31. CASE Restart
  BY <1>31 DEF Restart
<1>32. ASSUME NEW v \in Visitors, VisitorLocks(v)
      PROVE  Control'
  BY <1>32 DEF VisitorLocks
<1>33. ASSUME NEW v \in Visitors, VisitorSeen(v)
      PROVE  Control'
  BY <1>33 DEF VisitorSeen
<1>34. ASSUME NEW v \in Visitors, VisitorDooms(v)
      PROVE  Control'
  BY <1>34 DEF VisitorDooms
<1>35. ASSUME NEW v \in Visitors, PressReads(v)
      PROVE  Control'
  BY <1>35 DEF PressReads
<1>36. ASSUME NEW v \in Visitors, PressAsks(v)
      PROVE  Control'
  BY <1>36 DEF PressAsks
<1>37. CASE PurgeRaises
  BY <1>37 DEF PurgeRaises
<1>38. CASE UNCHANGED vars
  BY <1>38
<1> QED
  BY <1>1, <1>2, <1>3, <1>4, <1>5, <1>6, <1>7, <1>8, <1>9, <1>10, <1>11, <1>12, <1>13,
     <1>14, <1>15, <1>16, <1>17, <1>18, <1>19, <1>20, <1>21, <1>22, <1>23, <1>24, <1>25,
     <1>26, <1>27, <1>28, <1>29, <1>30, <1>31, <1>32, <1>33, <1>34, <1>35, <1>36, <1>37,
     <1>38
  DEF Next, RecorderStep, Boot, Tick, Sampling, Judging, Starting, Stopping, VisitorStep

-----------------------------------------------------------------------------
(* The theorems, for every setting. *)

THEOREM InvCorrect == Spec => []Inv
<1>1. Init => Inv
  BY InitInv
<1>2. Inv /\ [Next]_vars => Inv'
  BY StepInv
<1> QED
  BY <1>1, <1>2, PTL DEF Spec

\* Every variable keeps its type; the counters stay within their bounds.
THEOREM TypeCorrect == Spec => []TypeOK
<1>1. Inv => TypeOK
  BY DEF Inv, Control, TypeOK
<1> QED
  BY <1>1, InvCorrect, PTL

\* No recording goes on unaware of a visitor, whatever the two threads interleave.
THEOREM VisitActedOn == Spec => []VisitIsActedOn
<1>1. Inv => VisitIsActedOn
  BY DEF Inv, Control
<1> QED
  BY <1>1, InvCorrect, PTL

\* No recording is opened once a request has been noted.
THEOREM NeverOpensAfterVisit == Spec => NoOpenAfterVisit
<1>1. Inv /\ [Next]_vars => [OpensFile => ~httpSeen]_vars
  <2> SUFFICES ASSUME Inv, Next, OpensFile
               PROVE  ~httpSeen
    BY DEF vars
  <2>1. OpenSucceeds
    BY DEF OpensFile, Next, RecorderStep, Boot, Tick, Sampling, Judging, Starting,
           Stopping, VisitorStep, ConnectFails, ConnectOk, HoldEnds, HoldDecides,
           LeaveLoop, TickDiscard, TickStop, TickSeen, PollFails, PollOk, WriteFails,
           BlockWritten, PurgeRaises, DiskLow, DiskEnough, SegmentDue, SegmentNotDue, JudgeNothing,
           JudgeSettled, JudgeUnstable, StartLocks, StartChecks, OpenFails, Stop, Close,
           Finalise, Retire, StopReturns, Shutdown, Signal, Restart, VisitorLocks,
           VisitorSeen, VisitorDooms, PressReads, PressAsks, thread
  <2> QED
    BY <2>1 DEF OpenSucceeds, Inv, Control, LockInv
<1> QED
  BY <1>1, InvCorrect, PTL DEF Spec, NoOpenAfterVisit

\* An error is left only by a new process.
THEOREM ErrorStays == Spec => ErrorIsFinal
<1>1. Inv /\ [Next]_vars => [state = "error" /\ pc # "exited" => state' = "error"]_vars
  <2> SUFFICES ASSUME Inv, Next, state = "error", pc # "exited"
               PROVE  state' = "error"
    BY DEF vars
  <2> USE DEF Inv, Control, StateInv, StartInv, StopInv, InStop, InStart
  <2>1. CASE ConnectFails
    BY <2>1 DEF ConnectFails
  <2>2. CASE ConnectOk
    BY <2>2 DEF ConnectOk
  <2>3. CASE HoldDecides
    BY <2>3 DEF HoldDecides
  <2>4. CASE TickSeen
    BY <2>4 DEF TickSeen
  <2>5. CASE WriteFails
    BY <2>5 DEF WriteFails
  <2>6. CASE DiskLow
    BY <2>6 DEF DiskLow
  <2>7. CASE StartChecks
    BY <2>7 DEF StartChecks
  <2>8. CASE OpenSucceeds
    BY <2>8 DEF OpenSucceeds
  <2>9. CASE OpenFails
    BY <2>9 DEF OpenFails
  <2>10. CASE StopReturns
    BY <2>10 DEF StopReturns, StopCallers
  <2>11. CASE Restart
    BY <2>11 DEF Restart
  <2>12. CASE UNCHANGED state
    BY <2>12
  <2> QED
    BY <2>1, <2>2, <2>3, <2>4, <2>5, <2>6, <2>7, <2>8, <2>9, <2>10, <2>11, <2>12
    DEF Next, RecorderStep, Boot, Tick, Sampling, Judging, Starting, Stopping, VisitorStep,
        HoldEnds, LeaveLoop, TickDiscard, TickStop, PollFails, PollOk, BlockWritten,
        PurgeRaises, DiskEnough, SegmentDue, SegmentNotDue, JudgeNothing, JudgeSettled,
        JudgeUnstable, StartLocks, Stop, Close, Finalise, Retire, Shutdown, Signal,
        VisitorLocks, VisitorSeen, VisitorDooms, PressReads, PressAsks, shared
<1> QED
  BY <1>1, InvCorrect, PTL DEF Spec, ErrorIsFinal

\* Samples never cross from one recording to the next (_start_recording, _stop_recording).
THEOREM PendingCorrect == Spec => []NoSampleCrossesRecordings
<1>1. Inv => NoSampleCrossesRecordings
  BY RecorderAssumption
  DEF Inv, Control, PendingInv, CountersOK, NoSampleCrossesRecordings
<1> QED
  BY <1>1, InvCorrect, PTL

\* A refused block is never written a second time from inside the stop that it causes
\* (_flush_block, _stop_recording).
THEOREM FlushEnds == Spec => []FlushNeverReenters
<1>1. Inv => FlushNeverReenters
  BY RecorderAssumption
  DEF Inv, Control, PendingInv, CountersOK, FlushNeverReenters
<1> QED
  BY <1>1, InvCorrect, PTL

\* At OPEN_FAILURE_LIMIT the device has stopped trying.
THEOREM LimitRespected == Spec => []GivesUpAtLimit
<1>1. Inv => GivesUpAtLimit
  BY RecorderAssumption
  DEF Inv, Control, FailuresInv, CountersOK, PlacesOK, States, GivesUpAtLimit
<1> QED
  BY <1>1, InvCorrect, PTL

\* A process that has ended left nothing open.
THEOREM NothingLeftOpen == Spec => []ExitLeavesNothingOpen
<1>1. Inv => ExitLeavesNothingOpen
  BY DEF Inv, Control, WriterInv, PendingInv, ExitLeavesNothingOpen
<1> QED
  BY <1>1, InvCorrect, PTL

\* _start_lock does what it is for: a request is never inside note_http_request while another
\* is, nor while the recorder thread is between its check of _http_seen and the opening.
THEOREM OneAtATime ==
  Spec => [](\A v, w \in Visitors :
               vpc[v] \in {"noting", "noted"} =>
                 /\ pc \notin {"check", "open"}
                 /\ vpc[w] \in {"noting", "noted"} => v = w)
<1>1. Inv => \A v, w \in Visitors :
               vpc[v] \in {"noting", "noted"} =>
                 /\ pc \notin {"check", "open"}
                 /\ vpc[w] \in {"noting", "noted"} => v = w
  BY RecorderAssumption DEF Inv, Control, LockInv
<1> QED
  BY <1>1, InvCorrect, PTL

-----------------------------------------------------------------------------
(***************************************************************************)
(* The settings the device ships with: one file per measurement, kept on   *)
(* through shaking.  There a promise to discard is always kept.            *)
(***************************************************************************)
Default == ~Segments /\ ~StopOnUnstable

\* A stop is asked for by a request that has been noted, of the latest recording.
AskedInv ==
    /\ \A v \in Visitors : vpc[v] \in {"noted", "pressed", "asking"} => httpSeen
    /\ wantStop => httpSeen /\ stopAsked
    /\ pc \in InStop /\ caller = "manual" => stopAsked

\* The calls these settings rule out, and what the others pass.
CallersInv ==
    /\ caller \notin {"segment", "unstable"}
    /\ pc \in {"stop", "close", "finalise"} /\ caller = "discarded" => discard
    /\ caller = "exit" => pc \in InStop \cup {"exited"}

\* A recording the device reports has its file open.
OpenInv ==
    /\ state = "recording" /\ pc \notin InStop \cup {"shutdown", "exited"} => writer
    /\ pc = "stop" /\ caller # "exit" => writer
    /\ writer \/ pc = "finalise" => recording = "partial"

\* Where a promise to discard stands, unless one of the listed exceptions came first.
DoomInv ==
    doomed /\ ~stopAsked /\ state # "error" /\ caller # "exit" =>
      \/ writer /\ wantDiscard
      \/ writer /\ discard /\ pc \in {"stop", "close"}
      \/ discard /\ pc \in {"finalise", "retire"}
      \/ recording \in {"trash", "corrupt", "partial"} /\ ~writer /\ pc # "finalise"

DefaultInv == AskedInv /\ CallersInv /\ OpenInv /\ DoomInv

LEMMA DefaultInit == Default /\ Init => DefaultInv
  BY DEF Default, Init, DefaultInv, AskedInv, CallersInv, OpenInv, DoomInv, InStop

LEMMA DefaultStep == Default /\ Inv /\ DefaultInv /\ [Next]_vars => DefaultInv'
<1> SUFFICES ASSUME Default, Inv, DefaultInv, [Next]_vars
             PROVE  DefaultInv'
  OBVIOUS
<1> USE RecorderAssumption
    DEF Default, DefaultInv, AskedInv, CallersInv, OpenInv, DoomInv, Inv, Control,
        FlagsOK, PlacesOK, StopInv, StartInv, StateInv, WriterInv, LockInv, InStop,
        InStart, States, Points, StopCallers, StartCallers, vars, shared, thread, card,
        web, history, Goto, CallStop, CallStart, StartReturns
<1>1. CASE ConnectFails
  BY <1>1 DEF ConnectFails
<1>2. CASE ConnectOk
  BY <1>2 DEF ConnectOk
<1>3. CASE HoldEnds
  BY <1>3 DEF HoldEnds
<1>4. CASE HoldDecides
  BY <1>4 DEF HoldDecides
<1>5. CASE LeaveLoop
  BY <1>5 DEF LeaveLoop
<1>6. CASE TickDiscard
  BY <1>6 DEF TickDiscard
<1>7. CASE TickStop
  BY <1>7 DEF TickStop
<1>8. CASE TickSeen
  BY <1>8 DEF TickSeen
<1>9. CASE PollFails
  BY <1>9 DEF PollFails
<1>10. CASE PollOk
  BY <1>10 DEF PollOk
<1>11. CASE WriteFails
  BY <1>11 DEF WriteFails
<1>12. CASE BlockWritten
  BY <1>12 DEF BlockWritten
<1>13. CASE DiskLow
  BY <1>13 DEF DiskLow
<1>14. CASE DiskEnough
  BY <1>14 DEF DiskEnough
<1>15. CASE SegmentDue
  BY <1>15 DEF SegmentDue
<1>16. CASE SegmentNotDue
  BY <1>16 DEF SegmentNotDue
<1>17. CASE JudgeNothing
  BY <1>17 DEF JudgeNothing
<1>18. CASE JudgeSettled
  BY <1>18 DEF JudgeSettled
<1>19. CASE JudgeUnstable
  BY <1>19 DEF JudgeUnstable
<1>20. CASE StartLocks
  BY <1>20 DEF StartLocks
<1>21. CASE StartChecks
  BY <1>21 DEF StartChecks
<1>22. CASE OpenSucceeds
  BY <1>22 DEF OpenSucceeds
<1>23. CASE OpenFails
  BY <1>23 DEF OpenFails
<1>24. CASE Stop
  <2>0. IF writer THEN pc' = "close" ELSE pc' = "stopped"
    BY <1>24 DEF Stop, PendingInv, CountersOK
  <2>1. AskedInv'
    BY <1>24 DEF Stop
  <2>2. CallersInv'
    BY <1>24, <2>0 DEF Stop
  <2>3. OpenInv'
    BY <1>24 DEF Stop
  <2>4. DoomInv'
    BY <1>24, <2>0 DEF Stop
  <2> QED
    BY <2>1, <2>2, <2>3, <2>4
<1>25. CASE Close
  BY <1>25 DEF Close
<1>26. CASE Finalise
  BY <1>26 DEF Finalise
<1>27. CASE Retire
  BY <1>27 DEF Retire
<1>28. CASE StopReturns
  BY <1>28 DEF StopReturns
<1>29. CASE Shutdown
  BY <1>29 DEF Shutdown
<1>30. CASE Signal
  BY <1>30 DEF Signal
<1>31. CASE Restart
  BY <1>31 DEF Restart
<1>32. ASSUME NEW v \in Visitors, VisitorLocks(v)
      PROVE  DefaultInv'
  BY <1>32 DEF VisitorLocks
<1>33. ASSUME NEW v \in Visitors, VisitorSeen(v)
      PROVE  DefaultInv'
  BY <1>33 DEF VisitorSeen
<1>34. ASSUME NEW v \in Visitors, VisitorDooms(v)
      PROVE  DefaultInv'
  BY <1>34 DEF VisitorDooms
<1>35. ASSUME NEW v \in Visitors, PressReads(v)
      PROVE  DefaultInv'
  BY <1>35 DEF PressReads
<1>36. ASSUME NEW v \in Visitors, PressAsks(v)
      PROVE  DefaultInv'
  BY <1>36 DEF PressAsks
<1>37. CASE PurgeRaises
  BY <1>37 DEF PurgeRaises
<1>38. CASE UNCHANGED vars
  BY <1>38
<1> QED
  BY <1>1, <1>2, <1>3, <1>4, <1>5, <1>6, <1>7, <1>8, <1>9, <1>10, <1>11, <1>12, <1>13,
     <1>14, <1>15, <1>16, <1>17, <1>18, <1>19, <1>20, <1>21, <1>22, <1>23, <1>24, <1>25,
     <1>26, <1>27, <1>28, <1>29, <1>30, <1>31, <1>32, <1>33, <1>34, <1>35, <1>36, <1>37,
     <1>38
  DEF Next, RecorderStep, Boot, Tick, Sampling, Judging, Starting, Stopping, VisitorStep

THEOREM DefaultInvCorrect == Default => (Spec => []DefaultInv)
<1> SUFFICES ASSUME Default
             PROVE  Spec => []DefaultInv
  OBVIOUS
<1>1. Init => DefaultInv
  BY DefaultInit
<1>2. Inv /\ DefaultInv /\ [Next]_vars => DefaultInv'
  BY DefaultStep
<1> QED
  BY <1>1, <1>2, InvCorrect, PTL DEF Spec

\* With the shipped settings the recording a visitor interrupted never stays in the
\* operator's list, however the request and the recorder thread interleave.
THEOREM DiscardIsHonoured == Default => (Spec => []DiscardHonoured)
<1> SUFFICES ASSUME Default
             PROVE  Spec => []DiscardHonoured
  OBVIOUS
<1>1. Inv /\ DefaultInv => DiscardHonoured
  BY DEF Inv, Control, WriterInv, DefaultInv, OpenInv, DoomInv, DiscardHonoured
<1> QED
  BY <1>1, InvCorrect, DefaultInvCorrect, PTL

\* With the shipped settings a device that says it is recording has a file open.
THEOREM RecordingHasFile == Default => (Spec => []RecordingMeansFileOpen)
<1> SUFFICES ASSUME Default
             PROVE  Spec => []RecordingMeansFileOpen
  OBVIOUS
<1>1. Inv /\ DefaultInv => RecordingMeansFileOpen
  BY Zenon DEF Inv, Control, FlagsOK, WriterInv, DefaultInv, OpenInv, InStop,
               RecordingMeansFileOpen
<1> QED
  BY <1>1, InvCorrect, DefaultInvCorrect, PTL

-----------------------------------------------------------------------------
(***************************************************************************)
(* Recorder implements Measurement.  What a step may do to the measurement *)
(* depends on why the recorder thread is where it is.                      *)
(***************************************************************************)

\* A request speaks for a visitor that was noted.
NotedInv ==
    /\ \A v \in Visitors : vpc[v] \in {"noted", "pressed", "asking"} => httpSeen
    /\ wantStop \/ wantDiscard => httpSeen

\* Who is ending the recording may do so.
ReasonInv ==
    /\ pc \in InStop =>
         /\ caller \in {"discarded", "manual"} => httpSeen
         /\ caller = "segment" => Segments
         /\ caller = "unstable" => StopOnUnstable
    /\ caller = "exit" => pc \in InStop \cup {"exited"}

\* What became of the recording that is open or just closed is not decided, and it is
\* thrown away only if a visitor was told so.
FateInv ==
    /\ writer \/ pc = "finalise" => recording = "partial"
    /\ pc = "retire" => recording = "listed"
    /\ wantDiscard /\ writer => doomed
    /\ discard /\ pc \in {"stop", "close", "finalise", "retire"} /\ (pc = "stop" => writer)
         => doomed

ReasonedInv == NotedInv /\ ReasonInv /\ FateInv

LEMMA ReasonedInit == Init => ReasonedInv
  BY DEF Init, ReasonedInv, NotedInv, ReasonInv, FateInv, InStop

LEMMA ReasonedStep == Inv /\ ReasonedInv /\ [Next]_vars => ReasonedInv'
<1> SUFFICES ASSUME Inv, ReasonedInv, [Next]_vars
             PROVE  ReasonedInv'
  OBVIOUS
<1> USE RecorderAssumption
    DEF ReasonedInv, NotedInv, ReasonInv, FateInv, Inv, Control,
        FlagsOK, PlacesOK, StopInv, StartInv, StateInv, WriterInv, LockInv, InStop,
        InStart, States, Points, StopCallers, StartCallers, vars, shared, thread, card,
        web, history, Goto, CallStop, CallStart, StartReturns
<1>1. CASE ConnectFails
  BY <1>1 DEF ConnectFails
<1>2. CASE ConnectOk
  BY <1>2 DEF ConnectOk
<1>3. CASE HoldEnds
  BY <1>3 DEF HoldEnds
<1>4. CASE HoldDecides
  BY <1>4 DEF HoldDecides
<1>5. CASE LeaveLoop
  BY <1>5 DEF LeaveLoop
<1>6. CASE TickDiscard
  BY <1>6 DEF TickDiscard
<1>7. CASE TickStop
  BY <1>7 DEF TickStop
<1>8. CASE TickSeen
  BY <1>8 DEF TickSeen
<1>9. CASE PollFails
  BY <1>9 DEF PollFails
<1>10. CASE PollOk
  BY <1>10 DEF PollOk
<1>11. CASE WriteFails
  BY <1>11 DEF WriteFails
<1>12. CASE BlockWritten
  BY <1>12 DEF BlockWritten
<1>13. CASE DiskLow
  BY <1>13 DEF DiskLow
<1>14. CASE DiskEnough
  BY <1>14 DEF DiskEnough
<1>15. CASE SegmentDue
  BY <1>15 DEF SegmentDue
<1>16. CASE SegmentNotDue
  BY <1>16 DEF SegmentNotDue
<1>17. CASE JudgeNothing
  BY <1>17 DEF JudgeNothing
<1>18. CASE JudgeSettled
  BY <1>18 DEF JudgeSettled
<1>19. CASE JudgeUnstable
  BY <1>19 DEF JudgeUnstable
<1>20. CASE StartLocks
  BY <1>20 DEF StartLocks
<1>21. CASE StartChecks
  BY <1>21 DEF StartChecks
<1>22. CASE OpenSucceeds
  BY <1>22 DEF OpenSucceeds
<1>23. CASE OpenFails
  BY <1>23 DEF OpenFails
<1>24. CASE Stop
  <2>1. IF writer THEN pc' = "close" ELSE pc' = "stopped"
    BY <1>24 DEF Stop, PendingInv, CountersOK
  <2> QED
    BY <1>24, <2>1 DEF Stop
<1>25. CASE Close
  BY <1>25 DEF Close
<1>26. CASE Finalise
  BY <1>26 DEF Finalise
<1>27. CASE Retire
  BY <1>27 DEF Retire
<1>28. CASE StopReturns
  BY <1>28 DEF StopReturns
<1>29. CASE Shutdown
  BY <1>29 DEF Shutdown
<1>30. CASE Signal
  BY <1>30 DEF Signal
<1>31. CASE Restart
  BY <1>31 DEF Restart
<1>32. ASSUME NEW v \in Visitors, VisitorLocks(v)
      PROVE  ReasonedInv'
  BY <1>32 DEF VisitorLocks
<1>33. ASSUME NEW v \in Visitors, VisitorSeen(v)
      PROVE  ReasonedInv'
  BY <1>33 DEF VisitorSeen
<1>34. ASSUME NEW v \in Visitors, VisitorDooms(v)
      PROVE  ReasonedInv'
  BY <1>34 DEF VisitorDooms
<1>35. ASSUME NEW v \in Visitors, PressReads(v)
      PROVE  ReasonedInv'
  BY <1>35 DEF PressReads
<1>36. ASSUME NEW v \in Visitors, PressAsks(v)
      PROVE  ReasonedInv'
  BY <1>36 DEF PressAsks
<1>37. CASE PurgeRaises
  BY <1>37 DEF PurgeRaises
<1>38. CASE UNCHANGED vars
  BY <1>38
<1> QED
  BY <1>1, <1>2, <1>3, <1>4, <1>5, <1>6, <1>7, <1>8, <1>9, <1>10, <1>11, <1>12, <1>13,
     <1>14, <1>15, <1>16, <1>17, <1>18, <1>19, <1>20, <1>21, <1>22, <1>23, <1>24, <1>25,
     <1>26, <1>27, <1>28, <1>29, <1>30, <1>31, <1>32, <1>33, <1>34, <1>35, <1>36, <1>37,
     <1>38
  DEF Next, RecorderStep, Boot, Tick, Sampling, Judging, Starting, Stopping, VisitorStep

THEOREM ReasonedInvCorrect == Spec => []ReasonedInv
<1>1. Init => ReasonedInv
  BY ReasonedInit
<1>2. Inv /\ ReasonedInv /\ [Next]_vars => ReasonedInv'
  BY ReasonedStep
<1> QED
  BY <1>1, <1>2, InvCorrect, PTL DEF Spec

\* Every step of the two threads is a step of the measurement, or none to it.
LEMMA PromisedStep == Inv /\ ReasonedInv /\ [Next]_vars => [Promised!Next]_(Promised!vars)
<1> SUFFICES ASSUME Inv, ReasonedInv, [Next]_vars, ~UNCHANGED Promised!vars
             PROVE  Promised!Next
  OBVIOUS
<1> USE RecorderAssumption
    DEF ReasonedInv, NotedInv, ReasonInv, FateInv, Inv, Control, FlagsOK, PlacesOK, StopInv,
        StartInv, StateInv, WriterInv, LockInv, InStop, InStart, States, Points,
        StopCallers, StartCallers, shared, thread, card, web, history, Goto, CallStop,
        CallStart, StartReturns, Promised!vars, Promised!Next
<1>1. CASE ConnectFails
  BY <1>1 DEF ConnectFails, Promised!Fail
<1>2. CASE ConnectOk
  BY <1>2 DEF ConnectOk, Promised!GoOn
<1>3. CASE HoldDecides
  BY <1>3 DEF HoldDecides, Promised!GoOn
<1>4. CASE LeaveLoop
  BY <1>4 DEF LeaveLoop, Promised!End
<1>5. CASE PurgeRaises
  BY <1>5 DEF PurgeRaises, Promised!End
<1>6. CASE TickSeen
  BY <1>6 DEF TickSeen, Promised!GoOn
<1>7. CASE WriteFails
  BY <1>7 DEF WriteFails, Promised!Fail
<1>8. CASE DiskLow
  BY <1>8 DEF DiskLow, Promised!Fail
<1>9. CASE StartChecks
  BY <1>9 DEF StartChecks, Promised!GoOn
<1>10. CASE OpenSucceeds
  BY <1>10 DEF OpenSucceeds, Promised!Begin
<1>11. CASE OpenFails
  BY <1>11 DEF OpenFails, Promised!GoOn
<1>12. CASE Close
  BY <1>12 DEF Close, Promised!Close
<1>13. CASE Finalise
  BY <1>13 DEF Finalise, Promised!Keep
<1>14. CASE Retire
  BY <1>14 DEF Retire, Promised!Discard, Promised!End
<1>15. CASE StopReturns
  BY <1>15 DEF StopReturns, Promised!GoOn
<1>16. CASE Restart
  BY <1>16 DEF Restart, Promised!StartAgain
<1>17. ASSUME NEW v \in Visitors, VisitorSeen(v)
      PROVE  Promised!Next
  BY <1>17 DEF VisitorSeen, Promised!Visit
<1>18. ASSUME NEW v \in Visitors, VisitorDooms(v)
      PROVE  Promised!Next
  BY <1>18 DEF VisitorDooms, Promised!Promise
<1>19. CASE HoldEnds
  BY <1>19 DEF HoldEnds
<1>20. CASE TickDiscard
  BY <1>20 DEF TickDiscard
<1>21. CASE TickStop
  BY <1>21 DEF TickStop
<1>22. CASE PollFails
  BY <1>22 DEF PollFails
<1>23. CASE PollOk
  BY <1>23 DEF PollOk
<1>24. CASE BlockWritten
  BY <1>24 DEF BlockWritten
<1>25. CASE DiskEnough
  BY <1>25 DEF DiskEnough
<1>26. CASE SegmentDue
  BY <1>26 DEF SegmentDue
<1>27. CASE SegmentNotDue
  BY <1>27 DEF SegmentNotDue
<1>28. CASE JudgeNothing
  BY <1>28 DEF JudgeNothing
<1>29. CASE JudgeSettled
  BY <1>29 DEF JudgeSettled
<1>30. CASE JudgeUnstable
  BY <1>30 DEF JudgeUnstable
<1>31. CASE StartLocks
  BY <1>31 DEF StartLocks
<1>32. CASE Stop
  BY <1>32 DEF Stop
<1>33. CASE Shutdown
  BY <1>33 DEF Shutdown
<1>34. CASE Signal
  BY <1>34 DEF Signal
<1>35. ASSUME NEW v \in Visitors, VisitorLocks(v)
      PROVE  FALSE
  BY <1>35 DEF VisitorLocks
<1>36. ASSUME NEW v \in Visitors, PressReads(v)
      PROVE  FALSE
  BY <1>36 DEF PressReads
<1>37. ASSUME NEW v \in Visitors, PressAsks(v)
      PROVE  FALSE
  BY <1>37 DEF PressAsks
<1>38. CASE UNCHANGED vars
  BY <1>38 DEF vars
<1> QED
  BY <1>1, <1>2, <1>3, <1>4, <1>5, <1>6, <1>7, <1>8, <1>9, <1>10, <1>11, <1>12, <1>13,
     <1>14, <1>15, <1>16, <1>17, <1>18, <1>19, <1>20, <1>21, <1>22, <1>23, <1>24, <1>25,
     <1>26, <1>27, <1>28, <1>29, <1>30, <1>31, <1>32, <1>33, <1>34, <1>35, <1>36, <1>37,
     <1>38
  DEF Next, RecorderStep, Boot, Tick, Sampling, Judging, Starting, Stopping, VisitorStep

\* The recorder implements the measurement it promises, for every setting and any number of
\* visitors: what the threads, the lock and the flags add is invisible to it.
THEOREM MeasurementIsKept == Spec => KeepsThePromise
<1>1. Init => Promised!Init
  BY DEF Init, Promised!Init
<1>2. Inv /\ ReasonedInv /\ [Next]_vars => [Promised!Next]_(Promised!vars)
  BY PromisedStep
<1> QED
  BY <1>1, <1>2, InvCorrect, ReasonedInvCorrect, PTL DEF Spec, KeepsThePromise, Promised!Spec

=============================================================================
