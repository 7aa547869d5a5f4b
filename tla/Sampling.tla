------------------------------ MODULE Sampling ------------------------------
(***************************************************************************)
(* What the recording loop does with the sensor: SensorLink and its        *)
(* back-off, one poll (_poll_once), the block that is being filled, the    *)
(* window of stability.py and the verdict once per block.  The states of   *)
(* the recorder are here only as far as they decide what a poll is for;    *)
(* module Recorder has the rest of them.                                   *)
(*                                                                         *)
(* Time is counted in sample periods.  A reading is still or not: a window *)
(* is stable when it has enough readings and all of them are still, which  *)
(* stands for the three metrics and their limits.                          *)
(***************************************************************************)
EXTENDS Integers, FiniteSets

CONSTANTS
    BlockSize,      \* af.SAMPLES_PER_BLOCK, 25
    MinSamples,     \* stability_min_samples, 100
    Window,         \* stability_window_seconds in sample periods, 125
    Slowest,        \* bound on the periods one poll takes
    BackoffMin, BackoffMax  \* RECONNECT_MIN_S, RECONNECT_MAX_S

ASSUME SamplingAssumption ==
    /\ BlockSize \in Nat \ {0} /\ MinSamples \in Nat \ {0} /\ Window \in Nat
    /\ Slowest \in Nat \ {0}
    /\ BackoffMin \in Nat \ {0} /\ BackoffMax \in Nat /\ BackoffMin <= BackoffMax

VARIABLES
    stopOnUnstable, \* the setting of that name
    state,      \* "hold" (waiting_http), "waiting_stable", "recording"; "idle" is
                \* maintenance or error
    open,       \* there is a writer
    pc,         \* where in a tick the thread is
    link,       \* sensor.device is not None
    fresh,      \* sensor.reconnected
    angles,     \* deviceData holds the angles
    wait,       \* time until _next_attempt
    backoff,    \* sensor._backoff
    window,     \* the monitor's readings, as <<age, still>>
    since,      \* _since_judged
    pending,    \* samples in _pending
    flags,      \* _block_flags
    own,        \* history: what happened to this recording since its last block
    inherited,  \* history: flags that were up when it was opened, until its first block
    rough,      \* history: the last verdict on this recording was "not stable"
    calm        \* history: still readings since the last other one or failed read

sensor  == <<link, fresh, angles, wait, backoff>>
judging == <<window, since, calm>>
block   == <<pending, flags, own, inherited>>
vars    == <<stopOnUnstable, state, open, pc, sensor, judging, block, rough>>

Flags == {"READ_FAILED", "RECONNECTED", "UNSTABLE"}

TypeOK ==
    /\ stopOnUnstable \in BOOLEAN
    /\ state \in {"hold", "waiting_stable", "recording", "idle"}
    /\ open \in BOOLEAN /\ rough \in BOOLEAN
    /\ link \in BOOLEAN /\ fresh \in BOOLEAN /\ angles \in BOOLEAN
    /\ pc \in {"tick", "read", "flush", "judge"}
    /\ wait \in 0..BackoffMax /\ backoff \in BackoffMin..BackoffMax
    /\ window \subseteq (0..Window) \X BOOLEAN
    /\ since \in 0..BlockSize - 1 /\ pending \in 0..BlockSize
    /\ flags \subseteq Flags /\ own \subseteq Flags /\ inherited \subseteq Flags
    /\ calm \in 0..MinSamples

\* run has connected to the sensor: the boot holds, the wait for stability, or a
\* recording that was asked for on the command line.
Init ==
    /\ stopOnUnstable \in BOOLEAN
    /\ state \in {"hold", "waiting_stable", "recording"}
    /\ open = (state = "recording")
    /\ pc = "tick"
    /\ link = TRUE /\ fresh = TRUE /\ angles = FALSE
    /\ wait = 0 /\ backoff = BackoffMin
    /\ window = {} /\ since = 0 /\ calm = 0
    /\ pending = 0 /\ flags = {} /\ own = {} /\ inherited = {}
    /\ rough = FALSE

-----------------------------------------------------------------------------
(* The life of a recording, as far as it touches the block being filled. *)

\* _open_recording: what is left in _block_flags stays there.
Open ==
    /\ open' = TRUE
    /\ pending' = 0 /\ own' = {} /\ inherited' = flags'

\* _stop_recording: the tail that fills no block is dropped, its flags are not.
Close ==
    /\ open' = FALSE
    /\ pending' = 0
    /\ UNCHANGED <<flags, own, inherited>>

\* The hold ends, or a visitor, a stop or an error takes the device out of measuring.
Leave ==
    /\ pc = "tick" /\ state # "idle"
    /\ \/ state' = "idle" /\ Close
       \/ state = "hold" /\ state' = "waiting_stable" /\ UNCHANGED <<open, block>>
    /\ UNCHANGED <<pc, sensor, judging, rough>>

-----------------------------------------------------------------------------
(* One poll. *)

\* Mutant: the monitor keeps what it had.
Failed_NoReset ==
    /\ since' = 0 /\ calm' = 0
    /\ flags' = flags \cup {"READ_FAILED"} /\ own' = own \cup {"READ_FAILED"}
    /\ pc' = "tick"
    /\ UNCHANGED <<state, open, window, pending, inherited, rough>>

\* _sensor_read_failed, after which the tick is over.
Failed ==
    /\ window' = {} /\ since' = 0 /\ calm' = 0
    /\ flags' = flags \cup {"READ_FAILED"} /\ own' = own \cup {"READ_FAILED"}
    /\ pc' = "tick"
    /\ UNCHANGED <<state, open, pending, inherited, rough>>

Polling == pc = "tick" /\ state # "idle"

LinkUp ==
    /\ Polling /\ link
    /\ pc' = "read"
    /\ UNCHANGED <<state, open, sensor, judging, block, rough>>

\* Mutant: every look at a link that is down puts the next attempt off.
TooEarly_Rearms ==
    /\ Polling /\ ~link /\ wait > 0
    /\ Failed
    /\ wait' = backoff
    /\ UNCHANGED <<link, fresh, angles, backoff>>

\* Before _next_attempt nothing is tried.
TooEarly ==
    /\ Polling /\ ~link /\ wait > 0
    /\ Failed
    /\ wait' = wait - 1
    /\ UNCHANGED <<link, fresh, angles, backoff>>

\* connectAutoBaud finds no sensor at any speed: the wait doubles up to BackoffMax.
ConnectFails ==
    /\ Polling /\ ~link /\ wait = 0
    /\ Failed
    /\ wait' = backoff
    /\ backoff' = IF 2 * backoff < BackoffMax THEN 2 * backoff ELSE BackoffMax
    /\ UNCHANGED <<link, fresh, angles>>

\* connectAutoBaud finds it: a new device object, with nothing in its deviceData.
Found == link' = TRUE /\ angles' = FALSE

ConnectOk ==
    /\ Polling /\ ~link /\ wait = 0
    /\ Found
    /\ fresh' = TRUE /\ backoff' = BackoffMin
    /\ pc' = "read"
    /\ UNCHANGED <<state, open, wait, judging, block, rough>>

\* drop, with the next attempt put off.
Drop == link' = FALSE /\ wait' = backoff /\ UNCHANGED <<fresh, angles, backoff>>

\* readReg returns nothing or raises.
ReadError ==
    /\ pc = "read"
    /\ Failed
    /\ Drop

\* A reply too short for parseRegisters, with nothing in deviceData from before: the poll
\* has failed over a link that stays up.  (When there is something it is taken again as
\* if it were new, which is one of the readings of Take.)
ShortReply ==
    /\ pc = "read" /\ ~angles
    /\ window' = {} /\ since' = 0 /\ calm' = 0
    /\ LET raised == {"READ_FAILED"} \cup (IF fresh THEN {"RECONNECTED"} ELSE {})
       IN  flags' = flags \cup raised /\ own' = own \cup raised
    /\ fresh' = FALSE
    /\ pc' = "tick"
    /\ UNCHANGED <<state, open, link, angles, wait, backoff, pending, inherited, rough>>

\* StabilityMonitor.add, t after the reading before.
Add(still, t) ==
    {r \in {<<q[1] + t, q[2]>> : q \in window} : r[1] <= Window} \cup {<<0, still>>}

\* A reading, t periods after the last one.  It goes to the monitor and, in a recording,
\* to the block; the boot holds leave it at that.
Take(still, t) ==
    /\ pc = "read"
    /\ angles' = TRUE
    /\ LET raised == IF fresh THEN {"RECONNECTED"} ELSE {}
       IN  flags' = flags \cup raised /\ own' = own \cup raised
    /\ fresh' = FALSE
    /\ window' = Add(still, t)
    /\ calm' = IF ~still THEN 0 ELSE IF calm < MinSamples THEN calm + 1 ELSE calm
    /\ pending' = IF state = "recording" /\ open THEN pending + 1 ELSE pending
    /\ pc' = IF pending' = BlockSize THEN "flush" ELSE IF state = "hold" THEN "tick" ELSE "judge"
    /\ UNCHANGED <<state, open, link, wait, backoff, since, inherited, rough>>

Still  == \E t \in 1..Slowest : Take(TRUE, t)
Moving == \E t \in 1..Slowest : Take(FALSE, t)

-----------------------------------------------------------------------------
(* _flush_block with a full block. *)

\* Mutant: the marks are left for the next block.
WriteBlock_KeepsMarks ==
    /\ pc = "flush"
    /\ UNCHANGED flags /\ own' = {} /\ inherited' = {} /\ pending' = 0
    /\ \/ UNCHANGED <<state, open>>
       \/ state' = "idle" /\ open' = FALSE
       \/ state' = state /\ open' = FALSE
    /\ pc' = "judge"
    /\ UNCHANGED <<sensor, judging, rough>>

\* The block goes out; then the disk or a segment boundary may end the recording, and
\* the opening of the next segment may be refused.
WriteBlock ==
    /\ pc = "flush"
    /\ flags' = {} /\ own' = {} /\ inherited' = {} /\ pending' = 0
    /\ \/ UNCHANGED <<state, open>>
       \/ state' = "idle" /\ open' = FALSE
       \/ state' = state /\ open' = FALSE
    /\ pc' = "judge"
    /\ UNCHANGED <<sensor, judging, rough>>

\* The card refuses the block, which is dropped with its flags.
WriteFails ==
    /\ pc = "flush"
    /\ flags' = {} /\ own' = {} /\ inherited' = {} /\ pending' = 0
    /\ state' = "idle" /\ open' = FALSE
    /\ pc' = "judge"
    /\ UNCHANGED <<sensor, judging, rough>>

-----------------------------------------------------------------------------
(* The verdict, once per BlockSize readings. *)

\* evaluate: enough readings, and every metric within its limit.
Stable == Cardinality(window) >= MinSamples /\ \A r \in window : r[2]

NotYet ==
    /\ pc = "judge" /\ since + 1 < BlockSize
    /\ since' = since + 1
    /\ pc' = "tick"
    /\ UNCHANGED <<state, open, sensor, window, calm, block, rough>>

Due ==
    /\ pc = "judge" /\ since + 1 = BlockSize
    /\ since' = 0
    /\ pc' = "tick"
    /\ UNCHANGED <<sensor, window, calm>>

\* _start_recording, which a visitor or the card may refuse.
Settled ==
    /\ Due
    /\ state = "waiting_stable" /\ Stable
    /\ \/ state' = "recording" /\ UNCHANGED flags /\ Open
       \/ state' = "idle" /\ UNCHANGED <<open, block>>
       \/ UNCHANGED <<state, open, block>>
    /\ rough' = FALSE

NothingToDo ==
    /\ Due
    /\ state \in {"waiting_stable", "idle"} /\ (state = "waiting_stable" => ~Stable)
    /\ UNCHANGED <<state, open, block, rough>>

\* Mutant: the mark is set where the log line is, the first time only.
Unsettled_Once ==
    /\ Due
    /\ state = "recording" /\ ~Stable
    /\ rough' = TRUE
    /\ flags' = IF rough THEN flags ELSE flags \cup {"UNSTABLE"}
    /\ own' = own \cup {"UNSTABLE"}
    /\ IF stopOnUnstable
         THEN state' = "waiting_stable" /\ open' = FALSE /\ pending' = 0
         ELSE UNCHANGED <<state, open, pending>>
    /\ UNCHANGED inherited

\* The blocks from here on are marked; with stop_on_unstable the recording ends instead.
Unsettled ==
    /\ Due
    /\ state = "recording" /\ ~Stable
    /\ rough' = TRUE
    /\ flags' = flags \cup {"UNSTABLE"} /\ own' = own \cup {"UNSTABLE"}
    /\ IF stopOnUnstable
         THEN state' = "waiting_stable" /\ open' = FALSE /\ pending' = 0
         ELSE UNCHANGED <<state, open, pending>>
    /\ UNCHANGED inherited

SettledAgain ==
    /\ Due
    /\ state = "recording" /\ Stable
    /\ rough' = FALSE
    /\ UNCHANGED <<state, open, block>>

-----------------------------------------------------------------------------
Connect == LinkUp \/ TooEarly \/ ConnectFails \/ ConnectOk
Read    == ReadError \/ ShortReply \/ Still \/ Moving
Flush   == WriteBlock \/ WriteFails
Judge   == NotYet \/ Settled \/ NothingToDo \/ Unsettled \/ SettledAgain

Loop == Connect \/ Read \/ Flush \/ Judge

Next == (Leave \/ Loop) /\ UNCHANGED stopOnUnstable

Spec == Init /\ [][Next]_vars

\* The loop never stops polling; how long a hold lasts is for Recorder to say.
FairSpec == Spec /\ WF_vars(Loop /\ UNCHANGED stopOnUnstable)

-----------------------------------------------------------------------------
(* Properties. *)

\* A block says what happened while it was being filled, a link that was down or came
\* back between two of its samples included, and says nothing else: a mark that is not
\* its own was up when the recording was opened, and is in the first block only
\* (_flush_block, _sensor_read_failed, and the marks _stop_recording leaves).
BlockIsMarked == pc = "flush" => own \subseteq flags /\ flags \subseteq own \cup inherited

\* "Marks the blocks written from here until it settles again" (recorder.py 592): after a
\* verdict "not stable" every block is marked unstable, although each one written clears
\* the marks and the next verdict may be a block away -- or marked as having failed
\* reads, which are what puts a verdict off.
RoughIsMarked == pc = "flush" /\ rough => flags \cap {"UNSTABLE", "READ_FAILED"} # {}

\* A recording that starts by itself starts on MinSamples still readings in a row: no
\* reading from before a failed one or from before a movement counts for it, and none
\* from the boot hold that is too old ("confirms stability anew with new data",
\* README.md 211).
StartsSettled == [][state = "waiting_stable" /\ state' = "recording" => calm >= MinSamples]_vars

\* Once the sensor answers in time, nothing moves and the card lets a file be opened, a
\* device that waits for stability is soon done waiting, whatever link, back-off and
\* window were like before.
Quiet ==
    \/ Leave \/ LinkUp \/ TooEarly \/ ConnectOk \/ Take(TRUE, 1) \/ Flush
    \/ Judge /\ (Settled => state' # "waiting_stable")

StartsInTheEnd == <>[][Quiet]_vars => (state = "waiting_stable" ~> state # "waiting_stable")

\* "When the link is lost in the middle of a recording the file is kept" (README.md
\* 211): no failed read leads to the end of a recording on still readings only.  Not so
\* with stop_on_unstable, because the verdict on a window that was just emptied is "not
\* stable".
LinkLossKeepsFile ==
    [][Unsettled /\ open /\ ~open' => Cardinality(window) >= MinSamples]_vars
=============================================================================
