--------------------------- MODULE BlePeripheral ----------------------------
(***************************************************************************)
(* The Bluetooth service that sets up the Wi-Fi (ble_peripheral.py): the   *)
(* link to a host, the watchdog that drops a silent one and keeps the      *)
(* device to be found while its window is open, the commands and the       *)
(* worker thread that carries them out.                                    *)
(*                                                                         *)
(* Callbacks and timers run one at a time in the GLib loop; the worker is  *)
(* the only other thread.  Outside src/ are the hosts, bluetoothd, which   *)
(* may not say that a link has come or gone, and the kernel, which stops   *)
(* advertising for a connection and may or may not resume after it.  A     *)
(* host that has gone without a word of bluetoothd's leaves its link to    *)
(* the watchdog.  The specification is BleSpec, since BtProofs extends this*)
(* module and WifiConnect, which the worker calls, at once.                *)
(***************************************************************************)
EXTENDS Naturals, Sequences

CONSTANTS
    Hosts,
    Slow,       \* those of them whose lines take several writes, for a small MTU
    Nobody,     \* no host; the asker of a status nobody asked for
    MaxQueue    \* bound on the jobs that wait

ASSUME BleAssumption == Slow \subseteq Hosts /\ Nobody \notin Hosts /\ MaxQueue \in Nat

VARIABLES
    linked,     \* the hosts with a link to the controller
    adv,        \* whether the device can be found
    instance,   \* whether the kernel has the advertising instance
    device,     \* _state["device"]
    notifying,  \* _state["notifying"]
    lastRx,     \* _state["last_rx"]: "none", or within the limit ("now") or not ("late")
    advDirty,   \* _state["adv_dirty"]
    windowOver, \* the time is past window_ends
    windowShut, \* _state["window_shut"]
    rxBuf,      \* whose bytes are in _rx_buf
    txQueue,    \* to whose commands there are answers in _tx_queue
    jobs,       \* _jobs: who asked
    worker,     \* where _worker is
    job,        \* who asked for what it does
    subscribed, \* history: hosts that have subscribed, and neither unsubscribed nor gone
    waiting,    \* history: those of them that wrote a command and have no answer
    forgotten,  \* history: those of these that the service took for unsubscribed at some time
                \* since the command, for their silence or for what another host did
    lost,       \* history: a link has gone unreported since the last _reset_link
    unseen,     \* history: a link has come unreported since the last _reset_link
    stuck       \* history: an attempt to stop the advertising failed

radio   == <<linked, adv, instance>>
link    == <<device, notifying, lastRx, advDirty>>
window  == <<windowOver, windowShut>>
buffers == <<rxBuf, txQueue>>
work    == <<jobs, worker, job>>
owed    == <<subscribed, waiting, forgotten>>
history == <<lost, unseen, stuck>>
bleVars == <<radio, link, window, buffers, work, owed, history>>

BleTypeOK ==
    /\ linked \subseteq Hosts
    /\ adv \in BOOLEAN /\ instance \in BOOLEAN
    /\ device \in Hosts \cup {Nobody} /\ notifying \in BOOLEAN
    /\ lastRx \in {"none", "now", "late"} /\ advDirty \in BOOLEAN
    /\ windowOver \in BOOLEAN /\ windowShut \in BOOLEAN
    /\ rxBuf \subseteq Hosts /\ txQueue \subseteq Hosts
    /\ jobs \in Seq(Hosts \cup {Nobody})
    /\ worker \in {"idle", "taken", "busy"} /\ job \in Hosts \cup {Nobody}
    /\ subscribed \subseteq Hosts /\ waiting \subseteq Hosts /\ forgotten \subseteq Hosts
    /\ lost \in BOOLEAN /\ unseen \in BOOLEAN /\ stuck \in BOOLEAN

\* main, up to the loop: the first advertising has succeeded, or the service would end
\* and be started again.
BleInit ==
    /\ linked = {} /\ adv = TRUE /\ instance = TRUE
    /\ device = Nobody /\ notifying = FALSE /\ lastRx = "none" /\ advDirty = FALSE
    /\ windowOver = FALSE /\ windowShut = FALSE
    /\ rxBuf = {} /\ txQueue = {}
    /\ jobs = <<>> /\ worker = "idle" /\ job = Nobody
    /\ subscribed = {} /\ waiting = {} /\ forgotten = {}
    /\ lost = FALSE /\ unseen = FALSE /\ stuck = FALSE

-----------------------------------------------------------------------------
(* What several handlers do. *)

\* Mutant: the buffers are left to the next link.
ResetLink_KeepsBuffers ==
    /\ device' = Nobody /\ notifying' = FALSE /\ lastRx' = "none" /\ advDirty' = TRUE
    /\ lost' = FALSE /\ unseen' = FALSE
    /\ UNCHANGED <<rxBuf, txQueue>>

\* _reset_link.
ResetLink ==
    /\ device' = Nobody /\ notifying' = FALSE /\ lastRx' = "none" /\ advDirty' = TRUE
    /\ rxBuf' = {} /\ txQueue' = {}
    /\ lost' = FALSE /\ unseen' = FALSE

\* send_json with the answer to h: into the queue if someone is subscribed, else nowhere.
Answer(h) == IF notifying /\ h \in Hosts THEN txQueue \cup {h} ELSE txQueue

\* History of the moments at which notifying becomes false: it does for everybody, also for
\* the hosts of H, which go on being subscribed.
CountOut(H) ==
    /\ subscribed' = subscribed \cap H
    /\ waiting' = waiting \cap H
    /\ forgotten' = waiting'

\* _busy is None.
Free == worker # "busy"

-----------------------------------------------------------------------------
(* The hosts, and the callbacks they cause. *)

\* A host finds the device and connects: on_connect, unless bluetoothd says nothing.
Connects(h) ==
    /\ adv /\ h \notin linked
    /\ linked' = linked \cup {h} /\ adv' = FALSE
    /\ \/ device' = h /\ lastRx' = "now" /\ UNCHANGED unseen
       \/ UNCHANGED <<device, lastRx>> /\ unseen' = TRUE
    /\ UNCHANGED <<instance, notifying, advDirty, window, buffers, work, owed, lost, stuck>>

\* tx_notify_callback(True): hello, and a status if the worker is free.
Subscribes(h) ==
    /\ h \in linked
    /\ notifying' = TRUE /\ lastRx' = "now"
    /\ \/ Free /\ Len(jobs) < MaxQueue /\ jobs' = Append(jobs, Nobody)
       \/ ~(Free /\ Len(jobs) < MaxQueue) /\ UNCHANGED jobs
    /\ subscribed' = subscribed \cup {h}
    /\ UNCHANGED <<radio, device, advDirty, window, buffers, worker, job,
                   waiting, forgotten, history>>

\* tx_notify_callback(False), whoever has unsubscribed.  The limit is longer now.
Unsubscribes(h) ==
    /\ h \in subscribed
    /\ notifying' = FALSE
    /\ lastRx' \in IF notifying /\ lastRx = "late" THEN {"now", "late"} ELSE {lastRx}
    /\ rxBuf' = {} /\ txQueue' = {}
    /\ CountOut(Hosts \ {h})
    /\ UNCHANGED <<radio, device, advDirty, window, work, history>>

\* rx_write_callback with bytes that do not end a line.
WritesPart(h) ==
    /\ h \in linked \cap Slow
    /\ lastRx' = "now"
    /\ rxBuf' = rxBuf \cup {h}
    /\ UNCHANGED <<radio, device, notifying, advDirty, window, txQueue, work, owed, history>>

\* The end of a line that is a ping, or that with what was in the buffer before it is no
\* command at all.
WritesPing(h) ==
    /\ h \in linked
    /\ lastRx' = "now"
    /\ rxBuf' = {}
    /\ UNCHANGED <<radio, device, notifying, advDirty, window, txQueue, work, owed, history>>

\* The end of a command (_handle_line, _enqueue): queued, or refused while one runs.
WritesCommand(h) ==
    /\ h \in linked /\ rxBuf \subseteq {h} /\ h \notin waiting \ forgotten
    /\ lastRx' = "now"
    /\ rxBuf' = {}
    /\ IF Free
         THEN Len(jobs) < MaxQueue /\ jobs' = Append(jobs, h) /\ UNCHANGED txQueue
         ELSE txQueue' = Answer(h) /\ UNCHANGED jobs
    /\ waiting' = waiting \cup ({h} \cap subscribed)
    /\ forgotten' = IF notifying THEN forgotten \ {h} ELSE waiting'
    /\ UNCHANGED <<radio, device, notifying, advDirty, window, worker, job, subscribed, history>>

\* A link ends: on_disconnect, whoever's link it was, unless bluetoothd says nothing.
Leaves(h) ==
    /\ h \in linked
    /\ linked' = linked \ {h}
    /\ adv' \in {adv, adv \/ (instance /\ linked = {h})}
    /\ \/ ResetLink /\ CountOut(Hosts \ {h})
       \/ /\ lost' = TRUE
          /\ subscribed' = subscribed \ {h}
          /\ waiting' = waiting \ {h} /\ forgotten' = forgotten \ {h}
          /\ UNCHANGED <<link, buffers, unseen>>
    /\ UNCHANGED <<instance, window, work, stuck>>

-----------------------------------------------------------------------------
(* Time, and the watchdog (_rx_watchdog). *)

Ages ==
    \/ /\ lastRx = "now" /\ lastRx' = "late"
       /\ UNCHANGED windowOver
    \/ /\ ~windowOver /\ windowOver' = TRUE
       /\ UNCHANGED lastRx

TimePasses ==
    /\ Ages
    /\ UNCHANGED <<radio, device, notifying, advDirty, windowShut, buffers, work, owed, history>>

\* Its failure is dropped.
StopAdvertising ==
    \/ instance' = FALSE /\ adv' = FALSE /\ UNCHANGED stuck
    \/ UNCHANGED <<instance, adv>> /\ stuck' = TRUE

\* Nobody is there and the time is up: once.
ShutWindow ==
    /\ lastRx = "none" /\ windowOver /\ ~windowShut
    /\ windowShut' = TRUE /\ advDirty' = FALSE
    /\ StopAdvertising
    /\ UNCHANGED <<linked, device, notifying, lastRx, windowOver, buffers, work, owed, lost, unseen>>

\* Mutant: the advertising is renewed whatever the time is.
RestartOk_AnyTime ==
    /\ lastRx = "none" /\ advDirty
    /\ instance' = TRUE /\ adv' = TRUE
    /\ advDirty' = FALSE
    /\ UNCHANGED <<linked, device, notifying, lastRx, window, buffers, work, owed, history>>

\* Nobody is there and the advertising is to be renewed (_restart_advertising).
RestartOk ==
    /\ lastRx = "none" /\ ~windowOver /\ advDirty
    /\ instance' = TRUE /\ adv' = TRUE
    /\ advDirty' = FALSE
    /\ UNCHANGED <<linked, device, notifying, lastRx, window, buffers, work, owed, history>>

\* Mutant: a failure is not tried again.
RestartFails_Once ==
    /\ lastRx = "none" /\ ~windowOver /\ advDirty
    /\ \/ instance' = FALSE /\ adv' = FALSE
       \/ UNCHANGED <<instance, adv>>
    /\ advDirty' = FALSE
    /\ UNCHANGED <<linked, device, notifying, lastRx, window, buffers, work, owed, history>>

\* It fails, the old instance having been removed or not; the next second tries again.
RestartFails ==
    /\ lastRx = "none" /\ ~windowOver /\ advDirty
    /\ \/ instance' = FALSE /\ adv' = FALSE
       \/ UNCHANGED <<instance, adv>>
    /\ UNCHANGED <<linked, link, window, buffers, work, owed, history>>

\* A host that has been silent for longer than it may: _drop_host.  Its link ends, if it
\* can be told to and does.
DropHost ==
    /\ lastRx = "late"
    /\ ResetLink
    /\ \/ linked' = linked \ {device}
       \/ UNCHANGED linked
    /\ CountOut(linked')
    /\ UNCHANGED <<adv, instance, window, work, stuck>>

Restart == RestartOk \/ RestartFails

-----------------------------------------------------------------------------
(* The other timers, and the worker thread. *)

\* _auto_status.
AutoStatus ==
    /\ notifying /\ Free /\ Len(jobs) < MaxQueue
    /\ jobs' = Append(jobs, Nobody)
    /\ UNCHANGED <<radio, link, window, buffers, worker, job, owed, history>>

\* _drain_tx to the end of the queue: what is there goes out, or is dropped when nobody
\* listens.
Drain ==
    /\ txQueue # {}
    /\ waiting' = waiting \ txQueue /\ forgotten' = forgotten \ txQueue
    /\ txQueue' = {}
    /\ UNCHANGED <<radio, link, window, rxBuf, work, subscribed, history>>

\* _jobs.get, and a moment later _busy.
WorkerTakes ==
    /\ worker = "idle" /\ jobs # <<>>
    /\ worker' = "taken" /\ job' = Head(jobs) /\ jobs' = Tail(jobs)
    /\ UNCHANGED <<radio, link, window, buffers, owed, history>>

WorkerBusy ==
    /\ worker = "taken"
    /\ worker' = "busy"
    /\ UNCHANGED <<radio, link, window, buffers, jobs, job, owed, history>>

\* Mutant: a job that raises says nothing.
WorkerEnds_Silent ==
    /\ worker = "busy"
    /\ worker' = "idle" /\ job' = Nobody
    /\ txQueue' \in {txQueue, Answer(job)}
    /\ UNCHANGED <<radio, link, window, rxBuf, jobs, owed, history>>

\* _run_job is over, well or with an error: both are answered through _post, which the
\* loop runs at once or later, as it may the end of the job.
WorkerEnds ==
    /\ worker = "busy"
    /\ worker' = "idle" /\ job' = Nobody
    /\ txQueue' = Answer(job)
    /\ UNCHANGED <<radio, link, window, rxBuf, jobs, owed, history>>

-----------------------------------------------------------------------------
Host(h) ==
    \/ Connects(h) \/ Subscribes(h) \/ Unsubscribes(h)
    \/ WritesPart(h) \/ WritesPing(h) \/ WritesCommand(h)

Watchdog == ShutWindow \/ Restart \/ DropHost
Worker   == WorkerTakes \/ WorkerBusy \/ WorkerEnds

BleNext ==
    \/ \E h \in Hosts : Host(h) \/ Leaves(h)
    \/ TimePasses \/ Watchdog \/ AutoStatus \/ Drain \/ Worker

BleSpec == BleInit /\ [][BleNext]_bleVars

\* Silence grows, the watchdog comes every second, and of the attempts to advertise one
\* succeeds; the loop sends and the worker works, every call of nmcli having a time limit.
\* The window need not be limited.
FairSpec ==
    /\ BleSpec
    /\ WF_bleVars(TimePasses /\ lastRx' # lastRx)
    /\ WF_bleVars(Watchdog) /\ SF_bleVars(RestartOk)
    /\ WF_bleVars(Drain) /\ WF_bleVars(Worker)

-----------------------------------------------------------------------------
(* Properties. *)

\* When the hosts do nothing any more, a device whose window is open is there to be found
\* in the end and one whose window is over is not ("a registration that failed is mended
\* in the next second", README.md of bt; "when the window closes nobody finds the
\* device").  Two things are in the way: a link that bluetoothd said nothing at all of,
\* and a removal that failed, which is not tried again.
Findable ==
    <>[][\A h \in Hosts : ~Host(h)]_bleVars => <>[]((adv <=> ~windowOver) \/ unseen \/ stuck)

\* Once the window is shut nobody finds the device again, whatever links come to an end after
\* it and whatever the kernel resumes -- unless the removal failed (_rx_watchdog).
StaysShut == windowShut /\ ~stuck => ~adv

\* No host's line is completed with half a frame of another's: when it subscribes, and it is
\* the only one with a link, no bytes but its own are in the buffer ("does not hand a half
\* received frame down to the next subscriber", ble_peripheral.py 413) -- unless an
\* earlier host has gone unreported and the watchdog has not come to it yet.
NothingHandedDown ==
    [][\A h \in Hosts : Subscribes(h) /\ linked = {h} /\ ~lost => rxBuf \subseteq {h}]_bleVars

\* An answer goes to the host that asked: what waits to be sent is never another's than the
\* one that is there.  It does not hold: a job outlives the link it was asked over, and its
\* answer goes to whoever is subscribed when it ends.
AnswersGoToTheAsker ==
    \A h \in Hosts : linked = {h} /\ ~lost => txQueue \subseteq {h}

\* While a host waits for an answer, its command is queued or at work, or the answer is
\* queued to be sent (_enqueue, _worker, _post) -- unless the service has taken the host for
\* unsubscribed since the command, which is `forgotten`.  So nothing else loses an answer.
AnswerIsUnderWay ==
    \A h \in waiting \ forgotten :
        h \in txQueue \/ job = h \/ \E i \in 1..Len(jobs) : jobs[i] = h

\* A subscribed host gets an answer to its command, whether it is queued behind another,
\* refused, carried out, or raises -- or it stops being subscribed, is gone, or is forgotten.
\* Again and again, then, none is owed it.
CommandIsAnswered ==
    \A h \in Hosts : []<>(h \notin waiting \ forgotten)

\* Whoever sends a command and stays, subscribed, gets its result ("the end of the command,
\* well or not", README.md of bt, 59).  It does not hold.  The service has one notion of
\* being subscribed for all hosts, and _reset_link and tx_notify_callback clear it for all:
\* a is dropped by the watchdog but its link stays up, b connects, subscribes and sends a
\* command, a's on_disconnect comes (431), and send_json drops b's answer (132).
EveryListenerIsAnswered == \A h \in Hosts : []<>(h \notin waiting)

=============================================================================
