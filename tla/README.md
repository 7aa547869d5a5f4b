# Verticrane recorder: specifications and proofs

Verticrane is a box with a tilt sensor that is fitted to a tower crane. A
Raspberry Pi in it records the sensor by itself after power-on, shows what it is
doing on an e-paper panel, serves the recordings over HTTP to an operator who
comes back for them, and is given its Wi-Fi network over Bluetooth LE. There is
normally nobody present, the normal end of a recording is that somebody cuts the
power, and everything the operator learns comes from the panel, the status page
and the list of files. This directory holds TLA+ models of the parts whose
behaviour depends on order, interruption or failure, the TLC runs that check
them, and TLAPS proofs of the results that matter most.

## 1. The system

| Component (source) | State it keeps | Operations | Talks to |
|---|---|---|---|
| Recording loop (`recorder.py`: `Recorder`) | `state`, open `writer`, `_pending`, `_record_start_mono`, `_open_failures`, flags `_http_seen`, `_want_stop`, `_want_discard`, `stop_event`, `_start_lock` | `run`, `wait_for_http`, `_tick`, `_poll_once`, `_flush_block`, `_start_recording`, `_stop_recording`, `_maybe_segment`, `_check_disk`, `_shutdown` | everything below, on its own thread |
| HTTP hooks of the recorder | the same flags, from Flask's threads | `note_http_request`, `request_manual_stop`, `snapshot` | recording loop through the flags |
| Recording files (`ahrs_file.py`) | the slot counter, `.dat.partial`, `.dat`, `corrupt/` | `next_slot`, `release_slot`, `Writer`, `scan`, `recover_partial`, `recover_all` | the card |
| File store (`filestore.py`) | `trash/` | `list_files`, `group_containing`, `locate`, `move_to_trash`, `purge_trash` | the card, from both kinds of thread |
| Clock (`recorder.py`: `TimeKeeper`) | offset, `.lastknown` | `now`, `_restore`, `save_last_known` | system clock, card |
| Sensor link (`recorder.py`: `SensorLink`, `hwt9037_485.py`, `read_status.py`) | connection, back-off, `reconnected` | `connect`, `read_angles`, `drop` | serial port |
| Stability (`stability.py`) | window of samples | `add`, `evaluate`, `reset` | recording loop |
| Panel thread (`eink_panel.py`) | wake event, last screen | `refresh_now`, `_run`, `_draw` | `Recorder.snapshot`, SPI |
| HTTP interface (`web/routes.py`, templates) | none of its own; one thread per request | list, download, group download, retire, stop, settings | recorder hooks, file store |
| Collection script (`pc/collect.py`) | files in the operator's folder | `collect`, `download` | HTTP interface |
| BLE service (`bt/ble_peripheral.py`) | connection, receive buffer, transmit queue, job queue, advertising window | D-Bus callbacks, worker thread, timers | Wi-Fi manager, phone or laptop |
| Wi-Fi manager (`bt/wifi_manager.py`) | NetworkManager's profiles | `connect`, `forget`, `status` | `nmcli` |
| Settings (`app_config.py`) | `config.json` | `load`, `save` | recording loop, web |

What makes them correct, and what is hard about each:

* **Recording loop.** A visitor must stop the measurement whatever the loop is in
  the middle of, no file may be opened after one, and the recording that was
  interrupted must go to the trash. Requests run on other threads, and one
  `_tick` may stop, fail, start and judge in turn.
* **Files and store.** Nothing the operator has not collected may be lost, except
  by the slot counter going round; what is listed is complete up to its last
  intact block; power may go at any instruction and any call may be refused.
* **Clock.** The recorded time may be behind reality, never ahead of it and never
  behind the recording before it, with no clock chip and power cuts.
* **Panel.** Drawn on events, for seconds at a time, by another thread: a change
  that arrives during a drawing must still reach the panel.
* **Download and retire.** The two requests of one click race; the bytes must
  arrive in either order, and the script may retire only what it has verified.
* **BLE.** One host at a time, long jobs on a worker thread, a connection that may
  drop and come back while a job runs, and a window after which it must stop
  advertising.
* **Wi-Fi.** A failed attempt must not cost the device the network it had.

## 2. Modules

### `Recorder` and `Measurement`: the recording loop and the web threads

`Recorder` models `recorder.py`'s `Recorder` from power-on to restart. One process
is the thread of `run`; a request of each of `Visitors` is a process of its own.
A step of the recorder thread is the code between two accesses to what the
threads share, or one operation on the card, so that every interleaving the
interpreter allows is a behaviour.

| Variables | Code |
|---|---|
| `state`, `httpSeen`, `wantStop`, `wantDiscard`, `stopEvent`, `startLock` | `Recorder.state`, the four `Event`s, `_start_lock` with its holder |
| `writer`, `pending`, `timed`, `openFailures` | `writer is not None`, `len(_pending)`, `_record_start_mono != 0.0`, `_open_failures` |
| `pc`, `caller`, `discard` | where the recorder thread is; `_stop_recording` is called from seven places and `_start_recording` from three, and `caller` says where it returns to |
| `recording`, `hasBlock` | what became of the latest recording on the card |
| `vpc`, `presses` | each request: in `note_http_request`, then, if it is `POST /api/record/stop`, in `request_manual_stop` |
| `doomed`, `stopAsked` | history: what was promised of the latest recording |

The order of the actions is the order of the code: `TickDiscard`, `TickStop`,
`TickSeen` are the three tests at the head of `_tick`; `PollFails`/`PollOk` the
poll; `WriteFails`/`BlockWritten`, `DiskLow`/`DiskEnough`,
`SegmentDue`/`SegmentNotDue` the tail of `_flush_block`; `Judge*` the verdict;
`StartLocks` to `OpenFails` `_start_recording`; `Stop` to `StopReturns`
`_stop_recording` and what its caller does next. `PurgeRaises` and the last
branch of `Retire` are the two exceptions that nothing catches.

`Measurement` is what all this promises, without the threads, the lock, the flags and
the order of the calls: six variables, of which five are `state`, `writer`, `recording`,
`httpSeen` and `doomed` of `Recorder` and the sixth (`ending`) says that the process is on
its way out or gone. An open recording ends (`Close`) because somebody visited, because of an error
that is reported, with the process, or by itself if a setting says so; what became of it
is decided once and after it was closed (`Keep`), and it is thrown away (`Discard`) only if
a visitor was told so; maintenance and error are left by `StartAgain` alone. `KeepsThePromise`
is this specification under the mapping `Promised`: each step of the recorder is one of its
steps or none to it.

Abstractions: time (a hold may end, a segment fall due, or a verdict come at any
turn), the samples (only their number), the verdict (any), the disk (any answer).

Runs on `MCRecorder`, with blocks of 2 samples and a limit of 2 failed openings:
both numbers are only compared with a counter, and 2 has a value below, at and
above each comparison. Two visitors are enough for one to hold `_start_lock`
while the other waits with a stop to ask for; visitors are symmetric.

* `recorder_options`: every setting and every `--force`, all the safety properties
  that hold under every setting. `VisitIsActedOn` and `NoOpenAfterVisit` are what
  `_start_lock` is for, `FlushNeverReenters` is the recursion the comment in
  `_flush_block` describes, and `KeepsThePromise` is checked where a recording may end by
  itself. That an error is for good, though the rest of a tick that failed still runs, is
  part of it.
* `recorder_default`: the shipped settings (no segments, recordings kept on through
  shaking), where a visitor's discard is always honoured and `recording` always
  means an open file; `KeepsThePromise` where nothing ends by itself; and a visit ends the
  measurement and SIGTERM ends the process.
  Fairness: both threads are scheduled (weak fairness of each one's steps, including
  return from system calls, which all have bounds here), and `StartLocks` gets strong
  fairness because the lock is held for microseconds at a time and a waiter is woken
  at a release. Nobody has to visit, signal or restart. With `Segments` and
  `StopOnUnstable` set and one visitor the two liveness properties hold as well.
* `recorder_segment_open`: a disagreement between code and documentation, see
  section 5.

Proved in `RecorderProofs`, for any set of visitors, block size, limit and settings:
`TypeCorrect`, `VisitActedOn`, `NeverOpensAfterVisit`, `ErrorStays`, `PendingCorrect`,
`FlushEnds`, `LimitRespected`, `NothingLeftOpen`; and, assuming `Default` (the shipped
settings), `DiscardIsHonoured` and `RecordingHasFile`. The inductive invariant `Inv`
says for each point of the recorder thread who may have called it in which state
(`StopInv`, `StartInv`, `StateInv`), when a file is open (`WriterInv`) and samples
pending (`PendingInv`), and who holds the lock (`LockInv`); none of the properties is
inductive without it, since each depends on where a call returns to. `DefaultInv`
adds where a promise to discard stands at each step (`DoomInv`).

`MeasurementIsKept` proves `KeepsThePromise` for every setting. The refinement needs to know
why the thread is where it is, which is `ReasonedInv`, inductive together with `Inv`: a flag is
up only after a visit was noted (`NotedInv`); whoever ends a recording is allowed to, so that
`manual` and `discarded` mean a visit and `segment` and `unstable` a setting (`ReasonInv`); and
the fate of a recording that is open or just closed is not decided, and a discard under way is
one that was promised (`FateInv`). TLC checked it as an invariant on both instances first.
`PromisedStep` then has one case for each action, each of which names the one action of
`Measurement` that it is. `OneAtATime` is what `_start_lock` gives: no request is inside
`note_http_request` while another is, nor while the recorder is between its check and the
opening. The only assumption is `RecorderAssumption`, on the constants.

### `Card`: recordings, slots, recovery and trash

`Card` models what `ahrs_file.py` and the trash of `filestore.py` do to the files,
through power cuts and refused calls. A recording is a number in the order of
opening; its path is its `place` (`.partial`, `.dat`, `trash/`, `corrupt/`) and its
`slot`. `Put` is a rename or an opening for writing: it displaces the recording
that was at that path, which is how one recording destroys another. `written` and
`intact` say how many blocks the recorder handed over and how many a reader finds;
a cut leaves anything between what was synced and what was written, perhaps with
part of a block behind it (`LoseTail`). The actions follow the code call by call
(`Claim`, `OpenCreates`, `HeaderWritten`, `WriteBlock`, `Close`; `Scan`, `Mark`,
`Rename` or `SetAside` for `recover_partial`; `RecoverNext`, `PassEnds` for
`recover_all`, which a boot runs twice) and `PowerCut` is possible between any two.
`turn` and `turns` are history: the number of slots claimed, of which the slot is
the remainder.

Abstractions: one sensor position (the other positions use the same counter and
other names, so they can only lower the number of collisions); a header of 64
bytes and a rename are each atomic; a rename is durable when it returns, although
`move_to_trash` does not sync the directory (a cut may then put a retired file back
in the list, which loses nothing).

Bounds: two slots, so that the counter goes round within four claims; two
recordings, which is enough for two leftovers, for one recording to displace
another, and for burnt claims between them; two blocks, so that a tail can be lost
and something remain. With three recordings and one block, and with three
recordings and a card that works, TLC finds nothing more.

* `card_keeps`: overwriting only by rotation, nothing torn in the list, lost ends
  marked, no leftover left behind, and `KeepsThePromise`; with a power cut between any
  two calls and any call refused except the writing of the slot file (`CounterFails`,
  section 5).

`Store` is the abstract specification: what the card promises of recordings, with no
slots, no `.partial`, no recovery, no crash in it. A recording is at a `stage`
(recorded, listed, in the trash, aside, gone), has a number of blocks that are `safe`,
and the `number` it was given. It goes one way through the stages; safe blocks stay
safe; those of a listed recording no longer change; what is listed has a block; and one
with blocks makes room only to one numbered `Rotation` later or more. `Card` implements
it: `Promised` is the instance, `Stage` takes `.partial` to recorded, `.dat` to listed
and `corrupt/` to aside, `safe` is `intact`, and `number` is `turn`. Power
cuts, refused calls, the mark and the search for leftovers are stutters or take the same
steps as a recording that goes well. The refinement found that `Retire` must be read
as a step of a listed recording only: a first version of the model let it take one
that the recovery had just set aside.

Proved in `CardProofs`, for any number of slots, recordings and blocks, and any power
cuts and refusals: `TypeCorrect`, `ListedIsAlwaysIntact`, `UnmarkedIsAlwaysComplete` and
`NoLeftoverEver`. The invariant `IInv` follows a recovery call by call: what has been
found out about the leftover in hand still holds when it is renamed (`ContentInv`,
`WholeInv`), every other leftover is in the queue (`LeftInv`), and a path has one
recording (`UniqueInv`).

Proved with one assumption more, `Counts` (the slot file can be read and written, that is
`~CounterFails`): `OverwritesAreRotations` and `ThePromiseIsKept`, the refinement of `Store`.
Neither is inductive, because what a claim may overwrite depends on all the claims before
it. `NInv` relates them: the counter is where `turns` says it is (`CounterInv`), a recording
with a block has a turn of its own (`TurnInv`), and a recording at most `SlotCount` claims
old is in the slot that counting back from the counter gives, so those that are younger
than a rotation are all in other slots than the next one claimed (`RingInv`, `ApartInv`).
Giving a slot back is where this could fail, and why `release_slot` may only be called
for the latest claim.

### `Clock`: the times in the recordings

`Clock` models `TimeKeeper`, the hold before a recording and the stamp of a
recording, because sorting and joining rest on the stamps alone. `real` is what a
right clock would say, `kernel` is `time.time()`, `offset` is `_offset`, and `now`
their sum; `saved` is `.lastknown` and `unsaved` how old it is; `phase` is where the
recorder is; `start`, `length` and `cut` are of the latest recording and whether the
recorder has been started again since. After a power cut (`Boot`) the kernel's
clock is anywhere up to where it stood; after a restart of the service (`Restart`)
it went on. `Synchronise` is the system setting its clock from the network.

The environment's part is in two constants. `LateSync` is whether the system may set
its clock outside the hold, and README.md 574-577 of the repository says itself that
joining is then not reliable. `SavesFail` is whether the writing of `.lastknown` may
fail. `--force`, which skips the hold, is a bench option and left out.

Bounds: units of 5 s; saved every 2 of them, a hold of 4 and a tolerance of 1, which
keep the relation of the defaults (10 s, 60 s, 2 s) on a smaller scale; 12 units,
within which three starts fit. `MaxTime` also bounds the clock itself, since every
boot that synchronises sets the next one further ahead.

* `clock_order`: recordings on either side of a restart stay in their order and
  apart. It is the length of the hold that makes it so, not the restored time:
  that may be as old as the time between two saves. `AheadOnlyBySync` says what is
  left of "never ahead of" reality (recorder.py 127-128): from where nothing is
  ahead of it, only the system setting its clock under an offset takes anything
  ahead, the clock, `.lastknown` and the stamp of a recording alike.

Proved in `ClockProofs`, for all values of the delays: `TypeCorrect`, and
`CutsSeparate` from `Spaced`, that is `MountDelay > SaveEvery + Gap` without late
synchronisation or failing saves. `CutSeparates` is about a pair of states far
apart, so the inductive invariant `IInv` carries it along: in the loop the clock is
`unsaved` ahead of `.lastknown`, in the hold at least `held` ahead of it, and the end
of the latest recording is at most one saving interval after `.lastknown` until the
hold has ended, and more than the tolerance before it from then on. `OnlySyncGetsAhead`
proves `AheadOnlyBySync` for all delays, with late synchronisation and failing saves
too: it needs no more than the types. `NeverAheadWithoutSync` follows: in a behaviour in which the
system never sets its clock under an offset, no recording is ever stamped ahead of reality.

### `Download`: the requests of one click

`Download` models what the threads of `web/routes.py` and the functions of
`filestore.py` they call do to the recordings that have a name in the list. A click
on the page is two requests, so a thread is a pair of a click and `"get"` or
`"post"`, and a step is the code between two accesses to the card: listing the
directory (`ListDir`), describing one file (`Describe`), choosing the members
(`GroupFound`), `Locate` and `Open`, one member of the merge (`MergeNext`), one
recording of the body (`Stream`), and for the POST the look and the rename of
`move_to_trash` (`MoveSeen`, `Replace`). `click` is what the page asked for, `left`
what a request has still to do, `body` what was opened for the response, `sent` and
`moved` what came of it, `shifted` history: what moved between `Locate` and `Open`.

Recordings are numbers in the order of their starts, and `Joined` are those that
start where the one before them ended; the gap before any other, or where a member
is missing from the list, is longer than the tolerance. Bytes, ranges and the
rebasing of times in `merge` are left out.

Bounds: a run of three recordings, the fewest of which one can go missing in the
middle, and one click on a recording with one on a group, which brings together
every pair of requests; the newest may still be open, and any retired one may be
purged.

* `download_races`: what is sent and retired is the measurement that was clicked, the
  Content-Length is kept, and for a single recording either order of the two
  requests delivers except in the window between `Locate` and `Open`.

Proved in `DownloadProofs`, for any clicks, recordings and gaps between them: `TypeCorrect`,
`BodyIsAlwaysOneRun`, `PromiseIsAlwaysKept`, `EitherOrderAlwaysDelivers` and
`OneRunIsAlwaysRetired`. The invariant is a conjunct for each thread (`ThreadInv`): what it
may have in hand at each step (`EmptyInv`, `RoleInv`), that all of it was closed (`ClosedInv`), that what is still
to be done and what is done make one run (`BodyInv`), that a file is where `locate` found
it or has been moved since (`FoundInv`), and what lies between a recording moved and the
one clicked (`RetireInv`). A recording never comes back to the list, so
what one thread has found out can only be made less by another; that is the lemma about a
bystander, and with it each action is proved for the thread that takes it alone.
`ApartInv` keeps two threads from reporting the same recording as moved.

### `Collect`: the collection script

`Collect` models `pc/collect.py` and what of the device it meets. `slot` and `trash` are
the recordings that have a name in the list and in the trash; `Record`,
`RetiredByOthers` and `Purge` change them at any moment, so a name may be given to
another recording at any point of a run. `part` and `file` are the operator's folder, and
outlast a run. A file is the sequence of its chunks, each of them marked with the
recording it came from, so that a file put together from two is seen; the header is in
the first chunk. `List`, `Take` (`_remote_header` and `_destination`) and `Post` are
`collect`; `Attempt`, `RequestOk`, `Chunk`, `Breaks`, `BodyEnds` and `Finish` are the
loop of `download`, with the range that is honoured, refused or ignored, and with a
short body, which is no exception and is only seen by the next attempt or the last
comparison. `Killed` may come at any step, and a run may follow a run. `late` is
history: recordings that took a name in one of the two gaps the code leaves (section 5).

Abstractions: one device and one script (hosts are taken one after another, into folders
of their own); two headers are equal only if the recordings are, as both the device and
the start time are in them; `--keep`, and a device that does not retire, are a `Post`
that does nothing. A list that cannot be had is a run that does not begin.

Bounds: one name, since names share nothing but the order in which they are taken; two
recordings, the fewest of which one can leave a `.part` or a file in the way of the
other; lengths up to three chunks, every combination of them, so that a resumed
transfer may meet a recording that is as long, longer, or shorter than what it already
has; two attempts; and three names in the folder (`Copies`), more than are ever used.
With three recordings of up to two chunks TLC finds the same. In the code the search for
a free name has no end; a `Take` that would need more than `Copies` is not a step of the
model, and `PlaceIsAlwaysFound` shows that none does but for a name that changed hands.

* `collect_arrives`: what becomes a file is one whole recording; what is retired is on
  the laptop, and stays there; and what stays in the list arrives,
  however the runs are broken off, because a `.part` is either gone on from or emptied.

Fairness: the operator runs the script again while there is something to take, and for
each recording an attempt, an answer, a chunk, a comparison and a POST that are possible
again and again happen once in a while (strong fairness, since the connection may break
and the laptop be closed at each). It is the least under which anything can be promised
of a script that is started by hand.

Proved in `CollectProofs`, for any names, recordings, lengths and attempts: `TypeCorrect`,
`FinishedIsAlwaysWhole` and `RetiredIsAlwaysHeld`. A `.part` may well hold two recordings, so
that none of it does cannot be the invariant. What can is `PartInv`: such a `.part` begins with
a recording whose name no longer leads to it, and as names only move on to later recordings
this stays so (`Gone`), and the last comparison of the headers rejects it. `HandInv` and
`SizeInv` say what the script knows of the recording in hand, `MadeInv` that there is no more
in the folder than the device ever recorded, and `PostInv` that what is about to be retired is
on the laptop. `PlaceIsAlwaysFound`: for a recording whose name did not change hands the search of
`_destination` ends at the second name at the latest, however many recordings had the name and
however often a run broke off. It holds because a name with a tag is only ever given to a file
of the recording whose header the tag was made from (`LabelInv`), and needs nothing but
`Copies >= 1`.

### `Panel`: the e-paper thread

`Panel` models `PanelThread` and every place that changes what it draws. The
recorder's thread is reduced to those places: `_set_state` as `SetState` then
`Assign` (it wakes the panel before it assigns), the sensor's condition as
`SensorChanges` then `RefreshNow`, and `NoteAddress`. `SaveSettings` is the web
thread. The panel's thread is a loop of `ReadState`, `ReadRest` (the snapshot and the
rest of `_status`), one of `TooSoon`, `SameFrame`, `PushOk` and `PushFails`
(`_draw`), `Schedule` (`_next_wait`), `Wakes` and `Clear`. `last` is `_last_frame`,
`glass` what the panel really shows, and `Truth` the frame a drawing would make now.
Numbers on the measurement screen are left out, and time is three events: the end of
the boot frame (`SplashEnds`), fifteen seconds of a recording (`Matures`) and the end
of the thirty seconds after a failed push (`RetryDue`).

Six cases leave the panel wrong in this code (section 5), and `Faults` says which
of them can happen: the snapshot between the wake-up and the assignment of a state
(`"preempt"`), a position saved on the settings page (`"settings"`), an address that
changes again before the recorder has looked (`"flap"`), an address that changes in
maintenance or after an error (`"idle"`), the boot frame ending during a drawing
(`"splash"`), and a push that fails after it has changed the panel (`"halfway"`).
`excused` is history: one of the first five has happened since the latest snapshot was
begun; the sixth is seen by `glass # last`.

Five of the six are repaired by the next event. `"idle"` need not be: `_note_address`
is called from `_poll_once` alone, and `_tick` returns before it in maintenance and after
an error (`Polling`). Both last until the device is started again, so no later look at the
address follows, and the footer stays wrong unless something else happens to wake the
panel. This is what `AddressReachesPanel` says cannot be, after the comment of
`_note_address` (recorder.py 477-480); it does not hold and is in no configuration.

* `panel_awake`: a sleeping panel that is out of date has met one of the cases since its
  latest snapshot. So no other interleaving loses a wake-up, and they have no lasting
  effect together.
* `panel_settles`: under fairness, the panel comes to show the truth, and a recording's
  reading keeps being drawn, with the same exceptions.

Fairness: both threads are scheduled, the clock runs, the recorder looks at the
address every ten seconds (`ip_check_interval_seconds`) as long as it polls
(`NoteAddress` is enabled only then), and a panel that is tried every thirty seconds
succeeds once in a while (strong fairness of `PushOk`; without a panel there is nothing
to show). The properties are written as `[]<>` and `<>[]`, which TLC checks without a
tableau.

Bounds: `panel_awake` has two positions and two addresses and every case but `"halfway"`,
with which the states are beyond TLC (a glass that differs from `last` multiplies them);
`panel_settles` has two addresses and one position, with `"idle"` and `"halfway"`. Two
values make a change visible, since a frame is only ever compared with the last one.

Proved in `PanelProofs`, for any positions, addresses, reasons and cases:
`TypeCorrect` and `StaleIsAlwaysExplained`. `StaleIsExplained` speaks of a sleeping
panel alone, so the inductive invariant `IInv` follows a drawing from the start:
what has been read is what is the case unless something is pending or excused
(`SeenInv`); what was drawn is on the panel (`DrawnInv`); a state about to be assigned
was announced during this drawing (`AssignIsTold`), also one that ends the polling with
an address not yet noted; and while the thread waits, time
can only make the frame wrong by making its deadline due (`GlassInv`). `OnlyTheseCases` is the
other side of it: with `Faults = {}` a sleeping panel always shows the truth, so the six
cases are all that can leave it wrong.


### `Sampling`: the sensor link, one poll, the block and the verdict

`Sampling` models what one pass of the loop does with the sensor: `SensorLink`
(`link` is `device`, `fresh` is `reconnected`, `wait` the time until `_next_attempt`,
`backoff` is `_backoff`, `angles` whether `deviceData` holds a reading), the poll
(`_poll_once`, `_sensor_read_failed`), the block that is being filled (`pending`,
`flags` is `_block_flags`), the window of `stability.py` (`window`, `since` is
`_since_judged`) and what a verdict leads to. `pc` is where in a pass the thread is:
connecting (`LinkUp`, `TooEarly`, `ConnectFails`, `ConnectOk`), reading (`ReadError`,
`ShortReply`, `Still`, `Moving`), writing a full block (`WriteBlock`, `WriteFails`)
and judging (`NotYet`, `Settled`, `NothingToDo`, `Unsettled`, `SettledAgain`). `Leave` is
everything the rest of the recorder does to it; `Recorder` models that.

`own`, `inherited`, `rough` and `calm` are history: what really happened to the
recording since its last block, which marks were up when it was opened, what its last
verdict was, and how many still readings have come in a row.

Abstractions: a reading is still or not, and a window is stable when it has enough
readings and all of them are still, which stands for the three metrics of
`stability.py` and their limits. Time is in sample periods; a poll may take up to
`Slowest` of them, so readings may leave the window before there are enough. A
reply too short to parse while old registers are still in `deviceData` is taken again
as a reading, as in the code.

Bounds: a block of 3, a verdict on 5 readings out of a window of 6 periods, so that a
window spans more than one block and its last readings may come late; a back-off from
1 to 4, which doubles twice. TLC checks deadlock off: in maintenance the thread only
sleeps, which is no step here.

* `sampling_marks`: a block carries every mark of what happened while it was being
  filled and none of another recording's, except that its first block may carry
  marks that were up before (section 5); a block written after a verdict "not
  stable" is marked unstable, or as having failed reads; a recording starts by
  itself only on enough still readings in a row, with none from before a failed read;
  and under fairness a device that waits for stability stops waiting once the sensor
  answers, nothing moves and the card takes the file. (That a reading
  came back after a pause is the mark `RECONNECTED`; the first block of a process
  has it too, because the first connection counts as one.)

Fairness: the loop goes on polling. What the sensor does is not assumed but is the
left side of `StartsInTheEnd`.

Proved in `SamplingProofs`, for any block, window, verdict and back-off within
`SamplingAssumption`: `TypeCorrect`, `BlockIsAlwaysMarked`, `RoughIsAlwaysMarked` and
`StartsAreSettled`. The invariant keeps the marks equal to what history says of them
(`FillInv`, `MarkInv`); says that a recording judged "not stable" whose mark was cleared with
a block has more readings since the verdict than since the block, so that the next verdict
comes before the next block is full: block and verdict share the number 25 (`RoughInv`);
and that the still readings younger than any other in the window came in a row
(`CalmInv`).

### `WifiConnect` and `WifiScan`: the Wi-Fi manager

`WifiConnect` models `connect` and `forget` of `bt/wifi_manager.py` for one network:
`profile` is the key saved under each name of a profile, `pinned` those with an
autoconnect priority, `active` what the interface is on. `pc` goes through the calls of
`nmcli` in the order of the code: listing the profiles (`Before`), coming up on a saved
one (`UpSaved`), looking at the network's security (`Security`), the attempt
(`AttemptOk`, `AttemptFails`), the second attempt after a refused password (`Retry`),
clearing away what a failure made (`Cleanup`), pinning (`Pin`) and the address (`Status`).
`TimesOut` ends a call wherever it is. `PowerCut` may come at any step, and between them
the access point gets another key (`NewKey`) or goes out of reach (`Moves`).

`nmcli`, NetworkManager and the access point are outside `src/` and are modelled from
what `wifi_manager.py` says and does about them: `device wifi connect` goes by a saved
profile of the network, whichever it likes, or makes one; an attempt that failed may
leave the profile it made; a listing may be incomplete and a deletion fail. `clean` is
history and says that none of that, no time-out and no change of the network has come
into this call; `known` is what was saved when it began; `proven` are the profiles that
have connected with the key they have now.

`WifiScan` has the two pure functions: `_terse`, one line of `nmcli -t` in its fields, and
the part of `scan` that makes one entry of a network's channels.

Bounds: three names, so that a call may meet an old good profile, an old bad one and make
a new one; two passwords, and none. Names and passwords are symmetric.

* `wifi_keeps`: whoever types the right password is connected, on a profile that holds it
  and is pinned, whatever old or half profiles stand in the way; a call that fails leaves
  nothing behind; a profile that works is deleted by nothing but the command, the retry,
  and a cleanup after an incomplete listing. The run's module also evaluates two
  assumptions about `WifiScan`: for every list of up to three fields of up to two
  characters `Terse` inverts `Line` (the way `nmcli` escapes them), and for up to three
  rows of two networks `Scan` has each network once, at its strongest, with that row's
  security, and current if any of its rows is.

Proved in `BtProofs`, for any names and passwords: `TypeCorrect`,
`NothingHalfStaysAlways`, `RightPasswordAlwaysConnects` and `WhatWorksIsKept`. The invariant says at each
point of a call what is known there: nothing has been made or deleted before the attempt
(`FirstInv`); without the retry the list is complete, after it there is nothing saved but
what this password made (`AttemptInv`); and the failure branch is not reached with the
right password (`FailInv`). Of `WifiScan` one turn of the loop is proved, for any rows:
`OneMoreRow` says that a list that is right for the rows seen (`KeepsStrongest`) is right for
one row more. That the turns add up to `Scan` is an induction over the rows, and stays with
the assumption above.

### `BlePeripheral`: the Bluetooth service

`BlePeripheral` models `bt/ble_peripheral.py`. `device`, `notifying`, `lastRx`, `advDirty`
and `windowShut` are the fields of `_state`; `rxBuf` and `txQueue` are `_rx_buf` and
`_tx_queue`, of which only whose bytes and whose answers they hold is kept; `jobs` and
`worker` are the queue and the thread `_worker`. The callbacks of the GATT server are
`Connects`, `Subscribes`, `Unsubscribes`, `WritesPart`, `WritesPing`, `WritesCommand` and
`Leaves`; the watchdog's four branches are `ShutWindow`, `RestartOk`, `RestartFails` and
`DropHost`; `AutoStatus` and `Drain` are timers. A handler is one step, since all run in
one GLib loop; the worker is the only other thread, and `WorkerTakes` and `WorkerBusy`
are apart because `_jobs.get` and the assignment to `_busy` are.

The hosts, `bluetoothd` and the kernel are outside `src/`: a link may come or go without
a word from `bluetoothd` (`tx_notify_callback` allows for a missed `on_connect`, and the
watchdog is there for dead links), and
the kernel stops advertising on a connection and may or may not resume it afterwards.
`unseen`, `lost`, `stuck`, `subscribed`, `waiting` and `forgotten` are history: that a link
came or went unreported; that a removal of the advertising failed; which hosts have
subscribed and neither unsubscribed nor gone, whatever `notifying` says; which of them
wrote a command and have no answer; and which of those the service has taken for
unsubscribed since the command. The service has one `notifying` for all hosts, so it forgets
a host that is still there in three ways (`CountOut`): the watchdog drops a silent host whose
link stays up, another host's `on_disconnect` comes, or another host unsubscribes. Nothing
is taken off `waiting` but by an answer to that host, its own unsubscription or its own end.

Abstractions: a command is a job and its answer a member of `txQueue`; the JSON, the
chunks of an answer and the MTU are left out. A job is any command: `WifiConnect` is
what the longest of them does, and shares no state with this module but
NetworkManager's.

Bounds: two hosts, of which one (`Slow`) writes its lines in pieces, as with a small MTU, so
that a half line can pass from it to the other; one waiting job; one command of a host at a
time, unless it has been forgotten. The run has 750 000 states and most of its time is
liveness. Deadlock is off: once the window is shut nothing may ever happen again.

* `ble_serves`: when the hosts do nothing any more the device is found as long as its
  window is open, and not found afterwards; nobody's command is completed with half a line
  of another host's; and a subscribed host gets an answer to its command, however it
  ends, or stops being there or is forgotten. `AnswerIsUnderWay` is the safety half of the
  last: whoever waits and is not forgotten has a job queued, being worked on or answered.
  That a host is forgotten is a fault of the code (section 5): `EveryListenerIsAnswered`,
  which does not except it, does not hold.

Fairness: silence grows, the watchdog comes every second (whichever of its branches is due), of the attempts to advertise
one succeeds (strong fairness of `RestartOk`: between attempts hosts may come and go), the loop
sends what it has, and the worker works, each `nmcli` call having a time limit. The
window need not be limited, so nothing is assumed of `windowOver`.

Proved in `BtProofs`, for any hosts and length of the queue: `BleTypeCorrect`;
`NothingIsHandedDown`, because the bytes in the buffer are of hosts that are linked, but for
one that went unreported (`BufferInv`); `ShutForGood`, that a device whose window was shut is
not found again unless the removal of its advertising failed (`ShutInv`: neither an instance
nor the kernel's resumption of one is left); and `AnswerIsAlwaysUnderWay`, with the exception of `forgotten` that `AnswerIsUnderWay`
states: it needs that the service takes someone to be subscribed while an unforgotten host
waits, so that the answer is not dropped, and that the idle worker has no job (`OwedInv`). All of
them rest on `BleAssumption` alone. `BtProofs` extends both modules, which is why the
specification of this one is `BleSpec` and not `Spec`.


## 3. Plan

The order is that of what a failure costs: first what loses recordings (`Recorder`,
`Card`), then what names and orders them (`Clock`), then what hands them over
(`Download`, `Collect`), then what the operator sees (`Panel`), then what is measured
(`Sampling`), and last how the device is reached (`WifiConnect`, `BlePeripheral`). These
exist with their proofs. Still to write:

| Module | Models | Composes with | Properties | Proofs |
|---|---|---|---|---|
| `Settings` | `load` and `save` of `app_config.py`, with a power cut between any two calls and several threads | `Panel`'s `SaveSettings` | what is loaded was saved as a whole; no saved change is lost (it is not so for two at once) | the first, for one thread |
| `Grouping` | `group_contiguous`, `merge` and `_wanted_range` as functions | `Clock`'s gap | equal to their definitions on bounded inputs | lemmas about one step |

Each module has one run of its safety properties and, where something must happen
in the end and the instances differ, one under fairness; the runs stay on the small
instances that the sections above justify, and a run of a disagreement is kept where it is
the clearest of its kind.

## 4. What is proved, what is only checked, what is left out

Proved for every value of the constants that their assumptions allow: the safety properties
of `Recorder`, `Clock`, `Panel`, `Card`, `Download`, `Collect`, `Sampling`, `WifiConnect` and
`BlePeripheral`, the type invariant of each of them (which no run checks again), and that
`Card` implements `Store` and `Recorder` implements `Measurement`. What a theorem assumes beyond the constants' types is in
its statement: `Default` (shipped settings), `Spaced` (delays, no late synchronisation, no
failing saves), `Counts` (the slot file can be read and written), `Faults = {}` (`Panel`
without the six cases of section 5), `Copies >= 1` (`Collect` has a second name).

Checked on small instances only: all liveness (`VisitEndsMeasurement`,
`SignalEndsProcess`, `Arrives`, `Settles`, `MeasureRepeats`, `StartsInTheEnd`, `Findable`,
`CommandIsAnswered`), since the proof system has no rules for fairness with `ENABLED`; and
`Terse` and the whole of `Scan` of `WifiScan`, which fold over a sequence, for the lack of
induction over data in the provers.

Not modelled: the e-paper driver `gdey0154d67.py` (SPI only), the drawing of frames,
the decoding of sensor registers in `hwt9037_485.py` and of `read_status.py`, the
arithmetic of the three stability metrics (floating point; one predicate of a reading in
`Sampling`), the bytes of a block and of a header, ranges of a response beyond what the script
uses, deleting and the directory browser of the web pages, the HTML pages except for the
click that collects, `config.json` (see the plan), the BLE web client and its packaging,
`port_config.py` and `network_utils.py` (stateless), the tools in `dev/`, and the
installation scripts.

## 5. Where the code and its documentation disagree

Shown by a run:

* A segment boundary whose new file cannot be opened leaves the device reporting
  `recording` with nothing open, and nothing retries (`recorder_segment_open`).

Found in the same models by changing one constant of a configuration, one exception of a
property, or by checking the property named, which is in the module but in no
configuration:

* The system's clock being set after the time was restored puts the recorded time
  ahead of reality, against the comment in `_restore`; the error is saved, and grows
  at every boot: `NeverAhead` with `LateSync = TRUE` (recorder.py 128).
* A group that is retired before or during its download gets a 404 or a 500, against
  "either order delivers the bytes": `GroupClickDelivers` (index.html 168). A single
  recording that is retired in the instant between `locate` and `open` gets a 404 too,
  which is what `EitherOrderDelivers` excepts.
* The collection script passes over a recording it already has without sending the POST,
  so one that was lost is never made good: the recording stays in the list, against
  "from the list to the confirmation by itself": `ListIsEmptied` (README.md 438).
* A visitor who connects while a segment boundary is being crossed leaves the
  interrupted recording in the list: `DiscardHonoured` with `Segments = TRUE`
  (recorder.py 361, README.md 173).
* `--force recording` records without settling (README.md 356): `StartLocks` follows
  `waiting_stable` at once.
* A slot file that cannot be written gives one name to two recordings, the second over
  the first: `OverwritesOnlyByRotation` and `KeepsThePromise` with `CounterFails = TRUE`
  (ahrs_file.py 308).
* A recording whose close or last block was refused is listed without the mark
  (ahrs_file.py 563): what `failed` excepts in `UnmarkedIsComplete`.
* One leftover the card keeps refusing keeps the others from being recovered at every
  boot (ahrs_file.py 627): what `refused` excepts in `NoLeftoverGoesUnrecovered`.
* The first block of a recording may carry marks of something that happened before it, in
  the tail that another recording dropped or while nothing was recorded, and that of a
  process the mark `RECONNECTED` because the first connection counts as one: what
  `inherited` excepts in `BlockIsMarked` (recorder.py 717).
* With `stop_on_unstable` a single failed read ends the recording, since the verdict on
  the window it emptied is "not stable", against "the file is kept": `LinkLossKeepsFile`
  (README.md 211).
* A job of the Bluetooth service outlives the link it was asked over, and its answer goes
  to whoever is subscribed when it ends: `AnswersGoToTheAsker` (ble_peripheral.py 261).
* The result of a command may never come although the host that sent it stays connected
  and subscribed, against "the end of the command, well or not" (README.md of bt, 59). The
  service keeps one `notifying` for all hosts. A host a is dropped by the watchdog but its
  link stays up; the device advertises again, b connects, subscribes and sends a command;
  a's late `on_disconnect` resets the state (ble_peripheral.py 431, 399), and `send_json`
  (132) drops b's answer. A host that is dropped for its silence and stays, or that stays
  subscribed when another unsubscribes, fares the same: `EveryListenerIsAnswered`, and what
  `forgotten` excepts in `AnswerIsUnderWay` and `CommandIsAnswered`.
* An attempt to stop the advertising that fails when the window shuts is not repeated, and
  a link that came or went unreported is not seen by the watchdog: what `stuck` and
  `unseen` except in `Findable` (ble_peripheral.py 363).
* The retry after a refused password deletes every saved profile of the network before it
  knows that the new password is the right one, and a listing that missed a good profile
  makes the cleanup delete it: what `KeepsWhatWorks` excepts (wifi_manager.py 368, 280).
  An `nmcli` that runs out of time skips the cleanup, which is what `clean` excepts in
  `NothingHalfStays`, and without a password only the first of several saved profiles is
  tried (wifi_manager.py 332).
* A drawing that lasts across the end of the boot frame leaves that frame on the panel
  until something else happens, since `_screen_wait` looks at the clock after the push
  and at a status from before it (eink_panel.py 521): `StaleIsExplained` without
  `~Explained` and with `Faults = {"splash"}`. In the same way a new position
  (`"settings"`, routes.py 162), an address that came and went between two looks
  (`"flap"`, recorder.py 486), a snapshot between the wake-up and the assignment of the
  state (`"preempt"`, recorder.py 869), and a push that failed half-way
  (`"halfway"`, eink_panel.py 575) may each leave the panel wrong.
* An address that changes in maintenance or after an error never reaches the panel by
  itself: `_tick` returns before `_poll_once`, which is all that calls `_note_address`,
  against that function's comment, "a network that comes back while the device sits idle
  has to be pushed at it" (recorder.py 477, 566): `AddressReachesPanel`, and what `"idle"`
  excepts in `StaleIsExplained` and `Settles`.
* A name that goes to another recording between the list and the reading of its header
  makes the script finish, and retire, a part of it (the size is the list's, and no
  Content-Length is compared); one that goes to another between the last look and the POST
  gets the wrong recording retired: `FinishedIsWhole` and `RetiredIsHeld` without `late`.
  Either takes a start of the device, and a slot counter that comes round, in the middle
  of a run.
* A save of the time that fails loses the order of recordings: `CutSeparates` with
  `SavesFail = TRUE`.
