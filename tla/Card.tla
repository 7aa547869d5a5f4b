-------------------------------- MODULE Card --------------------------------
(***************************************************************************)
(* The recordings on the card: ahrs_file.py (slot counter, Writer,         *)
(* recovery) and the trash of filestore.py, through power cuts and refused *)
(* system calls.                                                           *)
(*                                                                         *)
(* A recording is a number in the order of opening.  Its name is its slot, *)
(* so what is at a path is the recording with that place and that slot,    *)
(* and a rename or an opening for writing displaces whatever was there.    *)
(* Contents are abstracted to how many blocks were handed to write_block,  *)
(* how many of them a reader finds intact, and whether bytes follow those. *)
(* A file without a header counts as one without blocks: recovery treats   *)
(* them alike.                                                             *)
(*                                                                         *)
(* Each step is one system call or one that is atomic with it: the power   *)
(* may go between any two.                                                 *)
(***************************************************************************)
EXTENDS Integers, FiniteSets

CONSTANTS
    SlotCount,      \* ahrs_file.SLOT_COUNT (1000 in the code)
    MaxRecordings,  \* bound on the recordings of a behaviour
    MaxBlocks,      \* bound on the blocks of one recording
    MaxTurns,       \* bound on the slots claimed
    CounterFails,   \* whether the slot file may be unreadable or refuse to be written
    CardFails       \* whether the card may refuse the other calls

ASSUME CardAssumption ==
    /\ SlotCount \in Nat \ {0}
    /\ MaxRecordings \in Nat /\ MaxBlocks \in Nat /\ MaxTurns \in Nat
    /\ CounterFails \in BOOLEAN /\ CardFails \in BOOLEAN

Recordings == 1..MaxRecordings

VARIABLES
    place,      \* where each recording is
    slot,       \* the slot in its name
    turn,       \* history: how many slots had been claimed when it got its own
    written,    \* blocks write_block took from the recorder
    intact,     \* blocks a reader finds, at least the synced ones
    torn,       \* bytes follow the intact blocks
    marked,     \* FILE_FLAG_RECOVERED
    counter,    \* the slot file's number, or -1 before there is one
    claimed,    \* the slot that next_slot returned last
    turns,      \* history: slots claimed and not given back
    latest,     \* the recording opened last
    pc,         \* where the recorder thread is
    why,        \* what ended the latest recording
    work,       \* the recording recover_partial is at
    queue,      \* what recover_all has still to look at
    pass,       \* which of a boot's two recovery passes this is, 0 after them
    failed,     \* history: recordings with a block or a close that was refused
    refused     \* history: recordings a call was refused for in this boot

names   == <<slot, turn>>
content == <<written, intact, torn, marked>>
slots   == <<counter, claimed, turns>>
control == <<why, work, queue, pass>>
history == <<failed, refused>>
vars    == <<place, names, content, slots, latest, pc, control, history>>

Places  == {"unborn", "partial", "dat", "trash", "corrupt", "gone"}
Points  == {"off", "next", "scan", "mark", "rename", "aside", "retire",
            "ready", "claimed", "header", "release", "recording", "close", "halted"}
Endings == {"segment", "discard", "stop", "refused"}

TypeOK ==
    /\ place \in [Recordings -> Places]
    /\ slot \in [Recordings -> 0..SlotCount - 1]
    /\ turn \in [Recordings -> 0..MaxTurns]
    /\ written \in [Recordings -> 0..MaxBlocks]
    /\ intact \in [Recordings -> 0..MaxBlocks]
    /\ torn \in [Recordings -> BOOLEAN]
    /\ marked \in [Recordings -> BOOLEAN]
    /\ counter \in -1..SlotCount - 1 /\ claimed \in 0..SlotCount - 1
    /\ turns \in 0..MaxTurns
    /\ latest \in Recordings \cup {0}
    /\ pc \in Points /\ why \in Endings
    /\ work \in Recordings \cup {0}
    /\ queue \subseteq Recordings
    /\ pass \in 0..2
    /\ failed \subseteq Recordings /\ refused \subseteq Recordings

\* A card that has never been used, and no power.
Init ==
    /\ place = [r \in Recordings |-> "unborn"]
    /\ slot = [r \in Recordings |-> 0] /\ turn = [r \in Recordings |-> 0]
    /\ written = [r \in Recordings |-> 0] /\ intact = [r \in Recordings |-> 0]
    /\ torn = [r \in Recordings |-> FALSE] /\ marked = [r \in Recordings |-> FALSE]
    /\ counter = -1 /\ claimed = 0 /\ turns = 0 /\ latest = 0
    /\ pc = "off" /\ why = "stop" /\ work = 0 /\ queue = {} /\ pass = 0
    /\ failed = {} /\ refused = {}

In(where) == {r \in Recordings : place[r] = where}

\* r takes the path of its name at where from whatever is there: os.replace, or an
\* opening for writing.
Put(r, where) ==
    LET there == {q \in In(where) \ {r} : slot'[q] = slot'[r]}
    IN  place' = [q \in Recordings |-> IF q = r THEN where
                                      ELSE IF q \in there THEN "gone" ELSE place[q]]

-----------------------------------------------------------------------------
(* next_slot, Writer.__init__ and release_slot. *)

\* Mutant: the lowest number not in the list, instead of a counter on the card.
Claim_FromList ==
    /\ pc = "ready" /\ turns < MaxTurns /\ latest + 1 \in Recordings
    /\ LET used == {slot[r] : r \in In("dat") \cup In("partial")}
           free == (0..SlotCount - 1) \ used
       IN  claimed' = IF free = {} THEN 0 ELSE CHOOSE s \in free : \A t \in free : s <= t
    /\ counter' = claimed'
    /\ turns' = turns + 1
    /\ pc' = "claimed"
    /\ UNCHANGED <<place, names, content, latest, control, history>>

\* next_slot: a file that cannot be read gives slot 0, one that cannot be written stays.
Claim ==
    /\ pc = "ready" /\ turns < MaxTurns /\ latest + 1 \in Recordings
    /\ \E previous \in {counter} \cup (IF CounterFails THEN {-1} ELSE {}) :
         claimed' = (previous + 1) % SlotCount
    /\ counter' \in {claimed'} \cup (IF CounterFails THEN {counter} ELSE {})
    /\ turns' = turns + 1
    /\ pc' = "claimed"
    /\ UNCHANGED <<place, names, content, latest, control, history>>

\* open(path, "w+b") truncates a .partial of that name, if there is one.
OpenCreates ==
    /\ pc = "claimed"
    /\ latest' = latest + 1
    /\ slot' = [slot EXCEPT ![latest'] = claimed]
    /\ turn' = [turn EXCEPT ![latest'] = turns]
    /\ Put(latest', "partial")
    /\ pc' = "header"
    /\ UNCHANGED <<content, slots, control, failed, refused>>

OpenRefused ==
    /\ CardFails
    /\ pc = "claimed"
    /\ pc' = "release"
    /\ UNCHANGED <<place, names, content, slots, latest, control, history>>

HeaderWritten ==
    /\ pc = "header"
    /\ pc' = "recording"
    /\ UNCHANGED <<place, names, content, slots, latest, control, history>>

HeaderRefused ==
    /\ CardFails
    /\ pc = "header"
    /\ refused' = refused \cup {latest}
    /\ pc' = "release"
    /\ UNCHANGED <<place, names, content, slots, latest, control, failed>>

\* Mutant: one number too many is given back.
Release_Twice ==
    /\ pc = "release"
    /\ IF counter = claimed
         THEN counter' = (counter - 2) % SlotCount /\ turns' = turns - 1
         ELSE UNCHANGED <<counter, turns>>
    /\ pc' = "ready"
    /\ UNCHANGED <<place, names, content, claimed, latest, control, history>>

\* release_slot, unless the slot file names another number or refuses.
Release ==
    /\ pc = "release"
    /\ \/ /\ counter = claimed
          /\ counter' = (counter - 1) % SlotCount
          /\ turns' = turns - 1
       \/ /\ CounterFails \/ counter # claimed
          /\ UNCHANGED <<counter, turns>>
    /\ pc' = "ready"
    /\ UNCHANGED <<place, names, content, claimed, latest, control, history>>

-----------------------------------------------------------------------------
(* Writer.write_block and close, and what _stop_recording does next. *)

\* The block is in the buffer; the sync that may follow puts all of them on the card.
WriteBlock ==
    /\ pc = "recording" /\ written[latest] < MaxBlocks
    /\ written' = [written EXCEPT ![latest] = @ + 1]
    /\ \/ intact' = [intact EXCEPT ![latest] = written'[latest]]
       \/ UNCHANGED intact
    /\ UNCHANGED <<place, names, torn, marked, slots, latest, pc, control, history>>

\* The recorder drops the block and stops.
WriteRefused ==
    /\ CardFails
    /\ pc = "recording"
    /\ failed' = failed \cup {latest}
    /\ why' = "refused"
    /\ pc' = "close"
    /\ UNCHANGED <<place, names, content, slots, latest, work, queue, pass, refused>>

EndRecording ==
    /\ pc = "recording"
    /\ why' \in {"segment", "discard", "stop"}
    /\ pc' = "close"
    /\ UNCHANGED <<place, names, content, slots, latest, work, queue, pass, history>>

\* The file is left with some of what was not synced, and perhaps part of a block.
LoseTail(r) ==
    /\ \E k \in intact[r]..written[r] : intact' = [intact EXCEPT ![r] = k]
    /\ \E t \in BOOLEAN : /\ t => intact'[r] < written[r] \/ r \in failed
                         /\ torn' = [torn EXCEPT ![r] = t]

\* sync and close; an error is logged and the file finalised all the same.
Close ==
    /\ pc = "close"
    /\ \/ /\ latest \notin failed
          /\ intact' = [intact EXCEPT ![latest] = written[latest]]
          /\ UNCHANGED <<torn, failed>>
       \/ /\ CardFails
          /\ LoseTail(latest)
          /\ failed' = failed \cup {latest}
    /\ work' = latest
    /\ pc' = "scan"
    /\ UNCHANGED <<place, names, written, marked, slots, latest, why, queue, pass, refused>>

-----------------------------------------------------------------------------
(* recover_partial, called by _stop_recording (pass 0) and by recover_all. *)

Booting == pass # 0

\* Where recover_partial returns to, with the recording finalised or not.
Returned(final) ==
    pc' = IF Booting THEN "next"
          ELSE IF final /\ why = "discard" THEN "retire"
          ELSE IF why = "segment" THEN "ready" ELSE "halted"

\* Mutant: the torn tail is left on the file.
Scan_KeepsTail ==
    /\ pc = "scan"
    /\ pc' = IF intact[work] = 0 THEN "aside" ELSE IF Booting THEN "mark" ELSE "rename"
    /\ UNCHANGED <<place, names, content, slots, latest, control, history>>

\* scan, and the truncation to the intact blocks.
Scan ==
    /\ pc = "scan"
    /\ IF intact[work] = 0
         THEN pc' = "aside" /\ UNCHANGED torn
         ELSE /\ torn' = [torn EXCEPT ![work] = FALSE]
              /\ pc' = IF Booting THEN "mark" ELSE "rename"
    /\ UNCHANGED <<place, names, written, intact, marked, slots, latest, control, history>>

\* A file that cannot be read is set aside like one without blocks.
ScanRefused ==
    /\ CardFails
    /\ pc = "scan"
    /\ refused' = refused \cup {work}
    /\ pc' = "aside"
    /\ UNCHANGED <<place, names, content, slots, latest, control, failed>>

\* Mutant: recovery finalises the file as an orderly stop would.
Mark_Not ==
    /\ pc = "mark"
    /\ pc' = "rename"
    /\ UNCHANGED <<place, names, content, slots, latest, control, history>>

Mark ==
    /\ pc = "mark"
    /\ marked' = [marked EXCEPT ![work] = TRUE]
    /\ pc' = "rename"
    /\ UNCHANGED <<place, names, written, intact, torn, slots, latest, control, history>>

Rename ==
    /\ pc = "rename"
    /\ UNCHANGED names
    /\ Put(work, "dat")
    /\ Returned(TRUE)
    /\ UNCHANGED <<content, slots, latest, control, failed, refused>>

\* _quarantine; an error of its rename is only logged.
SetAside ==
    /\ pc = "aside"
    /\ UNCHANGED names
    /\ \/ Put(work, "corrupt") /\ UNCHANGED refused
       \/ CardFails /\ refused' = refused \cup {work} /\ UNCHANGED place
    /\ Returned(FALSE)
    /\ UNCHANGED <<content, slots, latest, control, failed>>

\* An OSError of the truncation, the header, the rename or the quarantine's directory:
\* it ends the pass over the leftovers, or is logged by _stop_recording.
Raises ==
    /\ CardFails
    /\ pc \in {"scan", "mark", "rename", "aside"}
    /\ pc = "scan" => torn[work]
    /\ refused' = refused \cup {work}
    /\ queue' = {}
    /\ Returned(FALSE)
    /\ UNCHANGED <<place, names, content, slots, latest, why, work, pass, failed>>

\* move_to_trash of a discarded recording, unless the operator has been quicker.
Retire ==
    /\ pc = "retire"
    /\ UNCHANGED names
    /\ \/ work \in In("dat") /\ Put(work, "trash")
       \/ (CardFails \/ work \notin In("dat")) /\ UNCHANGED place
    /\ pc' = "halted"
    /\ UNCHANGED <<content, slots, latest, control, failed, refused>>

-----------------------------------------------------------------------------
(* Boot: recover_all, from main before the web server and from run after it. *)

PowerOn ==
    /\ pc = "off"
    /\ pass' = 1
    /\ queue' = In("partial")
    /\ refused' = {}
    /\ pc' = "next"
    /\ UNCHANGED <<place, names, content, slots, latest, why, work, failed>>

\* Mutant: the file of the current slot is left alone, as if it were being recorded.
RecoverNext_NotCurrent ==
    /\ pc = "next" /\ queue # {}
    /\ work' \in queue
    /\ \A q \in queue : slot[work'] <= slot[q]
    /\ queue' = queue \ {work'}
    /\ pc' = IF slot[work'] = counter THEN pc ELSE "scan"
    /\ UNCHANGED <<place, names, content, slots, latest, why, pass, history>>

\* In the order of the names.
RecoverNext ==
    /\ pc = "next" /\ queue # {}
    /\ work' \in queue
    /\ \A q \in queue : slot[work'] <= slot[q]
    /\ queue' = queue \ {work'}
    /\ pc' = "scan"
    /\ UNCHANGED <<place, names, content, slots, latest, why, pass, history>>

PassEnds ==
    /\ pc = "next" /\ queue = {}
    /\ IF pass = 1
         THEN pass' = 2 /\ queue' = In("partial") /\ UNCHANGED pc
         ELSE pass' = 0 /\ pc' = "ready" /\ UNCHANGED queue
    /\ UNCHANGED <<place, names, content, slots, latest, why, work, history>>

\* Also the end of the process: the service is restarted the way a boot starts it.
PowerCut ==
    /\ pc # "off"
    /\ IF pc \in {"recording", "close"} THEN LoseTail(latest) ELSE UNCHANGED <<intact, torn>>
    /\ pc' = "off" /\ pass' = 0 /\ queue' = {}
    /\ UNCHANGED <<place, names, written, marked, slots, latest, why, work, history>>

-----------------------------------------------------------------------------
(* The web threads: up from the first pass's end on. *)

WebUp == pc # "off" /\ pass # 1

\* A downloaded recording is retired (move_to_trash).
Collect(r) ==
    /\ WebUp
    /\ r \in In("dat")
    /\ UNCHANGED names
    /\ Put(r, "trash")
    /\ UNCHANGED <<content, slots, latest, pc, control, failed, refused>>

\* purge_trash, by age or for space.
Purge(r) ==
    /\ WebUp
    /\ r \in In("trash")
    /\ place' = [place EXCEPT ![r] = "gone"]
    /\ UNCHANGED <<names, content, slots, latest, pc, control, history>>

-----------------------------------------------------------------------------
Opening   == Claim \/ OpenCreates \/ OpenRefused \/ HeaderWritten \/ HeaderRefused \/ Release
Writing   == WriteBlock \/ WriteRefused \/ EndRecording \/ Close
Finishing == \/ Scan \/ ScanRefused \/ Mark \/ Rename \/ SetAside \/ Raises \/ Retire
Booted    == PowerOn \/ RecoverNext \/ PassEnds

Next ==
    \/ Opening \/ Writing \/ Finishing \/ Booted
    \/ PowerCut
    \/ \E r \in Recordings : Collect(r) \/ Purge(r)

Spec == Init /\ [][Next]_vars

-----------------------------------------------------------------------------
(* Properties. *)

\* r comes to the path that q was at.
Arrives(r, q) ==
    /\ place[q] \notin {"unborn", "gone"}
    /\ place[r] # place[q] /\ place'[r] = place[q]
    /\ slot'[r] = slot[q]

\* What is on the card is overwritten only by the slot counter going round: a recording
\* with a block in it loses its path only to one that claimed its slot SlotCount claims
\* later or more, whatever was recovered, retired, given back or cut off in between.
OverwritesOnlyByRotation ==
    [][\A q, r \in Recordings :
         Arrives(r, q) /\ intact[q] > 0 => turn'[r] - turn[q] >= SlotCount]_vars

\* What the card promises, step by step: each of these steps, power cuts and refusals among
\* them, is a step of Store or none at all to it.
Stage(p) ==
    CASE p = "unborn"  -> "none"
      [] p = "partial" -> "recorded"
      [] p = "dat"     -> "listed"
      [] p = "trash"   -> "trash"
      [] p = "corrupt" -> "aside"
      [] p = "gone"    -> "gone"

Promised == INSTANCE Store WITH
    Rotation <- SlotCount, Sizes <- 0..MaxBlocks, Numbers <- 0..MaxTurns,
    stage <- [r \in Recordings |-> Stage(place[r])], safe <- intact, number <- turn

KeepsThePromise == Promised!Spec

\* A listed recording holds a block and nothing but intact blocks (recover_partial).
ListedIsIntact == \A r \in In("dat") : intact[r] > 0 /\ ~torn[r]

\* A listed recording that lost blocks to a power cut says so: without the recovered mark
\* every block the recorder handed over is there, unless the card refused one.
UnmarkedIsComplete ==
    \A r \in In("dat") : ~marked[r] /\ r \notin failed => intact[r] = written[r]

\* When the device is about to record, a boot in which the card refused nothing has left
\* no .partial behind (recover_all, run before anything is opened).
NoLeftoverGoesUnrecovered == pc \in {"ready", "claimed"} /\ refused = {} => In("partial") = {}

=============================================================================
