------------------------------ MODULE Collect ------------------------------
(***************************************************************************)
(* The collection script, pc/collect.py, against the device it empties.    *)
(*                                                                         *)
(* The script takes the recordings of the device's list one by one: it     *)
(* reads the header, finds a name for it in its folder, transfers the      *)
(* bytes into a .part, resuming what an earlier attempt or an earlier run  *)
(* left there, compares size and header, renames, and only then sends the  *)
(* POST that retires the recording.  Meanwhile the connection breaks,      *)
(* the script is killed and run again, other people retire recordings, and *)
(* the device, started again in between, uses a name for a new recording.  *)
(*                                                                         *)
(* Recordings are numbers in the order of their making; the header of a    *)
(* recording, which has its start time and its device in it, is its        *)
(* number.  A file of the laptop is the sequence of its chunks: the i-th   *)
(* is r where it is the i-th chunk of recording r.  The header lies within *)
(* the first.  <<>> stands for an empty file and for none at all, which    *)
(* the code treats alike.                                                  *)
(***************************************************************************)
EXTENDS Naturals, Sequences

CONSTANTS
    Names,          \* the names the device gives to recordings
    MaxRecordings,  \* bound: recordings the device makes
    MaxLength,      \* bound: chunks of a recording
    Attempts,       \* the connections one download tries (4 in the code)
    Copies          \* bound: names tried for a recording after its own

ASSUME CollectAssumption ==
    /\ MaxRecordings \in Nat \ {0}
    /\ MaxLength \in Nat \ {0}
    /\ Attempts \in Nat \ {0}
    /\ Copies \in Nat

Recordings == 1 .. MaxRecordings
Nothing == 0

\* The names a recording may get in the folder, in the order they are tried: the name on
\* the device, that with a tag made from the header, and that with a number after it
Candidate(n, r, i) == <<n, IF i = 0 THEN <<>> ELSE <<r, i>> >>
Keys == {Candidate(n, r, i) : n \in Names, r \in Recordings, i \in 0 .. Copies}

VARIABLES
    length,     \* the number of chunks of each recording
    newest,     \* the last recording made
    slot,       \* the recording the device lists under a name
    trash,      \* the recording in its trash under a name
    part,       \* the .part files of the laptop
    file,       \* the finished files of the laptop
    pc,         \* where the script is
    todo,       \* the recordings listed and not yet taken: the size shown for each name
    name,       \* info["name"]
    expect,     \* info["size"], in chunks
    header,     \* the header read before the download
    dest,       \* the file to be written
    tries,      \* attempts left
    source,     \* the recording the open connection delivers
    retired,    \* history: what the POSTs of the script moved to the trash
    late        \* history: recordings that took a name between the list and the reading of
                \* their header, or between the last look at the name and the POST

device == <<length, newest, slot, trash>>
vars == <<length, newest, slot, trash, part, file, pc, todo, name, expect, header, dest,
          tries, source, retired, late>>

Init ==
    /\ length \in [Recordings -> 1 .. MaxLength]
    /\ newest = 0
    /\ slot = [n \in Names |-> Nothing]
    /\ trash = [n \in Names |-> Nothing]
    /\ part = [k \in Keys |-> <<>>]
    /\ file = [k \in Keys |-> <<>>]
    /\ pc = "idle"
    /\ todo = [n \in Names |-> 0]
    /\ name \in Names
    /\ expect = 0
    /\ header = Nothing
    /\ dest = Candidate(name, Nothing, 0)
    /\ tries = 0
    /\ source = Nothing
    /\ retired = {}
    /\ late = {}

-----------------------------------------------------------------------------
(* The device.                                                             *)

\* locate: the list first, then the trash
Served(n) == IF slot[n] # Nothing THEN slot[n] ELSE trash[n]

\* The device finishes a recording, perhaps over the one that had the name
Record ==
    /\ newest < MaxRecordings
    /\ newest' = newest + 1
    /\ \E n \in Names :
        /\ slot' = [slot EXCEPT ![n] = newest + 1]
        /\ late' = IF pc # "idle" /\ (todo[n] # 0 \/ (pc = "post" /\ n = name))
                   THEN late \cup {newest + 1} ELSE late
    /\ UNCHANGED <<length, trash, part, file, pc, todo, name, expect, header, dest, tries,
                   source, retired>>

\* Somebody retires a recording on the page
RetiredByOthers ==
    /\ \E n \in Names :
        /\ slot[n] # Nothing
        /\ slot' = [slot EXCEPT ![n] = Nothing]
        /\ trash' = [trash EXCEPT ![n] = slot[n]]
    /\ UNCHANGED <<length, newest, part, file, pc, todo, name, expect, header, dest, tries,
                   source, retired, late>>

Purge ==
    /\ \E n \in Names :
        /\ trash[n] # Nothing
        /\ trash' = [trash EXCEPT ![n] = Nothing]
    /\ UNCHANGED <<length, newest, slot, part, file, pc, todo, name, expect, header, dest,
                   tries, source, retired, late>>

-----------------------------------------------------------------------------
(* The laptop.                                                             *)

HasHeader(content, r) == content # <<>> /\ Head(content) = r

Identical(key, r, size) == HasHeader(file[key], r) /\ Len(file[key]) = size

\* _destination: the first name that is free, or that has this very recording
Fits(n, r, size, i) ==
    file[Candidate(n, r, i)] = <<>> \/ Identical(Candidate(n, r, i), r, size)
First(n, r, size, i) == Fits(n, r, size, i) /\ \A j \in 0 .. (i - 1) : ~Fits(n, r, size, j)
Destination_Plain(n, r, size) == Candidate(n, r, 0)
Destination(n, r, size) == Candidate(n, r, CHOOSE i \in 0 .. Copies : First(n, r, size, i))

Whole(r) == [i \in 1 .. length[r] |-> r]

\* The run goes on with the next recording of the list, or ends
GoOn(left) == pc' = IF \A n \in Names : left[n] = 0 THEN "idle" ELSE "next"

\* GET /api/files; an empty list ends the run, and so does no answer, which is no step
List ==
    /\ pc = "idle"
    /\ todo' = [n \in Names |-> IF slot[n] = Nothing THEN 0 ELSE length[slot[n]]]
    /\ GoOn(todo')
    /\ UNCHANGED <<device, part, file, name, expect, header, dest, tries, source, retired,
                   late>>

\* The header of a recording is read, and its place in the folder found (within Copies)
Take(n) ==
    /\ pc = "next"
    /\ todo[n] # 0
    /\ Served(n) # Nothing
    /\ \E i \in 0 .. Copies : First(n, Served(n), todo[n], i)
    /\ name' = n
    /\ expect' = todo[n]
    /\ header' = Served(n)
    /\ dest' = Destination(n, header', expect')
    /\ todo' = [todo EXCEPT ![n] = 0]
    /\ IF Identical(dest', header', expect')
       THEN GoOn(todo') /\ UNCHANGED tries
       ELSE pc' = "attempt" /\ tries' = Attempts
    /\ UNCHANGED <<device, part, file, source, retired, late>>

\* The header cannot be had, and the next recording is tried
TakeFails ==
    /\ pc = "next"
    /\ \E n \in Names :
        /\ todo[n] # 0
        /\ todo' = [todo EXCEPT ![n] = 0]
        /\ GoOn(todo')
    /\ UNCHANGED <<device, part, file, name, expect, header, dest, tries, source, retired,
                   late>>

\* What an attempt may go on from
Usable_Any(content) == Len(content) <= expect
Usable(content) == Len(content) <= expect /\ HasHeader(content, header)

\* An attempt begins: a .part of something else is emptied, one that is whole needs no
\* connection
Attempt ==
    /\ pc = "attempt"
    /\ part' = IF Usable(part[dest]) THEN part ELSE [part EXCEPT ![dest] = <<>>]
    /\ pc' = IF Len(part'[dest]) = expect THEN "check" ELSE "request"
    /\ UNCHANGED <<device, file, todo, name, expect, header, dest, tries, source, retired,
                   late>>

\* The device honours a range that begins within the recording it finds under the name,
\* and sends the whole body otherwise
Honoured(r) == part[dest] # <<>> /\ Len(part[dest]) < length[r]

\* A body that is not the rest of what was asked for
Mismatch(r) == Honoured(r) /\ length[r] # expect

RequestOk ==
    /\ pc = "request"
    /\ Served(name) # Nothing
    /\ ~Mismatch(Served(name))
    /\ source' = Served(name)
    /\ part' = IF Honoured(Served(name)) THEN part ELSE [part EXCEPT ![dest] = <<>>]
    /\ pc' = "transfer"
    /\ UNCHANGED <<device, file, todo, name, expect, header, dest, tries, retired, late>>

\* One chunk arrives.  The device reads it from the file it opened for the request.
Chunk ==
    /\ pc = "transfer"
    /\ Len(part[dest]) < length[source]
    /\ part' = [part EXCEPT ![dest] = Append(@, source)]
    /\ UNCHANGED <<device, file, pc, todo, name, expect, header, dest, tries, source, retired,
                   late>>

\* An exception in an attempt: the next one, or the recording is given up for this run
AttemptFails ==
    /\ tries' = tries - 1
    /\ IF tries > 1 THEN pc' = "attempt" ELSE GoOn(todo)
    /\ UNCHANGED <<device, part, file, todo, name, expect, header, dest, source, retired,
                   late>>

\* No connection, an error for an answer, or another range than the one asked for
RequestFails == pc = "request" /\ AttemptFails

\* The connection breaks
Breaks == pc = "transfer" /\ AttemptFails

\* The body ends, perhaps early: a short read is no exception, and only the next attempt,
\* or the comparison of the sizes after the last one, sees it
BodyEnds ==
    /\ pc = "transfer"
    /\ tries' = tries - 1
    /\ pc' = IF tries > 1 THEN "attempt" ELSE "check"
    /\ UNCHANGED <<device, part, file, todo, name, expect, header, dest, source, retired, late>>

\* What must hold before a .part becomes a file
Verified_NoLook ==
    /\ Len(part[dest]) = expect
    /\ HasHeader(part[dest], header)
    /\ Served(name) # Nothing
Verified_NoSize ==
    /\ HasHeader(part[dest], header)
    /\ Served(name) = header
Verified ==
    /\ Len(part[dest]) = expect
    /\ HasHeader(part[dest], header)
    /\ Served(name) = header

\* Size and header are compared, the latter with the device's once more, and the .part
\* is renamed
Finish ==
    /\ pc = "check"
    /\ Verified
    /\ file' = [file EXCEPT ![dest] = part[dest]]
    /\ part' = [part EXCEPT ![dest] = <<>>]
    /\ pc' = "post"
    /\ UNCHANGED <<device, todo, name, expect, header, dest, tries, source, retired, late>>

\* The comparison fails, or the device cannot be asked; the .part is left
FinishFails ==
    /\ pc = "check"
    /\ GoOn(todo)
    /\ UNCHANGED <<device, part, file, todo, name, expect, header, dest, tries, source,
                   retired, late>>

\* POST .../collected: the recording that has the name now goes to the trash
Post ==
    /\ pc = "post"
    /\ slot[name] # Nothing
    /\ slot' = [slot EXCEPT ![name] = Nothing]
    /\ trash' = [trash EXCEPT ![name] = slot[name]]
    /\ retired' = retired \cup {slot[name]}
    /\ GoOn(todo)
    /\ UNCHANGED <<length, newest, part, file, todo, name, expect, header, dest, tries, source,
                   late>>

\* The POST is lost, or the name is not in the list any more
PostFails ==
    /\ pc = "post"
    /\ GoOn(todo)
    /\ UNCHANGED <<device, part, file, todo, name, expect, header, dest, tries, source,
                   retired, late>>

\* The operator closes the laptop; what the .part holds stays
Killed ==
    /\ pc # "idle"
    /\ pc' = "idle"
    /\ todo' = [n \in Names |-> 0]
    /\ UNCHANGED <<device, part, file, name, expect, header, dest, tries, source,
                   retired, late>>

Script ==
    \/ List \/ (\E n \in Names : Take(n)) \/ TakeFails
    \/ Attempt \/ RequestOk \/ RequestFails \/ Chunk \/ Breaks \/ BodyEnds
    \/ Finish \/ FinishFails \/ Post \/ PostFails

Next ==
    \/ Record \/ RetiredByOthers \/ Purge
    \/ Script \/ Killed

Spec == Init /\ [][Next]_vars

(***************************************************************************)
(* The operator runs the script again as long as there is something to     *)
(* take, and for each recording the connection is good once in a while     *)
(* before he closes the laptop: an attempt is begun, a request answered, a *)
(* chunk arrives, the comparison can be made.  Nobody need retire          *)
(* anything.                                                               *)
(***************************************************************************)
Fairness ==
    /\ WF_vars(Script)
    /\ \A n \in Names :
        /\ SF_vars(Take(n))
        /\ SF_vars(Attempt /\ name = n)
        /\ SF_vars(RequestOk /\ name = n)
        /\ SF_vars(Chunk /\ name = n)
        /\ SF_vars(Finish /\ name = n)
        /\ SF_vars(Post /\ name = n)

FairSpec == Spec /\ Fairness

-----------------------------------------------------------------------------
(* Properties.                                                             *)

TypeOK ==
    /\ length \in [Recordings -> 1 .. MaxLength]
    /\ newest \in 0 .. MaxRecordings
    /\ slot \in [Names -> 0 .. MaxRecordings]
    /\ trash \in [Names -> 0 .. MaxRecordings]
    /\ DOMAIN part = Keys /\ DOMAIN file = Keys
    /\ \A k \in Keys : part[k] \in Seq(Recordings) /\ file[k] \in Seq(Recordings)
    /\ pc \in {"idle", "next", "attempt", "request", "transfer", "check", "post"}
    /\ todo \in [Names -> 0 .. MaxLength]
    /\ name \in Names
    /\ dest \in Keys
    /\ expect \in 0 .. MaxLength
    /\ header \in 0 .. MaxRecordings
    /\ tries \in 0 .. Attempts
    /\ source \in 0 .. MaxRecordings
    /\ retired \subseteq Recordings
    /\ late \subseteq Recordings

\* The laptop holds the whole of r
Held(r) == \E k \in Keys : file[k] = Whole(r)

\* A finished file is one recording from its first chunk to its last, however many
\* attempts and runs it took and whatever the .part held before ("leaves nothing that
\* looks like a finished file", collect.py 97-100).  Excepted is a name that was given
\* to another recording between the list and the reading of the header: the size is the
\* list's, the header is not.
FinishedIsWhole ==
    \A k \in Keys : file[k] # <<>> => Head(file[k]) \in late \/ file[k] = Whole(Head(file[k]))

\* Whatever the script retires is whole on the laptop (README.md 466-473).  The POST
\* names a slot and not a recording, so a recording that took the name after the last
\* look at it is excepted.
RetiredIsHeld == \A r \in retired \ late : Held(r)

\* There is a place in the folder for every recording that is to be taken, and the search for
\* it ends at the second name at the latest: its own, or if that is another recording's the
\* one with the tag made from its header (_destination).  What was collected before and
\* what broke off do not push it on to ever new names.
PlaceIsFound ==
    pc = "next" => \A n \in Names :
        todo[n] # 0 /\ Served(n) \notin late \cup {Nothing} =>
            \E i \in 0 .. 1 : Fits(n, Served(n), todo[n], i)

\* A recording that stays in the list arrives in the end, whatever interrupts the
\* transfers: each run goes on from what the last one left, and a .part of something
\* else is never in the way of it (collect.py 102-105).
Arrives ==
    \A n \in Names, r \in Recordings : (slot[n] = r) ~> (Held(r) \/ slot[n] # r)

\* "From the list to the confirmation by itself" (README.md 438): a recording that is
\* listed is retired in the end.
ListIsEmptied ==
    \A n \in Names, r \in Recordings : (slot[n] = r) ~> (slot[n] # r)
=============================================================================
