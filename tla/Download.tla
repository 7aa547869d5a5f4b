------------------------------ MODULE Download ------------------------------
(***************************************************************************)
(* What happens to the requests of one click on the device's page.         *)
(*                                                                         *)
(* The page (web/templates/index.html) answers a click on a recording, or  *)
(* on a group of recordings that follow each other without a gap, with two *)
(* requests: a GET that downloads and a POST that retires what was         *)
(* collected into trash/.  The device (web/routes.py) serves each request  *)
(* in a thread of its own, so the two run in any order and in each other's *)
(* middle, together with those of other clicks and with the hourly purge.  *)
(* A step is the code between two accesses to the card.                    *)
(*                                                                         *)
(* A recording is a number, in the order of the starting times.            *)
(***************************************************************************)
EXTENDS Naturals, FiniteSets

CONSTANTS Recordings,   \* the recordings on the card
          Joined,       \* those that start where the one before them ended
          FileClicks,   \* the clicks there may be on a recording
          GroupClicks   \* the clicks there may be on a group of them

ASSUME DownloadAssumption ==
  /\ Recordings \subseteq Nat
  /\ IsFiniteSet(Recordings)
  /\ Joined \subseteq Recordings
  /\ FileClicks \cap GroupClicks = {}

VARIABLES
  place,       \* where a recording is: .partial, .dat, trash/, or purged
  retiring,    \* the setting delete_after_download
  click,       \* what was clicked, and whether it was in the list then
  pc,          \* where the thread of a request is
  todo,        \* list_files: the names not described yet
  found,       \* list_files: the names described
  left,        \* the recordings the request has still to merge, send or move
  from,        \* the place the path being opened or moved names
  body,        \* the recordings opened, or merged, for the response
  sent,        \* those whose bytes the client has
  moved,       \* move_to_trash: what it reports
  response,    \* the status of the response
  shifted      \* history: recordings moved or purged between locate and open

vars == <<place, retiring, click, pc, todo, found, left, from, body, sent,
          moved, response, shifted>>

result == <<body, sent, moved>>
request == <<todo, found, left, from, result>>

Places == {"partial", "data", "trash", "gone"}
Clicks == FileClicks \cup GroupClicks
NoClick == [listed |-> FALSE]
Click == [name : Recordings, listed : BOOLEAN]

(***************************************************************************)
(* The threads of a click: its GET and its POST.                           *)
(***************************************************************************)
Threads == Clicks \X {"get", "post"}
Asked(t) == click[t[1]]
Name(t) == Asked(t).name
IsFile(t) == t[1] \in FileClicks
Gets(t) == t[2] = "get"

First(S) == CHOOSE r \in S : \A s \in S : r <= s

(***************************************************************************)
(* list_files numbers the groups of a listing: two recordings are in the   *)
(* same group if every one between them is listed and starts where the     *)
(* one before it ended.                                                    *)
(***************************************************************************)
SameGroup(L, r, s) ==
  \A n \in (r + 1)..s : n \in L \cap Joined

\* Mutant: the group is addressed by its number in the list, as it once was.
Members_ByNumber(L, a) ==
  LET Number(M, r) == Cardinality({n \in M : n <= r /\ ~(n \in Joined /\ n - 1 \in M)})
  IN {r \in L : Number(L, r) = Number(Recordings, a)}

\* Mutant: the gap before a recording is not looked at.
Members_AnyGap(L, a) == {r \in L : a \in L}

(***************************************************************************)
(* group_containing: addressed by the name of a member.                    *)
(***************************************************************************)
Members(L, a) ==
  {r \in L : a \in L /\ SameGroup(L, r, a) /\ SameGroup(L, a, r)}

Goto(t, label) == pc' = [pc EXCEPT ![t] = label]

Shift(r) ==
  [t \in Threads |-> IF pc[t] = "open" THEN shifted[t] \cup {r} ELSE shifted[t]]

Respond(t, status) ==
  /\ response' = [response EXCEPT ![t] = status]
  /\ Goto(t, "done")
  /\ todo' = [todo EXCEPT ![t] = {}]
  /\ found' = [found EXCEPT ![t] = {}]
  /\ left' = [left EXCEPT ![t] = {}]
  /\ from' = [from EXCEPT ![t] = "data"]
  /\ UNCHANGED <<place, retiring, click, result, shifted>>

-----------------------------------------------------------------------------

Init ==
  /\ place \in [Recordings -> {"partial", "data"}]
  /\ \A r, s \in Recordings : place[r] = "partial" => s <= r
  /\ retiring \in BOOLEAN
  /\ click = [c \in Clicks |-> NoClick]
  /\ pc = [t \in Threads |-> "idle"]
  /\ todo = [t \in Threads |-> {}]
  /\ found = [t \in Threads |-> {}]
  /\ left = [t \in Threads |-> {}]
  /\ from = [t \in Threads |-> "data"]
  /\ body = [t \in Threads |-> {}]
  /\ sent = [t \in Threads |-> {}]
  /\ moved = [t \in Threads |-> {}]
  /\ response = [t \in Threads |-> "none"]
  /\ shifted = [t \in Threads |-> {}]

(***************************************************************************)
(* The click: the POST is fetched, the browser follows the link.  The page *)
(* may be old, so what is clicked need not be in the list any more.  Each  *)
(* request may also fail to arrive, and a DELETE is a POST without a GET.  *)
(***************************************************************************)
ClickOn(c, r) ==
  /\ click[c] = NoClick
  /\ place[r] # "partial"
  /\ click' = [click EXCEPT
       ![c] = [name |-> r, listed |-> place[r] = "data"]]
  /\ pc' = [t \in Threads |-> IF t[1] = c THEN "start" ELSE pc[t]]
  /\ UNCHANGED <<place, retiring, request, response, shifted>>

(***************************************************************************)
(* list_files, for a group: one os.listdir, then describe() opens the      *)
(* files one at a time, and leaves out those that are no longer there.     *)
(***************************************************************************)
ListDir(t) ==
  /\ pc[t] = "start"
  /\ ~IsFile(t)
  /\ Gets(t) \/ retiring
  /\ todo' = [todo EXCEPT ![t] = {r \in Recordings : place[r] = "data"}]
  /\ Goto(t, "describe")
  /\ UNCHANGED <<place, retiring, click, found, left, from, body, sent, moved,
                 response, shifted>>

Describe(t, r) ==
  /\ pc[t] = "describe"
  /\ r \in todo[t]
  /\ todo' = [todo EXCEPT ![t] = @ \ {r}]
  /\ found' = [found EXCEPT ![t] = IF place[r] = "data" THEN @ \cup {r} ELSE @]
  /\ UNCHANGED <<place, retiring, click, pc, left, from, body, sent, moved,
                 response, shifted>>

(***************************************************************************)
(* The group of the anchor in that listing: none is a 404, a single member *)
(* is sent as it is, and several are merged; the POST moves them all.      *)
(***************************************************************************)
GroupMissing(t) ==
  /\ pc[t] = "describe"
  /\ todo[t] = {}
  /\ Members(found[t], Name(t)) = {}
  /\ Respond(t, "404")

GroupFound(t) ==
  /\ pc[t] = "describe"
  /\ todo[t] = {}
  /\ Members(found[t], Name(t)) # {}
  /\ left' = [left EXCEPT ![t] = Members(found[t], Name(t))]
  /\ Goto(t, IF ~Gets(t) THEN "move"
             ELSE IF Cardinality(Members(found[t], Name(t))) = 1 THEN "open"
             ELSE "merge")
  /\ found' = [found EXCEPT ![t] = {}]
  /\ UNCHANGED <<place, retiring, click, todo, from, body, sent, moved,
                 response, shifted>>

\* Mutant: a download looks among the listed recordings only.
Located_InList(r) == place[r] = "data"

(***************************************************************************)
(* api_download: locate() looks among the recordings and then in trash/,   *)
(* and _send opens the path that it gave.                                  *)
(***************************************************************************)
Located(r) == place[r] \in {"data", "trash"}

Locate(t) ==
  /\ pc[t] = "start"
  /\ IsFile(t) /\ Gets(t)
  /\ Located(Name(t))
  /\ left' = [left EXCEPT ![t] = {Name(t)}]
  /\ from' = [from EXCEPT ![t] = place[Name(t)]]
  /\ Goto(t, "open")
  /\ UNCHANGED <<place, retiring, click, todo, found, body, sent, moved,
                 response, shifted>>

LocateFails(t) ==
  /\ pc[t] = "start"
  /\ IsFile(t) /\ Gets(t)
  /\ ~Located(Name(t))
  /\ Respond(t, "404")

Open(t) ==
  /\ pc[t] = "open"
  /\ place[First(left[t])] = from[t]
  /\ body' = [body EXCEPT ![t] = left[t]]
  /\ Goto(t, "stream")
  /\ UNCHANGED <<place, retiring, click, todo, found, left, from, sent, moved,
                 response, shifted>>

OpenFails(t) ==
  /\ pc[t] = "open"
  /\ place[First(left[t])] # from[t]
  /\ Respond(t, "404")

(***************************************************************************)
(* merge() opens the members in turn, oldest first, by the paths of the    *)
(* listing.  A missing one raises, and the merged file is removed.         *)
(***************************************************************************)
MergeNext(t) ==
  LET r == First(left[t]) IN
  /\ pc[t] = "merge"
  /\ left[t] # {}
  /\ place[r] = "data"
  /\ body' = [body EXCEPT ![t] = @ \cup {r}]
  /\ left' = [left EXCEPT ![t] = @ \ {r}]
  /\ UNCHANGED <<place, retiring, click, pc, todo, found, from, sent, moved,
                 response, shifted>>

MergeFails(t) ==
  /\ pc[t] = "merge"
  /\ left[t] # {}
  /\ place[First(left[t])] # "data"
  /\ Respond(t, "500")

MergeDone(t) ==
  /\ pc[t] = "merge"
  /\ left[t] = {}
  /\ left' = [left EXCEPT ![t] = body[t]]
  /\ Goto(t, "stream")
  /\ UNCHANGED <<place, retiring, click, todo, found, from, body, sent, moved,
                 response, shifted>>

\* Mutant: the body is read from the path and not from the descriptor.
Readable_ByPath(t, r) == place[r] = from[t]

(***************************************************************************)
(* The body is read from what was opened (the recording, or the merged     *)
(* file), wherever a rename has taken it since; generate() ends when a     *)
(* read gives nothing, and the client counts what it got against the       *)
(* Content-Length.                                                         *)
(***************************************************************************)
Readable(t, r) == r \in body[t]

Stream(t) ==
  LET r == First(left[t]) IN
  /\ pc[t] = "stream"
  /\ left[t] # {}
  /\ Readable(t, r)
  /\ sent' = [sent EXCEPT ![t] = @ \cup {r}]
  /\ left' = [left EXCEPT ![t] = @ \ {r}]
  /\ UNCHANGED <<place, retiring, click, pc, todo, found, from, body, moved,
                 response, shifted>>

StreamEnds(t) ==
  /\ pc[t] = "stream"
  /\ left[t] # {} => ~Readable(t, First(left[t]))
  /\ Respond(t, "200")

(***************************************************************************)
(* api_collected (and api_delete): does nothing when the setting says so,  *)
(* and otherwise looks in the data directory only.                         *)
(***************************************************************************)
Keep(t) ==
  /\ pc[t] = "start"
  /\ ~Gets(t) /\ ~retiring
  /\ Respond(t, "200")

Collected(t) ==
  /\ pc[t] = "start"
  /\ IsFile(t) /\ ~Gets(t) /\ retiring
  /\ place[Name(t)] = "data"
  /\ left' = [left EXCEPT ![t] = {Name(t)}]
  /\ Goto(t, "move")
  /\ UNCHANGED <<place, retiring, click, todo, found, from, body, sent, moved,
                 response, shifted>>

CollectedMissing(t) ==
  /\ pc[t] = "start"
  /\ IsFile(t) /\ ~Gets(t) /\ retiring
  /\ place[Name(t)] # "data"
  /\ Respond(t, "404")

(***************************************************************************)
(* move_to_trash: for each name a look, and an os.replace that may find    *)
(* the file gone all the same.                                             *)
(***************************************************************************)
MoveMissing(t) ==
  LET r == First(left[t]) IN
  /\ pc[t] = "move"
  /\ left[t] # {}
  /\ place[r] # "data"
  /\ left' = [left EXCEPT ![t] = @ \ {r}]
  /\ UNCHANGED <<place, retiring, click, pc, todo, found, from, body, sent,
                 moved, response, shifted>>

MoveSeen(t) ==
  /\ pc[t] = "move"
  /\ left[t] # {}
  /\ place[First(left[t])] = "data"
  /\ Goto(t, "replace")
  /\ UNCHANGED <<place, retiring, click, request, response, shifted>>

\* Mutant: a name is reported before os.replace has answered.
ReportMove_Early(t, r) == {r}

(***************************************************************************)
(* The outcome of os.replace for recording r, and what is then reported.   *)
(***************************************************************************)
ReportMove(t, r) == IF place[r] = "data" THEN {r} ELSE {}

Replace(t) ==
  LET r == First(left[t]) IN
  /\ pc[t] = "replace"
  /\ IF place[r] = "data"
     THEN /\ place' = [place EXCEPT ![r] = "trash"]
          /\ shifted' = Shift(r)
     ELSE UNCHANGED <<place, shifted>>
  /\ moved' = [moved EXCEPT ![t] = @ \cup ReportMove(t, r)]
  /\ left' = [left EXCEPT ![t] = @ \ {r}]
  /\ Goto(t, "move")
  /\ UNCHANGED <<retiring, click, todo, found, from, body, sent, response>>

MoveDone(t) ==
  /\ pc[t] = "move"
  /\ left[t] = {}
  /\ Respond(t, "200")

(***************************************************************************)
(* The recorder's thread: purge_trash, and a recording that is closed.     *)
(***************************************************************************)
Purge(r) ==
  /\ place[r] = "trash"
  /\ place' = [place EXCEPT ![r] = "gone"]
  /\ shifted' = Shift(r)
  /\ UNCHANGED <<retiring, click, pc, request, response>>

CloseRecording(r) ==
  /\ place[r] = "partial"
  /\ place' = [place EXCEPT ![r] = "data"]
  /\ UNCHANGED <<retiring, click, pc, request, response, shifted>>

Download(t) ==
  \/ Locate(t) \/ LocateFails(t) \/ Open(t) \/ OpenFails(t)
  \/ MergeNext(t) \/ MergeFails(t) \/ MergeDone(t)
  \/ Stream(t) \/ StreamEnds(t)

Retire(t) ==
  \/ Keep(t) \/ Collected(t) \/ CollectedMissing(t)
  \/ MoveMissing(t) \/ MoveSeen(t) \/ Replace(t) \/ MoveDone(t)

FindGroup(t) ==
  \/ ListDir(t) \/ GroupMissing(t) \/ GroupFound(t)
  \/ \E r \in Recordings : Describe(t, r)

Next ==
  \/ \E c \in Clicks, r \in Recordings : ClickOn(c, r)
  \/ \E t \in Threads : FindGroup(t) \/ Download(t) \/ Retire(t)
  \/ \E r \in Recordings : Purge(r) \/ CloseRecording(r)

Spec == Init /\ [][Next]_vars

-----------------------------------------------------------------------------

TypeOK ==
  /\ place \in [Recordings -> Places]
  /\ retiring \in BOOLEAN
  /\ click \in [Clicks -> {NoClick} \cup Click]
  /\ pc \in [Threads -> {"idle", "start", "describe", "open", "merge", "stream",
                         "move", "replace", "done"}]
  /\ todo \in [Threads -> SUBSET Recordings]
  /\ found \in [Threads -> SUBSET Recordings]
  /\ left \in [Threads -> SUBSET Recordings]
  /\ from \in [Threads -> {"data", "trash"}]
  /\ body \in [Threads -> SUBSET Recordings]
  /\ sent \in [Threads -> SUBSET Recordings]
  /\ moved \in [Threads -> SUBSET Recordings]
  /\ response \in [Threads -> {"none", "200", "404", "500"}]
  /\ shifted \in [Threads -> SUBSET Recordings]

(***************************************************************************)
(* A download is the measurement that was clicked: the recording, or a run *)
(* of recordings without a gap that holds the one clicked, whatever other  *)
(* requests moved while the card was being listed and the run merged.      *)
(***************************************************************************)
Sending(t) == Gets(t) /\ (pc[t] = "stream" \/ response[t] = "200")

BodyIsOneRun ==
  \A t \in Threads : Sending(t) =>
    /\ Name(t) \in body[t]
    /\ IsFile(t) => body[t] = {Name(t)}
    /\ \A r, s \in body[t] : \A n \in (r + 1)..s : n \in body[t] /\ n \in Joined

(***************************************************************************)
(* The Content-Length is kept: a response that was begun is sent to the    *)
(* end, although the recording may be retired or purged meanwhile (the     *)
(* docstring of _send).                                                    *)
(***************************************************************************)
PromiseKept ==
  \A t \in Threads :
    Gets(t) /\ response[t] = "200" => sent[t] = body[t]

(***************************************************************************)
(* The two requests of a click on a recording may be served in either      *)
(* order: it is not found only if it has been purged, or if it was moved   *)
(* in the very instant between looking for it and opening it.              *)
(***************************************************************************)
EitherOrderDelivers ==
  \A t \in Threads :
    Gets(t) /\ response[t] = "404" /\ IsFile(t) =>
      place[Name(t)] = "gone" \/ Name(t) \in shifted[t]

(***************************************************************************)
(* What a POST reports as retired has left the list, and of two requests   *)
(* for the same recording one reports it.  It is the recording clicked, or *)
(* of its measurement, however the list has changed since the page was     *)
(* drawn (the docstring of group_containing): every recording from one     *)
(* that was retired to the one that was clicked belongs to the same        *)
(* measurement, and is retired too or about to be.                         *)
(***************************************************************************)
Between(r, s) == {n \in Recordings : (r <= n /\ n <= s) \/ (s <= n /\ n <= r)}

RetiresOneRun ==
  \A t \in Threads : \A r \in moved[t] :
    /\ place[r] \in {"trash", "gone"}
    /\ \A u \in Threads \ {t} : r \notin moved[u]
    /\ IsFile(t) => r = Name(t)
    /\ \A n \in Between(r, Name(t)) :
         /\ place[n] \in {"trash", "gone"} \/ n \in left[t]
         /\ (n > r \/ n > Name(t)) => n \in Joined

(***************************************************************************)
(* web/templates/index.html:168-173, of the two requests of a click:       *)
(* "which one the device sees first is not decided here. The server is     *)
(* built for that: ... either order delivers the bytes."                   *)
(***************************************************************************)
GroupClickDelivers ==
  \A t \in Threads :
    Gets(t) /\ response[t] \in {"404", "500"} /\ ~IsFile(t) /\ Asked(t).listed =>
      \E r \in Recordings : place[r] = "gone"

=============================================================================
