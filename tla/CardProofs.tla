----------------------------- MODULE CardProofs -----------------------------
(***************************************************************************)
(* Proofs about Card: for any number of slots, recordings and blocks, and  *)
(* whatever calls are refused.  What is about names supposes that the slot *)
(* file can be read and written (Counts).                                  *)
(***************************************************************************)
EXTENDS Card, TLAPS

Counts == ~CounterFails

Live(r) == place[r] \notin {"unborn", "gone"}

AtWork == pc \in {"scan", "mark", "rename", "aside"}

\* A slot has been claimed, and may yet be given back.
HasSlot == pc \in {"claimed", "header", "release"}

-----------------------------------------------------------------------------
(* The inductive invariant, beside the types. *)

\* Recordings are born in order and empty, and a reader never finds more than was written.
BornInv ==
  /\ \A r \in Recordings : place[r] = "unborn" <=> r > latest
  /\ \A r \in Recordings : place[r] = "unborn" => written[r] = 0
  /\ \A r \in Recordings : intact[r] <= written[r]

\* Which pass it is, where the recordings in hand are, and what is in the queue.
ControlInv ==
  /\ pc \in {"off", "ready", "claimed", "header", "release", "recording", "close", "retire", "halted"}
       => pass = 0
  /\ pc \in {"next", "mark"} => pass # 0
  /\ pass = 0 => queue = {}
  /\ pc = "claimed" => latest + 1 \in Recordings
  /\ HasSlot => turns > 0
  /\ queue \subseteq In("partial")
  /\ pc \in {"header", "recording", "close"} => latest \in In("partial")
  /\ AtWork => work \in In("partial") \ queue

\* What recover_partial has found out about the recording it is at, it still knows when
\* it renames it.
ContentInv ==
  /\ \A r \in In("dat") : intact[r] > 0 /\ ~torn[r]
  /\ pc \in {"mark", "rename"} => intact[work] > 0 /\ ~torn[work]

WholeInv ==
  /\ \A r \in In("dat") : marked[r] \/ r \in failed \/ intact[r] = written[r]
  /\ pc \in {"scan", "rename"} /\ pass = 0 => work \in failed \/ intact[work] = written[work]
  /\ pc = "rename" /\ pass # 0 => marked[work]

\* In a boot without a refusal every leftover is in hand or still in the queue.
LeftInv ==
  refused = {} =>
    /\ pass # 0 => In("partial") \subseteq queue \cup (IF AtWork THEN {work} ELSE {})
    /\ pc \in {"ready", "claimed", "release"} => In("partial") = {}
    /\ pc \in {"header", "recording", "close"} => In("partial") \subseteq {latest}
    /\ pass = 0 /\ AtWork => In("partial") \subseteq {work}

\* A path has one recording.
UniqueInv ==
  \A q, r \in Recordings :
    Live(q) /\ place[q] = place[r] /\ slot[q] = slot[r] => q = r

IInv ==
  TypeOK /\ BornInv /\ ControlInv /\ ContentInv /\ WholeInv /\ LeftInv /\ UniqueInv

-----------------------------------------------------------------------------
(* The same for the names. *)

\* The counter is on the card, and names the slot in hand.
CounterInv ==
  /\ counter = -1 => turns = 0
  /\ HasSlot => counter = claimed

\* A recording with a block has a turn of its own.  (One whose header was refused shares it
\* with the next.)
TurnInv ==
  /\ \A q \in Recordings : turn[q] <= turns + 1
  /\ HasSlot => \A q \in Recordings : turn[q] <= turns
  /\ \A q \in Recordings : intact[q] > 0 => turn[q] <= turns
  /\ HasSlot => \A q \in Recordings : intact[q] > 0 => turn[q] < turns
  /\ pc = "header" => written[latest] = 0
  /\ pc \in {"recording", "close"} => turn[latest] <= turns

\* Counted back from the counter, the turns of the latest SlotCount claims are the slots.
RingInv ==
  \A q \in Recordings :
    LET back == turns - turn[q]
    IN  place[q] # "unborn" /\ back < SlotCount + (IF HasSlot THEN 1 ELSE 0) =>
          slot[q] \in {counter - back, counter - back + SlotCount, counter - back - SlotCount}

\* r may yet come to where q is.
Behind(r, q) ==
  \/ place[r] = "partial" /\ place[q] \in {"dat", "trash", "corrupt"}
  \/ place[r] = "dat" /\ place[q] = "trash"

ApartInv ==
  \A q, r \in Recordings :
    Behind(r, q) /\ slot[q] = slot[r] /\ intact[q] > 0 => turn[r] - turn[q] >= SlotCount

NInv == CounterInv /\ TurnInv /\ RingInv /\ ApartInv

-----------------------------------------------------------------------------
(***************************************************************************)
(* What a rename, or an opening for writing, does to the places.           *)
(***************************************************************************)
LEMMA PutShape ==
  ASSUME TypeOK, NEW r \in Recordings, NEW where \in Places, Put(r, where)
  PROVE  /\ place' \in [Recordings -> Places]
         /\ place'[r] = where
         /\ \A q \in Recordings \ {r} :
              IF place[q] = where /\ slot'[q] = slot'[r]
                THEN place'[q] = "gone" ELSE place'[q] = place[q]
BY DEF TypeOK, Put, In, Places

\* The counter goes round.
LEMMA CountUp ==
  ASSUME NEW c \in -1..SlotCount - 1
  PROVE  (c + 1) % SlotCount = IF c + 1 = SlotCount THEN 0 ELSE c + 1
<1>1. CASE c + 1 = SlotCount BY <1>1, CardAssumption
<1>2. CASE c + 1 < SlotCount BY <1>2, CardAssumption
<1> QED BY <1>1, <1>2, CardAssumption

\* A slot that is handed back can be handed out again.
LEMMA CountDown ==
  ASSUME NEW c \in 0..SlotCount - 1
  PROVE  (c - 1) % SlotCount = IF c = 0 THEN SlotCount - 1 ELSE c - 1
<1>1. CASE c = 0 BY <1>1, CardAssumption
<1>2. CASE c > 0 BY <1>2, CardAssumption
<1> QED BY <1>1, <1>2, CardAssumption

\* All the blocks are on the card.
Filled(r) == intact' = [intact EXCEPT ![r] = written[r]] /\ UNCHANGED torn

\* What a lost tail leaves.
LEMMA TailShape ==
  ASSUME TypeOK, BornInv, NEW r \in Recordings, Filled(r) \/ LoseTail(r)
  PROVE  /\ intact' \in [Recordings -> 0..MaxBlocks] /\ torn' \in [Recordings -> BOOLEAN]
         /\ intact'[r] \in intact[r]..written[r]
         /\ \A q \in Recordings \ {r} : intact'[q] = intact[q] /\ torn'[q] = torn[q]
<1>1. /\ intact[r] \in 0..MaxBlocks /\ written[r] \in 0..MaxBlocks
      /\ intact[r] <= written[r]
  BY DEF TypeOK, BornInv
<1>2. CASE Filled(r) BY <1>1, <1>2, CardAssumption DEF TypeOK, Filled
<1>3. CASE LoseTail(r)
  <2>1. PICK k \in intact[r]..written[r] : intact' = [intact EXCEPT ![r] = k]
    BY <1>3 DEF LoseTail
  <2>2. PICK t \in BOOLEAN : torn' = [torn EXCEPT ![r] = t]
    BY <1>3 DEF LoseTail
  <2>3. k \in 0..MaxBlocks BY <1>1, <2>1, CardAssumption
  <2>4. torn' \in [Recordings -> BOOLEAN] /\ \A q \in Recordings \ {r} : torn'[q] = torn[q]
    BY <2>2 DEF TypeOK
  <2> QED BY <2>1, <2>3, <2>4 DEF TypeOK
<1> QED BY <1>2, <1>3

\* An empty card satisfies the invariant.
THEOREM InitInv == Init => IInv
<1> SUFFICES ASSUME Init PROVE IInv OBVIOUS
<1>1. TypeOK BY CardAssumption DEF Init, TypeOK, Places, Points, Endings, Recordings
<1>2. BornInv BY DEF Init, BornInv, Recordings
<1>3. ControlInv BY DEF Init, ControlInv, AtWork, HasSlot
<1>4. ContentInv /\ WholeInv /\ LeftInv /\ UniqueInv
  BY DEF Init, ContentInv, WholeInv, LeftInv, UniqueInv, In, Live, AtWork
<1> QED BY <1>1, <1>2, <1>3, <1>4 DEF IInv

LEMMA ClaimStep == ASSUME IInv, Claim PROVE IInv'
<1>1. TypeOK'
  <2>1. PICK previous \in {counter} \cup (IF CounterFails THEN {-1} ELSE {}) :
          claimed' = (previous + 1) % SlotCount
    BY DEF Claim
  <2>2. previous \in -1..SlotCount - 1 BY <2>1, CardAssumption DEF IInv, TypeOK
  <2>3. claimed' \in 0..SlotCount - 1 BY <2>1, <2>2, CountUp, CardAssumption
  <2>4. counter' \in -1..SlotCount - 1 BY <2>3, CardAssumption DEF IInv, TypeOK, Claim
  <2>5. turns' \in 0..MaxTurns BY CardAssumption DEF IInv, TypeOK, Claim
  <2> QED BY <2>3, <2>4, <2>5 DEF IInv, TypeOK, Points, Claim, names, content, control, history
<1>2. BornInv' BY CardAssumption
  DEF IInv, TypeOK, BornInv, ControlInv, Recordings, In, AtWork, HasSlot, Claim, names,
      content, slots, control, history
<1>3. ControlInv' BY CardAssumption
  DEF IInv, TypeOK, BornInv, ControlInv, LeftInv, Recordings, In, AtWork, HasSlot, Claim,
      names, content, slots, control, history
<1>4. ContentInv' BY CardAssumption
  DEF IInv, TypeOK, BornInv, ControlInv, ContentInv, Recordings, In, AtWork, HasSlot, Claim,
      names, content, slots, control, history
<1>5. WholeInv' BY CardAssumption
  DEF IInv, TypeOK, BornInv, ControlInv, WholeInv, Recordings, In, AtWork, HasSlot, Claim,
      names, content, slots, control, history
<1>6. LeftInv' BY CardAssumption
  DEF IInv, TypeOK, BornInv, ControlInv, LeftInv, Recordings, In, AtWork, HasSlot, Claim,
      names, content, slots, control, history
<1>7. UniqueInv' BY CardAssumption
  DEF IInv, TypeOK, BornInv, ControlInv, UniqueInv, Live, Recordings, In, AtWork, HasSlot,
      Claim, names, content, slots, control, history
<1> QED BY <1>1, <1>2, <1>3, <1>4, <1>5, <1>6, <1>7 DEF IInv

LEMMA OpenRefusedStep == ASSUME IInv, OpenRefused PROVE IInv'
<1>1. TypeOK' BY CardAssumption
  DEF IInv, TypeOK, BornInv, ControlInv, Places, Points, Endings, Recordings, In, AtWork,
      HasSlot, OpenRefused, names, content, slots, control, history
<1>2. BornInv' BY CardAssumption
  DEF IInv, TypeOK, BornInv, ControlInv, Recordings, In, AtWork, HasSlot, OpenRefused, names,
      content, slots, control, history
<1>3. ControlInv' BY CardAssumption
  DEF IInv, TypeOK, BornInv, ControlInv, LeftInv, Recordings, In, AtWork, HasSlot,
      OpenRefused, names, content, slots, control, history
<1>4. ContentInv' BY CardAssumption
  DEF IInv, TypeOK, BornInv, ControlInv, ContentInv, Recordings, In, AtWork, HasSlot,
      OpenRefused, names, content, slots, control, history
<1>5. WholeInv' BY CardAssumption
  DEF IInv, TypeOK, BornInv, ControlInv, WholeInv, Recordings, In, AtWork, HasSlot,
      OpenRefused, names, content, slots, control, history
<1>6. LeftInv' BY CardAssumption
  DEF IInv, TypeOK, BornInv, ControlInv, LeftInv, Recordings, In, AtWork, HasSlot,
      OpenRefused, names, content, slots, control, history
<1>7. UniqueInv' BY CardAssumption
  DEF IInv, TypeOK, BornInv, ControlInv, UniqueInv, Live, Recordings, In, AtWork, HasSlot,
      OpenRefused, names, content, slots, control, history
<1> QED BY <1>1, <1>2, <1>3, <1>4, <1>5, <1>6, <1>7 DEF IInv

LEMMA HeaderWrittenStep == ASSUME IInv, HeaderWritten PROVE IInv'
<1>1. TypeOK' BY CardAssumption
  DEF IInv, TypeOK, BornInv, ControlInv, Places, Points, Endings, Recordings, In, AtWork,
      HasSlot, HeaderWritten, names, content, slots, control, history
<1>2. BornInv' BY CardAssumption
  DEF IInv, TypeOK, BornInv, ControlInv, Recordings, In, AtWork, HasSlot, HeaderWritten,
      names, content, slots, control, history
<1>3. ControlInv' BY CardAssumption
  DEF IInv, TypeOK, BornInv, ControlInv, LeftInv, Recordings, In, AtWork, HasSlot,
      HeaderWritten, names, content, slots, control, history
<1>4. ContentInv' BY CardAssumption
  DEF IInv, TypeOK, BornInv, ControlInv, ContentInv, Recordings, In, AtWork, HasSlot,
      HeaderWritten, names, content, slots, control, history
<1>5. WholeInv' BY CardAssumption
  DEF IInv, TypeOK, BornInv, ControlInv, WholeInv, Recordings, In, AtWork, HasSlot,
      HeaderWritten, names, content, slots, control, history
<1>6. LeftInv' BY CardAssumption
  DEF IInv, TypeOK, BornInv, ControlInv, LeftInv, Recordings, In, AtWork, HasSlot,
      HeaderWritten, names, content, slots, control, history
<1>7. UniqueInv' BY CardAssumption
  DEF IInv, TypeOK, BornInv, ControlInv, UniqueInv, Live, Recordings, In, AtWork, HasSlot,
      HeaderWritten, names, content, slots, control, history
<1> QED BY <1>1, <1>2, <1>3, <1>4, <1>5, <1>6, <1>7 DEF IInv

LEMMA HeaderRefusedStep == ASSUME IInv, HeaderRefused PROVE IInv'
<1>1. TypeOK' BY CardAssumption
  DEF IInv, TypeOK, BornInv, ControlInv, Places, Points, Endings, Recordings, In, AtWork,
      HasSlot, HeaderRefused, names, content, slots, control, history
<1>2. BornInv' BY CardAssumption
  DEF IInv, TypeOK, BornInv, ControlInv, Recordings, In, AtWork, HasSlot, HeaderRefused,
      names, content, slots, control, history
<1>3. ControlInv' BY CardAssumption
  DEF IInv, TypeOK, BornInv, ControlInv, LeftInv, Recordings, In, AtWork, HasSlot,
      HeaderRefused, names, content, slots, control, history
<1>4. ContentInv' BY CardAssumption
  DEF IInv, TypeOK, BornInv, ControlInv, ContentInv, Recordings, In, AtWork, HasSlot,
      HeaderRefused, names, content, slots, control, history
<1>5. WholeInv' BY CardAssumption
  DEF IInv, TypeOK, BornInv, ControlInv, WholeInv, Recordings, In, AtWork, HasSlot,
      HeaderRefused, names, content, slots, control, history
<1>6. LeftInv' BY CardAssumption
  DEF IInv, TypeOK, BornInv, ControlInv, LeftInv, Recordings, In, AtWork, HasSlot,
      HeaderRefused, names, content, slots, control, history
<1>7. UniqueInv' BY CardAssumption
  DEF IInv, TypeOK, BornInv, ControlInv, UniqueInv, Live, Recordings, In, AtWork, HasSlot,
      HeaderRefused, names, content, slots, control, history
<1> QED BY <1>1, <1>2, <1>3, <1>4, <1>5, <1>6, <1>7 DEF IInv

LEMMA ReleaseStep == ASSUME IInv, Release PROVE IInv'
<1>1. TypeOK'
  <2>1. claimed \in 0..SlotCount - 1 /\ turns > 0 /\ turns \in 0..MaxTurns
    BY DEF IInv, TypeOK, ControlInv, HasSlot, Release
  <2>2. counter' \in -1..SlotCount - 1
    <3>1. CASE counter = claimed /\ counter' = (counter - 1) % SlotCount
      BY <2>1, <3>1, CountDown, CardAssumption
    <3>2. CASE UNCHANGED counter BY <3>2 DEF IInv, TypeOK
    <3> QED BY <3>1, <3>2 DEF Release
  <2>3. turns' \in 0..MaxTurns BY <2>1, CardAssumption DEF Release
  <2> QED BY <2>2, <2>3 DEF IInv, TypeOK, Points, Release, names, content, control, history
<1>2. BornInv' BY CardAssumption
  DEF IInv, TypeOK, BornInv, ControlInv, Recordings, In, AtWork, HasSlot, Release, names,
      content, slots, control, history
<1>3. ControlInv' BY CardAssumption
  DEF IInv, TypeOK, BornInv, ControlInv, LeftInv, Recordings, In, AtWork, HasSlot, Release,
      names, content, slots, control, history
<1>4. ContentInv' BY CardAssumption
  DEF IInv, TypeOK, BornInv, ControlInv, ContentInv, Recordings, In, AtWork, HasSlot, Release,
      names, content, slots, control, history
<1>5. WholeInv' BY CardAssumption
  DEF IInv, TypeOK, BornInv, ControlInv, WholeInv, Recordings, In, AtWork, HasSlot, Release,
      names, content, slots, control, history
<1>6. LeftInv' BY CardAssumption
  DEF IInv, TypeOK, BornInv, ControlInv, LeftInv, Recordings, In, AtWork, HasSlot, Release,
      names, content, slots, control, history
<1>7. UniqueInv' BY CardAssumption
  DEF IInv, TypeOK, BornInv, ControlInv, UniqueInv, Live, Recordings, In, AtWork, HasSlot,
      Release, names, content, slots, control, history
<1> QED BY <1>1, <1>2, <1>3, <1>4, <1>5, <1>6, <1>7 DEF IInv

LEMMA WriteBlockStep == ASSUME IInv, WriteBlock PROVE IInv'
<1> DEFINE more == written[latest] + 1
<1>a. latest \in Recordings /\ more \in 0..MaxBlocks
  BY CardAssumption DEF IInv, TypeOK, ControlInv, In, WriteBlock
<1>b. written' = [written EXCEPT ![latest] = more] BY DEF WriteBlock
<1>c. intact' = [intact EXCEPT ![latest] = more] \/ intact' = intact
  BY <1>a, <1>b DEF WriteBlock, IInv, TypeOK
<1> HIDE DEF more
<1>1. TypeOK'
  BY <1>a, <1>b, <1>c DEF IInv, TypeOK, Points, WriteBlock, names, slots, control, history
<1>2. BornInv'
  BY <1>a, <1>b, <1>c, CardAssumption
  DEF more, IInv, TypeOK, BornInv, ControlInv, In, WriteBlock, names, slots, control, history
<1>3. ControlInv' BY CardAssumption
  DEF IInv, TypeOK, BornInv, ControlInv, LeftInv, Recordings, In, AtWork, HasSlot, WriteBlock,
      names, slots, control, history
<1>4. ContentInv' BY CardAssumption
  DEF IInv, TypeOK, BornInv, ControlInv, ContentInv, Recordings, In, AtWork, HasSlot,
      WriteBlock, names, slots, control, history
<1>5. WholeInv' BY CardAssumption
  DEF IInv, TypeOK, BornInv, ControlInv, WholeInv, Recordings, In, AtWork, HasSlot,
      WriteBlock, names, slots, control, history
<1>6. LeftInv' BY CardAssumption
  DEF IInv, TypeOK, BornInv, ControlInv, LeftInv, Recordings, In, AtWork, HasSlot, WriteBlock,
      names, slots, control, history
<1>7. UniqueInv' BY CardAssumption
  DEF IInv, TypeOK, BornInv, ControlInv, UniqueInv, Live, Recordings, In, AtWork, HasSlot,
      WriteBlock, names, slots, control, history
<1> QED BY <1>1, <1>2, <1>3, <1>4, <1>5, <1>6, <1>7 DEF IInv

LEMMA WriteRefusedStep == ASSUME IInv, WriteRefused PROVE IInv'
<1>1. TypeOK' BY CardAssumption
  DEF IInv, TypeOK, BornInv, ControlInv, Places, Points, Endings, Recordings, In, AtWork,
      HasSlot, WriteRefused, names, content, slots, history
<1>2. BornInv' BY CardAssumption
  DEF IInv, TypeOK, BornInv, ControlInv, Recordings, In, AtWork, HasSlot, WriteRefused, names,
      content, slots, history
<1>3. ControlInv' BY CardAssumption
  DEF IInv, TypeOK, BornInv, ControlInv, LeftInv, Recordings, In, AtWork, HasSlot,
      WriteRefused, names, content, slots, history
<1>4. ContentInv' BY CardAssumption
  DEF IInv, TypeOK, BornInv, ControlInv, ContentInv, Recordings, In, AtWork, HasSlot,
      WriteRefused, names, content, slots, history
<1>5. WholeInv' BY CardAssumption
  DEF IInv, TypeOK, BornInv, ControlInv, WholeInv, Recordings, In, AtWork, HasSlot,
      WriteRefused, names, content, slots, history
<1>6. LeftInv' BY CardAssumption
  DEF IInv, TypeOK, BornInv, ControlInv, LeftInv, Recordings, In, AtWork, HasSlot,
      WriteRefused, names, content, slots, history
<1>7. UniqueInv' BY CardAssumption
  DEF IInv, TypeOK, BornInv, ControlInv, UniqueInv, Live, Recordings, In, AtWork, HasSlot,
      WriteRefused, names, content, slots, history
<1> QED BY <1>1, <1>2, <1>3, <1>4, <1>5, <1>6, <1>7 DEF IInv

LEMMA EndRecordingStep == ASSUME IInv, EndRecording PROVE IInv'
<1>1. TypeOK' BY CardAssumption
  DEF IInv, TypeOK, BornInv, ControlInv, Places, Points, Endings, Recordings, In, AtWork,
      HasSlot, EndRecording, names, content, slots, history
<1>2. BornInv' BY CardAssumption
  DEF IInv, TypeOK, BornInv, ControlInv, Recordings, In, AtWork, HasSlot, EndRecording, names,
      content, slots, history
<1>3. ControlInv' BY CardAssumption
  DEF IInv, TypeOK, BornInv, ControlInv, LeftInv, Recordings, In, AtWork, HasSlot,
      EndRecording, names, content, slots, history
<1>4. ContentInv' BY CardAssumption
  DEF IInv, TypeOK, BornInv, ControlInv, ContentInv, Recordings, In, AtWork, HasSlot,
      EndRecording, names, content, slots, history
<1>5. WholeInv' BY CardAssumption
  DEF IInv, TypeOK, BornInv, ControlInv, WholeInv, Recordings, In, AtWork, HasSlot,
      EndRecording, names, content, slots, history
<1>6. LeftInv' BY CardAssumption
  DEF IInv, TypeOK, BornInv, ControlInv, LeftInv, Recordings, In, AtWork, HasSlot,
      EndRecording, names, content, slots, history
<1>7. UniqueInv' BY CardAssumption
  DEF IInv, TypeOK, BornInv, ControlInv, UniqueInv, Live, Recordings, In, AtWork, HasSlot,
      EndRecording, names, content, slots, history
<1> QED BY <1>1, <1>2, <1>3, <1>4, <1>5, <1>6, <1>7 DEF IInv

LEMMA CloseStep == ASSUME IInv, Close PROVE IInv'
<1>a. latest \in Recordings BY DEF IInv, ControlInv, In, Close
<1>b. Filled(latest) \/ LoseTail(latest) BY DEF Close, Filled
<1>c. /\ intact' \in [Recordings -> 0..MaxBlocks] /\ torn' \in [Recordings -> BOOLEAN]
      /\ intact'[latest] \in intact[latest]..written[latest]
      /\ \A q \in Recordings \ {latest} : intact'[q] = intact[q] /\ torn'[q] = torn[q]
  BY <1>a, <1>b, TailShape DEF IInv
<1>1. TypeOK'
  BY <1>a, <1>c DEF IInv, TypeOK, Points, Close, names, slots
<1>2. BornInv'
  BY <1>a, <1>c, CardAssumption DEF IInv, TypeOK, BornInv, Close
<1>3. ControlInv' BY CardAssumption
  DEF IInv, TypeOK, BornInv, ControlInv, LeftInv, Recordings, In, AtWork, HasSlot, Close,
      LoseTail, names, slots, history
<1>4. ContentInv' BY CardAssumption
  DEF IInv, TypeOK, BornInv, ControlInv, ContentInv, Recordings, In, AtWork, HasSlot, Close,
      LoseTail, names, slots, history
<1>5. WholeInv' BY CardAssumption
  DEF IInv, TypeOK, BornInv, ControlInv, WholeInv, Recordings, In, AtWork, HasSlot, Close,
      LoseTail, names, slots, history
<1>6. LeftInv' BY CardAssumption
  DEF IInv, TypeOK, BornInv, ControlInv, LeftInv, Recordings, In, AtWork, HasSlot, Close,
      LoseTail, names, slots, history
<1>7. UniqueInv' BY CardAssumption
  DEF IInv, TypeOK, BornInv, ControlInv, UniqueInv, Live, Recordings, In, AtWork, HasSlot,
      Close, LoseTail, names, slots, history
<1> QED BY <1>1, <1>2, <1>3, <1>4, <1>5, <1>6, <1>7 DEF IInv

LEMMA ScanStep == ASSUME IInv, Scan PROVE IInv'
<1>1. TypeOK' BY CardAssumption
  DEF IInv, TypeOK, BornInv, ControlInv, Places, Points, Endings, Recordings, In, AtWork,
      HasSlot, Scan, names, slots, control, history
<1>2. BornInv' BY CardAssumption
  DEF IInv, TypeOK, BornInv, ControlInv, Recordings, In, AtWork, HasSlot, Scan, names, slots,
      control, history
<1>3. ControlInv' BY CardAssumption
  DEF IInv, TypeOK, BornInv, ControlInv, LeftInv, Recordings, In, AtWork, HasSlot, Booting,
      Scan, names, slots, control, history
<1>4. ContentInv'
  <2>1. work \in In("partial") /\ work \in Recordings
    BY DEF IInv, ControlInv, AtWork, HasSlot, Scan, In
  <2>2. In("dat")' = In("dat") /\ UNCHANGED <<intact, work>> BY DEF Scan, In, control
  <2>3. CASE intact[work] = 0 BY <2>2, <2>3 DEF IInv, ContentInv, Scan
  <2>4. CASE intact[work] # 0
    <3>1. torn' = [torn EXCEPT ![work] = FALSE] BY <2>4 DEF Scan
    <3>2. intact[work] > 0 BY <2>1, <2>4, CardAssumption DEF IInv, TypeOK
    <3>3. work \notin In("dat") BY <2>1 DEF In
    <3>4. \A r \in In("dat") : torn'[r] = torn[r] BY <2>1, <3>1, <3>3 DEF IInv, TypeOK, In
    <3>5. torn'[work] = FALSE BY <2>1, <3>1 DEF IInv, TypeOK
    <3> QED BY <2>2, <3>2, <3>4, <3>5 DEF IInv, ContentInv
  <2> QED BY <2>3, <2>4
<1>5. WholeInv' BY CardAssumption
  DEF IInv, TypeOK, BornInv, ControlInv, WholeInv, Recordings, In, AtWork, HasSlot, Booting,
      Scan, names, slots, control, history
<1>6. LeftInv' BY CardAssumption
  DEF IInv, TypeOK, BornInv, ControlInv, LeftInv, Recordings, In, AtWork, HasSlot, Booting,
      Scan, names, slots, control, history
<1>7. UniqueInv' BY CardAssumption
  DEF IInv, TypeOK, BornInv, ControlInv, UniqueInv, Live, Recordings, In, AtWork, HasSlot,
      Scan, names, slots, control, history
<1> QED BY <1>1, <1>2, <1>3, <1>4, <1>5, <1>6, <1>7 DEF IInv

LEMMA ScanRefusedStep == ASSUME IInv, ScanRefused PROVE IInv'
<1>1. TypeOK' BY CardAssumption
  DEF IInv, TypeOK, BornInv, ControlInv, Places, Points, Endings, Recordings, In, AtWork,
      HasSlot, ScanRefused, names, content, slots, control, history
<1>2. BornInv' BY CardAssumption
  DEF IInv, TypeOK, BornInv, ControlInv, Recordings, In, AtWork, HasSlot, ScanRefused, names,
      content, slots, control, history
<1>3. ControlInv' BY CardAssumption
  DEF IInv, TypeOK, BornInv, ControlInv, LeftInv, Recordings, In, AtWork, HasSlot,
      ScanRefused, names, content, slots, control, history
<1>4. ContentInv' BY CardAssumption
  DEF IInv, TypeOK, BornInv, ControlInv, ContentInv, Recordings, In, AtWork, HasSlot,
      ScanRefused, names, content, slots, control, history
<1>5. WholeInv' BY CardAssumption
  DEF IInv, TypeOK, BornInv, ControlInv, WholeInv, Recordings, In, AtWork, HasSlot,
      ScanRefused, names, content, slots, control, history
<1>6. LeftInv' BY CardAssumption
  DEF IInv, TypeOK, BornInv, ControlInv, LeftInv, Recordings, In, AtWork, HasSlot,
      ScanRefused, names, content, slots, control, history
<1>7. UniqueInv' BY CardAssumption
  DEF IInv, TypeOK, BornInv, ControlInv, UniqueInv, Live, Recordings, In, AtWork, HasSlot,
      ScanRefused, names, content, slots, control, history
<1> QED BY <1>1, <1>2, <1>3, <1>4, <1>5, <1>6, <1>7 DEF IInv

LEMMA MarkStep == ASSUME IInv, Mark PROVE IInv'
<1>1. TypeOK' BY CardAssumption
  DEF IInv, TypeOK, BornInv, ControlInv, Places, Points, Endings, Recordings, In, AtWork,
      HasSlot, Mark, names, slots, control, history
<1>2. BornInv' BY CardAssumption
  DEF IInv, TypeOK, BornInv, ControlInv, Recordings, In, AtWork, HasSlot, Mark, names, slots,
      control, history
<1>3. ControlInv' BY CardAssumption
  DEF IInv, TypeOK, BornInv, ControlInv, LeftInv, Recordings, In, AtWork, HasSlot, Mark,
      names, slots, control, history
<1>4. ContentInv' BY CardAssumption
  DEF IInv, TypeOK, BornInv, ControlInv, ContentInv, Recordings, In, AtWork, HasSlot, Mark,
      names, slots, control, history
<1>5. WholeInv' BY CardAssumption
  DEF IInv, TypeOK, BornInv, ControlInv, WholeInv, Recordings, In, AtWork, HasSlot, Mark,
      names, slots, control, history
<1>6. LeftInv' BY CardAssumption
  DEF IInv, TypeOK, BornInv, ControlInv, LeftInv, Recordings, In, AtWork, HasSlot, Mark,
      names, slots, control, history
<1>7. UniqueInv' BY CardAssumption
  DEF IInv, TypeOK, BornInv, ControlInv, UniqueInv, Live, Recordings, In, AtWork, HasSlot,
      Mark, names, slots, control, history
<1> QED BY <1>1, <1>2, <1>3, <1>4, <1>5, <1>6, <1>7 DEF IInv

LEMMA RaisesStep == ASSUME IInv, Raises PROVE IInv'
<1>1. TypeOK' BY CardAssumption
  DEF IInv, TypeOK, BornInv, ControlInv, Places, Points, Endings, Recordings, In, AtWork,
      HasSlot, Raises, Returned, Booting, names, content, slots, history
<1>2. BornInv' BY CardAssumption
  DEF IInv, TypeOK, BornInv, ControlInv, Recordings, In, AtWork, HasSlot, Raises, Returned,
      Booting, names, content, slots, history
<1>3. ControlInv' BY CardAssumption
  DEF IInv, TypeOK, BornInv, ControlInv, LeftInv, Recordings, In, AtWork, HasSlot, Booting,
      Raises, Returned, Booting, names, content, slots, history
<1>4. ContentInv' BY CardAssumption
  DEF IInv, TypeOK, BornInv, ControlInv, ContentInv, Recordings, In, AtWork, HasSlot, Raises,
      Returned, Booting, names, content, slots, history
<1>5. WholeInv' BY CardAssumption
  DEF IInv, TypeOK, BornInv, ControlInv, WholeInv, Recordings, In, AtWork, HasSlot, Booting,
      Raises, Returned, Booting, names, content, slots, history
<1>6. LeftInv' BY CardAssumption
  DEF IInv, TypeOK, BornInv, ControlInv, LeftInv, Recordings, In, AtWork, HasSlot, Booting,
      Raises, Returned, Booting, names, content, slots, history
<1>7. UniqueInv' BY CardAssumption
  DEF IInv, TypeOK, BornInv, ControlInv, UniqueInv, Live, Recordings, In, AtWork, HasSlot,
      Raises, Returned, Booting, names, content, slots, history
<1> QED BY <1>1, <1>2, <1>3, <1>4, <1>5, <1>6, <1>7 DEF IInv

LEMMA PowerOnStep == ASSUME IInv, PowerOn PROVE IInv'
<1>1. TypeOK'
  <2>1. In("partial") \subseteq Recordings BY DEF In
  <2> QED BY <2>1 DEF IInv, TypeOK, Points, PowerOn, names, content, slots
<1>2. BornInv' BY CardAssumption
  DEF IInv, TypeOK, BornInv, ControlInv, Recordings, In, AtWork, HasSlot, PowerOn, names,
      content, slots, history
<1>3. ControlInv' BY CardAssumption
  DEF IInv, TypeOK, BornInv, ControlInv, LeftInv, Recordings, In, AtWork, HasSlot, PowerOn,
      names, content, slots, history
<1>4. ContentInv' BY CardAssumption
  DEF IInv, TypeOK, BornInv, ControlInv, ContentInv, Recordings, In, AtWork, HasSlot, PowerOn,
      names, content, slots, history
<1>5. WholeInv' BY CardAssumption
  DEF IInv, TypeOK, BornInv, ControlInv, WholeInv, Recordings, In, AtWork, HasSlot, PowerOn,
      names, content, slots, history
<1>6. LeftInv' BY CardAssumption
  DEF IInv, TypeOK, BornInv, ControlInv, LeftInv, Recordings, In, AtWork, HasSlot, PowerOn,
      names, content, slots, history
<1>7. UniqueInv' BY CardAssumption
  DEF IInv, TypeOK, BornInv, ControlInv, UniqueInv, Live, Recordings, In, AtWork, HasSlot,
      PowerOn, names, content, slots, history
<1> QED BY <1>1, <1>2, <1>3, <1>4, <1>5, <1>6, <1>7 DEF IInv

LEMMA RecoverNextStep == ASSUME IInv, RecoverNext PROVE IInv'
<1>1. TypeOK' BY CardAssumption
  DEF IInv, TypeOK, BornInv, ControlInv, Places, Points, Endings, Recordings, In, AtWork,
      HasSlot, RecoverNext, names, content, slots, history
<1>2. BornInv' BY CardAssumption
  DEF IInv, TypeOK, BornInv, ControlInv, Recordings, In, AtWork, HasSlot, RecoverNext, names,
      content, slots, history
<1>3. ControlInv' BY CardAssumption
  DEF IInv, TypeOK, BornInv, ControlInv, LeftInv, Recordings, In, AtWork, HasSlot,
      RecoverNext, names, content, slots, history
<1>4. ContentInv' BY CardAssumption
  DEF IInv, TypeOK, BornInv, ControlInv, ContentInv, Recordings, In, AtWork, HasSlot,
      RecoverNext, names, content, slots, history
<1>5. WholeInv' BY CardAssumption
  DEF IInv, TypeOK, BornInv, ControlInv, WholeInv, Recordings, In, AtWork, HasSlot,
      RecoverNext, names, content, slots, history
<1>6. LeftInv' BY CardAssumption
  DEF IInv, TypeOK, BornInv, ControlInv, LeftInv, Recordings, In, AtWork, HasSlot,
      RecoverNext, names, content, slots, history
<1>7. UniqueInv' BY CardAssumption
  DEF IInv, TypeOK, BornInv, ControlInv, UniqueInv, Live, Recordings, In, AtWork, HasSlot,
      RecoverNext, names, content, slots, history
<1> QED BY <1>1, <1>2, <1>3, <1>4, <1>5, <1>6, <1>7 DEF IInv

LEMMA PassEndsStep == ASSUME IInv, PassEnds PROVE IInv'
<1>1. TypeOK'
  <2>1. In("partial") \subseteq Recordings BY DEF In
  <2> QED BY <2>1 DEF IInv, TypeOK, Points, PassEnds, names, content, slots, history
<1>2. BornInv' BY CardAssumption
  DEF IInv, TypeOK, BornInv, ControlInv, Recordings, In, AtWork, HasSlot, PassEnds, names,
      content, slots, history
<1>3. ControlInv'
  <2>1. In("partial")' = In("partial") BY DEF PassEnds, In
  <2>2. CASE pass = 1 BY <2>1, <2>2 DEF IInv, ControlInv, AtWork, HasSlot, PassEnds
  <2>3. CASE pass # 1 BY <2>1, <2>3 DEF IInv, ControlInv, AtWork, HasSlot, PassEnds
  <2> QED BY <2>2, <2>3
<1>4. ContentInv' BY CardAssumption
  DEF IInv, TypeOK, BornInv, ControlInv, ContentInv, Recordings, In, AtWork, HasSlot,
      PassEnds, names, content, slots, history
<1>5. WholeInv' BY CardAssumption
  DEF IInv, TypeOK, BornInv, ControlInv, WholeInv, Recordings, In, AtWork, HasSlot, PassEnds,
      names, content, slots, history
<1>6. LeftInv' BY CardAssumption
  DEF IInv, TypeOK, BornInv, ControlInv, LeftInv, Recordings, In, AtWork, HasSlot, PassEnds,
      names, content, slots, history
<1>7. UniqueInv' BY CardAssumption
  DEF IInv, TypeOK, BornInv, ControlInv, UniqueInv, Live, Recordings, In, AtWork, HasSlot,
      PassEnds, names, content, slots, history
<1> QED BY <1>1, <1>2, <1>3, <1>4, <1>5, <1>6, <1>7 DEF IInv

LEMMA PowerCutStep == ASSUME IInv, PowerCut PROVE IInv'
<1>a. \/ latest \in Recordings /\ latest \in In("partial") /\ LoseTail(latest)
      \/ UNCHANGED <<intact, torn>>
  BY DEF IInv, ControlInv, In, PowerCut
<1>b. /\ intact' \in [Recordings -> 0..MaxBlocks] /\ torn' \in [Recordings -> BOOLEAN]
      /\ \A q \in Recordings : intact'[q] \in intact[q]..written[q]
      /\ \A q \in Recordings \ In("partial") : intact'[q] = intact[q] /\ torn'[q] = torn[q]
  <2>1. \A q \in Recordings : intact[q] \in intact[q]..written[q]
    BY CardAssumption DEF IInv, TypeOK, BornInv
  <2>2. CASE UNCHANGED <<intact, torn>> BY <2>1, <2>2 DEF IInv, TypeOK
  <2>3. CASE latest \in Recordings /\ latest \in In("partial") /\ LoseTail(latest)
    <3>1. /\ intact' \in [Recordings -> 0..MaxBlocks] /\ torn' \in [Recordings -> BOOLEAN]
          /\ intact'[latest] \in intact[latest]..written[latest]
          /\ \A q \in Recordings \ {latest} : intact'[q] = intact[q] /\ torn'[q] = torn[q]
      BY <2>3, TailShape DEF IInv
    <3> QED BY <2>1, <2>3, <3>1
  <2> QED BY <1>a, <2>2, <2>3
<1>1. TypeOK'
  BY <1>b DEF IInv, TypeOK, Points, PowerCut, names, slots, history
<1>2. BornInv'
  BY <1>b, CardAssumption DEF IInv, TypeOK, BornInv, PowerCut
<1>3. ControlInv' BY CardAssumption
  DEF IInv, TypeOK, BornInv, ControlInv, LeftInv, Recordings, In, AtWork, HasSlot, PowerCut,
      LoseTail, names, slots, history
<1>4. ContentInv'
  BY <1>b DEF IInv, ContentInv, PowerCut, In
<1>5. WholeInv'
  BY <1>b DEF IInv, WholeInv, PowerCut, In, history
<1>6. LeftInv' BY CardAssumption
  DEF IInv, TypeOK, BornInv, ControlInv, LeftInv, Recordings, In, AtWork, HasSlot, PowerCut,
      LoseTail, names, slots, history
<1>7. UniqueInv' BY CardAssumption
  DEF IInv, TypeOK, BornInv, ControlInv, UniqueInv, Live, Recordings, In, AtWork, HasSlot,
      PowerCut, LoseTail, names, slots, history
<1> QED BY <1>1, <1>2, <1>3, <1>4, <1>5, <1>6, <1>7 DEF IInv

(***************************************************************************)
(* The steps that move a recording.                                        *)
(***************************************************************************)
LEMMA OpenShape ==
  ASSUME IInv, OpenCreates
  PROVE  LET new == latest + 1
         IN  /\ new \in Recordings /\ latest' = new /\ pc = "claimed" /\ pc' = "header"
             /\ place[new] = "unborn"
             /\ slot' = [slot EXCEPT ![new] = claimed] /\ turn' = [turn EXCEPT ![new] = turns]
             /\ place' \in [Recordings -> Places] /\ place'[new] = "partial"
             /\ \A q \in Recordings \ {new} :
                  IF place[q] = "partial" /\ slot[q] = claimed
                    THEN place'[q] = "gone" ELSE place'[q] = place[q]
<1> DEFINE new == latest + 1
<1>a. /\ new \in Recordings /\ latest' = new /\ pc = "claimed" /\ pc' = "header" /\ pass = 0
      /\ place[new] = "unborn" /\ turns > 0 /\ latest \in Nat
      /\ slot' = [slot EXCEPT ![new] = claimed] /\ turn' = [turn EXCEPT ![new] = turns]
      /\ Put(new, "partial")
      /\ UNCHANGED <<content, slots, control, failed, refused>>
  BY CardAssumption DEF IInv, TypeOK, BornInv, ControlInv, HasSlot, OpenCreates, Recordings
<1> HIDE DEF new
<1>b. /\ place' \in [Recordings -> Places]
      /\ place'[new] = "partial"
      /\ \A q \in Recordings \ {new} :
           IF place[q] = "partial" /\ slot[q] = claimed
             THEN place'[q] = "gone" ELSE place'[q] = place[q]
  <2>1. "partial" \in Places BY DEF Places
  <2>2. /\ place' \in [Recordings -> Places] /\ place'[new] = "partial"
        /\ \A q \in Recordings \ {new} :
             IF place[q] = "partial" /\ slot'[q] = slot'[new]
               THEN place'[q] = "gone" ELSE place'[q] = place[q]
    BY <1>a, <2>1, PutShape DEF IInv
  <2>3. slot'[new] = claimed /\ \A q \in Recordings \ {new} : slot'[q] = slot[q]
    BY <1>a DEF IInv, TypeOK
  <2> QED BY <2>2, <2>3
<1> QED BY <1>a, <1>b DEF new

LEMMA OpenCreatesStep == ASSUME IInv, OpenCreates PROVE IInv'
<1> DEFINE new == latest + 1
<1>a. /\ new \in Recordings /\ latest' = new /\ pc = "claimed" /\ pc' = "header" /\ pass = 0
      /\ place[new] = "unborn" /\ turns > 0 /\ latest \in Nat
      /\ slot' = [slot EXCEPT ![new] = claimed] /\ turn' = [turn EXCEPT ![new] = turns]
      /\ UNCHANGED <<content, slots, control, failed, refused>>
  <2>1. /\ new \in Recordings /\ latest' = new /\ pc = "claimed" /\ pc' = "header"
        /\ place[new] = "unborn"
        /\ slot' = [slot EXCEPT ![new] = claimed] /\ turn' = [turn EXCEPT ![new] = turns]
    BY OpenShape
  <2>2. pass = 0 /\ turns > 0 /\ latest \in Nat
    BY <2>1, CardAssumption DEF IInv, TypeOK, ControlInv, HasSlot, Recordings
  <2> QED BY <2>1, <2>2 DEF OpenCreates
<1>b. /\ place' \in [Recordings -> Places]
      /\ place'[new] = "partial"
      /\ \A q \in Recordings \ {new} :
           IF place[q] = "partial" /\ slot[q] = claimed
             THEN place'[q] = "gone" ELSE place'[q] = place[q]
  BY OpenShape
<1> HIDE DEF new
<1>1. TypeOK'
  BY <1>a, <1>b, CardAssumption DEF IInv, TypeOK, Points, content, slots, control
<1>2. BornInv'
  <2>1. \A r \in Recordings : r > latest' <=> r > latest /\ r # new
    BY <1>a, CardAssumption DEF new, Recordings
  <2> QED BY <1>a, <1>b, <2>1 DEF IInv, BornInv, content
<1>3. ControlInv'
  BY <1>a, <1>b DEF IInv, ControlInv, In, AtWork, HasSlot, content, slots, control
<1>4. ContentInv'
  BY <1>a, <1>b DEF IInv, ContentInv, In, content, control
<1>5. WholeInv'
  BY <1>a, <1>b DEF IInv, WholeInv, In, content, control
<1>6. LeftInv'
  BY <1>a, <1>b DEF IInv, LeftInv, In, AtWork, control
<1>7. UniqueInv'
  BY <1>a, <1>b DEF IInv, TypeOK, UniqueInv, Live
<1> QED BY <1>1, <1>2, <1>3, <1>4, <1>5, <1>6, <1>7 DEF IInv

(***************************************************************************)
(* A recording that is already there goes to another place, from where     *)
(* there is a way to it.                                                   *)
(***************************************************************************)
LEMMA MovedParts ==
  ASSUME IInv, NEW r \in Recordings, NEW where \in {"dat", "trash", "corrupt"},
         Put(r, where), UNCHANGED <<names, content, latest, failed>>,
         r \in In("partial") \/ r \in In("dat")
  PROVE  /\ place' \in [Recordings -> Places]
         /\ BornInv' /\ UniqueInv'
         /\ In("partial")' = In("partial") \ {r}
         /\ In("dat")' \subseteq In("dat") \cup (IF where = "dat" THEN {r} ELSE {})
<1>1. where \in Places BY DEF Places
<1>2. /\ place' \in [Recordings -> Places] /\ place'[r] = where
      /\ \A q \in Recordings \ {r} :
           IF place[q] = where /\ slot[q] = slot[r]
             THEN place'[q] = "gone" ELSE place'[q] = place[q]
  BY <1>1, PutShape DEF IInv, names
<1>3. BornInv' BY <1>2 DEF IInv, BornInv, In, content
<1>4. UniqueInv' BY <1>2 DEF IInv, UniqueInv, Live, names
<1>5. In("partial")' = In("partial") \ {r} BY <1>2 DEF In
<1>6. In("dat")' \subseteq In("dat") \cup (IF where = "dat" THEN {r} ELSE {}) BY <1>2 DEF In
<1> QED BY <1>2, <1>3, <1>4, <1>5, <1>6

LEMMA RenameStep == ASSUME IInv, Rename PROVE IInv'
<1>a. work \in Recordings /\ work \in In("partial") /\ work \notin queue
  BY DEF IInv, ControlInv, AtWork, In, Rename
<1>b. /\ place' \in [Recordings -> Places]
      /\ BornInv' /\ UniqueInv'
      /\ In("partial")' = In("partial") \ {work}
      /\ In("dat")' \subseteq In("dat") \cup {work}
  BY <1>a, MovedParts DEF Rename
<1>1. TypeOK'
  BY <1>a, <1>b
    DEF IInv, TypeOK, Points, Rename, Returned, Booting, names, content, slots, control
<1>2. ControlInv'
  BY <1>a, <1>b DEF IInv, ControlInv, AtWork, HasSlot, Rename, Returned, Booting, slots, control
<1>3. ContentInv'
  BY <1>a, <1>b DEF IInv, ControlInv, ContentInv, Rename, Returned, Booting, content, control
<1>4. WholeInv'
  BY <1>a, <1>b DEF IInv, ControlInv, WholeInv, Rename, Returned, Booting, content, control
<1>5. LeftInv'
  BY <1>a, <1>b DEF IInv, ControlInv, LeftInv, AtWork, Rename, Returned, Booting, control
<1> QED BY <1>b, <1>1, <1>2, <1>3, <1>4, <1>5 DEF IInv

LEMMA SetAsideMoves == ASSUME IInv, SetAside, Put(work, "corrupt"), UNCHANGED refused PROVE IInv'
<1>a. work \in Recordings /\ work \in In("partial") /\ work \notin queue
  BY DEF IInv, ControlInv, AtWork, In, SetAside
<1>b. /\ place' \in [Recordings -> Places]
      /\ BornInv' /\ UniqueInv'
      /\ In("partial")' = In("partial") \ {work}
      /\ In("dat")' \subseteq In("dat") \cup {}
  BY <1>a, MovedParts DEF SetAside
<1>1. TypeOK'
  BY <1>a, <1>b
    DEF IInv, TypeOK, Points, SetAside, Returned, Booting, names, content, slots, control
<1>2. ControlInv'
  BY <1>a, <1>b
    DEF IInv, ControlInv, AtWork, HasSlot, SetAside, Returned, Booting, slots, control
<1>3. ContentInv'
  BY <1>a, <1>b DEF IInv, ControlInv, ContentInv, SetAside, Returned, Booting, content, control
<1>4. WholeInv'
  BY <1>a, <1>b DEF IInv, ControlInv, WholeInv, SetAside, Returned, Booting, content, control
<1>5. LeftInv'
  BY <1>a, <1>b DEF IInv, ControlInv, LeftInv, AtWork, SetAside, Returned, Booting, control
<1> QED BY <1>b, <1>1, <1>2, <1>3, <1>4, <1>5 DEF IInv

LEMMA SetAsideStep == ASSUME IInv, SetAside PROVE IInv'
<1>1. CASE Put(work, "corrupt") /\ UNCHANGED refused BY <1>1, SetAsideMoves
<1>2. CASE refused' = refused \cup {work} /\ UNCHANGED place
  <2>1. work \in Recordings /\ \A p \in Places : In(p)' = In(p)
    BY <1>2 DEF IInv, ControlInv, AtWork, In, SetAside
  <2>2. TypeOK' BY <1>2, <2>1
    DEF IInv, TypeOK, Points, SetAside, Returned, names, content, slots, control
  <2>3. BornInv' /\ UniqueInv'
    BY <1>2 DEF IInv, BornInv, UniqueInv, Live, SetAside, names, content
  <2>4. ControlInv' /\ LeftInv'
    BY <1>2, <2>1
      DEF IInv, ControlInv, LeftInv, AtWork, HasSlot, Places, SetAside, Returned, Booting,
          slots, control
  <2>5. ContentInv' /\ WholeInv'
    BY <1>2, <2>1
      DEF IInv, ContentInv, WholeInv, Places, SetAside, Returned, Booting, content, control
  <2> QED BY <2>2, <2>3, <2>4, <2>5 DEF IInv
<1> QED BY <1>1, <1>2 DEF SetAside

LEMMA RetireMoves == ASSUME IInv, Retire, work \in In("dat"), Put(work, "trash") PROVE IInv'
<1>a. work \in Recordings BY DEF In
<1>b. /\ place' \in [Recordings -> Places]
      /\ BornInv' /\ UniqueInv'
      /\ In("partial")' = In("partial") \ {work}
      /\ In("dat")' \subseteq In("dat") \cup {}
  BY <1>a, MovedParts DEF Retire
<1>1. TypeOK'
  BY <1>a, <1>b DEF IInv, TypeOK, Points, Retire, names, content, slots, control
<1>2. ControlInv'
  BY <1>a, <1>b DEF IInv, ControlInv, AtWork, HasSlot, Retire, slots, control
<1>3. ContentInv'
  BY <1>a, <1>b DEF IInv, ControlInv, ContentInv, Retire, content, control
<1>4. WholeInv'
  BY <1>a, <1>b DEF IInv, ControlInv, WholeInv, Retire, content, control
<1>5. LeftInv'
  BY <1>a, <1>b DEF IInv, ControlInv, LeftInv, AtWork, Retire, control
<1> QED BY <1>b, <1>1, <1>2, <1>3, <1>4, <1>5 DEF IInv

\* A listed recording goes to the trash, or the card refuses.
LEMMA RetireStep == ASSUME IInv, Retire PROVE IInv'
<1>1. CASE work \in In("dat") /\ Put(work, "trash") BY <1>1, RetireMoves
<1>2. CASE UNCHANGED place
  <2>1. \A p \in Places : In(p)' = In(p) BY <1>2 DEF In
  <2>2. TypeOK' BY <1>2 DEF IInv, TypeOK, Points, Retire, names, content, slots, control
  <2>3. BornInv' /\ UniqueInv'
    BY <1>2 DEF IInv, BornInv, UniqueInv, Live, Retire, names, content
  <2>4. ControlInv' /\ LeftInv'
    BY <1>2, <2>1 DEF IInv, ControlInv, LeftInv, AtWork, HasSlot, Places, Retire, slots, control
  <2>5. ContentInv' /\ WholeInv'
    BY <1>2, <2>1 DEF IInv, ContentInv, WholeInv, Places, Retire, content, control
  <2> QED BY <2>2, <2>3, <2>4, <2>5 DEF IInv
<1> QED BY <1>1, <1>2 DEF Retire

LEMMA CollectStep == ASSUME IInv, NEW r \in Recordings, Collect(r) PROVE IInv'
<1>a. r \in In("dat") /\ r \notin In("partial") BY DEF Collect, In
<1>b. /\ place' \in [Recordings -> Places]
      /\ BornInv' /\ UniqueInv'
      /\ In("partial")' = In("partial") \ {r}
      /\ In("dat")' \subseteq In("dat") \cup {}
  BY <1>a, MovedParts DEF Collect
<1>1. TypeOK'
  BY <1>a, <1>b DEF IInv, TypeOK, Points, Collect, WebUp, names, content, slots, control
<1>2. ControlInv'
  BY <1>a, <1>b DEF IInv, ControlInv, AtWork, HasSlot, Collect, WebUp, slots, control
<1>3. ContentInv'
  BY <1>a, <1>b DEF IInv, ControlInv, ContentInv, Collect, WebUp, content, control
<1>4. WholeInv'
  BY <1>a, <1>b DEF IInv, ControlInv, WholeInv, Collect, WebUp, content, control
<1>5. LeftInv'
  BY <1>a, <1>b DEF IInv, ControlInv, LeftInv, AtWork, Collect, WebUp, control
<1> QED BY <1>b, <1>1, <1>2, <1>3, <1>4, <1>5 DEF IInv

LEMMA PurgeStep == ASSUME IInv, NEW r \in Recordings, Purge(r) PROVE IInv'
<1>a. /\ place' \in [Recordings -> Places]
      /\ place'[r] = "gone" /\ place[r] = "trash"
      /\ \A q \in Recordings \ {r} : place'[q] = place[q]
  BY DEF IInv, TypeOK, Places, Purge, In
<1>b. In("partial")' = In("partial") /\ In("dat")' = In("dat") BY <1>a DEF In
<1>1. TypeOK' BY <1>a DEF IInv, TypeOK, Purge, names, content, slots, control, history
<1>2. BornInv' /\ UniqueInv' BY <1>a DEF IInv, BornInv, UniqueInv, Live, Purge, names, content
<1>3. ControlInv' /\ LeftInv'
  BY <1>b DEF IInv, ControlInv, LeftInv, AtWork, HasSlot, Purge, slots, control, history
<1>4. ContentInv' /\ WholeInv'
  BY <1>b DEF IInv, ContentInv, WholeInv, Purge, content, control, history
<1> QED BY <1>1, <1>2, <1>3, <1>4 DEF IInv

\* Every step keeps what the files hold and where the thread is (IInv).
THEOREM StepInv == IInv /\ [Next]_vars => IInv'
<1> SUFFICES ASSUME IInv, [Next]_vars PROVE IInv' OBVIOUS
<1>1. CASE UNCHANGED vars
  <2>1. UNCHANGED <<place, slot, turn, written, intact, torn, marked, counter, claimed, turns, latest, pc,
                    why, work, queue, pass, failed, refused>>
    BY <1>1 DEF vars, names, content, slots, control, history
  <2>2. \A p \in Places : In(p)' = In(p) BY <2>1 DEF In
  <2>3. TypeOK' /\ BornInv' /\ UniqueInv'
    BY <2>1 DEF IInv, TypeOK, BornInv, UniqueInv, Live
  <2>4. ControlInv' /\ ContentInv' /\ WholeInv' /\ LeftInv'
    BY <2>1, <2>2 DEF IInv, ControlInv, ContentInv, WholeInv, LeftInv, AtWork, HasSlot, Places
  <2> QED BY <2>3, <2>4 DEF IInv
<1>2. CASE Opening
  BY <1>2, ClaimStep, OpenCreatesStep, OpenRefusedStep, HeaderWrittenStep, HeaderRefusedStep,
     ReleaseStep DEF Opening
<1>3. CASE Writing
  BY <1>3, WriteBlockStep, WriteRefusedStep, EndRecordingStep, CloseStep DEF Writing
<1>4. CASE Finishing
  BY <1>4, ScanStep, ScanRefusedStep, MarkStep, RenameStep, SetAsideStep, RaisesStep, RetireStep
  DEF Finishing
<1>5. CASE Booted BY <1>5, PowerOnStep, RecoverNextStep, PassEndsStep DEF Booted
<1>6. CASE PowerCut BY <1>6, PowerCutStep
<1>7. CASE \E r \in Recordings : Collect(r) \/ Purge(r) BY <1>7, CollectStep, PurgeStep
<1> QED BY <1>1, <1>2, <1>3, <1>4, <1>5, <1>6, <1>7 DEF Next

\* The invariant of the files always holds.
THEOREM Invariance == Spec => []IInv
BY InitInv, StepInv, PTL DEF Spec

-----------------------------------------------------------------------------
\* The variables have their types (TypeOK).
THEOREM TypeCorrect == Spec => []TypeOK
<1>1. IInv => TypeOK BY DEF IInv
<1> QED BY <1>1, Invariance, PTL

\* A listed recording holds a block, and nothing but intact ones (recover_partial).
THEOREM ListedIsAlwaysIntact == Spec => []ListedIsIntact
<1>1. IInv => ListedIsIntact BY DEF IInv, ContentInv, ListedIsIntact
<1> QED BY <1>1, Invariance, PTL

\* A listed recording without the recovered mark has every block the recorder handed over,
\* unless the card refused one (Writer.close, recover_partial).
THEOREM UnmarkedIsAlwaysComplete == Spec => []UnmarkedIsComplete
<1>1. IInv => UnmarkedIsComplete BY DEF IInv, WholeInv, UnmarkedIsComplete
<1> QED BY <1>1, Invariance, PTL

\* After a boot without a refusal nothing is left to recover when recording begins
\* (recover_all).
THEOREM NoLeftoverEver == Spec => []NoLeftoverGoesUnrecovered
<1>1. IInv => NoLeftoverGoesUnrecovered BY DEF IInv, LeftInv, NoLeftoverGoesUnrecovered
<1> QED BY <1>1, Invariance, PTL

-----------------------------------------------------------------------------
\* A counter that has counted nothing satisfies the invariant of the names.
THEOREM InitNames == Init => NInv
BY CardAssumption
DEF Init, NInv, CounterInv, TurnInv, RingInv, ApartInv, Behind, HasSlot, Recordings

(***************************************************************************)
(* The steps that neither move nor name a recording, nor put a block on the*)
(* card.                                                                   *)
(***************************************************************************)
LEMMA QuietNames ==
  ASSUME IInv, NInv,
         OpenRefused \/ HeaderWritten \/ HeaderRefused \/ WriteRefused \/ EndRecording \/ Scan
           \/ ScanRefused \/ Mark \/ Raises \/ PowerOn \/ RecoverNext \/ PassEnds
  PROVE  NInv'
<1>1. UNCHANGED <<place, slot, turn, written, intact, counter, claimed, turns, latest>>
 
    BY DEF OpenRefused, HeaderWritten, HeaderRefused, WriteRefused, EndRecording, Scan,
        ScanRefused, Mark, Raises, PowerOn, RecoverNext, PassEnds, names, content, slots
<1>2. /\ HasSlot' => HasSlot
      /\ pc' = "header" => pc = "header"
      /\ pc' \in {"recording", "close"} => pc \in {"header", "recording", "close"}
 
    BY DEF HasSlot, OpenRefused, HeaderWritten, HeaderRefused, WriteRefused, EndRecording, Scan,
        ScanRefused, Mark, Raises, PowerOn, RecoverNext, PassEnds, Returned, Booting, IInv, ControlInv, AtWork
<1>3. CounterInv' BY <1>1, <1>2 DEF NInv, CounterInv
<1>4. TurnInv'
  <2>1. pc = "header" => latest \in Recordings /\ turn[latest] <= turns
    BY DEF IInv, ControlInv, In, NInv, TurnInv, HasSlot
  <2> QED BY <1>1, <1>2, <2>1 DEF NInv, TurnInv
<1>5. RingInv'
  BY <1>1, <1>2, CardAssumption DEF IInv, TypeOK, NInv, RingInv
<1>6. ApartInv' BY <1>1 DEF NInv, ApartInv, Behind
<1> QED BY <1>3, <1>4, <1>5, <1>6 DEF NInv

(***************************************************************************)
(* Blocks reach the card only for a recording that nothing can come to     *)
(* yet.                                                                    *)
(***************************************************************************)
LEMMA BlockNames ==
  ASSUME IInv, NInv, WriteBlock \/ Close \/ PowerCut
  PROVE  NInv'
<1>1. UNCHANGED <<place, slot, turn, counter, claimed, turns, latest>> /\ ~HasSlot'
  BY DEF WriteBlock, Close, PowerCut, names, slots, HasSlot
<1>2. \A q \in Recordings : intact'[q] > 0 =>
        intact[q] > 0 \/ (q = latest /\ pc \in {"recording", "close"})
  <2>1. CASE WriteBlock
    BY <2>1 DEF WriteBlock, IInv, TypeOK
  <2>2. CASE Close \/ PowerCut
    <3>1. \/ latest \in Recordings /\ (Filled(latest) \/ LoseTail(latest)) /\ pc \in {"recording", "close"}
          \/ UNCHANGED intact
      BY <2>2 DEF Close, PowerCut, Filled, IInv, ControlInv, In
    <3>2. CASE latest \in Recordings /\ (Filled(latest) \/ LoseTail(latest)) /\ pc \in {"recording", "close"}
      <4>1. \A q \in Recordings \ {latest} : intact'[q] = intact[q]
        BY <3>2, TailShape DEF IInv
      <4> QED BY <3>2, <4>1
    <3> QED BY <3>1, <3>2
  <2> QED BY <2>1, <2>2
<1>3. pc' \in {"recording", "close"} => pc = "recording" BY DEF WriteBlock, Close, PowerCut
<1>4. CounterInv' BY <1>1 DEF NInv, CounterInv
<1>5. TurnInv'
  BY <1>1, <1>2, <1>3 DEF NInv, TurnInv, HasSlot
<1>6. RingInv'
  BY <1>1, CardAssumption DEF IInv, TypeOK, NInv, RingInv
<1>7. ApartInv'
  <2>1. pc \in {"recording", "close"} => place[latest] = "partial" BY DEF IInv, ControlInv, In
  <2> QED BY <1>1, <1>2, <2>1 DEF NInv, ApartInv, Behind
<1> QED BY <1>4, <1>5, <1>6, <1>7 DEF NInv

(***************************************************************************)
(* The counter goes on, and back.                                          *)
(***************************************************************************)
LEMMA ClaimNames == ASSUME Counts, IInv, NInv, Claim PROVE NInv'
<1>1. /\ claimed' = (counter + 1) % SlotCount /\ counter' = claimed' /\ turns' = turns + 1
      /\ pc = "ready" /\ pc' = "claimed" /\ UNCHANGED <<place, names, content, latest>>
  BY DEF Counts, Claim
<1>2. /\ counter \in -1..SlotCount - 1 /\ turns \in Nat /\ SlotCount \in Nat \ {0}
      /\ slot \in [Recordings -> 0..SlotCount - 1] /\ turn \in [Recordings -> Nat]
  BY CardAssumption DEF IInv, TypeOK
<1>3. counter' = IF counter + 1 = SlotCount THEN 0 ELSE counter + 1
  BY <1>1, <1>2, CountUp
<1>4. CounterInv' BY <1>1, <1>2, <1>3 DEF NInv, CounterInv, HasSlot
<1>5. TurnInv' BY <1>1, <1>2 DEF NInv, TurnInv, HasSlot, names, content
<1>6. RingInv'
  <2> SUFFICES ASSUME NEW q \in Recordings, place[q] # "unborn", turns' - turn[q] < SlotCount + 1
               PROVE  LET back == turns' - turn[q]
                      IN slot[q] \in {counter' - back, counter' - back + SlotCount, counter' - back - SlotCount}
    BY <1>1 DEF RingInv, HasSlot, names
  <2> DEFINE back == turns - turn[q]
  <2>1. back < SlotCount /\ back >= -1 /\ back \in Int
    BY <1>1, <1>2 DEF NInv, TurnInv
  <2>2. slot[q] \in {counter - back, counter - back + SlotCount, counter - back - SlotCount}
    <3>1. ~HasSlot BY <1>1 DEF HasSlot
    <3>2. back < SlotCount + 0 BY <1>2, <2>1
    <3> QED BY <3>1, <3>2 DEF NInv, RingInv
  <2>3. slot[q] \in 0..SlotCount - 1 BY <1>2
  <2>4. turns' - turn[q] = back + 1 BY <1>1, <1>2
  <2>5. counter = -1 => slot[q] \in {counter' - (back + 1), counter' - (back + 1) + SlotCount, counter' - (back + 1) - SlotCount}
    BY <1>2, <1>3, <2>1, <2>2, <2>3
  <2>6. counter # -1 => slot[q] \in {counter' - (back + 1), counter' - (back + 1) + SlotCount, counter' - (back + 1) - SlotCount}
    BY <1>2, <1>3, <2>1, <2>2, <2>3
  <2> QED BY <2>4, <2>5, <2>6
<1>7. ApartInv' BY <1>1 DEF NInv, ApartInv, Behind, names, content
<1> QED BY <1>4, <1>5, <1>6, <1>7 DEF NInv

LEMMA ReleaseNames == ASSUME Counts, IInv, NInv, Release PROVE NInv'
<1>1. /\ counter' = (counter - 1) % SlotCount /\ turns' = turns - 1
      /\ pc = "release" /\ pc' = "ready" /\ UNCHANGED <<place, names, content, claimed, latest>>
  BY DEF Counts, Release, NInv, CounterInv, HasSlot
<1>2. /\ counter \in 0..SlotCount - 1 /\ turns \in Nat \ {0} /\ SlotCount \in Nat \ {0}
      /\ slot \in [Recordings -> 0..SlotCount - 1] /\ turn \in [Recordings -> Nat]
      /\ intact \in [Recordings -> Nat]
  BY <1>1, CardAssumption DEF IInv, TypeOK, ControlInv, NInv, CounterInv, HasSlot
<1>3. counter' = IF counter = 0 THEN SlotCount - 1 ELSE counter - 1
  BY <1>1, <1>2, CountDown
<1>4. CounterInv' BY <1>1, <1>2, <1>3 DEF CounterInv, HasSlot
<1>5. TurnInv' BY <1>1, <1>2 DEF NInv, TurnInv, HasSlot, names, content
<1>6. RingInv'
  <2> SUFFICES ASSUME NEW q \in Recordings, place[q] # "unborn", turns' - turn[q] < SlotCount
               PROVE  LET back == turns' - turn[q]
                      IN slot[q] \in {counter' - back, counter' - back + SlotCount, counter' - back - SlotCount}
    <3>1. ~HasSlot' BY <1>1 DEF HasSlot
    <3>2. turns' \in Int /\ turn' = turn /\ UNCHANGED <<place, slot>> BY <1>1, <1>2 DEF names
    <3> QED BY <1>2, <3>1, <3>2 DEF RingInv
  <2> DEFINE back == turns - turn[q]
  <2>1. back < SlotCount + 1 /\ back >= 0 /\ back \in Int
    BY <1>1, <1>2 DEF NInv, TurnInv, HasSlot
  <2>2. slot[q] \in {counter - back, counter - back + SlotCount, counter - back - SlotCount}
    BY <1>1, <2>1 DEF NInv, RingInv, HasSlot
  <2>3. slot[q] \in 0..SlotCount - 1 BY <1>2
  <2>4. turns' - turn[q] = back - 1 BY <1>1, <1>2
  <2>5. slot[q] \in {counter' - (back - 1), counter' - (back - 1) + SlotCount, counter' - (back - 1) - SlotCount}
    BY <1>2, <1>3, <2>1, <2>2, <2>3
  <2> QED BY <2>4, <2>5
<1>7. ApartInv' BY <1>1 DEF NInv, ApartInv, Behind, names, content
<1> QED BY <1>4, <1>5, <1>6, <1>7 DEF NInv

(***************************************************************************)
(* Whoever has the slot in hand, and a block, claimed it SlotCount claims  *)
(* ago or earlier.                                                         *)
(***************************************************************************)
LEMMA SlotIsOld ==
  ASSUME IInv, NInv, pc = "claimed", NEW q \in Recordings,
         place[q] # "unborn", slot[q] = claimed, intact[q] > 0
  PROVE  turns - turn[q] >= SlotCount
<1>1. /\ counter \in Int /\ turns \in Nat /\ SlotCount \in Nat \ {0}
      /\ turn[q] \in Nat /\ counter = claimed
  BY CardAssumption DEF IInv, TypeOK, NInv, CounterInv, HasSlot
<1>2. turns - turn[q] > 0 BY <1>1 DEF NInv, TurnInv, HasSlot
<1> SUFFICES ASSUME turns - turn[q] < SlotCount PROVE FALSE BY <1>1
<1> DEFINE back == turns - turn[q]
<1>3. slot[q] \in {counter - back, counter - back + SlotCount, counter - back - SlotCount}
  BY <1>1 DEF NInv, RingInv, HasSlot
<1> QED BY <1>1, <1>2, <1>3

LEMMA OpenNames == ASSUME IInv, NInv, OpenCreates PROVE NInv'
<1> DEFINE new == latest + 1
<1>a. /\ new \in Recordings /\ latest' = new /\ pc = "claimed" /\ pc' = "header"
      /\ place[new] = "unborn"
      /\ slot' = [slot EXCEPT ![new] = claimed] /\ turn' = [turn EXCEPT ![new] = turns]
      /\ UNCHANGED <<content, slots>>
  BY OpenShape DEF OpenCreates
<1>c. /\ place'[new] = "partial"
      /\ \A q \in Recordings \ {new} : place'[q] = place[q] \/ (place'[q] = "gone" /\ place[q] = "partial")
  <2>1. /\ place' \in [Recordings -> Places] /\ place'[new] = "partial"
        /\ \A q \in Recordings \ {new} :
             IF place[q] = "partial" /\ slot[q] = claimed
               THEN place'[q] = "gone" ELSE place'[q] = place[q]
    BY OpenShape
  <2> HIDE DEF new
  <2> QED BY <2>1
<1> HIDE DEF new
<1>b. /\ slot'[new] = claimed /\ \A q \in Recordings \ {new} : slot'[q] = slot[q]
      /\ turn'[new] = turns /\ \A q \in Recordings \ {new} : turn'[q] = turn[q]
      /\ turns \in Nat /\ turn \in [Recordings -> Nat] /\ SlotCount \in Nat \ {0}
      /\ claimed = counter /\ counter \in Int
      /\ written[new] = 0 /\ intact[new] = 0
  BY <1>a, CardAssumption DEF IInv, TypeOK, BornInv, NInv, CounterInv, HasSlot
<1>1. CounterInv' BY <1>a, <1>b DEF NInv, CounterInv, HasSlot, slots
<1>2. TurnInv' BY <1>a, <1>b DEF NInv, TurnInv, HasSlot, slots, content
<1>3. RingInv'
  <2> SUFFICES ASSUME NEW q \in Recordings, place'[q] # "unborn", turns - turn'[q] < SlotCount + 1
               PROVE  LET back == turns - turn'[q]
                      IN slot'[q] \in {counter - back, counter - back + SlotCount, counter - back - SlotCount}
    BY <1>a DEF RingInv, HasSlot, slots
  <2>1. CASE q = new BY <1>b, <2>1
  <2>2. CASE q # new
    <3>1. place[q] # "unborn" BY <1>c, <2>2
    <3> QED BY <1>a, <1>b, <2>2, <3>1 DEF NInv, RingInv, HasSlot
  <2> QED BY <2>1, <2>2
<1>4. ApartInv'
  <2> SUFFICES ASSUME NEW q \in Recordings, NEW r \in Recordings,
                      Behind(r, q)', slot'[q] = slot'[r], intact[q] > 0
               PROVE  turn'[r] - turn'[q] >= SlotCount
    BY <1>a DEF ApartInv, content
  <2>1. q # new BY <1>c DEF Behind
  <2>2. CASE r = new
    <3>1. place[q] # "unborn" BY <1>c, <2>1 DEF Behind
    <3>2. slot[q] = claimed BY <1>b, <2>1, <2>2
    <3>3. turns - turn[q] >= SlotCount BY <1>a, <3>1, <3>2, SlotIsOld
    <3> QED BY <1>b, <2>1, <2>2, <3>3
  <2>3. CASE r # new
    <3>1. Behind(r, q) /\ slot[q] = slot[r] BY <1>b, <1>c, <2>1, <2>3 DEF Behind
    <3> QED BY <1>b, <2>1, <2>3, <3>1 DEF NInv, ApartInv
  <2> QED BY <2>2, <2>3
<1> QED BY <1>1, <1>2, <1>3, <1>4 DEF NInv

(***************************************************************************)
(* A recording that moves is then where only later ones can come to, and   *)
(* was before what it comes to.                                            *)
(***************************************************************************)
LEMMA MoveApart ==
  ASSUME IInv, NInv, NEW r \in Recordings, NEW where \in {"dat", "trash", "corrupt"},
         Put(r, where), UNCHANGED <<names, content>>,
         \/ place[r] = "partial" /\ where \in {"dat", "corrupt"}
         \/ place[r] = "dat" /\ where = "trash"
  PROVE  ApartInv'
<1>1. /\ place'[r] = where
      /\ \A q \in Recordings \ {r} :
           IF place[q] = where /\ slot[q] = slot[r]
             THEN place'[q] = "gone" ELSE place'[q] = place[q]
  <2>1. where \in Places BY DEF Places
  <2> QED BY <2>1, PutShape DEF IInv, names
<1> SUFFICES ASSUME NEW q \in Recordings, NEW p \in Recordings,
                    Behind(p, q)', slot[q] = slot[p], intact[q] > 0
             PROVE  turn[p] - turn[q] >= SlotCount
  BY DEF ApartInv, names, content
<1>2. p # q BY DEF Behind
<1>3. CASE p = r
  <2>1. place[q] = place'[q] BY <1>1, <1>2, <1>3 DEF Behind
  <2> QED BY <1>1, <1>3, <2>1 DEF Behind, NInv, ApartInv
<1>4. CASE q = r
  <2>1. place[p] = place'[p] BY <1>1, <1>2, <1>4 DEF Behind
  <2>2. place[p] # place[r] BY <1>2, <1>4, <2>1 DEF IInv, UniqueInv, Live, Behind
  <2> QED BY <1>1, <1>4, <2>1, <2>2 DEF Behind, NInv, ApartInv
<1>5. CASE p # r /\ q # r
  <2>1. place[p] = place'[p] /\ place[q] = place'[q] BY <1>1, <1>5 DEF Behind
  <2> QED BY <2>1 DEF Behind, NInv, ApartInv
<1> QED BY <1>3, <1>4, <1>5

LEMMA MoveNames ==
  ASSUME IInv, NInv,
         Rename \/ SetAside \/ Retire \/ (\E r \in Recordings : Collect(r) \/ Purge(r))
  PROVE  NInv'
<1>1. UNCHANGED <<slot, turn, written, intact, counter, claimed, turns, latest>>
  BY DEF Rename, SetAside, Retire, Collect, Purge, names, content, slots
<1>2. /\ HasSlot' => HasSlot
      /\ pc' \in {"header", "recording", "close"} => pc' = pc
  BY DEF HasSlot, Rename, SetAside, Retire, Collect, Purge, Returned, Booting
<1>3. CounterInv' BY <1>1, <1>2 DEF NInv, CounterInv
<1>4. TurnInv' BY <1>1, <1>2 DEF NInv, TurnInv
<1>5. ApartInv'
  <2>1. CASE UNCHANGED place BY <1>1, <2>1 DEF NInv, ApartInv, Behind
  <2>2. CASE Rename \/ SetAside
    <3>1. work \in Recordings /\ place[work] = "partial"
      BY <2>2 DEF IInv, ControlInv, AtWork, In, Rename, SetAside
    <3> QED BY <2>1, <2>2, <3>1, MoveApart DEF Rename, SetAside
  <2>3. CASE Retire
    BY <2>1, <2>3, MoveApart DEF Retire, In
  <2>4. ASSUME NEW r \in Recordings, Collect(r) PROVE ApartInv'
    BY <2>4, MoveApart DEF Collect, In
  <2>5. ASSUME NEW r \in Recordings, Purge(r) PROVE ApartInv'
    <3>1. \A q \in Recordings : place'[q] = place[q] \/ place'[q] = "gone"
      BY <2>5 DEF Purge, IInv, TypeOK
    <3> QED BY <1>1, <3>1 DEF NInv, ApartInv, Behind
  <2> QED BY <2>2, <2>3, <2>4, <2>5
<1>6. RingInv'
  <2>1. \A q \in Recordings : place'[q] # "unborn" => place[q] # "unborn"
    <3>1. BornInv' /\ BornInv
      BY RenameStep, SetAsideStep, RetireStep, CollectStep, PurgeStep DEF IInv
    <3> QED BY <1>1, <3>1 DEF BornInv
  <2> QED BY <1>1, <1>2, <2>1, CardAssumption DEF IInv, TypeOK, NInv, RingInv
<1> QED BY <1>3, <1>4, <1>5, <1>6 DEF NInv

\* As long as the slot file can be read and written, every step keeps the invariant of
\* the names: the slots go round in their order (next_slot, release_slot).
THEOREM StepNames == Counts /\ IInv /\ NInv /\ [Next]_vars => NInv'
<1> SUFFICES ASSUME Counts, IInv, NInv, [Next]_vars PROVE NInv' OBVIOUS
<1>1. CASE UNCHANGED vars
  <2>1. UNCHANGED <<place, slot, turn, written, intact, counter, claimed, turns, latest, pc>>
    BY <1>1 DEF vars, names, content, slots
  <2> QED BY <2>1 DEF NInv, CounterInv, TurnInv, RingInv, ApartInv, Behind, HasSlot
<1>2. CASE Next
  BY <1>2, QuietNames, BlockNames, ClaimNames, ReleaseNames, OpenNames, MoveNames
  DEF Next, Opening, Writing, Finishing, Booted
<1> QED BY <1>1, <1>2

\* As long as the slot file can be read and written, both invariants always hold.
THEOREM NamesInvariance == ASSUME Counts PROVE Spec => [](IInv /\ NInv)
<1>1. Init => IInv /\ NInv BY InitInv, InitNames
<1>2. IInv /\ NInv /\ [Next]_vars => (IInv /\ NInv)' BY Counts, StepInv, StepNames
<1> QED BY <1>1, <1>2, PTL DEF Spec

-----------------------------------------------------------------------------
\* What moves comes to the place of a recording with a block only when it is allowed to.
LEMMA MoveArrives ==
  ASSUME IInv, NInv, NEW m \in Recordings, NEW where \in {"dat", "trash", "corrupt"},
         Put(m, where), UNCHANGED <<names, content>>,
         \/ place[m] = "partial" /\ where \in {"dat", "corrupt"}
         \/ place[m] = "dat" /\ where = "trash",
         NEW q \in Recordings, NEW r \in Recordings, Arrives(r, q), intact[q] > 0
  PROVE  turn'[r] - turn[q] >= SlotCount
<1>1. /\ place'[m] = where
      /\ \A p \in Recordings \ {m} :
           IF place[p] = where /\ slot[p] = slot[m]
             THEN place'[p] = "gone" ELSE place'[p] = place[p]
  <2>1. where \in Places BY DEF Places
  <2> QED BY <2>1, PutShape DEF IInv, names
<1>2. r = m BY <1>1 DEF Arrives
<1>3. Behind(r, q) /\ slot[q] = slot[r] BY <1>1, <1>2 DEF Arrives, Behind, names
<1> QED BY <1>3 DEF NInv, ApartInv, names

\* A recording with a block loses its path only to one that came long after it.
LEMMA OnlyOld ==
  ASSUME IInv, NInv, [Next]_vars,
         NEW q \in Recordings, NEW r \in Recordings, Arrives(r, q), intact[q] > 0
  PROVE  turn'[r] - turn[q] >= SlotCount
<1>1. place'[r] # place[r] /\ place'[r] = place[q] /\ place[q] \notin {"unborn", "gone"}
  BY DEF Arrives
<1>2. CASE OpenCreates
  <2> DEFINE new == latest + 1
  <2>1. /\ new \in Recordings /\ pc = "claimed"
        /\ place[new] = "unborn"
        /\ slot' = [slot EXCEPT ![new] = claimed] /\ turn' = [turn EXCEPT ![new] = turns]
        /\ place' \in [Recordings -> Places] /\ place'[new] = "partial"
        /\ \A p \in Recordings \ {new} :
             IF place[p] = "partial" /\ slot[p] = claimed
               THEN place'[p] = "gone" ELSE place'[p] = place[p]
    BY <1>2, OpenShape
  <2> HIDE DEF new
  <2>2. r = new BY <1>1, <2>1
  <2>3. slot[q] = claimed /\ turn'[r] = turns BY <2>1, <2>2 DEF Arrives, IInv, TypeOK
  <2> QED BY <1>1, <2>1, <2>3, SlotIsOld
<1>3. CASE Rename \/ SetAside
  <2>1. work \in Recordings /\ place[work] = "partial"
    BY <1>3 DEF IInv, ControlInv, AtWork, In, Rename, SetAside
  <2>2. Put(work, "dat") \/ Put(work, "corrupt") BY <1>1, <1>3 DEF Rename, SetAside
  <2>3. UNCHANGED <<names, content>> BY <1>3 DEF Rename, SetAside
  <2> QED BY <2>1, <2>2, <2>3, MoveArrives
<1>4. CASE Retire
  <2>1. work \in Recordings /\ place[work] = "dat" /\ Put(work, "trash") /\ UNCHANGED <<names, content>>
    BY <1>1, <1>4 DEF Retire, In
  <2> QED BY <2>1, MoveArrives
<1>5. ASSUME NEW m \in Recordings, Collect(m) PROVE turn'[r] - turn[q] >= SlotCount
  <2>1. place[m] = "dat" /\ Put(m, "trash") /\ UNCHANGED <<names, content>>
    BY <1>5 DEF Collect, In
  <2> QED BY <2>1, MoveArrives
<1>6. ASSUME NEW m \in Recordings, Purge(m) PROVE FALSE
  <2>1. \A p \in Recordings : place'[p] = place[p] \/ place'[p] = "gone"
    BY <1>6 DEF Purge, IInv, TypeOK
  <2> QED BY <1>1, <2>1
<1>7. CASE UNCHANGED place BY <1>1, <1>7
<1>8. OpenCreates \/ Rename \/ SetAside \/ Retire \/ (\E m \in Recordings : Collect(m) \/ Purge(m))
      \/ UNCHANGED place
  BY DEF Next, Opening, Writing, Finishing, Booted, Claim, OpenRefused, HeaderWritten,
     HeaderRefused, Release, WriteBlock, WriteRefused, EndRecording, Close, Scan, ScanRefused,
     Mark, Raises, PowerOn, RecoverNext, PassEnds, PowerCut, vars
<1> QED BY <1>2, <1>3, <1>4, <1>5, <1>6, <1>7, <1>8

\* As long as the slot file can be read and written, a recording with a block loses its path
\* only to one that claimed its slot SlotCount claims later or more (next_slot,
\* release_slot, recover_partial, move_to_trash).
THEOREM OverwritesAreRotations == ASSUME Counts PROVE Spec => OverwritesOnlyByRotation
<1>1. IInv /\ NInv /\ [Next]_vars =>
        [\A q, r \in Recordings :
           Arrives(r, q) /\ intact[q] > 0 => turn'[r] - turn[q] >= SlotCount]_vars
  BY OnlyOld
<1> QED BY <1>1, NamesInvariance, Counts, PTL DEF Spec, OverwritesOnlyByRotation

-----------------------------------------------------------------------------
(* Card implements Store. *)

stages == [r \in Recordings |-> Stage(place[r])]

\* An empty card is an empty store.
LEMMA PromisedInit == Init => Promised!Init
BY DEF Init, Promised!Init, Stage

\* A recording that moves, and what makes room for it, move so in the store.
LEMMA PromisedMove ==
  ASSUME IInv, NInv, NEW r \in Recordings, NEW where \in {"dat", "trash", "corrupt"},
         Put(r, where), UNCHANGED <<names, content>>,
         \/ place[r] = "partial" /\ where \in {"dat", "corrupt"}
         \/ place[r] = "dat" /\ where = "trash"
  PROVE  Promised!Move(r, Stage(place[r]), Stage(where)) /\ UNCHANGED turn
<1>1. /\ place' \in [Recordings -> Places] /\ place'[r] = where
      /\ \A q \in Recordings \ {r} :
           IF place[q] = where /\ slot[q] = slot[r]
             THEN place'[q] = "gone" ELSE place'[q] = place[q]
  <2>1. where \in Places BY DEF Places
  <2> QED BY <2>1, PutShape DEF IInv, names
<1>2. UNCHANGED <<turn, intact>> BY DEF names, content
<1> DEFINE displaced == {q \in Recordings \ {r} : place[q] = where /\ slot[q] = slot[r]}
<1>3. displaced \in SUBSET Promised!Room(r, Stage(where))
  <2> SUFFICES ASSUME NEW q \in displaced PROVE q \in Promised!Room(r, Stage(where)) OBVIOUS
  <2>1. q \in Recordings \ {r} /\ place[q] = where /\ slot[q] = slot[r] OBVIOUS
  <2>2. Behind(r, q) BY <2>1 DEF Behind
  <2>3. intact[q] = 0 \/ turn'[r] - turn[q] >= SlotCount
    BY <1>2, <2>1, <2>2, CardAssumption DEF NInv, ApartInv, IInv, TypeOK
  <2> QED BY <2>1, <2>3 DEF Promised!Room
<1>4. stages' = [q \in Recordings |-> IF q = r THEN Stage(where)
                                      ELSE IF q \in displaced THEN "gone" ELSE stages[q]]
  <2> SUFFICES ASSUME NEW q \in Recordings
               PROVE  Stage(place'[q]) = IF q = r THEN Stage(where)
                                         ELSE IF q \in displaced THEN "gone" ELSE Stage(place[q])
    BY DEF stages
  <2>1. Stage("gone") = "gone" BY DEF Stage
  <2>2. CASE q = r BY <1>1, <2>2
  <2>3. CASE q # r /\ q \in displaced BY <1>1, <2>1, <2>3
  <2>4. CASE q # r /\ q \notin displaced BY <1>1, <2>4
  <2> QED BY <2>2, <2>3, <2>4
<1> HIDE DEF displaced
<1> QED BY <1>2, <1>3, <1>4 DEF Promised!Move, stages

\* A recording that is opened is new in the store.
LEMMA PromisedOpen == ASSUME IInv, NInv, OpenCreates PROVE Promised!Open(latest + 1)
<1> DEFINE new == latest + 1
           displaced == {q \in Recordings \ {new} : place[q] = "partial" /\ slot[q] = claimed}
<1>1. /\ new \in Recordings /\ pc = "claimed"
      /\ place[new] = "unborn"
      /\ turn' = [turn EXCEPT ![new] = turns]
      /\ place' \in [Recordings -> Places] /\ place'[new] = "partial"
      /\ \A p \in Recordings \ {new} :
           IF place[p] = "partial" /\ slot[p] = claimed
             THEN place'[p] = "gone" ELSE place'[p] = place[p]
  BY OpenShape
<1>2. UNCHANGED intact BY DEF OpenCreates, content
<1> HIDE DEF new
<1>3. displaced \in SUBSET Promised!Room(new, "recorded")
  <2> SUFFICES ASSUME NEW q \in displaced PROVE q \in Promised!Room(new, "recorded") OBVIOUS
  <2>1. q \in Recordings \ {new} /\ place[q] = "partial" /\ slot[q] = claimed OBVIOUS
  <2>2. intact[q] = 0 \/ turns - turn[q] >= SlotCount
    BY <1>1, <2>1, SlotIsOld, CardAssumption DEF IInv, TypeOK
  <2>3. turn'[new] = turns BY <1>1 DEF IInv, TypeOK
  <2>4. Stage("partial") = "recorded" BY DEF Stage
  <2> QED BY <2>1, <2>2, <2>3, <2>4 DEF Promised!Room
<1>4. stages' = [q \in Recordings |-> IF q = new THEN "recorded"
                                      ELSE IF q \in displaced THEN "gone" ELSE stages[q]]
  <2> SUFFICES ASSUME NEW q \in Recordings
               PROVE  Stage(place'[q]) = IF q = new THEN "recorded"
                                         ELSE IF q \in displaced THEN "gone" ELSE Stage(place[q])
    BY DEF stages
  <2>1. Stage("gone") = "gone" /\ Stage("partial") = "recorded" BY DEF Stage
  <2>2. CASE q = new BY <1>1, <2>1, <2>2
  <2>3. CASE q # new /\ q \in displaced BY <1>1, <2>1, <2>3
  <2>4. CASE q # new /\ q \notin displaced BY <1>1, <2>4
  <2> QED BY <2>2, <2>3, <2>4
<1> HIDE DEF displaced
<1>5. Stage(place[new]) = "none" BY <1>1 DEF Stage
<1>6. turns \in 0..MaxTurns BY DEF IInv, TypeOK
<1>7. Promised!Move(new, "none", "recorded")
  BY <1>1, <1>2, <1>3, <1>4, <1>5 DEF Promised!Move, stages
<1> QED BY <1>1, <1>6, <1>7 DEF Promised!Open, new

(***************************************************************************)
(* A block that is put on the card, or saved by a power cut that spared it.*)
(***************************************************************************)
LEMMA PromisedSync ==
  ASSUME IInv, WriteBlock \/ Close \/ PowerCut
  PROVE  Promised!Sync(latest) \/ UNCHANGED Promised!vars
<1>1. UNCHANGED <<place, turn>> BY DEF WriteBlock, Close, PowerCut, names
<1>2. CASE UNCHANGED intact BY <1>1, <1>2 DEF Promised!vars
<1>3. CASE intact' # intact
  <2>1. latest \in Recordings /\ place[latest] = "partial"
    BY <1>3 DEF WriteBlock, Close, PowerCut, IInv, ControlInv, In
  <2>2. PICK k \in 0..MaxBlocks : k >= intact[latest] /\ intact' = [intact EXCEPT ![latest] = k]
    <3>1. /\ intact[latest] \in 0..MaxBlocks /\ written[latest] \in 0..MaxBlocks
          /\ intact[latest] <= written[latest]
      BY <2>1 DEF IInv, TypeOK, BornInv
    <3>2. CASE WriteBlock
      <4>1. written'[latest] = written[latest] + 1 /\ written[latest] + 1 \in 0..MaxBlocks
        BY <2>1, <3>1, <3>2, CardAssumption DEF WriteBlock, IInv, TypeOK
      <4>2. intact' = [intact EXCEPT ![latest] = written[latest] + 1]
        BY <1>3, <3>2, <4>1 DEF WriteBlock
      <4>3. written[latest] + 1 >= intact[latest] BY <3>1, CardAssumption
      <4> QED BY <4>1, <4>2, <4>3
    <3>3. CASE Close \/ PowerCut
      <4>1. \E k \in intact[latest]..written[latest] : intact' = [intact EXCEPT ![latest] = k]
        <5>1. \/ intact' = [intact EXCEPT ![latest] = written[latest]]
              \/ LoseTail(latest)
          BY <1>3, <3>3 DEF Close, PowerCut
        <5>2. written[latest] \in intact[latest]..written[latest] BY <3>1, CardAssumption
        <5>3. CASE LoseTail(latest) BY <5>3 DEF LoseTail
        <5> QED BY <5>1, <5>2, <5>3
      <4>2. PICK k \in intact[latest]..written[latest] : intact' = [intact EXCEPT ![latest] = k]
        BY <4>1
      <4>3. k \in 0..MaxBlocks /\ k >= intact[latest] BY <3>1, CardAssumption
      <4> QED BY <4>2, <4>3
    <3> QED BY <3>2, <3>3
  <2>3. k # intact[latest] BY <1>3, <2>1, <2>2 DEF IInv, TypeOK
  <2>4. k > intact[latest] BY <2>1, <2>2, <2>3, CardAssumption DEF IInv, TypeOK
  <2>5. Stage(place[latest]) = "recorded" BY <2>1 DEF Stage
  <2> QED BY <1>1, <2>1, <2>2, <2>4, <2>5 DEF Promised!Sync
<1> QED BY <1>2, <1>3

\* A purge is a purge.
LEMMA PromisedPurge ==
  ASSUME IInv, NEW r \in Recordings, Purge(r)
  PROVE  Promised!Purge(r)
<1>1. /\ place[r] = "trash" /\ place' = [place EXCEPT ![r] = "gone"] /\ UNCHANGED <<turn, intact>>
  BY DEF Purge, In, names, content
<1>2. Stage("trash") = "trash" /\ Stage("gone") = "gone" BY DEF Stage
<1>3. stages' = [q \in Recordings |-> IF q = r THEN "gone"
                                      ELSE IF q \in {} THEN "gone" ELSE stages[q]]
  BY <1>1, <1>2 DEF stages, IInv, TypeOK
<1>4. {} \in SUBSET Promised!Room(r, "gone") OBVIOUS
<1>5. \E displaced \in SUBSET Promised!Room(r, "gone") :
        stages' = [q \in Recordings |-> IF q = r THEN "gone"
                                       ELSE IF q \in displaced THEN "gone" ELSE stages[q]]
  BY <1>3, <1>4
<1> QED BY <1>1, <1>2, <1>5 DEF Promised!Purge, Promised!Move, stages

\* Every step of the card is a step of the abstract store, or changes nothing it speaks of.
THEOREM PromisedStep == IInv /\ NInv /\ [Next]_vars => [Promised!Next]_(Promised!vars)
<1> SUFFICES ASSUME IInv, NInv, [Next]_vars, ~UNCHANGED Promised!vars PROVE Promised!Next OBVIOUS
<1>1. CASE OpenCreates
  <2>1. latest + 1 \in Recordings BY <1>1, OpenShape
  <2> QED BY <1>1, <2>1, PromisedOpen DEF Promised!Next
<1>2. CASE WriteBlock \/ Close \/ PowerCut
  <2>1. Promised!Sync(latest) BY <1>2, PromisedSync
  <2>2. latest \in Recordings
    BY <1>2, <2>1 DEF WriteBlock, Close, PowerCut, IInv, ControlInv, In, Promised!vars, names
  <2> QED BY <2>1, <2>2 DEF Promised!Next
<1>3. CASE Rename
  <2>1. work \in Recordings /\ place[work] = "partial" /\ intact[work] > 0 /\ Put(work, "dat")
        /\ UNCHANGED <<names, content>>
    BY <1>3 DEF IInv, ControlInv, ContentInv, AtWork, In, Rename
  <2>2. Promised!Move(work, Stage("partial"), Stage("dat")) /\ UNCHANGED turn
    BY <2>1, PromisedMove
  <2> QED BY <2>1, <2>2 DEF Promised!Next, Promised!Finish, Stage
<1>4. CASE SetAside
  <2>1. work \in Recordings /\ place[work] = "partial" /\ UNCHANGED <<names, content>>
    BY <1>4 DEF IInv, ControlInv, AtWork, In, SetAside
  <2>2. Put(work, "corrupt") BY <1>4, <2>1 DEF SetAside, Promised!vars, names, content
  <2>3. Promised!Move(work, Stage("partial"), Stage("corrupt")) /\ UNCHANGED turn
    BY <2>1, <2>2, PromisedMove
  <2> QED BY <2>1, <2>3 DEF Promised!Next, Promised!SetAside, Stage
<1>5. ASSUME NEW r \in Recordings, place[r] = "dat", Put(r, "trash"), UNCHANGED <<names, content>>
      PROVE  Promised!Next
  <2>1. Promised!Move(r, Stage("dat"), Stage("trash")) /\ UNCHANGED turn
    BY <1>5, PromisedMove
  <2> QED BY <2>1 DEF Promised!Next, Promised!Retire, Stage
<1>6. CASE Retire
  <2>1. UNCHANGED <<names, content>> BY <1>6 DEF Retire
  <2>2. work \in In("dat") /\ Put(work, "trash")
    BY <1>6, <2>1 DEF Retire, Promised!vars, names, content
  <2> QED BY <1>5, <2>1, <2>2 DEF In
<1>7. ASSUME NEW r \in Recordings, Collect(r) PROVE Promised!Next
  BY <1>5, <1>7 DEF Collect, In
<1>8. ASSUME NEW r \in Recordings, Purge(r) PROVE Promised!Next
  BY <1>8, PromisedPurge DEF Promised!Next
<1>9. ~UNCHANGED <<place, turn, intact>> BY DEF Promised!vars
<1>10. \/ OpenCreates \/ WriteBlock \/ Close \/ PowerCut \/ Rename \/ SetAside \/ Retire
       \/ \E r \in Recordings : Collect(r) \/ Purge(r)
  BY <1>9 DEF Next, Opening, Writing, Finishing, Booted, Claim, OpenRefused, HeaderWritten,
     HeaderRefused, Release, WriteRefused, EndRecording, Scan, ScanRefused,
     Mark, Raises, PowerOn, RecoverNext, PassEnds, vars, names, content
<1> QED BY <1>1, <1>2, <1>3, <1>4, <1>6, <1>7, <1>8, <1>10

\* Card implements Store, whatever is refused and whenever the power goes, as long as the slot
\* file can be read and written.
THEOREM ThePromiseIsKept == ASSUME Counts PROVE Spec => KeepsThePromise
<1>1. IInv /\ NInv /\ [Next]_vars => [Promised!Next]_(Promised!vars) BY PromisedStep
<1>2. Init => Promised!Init BY PromisedInit
<1> QED BY <1>1, <1>2, NamesInvariance, Counts, PTL DEF Spec, KeepsThePromise, Promised!Spec

=============================================================================
