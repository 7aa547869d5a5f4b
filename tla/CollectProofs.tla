---------------------------- MODULE CollectProofs ---------------------------
(***************************************************************************)
(* Proofs about Collect: for any names, recordings, lengths and numbers of *)
(* attempts, whatever is interrupted and whoever else empties the list,    *)
(* what the script retires is whole on the laptop.                         *)
(***************************************************************************)
EXTENDS Collect, SequenceTheorems, TLAPS

Transferring == pc \in {"attempt", "request", "transfer", "check"}

(***************************************************************************)
(* A recording that its name no longer leads to, and never will again.     *)
(***************************************************************************)
Gone(n, r) == r <= newest /\ Served(n) # r

\* All the chunks of a file are of the recording that its header is of.
One(content) == \A i \in 1 .. Len(content) : content[i] = Head(content)

(***************************************************************************)
(* What is made is made: no number is ahead of the device.                 *)
(***************************************************************************)
MadeInv ==
  /\ \A n \in Names : slot[n] <= newest /\ trash[n] <= newest
  /\ header <= newest /\ source <= newest
  /\ \A k \in Keys : part[k] # <<>> => Head(part[k]) <= newest

(***************************************************************************)
(* What the script has in hand.                                            *)
(***************************************************************************)
HandInv ==
  /\ Transferring \/ pc = "post" => dest[1] = name /\ header \in Recordings
  /\ Transferring => file[dest] = <<>>
  /\ pc \in {"attempt", "request", "transfer"} => tries >= 1
  /\ pc = "request" => part[dest] = <<>> \/ Head(part[dest]) = header
  /\ pc = "transfer" =>
       /\ source \in Recordings
       /\ part[dest] = <<>> \/ Head(part[dest]) = source \/ Gone(name, Head(part[dest]))

(***************************************************************************)
(* The size is the one of the recording whose header was read.             *)
(***************************************************************************)
SizeInv ==
  /\ pc = "idle" => \A n \in Names : todo[n] = 0
  /\ \A n \in Names : todo[n] # 0 /\ Served(n) # Nothing =>
       Served(n) \in late \/ length[Served(n)] = todo[n]
  /\ Transferring => header \in late \/ length[header] = expect

(***************************************************************************)
(* A .part that is of two recordings begins with one that is not to be had *)
(* any more, so that it never passes the last look.                        *)
(***************************************************************************)
PartInv ==
  \A k \in Keys : part[k] # <<>> => One(part[k]) \/ Gone(k[1], Head(part[k]))

(***************************************************************************)
(* Between the last look and the POST.                                     *)
(***************************************************************************)
PostInv ==
  pc = "post" =>
    /\ header \in late \/ file[dest] = Whole(header)
    /\ slot[name] \in {Nothing, header} \cup late

IInv ==
  /\ TypeOK /\ MadeInv /\ HandInv /\ SizeInv /\ PartInv /\ PostInv
  /\ FinishedIsWhole /\ RetiredIsHeld

-----------------------------------------------------------------------------
(* The names, the sequences. *)

\* The first component of a name on the laptop is the name on the device.
LEMMA KeyName ==
  ASSUME NEW n \in Names, NEW r \in 0 .. MaxRecordings, NEW i \in 0 .. Copies,
         r # 0 \/ i = 0
  PROVE  Candidate(n, r, i) \in Keys /\ Candidate(n, r, i)[1] = n
<1>1. Candidate(n, r, i)[1] = n BY DEF Candidate
<1>2. CASE r # 0 BY <1>1, <1>2 DEF Keys, Recordings
<1>3. CASE i = 0
  <2>1. 1 \in Recordings BY CollectAssumption DEF Recordings
  <2>2. Candidate(n, r, i) = Candidate(n, 1, i) BY <1>3 DEF Candidate
  <2> QED BY <1>1, <1>3, <2>1, <2>2 DEF Keys
<1> QED BY <1>1, <1>2, <1>3

\* A whole recording is a sequence of at least one chunk.
LEMMA WholeShape ==
  ASSUME TypeOK, NEW r \in Recordings
  PROVE  /\ Whole(r) \in Seq(Recordings) /\ Len(Whole(r)) = length[r]
         /\ length[r] \in 1 .. MaxLength /\ Whole(r) # <<>>
         /\ \A i \in 1 .. length[r] : Whole(r)[i] = r
<1>1. length[r] \in 1 .. MaxLength /\ length[r] \in Nat BY CollectAssumption DEF TypeOK
<1>2. Whole(r) \in Seq(Recordings) /\ Len(Whole(r)) = length[r] BY <1>1 DEF Whole
<1>3. \A i \in 1 .. length[r] : Whole(r)[i] = r BY DEF Whole
<1>4. Whole(r) # <<>> BY <1>1, <1>2
<1> QED BY <1>1, <1>2, <1>3, <1>4

\* A sequence as long as the recording, with nothing but chunks of it, is the whole of it.
LEMMA OneIsWhole ==
  ASSUME TypeOK, NEW c \in Seq(Recordings), c # <<>>, One(c), Len(c) = length[Head(c)]
  PROVE  c = Whole(Head(c))
<1>1. Head(c) \in Recordings BY HeadTailProperties
<1>2. Whole(Head(c)) \in Seq(Recordings) /\ Len(Whole(Head(c))) = Len(c) BY <1>1, WholeShape
<1>3. \A i \in 1 .. Len(c) : c[i] = Whole(Head(c))[i] BY <1>1, WholeShape DEF One
<1> QED BY <1>2, <1>3, SeqEqual

\* What is served is a recording of the device's.
LEMMA ServedMade ==
  ASSUME TypeOK, MadeInv, NEW n \in Names
  PROVE  Served(n) \in 0 .. MaxRecordings /\ Served(n) <= newest
BY DEF TypeOK, MadeInv, Served

\* A destination that fits there is, and it is free or has the recording itself.
LEMMA DestinationFits ==
  ASSUME NEW n \in Names, NEW r \in Recordings, NEW size,
         \E i \in 0 .. Copies : First(n, r, size, i)
  PROVE  /\ Destination(n, r, size) \in Keys /\ Destination(n, r, size)[1] = n
         /\ \/ file[Destination(n, r, size)] = <<>>
            \/ Identical(Destination(n, r, size), r, size)
<1> DEFINE c == CHOOSE i \in 0 .. Copies : First(n, r, size, i)
<1>1. c \in 0 .. Copies /\ First(n, r, size, c) OBVIOUS
<1>2. Destination(n, r, size) = Candidate(n, r, c) BY DEF Destination
<1>3. r \in 0 .. MaxRecordings /\ r # 0 BY DEF Recordings
<1> HIDE DEF c
<1> QED BY <1>1, <1>2, <1>3, KeyName DEF First, Fits

-----------------------------------------------------------------------------
\* A device with nothing on it, and an empty folder, satisfy the invariant.
THEOREM InitInv == Init => IInv
<1> SUFFICES ASSUME Init PROVE IInv OBVIOUS
<1>1. 0 \in 0 .. MaxRecordings /\ 0 \in 0 .. Copies /\ 0 \in 0 .. MaxLength /\ 0 \in 0 .. Attempts
  BY CollectAssumption
<1>2. dest \in Keys BY <1>1, KeyName DEF Init, Nothing
<1>3. TypeOK BY <1>1, <1>2 DEF Init, TypeOK, Nothing
<1>4. MadeInv /\ PartInv BY DEF Init, MadeInv, PartInv, Nothing
<1>5. HandInv /\ SizeInv /\ PostInv BY DEF Init, HandInv, SizeInv, PostInv, Transferring
<1>6. FinishedIsWhole /\ RetiredIsHeld BY DEF Init, FinishedIsWhole, RetiredIsHeld
<1> QED BY <1>3, <1>4, <1>5, <1>6 DEF IInv

-----------------------------------------------------------------------------
(* The device. *)

\* What the device does to the names, the POST included.
NamesMove ==
  \/ \E n \in Names :
       /\ newest < MaxRecordings /\ newest' = newest + 1
       /\ slot' = [slot EXCEPT ![n] = newest + 1] /\ UNCHANGED trash
  \/ \E n \in Names :
       /\ slot[n] # Nothing /\ UNCHANGED newest
       /\ slot' = [slot EXCEPT ![n] = Nothing]
       /\ trash' = [trash EXCEPT ![n] = slot[n]]
  \/ \E n \in Names :
       /\ UNCHANGED <<newest, slot>>
       /\ trash' = [trash EXCEPT ![n] = Nothing]

\* What a name leads to stays, or is a recording just made, or is nothing.
LEMMA ServedAfter ==
  ASSUME TypeOK, MadeInv, NamesMove
  PROVE  /\ newest' \in 0 .. MaxRecordings /\ newest <= newest'
         /\ slot' \in [Names -> 0 .. MaxRecordings] /\ trash' \in [Names -> 0 .. MaxRecordings]
         /\ \A n \in Names : slot'[n] <= newest' /\ trash'[n] <= newest'
         /\ \A n \in Names : \/ Served(n)' = Served(n) \/ Served(n)' = Nothing
                             \/ Served(n)' = newest + 1 /\ slot'[n] = newest + 1 /\ newest' = newest + 1
<1>1. CASE \E n \in Names :
             /\ newest < MaxRecordings /\ newest' = newest + 1
             /\ slot' = [slot EXCEPT ![n] = newest + 1] /\ UNCHANGED trash
  BY <1>1, CollectAssumption DEF TypeOK, MadeInv, Served, Nothing
<1>2. CASE \E n \in Names :
             /\ slot[n] # Nothing /\ UNCHANGED newest
             /\ slot' = [slot EXCEPT ![n] = Nothing]
             /\ trash' = [trash EXCEPT ![n] = slot[n]]
  <2>1. PICK n \in Names :
          /\ slot[n] # Nothing /\ UNCHANGED newest
          /\ slot' = [slot EXCEPT ![n] = Nothing]
          /\ trash' = [trash EXCEPT ![n] = slot[n]]
    BY <1>2
  <2>2. \A m \in Names : Served(m)' = Served(m) BY <2>1 DEF TypeOK, Served, Nothing
  <2>3. /\ slot' \in [Names -> 0 .. MaxRecordings] /\ trash' \in [Names -> 0 .. MaxRecordings]
        /\ newest' = newest /\ newest \in 0 .. MaxRecordings /\ newest <= newest'
    BY <2>1, CollectAssumption DEF TypeOK, Nothing
  <2>4. \A m \in Names : slot'[m] <= newest' /\ trash'[m] <= newest'
    BY <2>1, CollectAssumption DEF TypeOK, MadeInv, Nothing
  <2> QED BY <2>2, <2>3, <2>4
<1>3. CASE \E n \in Names :
             /\ UNCHANGED <<newest, slot>>
             /\ trash' = [trash EXCEPT ![n] = Nothing]
  BY <1>3, CollectAssumption DEF TypeOK, MadeInv, Served, Nothing
<1> QED BY <1>1, <1>2, <1>3 DEF NamesMove

\* A name never leads back to a recording it has left.
LEMMA GoneStays ==
  ASSUME TypeOK, MadeInv, NamesMove, NEW n \in Names, NEW r \in Recordings, Gone(n, r)
  PROVE  Gone(n, r)'
<1>1. newest \in Nat /\ newest' \in Nat /\ newest <= newest' /\ r \in Nat \ {0}
  BY ServedAfter, CollectAssumption DEF Recordings, TypeOK
<1>2. r <= newest /\ Served(n) # r BY DEF Gone
<1>3. Served(n)' # r
  <2>1. CASE Served(n)' = Served(n) BY <1>2, <2>1
  <2>2. CASE Served(n)' = Nothing BY <1>1, <2>2 DEF Nothing
  <2>3. CASE Served(n)' = newest + 1 BY <1>1, <1>2, <2>3
  <2> QED BY <2>1, <2>2, <2>3, ServedAfter
<1>4. r <= newest' BY <1>1, <1>2
<1> QED BY <1>3, <1>4 DEF Gone

\* Nothing gets ahead of the device by what the device does.
LEMMA MadeStays ==
  ASSUME TypeOK, MadeInv, NamesMove, UNCHANGED <<part, header, source>>
  PROVE  MadeInv'
<1>1. newest \in Nat /\ newest' \in Nat /\ newest <= newest' BY ServedAfter, CollectAssumption
  DEF TypeOK
<1>2. ASSUME NEW k \in Keys, part[k] # <<>> PROVE Head(part[k]) <= newest'
  <2>0. Head(part[k]) \in Recordings BY <1>2, HeadTailProperties DEF TypeOK
  <2>1. Head(part[k]) \in Nat BY <2>0 DEF Recordings
  <2>2. Head(part[k]) <= newest BY <1>2 DEF MadeInv
  <2> QED BY <1>1, <2>1, <2>2
<1>3. header <= newest' /\ source <= newest' BY <1>1, CollectAssumption DEF MadeInv, TypeOK
<1> QED BY <1>2, <1>3, ServedAfter DEF MadeInv

\* The .part files are not touched by the device.
LEMMA PartStays ==
  ASSUME TypeOK, MadeInv, PartInv, NamesMove, UNCHANGED part
  PROVE  PartInv'
<1> SUFFICES ASSUME NEW k \in Keys, part[k] # <<>>, ~One(part[k])
             PROVE  Gone(k[1], Head(part[k]))'
  BY DEF PartInv, One
<1>1. Gone(k[1], Head(part[k])) BY DEF PartInv
<1>2. k[1] \in Names BY DEF Keys, Candidate
<1>3. Head(part[k]) \in Recordings BY HeadTailProperties DEF TypeOK
<1> QED BY <1>1, <1>2, <1>3, GoneStays DEF Gone

\* What others do on the device: everything in the script's hands stays.
LEMMA DeviceStep ==
  ASSUME IInv, NamesMove,
         UNCHANGED <<length, part, file, pc, todo, name, expect, header, dest, tries, source, retired>>,
         late \subseteq late', late' \subseteq Recordings,
         \A n \in Names : slot'[n] = slot[n] \/ slot'[n] = Nothing
                          \/ (slot'[n] \in Recordings
                               /\ (pc # "idle" /\ (todo[n] # 0 \/ (pc = "post" /\ n = name))
                                     => slot'[n] \in late'))
  PROVE  IInv'
<1> USE DEF IInv
<1>1. TypeOK' BY ServedAfter DEF TypeOK
<1>2. MadeInv' BY MadeStays
<1>3. HandInv'
  <2>1. pc = "transfer" /\ Gone(name, Head(part[dest])) /\ part[dest] # <<>>
          => Gone(name, Head(part[dest]))'
    <3>1. part[dest] # <<>> => Head(part[dest]) \in Recordings BY HeadTailProperties DEF TypeOK
    <3> QED BY <3>1, GoneStays DEF TypeOK, Gone
  <2> QED BY <2>1 DEF HandInv, Transferring
<1>4. SizeInv'
  <2> SUFFICES ASSUME NEW n \in Names, todo[n] # 0, Served(n)' # Nothing
               PROVE  Served(n)' \in late' \/ length[Served(n)'] = todo[n]
    BY DEF SizeInv, Transferring
  <2>1. pc # "idle" BY DEF SizeInv
  <2>2. CASE Served(n)' = Served(n) BY <2>2 DEF SizeInv
  <2>3. CASE Served(n)' = newest + 1 /\ slot'[n] = newest + 1
    <3>1. newest + 1 # slot[n] /\ newest + 1 # Nothing
      BY CollectAssumption DEF TypeOK, MadeInv, Nothing
    <3>2. slot'[n] \in late' BY <2>1, <2>3, <3>1
    <3> QED BY <2>3, <3>1, <3>2 DEF Served
  <2> QED BY <2>2, <2>3, ServedAfter
<1>5. PartInv' BY PartStays
<1>6. PostInv' BY DEF PostInv, Whole, TypeOK
<1>7. FinishedIsWhole' BY DEF FinishedIsWhole, Whole
<1>8. RetiredIsHeld' BY DEF RetiredIsHeld, Held, Whole
<1> QED BY <1>1, <1>2, <1>3, <1>4, <1>5, <1>6, <1>7, <1>8

\* A recording is finished, retired by somebody, or purged.
LEMMA OutsideStep == ASSUME IInv, Record \/ RetiredByOthers \/ Purge PROVE IInv'
<1>1. CASE Record
  <2>1. NamesMove BY <1>1 DEF Record, NamesMove
  <2>2. newest + 1 \in Recordings BY <1>1, CollectAssumption
    DEF Record, IInv, TypeOK, Recordings
  <2>3. PICK m \in Names :
          /\ slot' = [slot EXCEPT ![m] = newest + 1]
          /\ late' = IF pc # "idle" /\ (todo[m] # 0 \/ (pc = "post" /\ m = name))
                     THEN late \cup {newest + 1} ELSE late
    BY <1>1 DEF Record
  <2>4. late \subseteq late' /\ late' \subseteq Recordings BY <2>2, <2>3 DEF IInv, TypeOK
  <2>5. \A n \in Names : slot'[n] = slot[n]
                         \/ (slot'[n] \in Recordings
                              /\ (pc # "idle" /\ (todo[n] # 0 \/ (pc = "post" /\ n = name))
                                    => slot'[n] \in late'))
    BY <2>2, <2>3 DEF IInv, TypeOK
  <2> QED BY <1>1, <2>1, <2>4, <2>5, DeviceStep DEF Record
<1>2. CASE RetiredByOthers
  <2>1. NamesMove BY <1>2 DEF RetiredByOthers, NamesMove
  <2>2. \A n \in Names : slot'[n] = slot[n] \/ slot'[n] = Nothing
    BY <1>2 DEF RetiredByOthers, IInv, TypeOK
  <2> QED BY <1>2, <2>1, <2>2, DeviceStep DEF RetiredByOthers, IInv, TypeOK
<1>3. CASE Purge
  <2>1. NamesMove BY <1>3 DEF Purge, NamesMove
  <2> QED BY <1>3, <2>1, DeviceStep DEF Purge, IInv, TypeOK
<1> QED BY <1>1, <1>2, <1>3

-----------------------------------------------------------------------------
(* The laptop. *)

\* The steps that only go on, back or up: the list, failures, the end of a body, a kill.
LEMMA MoveStep ==
  ASSUME IInv,
         UNCHANGED <<device, part, file, name, expect, header, dest, source, retired, late>>,
         todo' \in [Names -> 0 .. MaxLength], tries' \in 0 .. Attempts,
         \A n \in Names : \/ todo'[n] = todo[n] \/ todo'[n] = 0
                          \/ slot[n] # Nothing /\ todo'[n] = length[slot[n]],
         \/ pc' = "idle" /\ \A n \in Names : todo'[n] = 0
         \/ pc' = "next"
         \/ pc' = "attempt" /\ pc \in {"request", "transfer"} /\ tries' >= 1
         \/ pc' = "check" /\ pc = "transfer"
  PROVE  IInv'
<1> USE DEF IInv
<1>1. TypeOK' BY DEF TypeOK, device
<1>2. MadeInv' BY DEF MadeInv, device
<1>3. HandInv' BY DEF HandInv, Transferring, device
<1>4. SizeInv'
  <2>1. UNCHANGED <<slot, trash, length, late, header, expect>> BY DEF device
  <2>2. \A n \in Names : Served(n)' = Served(n) BY <2>1 DEF Served
  <2>3. ASSUME NEW n \in Names, todo'[n] # 0, Served(n) # Nothing
        PROVE  Served(n) \in late \/ length[Served(n)] = todo'[n]
    BY <2>3 DEF SizeInv, Served
  <2>4. (Transferring => header \in late \/ length[header] = expect)' BY <2>1
    DEF SizeInv, Transferring
  <2>5. pc' = "idle" => \A n \in Names : todo'[n] = 0 OBVIOUS
  <2> QED BY <2>1, <2>2, <2>3, <2>4, <2>5 DEF SizeInv
<1>5. PartInv' BY DEF PartInv, One, Gone, Served, device
<1>6. PostInv' BY DEF PostInv
<1>7. FinishedIsWhole' BY DEF FinishedIsWhole, Whole, device
<1>8. RetiredIsHeld' BY DEF RetiredIsHeld, Held, Whole, device
<1> QED BY <1>1, <1>2, <1>3, <1>4, <1>5, <1>6, <1>7, <1>8

\* Each of them is such a step.
LEMMA OnwardStep ==
  ASSUME IInv,
         List \/ TakeFails \/ RequestFails \/ Breaks \/ BodyEnds \/ FinishFails \/ PostFails \/ Killed
  PROVE  IInv'
<1> USE CollectAssumption
<1>1. CASE List
  <2>1. todo' = [n \in Names |-> IF slot[n] = Nothing THEN 0 ELSE length[slot[n]]] BY <1>1
    DEF List
  <2>2. todo' \in [Names -> 0 .. MaxLength]
    BY <2>1 DEF IInv, TypeOK, Recordings, Nothing
  <2> QED BY <1>1, <2>1, <2>2, MoveStep DEF List, GoOn, IInv, TypeOK
<1>2. CASE TakeFails
  <2>1. PICK n \in Names : todo' = [todo EXCEPT ![n] = 0] BY <1>2 DEF TakeFails
  <2>2. todo' \in [Names -> 0 .. MaxLength] BY <2>1 DEF IInv, TypeOK
  <2>3. \A m \in Names : todo'[m] = todo[m] \/ todo'[m] = 0 BY <2>1 DEF IInv, TypeOK
  <2>4. GoOn(todo') BY <1>2 DEF TakeFails
  <2> QED BY <1>2, <2>2, <2>3, <2>4, MoveStep DEF TakeFails, GoOn, IInv, TypeOK
<1>3. CASE RequestFails \/ Breaks
  <2>1. pc \in {"request", "transfer"} /\ AttemptFails BY <1>3 DEF RequestFails, Breaks
  <2>2. tries \in 1 .. Attempts BY <2>1 DEF IInv, HandInv, TypeOK
  <2>3. tries' \in 0 .. Attempts /\ (tries > 1 => tries' >= 1) BY <2>1, <2>2 DEF AttemptFails
  <2> QED BY <2>1, <2>2, <2>3, MoveStep DEF AttemptFails, GoOn, IInv, TypeOK
<1>4. CASE BodyEnds
  <2>1. tries \in 1 .. Attempts BY <1>4 DEF BodyEnds, IInv, HandInv, TypeOK
  <2>2. tries' \in 0 .. Attempts /\ (tries > 1 => tries' >= 1) BY <1>4, <2>1 DEF BodyEnds
  <2> QED BY <1>4, <2>1, <2>2, MoveStep DEF BodyEnds, IInv, TypeOK
<1>5. CASE FinishFails \/ PostFails
  BY <1>5, MoveStep DEF FinishFails, PostFails, GoOn, IInv, TypeOK
<1>6. CASE Killed
  <2>1. \A n \in Names : todo'[n] = 0 BY <1>6 DEF Killed
  <2>2. todo' \in [Names -> 0 .. MaxLength] BY <1>6 DEF Killed
  <2> QED BY <1>6, <2>1, <2>2, MoveStep DEF Killed, IInv, TypeOK
<1> QED BY <1>1, <1>2, <1>3, <1>4, <1>5, <1>6

\* A recording is taken in hand.
LEMMA TakeStep == ASSUME IInv, NEW n \in Names, Take(n) PROVE IInv'
<1> USE DEF IInv
<1>1. Served(n) \in Recordings /\ Served(n) <= newest
  BY ServedMade DEF Take, Nothing, Recordings
<1>2. /\ Destination(n, Served(n), todo[n]) \in Keys
      /\ Destination(n, Served(n), todo[n])[1] = n
      /\ \/ file[Destination(n, Served(n), todo[n])] = <<>>
         \/ Identical(Destination(n, Served(n), todo[n]), Served(n), todo[n])
  BY <1>1, DestinationFits DEF Take
<1>3. /\ name' = n /\ header' = Served(n) /\ expect' = todo[n]
      /\ dest' = Destination(n, Served(n), todo[n])
      /\ todo' = [todo EXCEPT ![n] = 0]
      /\ UNCHANGED <<device, part, file, source, retired, late>>
  BY DEF Take
<1>4. \/ pc' = "idle" /\ \A m \in Names : todo'[m] = 0
      \/ pc' = "next"
      \/ pc' = "attempt" /\ tries' = Attempts /\ file[dest'] = <<>>
  BY <1>2, <1>3 DEF Take, GoOn
<1>5. tries' \in 0 .. Attempts BY CollectAssumption DEF Take, TypeOK
<1>6. TypeOK'
  <2>1. header' \in 0 .. MaxRecordings BY <1>1, <1>3 DEF Recordings
  <2>2. todo' \in [Names -> 0 .. MaxLength] BY <1>3, CollectAssumption DEF TypeOK
  <2>3. expect' \in 0 .. MaxLength BY <1>3 DEF TypeOK
  <2> QED BY <1>2, <1>3, <1>4, <1>5, <2>1, <2>2, <2>3 DEF TypeOK, device
<1>7. MadeInv' BY <1>1, <1>3 DEF MadeInv, device
<1>8. HandInv'
  BY <1>1, <1>2, <1>3, <1>4, CollectAssumption DEF HandInv, Transferring
<1>9. SizeInv'
  <2>1. Served(n) \in late \/ length[Served(n)] = todo[n] BY <1>1
    DEF SizeInv, Take, Nothing, Recordings
  <2>2. \A m \in Names : Served(m)' = Served(m) BY <1>3 DEF Served, device
  <2>3. \A m \in Names : todo'[m] = todo[m] \/ todo'[m] = 0 BY <1>3 DEF TypeOK
  <2>4. (Transferring => header \in late \/ length[header] = expect)' BY <1>3, <2>1 DEF device
  <2>5. \A m \in Names : todo'[m] # 0 /\ Served(m) # Nothing =>
          Served(m) \in late \/ length[Served(m)] = todo'[m]
    BY <2>3 DEF SizeInv
  <2>6. pc' = "idle" => \A m \in Names : todo'[m] = 0 BY <1>4
  <2> QED BY <1>3, <2>2, <2>4, <2>5, <2>6 DEF SizeInv, device
<1>10. PartInv' BY <1>3 DEF PartInv, One, Gone, Served, device
<1>11. PostInv' BY <1>4 DEF PostInv
<1>12. FinishedIsWhole' BY <1>3 DEF FinishedIsWhole, Whole, device
<1>13. RetiredIsHeld' BY <1>3 DEF RetiredIsHeld, Held, Whole, device
<1> QED BY <1>6, <1>7, <1>8, <1>9, <1>10, <1>11, <1>12, <1>13

\* A .part stays, or is emptied.
LEMMA PartEmptied ==
  ASSUME TypeOK, part' = part \/ part' = [part EXCEPT ![dest] = <<>>]
  PROVE  /\ DOMAIN part' = Keys
         /\ \A k \in Keys : part'[k] \in Seq(Recordings) /\ (part'[k] = part[k] \/ part'[k] = <<>>)
<1>1. <<>> \in Seq(Recordings) OBVIOUS
<1> QED BY <1>1 DEF TypeOK

\* An attempt begins: what is left in the .part is of this recording, or nothing.
LEMMA AttemptStep == ASSUME IInv, Attempt PROVE IInv'
<1> USE DEF IInv
<1>1. /\ part' = part \/ part' = [part EXCEPT ![dest] = <<>>]
      /\ part'[dest] = <<>> \/ Head(part'[dest]) = header
      /\ pc' \in {"check", "request"} /\ pc = "attempt"
      /\ UNCHANGED <<device, file, todo, name, expect, header, dest, tries, source, retired, late>>
  BY DEF Attempt, Usable, HasHeader, TypeOK
<1>2. TypeOK' BY <1>1, PartEmptied DEF TypeOK, device
<1>3. \A k \in Keys : part'[k] = part[k] \/ part'[k] = <<>> BY <1>1, PartEmptied
<1>4. MadeInv' BY <1>1, <1>3 DEF MadeInv, device
<1>5. HandInv' BY <1>1 DEF HandInv, Transferring
<1>6. SizeInv' BY <1>1 DEF SizeInv, Transferring, Served, device
<1>7. PartInv' BY <1>1, <1>3 DEF PartInv, One, Gone, Served, device
<1>8. PostInv' BY <1>1 DEF PostInv
<1>9. FinishedIsWhole' BY <1>1 DEF FinishedIsWhole, Whole, device
<1>10. RetiredIsHeld' BY <1>1 DEF RetiredIsHeld, Held, Whole, device
<1> QED BY <1>2, <1>4, <1>5, <1>6, <1>7, <1>8, <1>9, <1>10

\* The connection is open: to the recording the .part is of, or that one is not to be had.
LEMMA RequestStep == ASSUME IInv, RequestOk PROVE IInv'
<1> USE DEF IInv
<1>1. /\ part' = part \/ part' = [part EXCEPT ![dest] = <<>>]
      /\ source' = Served(name) /\ Served(name) # Nothing
      /\ pc' = "transfer" /\ pc = "request"
      /\ UNCHANGED <<device, file, todo, name, expect, header, dest, tries, retired, late>>
  BY DEF RequestOk
<1>2. source' \in Recordings /\ source' <= newest /\ source' \in 0 .. MaxRecordings
  BY <1>1, ServedMade DEF TypeOK, Nothing, Recordings
<1>3. TypeOK' BY <1>1, <1>2, PartEmptied DEF TypeOK, device
<1>4. \A k \in Keys : part'[k] = part[k] \/ part'[k] = <<>> BY <1>1, PartEmptied
<1>5. MadeInv' BY <1>1, <1>2, <1>4 DEF MadeInv, device
<1>6. HandInv'
  <2>1. part'[dest] = <<>> \/ Head(part'[dest]) = header BY <1>1 DEF HandInv, TypeOK
  <2>2. header # Served(name) => Gone(name, header) BY DEF Gone, MadeInv
  <2>3. Gone(name, header)' <=> Gone(name, header) BY <1>1 DEF Gone, Served, device
  <2>4. part'[dest] = <<>> \/ Head(part'[dest]) = source' \/ Gone(name, Head(part[dest]))'
    <3>1. CASE part'[dest] = <<>> BY <3>1
    <3>2. CASE Head(part'[dest]) = header /\ header = Served(name) BY <1>1, <3>2
    <3>3. CASE Head(part'[dest]) = header /\ header # Served(name)
      <4>1. Gone(name, header)' BY <2>2, <2>3, <3>3
      <4> QED BY <1>1, <3>3, <4>1 DEF Gone
    <3> QED BY <2>1, <3>1, <3>2, <3>3
  <2>5. dest[1] = name /\ header \in Recordings /\ file[dest] = <<>> /\ tries >= 1
    BY <1>1 DEF HandInv, Transferring
  <2> QED BY <1>1, <1>2, <2>4, <2>5 DEF HandInv, Transferring
<1>7. SizeInv' BY <1>1 DEF SizeInv, Transferring, Served, device
<1>8. PartInv' BY <1>1, <1>4 DEF PartInv, One, Gone, Served, device
<1>9. PostInv' BY <1>1 DEF PostInv
<1>10. FinishedIsWhole' BY <1>1 DEF FinishedIsWhole, Whole, device
<1>11. RetiredIsHeld' BY <1>1 DEF RetiredIsHeld, Held, Whole, device
<1> QED BY <1>3, <1>5, <1>6, <1>7, <1>8, <1>9, <1>10, <1>11

\* A chunk arrives behind those of the same recording, or the .part is lost anyway.
LEMMA ChunkStep == ASSUME IInv, Chunk PROVE IInv'
<1> USE DEF IInv
<1>1. /\ part' = [part EXCEPT ![dest] = Append(part[dest], source)]
      /\ pc = "transfer"
      /\ UNCHANGED <<device, file, pc, todo, name, expect, header, dest, tries, source, retired, late>>
  BY DEF Chunk
<1>2. /\ source \in Recordings /\ source <= newest
      /\ part[dest] \in Seq(Recordings) /\ dest \in Keys /\ dest[1] = name
      /\ part[dest] = <<>> \/ Head(part[dest]) = source \/ Gone(name, Head(part[dest]))
  BY <1>1 DEF HandInv, MadeInv, TypeOK, Transferring
<1>3. /\ part'[dest] \in Seq(Recordings) /\ part'[dest] # <<>>
      /\ Len(part'[dest]) = Len(part[dest]) + 1 /\ Len(part[dest]) \in Nat
      /\ \A i \in 1 .. Len(part[dest]) : part'[dest][i] = part[dest][i]
      /\ part'[dest][Len(part[dest]) + 1] = source
      /\ Head(part'[dest]) = IF part[dest] = <<>> THEN source ELSE Head(part[dest])
  <2>1. part'[dest] = Append(part[dest], source) BY <1>1, <1>2 DEF TypeOK
  <2>2. Len(part[dest]) \in Nat BY <1>2, LenProperties
  <2>3. /\ Append(part[dest], source) \in Seq(Recordings) /\ Append(part[dest], source) # <<>>
        /\ Len(Append(part[dest], source)) = Len(part[dest]) + 1
        /\ \A i \in 1 .. Len(part[dest]) : Append(part[dest], source)[i] = part[dest][i]
        /\ Append(part[dest], source)[Len(part[dest]) + 1] = source
    BY <1>2, AppendProperties
  <2>4. Head(Append(part[dest], source)) = IF part[dest] = <<>> THEN source ELSE Head(part[dest])
    BY <1>2, HeadTailAppend
  <2> QED BY <2>1, <2>2, <2>3, <2>4
<1>4. \A k \in Keys : k # dest => part'[k] = part[k] BY <1>1 DEF TypeOK
<1>5. TypeOK' BY <1>1, <1>3, <1>4 DEF TypeOK, device
<1>6. MadeInv' BY <1>1, <1>2, <1>3, <1>4 DEF MadeInv, device
<1>7. HandInv'
  <2>1. Head(part'[dest]) = source \/ Gone(name, Head(part'[dest])) BY <1>2, <1>3
  <2>2. Gone(name, Head(part'[dest])) => Gone(name, Head(part[dest]))' BY <1>1
    DEF Gone, Served, device
  <2> QED BY <1>1, <2>1, <2>2 DEF HandInv, Transferring
<1>8. SizeInv' BY <1>1 DEF SizeInv, Transferring, Served, device
<1>9. PartInv'
  <2>1. ASSUME NEW k \in Keys, k # dest, part'[k] # <<>>
        PROVE  One(part'[k]) \/ Gone(k[1], Head(part'[k]))
    BY <1>4, <2>1 DEF PartInv
  <2>2. One(part'[dest]) \/ Gone(name, Head(part'[dest]))
    <3>1. CASE part[dest] = <<>> BY <1>3, <3>1 DEF One
    <3>2. CASE part[dest] # <<>> /\ Gone(name, Head(part[dest])) BY <1>3, <3>2
    <3>3. CASE part[dest] # <<>> /\ Head(part[dest]) = source /\ ~Gone(name, Head(part[dest]))
      <4>1. One(part[dest]) BY <1>2, <3>3 DEF PartInv
      <4>2. \A i \in 1 .. Len(part'[dest]) : i \in 1 .. Len(part[dest]) \/ i = Len(part[dest]) + 1
        BY <1>3
      <4> QED BY <1>3, <3>3, <4>1, <4>2 DEF One
    <3> QED BY <1>2, <3>1, <3>2, <3>3
  <2>3. \A k \in Keys : Gone(k[1], Head(part'[k])) => Gone(k[1], Head(part[k]))'
    BY <1>1 DEF Gone, Served, device
  <2>4. \A k \in Keys : One(part'[k]) <=> One(part[k])' BY DEF One
  <2> QED BY <1>2, <2>1, <2>2, <2>3, <2>4 DEF PartInv
<1>10. PostInv' BY <1>1 DEF PostInv
<1>11. FinishedIsWhole' BY <1>1 DEF FinishedIsWhole, Whole, device
<1>12. RetiredIsHeld' BY <1>1 DEF RetiredIsHeld, Held, Whole, device
<1> QED BY <1>5, <1>6, <1>7, <1>8, <1>9, <1>10, <1>11, <1>12

\* A .part becomes a file: it is of one recording, and as long.
LEMMA FinishStep == ASSUME IInv, Finish PROVE IInv'
<1> USE DEF IInv
<1>1. /\ file' = [file EXCEPT ![dest] = part[dest]]
      /\ part' = [part EXCEPT ![dest] = <<>>]
      /\ pc' = "post" /\ pc = "check"
      /\ UNCHANGED <<device, todo, name, expect, header, dest, tries, source, retired, late>>
  BY DEF Finish
<1>2. /\ dest \in Keys /\ dest[1] = name /\ header \in Recordings /\ file[dest] = <<>>
      /\ part[dest] \in Seq(Recordings) /\ part[dest] # <<>> /\ Head(part[dest]) = header
      /\ Served(name) = header /\ Len(part[dest]) = expect
  BY <1>1 DEF Finish, Verified, HasHeader, HandInv, Transferring, TypeOK
<1>3. One(part[dest]) BY <1>2 DEF PartInv, Gone
<1>4. header \in late \/ part[dest] = Whole(header)
  BY <1>1, <1>2, <1>3, OneIsWhole DEF SizeInv, Transferring
<1>5. \A k \in Keys : k # dest => part'[k] = part[k] /\ file'[k] = file[k] BY <1>1 DEF TypeOK
<1>6. part'[dest] = <<>> /\ file'[dest] = part[dest] BY <1>1, <1>2 DEF TypeOK
<1>7. TypeOK' BY <1>1, <1>2, <1>5, <1>6 DEF TypeOK, device
<1>8. MadeInv' BY <1>1, <1>5, <1>6 DEF MadeInv, device
<1>9. HandInv' BY <1>1, <1>2 DEF HandInv, Transferring
<1>10. SizeInv' BY <1>1 DEF SizeInv, Transferring, Served, device
<1>11. PartInv' BY <1>1, <1>5, <1>6 DEF PartInv, One, Gone, Served, device
<1>12. PostInv'
  <2>1. slot[name] \in {Nothing, header} BY <1>2 DEF Served
  <2> QED BY <1>1, <1>4, <1>6, <2>1 DEF PostInv, Whole, device
<1>13. FinishedIsWhole'
  <2>2. ASSUME NEW k \in Keys, file'[k] # <<>>
        PROVE  Head(file'[k]) \in late \/ file'[k] = Whole(Head(file'[k]))
    <3>1. CASE k = dest BY <1>2, <1>4, <1>6, <3>1
    <3>2. CASE k # dest BY <1>5, <2>2, <3>2 DEF FinishedIsWhole
    <3> QED BY <3>1, <3>2
  <2>3. \A k \in Keys : Whole(Head(file'[k])) = Whole(Head(file[k]))' BY <1>1 DEF Whole, device
  <2> QED BY <1>1, <2>2, <2>3 DEF FinishedIsWhole
<1>14. RetiredIsHeld'
  <2> SUFFICES ASSUME NEW r \in retired \ late PROVE \E k \in Keys : file'[k] = Whole(r)
    BY <1>1 DEF RetiredIsHeld, Held, Whole, device
  <2>1. PICK k \in Keys : file[k] = Whole(r) BY DEF RetiredIsHeld, Held
  <2>2. Whole(r) # <<>> BY WholeShape DEF TypeOK
  <2> QED BY <1>2, <1>5, <2>1, <2>2
<1> QED BY <1>7, <1>8, <1>9, <1>10, <1>11, <1>12, <1>13, <1>14

\* The recording that has the name is the one that is held, or came late.
LEMMA PostStep == ASSUME IInv, Post PROVE IInv'
<1> USE DEF IInv
<1>1. /\ pc = "post" /\ slot[name] # Nothing /\ name \in Names
      /\ slot' = [slot EXCEPT ![name] = Nothing]
      /\ trash' = [trash EXCEPT ![name] = slot[name]]
      /\ retired' = retired \cup {slot[name]}
      /\ (pc' = "idle" /\ \A n \in Names : todo[n] = 0) \/ pc' = "next"
      /\ UNCHANGED <<length, newest, part, file, todo, name, expect, header, dest, tries, source, late>>
  BY DEF Post, GoOn, TypeOK
<1>2. NamesMove BY <1>1 DEF NamesMove
<1>3. slot[name] \in Recordings BY <1>1 DEF TypeOK, Recordings, Nothing
<1>4. TypeOK' BY <1>1, <1>2, <1>3, ServedAfter DEF TypeOK
<1>5. MadeInv' BY <1>1, <1>2, MadeStays
<1>6. HandInv' BY <1>1 DEF HandInv, Transferring
<1>7. SizeInv'
  <2>1. \A n \in Names : Served(n)' = Served(n) BY <1>1 DEF Served, TypeOK, Nothing
  <2> QED BY <1>1, <2>1 DEF SizeInv, Transferring
<1>8. PartInv' BY <1>1, <1>2, PartStays
<1>9. PostInv' BY <1>1 DEF PostInv
<1>10. FinishedIsWhole' BY <1>1 DEF FinishedIsWhole, Whole
<1>11. RetiredIsHeld'
  <2>1. slot[name] \in late \/ file[dest] = Whole(slot[name]) BY <1>1 DEF PostInv
  <2> QED BY <1>1, <2>1 DEF RetiredIsHeld, Held, Whole, TypeOK
<1> QED BY <1>4, <1>5, <1>6, <1>7, <1>8, <1>9, <1>10, <1>11

-----------------------------------------------------------------------------
\* Every step of the script, of the device and of other people keeps the invariant.
THEOREM StepInv == IInv /\ [Next]_vars => IInv'
<1> SUFFICES ASSUME IInv, [Next]_vars PROVE IInv' OBVIOUS
<1>1. CASE UNCHANGED vars
  <2>1. /\ UNCHANGED <<device, part, file, pc, todo, name, expect, header, dest, tries, source>>
        /\ UNCHANGED <<retired, late>>
    BY <1>1 DEF vars, device
  <2>2. TypeOK' /\ MadeInv' /\ HandInv'
    BY <2>1 DEF IInv, TypeOK, MadeInv, HandInv, Transferring, Gone, Served, device
  <2>3. SizeInv' /\ PostInv' BY <2>1
    DEF IInv, SizeInv, PostInv, Transferring, Served, Whole, device
  <2>4. PartInv' BY <2>1 DEF IInv, PartInv, One, Gone, Served, device
  <2>5. FinishedIsWhole' /\ RetiredIsHeld'
    BY <2>1 DEF IInv, FinishedIsWhole, RetiredIsHeld, Held, Whole, device
  <2> QED BY <2>2, <2>3, <2>4, <2>5 DEF IInv
<1>2. CASE Record \/ RetiredByOthers \/ Purge BY <1>2, OutsideStep
<1>3. CASE Script
  <2>1. CASE \E n \in Names : Take(n) BY <2>1, TakeStep
  <2>2. CASE ~\E n \in Names : Take(n)
    BY <1>3, <2>2, OnwardStep, AttemptStep, RequestStep, ChunkStep, FinishStep, PostStep
      DEF Script
  <2> QED BY <2>1, <2>2
<1>4. CASE Killed BY <1>4, OnwardStep
<1> QED BY <1>1, <1>2, <1>3, <1>4 DEF Next

\* The invariant always holds.
THEOREM Invariance == Spec => []IInv
BY InitInv, StepInv, PTL DEF Spec

\* The variables have their types (TypeOK).
THEOREM TypeCorrect == Spec => []TypeOK
<1>1. IInv => TypeOK BY DEF IInv
<1> QED BY <1>1, Invariance, PTL

\* A finished file is one recording from end to end, whatever was interrupted and whatever
\* the .part held before (download, _verify), unless its name changed hands meanwhile.
THEOREM FinishedIsAlwaysWhole == Spec => []FinishedIsWhole
<1>1. IInv => FinishedIsWhole BY DEF IInv
<1> QED BY <1>1, Invariance, PTL

\* What the script retires is whole on the laptop, unless its name changed hands after the
\* last look at it (collect_one).
THEOREM RetiredIsAlwaysHeld == Spec => []RetiredIsHeld
<1>1. IInv => RetiredIsHeld BY DEF IInv
<1> QED BY <1>1, Invariance, PTL

-----------------------------------------------------------------------------
(***************************************************************************)
(* The search for a name.  A name with a tag is only ever given to a file  *)
(* of the recording whose header the tag was made from.                    *)
(***************************************************************************)
InHand == Transferring \/ pc = "post"

LabelInv ==
  /\ \A k \in Keys : k[2] # <<>> /\ file[k] # <<>> => Head(file[k]) = k[2][1]
  /\ InHand /\ dest[2] # <<>> => header = dest[2][1]

\* What takes no recording in hand and finishes none leaves the labels alone.
LEMMA LabelStays ==
  ASSUME LabelInv, UNCHANGED <<file, dest, header>>, InHand' => InHand
  PROVE  LabelInv'
BY DEF LabelInv

LEMMA LabelTake == ASSUME IInv, LabelInv, NEW n \in Names, Take(n) PROVE LabelInv'
<1> DEFINE c == CHOOSE i \in 0 .. Copies : First(n, Served(n), todo[n], i)
<1>1. dest' = Candidate(n, header', c) BY DEF Take, Destination
<1>2. dest'[2] # <<>> => header' = dest'[2][1] BY <1>1 DEF Candidate
<1>3. UNCHANGED file BY DEF Take
<1> QED BY <1>2, <1>3 DEF LabelInv

LEMMA LabelFinish == ASSUME IInv, LabelInv, Finish PROVE LabelInv'
<1>1. DOMAIN file = Keys /\ dest \in Keys /\ InHand BY DEF IInv, TypeOK, Finish, InHand, Transferring
<1>2. part[dest] # <<>> /\ Head(part[dest]) = header BY DEF Finish, Verified, HasHeader
<1>3. UNCHANGED <<dest, header>> /\ file' = [file EXCEPT ![dest] = part[dest]] BY DEF Finish
<1>4. ASSUME NEW k \in Keys, k[2] # <<>>, file'[k] # <<>> PROVE Head(file'[k]) = k[2][1]
  <2>1. CASE k = dest
    <3>1. file'[k] = part[dest] BY <1>1, <1>3, <2>1
    <3> QED BY <1>1, <1>2, <1>4, <2>1, <3>1 DEF LabelInv
  <2>2. CASE k # dest
    <3>1. file'[k] = file[k] BY <1>1, <1>3, <2>2
    <3> QED BY <1>4, <3>1 DEF LabelInv
  <2> QED BY <2>1, <2>2
<1> QED BY <1>1, <1>3, <1>4 DEF LabelInv

LEMMA LabelStep == IInv /\ LabelInv /\ [Next]_vars => LabelInv'
<1> SUFFICES ASSUME IInv, LabelInv, [Next]_vars PROVE LabelInv' OBVIOUS
<1> USE DEF InHand, Transferring
<1>1. CASE UNCHANGED vars BY <1>1, LabelStays DEF vars
<1>2. CASE Record \/ RetiredByOthers \/ Purge
  BY <1>2, LabelStays DEF Record, RetiredByOthers, Purge
<1>3. CASE \E n \in Names : Take(n) BY <1>3, LabelTake
<1>4. CASE Finish BY <1>4, LabelFinish
<1>5. CASE List \/ TakeFails \/ FinishFails \/ Post \/ PostFails \/ Killed
  <2>1. ~InHand' BY <1>5 DEF List, TakeFails, FinishFails, Post, PostFails, Killed, GoOn
  <2>2. UNCHANGED <<file, dest, header>>
    BY <1>5 DEF List, TakeFails, FinishFails, Post, PostFails, Killed
  <2> QED BY <2>1, <2>2, LabelStays
<1>6. CASE Attempt \/ RequestOk \/ RequestFails \/ Chunk \/ Breaks \/ BodyEnds
  <2>1. InHand
    BY <1>6 DEF Attempt, RequestOk, RequestFails, Chunk, Breaks, BodyEnds
  <2>2. UNCHANGED <<file, dest, header>>
    BY <1>6 DEF Attempt, RequestOk, RequestFails, Chunk, Breaks, BodyEnds, AttemptFails
  <2> QED BY <2>1, <2>2, LabelStays
<1> QED BY <1>1, <1>2, <1>3, <1>4, <1>5, <1>6 DEF Next, Script

\* A recording whose name has not changed hands finds a place under one of two names.
LEMMA PlaceThere ==
  ASSUME Copies >= 1, IInv, LabelInv,
         NEW n \in Names, todo[n] # 0, Served(n) \notin late \cup {Nothing}
  PROVE  \E i \in 0 .. 1 : Fits(n, Served(n), todo[n], i)
<1> DEFINE r == Served(n)
           k == Candidate(n, r, 1)
<1>1. r \in Recordings BY ServedMade DEF IInv, Nothing, Recordings
<1>2. length[r] = todo[n] BY DEF IInv, SizeInv
<1>3. k \in Keys
  <2>1. r \in 0 .. MaxRecordings /\ r # 0 /\ 1 \in 0 .. Copies
    BY <1>1, CollectAssumption DEF Recordings
  <2> QED BY <2>1, KeyName
<1>4. k[2] # <<>> /\ k[2][1] = r BY DEF Candidate
<1>5. CASE file[k] = <<>> BY <1>5 DEF Fits
<1>6. CASE file[k] # <<>>
  <2>1. Head(file[k]) = r BY <1>3, <1>4, <1>6 DEF LabelInv
  <2>2. file[k] = Whole(r) BY <1>3, <1>6, <2>1 DEF IInv, FinishedIsWhole
  <2>3. Len(file[k]) = todo[n] BY <1>1, <1>2, <2>2, WholeShape DEF IInv
  <2>4. Fits(n, r, todo[n], 1) BY <1>6, <2>1, <2>3 DEF Fits, Identical, HasHeader
  <2> QED BY <2>4
<1> QED BY <1>5, <1>6

\* However often the script was run and broke off, and whatever other recordings have had the
\* name, the search for a place ends at the second name (_destination); so Copies, which
\* bounds it, leaves nothing out for a recording whose name has not changed hands.
THEOREM PlaceIsAlwaysFound == ASSUME Copies >= 1 PROVE Spec => []PlaceIsFound
<1>1. Init => LabelInv BY DEF Init, LabelInv, InHand, Transferring
<1>2. IInv /\ LabelInv => PlaceIsFound BY PlaceThere DEF PlaceIsFound
<1> QED BY <1>1, <1>2, LabelStep, Invariance, PTL DEF Spec

=============================================================================
