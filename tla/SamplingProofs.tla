--------------------------- MODULE SamplingProofs ---------------------------
(***************************************************************************)
(* Proofs about Sampling: for any size of a block, any window, any demand  *)
(* on its readings and any back-off.                                       *)
(***************************************************************************)
EXTENDS Sampling, FiniteSetTheorems, TLAPS

\* A block is full exactly when it is about to be written.
FillInv ==
  /\ pc = "flush" => state = "recording" /\ open /\ pending = BlockSize
  /\ pc # "flush" => pending < BlockSize

\* What happened to this recording is marked, and nothing else but what it inherited.
MarkInv == own \subseteq flags /\ flags \subseteq own \cup inherited

(***************************************************************************)
(* A recording judged "not stable" whose mark has been cleared with a      *)
(* block is judged anew before its next block is full: more readings have  *)
(* been taken since the verdict than since the block.                      *)
(***************************************************************************)
Unmarked == rough /\ state = "recording" /\ open /\ flags \cap {"UNSTABLE", "READ_FAILED"} = {}

RoughInv ==
  /\ Unmarked /\ pc \in {"tick", "read"} => since > pending
  /\ Unmarked /\ pc \in {"flush", "judge"} => since >= pending

\* The still readings of the window that are younger than every other one in it.
Young == {r \in window : r[2] /\ \A q \in window : ~q[2] => r[1] < q[1]}

CalmInv == calm = MinSamples \/ Cardinality(Young) <= calm

IInv == TypeOK /\ FillInv /\ MarkInv /\ RoughInv /\ CalmInv

-----------------------------------------------------------------------------
\* The window holds finitely many readings, so they can be counted.
LEMMA WindowFinite == ASSUME TypeOK PROVE IsFiniteSet(window) /\ IsFiniteSet(Young)
<1>1. IsFiniteSet(0..Window) BY FS_Interval, SamplingAssumption
<1>2. IsFiniteSet(BOOLEAN)
  <2>1. IsFiniteSet({} \cup {TRUE}) BY FS_EmptySet, FS_AddElement, Zenon
  <2>2. IsFiniteSet(({} \cup {TRUE}) \cup {FALSE}) BY <2>1, FS_AddElement, Zenon
  <2>3. BOOLEAN = ({} \cup {TRUE}) \cup {FALSE} OBVIOUS
  <2> QED BY <2>2, <2>3, Zenon
<1>3. IsFiniteSet((0..Window) \X BOOLEAN) BY <1>1, <1>2, FS_Product
<1>4. IsFiniteSet(window) BY <1>3, FS_Subset DEF TypeOK
<1>5. Young \subseteq window BY DEF Young
<1> QED BY <1>4, <1>5, FS_Subset

(***************************************************************************)
(* A reading added to the window leaves the others in their order, and     *)
(* drops the oldest first.                                                 *)
(***************************************************************************)
LEMMA AddTyped ==
  ASSUME TypeOK, NEW still \in BOOLEAN, NEW t \in Nat
  PROVE  Add(still, t) \subseteq (0..Window) \X BOOLEAN
BY SamplingAssumption DEF TypeOK, Add

LEMMA YoungAfterMoving ==
  ASSUME TypeOK, NEW t \in Nat, window' = Add(FALSE, t)
  PROVE  Young' = {}
<1>1. <<0, FALSE>> \in window' BY DEF Add
<1>2. window' \subseteq (0..Window) \X BOOLEAN BY AddTyped
<1>3. ASSUME NEW y \in Young' PROVE FALSE
  <2>1. y \in window' /\ (\A q \in window' : ~q[2] => y[1] < q[1]) BY DEF Young
  <2>2. y[1] < 0 BY <1>1, <2>1
  <2>3. y[1] \in 0..Window BY <1>2, <2>1
  <2> QED BY <2>2, <2>3, SamplingAssumption
<1> QED BY <1>3

\* A still reading is young, and adds one.
LEMMA YoungAfterStill ==
  ASSUME TypeOK, NEW t \in Nat, window' = Add(TRUE, t)
  PROVE  /\ Cardinality(Young') <= Cardinality(Young) + 1
         /\ Cardinality(Young) \in Nat /\ Cardinality(Young') \in Nat
<1> DEFINE older == {<<r[1] + t, r[2]>> : r \in Young}
<1>1. Young' \subseteq older \cup {<<0, TRUE>>}
  <2> SUFFICES ASSUME NEW y \in Young', y # <<0, TRUE>> PROVE y \in older OBVIOUS
  <2>1. y \in window' /\ y[2] BY DEF Young
  <2>2. PICK r \in window : y = <<r[1] + t, r[2]>> /\ r[1] + t <= Window
    <3>1. y \in {<<q[1] + t, q[2]>> : q \in window} /\ y[1] <= Window BY <2>1 DEF Add
    <3>2. PICK r \in window : y = <<r[1] + t, r[2]>> BY <3>1
    <3> QED BY <3>1, <3>2
  <2>3. r[2] BY <2>1, <2>2
  <2>4. ASSUME NEW q \in window, ~q[2] PROVE r[1] < q[1]
    <3>1. r[1] \in 0..Window /\ q[1] \in 0..Window BY DEF TypeOK
    <3>2. CASE q[1] + t > Window BY <2>2, <3>1, <3>2, SamplingAssumption
    <3>3. CASE q[1] + t <= Window
      <4>1. <<q[1] + t, q[2]>> \in window' BY <3>3 DEF Add
      <4>2. r[1] + t < q[1] + t BY <2>2, <2>4, <4>1 DEF Young
      <4> QED BY <3>1, <4>2, SamplingAssumption
    <3> QED BY <3>1, <3>2, <3>3, SamplingAssumption
  <2>5. r \in Young BY <2>3, <2>4 DEF Young
  <2> QED BY <2>2, <2>5
<1>2. IsFiniteSet(Young) BY WindowFinite
<1>3. IsFiniteSet(older) /\ Cardinality(older) <= Cardinality(Young)
  <2> DEFINE aged == [r \in Young |-> <<r[1] + t, r[2]>>]
  <2>1. aged \in [Young -> older] OBVIOUS
  <2>2. \A a \in older : \E r \in Young : aged[r] = a OBVIOUS
  <2>3. aged \in Surjection(Young, older) BY <2>1, <2>2 DEF Surjection
  <2> HIDE DEF aged, older
  <2> QED BY <1>2, <2>3, FS_Surjection
<1>4. /\ IsFiniteSet(older \cup {<<0, TRUE>>})
      /\ Cardinality(older \cup {<<0, TRUE>>}) <= Cardinality(older) + 1
  <2> HIDE DEF older
  <2>1. IsFiniteSet(older \cup {<<0, TRUE>>}) BY <1>3, FS_AddElement, Zenon
  <2>2. Cardinality(older \cup {<<0, TRUE>>}) =
          IF <<0, TRUE>> \in older THEN Cardinality(older) ELSE Cardinality(older) + 1
    BY <1>3, FS_AddElement, Zenon
  <2>3. Cardinality(older) \in Nat BY <1>3, FS_CardinalityType, Zenon
  <2> QED BY <2>1, <2>2, <2>3
<1> HIDE DEF older
<1>5. IsFiniteSet(Young') /\ Cardinality(Young') <= Cardinality(older \cup {<<0, TRUE>>})
  BY <1>1, <1>4, FS_Subset, Zenon
<1>6. /\ Cardinality(Young') \in Nat /\ Cardinality(Young) \in Nat
      /\ Cardinality(older) \in Nat /\ Cardinality(older \cup {<<0, TRUE>>}) \in Nat
  BY <1>2, <1>3, <1>4, <1>5, FS_CardinalityType, Zenon
<1> QED BY <1>3, <1>4, <1>5, <1>6

\* The young readings depend on the window alone.
LEMMA YoungStays == ASSUME UNCHANGED window PROVE Young' = Young
BY DEF Young

\* An empty window has no young readings.
LEMMA YoungEmptied == ASSUME window' = {} PROVE Young' = {}
BY DEF Young

-----------------------------------------------------------------------------
\* A process that starts satisfies the invariant.
THEOREM InitInv == Init => IInv
<1> SUFFICES ASSUME Init PROVE IInv OBVIOUS
<1>1. TypeOK
  <2>1. open \in BOOLEAN BY Zenon DEF Init
  <2>2. /\ 0 \in 0..BackoffMax /\ BackoffMin \in BackoffMin..BackoffMax
        /\ 0 \in 0..BlockSize - 1 /\ 0 \in 0..BlockSize /\ 0 \in 0..MinSamples
    BY SamplingAssumption
  <2> QED BY <2>1, <2>2, Zenon DEF Init, TypeOK
<1>2. Young = {} BY DEF Init, Young
<1>3. CalmInv BY <1>2, FS_EmptySet DEF CalmInv, Init
<1>4. FillInv /\ MarkInv /\ RoughInv
  BY SamplingAssumption DEF Init, FillInv, MarkInv, RoughInv, Unmarked
<1> QED BY <1>1, <1>3, <1>4 DEF IInv

(***************************************************************************)
(* The steps that leave window and verdict alone.                          *)
(***************************************************************************)
LEMMA WaitStep ==
  ASSUME IInv, Leave \/ LinkUp \/ ConnectOk, UNCHANGED stopOnUnstable
  PROVE  IInv'
<1>1. CalmInv'
  <2>1. UNCHANGED <<window, calm>> BY DEF Leave, LinkUp, ConnectOk, judging
  <2> QED BY <2>1, YoungStays DEF CalmInv, IInv
<1>2. CASE Leave
  <2>1. TypeOK'
    <3>1. flags' \subseteq Flags /\ own' \subseteq Flags /\ inherited' \subseteq Flags
      BY <1>2 DEF IInv, TypeOK, Flags, Leave, Close, sensor, judging, block
    <3>2. window' \subseteq (0..Window) \X BOOLEAN /\ calm' \in 0..MinSamples
      BY <1>2, SamplingAssumption DEF IInv, TypeOK, Leave, Close, sensor, judging, block
    <3>3. /\ wait' \in 0..BackoffMax /\ backoff' \in BackoffMin..BackoffMax
          /\ since' \in 0..BlockSize - 1 /\ pending' \in 0..BlockSize
      BY <1>2, SamplingAssumption DEF IInv, TypeOK, Leave, Close, sensor, judging, block
    <3>4. /\ stopOnUnstable' \in BOOLEAN /\ open' \in BOOLEAN /\ rough' \in BOOLEAN
          /\ link' \in BOOLEAN /\ fresh' \in BOOLEAN /\ angles' \in BOOLEAN
      BY <1>2 DEF IInv, TypeOK, Leave, Close, sensor, judging, block
    <3>5. /\ state' \in {"hold", "waiting_stable", "recording", "idle"}
          /\ pc' \in {"tick", "read", "flush", "judge"}
      BY <1>2 DEF IInv, TypeOK, Leave, Close, sensor, judging, block
    <3> QED BY <3>1, <3>2, <3>3, <3>4, <3>5, Zenon DEF TypeOK
  <2>2. FillInv' BY <1>2, SamplingAssumption
    DEF IInv, TypeOK, FillInv, Leave, Close, sensor, judging, block
  <2>3. MarkInv' BY <1>2 DEF IInv, MarkInv, Leave, Close, sensor, judging, block
  <2>4. RoughInv' BY <1>2, SamplingAssumption
    DEF IInv, TypeOK, FillInv, RoughInv, Unmarked, Leave, Close, sensor, judging, block
  <2> QED BY <1>1, <2>1, <2>2, <2>3, <2>4 DEF IInv
<1>3. CASE LinkUp
  BY <1>1, <1>3, SamplingAssumption
    DEF IInv, TypeOK, FillInv, MarkInv, RoughInv, Unmarked, Flags, LinkUp, Polling, sensor,
        judging, block
<1>4. CASE ConnectOk
  <2>1. TypeOK'
    <3>1. flags' \subseteq Flags /\ own' \subseteq Flags /\ inherited' \subseteq Flags
      BY <1>4 DEF IInv, TypeOK, Flags, ConnectOk, Polling, Found, judging, block
    <3>2. window' \subseteq (0..Window) \X BOOLEAN /\ calm' \in 0..MinSamples
      BY <1>4, SamplingAssumption DEF IInv, TypeOK, ConnectOk, Polling, Found, judging, block
    <3>3. /\ wait' \in 0..BackoffMax /\ backoff' \in BackoffMin..BackoffMax
          /\ since' \in 0..BlockSize - 1 /\ pending' \in 0..BlockSize
      BY <1>4, SamplingAssumption DEF IInv, TypeOK, ConnectOk, Polling, Found, judging, block
    <3>4. /\ stopOnUnstable' \in BOOLEAN /\ open' \in BOOLEAN /\ rough' \in BOOLEAN
          /\ link' \in BOOLEAN /\ fresh' \in BOOLEAN /\ angles' \in BOOLEAN
      BY <1>4 DEF IInv, TypeOK, ConnectOk, Polling, Found, judging, block
    <3>5. /\ state' \in {"hold", "waiting_stable", "recording", "idle"}
          /\ pc' \in {"tick", "read", "flush", "judge"}
      BY <1>4 DEF IInv, TypeOK, ConnectOk, Polling, Found, judging, block
    <3> QED BY <3>1, <3>2, <3>3, <3>4, <3>5, Zenon DEF TypeOK
  <2>2. FillInv' BY <1>4, SamplingAssumption
    DEF IInv, TypeOK, FillInv, ConnectOk, Polling, Found, judging, block
  <2>3. MarkInv' BY <1>4 DEF IInv, MarkInv, ConnectOk, Polling, Found, judging, block
  <2>4. RoughInv' BY <1>4, SamplingAssumption
    DEF IInv, TypeOK, FillInv, RoughInv, Unmarked, ConnectOk, Polling, Found, judging, block
  <2> QED BY <1>1, <2>1, <2>2, <2>3, <2>4 DEF IInv
<1> QED BY <1>2, <1>3, <1>4

\* The steps that end a block.
LEMMA FlushStep ==
  ASSUME IInv, WriteBlock \/ WriteFails, UNCHANGED stopOnUnstable
  PROVE  IInv'
<1>1. CalmInv'
  <2>1. UNCHANGED <<window, calm>> BY DEF WriteBlock, WriteFails, judging
  <2> QED BY <2>1, YoungStays DEF CalmInv, IInv
<1>2. CASE WriteBlock
  <2>1. TypeOK'
    <3>1. flags' \subseteq Flags /\ own' \subseteq Flags /\ inherited' \subseteq Flags
      BY <1>2 DEF IInv, TypeOK, Flags, WriteBlock, sensor, judging
    <3>2. window' \subseteq (0..Window) \X BOOLEAN /\ calm' \in 0..MinSamples
      BY <1>2, SamplingAssumption DEF IInv, TypeOK, WriteBlock, sensor, judging
    <3>3. /\ wait' \in 0..BackoffMax /\ backoff' \in BackoffMin..BackoffMax
          /\ since' \in 0..BlockSize - 1 /\ pending' \in 0..BlockSize
      BY <1>2, SamplingAssumption DEF IInv, TypeOK, WriteBlock, sensor, judging
    <3>4. /\ stopOnUnstable' \in BOOLEAN /\ open' \in BOOLEAN /\ rough' \in BOOLEAN
          /\ link' \in BOOLEAN /\ fresh' \in BOOLEAN /\ angles' \in BOOLEAN
      BY <1>2 DEF IInv, TypeOK, WriteBlock, sensor, judging
    <3>5. /\ state' \in {"hold", "waiting_stable", "recording", "idle"}
          /\ pc' \in {"tick", "read", "flush", "judge"}
      BY <1>2 DEF IInv, TypeOK, WriteBlock, sensor, judging
    <3> QED BY <3>1, <3>2, <3>3, <3>4, <3>5, Zenon DEF TypeOK
  <2>2. FillInv' BY <1>2, SamplingAssumption
    DEF IInv, TypeOK, FillInv, WriteBlock, sensor, judging
  <2>3. MarkInv' BY <1>2 DEF IInv, MarkInv, WriteBlock, sensor, judging
  <2>4. RoughInv' BY <1>2, SamplingAssumption
    DEF IInv, TypeOK, FillInv, RoughInv, Unmarked, WriteBlock, sensor, judging
  <2> QED BY <1>1, <2>1, <2>2, <2>3, <2>4 DEF IInv
<1>3. CASE WriteFails
  <2>1. TypeOK'
    <3>1. flags' \subseteq Flags /\ own' \subseteq Flags /\ inherited' \subseteq Flags
      BY <1>3 DEF IInv, TypeOK, Flags, WriteFails, sensor, judging
    <3>2. window' \subseteq (0..Window) \X BOOLEAN /\ calm' \in 0..MinSamples
      BY <1>3, SamplingAssumption DEF IInv, TypeOK, WriteFails, sensor, judging
    <3>3. /\ wait' \in 0..BackoffMax /\ backoff' \in BackoffMin..BackoffMax
          /\ since' \in 0..BlockSize - 1 /\ pending' \in 0..BlockSize
      BY <1>3, SamplingAssumption DEF IInv, TypeOK, WriteFails, sensor, judging
    <3>4. /\ stopOnUnstable' \in BOOLEAN /\ open' \in BOOLEAN /\ rough' \in BOOLEAN
          /\ link' \in BOOLEAN /\ fresh' \in BOOLEAN /\ angles' \in BOOLEAN
      BY <1>3 DEF IInv, TypeOK, WriteFails, sensor, judging
    <3>5. /\ state' \in {"hold", "waiting_stable", "recording", "idle"}
          /\ pc' \in {"tick", "read", "flush", "judge"}
      BY <1>3 DEF IInv, TypeOK, WriteFails, sensor, judging
    <3> QED BY <3>1, <3>2, <3>3, <3>4, <3>5, Zenon DEF TypeOK
  <2>2. FillInv' BY <1>3, SamplingAssumption
    DEF IInv, TypeOK, FillInv, WriteFails, sensor, judging
  <2>3. MarkInv' BY <1>3 DEF IInv, MarkInv, WriteFails, sensor, judging
  <2>4. RoughInv' BY <1>3, SamplingAssumption
    DEF IInv, TypeOK, FillInv, RoughInv, Unmarked, WriteFails, sensor, judging
  <2> QED BY <1>1, <2>1, <2>2, <2>3, <2>4 DEF IInv
<1> QED BY <1>2, <1>3

\* The steps of the verdict.
LEMMA JudgeStep ==
  ASSUME IInv, NotYet \/ Settled \/ NothingToDo \/ Unsettled \/ SettledAgain, UNCHANGED stopOnUnstable
  PROVE  IInv'
<1>1. CalmInv'
  <2>1. UNCHANGED <<window, calm>>
    BY DEF NotYet, Settled, NothingToDo, Unsettled, SettledAgain, Due
  <2> QED BY <2>1, YoungStays DEF CalmInv, IInv
<1>2. CASE NotYet
  BY <1>1, <1>2, SamplingAssumption
    DEF IInv, TypeOK, FillInv, MarkInv, RoughInv, Unmarked, Flags, NotYet, sensor, block
<1>3. CASE Settled
  <2>1. TypeOK'
    <3>1. flags' \subseteq Flags /\ own' \subseteq Flags /\ inherited' \subseteq Flags
      BY <1>3 DEF IInv, TypeOK, Flags, Settled, Due, Open, sensor, block
    <3>2. window' \subseteq (0..Window) \X BOOLEAN /\ calm' \in 0..MinSamples
      BY <1>3, SamplingAssumption DEF IInv, TypeOK, Settled, Due, Open, sensor, block
    <3>3. /\ wait' \in 0..BackoffMax /\ backoff' \in BackoffMin..BackoffMax
          /\ since' \in 0..BlockSize - 1 /\ pending' \in 0..BlockSize
      BY <1>3, SamplingAssumption DEF IInv, TypeOK, Settled, Due, Open, sensor, block
    <3>4. /\ stopOnUnstable' \in BOOLEAN /\ open' \in BOOLEAN /\ rough' \in BOOLEAN
          /\ link' \in BOOLEAN /\ fresh' \in BOOLEAN /\ angles' \in BOOLEAN
      BY <1>3 DEF IInv, TypeOK, Settled, Due, Open, sensor, block
    <3>5. /\ state' \in {"hold", "waiting_stable", "recording", "idle"}
          /\ pc' \in {"tick", "read", "flush", "judge"}
      BY <1>3 DEF IInv, TypeOK, Settled, Due, Open, sensor, block
    <3> QED BY <3>1, <3>2, <3>3, <3>4, <3>5, Zenon DEF TypeOK
  <2>2. FillInv' BY <1>3, SamplingAssumption
    DEF IInv, TypeOK, FillInv, Settled, Due, Open, sensor, block
  <2>3. MarkInv' BY <1>3 DEF IInv, MarkInv, Settled, Due, Open, sensor, block
  <2>4. RoughInv' BY <1>3, SamplingAssumption
    DEF IInv, TypeOK, FillInv, RoughInv, Unmarked, Settled, Due, Open, sensor, block
  <2> QED BY <1>1, <2>1, <2>2, <2>3, <2>4 DEF IInv
<1>4. CASE NothingToDo
  BY <1>1, <1>4, SamplingAssumption
    DEF IInv, TypeOK, FillInv, MarkInv, RoughInv, Unmarked, Flags, NothingToDo, Due, sensor,
        block
<1>5. CASE Unsettled
  <2>1. TypeOK'
    <3>1. flags' \subseteq Flags /\ own' \subseteq Flags /\ inherited' \subseteq Flags
      BY <1>5 DEF IInv, TypeOK, Flags, Unsettled, Due, sensor, block
    <3>2. window' \subseteq (0..Window) \X BOOLEAN /\ calm' \in 0..MinSamples
      BY <1>5, SamplingAssumption DEF IInv, TypeOK, Unsettled, Due, sensor, block
    <3>3. /\ wait' \in 0..BackoffMax /\ backoff' \in BackoffMin..BackoffMax
          /\ since' \in 0..BlockSize - 1 /\ pending' \in 0..BlockSize
      BY <1>5, SamplingAssumption DEF IInv, TypeOK, Unsettled, Due, sensor, block
    <3>4. /\ stopOnUnstable' \in BOOLEAN /\ open' \in BOOLEAN /\ rough' \in BOOLEAN
          /\ link' \in BOOLEAN /\ fresh' \in BOOLEAN /\ angles' \in BOOLEAN
      BY <1>5 DEF IInv, TypeOK, Unsettled, Due, sensor, block
    <3>5. /\ state' \in {"hold", "waiting_stable", "recording", "idle"}
          /\ pc' \in {"tick", "read", "flush", "judge"}
      BY <1>5 DEF IInv, TypeOK, Unsettled, Due, sensor, block
    <3> QED BY <3>1, <3>2, <3>3, <3>4, <3>5, Zenon DEF TypeOK
  <2>2. FillInv' BY <1>5, SamplingAssumption
    DEF IInv, TypeOK, FillInv, Unsettled, Due, sensor, block
  <2>3. MarkInv' BY <1>5 DEF IInv, MarkInv, Unsettled, Due, sensor, block
  <2>4. RoughInv' BY <1>5, SamplingAssumption
    DEF IInv, TypeOK, FillInv, RoughInv, Unmarked, Unsettled, Due, sensor, block
  <2> QED BY <1>1, <2>1, <2>2, <2>3, <2>4 DEF IInv
<1>6. CASE SettledAgain
  <2>1. TypeOK'
    <3>1. flags' \subseteq Flags /\ own' \subseteq Flags /\ inherited' \subseteq Flags
      BY <1>6 DEF IInv, TypeOK, Flags, SettledAgain, Due, sensor, block
    <3>2. window' \subseteq (0..Window) \X BOOLEAN /\ calm' \in 0..MinSamples
      BY <1>6, SamplingAssumption DEF IInv, TypeOK, SettledAgain, Due, sensor, block
    <3>3. /\ wait' \in 0..BackoffMax /\ backoff' \in BackoffMin..BackoffMax
          /\ since' \in 0..BlockSize - 1 /\ pending' \in 0..BlockSize
      BY <1>6, SamplingAssumption DEF IInv, TypeOK, SettledAgain, Due, sensor, block
    <3>4. /\ stopOnUnstable' \in BOOLEAN /\ open' \in BOOLEAN /\ rough' \in BOOLEAN
          /\ link' \in BOOLEAN /\ fresh' \in BOOLEAN /\ angles' \in BOOLEAN
      BY <1>6 DEF IInv, TypeOK, SettledAgain, Due, sensor, block
    <3>5. /\ state' \in {"hold", "waiting_stable", "recording", "idle"}
          /\ pc' \in {"tick", "read", "flush", "judge"}
      BY <1>6 DEF IInv, TypeOK, SettledAgain, Due, sensor, block
    <3> QED BY <3>1, <3>2, <3>3, <3>4, <3>5, Zenon DEF TypeOK
  <2>2. FillInv' BY <1>6, SamplingAssumption
    DEF IInv, TypeOK, FillInv, SettledAgain, Due, sensor, block
  <2>3. MarkInv' BY <1>6 DEF IInv, MarkInv, SettledAgain, Due, sensor, block
  <2>4. RoughInv' BY <1>6, SamplingAssumption
    DEF IInv, TypeOK, FillInv, RoughInv, Unmarked, SettledAgain, Due, sensor, block
  <2> QED BY <1>1, <2>1, <2>2, <2>3, <2>4 DEF IInv
<1> QED BY <1>2, <1>3, <1>4, <1>5, <1>6

(***************************************************************************)
(* The steps that empty the window, and mark the block.                    *)
(***************************************************************************)
LEMMA FailStep ==
  ASSUME IInv, TooEarly \/ ConnectFails \/ ReadError \/ ShortReply, UNCHANGED stopOnUnstable
  PROVE  IInv'
<1>1. CalmInv'
  <2>1. window' = {} /\ calm' = 0 BY DEF TooEarly, ConnectFails, ReadError, ShortReply, Failed
  <2>2. Cardinality(Young') = 0 BY <2>1, YoungEmptied, FS_EmptySet
  <2> QED BY <2>1, <2>2 DEF CalmInv
<1>2. CASE TooEarly
  BY <1>1, <1>2, SamplingAssumption
    DEF IInv, TypeOK, FillInv, MarkInv, RoughInv, Unmarked, Flags, TooEarly, Polling, Failed
<1>3. CASE ConnectFails
  BY <1>1, <1>3, SamplingAssumption
    DEF IInv, TypeOK, FillInv, MarkInv, RoughInv, Unmarked, Flags, ConnectFails, Polling, Failed
<1>4. CASE ReadError
  <2>1. TypeOK'
    <3>1. flags' \subseteq Flags /\ own' \subseteq Flags /\ inherited' \subseteq Flags
      BY <1>4 DEF IInv, TypeOK, Flags, ReadError, Failed, Drop
    <3>2. window' \subseteq (0..Window) \X BOOLEAN /\ calm' \in 0..MinSamples
      BY <1>4, SamplingAssumption DEF IInv, TypeOK, ReadError, Failed, Drop
    <3>3. /\ wait' \in 0..BackoffMax /\ backoff' \in BackoffMin..BackoffMax
          /\ since' \in 0..BlockSize - 1 /\ pending' \in 0..BlockSize
      BY <1>4, SamplingAssumption DEF IInv, TypeOK, ReadError, Failed, Drop
    <3>4. /\ stopOnUnstable' \in BOOLEAN /\ open' \in BOOLEAN /\ rough' \in BOOLEAN
          /\ link' \in BOOLEAN /\ fresh' \in BOOLEAN /\ angles' \in BOOLEAN
      BY <1>4 DEF IInv, TypeOK, ReadError, Failed, Drop
    <3>5. /\ state' \in {"hold", "waiting_stable", "recording", "idle"}
          /\ pc' \in {"tick", "read", "flush", "judge"}
      BY <1>4 DEF IInv, TypeOK, ReadError, Failed, Drop
    <3> QED BY <3>1, <3>2, <3>3, <3>4, <3>5, Zenon DEF TypeOK
  <2>2. FillInv' BY <1>4, SamplingAssumption DEF IInv, TypeOK, FillInv, ReadError, Failed, Drop
  <2>3. MarkInv' BY <1>4 DEF IInv, MarkInv, ReadError, Failed, Drop
  <2>4. RoughInv' BY <1>4, SamplingAssumption
    DEF IInv, TypeOK, FillInv, RoughInv, Unmarked, ReadError, Failed, Drop
  <2> QED BY <1>1, <2>1, <2>2, <2>3, <2>4 DEF IInv
<1>5. CASE ShortReply
  <2>1. TypeOK'
    <3>1. flags' \subseteq Flags /\ own' \subseteq Flags /\ inherited' \subseteq Flags
      BY <1>5 DEF IInv, TypeOK, Flags, ShortReply
    <3>2. window' \subseteq (0..Window) \X BOOLEAN /\ calm' \in 0..MinSamples
      BY <1>5, SamplingAssumption DEF IInv, TypeOK, ShortReply
    <3>3. /\ wait' \in 0..BackoffMax /\ backoff' \in BackoffMin..BackoffMax
          /\ since' \in 0..BlockSize - 1 /\ pending' \in 0..BlockSize
      BY <1>5, SamplingAssumption DEF IInv, TypeOK, ShortReply
    <3>4. /\ stopOnUnstable' \in BOOLEAN /\ open' \in BOOLEAN /\ rough' \in BOOLEAN
          /\ link' \in BOOLEAN /\ fresh' \in BOOLEAN /\ angles' \in BOOLEAN
      BY <1>5 DEF IInv, TypeOK, ShortReply
    <3>5. /\ state' \in {"hold", "waiting_stable", "recording", "idle"}
          /\ pc' \in {"tick", "read", "flush", "judge"}
      BY <1>5 DEF IInv, TypeOK, ShortReply
    <3> QED BY <3>1, <3>2, <3>3, <3>4, <3>5, Zenon DEF TypeOK
  <2>2. FillInv' BY <1>5, SamplingAssumption DEF IInv, TypeOK, FillInv, ShortReply
  <2>3. MarkInv' BY <1>5 DEF IInv, MarkInv, ShortReply
  <2>4. RoughInv' BY <1>5, SamplingAssumption
    DEF IInv, TypeOK, FillInv, RoughInv, Unmarked, ShortReply
  <2> QED BY <1>1, <2>1, <2>2, <2>3, <2>4 DEF IInv
<1> QED BY <1>2, <1>3, <1>4, <1>5

(***************************************************************************)
(* A reading.                                                              *)
(***************************************************************************)
LEMMA TypeAfterTake ==
  ASSUME IInv, NEW still \in BOOLEAN, NEW t \in 1..Slowest, Take(still, t),
         UNCHANGED stopOnUnstable
  PROVE  TypeOK'
<1> USE SamplingAssumption
<1>1. window' \subseteq (0..Window) \X BOOLEAN BY AddTyped DEF IInv, Take
<1>2. calm' \in 0..MinSamples BY DEF IInv, TypeOK, Take
<1>3. pending' \in 0..BlockSize /\ pc' \in {"tick", "read", "flush", "judge"}
  BY DEF IInv, TypeOK, FillInv, Take
<1>4. flags' \subseteq Flags /\ own' \subseteq Flags BY DEF IInv, TypeOK, Take, Flags
<1> QED BY <1>1, <1>2, <1>3, <1>4 DEF IInv, TypeOK, Take

\* A reading keeps every part of the invariant.
LEMMA TakeStep ==
  ASSUME IInv, NEW still \in BOOLEAN, NEW t \in 1..Slowest, Take(still, t),
         UNCHANGED stopOnUnstable
  PROVE  IInv'
<1> USE SamplingAssumption
<1>1. TypeOK /\ t \in Nat BY DEF IInv
<1>2. window' = Add(still, t) /\ window' \subseteq (0..Window) \X BOOLEAN
  BY <1>1, AddTyped DEF Take
<1>3. calm' = IF ~still THEN 0 ELSE IF calm < MinSamples THEN calm + 1 ELSE calm BY DEF Take
<1>4. CalmInv'
  <2>1. CASE ~still
    <3>1. still = FALSE BY <2>1
    <3>2. Young' = {} BY <1>1, <1>2, <3>1, YoungAfterMoving
    <3>3. Cardinality(Young') = 0 BY <3>2, FS_EmptySet
    <3> QED BY <1>3, <2>1, <3>3 DEF CalmInv
  <2>2. CASE still
    <3>1. still = TRUE BY <2>2
    <3>2. /\ Cardinality(Young') <= Cardinality(Young) + 1
          /\ Cardinality(Young) \in Nat /\ Cardinality(Young') \in Nat
      BY <1>1, <1>2, <3>1, YoungAfterStill
    <3>3. calm \in 0..MinSamples BY <1>1 DEF TypeOK
    <3> QED BY <1>3, <2>2, <3>2, <3>3 DEF CalmInv, IInv
  <2> QED BY <2>1, <2>2
<1>5. TypeOK' BY TypeAfterTake
<1>6. FillInv' BY DEF IInv, FillInv, TypeOK, Take
<1>7. MarkInv' BY DEF IInv, MarkInv, Take
<1>8. RoughInv' BY DEF IInv, RoughInv, Unmarked, FillInv, TypeOK, Take
<1> QED BY <1>4, <1>5, <1>6, <1>7, <1>8 DEF IInv

\* Every step keeps the invariant, part by part.
THEOREM StepInv == IInv /\ [Next]_vars => IInv'
<1> SUFFICES ASSUME IInv, [Next]_vars PROVE IInv' OBVIOUS
<1>1. CASE UNCHANGED vars
  <2>1. CalmInv' BY <1>1, YoungStays DEF IInv, CalmInv, vars, judging
  <2> QED BY <1>1, <2>1
    DEF IInv, TypeOK, FillInv, MarkInv, RoughInv, Unmarked, vars, sensor, judging, block
<1>2. CASE Next
  <2>1. UNCHANGED stopOnUnstable BY <1>2 DEF Next
  <2>2. CASE Leave \/ LinkUp \/ ConnectOk BY <2>1, <2>2, WaitStep
  <2>3. CASE TooEarly \/ ConnectFails \/ ReadError \/ ShortReply BY <2>1, <2>3, FailStep
  <2>4. CASE Still \/ Moving BY <2>1, <2>4, TakeStep DEF Still, Moving
  <2>5. CASE Flush BY <2>1, <2>5, FlushStep DEF Flush
  <2>6. CASE Judge BY <2>1, <2>6, JudgeStep DEF Judge
  <2> QED BY <1>2, <2>2, <2>3, <2>4, <2>5, <2>6 DEF Next, Loop, Connect, Read
<1> QED BY <1>1, <1>2

\* The invariant always holds.
THEOREM Invariance == Spec => []IInv
BY InitInv, StepInv, PTL DEF Spec

-----------------------------------------------------------------------------
\* The variables have their types (TypeOK).
THEOREM TypeCorrect == Spec => []TypeOK
<1>1. IInv => TypeOK BY DEF IInv
<1> QED BY <1>1, Invariance, PTL

\* A block is marked with what happened while it was being filled, and with nothing else
\* but what was up when its recording was opened (_flush_block, _block_flags).
THEOREM BlockIsAlwaysMarked == Spec => []BlockIsMarked
<1>1. IInv => BlockIsMarked BY DEF IInv, MarkInv, BlockIsMarked
<1> QED BY <1>1, Invariance, PTL

\* While a recording is judged "not stable", every block that is written says so, or that
\* reads have failed: each block clears the marks, but the next verdict comes before the
\* next block is full (_judge_stability, _flush_block).
THEOREM RoughIsAlwaysMarked == Spec => []RoughIsMarked
<1>1. ASSUME IInv, pc = "flush", rough PROVE flags \cap {"UNSTABLE", "READ_FAILED"} # {}
  <2> SUFFICES ASSUME Unmarked PROVE FALSE BY <1>1 DEF IInv, FillInv, Unmarked
  <2>1. pending = BlockSize /\ since >= pending BY <1>1 DEF IInv, FillInv, RoughInv
  <2> QED BY <2>1, SamplingAssumption, <1>1 DEF IInv, TypeOK
<1>2. IInv => RoughIsMarked BY <1>1 DEF RoughIsMarked
<1> QED BY <1>2, Invariance, PTL

(***************************************************************************)
(* A stable window is young throughout.                                    *)
(***************************************************************************)
LEMMA StableIsCalm == ASSUME IInv, Stable PROVE calm >= MinSamples
<1>1. Young = window BY DEF Stable, Young
<1>2. IsFiniteSet(window) /\ Cardinality(window) \in Nat
  BY WindowFinite, FS_CardinalityType DEF IInv
<1> QED BY <1>1, <1>2, SamplingAssumption DEF Stable, IInv, CalmInv, TypeOK

\* A recording that starts by itself starts on MinSamples still readings in a row, whatever
\* the pace of the readings and whatever the window held before (StabilityMonitor).
THEOREM StartsAreSettled == Spec => StartsSettled
<1>1. ASSUME IInv, Next, state = "waiting_stable", state' = "recording" PROVE calm >= MinSamples
  <2>1. Settled
    BY <1>1 DEF Next, Loop, Connect, Read, Flush, Judge, Leave, LinkUp, TooEarly, ConnectFails,
      ConnectOk, Failed, ReadError, ShortReply, Still, Moving, Take, WriteBlock, WriteFails,
      NotYet, NothingToDo, Unsettled, SettledAgain, IInv, FillInv
  <2> QED BY <1>1, <2>1, StableIsCalm DEF Settled
<1>2. IInv /\ [Next]_vars =>
        [state = "waiting_stable" /\ state' = "recording" => calm >= MinSamples]_vars
  BY <1>1
<1> QED BY <1>2, Invariance, PTL DEF Spec, StartsSettled

=============================================================================
