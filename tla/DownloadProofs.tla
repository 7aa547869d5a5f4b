--------------------------- MODULE DownloadProofs ---------------------------
(***************************************************************************)
(* Proofs about Download: for any recordings, any clicks and any           *)
(* interleaving of their requests, what is sent and what is retired is one *)
(* measurement, whole.                                                     *)
(***************************************************************************)
EXTENDS Download, WellFoundedInduction, TLAPS

\* A set of recordings that is the measurement clicked: without a gap, and with the one clicked.
OneRun(t, B) ==
  /\ Name(t) \in B
  /\ IsFile(t) => B = {Name(t)}
  /\ \A r, s \in B : \A n \in (r + 1)..s : n \in B /\ n \in Joined

\* What lies between a recording and the one clicked goes with it, or has gone.
Clears(t, r) ==
  /\ IsFile(t) => r = Name(t)
  /\ \A n \in Between(r, Name(t)) :
       /\ place[n] \in {"trash", "gone"} \/ n \in left[t]
       /\ (n > r \/ n > Name(t)) => n \in Joined

(***************************************************************************)
(* What each label of a thread says of what it holds.                      *)
(***************************************************************************)
EmptyInv(t) ==
  /\ pc[t] \in {"idle", "start", "describe"} => left[t] = {}
  /\ pc[t] \in {"idle", "start", "describe", "open"} => body[t] = {}
  /\ pc[t] \in {"idle", "start", "describe", "open", "merge"} => sent[t] = {}
  /\ pc[t] \in {"idle", "start", "describe"} => moved[t] = {}
  /\ pc[t] # "done" => response[t] = "none"
  /\ pc[t] = "replace" => left[t] # {}

RoleInv(t) ==
  /\ pc[t] # "idle" => /\ click[t[1]] \in Click /\ click[t[1]] # NoClick
                       /\ place[Name(t)] # "partial"
  /\ pc[t] \in {"open", "merge", "stream"} => Gets(t)
  /\ pc[t] \in {"move", "replace"} => ~Gets(t)
  /\ pc[t] = "describe" => ~IsFile(t)
  /\ Gets(t) => moved[t] = {}

\* What is listed, or in hand, has been closed.
ClosedInv(t) == \A r \in todo[t] \cup found[t] \cup left[t] \cup body[t] : place[r] # "partial"

BodyInv(t) ==
  /\ pc[t] \in {"open", "merge"} => OneRun(t, left[t] \cup body[t])
  /\ pc[t] = "stream" => OneRun(t, body[t]) /\ body[t] = left[t] \cup sent[t]
  /\ Gets(t) /\ response[t] = "200" => OneRun(t, body[t]) /\ sent[t] = body[t]

FoundInv(t) ==
  /\ pc[t] = "open" /\ IsFile(t) => place[Name(t)] = from[t] \/ Name(t) \in shifted[t]
  /\ Gets(t) /\ response[t] = "404" /\ IsFile(t) =>
       place[Name(t)] = "gone" \/ Name(t) \in shifted[t]

RetireInv(t) ==
  /\ \A r \in moved[t] : place[r] \in {"trash", "gone"}
  /\ ~Gets(t) => \A r \in moved[t] \cup left[t] : Clears(t, r)

ThreadInv(t) ==
  EmptyInv(t) /\ RoleInv(t) /\ ClosedInv(t) /\ BodyInv(t) /\ FoundInv(t) /\ RetireInv(t)

\* No recording is reported by two.
ApartInv == \A t, u \in Threads : t # u => moved[t] \cap moved[u] = {}

IInv == TypeOK /\ (\A t \in Threads : ThreadInv(t)) /\ ApartInv

-----------------------------------------------------------------------------
(* The oldest of some recordings. *)

Less == {p \in Nat \X Nat : p[1] < p[2]}

LEMMA FirstIn ==
  ASSUME NEW S, S \subseteq Recordings, S # {}
  PROVE  First(S) \in S
<1>1. IsWellFoundedOn(Less, Nat) BY NatLessThanWellFounded DEF OpToRel, Less
<1>2. S \subseteq Nat BY DownloadAssumption
<1>3. PICK r \in S : \A s \in S : ~(<<s, r>> \in Less) BY <1>1, <1>2, WFMin
<1>4. ASSUME NEW s \in S PROVE r <= s
  <2>1. r \in Nat /\ s \in Nat BY <1>2
  <2>2. ~(s < r) BY <1>3, <2>1 DEF Less
  <2> QED BY <2>1, <2>2
<1>5. \E x \in S : \A s \in S : x <= s BY <1>4
<1> QED BY <1>5 DEF First

(***************************************************************************)
(* The members of a group are one measurement.                             *)
(***************************************************************************)
LEMMA MembersAreOne ==
  ASSUME NEW F \in SUBSET Recordings, NEW a \in Recordings, Members(F, a) # {}
  PROVE  /\ Members(F, a) \subseteq F /\ a \in Members(F, a)
         /\ \A r, s \in Members(F, a) : \A n \in (r + 1)..s : n \in Members(F, a) /\ n \in Joined
         /\ \A r \in Members(F, a) : \A n \in Between(r, a) :
              n \in Members(F, a) /\ (n > r \/ n > a => n \in Joined)
<1>1. F \subseteq Nat /\ a \in Nat BY DownloadAssumption
<1>2. a \in F /\ Members(F, a) \subseteq F BY DEF Members
<1>3. \A r \in Members(F, a) : /\ \A n \in (r + 1)..a : n \in F /\ n \in Joined
                               /\ \A n \in (a + 1)..r : n \in F /\ n \in Joined
  BY DEF Members, SameGroup
<1>4. \A r \in F : (/\ \A n \in (r + 1)..a : n \in F /\ n \in Joined
                    /\ \A n \in (a + 1)..r : n \in F /\ n \in Joined) => r \in Members(F, a)
  BY <1>2 DEF Members, SameGroup
<1>5. a \in Members(F, a) BY <1>1, <1>2, <1>4
<1>6. ASSUME NEW r \in Members(F, a), NEW n \in Nat,
             (r < n /\ n <= a) \/ (a < n /\ n <= r)
      PROVE  n \in Members(F, a) /\ n \in Joined
  <2>1. r \in Nat BY <1>1, <1>2
  <2>2. n \in F /\ n \in Joined BY <1>1, <1>3, <1>6, <2>1
  <2>3. \A m \in (n + 1)..a : m \in F /\ m \in Joined
    <3> SUFFICES ASSUME NEW m \in (n + 1)..a PROVE m \in F /\ m \in Joined OBVIOUS
    <3>1. m \in (r + 1)..a BY <1>1, <1>6, <2>1
    <3> QED BY <3>1, <1>3
  <2>4. \A m \in (a + 1)..n : m \in F /\ m \in Joined
    <3> SUFFICES ASSUME NEW m \in (a + 1)..n PROVE m \in F /\ m \in Joined OBVIOUS
    <3>1. m \in (a + 1)..r BY <1>1, <1>6, <2>1
    <3> QED BY <3>1, <1>3
  <2> QED BY <1>4, <2>2, <2>3, <2>4
<1>7. ASSUME NEW r \in Members(F, a), NEW s \in Members(F, a), NEW n \in (r + 1)..s
      PROVE  n \in Members(F, a) /\ n \in Joined
  <2>0. r \in Nat /\ s \in Nat BY <1>1, <1>2
  <2>1. n \in Nat /\ r < n /\ n <= s BY <2>0
  <2>2. CASE n <= a BY <1>6, <2>1, <2>2
  <2>3. CASE a < n BY <1>6, <2>1, <2>3
  <2> QED BY <1>1, <2>1, <2>2, <2>3
<1>8. ASSUME NEW r \in Members(F, a), NEW n \in Between(r, a)
      PROVE  n \in Members(F, a) /\ (n > r \/ n > a => n \in Joined)
  <2>1. r \in Nat /\ n \in Nat /\ ((r <= n /\ n <= a) \/ (a <= n /\ n <= r))
    BY <1>1, <1>2, DownloadAssumption DEF Between
  <2>2. CASE n = r BY <1>1, <1>3, <2>1, <2>2
  <2>3. CASE n = a /\ n # r BY <1>1, <1>5, <1>6, <2>1, <2>3
  <2>4. CASE n # a /\ n # r BY <1>1, <1>6, <2>1, <2>4
  <2> QED BY <2>2, <2>3, <2>4
<1> QED BY <1>2, <1>5, <1>7, <1>8

-----------------------------------------------------------------------------
\* Nothing clicked, nothing in hand.
THEOREM InitInv == Init => IInv
<1> SUFFICES ASSUME Init PROVE IInv OBVIOUS
<1>1. TypeOK BY DEF Init, TypeOK, Places
<1>2. ASSUME NEW t \in Threads PROVE ThreadInv(t)
  BY DEF Init, ThreadInv, EmptyInv, RoleInv, ClosedInv, BodyInv, FoundInv, RetireInv
<1>3. ApartInv BY DEF Init, ApartInv
<1> QED BY <1>1, <1>2, <1>3 DEF IInv

-----------------------------------------------------------------------------
(* The others, while one thread takes a step. *)

\* A recording goes one way through the places, and whoever is about to open it knows.
Forward ==
  \A r \in Recordings :
    \/ place'[r] = place[r]
    \/ place[r] = "partial" /\ place'[r] = "data"
    \/ /\ \/ place[r] = "data" /\ place'[r] = "trash"
          \/ place[r] = "trash" /\ place'[r] = "gone"
       /\ \A t \in Threads : pc[t] = "open" => r \in shifted'[t]

Kept(t) ==
  /\ pc'[t] = pc[t] /\ (pc[t] # "idle" => click'[t[1]] = click[t[1]])
  /\ todo'[t] = todo[t] /\ found'[t] = found[t] /\ left'[t] = left[t] /\ from'[t] = from[t]
  /\ body'[t] = body[t] /\ sent'[t] = sent[t] /\ moved'[t] = moved[t]
  /\ response'[t] = response[t] /\ shifted[t] \subseteq shifted'[t]

LEMMA Bystander ==
  ASSUME TypeOK, NEW t \in Threads, ThreadInv(t), Forward, Kept(t)
  PROVE  ThreadInv(t)'
<1>1. \A r \in Recordings : /\ place[r] # "partial" => place'[r] # "partial"
                            /\ place[r] \in {"trash", "gone"} => place'[r] \in {"trash", "gone"}
                            /\ place[r] = "gone" => place'[r] = "gone"
  BY DEF Forward
<1>2. /\ todo[t] \subseteq Recordings /\ found[t] \subseteq Recordings
      /\ left[t] \subseteq Recordings /\ moved[t] \subseteq Recordings
      /\ body[t] \subseteq Recordings
  BY DEF TypeOK
<1>3. pc[t] # "idle" => Name(t)' = Name(t) /\ Name(t) \in Recordings
  BY DEF Kept, ThreadInv, RoleInv, Name, Asked, Click
<1>4. EmptyInv(t)' BY DEF Kept, ThreadInv, EmptyInv
<1>5. RoleInv(t)' BY <1>1, <1>3 DEF Kept, ThreadInv, RoleInv, Gets, IsFile
<1>6. ClosedInv(t)' BY <1>1, <1>2 DEF Kept, ThreadInv, ClosedInv
<1>7. BodyInv(t)' BY <1>3 DEF Kept, ThreadInv, BodyInv, EmptyInv, OneRun, Gets, IsFile
<1>8. FoundInv(t)'
  <2>1. pc[t] = "open" => \A r \in Recordings :
          place'[r] = place[r] \/ place[r] = "partial" \/ r \in shifted'[t]
    BY DEF Forward
  <2> QED BY <1>1, <1>3, <2>1 DEF Kept, ThreadInv, FoundInv, EmptyInv, RoleInv, Gets, IsFile
<1>9. RetireInv(t)'
  <2>1. CASE pc[t] = "idle" BY <2>1 DEF Kept, ThreadInv, EmptyInv, RetireInv
  <2>2. CASE pc[t] # "idle"
    <3>1. ASSUME NEW r \in moved[t] PROVE place'[r] \in {"trash", "gone"}
      BY <1>1, <1>2 DEF ThreadInv, RetireInv
    <3>2. ASSUME ~Gets(t), NEW r \in moved[t] \cup left[t] PROVE Clears(t, r)'
      <4>1. Clears(t, r) BY <3>2 DEF ThreadInv, RetireInv
      <4>2. Between(r, Name(t)) \subseteq Recordings /\ Between(r, Name(t))' = Between(r, Name(t))
        BY <1>3, <2>2 DEF Between
      <4> QED BY <1>1, <1>3, <2>2, <4>1, <4>2 DEF Clears, Kept, IsFile
    <3> QED BY <3>1, <3>2 DEF RetireInv, Kept, Gets
  <2> QED BY <2>1, <2>2
<1> QED BY <1>4, <1>5, <1>6, <1>7, <1>8, <1>9 DEF ThreadInv

\* So a step keeps the invariant if the one that takes it keeps its own.
LEMMA OneSteps ==
  ASSUME IInv, NEW t \in Threads, TypeOK', Forward,
         \A u \in Threads \ {t} : Kept(u), ThreadInv(t)',
         moved'[t] = moved[t] \/ \E r \in Recordings : /\ place[r] = "data"
                                                       /\ moved'[t] = moved[t] \cup {r}
  PROVE  IInv'
<1>1. \A u \in Threads \ {t} : ThreadInv(u)' BY Bystander DEF IInv
<1>2. ApartInv'
  <2>1. \A u \in Threads \ {t} : moved'[u] = moved[u] BY DEF Kept
  <2>2. ASSUME NEW u \in Threads \ {t} PROVE moved'[t] \cap moved[u] = {}
    <3>1. \A r \in moved[u] : place[r] # "data" BY DEF IInv, ThreadInv, RetireInv
    <3>2. moved[t] \cap moved[u] = {} BY DEF IInv, ApartInv
    <3> QED BY <3>1, <3>2
  <2> QED BY <2>1, <2>2 DEF IInv, ApartInv
<1> QED BY <1>1, <1>2 DEF IInv

\* What is clicked is a recording that has been closed.
LEMMA NameIn ==
  ASSUME IInv, NEW t \in Threads, pc[t] # "idle"
  PROVE  Name(t) \in Recordings /\ place[Name(t)] \in {"data", "trash", "gone"}
<1>1. Name(t) \in Recordings BY DEF IInv, ThreadInv, RoleInv, Name, Asked, Click
<1> QED BY <1>1 DEF IInv, TypeOK, Places, ThreadInv, RoleInv

-----------------------------------------------------------------------------
(* A group is looked for. *)

\* The names in the list.
LEMMA ListDirStep == ASSUME IInv, NEW t \in Threads, ListDir(t) PROVE IInv'
<1>1. TypeOK' BY DEF ListDir, IInv, TypeOK, Places, Goto
<1>2. \A u \in Threads \ {t} : Kept(u) BY DEF ListDir, IInv, Kept, TypeOK, Places, Goto
<1>3. Forward BY DEF ListDir, Forward, TypeOK, Places, Goto
<1>4. ThreadInv(t)'
  <2>1. EmptyInv(t)' BY DEF ListDir, IInv, ThreadInv, TypeOK, Places, Goto, EmptyInv
  <2>2. RoleInv(t)'
    BY DEF ListDir, IInv, ThreadInv, TypeOK, Places, Goto, RoleInv, Gets, IsFile, Name, Asked
  <2>3. ClosedInv(t)' BY DEF ListDir, IInv, ThreadInv, TypeOK, Places, Goto, ClosedInv
  <2>4. BodyInv(t)'
    BY
      DEF ListDir, IInv, ThreadInv, TypeOK, Places, Goto, BodyInv, EmptyInv, RoleInv, OneRun,
          Gets, IsFile, Name, Asked
  <2>5. FoundInv(t)'
    BY
      DEF ListDir, IInv, ThreadInv, TypeOK, Places, Goto, FoundInv, EmptyInv, RoleInv, Gets,
          IsFile, Name, Asked
  <2>6. RetireInv(t)'
    BY
      DEF ListDir, IInv, ThreadInv, TypeOK, Places, Goto, RetireInv, EmptyInv, RoleInv,
          Clears, Between, Gets, IsFile, Name, Asked
  <2> QED BY <2>1, <2>2, <2>3, <2>4, <2>5, <2>6 DEF ThreadInv
<1> QED BY <1>1, <1>2, <1>3, <1>4, OneSteps DEF ListDir, IInv, TypeOK, Places, Goto

\* One of them is described.
LEMMA DescribeStep == ASSUME IInv, NEW t \in Threads, NEW r \in Recordings, Describe(t, r) PROVE IInv'
<1>1. TypeOK' BY DEF Describe, IInv, TypeOK, Places
<1>2. \A u \in Threads \ {t} : Kept(u) BY DEF Describe, IInv, Kept, TypeOK, Places
<1>3. Forward BY DEF Describe, Forward, TypeOK, Places
<1>4. ThreadInv(t)'
  <2>1. EmptyInv(t)' BY DEF Describe, IInv, ThreadInv, TypeOK, Places, EmptyInv
  <2>2. RoleInv(t)'
    BY DEF Describe, IInv, ThreadInv, TypeOK, Places, RoleInv, Gets, IsFile, Name, Asked
  <2>3. ClosedInv(t)' BY DEF Describe, IInv, ThreadInv, TypeOK, Places, ClosedInv
  <2>4. BodyInv(t)'
    BY
      DEF Describe, IInv, ThreadInv, TypeOK, Places, BodyInv, EmptyInv, RoleInv, OneRun, Gets,
          IsFile, Name, Asked
  <2>5. FoundInv(t)'
    BY
      DEF Describe, IInv, ThreadInv, TypeOK, Places, FoundInv, EmptyInv, RoleInv, Gets,
          IsFile, Name, Asked
  <2>6. RetireInv(t)'
    BY
      DEF Describe, IInv, ThreadInv, TypeOK, Places, RetireInv, EmptyInv, RoleInv, Clears,
          Between, Gets, IsFile, Name, Asked
  <2> QED BY <2>1, <2>2, <2>3, <2>4, <2>5, <2>6 DEF ThreadInv
<1> QED BY <1>1, <1>2, <1>3, <1>4, OneSteps DEF Describe, IInv, TypeOK, Places

\* There is no such group.
LEMMA GroupMissingStep == ASSUME IInv, NEW t \in Threads, GroupMissing(t) PROVE IInv'
<1>1. TypeOK' BY DEF GroupMissing, IInv, TypeOK, Places, Goto, Respond, result
<1>2. \A u \in Threads \ {t} : Kept(u)
  BY DEF GroupMissing, IInv, Kept, TypeOK, Places, Goto, Respond, result
<1>3. Forward BY DEF GroupMissing, Forward, TypeOK, Places, Goto, Respond, result
<1>4. ThreadInv(t)'
  <2>1. EmptyInv(t)'
    BY DEF GroupMissing, IInv, ThreadInv, TypeOK, Places, Goto, Respond, result, EmptyInv
  <2>2. RoleInv(t)'
    BY
      DEF GroupMissing, IInv, ThreadInv, TypeOK, Places, Goto, Respond, result, RoleInv, Gets,
          IsFile, Name, Asked
  <2>3. ClosedInv(t)'
    BY DEF GroupMissing, IInv, ThreadInv, TypeOK, Places, Goto, Respond, result, ClosedInv
  <2>4. BodyInv(t)'
    BY
      DEF GroupMissing, IInv, ThreadInv, TypeOK, Places, Goto, Respond, result, BodyInv,
          EmptyInv, RoleInv, OneRun, Gets, IsFile, Name, Asked
  <2>5. FoundInv(t)'
    BY
      DEF GroupMissing, IInv, ThreadInv, TypeOK, Places, Goto, Respond, result, FoundInv,
          EmptyInv, RoleInv, Gets, IsFile, Name, Asked
  <2>6. RetireInv(t)'
    BY
      DEF GroupMissing, IInv, ThreadInv, TypeOK, Places, Goto, Respond, result, RetireInv,
          EmptyInv, RoleInv, Clears, Between, Gets, IsFile, Name, Asked
  <2> QED BY <2>1, <2>2, <2>3, <2>4, <2>5, <2>6 DEF ThreadInv
<1> QED BY <1>1, <1>2, <1>3, <1>4, OneSteps
  DEF GroupMissing, IInv, TypeOK, Places, Goto, Respond, result

\* The group is that of the one clicked.
LEMMA GroupFoundStep == ASSUME IInv, NEW t \in Threads, GroupFound(t) PROVE IInv'
<1>0. /\ Members(found[t], Name(t)) \subseteq found[t] /\ Name(t) \in Members(found[t], Name(t))
      /\ \A r, s \in Members(found[t], Name(t)) : \A n \in (r + 1)..s :
           n \in Members(found[t], Name(t)) /\ n \in Joined
      /\ \A r \in Members(found[t], Name(t)) : \A n \in Between(r, Name(t)) :
           n \in Members(found[t], Name(t)) /\ (n > r \/ n > Name(t) => n \in Joined)
      /\ found[t] \subseteq Recordings
  <2>1. found[t] \subseteq Recordings /\ pc[t] = "describe" BY DEF GroupFound, IInv, TypeOK
  <2>2. Name(t) \in Recordings BY <2>1, NameIn
  <2> QED BY <2>1, <2>2, MembersAreOne DEF GroupFound
<1>1. TypeOK' BY <1>0 DEF GroupFound, IInv, TypeOK, Places, Goto
<1>2. \A u \in Threads \ {t} : Kept(u) BY DEF GroupFound, IInv, Kept, TypeOK, Places, Goto
<1>3. Forward BY DEF GroupFound, Forward, TypeOK, Places, Goto
<1>4. ThreadInv(t)'
  <2>1. EmptyInv(t)' BY <1>0 DEF GroupFound, IInv, ThreadInv, TypeOK, Places, Goto, EmptyInv
  <2>2. RoleInv(t)' BY <1>0
    DEF GroupFound, IInv, ThreadInv, TypeOK, Places, Goto, RoleInv, Gets, IsFile, Name, Asked
  <2>3. ClosedInv(t)' BY <1>0 DEF GroupFound, IInv, ThreadInv, TypeOK, Places, Goto, ClosedInv
  <2>4. BodyInv(t)' BY <1>0
    DEF GroupFound, IInv, ThreadInv, TypeOK, Places, Goto, BodyInv, EmptyInv, RoleInv, OneRun,
        Gets, IsFile, Name, Asked
  <2>5. FoundInv(t)' BY <1>0
    DEF GroupFound, IInv, ThreadInv, TypeOK, Places, Goto, FoundInv, EmptyInv, RoleInv, Gets,
        IsFile, Name, Asked
  <2>6. RetireInv(t)' BY <1>0
    DEF GroupFound, IInv, ThreadInv, TypeOK, Places, Goto, RetireInv, EmptyInv, RoleInv,
        Clears, Between, Gets, IsFile, Name, Asked
  <2> QED BY <2>1, <2>2, <2>3, <2>4, <2>5, <2>6 DEF ThreadInv
<1> QED BY <1>1, <1>2, <1>3, <1>4, OneSteps DEF GroupFound, IInv, TypeOK, Places, Goto

-----------------------------------------------------------------------------
(* A download. *)

\* The recording is there.
LEMMA LocateStep == ASSUME IInv, NEW t \in Threads, Locate(t) PROVE IInv'
<1>0. Name(t) \in Recordings /\ place[Name(t)] \in {"data", "trash", "gone"}
  BY NameIn DEF Locate
<1>1. TypeOK' BY <1>0 DEF Locate, Located, IInv, TypeOK, Places, Goto
<1>2. \A u \in Threads \ {t} : Kept(u) BY DEF Locate, Located, IInv, Kept, TypeOK, Places, Goto
<1>3. Forward BY DEF Locate, Forward, TypeOK, Places, Goto
<1>4. ThreadInv(t)'
  <2>1. EmptyInv(t)' BY <1>0
    DEF Locate, Located, IInv, ThreadInv, TypeOK, Places, Goto, EmptyInv
  <2>2. RoleInv(t)' BY <1>0
    DEF Locate, Located, IInv, ThreadInv, TypeOK, Places, Goto, RoleInv, Gets, IsFile, Name,
        Asked
  <2>3. ClosedInv(t)' BY <1>0
    DEF Locate, Located, IInv, ThreadInv, TypeOK, Places, Goto, ClosedInv
  <2>4. BodyInv(t)'
    <3>1. left'[t] = {Name(t)} /\ body'[t] = {} /\ pc'[t] = "open" /\ response'[t] = "none" /\ UNCHANGED click
      BY DEF Locate, Goto, IInv, TypeOK, ThreadInv, EmptyInv
    <3>2. Name(t)' = Name(t) BY <3>1 DEF Name, Asked
    <3>3. \A n \in (Name(t) + 1)..Name(t) : FALSE
      <4>1. Name(t) \in Nat BY <1>0, DownloadAssumption
      <4> QED BY <4>1
    <3>4. OneRun(t, {Name(t)})' BY <3>2, <3>3 DEF OneRun, IsFile
    <3> QED BY <3>1, <3>2, <3>4 DEF BodyInv
  <2>5. FoundInv(t)' BY <1>0
    DEF Locate, Located, IInv, ThreadInv, TypeOK, Places, Goto, FoundInv, EmptyInv, RoleInv,
        Gets, IsFile, Name, Asked
  <2>6. RetireInv(t)' BY <1>0
    DEF Locate, Located, IInv, ThreadInv, TypeOK, Places, Goto, RetireInv, EmptyInv, RoleInv,
        Clears, Between, Gets, IsFile, Name, Asked
  <2> QED BY <2>1, <2>2, <2>3, <2>4, <2>5, <2>6 DEF ThreadInv
<1> QED BY <1>1, <1>2, <1>3, <1>4, OneSteps DEF Locate, Located, IInv, TypeOK, Places, Goto

\* It is not, and so it is purged.
LEMMA LocateFailsStep == ASSUME IInv, NEW t \in Threads, LocateFails(t) PROVE IInv'
<1>0. Name(t) \in Recordings /\ place[Name(t)] \in {"data", "trash", "gone"}
  BY NameIn DEF LocateFails
<1>1. TypeOK' BY <1>0 DEF LocateFails, Located, IInv, TypeOK, Places, Goto, Respond, result
<1>2. \A u \in Threads \ {t} : Kept(u)
  BY DEF LocateFails, Located, IInv, Kept, TypeOK, Places, Goto, Respond, result
<1>3. Forward BY DEF LocateFails, Forward, TypeOK, Places, Goto, Respond, result
<1>4. ThreadInv(t)'
  <2>1. EmptyInv(t)' BY <1>0
    DEF LocateFails, Located, IInv, ThreadInv, TypeOK, Places, Goto, Respond, result, EmptyInv
  <2>2. RoleInv(t)' BY <1>0
    DEF LocateFails, Located, IInv, ThreadInv, TypeOK, Places, Goto, Respond, result, RoleInv,
        Gets, IsFile, Name, Asked
  <2>3. ClosedInv(t)' BY <1>0
    DEF LocateFails, Located, IInv, ThreadInv, TypeOK, Places, Goto, Respond, result, ClosedInv
  <2>4. BodyInv(t)' BY <1>0
    DEF LocateFails, Located, IInv, ThreadInv, TypeOK, Places, Goto, Respond, result, BodyInv,
        EmptyInv, RoleInv, OneRun, Gets, IsFile, Name, Asked
  <2>5. FoundInv(t)' BY <1>0
    DEF LocateFails, Located, IInv, ThreadInv, TypeOK, Places, Goto, Respond, result,
        FoundInv, EmptyInv, RoleInv, Gets, IsFile, Name, Asked
  <2>6. RetireInv(t)' BY <1>0
    DEF LocateFails, Located, IInv, ThreadInv, TypeOK, Places, Goto, Respond, result,
        RetireInv, EmptyInv, RoleInv, Clears, Between, Gets, IsFile, Name, Asked
  <2> QED BY <2>1, <2>2, <2>3, <2>4, <2>5, <2>6 DEF ThreadInv
<1> QED BY <1>1, <1>2, <1>3, <1>4, OneSteps
  DEF LocateFails, Located, IInv, TypeOK, Places, Goto, Respond, result

\* It is where it was.
LEMMA OpenStep == ASSUME IInv, NEW t \in Threads, Open(t) PROVE IInv'
<1>1. TypeOK' BY DEF Open, IInv, TypeOK, Places, Goto
<1>2. \A u \in Threads \ {t} : Kept(u) BY DEF Open, IInv, Kept, TypeOK, Places, Goto
<1>3. Forward BY DEF Open, Forward, TypeOK, Places, Goto
<1>4. ThreadInv(t)'
  <2>1. EmptyInv(t)' BY DEF Open, IInv, ThreadInv, TypeOK, Places, Goto, EmptyInv
  <2>2. RoleInv(t)'
    BY DEF Open, IInv, ThreadInv, TypeOK, Places, Goto, RoleInv, Gets, IsFile, Name, Asked
  <2>3. ClosedInv(t)' BY DEF Open, IInv, ThreadInv, TypeOK, Places, Goto, ClosedInv
  <2>4. BodyInv(t)'
    BY
      DEF Open, IInv, ThreadInv, TypeOK, Places, Goto, BodyInv, EmptyInv, RoleInv, OneRun,
          Gets, IsFile, Name, Asked
  <2>5. FoundInv(t)'
    BY
      DEF Open, IInv, ThreadInv, TypeOK, Places, Goto, FoundInv, EmptyInv, RoleInv, Gets,
          IsFile, Name, Asked
  <2>6. RetireInv(t)'
    BY
      DEF Open, IInv, ThreadInv, TypeOK, Places, Goto, RetireInv, EmptyInv, RoleInv, Clears,
          Between, Gets, IsFile, Name, Asked
  <2> QED BY <2>1, <2>2, <2>3, <2>4, <2>5, <2>6 DEF ThreadInv
<1> QED BY <1>1, <1>2, <1>3, <1>4, OneSteps DEF Open, IInv, TypeOK, Places, Goto

\* It is not, and so it was moved.
LEMMA OpenFailsStep == ASSUME IInv, NEW t \in Threads, OpenFails(t) PROVE IInv'
<1>0. left[t] # {} => First(left[t]) \in left[t] BY FirstIn DEF IInv, TypeOK
<1>1. TypeOK' BY <1>0 DEF OpenFails, IInv, TypeOK, Places, Goto, Respond, result
<1>2. \A u \in Threads \ {t} : Kept(u)
  BY DEF OpenFails, IInv, Kept, TypeOK, Places, Goto, Respond, result
<1>3. Forward BY DEF OpenFails, Forward, TypeOK, Places, Goto, Respond, result
<1>4. ThreadInv(t)'
  <2>1. EmptyInv(t)' BY <1>0
    DEF OpenFails, IInv, ThreadInv, TypeOK, Places, Goto, Respond, result, EmptyInv
  <2>2. RoleInv(t)' BY <1>0
    DEF OpenFails, IInv, ThreadInv, TypeOK, Places, Goto, Respond, result, RoleInv, Gets,
        IsFile, Name, Asked
  <2>3. ClosedInv(t)' BY <1>0
    DEF OpenFails, IInv, ThreadInv, TypeOK, Places, Goto, Respond, result, ClosedInv
  <2>4. BodyInv(t)' BY <1>0
    DEF OpenFails, IInv, ThreadInv, TypeOK, Places, Goto, Respond, result, BodyInv, EmptyInv,
        RoleInv, OneRun, Gets, IsFile, Name, Asked
  <2>5. FoundInv(t)'
    <3>1. pc[t] = "open" /\ Gets(t) BY DEF OpenFails, IInv, ThreadInv, RoleInv
    <3>2. ASSUME IsFile(t) PROVE Name(t) \in shifted[t]
      <4>1. left[t] = {Name(t)} /\ First(left[t]) = Name(t)
        BY <1>0, <3>1, <3>2 DEF IInv, ThreadInv, EmptyInv, BodyInv, OneRun
      <4> QED BY <3>1, <3>2, <4>1 DEF OpenFails, IInv, ThreadInv, FoundInv
    <3> QED BY <3>1, <3>2
      DEF OpenFails, Respond, Goto, FoundInv, Name, Asked, IsFile, Gets, IInv, TypeOK
  <2>6. RetireInv(t)' BY <1>0
    DEF OpenFails, IInv, ThreadInv, TypeOK, Places, Goto, Respond, result, RetireInv,
        EmptyInv, RoleInv, Clears, Between, Gets, IsFile, Name, Asked
  <2> QED BY <2>1, <2>2, <2>3, <2>4, <2>5, <2>6 DEF ThreadInv
<1> QED BY <1>1, <1>2, <1>3, <1>4, OneSteps
  DEF OpenFails, IInv, TypeOK, Places, Goto, Respond, result

\* A member is merged.
LEMMA MergeNextStep == ASSUME IInv, NEW t \in Threads, MergeNext(t) PROVE IInv'
<1>0. left[t] # {} => First(left[t]) \in left[t] BY FirstIn DEF IInv, TypeOK
<1>1. TypeOK' BY <1>0 DEF MergeNext, IInv, TypeOK, Places
<1>2. \A u \in Threads \ {t} : Kept(u) BY DEF MergeNext, IInv, Kept, TypeOK, Places
<1>3. Forward BY DEF MergeNext, Forward, TypeOK, Places
<1>4. ThreadInv(t)'
  <2>1. EmptyInv(t)' BY <1>0 DEF MergeNext, IInv, ThreadInv, TypeOK, Places, EmptyInv
  <2>2. RoleInv(t)' BY <1>0
    DEF MergeNext, IInv, ThreadInv, TypeOK, Places, RoleInv, Gets, IsFile, Name, Asked
  <2>3. ClosedInv(t)' BY <1>0 DEF MergeNext, IInv, ThreadInv, TypeOK, Places, ClosedInv
  <2>4. BodyInv(t)' BY <1>0
    DEF MergeNext, IInv, ThreadInv, TypeOK, Places, BodyInv, EmptyInv, RoleInv, OneRun, Gets,
        IsFile, Name, Asked
  <2>5. FoundInv(t)' BY <1>0
    DEF MergeNext, IInv, ThreadInv, TypeOK, Places, FoundInv, EmptyInv, RoleInv, Gets, IsFile,
        Name, Asked
  <2>6. RetireInv(t)' BY <1>0
    DEF MergeNext, IInv, ThreadInv, TypeOK, Places, RetireInv, EmptyInv, RoleInv, Clears,
        Between, Gets, IsFile, Name, Asked
  <2> QED BY <2>1, <2>2, <2>3, <2>4, <2>5, <2>6 DEF ThreadInv
<1> QED BY <1>1, <1>2, <1>3, <1>4, OneSteps DEF MergeNext, IInv, TypeOK, Places

\* A member is missing.
LEMMA MergeFailsStep == ASSUME IInv, NEW t \in Threads, MergeFails(t) PROVE IInv'
<1>1. TypeOK' BY DEF MergeFails, IInv, TypeOK, Places, Goto, Respond, result
<1>2. \A u \in Threads \ {t} : Kept(u)
  BY DEF MergeFails, IInv, Kept, TypeOK, Places, Goto, Respond, result
<1>3. Forward BY DEF MergeFails, Forward, TypeOK, Places, Goto, Respond, result
<1>4. ThreadInv(t)'
  <2>1. EmptyInv(t)'
    BY DEF MergeFails, IInv, ThreadInv, TypeOK, Places, Goto, Respond, result, EmptyInv
  <2>2. RoleInv(t)'
    BY
      DEF MergeFails, IInv, ThreadInv, TypeOK, Places, Goto, Respond, result, RoleInv, Gets,
          IsFile, Name, Asked
  <2>3. ClosedInv(t)'
    BY DEF MergeFails, IInv, ThreadInv, TypeOK, Places, Goto, Respond, result, ClosedInv
  <2>4. BodyInv(t)'
    BY
      DEF MergeFails, IInv, ThreadInv, TypeOK, Places, Goto, Respond, result, BodyInv,
          EmptyInv, RoleInv, OneRun, Gets, IsFile, Name, Asked
  <2>5. FoundInv(t)'
    BY
      DEF MergeFails, IInv, ThreadInv, TypeOK, Places, Goto, Respond, result, FoundInv,
          EmptyInv, RoleInv, Gets, IsFile, Name, Asked
  <2>6. RetireInv(t)'
    BY
      DEF MergeFails, IInv, ThreadInv, TypeOK, Places, Goto, Respond, result, RetireInv,
          EmptyInv, RoleInv, Clears, Between, Gets, IsFile, Name, Asked
  <2> QED BY <2>1, <2>2, <2>3, <2>4, <2>5, <2>6 DEF ThreadInv
<1> QED BY <1>1, <1>2, <1>3, <1>4, OneSteps
  DEF MergeFails, IInv, TypeOK, Places, Goto, Respond, result

\* All are merged.
LEMMA MergeDoneStep == ASSUME IInv, NEW t \in Threads, MergeDone(t) PROVE IInv'
<1>1. TypeOK' BY DEF MergeDone, IInv, TypeOK, Places, Goto
<1>2. \A u \in Threads \ {t} : Kept(u) BY DEF MergeDone, IInv, Kept, TypeOK, Places, Goto
<1>3. Forward BY DEF MergeDone, Forward, TypeOK, Places, Goto
<1>4. ThreadInv(t)'
  <2>1. EmptyInv(t)' BY DEF MergeDone, IInv, ThreadInv, TypeOK, Places, Goto, EmptyInv
  <2>2. RoleInv(t)'
    BY DEF MergeDone, IInv, ThreadInv, TypeOK, Places, Goto, RoleInv, Gets, IsFile, Name, Asked
  <2>3. ClosedInv(t)' BY DEF MergeDone, IInv, ThreadInv, TypeOK, Places, Goto, ClosedInv
  <2>4. BodyInv(t)'
    BY
      DEF MergeDone, IInv, ThreadInv, TypeOK, Places, Goto, BodyInv, EmptyInv, RoleInv,
          OneRun, Gets, IsFile, Name, Asked
  <2>5. FoundInv(t)'
    BY
      DEF MergeDone, IInv, ThreadInv, TypeOK, Places, Goto, FoundInv, EmptyInv, RoleInv, Gets,
          IsFile, Name, Asked
  <2>6. RetireInv(t)'
    BY
      DEF MergeDone, IInv, ThreadInv, TypeOK, Places, Goto, RetireInv, EmptyInv, RoleInv,
          Clears, Between, Gets, IsFile, Name, Asked
  <2> QED BY <2>1, <2>2, <2>3, <2>4, <2>5, <2>6 DEF ThreadInv
<1> QED BY <1>1, <1>2, <1>3, <1>4, OneSteps DEF MergeDone, IInv, TypeOK, Places, Goto

\* A recording is sent.
LEMMA StreamStep == ASSUME IInv, NEW t \in Threads, Stream(t) PROVE IInv'
<1>0. left[t] # {} => First(left[t]) \in left[t] BY FirstIn DEF IInv, TypeOK
<1>1. TypeOK' BY <1>0 DEF Stream, IInv, TypeOK, Places
<1>2. \A u \in Threads \ {t} : Kept(u) BY DEF Stream, IInv, Kept, TypeOK, Places
<1>3. Forward BY DEF Stream, Forward, TypeOK, Places
<1>4. ThreadInv(t)'
  <2>1. EmptyInv(t)' BY <1>0 DEF Stream, IInv, ThreadInv, TypeOK, Places, EmptyInv
  <2>2. RoleInv(t)' BY <1>0
    DEF Stream, IInv, ThreadInv, TypeOK, Places, RoleInv, Gets, IsFile, Name, Asked
  <2>3. ClosedInv(t)' BY <1>0 DEF Stream, IInv, ThreadInv, TypeOK, Places, ClosedInv
  <2>4. BodyInv(t)' BY <1>0
    DEF Stream, IInv, ThreadInv, TypeOK, Places, BodyInv, EmptyInv, RoleInv, OneRun, Gets,
        IsFile, Name, Asked
  <2>5. FoundInv(t)' BY <1>0
    DEF Stream, IInv, ThreadInv, TypeOK, Places, FoundInv, EmptyInv, RoleInv, Gets, IsFile,
        Name, Asked
  <2>6. RetireInv(t)' BY <1>0
    DEF Stream, IInv, ThreadInv, TypeOK, Places, RetireInv, EmptyInv, RoleInv, Clears,
        Between, Gets, IsFile, Name, Asked
  <2> QED BY <2>1, <2>2, <2>3, <2>4, <2>5, <2>6 DEF ThreadInv
<1> QED BY <1>1, <1>2, <1>3, <1>4, OneSteps DEF Stream, IInv, TypeOK, Places

\* The body ends, and nothing of it is left.
LEMMA StreamEndsStep == ASSUME IInv, NEW t \in Threads, StreamEnds(t) PROVE IInv'
<1>0. left[t] # {} => First(left[t]) \in left[t] BY FirstIn DEF IInv, TypeOK
<1>9. left[t] = {} BY <1>0 DEF StreamEnds, Readable, IInv, ThreadInv, BodyInv
<1>1. TypeOK' BY DEF StreamEnds, IInv, TypeOK, Places, Goto, Respond, result
<1>2. \A u \in Threads \ {t} : Kept(u)
  BY DEF StreamEnds, IInv, Kept, TypeOK, Places, Goto, Respond, result
<1>3. Forward BY DEF StreamEnds, Forward, TypeOK, Places, Goto, Respond, result
<1>4. ThreadInv(t)'
  <2>1. EmptyInv(t)' BY <1>9
    DEF StreamEnds, IInv, ThreadInv, TypeOK, Places, Goto, Respond, result, EmptyInv
  <2>2. RoleInv(t)' BY <1>9
    DEF StreamEnds, IInv, ThreadInv, TypeOK, Places, Goto, Respond, result, RoleInv, Gets,
        IsFile, Name, Asked
  <2>3. ClosedInv(t)' BY <1>9
    DEF StreamEnds, IInv, ThreadInv, TypeOK, Places, Goto, Respond, result, ClosedInv
  <2>4. BodyInv(t)'
    <3>1. pc[t] = "stream" /\ pc'[t] = "done" /\ response'[t] = "200" /\ UNCHANGED <<click, body, sent>>
      BY DEF StreamEnds, Respond, Goto, result, IInv, TypeOK
    <3>2. OneRun(t, body[t]) /\ sent[t] = body[t] BY <1>9, <3>1 DEF IInv, ThreadInv, BodyInv
    <3> QED BY <3>1, <3>2 DEF BodyInv, OneRun, Name, Asked, IsFile
  <2>5. FoundInv(t)' BY <1>9
    DEF StreamEnds, IInv, ThreadInv, TypeOK, Places, Goto, Respond, result, FoundInv,
        EmptyInv, RoleInv, Gets, IsFile, Name, Asked
  <2>6. RetireInv(t)' BY <1>9
    DEF StreamEnds, IInv, ThreadInv, TypeOK, Places, Goto, Respond, result, RetireInv,
        EmptyInv, RoleInv, Clears, Between, Gets, IsFile, Name, Asked
  <2> QED BY <2>1, <2>2, <2>3, <2>4, <2>5, <2>6 DEF ThreadInv
<1> QED BY <1>1, <1>2, <1>3, <1>4, OneSteps
  DEF StreamEnds, IInv, TypeOK, Places, Goto, Respond, result

-----------------------------------------------------------------------------
(* A recording or a group is retired. *)

\* Nothing is to be retired.
LEMMA KeepStep == ASSUME IInv, NEW t \in Threads, Keep(t) PROVE IInv'
<1>1. TypeOK' BY DEF Keep, IInv, TypeOK, Places, Goto, Respond, result
<1>2. \A u \in Threads \ {t} : Kept(u)
  BY DEF Keep, IInv, Kept, TypeOK, Places, Goto, Respond, result
<1>3. Forward BY DEF Keep, Forward, TypeOK, Places, Goto, Respond, result
<1>4. ThreadInv(t)'
  <2>1. EmptyInv(t)'
    BY DEF Keep, IInv, ThreadInv, TypeOK, Places, Goto, Respond, result, EmptyInv
  <2>2. RoleInv(t)'
    BY
      DEF Keep, IInv, ThreadInv, TypeOK, Places, Goto, Respond, result, RoleInv, Gets, IsFile,
          Name, Asked
  <2>3. ClosedInv(t)'
    BY DEF Keep, IInv, ThreadInv, TypeOK, Places, Goto, Respond, result, ClosedInv
  <2>4. BodyInv(t)'
    BY
      DEF Keep, IInv, ThreadInv, TypeOK, Places, Goto, Respond, result, BodyInv, EmptyInv,
          RoleInv, OneRun, Gets, IsFile, Name, Asked
  <2>5. FoundInv(t)'
    BY
      DEF Keep, IInv, ThreadInv, TypeOK, Places, Goto, Respond, result, FoundInv, EmptyInv,
          RoleInv, Gets, IsFile, Name, Asked
  <2>6. RetireInv(t)'
    BY
      DEF Keep, IInv, ThreadInv, TypeOK, Places, Goto, Respond, result, RetireInv, EmptyInv,
          RoleInv, Clears, Between, Gets, IsFile, Name, Asked
  <2> QED BY <2>1, <2>2, <2>3, <2>4, <2>5, <2>6 DEF ThreadInv
<1> QED BY <1>1, <1>2, <1>3, <1>4, OneSteps
  DEF Keep, IInv, TypeOK, Places, Goto, Respond, result

\* The recording is in the list.
LEMMA CollectedStep == ASSUME IInv, NEW t \in Threads, Collected(t) PROVE IInv'
<1>0. Name(t) \in Recordings /\ place[Name(t)] \in {"data", "trash", "gone"}
  BY NameIn DEF Collected
<1>1. TypeOK' BY <1>0 DEF Collected, IInv, TypeOK, Places, Goto
<1>2. \A u \in Threads \ {t} : Kept(u) BY DEF Collected, IInv, Kept, TypeOK, Places, Goto
<1>3. Forward BY DEF Collected, Forward, TypeOK, Places, Goto
<1>4. ThreadInv(t)'
  <2>1. EmptyInv(t)' BY <1>0 DEF Collected, IInv, ThreadInv, TypeOK, Places, Goto, EmptyInv
  <2>2. RoleInv(t)' BY <1>0
    DEF Collected, IInv, ThreadInv, TypeOK, Places, Goto, RoleInv, Gets, IsFile, Name, Asked
  <2>3. ClosedInv(t)' BY <1>0 DEF Collected, IInv, ThreadInv, TypeOK, Places, Goto, ClosedInv
  <2>4. BodyInv(t)' BY <1>0
    DEF Collected, IInv, ThreadInv, TypeOK, Places, Goto, BodyInv, EmptyInv, RoleInv, OneRun,
        Gets, IsFile, Name, Asked
  <2>5. FoundInv(t)' BY <1>0
    DEF Collected, IInv, ThreadInv, TypeOK, Places, Goto, FoundInv, EmptyInv, RoleInv, Gets,
        IsFile, Name, Asked
  <2>6. RetireInv(t)'
    <3>1. left'[t] = {Name(t)} /\ moved'[t] = {} /\ UNCHANGED <<place, click>>
      BY DEF Collected, IInv, TypeOK, ThreadInv, EmptyInv
    <3>2. ASSUME NEW n \in Between(Name(t), Name(t)) PROVE n = Name(t)
      <4>1. n \in Nat /\ Name(t) \in Nat BY <1>0, DownloadAssumption DEF Between
      <4>2. (Name(t) <= n /\ n <= Name(t)) \/ (Name(t) <= n /\ n <= Name(t)) BY DEF Between
      <4> QED BY <4>1, <4>2
    <3>3. Clears(t, Name(t))' BY <1>0, <3>1, <3>2, DownloadAssumption
      DEF Clears, Name, Asked, IsFile, Between
    <3>4. Name(t)' = Name(t) BY <3>1 DEF Name, Asked
    <3> QED BY <3>1, <3>3, <3>4 DEF RetireInv
  <2> QED BY <2>1, <2>2, <2>3, <2>4, <2>5, <2>6 DEF ThreadInv
<1> QED BY <1>1, <1>2, <1>3, <1>4, OneSteps DEF Collected, IInv, TypeOK, Places, Goto

\* It is not.
LEMMA CollectedMissingStep == ASSUME IInv, NEW t \in Threads, CollectedMissing(t) PROVE IInv'
<1>1. TypeOK' BY DEF CollectedMissing, IInv, TypeOK, Places, Goto, Respond, result
<1>2. \A u \in Threads \ {t} : Kept(u)
  BY DEF CollectedMissing, IInv, Kept, TypeOK, Places, Goto, Respond, result
<1>3. Forward BY DEF CollectedMissing, Forward, TypeOK, Places, Goto, Respond, result
<1>4. ThreadInv(t)'
  <2>1. EmptyInv(t)'
    BY DEF CollectedMissing, IInv, ThreadInv, TypeOK, Places, Goto, Respond, result, EmptyInv
  <2>2. RoleInv(t)'
    BY
      DEF CollectedMissing, IInv, ThreadInv, TypeOK, Places, Goto, Respond, result, RoleInv,
          Gets, IsFile, Name, Asked
  <2>3. ClosedInv(t)'
    BY DEF CollectedMissing, IInv, ThreadInv, TypeOK, Places, Goto, Respond, result, ClosedInv
  <2>4. BodyInv(t)'
    BY
      DEF CollectedMissing, IInv, ThreadInv, TypeOK, Places, Goto, Respond, result, BodyInv,
          EmptyInv, RoleInv, OneRun, Gets, IsFile, Name, Asked
  <2>5. FoundInv(t)'
    BY
      DEF CollectedMissing, IInv, ThreadInv, TypeOK, Places, Goto, Respond, result, FoundInv,
          EmptyInv, RoleInv, Gets, IsFile, Name, Asked
  <2>6. RetireInv(t)'
    BY
      DEF CollectedMissing, IInv, ThreadInv, TypeOK, Places, Goto, Respond, result, RetireInv,
          EmptyInv, RoleInv, Clears, Between, Gets, IsFile, Name, Asked
  <2> QED BY <2>1, <2>2, <2>3, <2>4, <2>5, <2>6 DEF ThreadInv
<1> QED BY <1>1, <1>2, <1>3, <1>4, OneSteps
  DEF CollectedMissing, IInv, TypeOK, Places, Goto, Respond, result

\* One that is to be moved has gone already.
LEMMA MoveMissingStep == ASSUME IInv, NEW t \in Threads, MoveMissing(t) PROVE IInv'
<1>0. left[t] # {} => First(left[t]) \in left[t] BY FirstIn DEF IInv, TypeOK
<1>1. TypeOK' BY <1>0 DEF MoveMissing, IInv, TypeOK, Places
<1>2. \A u \in Threads \ {t} : Kept(u) BY DEF MoveMissing, IInv, Kept, TypeOK, Places
<1>3. Forward BY DEF MoveMissing, Forward, TypeOK, Places
<1>4. ThreadInv(t)'
  <2>1. EmptyInv(t)' BY <1>0 DEF MoveMissing, IInv, ThreadInv, TypeOK, Places, EmptyInv
  <2>2. RoleInv(t)' BY <1>0
    DEF MoveMissing, IInv, ThreadInv, TypeOK, Places, RoleInv, Gets, IsFile, Name, Asked
  <2>3. ClosedInv(t)' BY <1>0 DEF MoveMissing, IInv, ThreadInv, TypeOK, Places, ClosedInv
  <2>4. BodyInv(t)' BY <1>0
    DEF MoveMissing, IInv, ThreadInv, TypeOK, Places, BodyInv, EmptyInv, RoleInv, OneRun,
        Gets, IsFile, Name, Asked
  <2>5. FoundInv(t)' BY <1>0
    DEF MoveMissing, IInv, ThreadInv, TypeOK, Places, FoundInv, EmptyInv, RoleInv, Gets,
        IsFile, Name, Asked
  <2>6. RetireInv(t)'
    <3> DEFINE q == First(left[t])
    <3>1. /\ left'[t] = left[t] \ {q} /\ place'[q] \in {"trash", "gone"} /\ q \in Recordings
          /\ \A n \in Recordings : place[n] \in {"trash", "gone"} => place'[n] \in {"trash", "gone"}
          /\ moved'[t] \subseteq moved[t] \cup {q} /\ q \in left[t] /\ UNCHANGED click /\ ~Gets(t)
      BY <1>0 DEF MoveMissing, IInv, ThreadInv, EmptyInv, RoleInv, ClosedInv, TypeOK, Places
    <3>2. Name(t)' = Name(t) /\ Name(t) \in Recordings
      BY <3>1, NameIn DEF MoveMissing, Name, Asked
    <3>3. moved[t] \subseteq Recordings BY DEF IInv, TypeOK
    <3> HIDE DEF q
    <3>4. \A r \in moved'[t] : place'[r] \in {"trash", "gone"}
      BY <3>1, <3>3 DEF IInv, ThreadInv, RetireInv
    <3>5. ASSUME NEW r \in moved'[t] \cup left'[t] PROVE Clears(t, r)'
      <4>1. Clears(t, r) BY <3>1 DEF IInv, ThreadInv, RetireInv
      <4>2. Between(r, Name(t))' = Between(r, Name(t)) /\ Between(r, Name(t)) \subseteq Recordings
        BY <3>2 DEF Between
      <4> QED BY <3>1, <3>2, <4>1, <4>2 DEF Clears, IsFile
    <3> QED BY <3>4, <3>5 DEF RetireInv
  <2> QED BY <2>1, <2>2, <2>3, <2>4, <2>5, <2>6 DEF ThreadInv
<1> QED BY <1>1, <1>2, <1>3, <1>4, OneSteps DEF MoveMissing, IInv, TypeOK, Places

\* It is there.
LEMMA MoveSeenStep == ASSUME IInv, NEW t \in Threads, MoveSeen(t) PROVE IInv'
<1>1. TypeOK' BY DEF MoveSeen, IInv, TypeOK, Places, Goto, request, result
<1>2. \A u \in Threads \ {t} : Kept(u)
  BY DEF MoveSeen, IInv, Kept, TypeOK, Places, Goto, request, result
<1>3. Forward BY DEF MoveSeen, Forward, TypeOK, Places, Goto, request, result
<1>4. ThreadInv(t)'
  <2>1. EmptyInv(t)'
    BY DEF MoveSeen, IInv, ThreadInv, TypeOK, Places, Goto, request, result, EmptyInv
  <2>2. RoleInv(t)'
    BY
      DEF MoveSeen, IInv, ThreadInv, TypeOK, Places, Goto, request, result, RoleInv, Gets,
          IsFile, Name, Asked
  <2>3. ClosedInv(t)'
    BY DEF MoveSeen, IInv, ThreadInv, TypeOK, Places, Goto, request, result, ClosedInv
  <2>4. BodyInv(t)'
    BY
      DEF MoveSeen, IInv, ThreadInv, TypeOK, Places, Goto, request, result, BodyInv, EmptyInv,
          RoleInv, OneRun, Gets, IsFile, Name, Asked
  <2>5. FoundInv(t)'
    BY
      DEF MoveSeen, IInv, ThreadInv, TypeOK, Places, Goto, request, result, FoundInv,
          EmptyInv, RoleInv, Gets, IsFile, Name, Asked
  <2>6. RetireInv(t)'
    BY
      DEF MoveSeen, IInv, ThreadInv, TypeOK, Places, Goto, request, result, RetireInv,
          EmptyInv, RoleInv, Clears, Between, Gets, IsFile, Name, Asked
  <2> QED BY <2>1, <2>2, <2>3, <2>4, <2>5, <2>6 DEF ThreadInv
<1> QED BY <1>1, <1>2, <1>3, <1>4, OneSteps
  DEF MoveSeen, IInv, TypeOK, Places, Goto, request, result

\* It is moved, unless it has gone meanwhile.
LEMMA ReplaceStep == ASSUME IInv, NEW t \in Threads, Replace(t) PROVE IInv'
<1>0. left[t] # {} => First(left[t]) \in left[t] BY FirstIn DEF IInv, TypeOK
<1>1. TypeOK' BY <1>0
  DEF Replace, ReportMove, Shift, ThreadInv, EmptyInv, IInv, TypeOK, Places, Goto
<1>2. \A u \in Threads \ {t} : Kept(u) BY DEF Replace, IInv, Kept, TypeOK, Places, Goto, Shift
<1>3. Forward BY <1>0
  DEF Replace, Forward, Shift, IInv, ThreadInv, EmptyInv, TypeOK, Places, Goto
<1>4. ThreadInv(t)'
  <2>1. EmptyInv(t)' BY <1>0
    DEF Replace, ReportMove, Shift, IInv, ThreadInv, TypeOK, Places, Goto, EmptyInv
  <2>2. RoleInv(t)'
    <3>1. pc[t] = "replace" /\ pc'[t] = "move" /\ UNCHANGED click /\ ~Gets(t)
      BY DEF Replace, ReportMove, Shift, Goto, IInv, TypeOK, ThreadInv, RoleInv
    <3>2. Name(t) \in Recordings /\ place[Name(t)] # "partial" BY <3>1, NameIn
    <3>3. place'[Name(t)] # "partial" BY <1>3, <3>2 DEF Forward
    <3> QED BY <3>1, <3>3 DEF IInv, ThreadInv, RoleInv, Name, Asked, Gets, IsFile
  <2>3. ClosedInv(t)' BY <1>0
    DEF Replace, ReportMove, Shift, IInv, ThreadInv, TypeOK, Places, Goto, ClosedInv
  <2>4. BodyInv(t)' BY <1>0
    DEF Replace, ReportMove, Shift, IInv, ThreadInv, TypeOK, Places, Goto, BodyInv, EmptyInv,
        RoleInv, OneRun, Gets, IsFile, Name, Asked
  <2>5. FoundInv(t)' BY <1>0
    DEF Replace, ReportMove, Shift, IInv, ThreadInv, TypeOK, Places, Goto, FoundInv, EmptyInv,
        RoleInv, Gets, IsFile, Name, Asked
  <2>6. RetireInv(t)'
    <3> DEFINE q == First(left[t])
    <3>1. /\ left'[t] = left[t] \ {q} /\ place'[q] \in {"trash", "gone"} /\ q \in Recordings
          /\ \A n \in Recordings : place[n] \in {"trash", "gone"} => place'[n] \in {"trash", "gone"}
          /\ moved'[t] \subseteq moved[t] \cup {q} /\ q \in left[t] /\ UNCHANGED click /\ ~Gets(t)
      BY <1>0
        DEF Replace, ReportMove, Shift, IInv, ThreadInv, EmptyInv, RoleInv, ClosedInv, TypeOK,
            Places
    <3>2. Name(t)' = Name(t) /\ Name(t) \in Recordings
      BY <3>1, NameIn DEF Replace, ReportMove, Shift, Name, Asked
    <3>3. moved[t] \subseteq Recordings BY DEF IInv, TypeOK
    <3> HIDE DEF q
    <3>4. \A r \in moved'[t] : place'[r] \in {"trash", "gone"}
      BY <3>1, <3>3 DEF IInv, ThreadInv, RetireInv
    <3>5. ASSUME NEW r \in moved'[t] \cup left'[t] PROVE Clears(t, r)'
      <4>1. Clears(t, r) BY <3>1 DEF IInv, ThreadInv, RetireInv
      <4>2. Between(r, Name(t))' = Between(r, Name(t)) /\ Between(r, Name(t)) \subseteq Recordings
        BY <3>2 DEF Between
      <4> QED BY <3>1, <3>2, <4>1, <4>2 DEF Clears, IsFile
    <3> QED BY <3>4, <3>5 DEF RetireInv
  <2> QED BY <2>1, <2>2, <2>3, <2>4, <2>5, <2>6 DEF ThreadInv
<1> QED BY <1>0, <1>1, <1>2, <1>3, <1>4, OneSteps
  DEF Replace, ReportMove, IInv, ThreadInv, EmptyInv, TypeOK, Places, Goto

\* All are moved.
LEMMA MoveDoneStep == ASSUME IInv, NEW t \in Threads, MoveDone(t) PROVE IInv'
<1>1. TypeOK' BY DEF MoveDone, IInv, TypeOK, Places, Goto, Respond, result
<1>2. \A u \in Threads \ {t} : Kept(u)
  BY DEF MoveDone, IInv, Kept, TypeOK, Places, Goto, Respond, result
<1>3. Forward BY DEF MoveDone, Forward, TypeOK, Places, Goto, Respond, result
<1>4. ThreadInv(t)'
  <2>1. EmptyInv(t)'
    BY DEF MoveDone, IInv, ThreadInv, TypeOK, Places, Goto, Respond, result, EmptyInv
  <2>2. RoleInv(t)'
    BY
      DEF MoveDone, IInv, ThreadInv, TypeOK, Places, Goto, Respond, result, RoleInv, Gets,
          IsFile, Name, Asked
  <2>3. ClosedInv(t)'
    BY DEF MoveDone, IInv, ThreadInv, TypeOK, Places, Goto, Respond, result, ClosedInv
  <2>4. BodyInv(t)'
    BY
      DEF MoveDone, IInv, ThreadInv, TypeOK, Places, Goto, Respond, result, BodyInv, EmptyInv,
          RoleInv, OneRun, Gets, IsFile, Name, Asked
  <2>5. FoundInv(t)'
    BY
      DEF MoveDone, IInv, ThreadInv, TypeOK, Places, Goto, Respond, result, FoundInv,
          EmptyInv, RoleInv, Gets, IsFile, Name, Asked
  <2>6. RetireInv(t)'
    BY
      DEF MoveDone, IInv, ThreadInv, TypeOK, Places, Goto, Respond, result, RetireInv,
          EmptyInv, RoleInv, Clears, Between, Gets, IsFile, Name, Asked
  <2> QED BY <2>1, <2>2, <2>3, <2>4, <2>5, <2>6 DEF ThreadInv
<1> QED BY <1>1, <1>2, <1>3, <1>4, OneSteps
  DEF MoveDone, IInv, TypeOK, Places, Goto, Respond, result

-----------------------------------------------------------------------------
(* The world. *)

\* A click, which gives its two requests a name.
LEMMA ClickStep ==
  ASSUME IInv, NEW c \in Clicks, NEW r \in Recordings, ClickOn(c, r) PROVE IInv'
<1>1. /\ click' = [click EXCEPT ![c] = [name |-> r, listed |-> place[r] = "data"]]
      /\ pc' = [t \in Threads |-> IF t[1] = c THEN "start" ELSE pc[t]]
      /\ click[c] = NoClick /\ place[r] # "partial"
      /\ UNCHANGED <<place, retiring, todo, found, left, from, body, sent, moved, response, shifted>>
  BY DEF ClickOn, request, result
<1>2. [name |-> r, listed |-> place[r] = "data"] \in Click BY DEF Click
<1>3. [name |-> r, listed |-> place[r] = "data"] # NoClick
  <2>1. "name" \in DOMAIN [name |-> r, listed |-> place[r] = "data"] OBVIOUS
  <2>2. "name" \notin DOMAIN NoClick BY DEF NoClick
  <2> QED BY <2>1, <2>2
<1>4. TypeOK' BY <1>1, <1>2 DEF IInv, TypeOK
<1>5. Forward BY <1>1 DEF Forward
<1>6. ASSUME NEW t \in Threads, t[1] # c PROVE ThreadInv(t)'
  <2>1. Kept(t) BY <1>1, <1>6 DEF Kept, IInv, TypeOK
  <2> QED BY <1>5, <2>1, Bystander DEF IInv
<1>7. ASSUME NEW t \in Threads, t[1] = c PROVE ThreadInv(t)'
  <2>1. pc[t] = "idle" BY <1>1, <1>7 DEF IInv, ThreadInv, RoleInv
  <2>2. /\ pc'[t] = "start" /\ click'[t[1]] = [name |-> r, listed |-> place[r] = "data"]
        /\ Name(t)' = r
    BY <1>1, <1>7 DEF IInv, TypeOK, Name, Asked
  <2>3. /\ todo'[t] = todo[t] /\ found'[t] = found[t] /\ left'[t] = {} /\ body'[t] = {} /\ sent'[t] = {}
        /\ moved'[t] = {} /\ response'[t] = "none"
    BY <1>1, <2>1 DEF IInv, ThreadInv, EmptyInv
  <2>4. EmptyInv(t)' /\ BodyInv(t)' /\ FoundInv(t)' /\ RetireInv(t)'
    BY <2>2, <2>3 DEF EmptyInv, BodyInv, FoundInv, RetireInv
  <2>5. RoleInv(t)' BY <1>1, <1>2, <1>3, <2>2, <2>3 DEF RoleInv
  <2>6. ClosedInv(t)' BY <1>1, <2>3 DEF IInv, ThreadInv, ClosedInv
  <2> QED BY <2>4, <2>5, <2>6 DEF ThreadInv
<1>8. ApartInv' BY <1>1 DEF IInv, ApartInv
<1> QED BY <1>4, <1>6, <1>7, <1>8 DEF IInv

\* The recorder's thread purges, or closes a recording.
LEMMA RecorderStep ==
  ASSUME IInv, NEW r \in Recordings, Purge(r) \/ CloseRecording(r) PROVE IInv'
<1>1. TypeOK' BY DEF Purge, CloseRecording, Shift, IInv, TypeOK, Places, request, result
<1>2. Forward BY DEF Purge, CloseRecording, Shift, Forward, IInv, TypeOK
<1>3. \A t \in Threads : Kept(t)
  BY DEF Purge, CloseRecording, Shift, Kept, IInv, TypeOK, request, result
<1>4. \A t \in Threads : ThreadInv(t)' BY <1>2, <1>3, Bystander DEF IInv
<1>5. ApartInv' BY DEF Purge, CloseRecording, IInv, ApartInv, request, result
<1> QED BY <1>1, <1>4, <1>5 DEF IInv

-----------------------------------------------------------------------------
\* Every step of a request, of a click and of the recorder keeps the invariant.
THEOREM StepInv == IInv /\ [Next]_vars => IInv'
<1> SUFFICES ASSUME IInv, [Next]_vars PROVE IInv' OBVIOUS
<1>1. CASE UNCHANGED vars
  <2>1. TypeOK' /\ ApartInv' BY <1>1 DEF vars, IInv, TypeOK, ApartInv
  <2>2. Forward /\ \A t \in Threads : Kept(t) BY <1>1 DEF vars, Forward, Kept
  <2>3. \A t \in Threads : ThreadInv(t)' BY <2>2, Bystander DEF IInv
  <2> QED BY <2>1, <2>3 DEF IInv
<1>2. CASE \E c \in Clicks, r \in Recordings : ClickOn(c, r) BY <1>2, ClickStep
<1>3. ASSUME NEW t \in Threads, FindGroup(t) \/ Download(t) \/ Retire(t) PROVE IInv'
  <2>1. CASE FindGroup(t)
    BY <2>1, ListDirStep, GroupMissingStep, GroupFoundStep, DescribeStep DEF FindGroup
  <2>2. CASE Download(t)
    BY <2>2, LocateStep, LocateFailsStep, OpenStep, OpenFailsStep, MergeNextStep,
    MergeFailsStep,
       MergeDoneStep, StreamStep, StreamEndsStep DEF Download
  <2>3. CASE Retire(t)
    BY <2>3, KeepStep, CollectedStep, CollectedMissingStep, MoveMissingStep, MoveSeenStep,
       ReplaceStep, MoveDoneStep DEF Retire
  <2> QED BY <1>3, <2>1, <2>2, <2>3
<1>4. CASE \E r \in Recordings : Purge(r) \/ CloseRecording(r) BY <1>4, RecorderStep
<1> QED BY <1>1, <1>2, <1>3, <1>4 DEF Next

\* The invariant always holds.
THEOREM Invariance == Spec => []IInv
BY InitInv, StepInv, PTL DEF Spec

\* The variables have their types (TypeOK).
THEOREM TypeCorrect == Spec => []TypeOK
<1>1. IInv => TypeOK BY DEF IInv
<1> QED BY <1>1, Invariance, PTL

\* What is sent is the recording clicked, or a run of recordings without a gap that holds
\* it (api_download_group, group_containing, merge).
THEOREM BodyIsAlwaysOneRun == Spec => []BodyIsOneRun
<1>1. IInv => BodyIsOneRun BY DEF IInv, ThreadInv, BodyInv, BodyIsOneRun, Sending, OneRun
<1> QED BY <1>1, Invariance, PTL

\* A response that was begun is sent to the end, whatever is moved meanwhile (_send).
THEOREM PromiseIsAlwaysKept == Spec => []PromiseKept
<1>1. IInv => PromiseKept BY DEF IInv, ThreadInv, BodyInv, PromiseKept
<1> QED BY <1>1, Invariance, PTL

\* The two requests of a click on a recording may come in either order (locate).
THEOREM EitherOrderAlwaysDelivers == Spec => []EitherOrderDelivers
<1>1. IInv => EitherOrderDelivers BY DEF IInv, ThreadInv, FoundInv, EitherOrderDelivers
<1> QED BY <1>1, Invariance, PTL

\* A POST retires the measurement clicked and no other, and reports what it retired itself
\* (api_collected_group, move_to_trash).
THEOREM OneRunIsAlwaysRetired == Spec => []RetiresOneRun
<1>1. ASSUME IInv PROVE RetiresOneRun
  <2> SUFFICES ASSUME NEW t \in Threads, NEW r \in moved[t]
               PROVE  /\ place[r] \in {"trash", "gone"}
                      /\ \A u \in Threads \ {t} : r \notin moved[u]
                      /\ Clears(t, r)
    BY DEF RetiresOneRun, Clears
  <2>1. ~Gets(t) BY <1>1 DEF IInv, ThreadInv, RoleInv
  <2>2. place[r] \in {"trash", "gone"} /\ Clears(t, r) BY <1>1, <2>1
    DEF IInv, ThreadInv, RetireInv
  <2>3. \A u \in Threads \ {t} : r \notin moved[u] BY <1>1 DEF IInv, ApartInv
  <2> QED BY <2>2, <2>3
<1> QED BY <1>1, Invariance, PTL

=============================================================================
