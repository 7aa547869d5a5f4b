-------------------------------- MODULE Store --------------------------------
(***************************************************************************)
(* What the card promises of recordings, whatever power cuts and refused   *)
(* system calls do to the steps that keep the promise (module Card):       *)
(*   - a recording goes one way, from being recorded to being listed, from *)
(*     the list to the trash, and from the trash away;                     *)
(*   - blocks that are safe stay safe, and those of a listed recording     *)
(*     neither grow nor shrink;                                            *)
(*   - what is listed has a block;                                         *)
(*   - a recording with blocks makes room only to one that got its number  *)
(*     Rotation numbers later or more.                                     *)
(***************************************************************************)
EXTENDS Integers

CONSTANTS Recordings, Rotation, Sizes, Numbers

VARIABLES stage, safe, number

vars == <<stage, safe, number>>

Stages == {"none", "recorded", "listed", "trash", "aside", "gone"}

Init ==
    /\ stage = [r \in Recordings |-> "none"]
    /\ safe = [r \in Recordings |-> 0]
    /\ number = [r \in Recordings |-> 0]

\* Those that r may displace when it comes to where.
Room(r, where) ==
    {q \in Recordings \ {r} : /\ stage[q] = where
                              /\ safe[q] = 0 \/ number'[r] - number[q] >= Rotation}

Move(r, from, to) ==
    /\ stage[r] = from
    /\ \E displaced \in SUBSET Room(r, to) :
         stage' = [q \in Recordings |-> IF q = r THEN to
                                       ELSE IF q \in displaced THEN "gone" ELSE stage[q]]
    /\ UNCHANGED safe

Open(r) ==
    /\ \E n \in Numbers : number' = [number EXCEPT ![r] = n]
    /\ Move(r, "none", "recorded")

Sync(r) ==
    /\ stage[r] = "recorded"
    /\ \E n \in Sizes : n > safe[r] /\ safe' = [safe EXCEPT ![r] = n]
    /\ UNCHANGED <<stage, number>>

Finish(r)   == safe[r] > 0 /\ Move(r, "recorded", "listed") /\ UNCHANGED number
SetAside(r) == Move(r, "recorded", "aside") /\ UNCHANGED number
Retire(r)   == Move(r, "listed", "trash") /\ UNCHANGED number
Purge(r)    == Move(r, "trash", "gone") /\ UNCHANGED number

Next == \E r \in Recordings :
    Open(r) \/ Sync(r) \/ Finish(r) \/ SetAside(r) \/ Retire(r) \/ Purge(r)

Spec == Init /\ [][Next]_vars

=============================================================================
