---------------------------- MODULE WifiConnect -----------------------------
(***************************************************************************)
(* wifi_manager.connect and forget for one network: which saved profiles   *)
(* they use, make, pin and delete.  One call at a time: the worker thread  *)
(* of ble_peripheral.py makes them in turn.                                *)
(*                                                                         *)
(* NetworkManager and the access point are outside src/ and are what       *)
(* wifi_manager.py takes them for: "device wifi connect" goes by a saved   *)
(* profile of the network or makes one from the password, and may leave    *)
(* behind what it made for an attempt that failed.  A wrong key gives one  *)
(* of the messages of _looks_like_auth_error, an access point out of reach *)
(* gives another.                                                          *)
(***************************************************************************)
EXTENDS Naturals

CONSTANTS
    Names,      \* names a profile of the network may have
    Passwords,  \* keys of the access point, and what a person may type
    Open,       \* no password
    Half,       \* the key of a profile without key-mgmt
    Absent,     \* there is no such profile
    NotUp       \* the interface is on no profile of the network

Keys == Passwords \cup {Open}

ASSUME WifiAssumption ==
    /\ Open \notin Passwords
    /\ Half \notin Keys /\ Absent \notin Keys \cup {Half}
    /\ NotUp \notin Names

VARIABLES
    profile,    \* the key saved under each name
    pinned,     \* profiles with autoconnect-priority
    active,     \* the profile the interface is on
    router,     \* the access point's key
    inRange,    \* it can be reached
    pc,         \* where connect is
    given,      \* psk
    before,     \* the profiles connect believes were there when it began
    retried,    \* the retry has been used up
    result,     \* what connect reported
    known,      \* history: the profiles that were there when it began
    clean,      \* history: nmcli and the network have done their part in this call
    proven      \* history: profiles that have connected with the key as it is

outside == <<active, router, inRange>>
call    == <<given, before, retried, result, known>>
vars    == <<profile, pinned, outside, pc, call, clean, proven>>

Saved == {n \in Names : profile[n] # Absent}

TypeOK ==
    /\ profile \in [Names -> Keys \cup {Half, Absent}]
    /\ pinned \subseteq Names /\ active \in Names \cup {NotUp}
    /\ router \in Keys /\ inRange \in BOOLEAN
    /\ pc \in {"idle", "before", "up", "security", "attempt", "retry", "cleanup",
               "pin", "status", "returned"}
    /\ given \in Keys /\ before \subseteq Names /\ known \subseteq Names
    /\ retried \in BOOLEAN /\ clean \in BOOLEAN
    /\ result \in {"none", "ok", "failed"}
    /\ proven \subseteq Names

Init ==
    /\ profile = [n \in Names |-> Absent]
    /\ pinned = {} /\ active = NotUp
    /\ router \in Keys /\ inRange = TRUE
    /\ pc = "idle" /\ given = Open /\ before = {} /\ retried = FALSE
    /\ result = "none" /\ known = {} /\ clean = TRUE /\ proven = {}

-----------------------------------------------------------------------------
(* nmcli. *)

\* nmcli connection delete, for all of ns.
Delete(ns) ==
    /\ profile' = [n \in Names |-> IF n \in ns THEN Absent ELSE profile[n]]
    /\ pinned' = pinned \ ns
    /\ proven' = proven \ ns
    /\ active' = IF active \in ns THEN NotUp ELSE active

\* The interface comes up on n.
Up(n, key) ==
    /\ profile' = [profile EXCEPT ![n] = key]
    /\ active' = n
    /\ proven' = proven \cup {n}

Works(key) == inRange /\ key = router

\* What nmcli makes of the password: without one, for a network that wants one, half a
\* profile.
Made == IF given = Open /\ router # Open THEN Half ELSE given

\* The profiles "device wifi connect" may go by, with the key each then has.
Candidates ==
    {<<n, profile[n]>> : n \in Saved} \cup {<<n, Made>> : n \in Names \ Saved}

-----------------------------------------------------------------------------
(* connect. *)

Return(how) == pc' = "returned" /\ result' = how

\* WifiError out of _run or wifi_iface: nothing after it is done.
Raise == Return("failed") /\ clean' = FALSE /\ UNCHANGED <<given, before, retried, known>>

Connect(k) ==
    /\ pc = "idle"
    /\ given' = k /\ known' = Saved
    /\ before' = {} /\ retried' = FALSE /\ result' = "none" /\ clean' = TRUE
    /\ pc' = "before"
    /\ UNCHANGED <<profile, pinned, outside, proven>>

\* _profiles_for_ssid: a name whose query fails is passed over, and when the list itself
\* fails there are none.  Then the branch on what there is.
Before ==
    /\ pc = "before"
    /\ \/ before' = Saved /\ UNCHANGED clean
       \/ before' \in SUBSET Saved /\ clean' = FALSE
    /\ pc' = IF given # Open THEN "attempt" ELSE IF before' # {} THEN "up" ELSE "security"
    /\ UNCHANGED <<profile, pinned, outside, given, retried, result, known, proven>>

\* Without a password: the first saved profile of the list and no other.
UpSaved ==
    /\ pc = "up"
    /\ \E n \in before :
         IF Works(profile[n])
           THEN Up(n, profile[n]) /\ pc' = "pin" /\ UNCHANGED result
           ELSE Return("failed") /\ UNCHANGED <<profile, active, proven>>
    /\ UNCHANGED <<pinned, router, inRange, given, before, retried, known, clean>>

\* A network that is in the scan with a security is not tried without a password; one
\* that is not in it may be hidden.
Security ==
    /\ pc = "security"
    /\ \/ router # Open /\ Return("failed")
       \/ router = Open /\ pc' = "attempt" /\ UNCHANGED result
       \/ pc' = "attempt" /\ UNCHANGED result
    /\ UNCHANGED <<profile, pinned, outside, given, before, retried, known, clean, proven>>

AttemptOk ==
    /\ pc = "attempt"
    /\ \E c \in Candidates : Works(c[2]) /\ Up(c[1], c[2])
    /\ pc' = "pin"
    /\ UNCHANGED <<pinned, router, inRange, call, clean>>

\* Mutant: a password that was refused is not tried again without the old profiles.
AttemptFails_NoRetry ==
    /\ pc = "attempt"
    /\ \E c \in Candidates :
         /\ ~Works(c[2])
         /\ \/ profile' = [profile EXCEPT ![c[1]] = c[2]]
            \/ UNCHANGED profile
    /\ pc' = "cleanup"
    /\ UNCHANGED <<pinned, outside, call, clean, proven>>

\* The attempt fails and what it made may stay.  A password that was refused while there
\* are old profiles is tried once more without them.
AttemptFails ==
    /\ pc = "attempt"
    /\ \E c \in Candidates :
         /\ ~Works(c[2])
         /\ \/ profile' = [profile EXCEPT ![c[1]] = c[2]]
            \/ UNCHANGED profile
    /\ LET auth == inRange
       IN  pc' = IF given # Open /\ auth /\ before # {} /\ ~retried THEN "retry" ELSE "cleanup"
    /\ UNCHANGED <<pinned, outside, call, clean, proven>>

\* forget(ssid), then before = [].  What cannot be listed or deleted stays.
Retry ==
    /\ pc = "retry"
    /\ \/ Delete(Saved) /\ UNCHANGED clean
       \/ (\E ns \in SUBSET Saved : Delete(ns)) /\ clean' = FALSE
    /\ before' = {} /\ retried' = TRUE
    /\ pc' = "attempt"
    /\ UNCHANGED <<router, inRange, given, result, known>>

\* Mutant: everything of the network's is cleared away.
Cleanup_All ==
    /\ pc = "cleanup"
    /\ \/ Delete(Saved) /\ UNCHANGED clean
       \/ (\E ns \in SUBSET Saved : Delete(ns)) /\ clean' = FALSE
    /\ Return("failed")
    /\ UNCHANGED <<router, inRange, given, before, retried, known>>

\* Mutant: nothing is.
Cleanup_None ==
    /\ pc = "cleanup"
    /\ Return("failed")
    /\ UNCHANGED <<profile, pinned, outside, given, before, retried, known, clean, proven>>

\* _drop_new_profiles.
Cleanup ==
    /\ pc = "cleanup"
    /\ \/ Delete(Saved \ before) /\ UNCHANGED clean
       \/ (\E ns \in SUBSET (Saved \ before) : Delete(ns)) /\ clean' = FALSE
    /\ Return("failed")
    /\ UNCHANGED <<router, inRange, given, before, retried, known>>

\* _pin_autoconnect: the profile the interface is on; what fails here is not looked at.
Pin ==
    /\ pc = "pin"
    /\ \/ active # NotUp /\ pinned' = pinned \cup {active} /\ UNCHANGED clean
       \/ UNCHANGED pinned /\ clean' = FALSE
    /\ pc' = "status"
    /\ UNCHANGED <<profile, outside, call, proven>>

\* status: an interface without an address is a failure, whatever has been saved.
Status ==
    /\ pc = "status"
    /\ \/ active # NotUp /\ Return("ok") /\ UNCHANGED clean
       \/ Return("failed") /\ clean' = FALSE
    /\ UNCHANGED <<profile, pinned, outside, given, before, retried, known, proven>>

\* A call of nmcli takes too long in the middle of anything.  An attempt may have left a
\* profile, and NetworkManager may still come up on it.
TimesOut ==
    /\ pc \notin {"idle", "returned"}
    /\ \/ UNCHANGED <<profile, active, proven>>
       \/ /\ pc = "attempt"
          /\ \E c \in Candidates :
               IF Works(c[2]) THEN Up(c[1], c[2])
               ELSE profile' = [profile EXCEPT ![c[1]] = c[2]] /\ UNCHANGED <<active, proven>>
    /\ Raise
    /\ UNCHANGED <<pinned, router, inRange>>

Done ==
    /\ pc = "returned"
    /\ pc' = "idle"
    /\ UNCHANGED <<profile, pinned, outside, call, clean, proven>>

-----------------------------------------------------------------------------
(* The other commands, and the world. *)

\* The command forget.
Forget ==
    /\ pc = "idle"
    /\ \E ns \in SUBSET Saved : Delete(ns)
    /\ UNCHANGED <<router, inRange, pc, call, clean>>

\* The command disconnect.
Disconnect ==
    /\ pc = "idle" /\ active # NotUp
    /\ active' = NotUp
    /\ UNCHANGED <<profile, pinned, router, inRange, pc, call, clean, proven>>

\* Someone sets another key at the access point.
NewKey ==
    /\ \E k \in Keys \ {router} : router' = k
    /\ active' = NotUp /\ proven' = {} /\ clean' = FALSE
    /\ UNCHANGED <<profile, pinned, inRange, pc, call>>

Moves ==
    /\ inRange' = ~inRange
    /\ active' = NotUp /\ clean' = FALSE
    /\ UNCHANGED <<profile, pinned, router, pc, call, proven>>

\* The power goes: the profiles are NetworkManager's and stay.
PowerCut ==
    /\ pc # "idle"
    /\ pc' = "idle" /\ active' = NotUp
    /\ UNCHANGED <<profile, pinned, router, inRange, call, clean, proven>>

-----------------------------------------------------------------------------
Call ==
    \/ Before \/ UpSaved \/ Security \/ AttemptOk \/ AttemptFails \/ Retry \/ Cleanup
    \/ Pin \/ Status \/ TimesOut \/ Done

Next ==
    \/ (\E k \in Keys : Connect(k)) \/ Call
    \/ Forget \/ Disconnect
    \/ NewKey \/ Moves \/ PowerCut

Spec == Init /\ [][Next]_vars

-----------------------------------------------------------------------------
(* Properties. *)

\* A profile that has connected, and still would, is deleted by nothing but the command
\* forget and the retry after a refused password, as long as connect had it in the list
\* it began with ("only the profiles the failed attempt made are deleted, the good ones are
\* kept", wifi_manager.py 281).
KeepsWhatWorks ==
    [][\A n \in proven :
         profile'[n] = Absent =>
            Forget \/ Retry \/ n \in known \ before]_vars

\* Whoever types the right password, with the access point in reach and nmcli doing its
\* part, is connected, whatever old or half profiles stand in the way -- and on a profile
\* that holds the right key and is pinned, so that the device comes back by itself after
\* the next boot (README.md of bt, "Wi-Fi connection" 2 and 3).
RightPasswordConnects ==
    pc = "returned" /\ clean /\ inRange /\ given = router /\ given # Open =>
        /\ result = "ok"
        /\ active \in pinned /\ profile[active] = router

\* A call that fails leaves no profile behind that was not there: half a profile would
\* spoil the next attempts ("_drop_new_profiles").
NothingHalfStays ==
    pc = "returned" /\ clean /\ result = "failed" => Saved \subseteq known

=============================================================================
