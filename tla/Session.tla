------------------------------ MODULE Session ------------------------------
(***************************************************************************)
(* src/connection/: how a program gets a session with a camera, and what   *)
(* it leaves behind (connect_and_login, ble_wake_and_get_creds,            *)
(* TrailCamClient's socket, nmcli_cleanup_connection).                     *)
(*                                                                         *)
(* The sync and a person's client_runner share one Wi-Fi interface and one *)
(* UDP port, and no lock.  All cameras answer from the same address and    *)
(* take the same login: which camera a program talks to is decided by the  *)
(* association alone.  NetworkManager is external: it keeps a profile for  *)
(* every network that was joined, and joins by itself one it has a profile *)
(* of when the interface is free.                                          *)
(***************************************************************************)
EXTENDS Naturals, FiniteSets

CONSTANTS
    Cameras,        \* the SSIDs
    MaxTries,       \* BLE tries (5), scans (60), looks for an address (30), logins (3)
    MaxRunner,      \* runs of client_runner, at most
    MaxFaults,      \* failures of the surroundings, at most
    None

ASSUME SessionAssumption ==
    /\ None \notin Cameras /\ IsFiniteSet(Cameras)
    /\ MaxTries \in Nat \ {0} /\ {MaxRunner, MaxFaults} \subseteq Nat

Programs == {"sync", "runner"}

VARIABLES
    \* the cameras and NetworkManager
    awake,          \* cameras whose access point is on
    profiles,       \* networks with a saved profile
    assoc,          \* the network the interface is associated to, or None
    leased,         \* the interface has an address 192.168.43.x
    \* the programs
    at,             \* per program, where it is
    target,         \* per program, the camera it wants
    tries,          \* per program, what it has tried at this point
    port,           \* the program that has the UDP port bound, or None
    \* for the properties
    left,           \* profiles that a program which has ended did not remove
    runs,           \* runs of client_runner so far
    faults          \* failures so far

networkVars == <<awake, profiles, assoc, leased>>
programVars == <<at, target, tries, port>>
countVars   == <<runs, faults>>
sessionVars == <<networkVars, programVars, left, countVars>>

Running(p) == at[p] # "idle"

SessionInit ==
    /\ awake = {} /\ profiles = {}
    /\ assoc = None /\ leased = FALSE
    /\ at = [p \in Programs |-> "idle"]
    /\ target \in [Programs -> Cameras]
    /\ tries = [p \in Programs |-> 0]
    /\ port = None
    /\ left = {}
    /\ runs = 0 /\ faults = 0

Fault == faults < MaxFaults /\ faults' = faults + 1 /\ UNCHANGED runs

-----------------------------------------------------------------------------
(* The cameras and NetworkManager.                                         *)

\* A camera turns its access point off when nobody has asked for it for a
\* while; at any other time that is a failure.
CameraSleeps(c) ==
    /\ c \in awake
    /\ awake' = awake \ {c}
    /\ \/ (\A p \in Programs : Running(p) => target[p] # c) /\ UNCHANGED countVars
       \/ Fault
    /\ UNCHANGED <<profiles, assoc, leased, programVars, left>>

\* The association to a camera that is not there any more ends.
Drop ==
    /\ assoc # None /\ assoc \notin awake
    /\ assoc' = None /\ leased' = FALSE
    /\ UNCHANGED <<awake, profiles, programVars, left, countVars>>

\* autoconnect
Autoconnect(c) ==
    /\ assoc = None
    /\ c \in profiles \cap awake
    /\ assoc' = c /\ leased' = TRUE
    /\ UNCHANGED <<awake, profiles, programVars, left, countVars>>

-----------------------------------------------------------------------------
(* connect_and_login.                                                      *)

GoesTo(p, place) ==
    /\ at' = [at EXCEPT ![p] = place]
    /\ tries' = [tries EXCEPT ![p] = 0]

\* One more try, if there is one left.
TryAgain(p) ==
    /\ tries[p] + 1 < MaxTries
    /\ tries' = [tries EXCEPT ![p] = @ + 1]
    /\ UNCHANGED at

LastTry(p) == tries[p] + 1 = MaxTries

\* A program that ends without nmcli_cleanup_connection leaves its profile.
LeaveProfile(p) == left' = left \cup (profiles' \cap {target[p]})

\* The exception that ends a connect before there is a client.
Give(p) ==
    /\ GoesTo(p, "idle")
    /\ LeaveProfile(p)
    /\ UNCHANGED <<target, port>>

\* The exception handler: client.close(), and nothing about the Wi-Fi.
GiveClosing(p) ==
    /\ GoesTo(p, "idle")
    /\ LeaveProfile(p)
    /\ port' = None
    /\ UNCHANGED target

\* The sync takes the cameras that are not done, a person whichever.
Begin(p, c) ==
    /\ at[p] = "idle"
    /\ p = "runner" => runs < MaxRunner
    /\ target' = [target EXCEPT ![p] = c]
    /\ GoesTo(p, "ssid")
    /\ runs' = IF p = "runner" THEN runs + 1 ELSE runs
    /\ UNCHANGED <<networkVars, port, left, faults>>

\* nmcli_active_ssid
AskSsid(p) ==
    /\ at[p] = "ssid"
    /\ GoesTo(p, IF assoc = target[p] THEN "ip" ELSE "wake")
    /\ UNCHANGED <<networkVars, target, port, left, countVars>>

\* Mutant: an association is enough, with or without an address.
AskIpUnchecked(p) ==
    /\ at[p] = "ip"
    /\ GoesTo(p, "address")
    /\ UNCHANGED <<networkVars, target, port, left, countVars>>

\* wifi_has_camera_ip: the camera is taken for the one that was connected to
\* before, and is not woken.
AskIp(p) ==
    /\ at[p] = "ip"
    /\ GoesTo(p, IF leased THEN "address" ELSE "wake")
    /\ UNCHANGED <<networkVars, target, port, left, countVars>>

\* _ble_wake_and_get_creds_once_with_adapter: the camera answers with its own
\* SSID and turns its access point on.
WakeUp(p) ==
    /\ at[p] = "wake"
    /\ awake' = awake \cup {target[p]}
    /\ GoesTo(p, "scan")
    /\ UNCHANGED <<profiles, assoc, leased, target, port, left, countVars>>

\* Only org.bluez.Error.InProgress is worth another try.
WakeFails(p) ==
    /\ at[p] = "wake"
    /\ Fault
    /\ \/ TryAgain(p) /\ UNCHANGED <<networkVars, target, port, left>>
       \/ UNCHANGED networkVars /\ Give(p)

\* nmcli_rescan and nmcli_list_ssids, until the SSID is seen.
Scan(p) ==
    /\ at[p] = "scan"
    /\ UNCHANGED <<networkVars, countVars>>
    /\ IF target[p] \in awake
         THEN GoesTo(p, "join") /\ UNCHANGED <<target, port, left>>
         ELSE \/ TryAgain(p) /\ UNCHANGED <<target, port, left>>
              \/ LastTry(p) /\ Give(p)

\* nmcli_connect: the stale profile goes and a new one is made, which takes
\* the interface from whoever uses it.
Join(p) ==
    /\ at[p] = "join"
    /\ target[p] \in awake
    /\ profiles' = profiles \cup {target[p]}
    /\ assoc' = target[p]
    /\ left' = left \ {target[p]}
    /\ \/ leased' = TRUE /\ UNCHANGED countVars
       \/ leased' = FALSE /\ Fault              \* no answer to DHCP
    /\ GoesTo(p, "address")
    /\ UNCHANGED <<awake, target, port>>

\* nmcli connect fails, with or without a profile left behind.
JoinFails(p) ==
    /\ at[p] = "join"
    /\ IF target[p] \in awake THEN Fault ELSE UNCHANGED countVars
    /\ profiles' \in {profiles \ {target[p]}, profiles \cup {target[p]}}
    /\ assoc' = IF assoc = target[p] THEN None ELSE assoc
    /\ leased' = (leased /\ assoc # target[p])
    /\ UNCHANGED awake
    /\ GoesTo(p, "idle")
    /\ left' = (left \ {target[p]}) \cup (profiles' \cap {target[p]})
    /\ UNCHANGED <<target, port>>

\* Any 192.168.43 address will do.
Address(p) ==
    /\ at[p] = "address"
    /\ UNCHANGED <<networkVars, countVars>>
    /\ IF leased
         THEN GoesTo(p, "bind") /\ UNCHANGED <<target, port, left>>
         ELSE \/ TryAgain(p) /\ UNCHANGED <<target, port, left>>
              \/ LastTry(p) /\ Give(p)

\* TrailCamClient(): the port may be taken.
Bind(p) ==
    /\ at[p] = "bind"
    /\ UNCHANGED <<networkVars, countVars>>
    /\ IF port = None
         THEN port' = p /\ GoesTo(p, "learn") /\ UNCHANGED <<target, left>>
         ELSE Give(p)

\* Packets go to and come from whatever camera the interface is associated to.
Reachable == assoc \in awake /\ leased

\* send_beacons and learn_camera_port, then keepalive and the prelude.
Learn(p) ==
    /\ at[p] = "learn"
    /\ UNCHANGED networkVars
    /\ \/ Reachable /\ GoesTo(p, "login") /\ UNCHANGED <<target, port, left, countVars>>
       \/ (IF Reachable THEN Fault ELSE UNCHANGED countVars) /\ GiveClosing(p)

\* login_and_get_session_info
Login(p) ==
    /\ at[p] = "login"
    /\ UNCHANGED networkVars
    /\ \/ Reachable /\ GoesTo(p, "session") /\ UNCHANGED <<target, port, left, countVars>>
       \/ /\ IF Reachable THEN Fault ELSE UNCHANGED countVars
          /\ \/ TryAgain(p) /\ UNCHANGED <<target, port, left>>
             \/ LastTry(p) /\ GiveClosing(p)

-----------------------------------------------------------------------------
(* The end of a session.                                                   *)

\* client.close(), in the sync's finally clause.
Close ==
    /\ at["sync"] = "session"
    /\ port' = None
    /\ GoesTo("sync", "clean")
    /\ UNCHANGED <<networkVars, target, left, countVars>>

\* Mutant: the interface is disconnected and the profile stays.
CleanDisconnects ==
    /\ at["sync"] = "clean"
    /\ IF assoc = target["sync"]
         THEN assoc' = None /\ leased' = FALSE
         ELSE UNCHANGED <<assoc, leased>>
    /\ GoesTo("sync", "idle")
    /\ UNCHANGED <<awake, profiles, target, port, left, countVars>>

\* nmcli_cleanup_connection: disconnected if associated to it, and the profile
\* deleted in any case.
Clean ==
    /\ at["sync"] = "clean"
    /\ IF assoc = target["sync"]
         THEN assoc' = None /\ leased' = FALSE
         ELSE UNCHANGED <<assoc, leased>>
    /\ profiles' = profiles \ {target["sync"]}
    /\ left' = left \ {target["sync"]}
    /\ GoesTo("sync", "idle")
    /\ UNCHANGED <<awake, target, port, countVars>>

\* client_runner returns without either; its process frees the port.
RunnerEnds ==
    /\ at["runner"] = "session"
    /\ UNCHANGED networkVars
    /\ GiveClosing("runner")
    /\ UNCHANGED countVars

\* A program is killed, wherever it is.
KillProgram(p) ==
    /\ Running(p)
    /\ Fault
    /\ UNCHANGED networkVars
    /\ GoesTo(p, "idle")
    /\ LeaveProfile(p)
    /\ port' = IF port = p THEN None ELSE port
    /\ UNCHANGED target

-----------------------------------------------------------------------------
ProgramStep(p) ==
    \/ AskSsid(p) \/ AskIp(p) \/ WakeUp(p) \/ Scan(p) \/ Join(p) \/ Address(p)
    \/ Bind(p) \/ Learn(p) \/ Login(p)

SessionNext ==
    \/ \E c \in Cameras : CameraSleeps(c) \/ Autoconnect(c)
    \/ Drop
    \/ \E p \in Programs :
         \/ \E c \in Cameras : Begin(p, c)
         \/ ProgramStep(p) \/ WakeFails(p) \/ JoinFails(p) \/ KillProgram(p)
    \/ Close \/ Clean \/ RunnerEnds

SessionSpec == SessionInit /\ [][SessionNext]_sessionVars

\* Programs go on, the sync is started again and again, and NetworkManager
\* notices in the end that a camera is gone.
SessionFairness ==
    /\ \A p \in Programs : WF_sessionVars(ProgramStep(p) \/ JoinFails(p))
    /\ WF_sessionVars(\E c \in Cameras : Begin("sync", c))
    /\ WF_sessionVars(Close \/ Clean) /\ WF_sessionVars(RunnerEnds)
    /\ WF_sessionVars(Drop)

SessionFairSpec == SessionSpec /\ SessionFairness

-----------------------------------------------------------------------------
(* Correctness.                                                            *)

SessionTypeOK ==
    /\ awake \subseteq Cameras /\ profiles \subseteq Cameras
    /\ assoc \in Cameras \cup {None} /\ leased \in BOOLEAN
    /\ at \in [Programs -> {"idle", "ssid", "ip", "wake", "scan", "join", "address",
                            "bind", "learn", "login", "session", "clean"}]
    /\ target \in [Programs -> Cameras]
    /\ tries \in [Programs -> 0..(MaxTries - 1)]
    /\ port \in Programs \cup {None}
    /\ left \subseteq profiles
    /\ runs \in 0..MaxRunner /\ faults \in 0..MaxFaults

\* Once it has its address, a program never talks to another camera than its
\* own, although nothing in the exchange tells them apart, unless an earlier
\* program left the other one's profile behind (by failing, being killed, or
\* being client_runner) or another program joined it in the meantime.
OwnCamera ==
    \A p \in Programs :
        at[p] \in {"learn", "login", "session"} /\ assoc # None /\ assoc # target[p] =>
            assoc \in left \cup {target[q] : q \in {r \in Programs \ {p} : Running(r)}}

\* Nothing a failed connect leaves behind (an association without an address or
\* to a camera that is asleep, a profile, a socket) keeps a later one from
\* getting its session: a camera that is tried again and again is reached again
\* and again, be it the only one or one of several.
NeverWedged ==
    \A c \in Cameras :
        []<>(at["sync"] = "ssid" /\ target["sync"] = c)
            => []<>(at["sync"] = "session" /\ target["sync"] = c)
=============================================================================
