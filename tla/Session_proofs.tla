--------------------------- MODULE Session_proofs ---------------------------
(***************************************************************************)
(* A program never talks to another camera than its own, unless somebody   *)
(* left the other one's profile behind or is on his way to it: for any     *)
(* number of cameras, tries, runs and failures.                            *)
(*                                                                         *)
(* What makes it inductive: NetworkManager has a profile only of a network *)
(* that a program on its way wants or that was left behind, and is         *)
(* associated only to a network it has a profile of.                       *)
(***************************************************************************)
EXTENDS Session, TLAPS

\* What an association may be to: a program on its way asked for it, or one that
\* is gone left it.
Accounted == left \cup {target[q] : q \in {r \in Programs : Running(r)}}

ProfilesAccounted == profiles \subseteq Accounted

AssociatedHasProfile == assoc # None => assoc \in profiles

\* SessionTypeOK in the parts the provers can take at a time.
PlacesOK ==
    /\ awake \subseteq Cameras /\ profiles \subseteq Cameras
    /\ assoc \in Cameras \cup {None}
    /\ at \in [Programs -> {"idle", "ssid", "ip", "wake", "scan", "join", "address",
                            "bind", "learn", "login", "session", "clean"}]
    /\ target \in [Programs -> Cameras]
    /\ port \in Programs \cup {None}
    /\ left \subseteq profiles

LeasedOK == leased \in BOOLEAN

CountsOK ==
    /\ tries \in [Programs -> 0..(MaxTries - 1)]
    /\ runs \in 0..MaxRunner /\ faults \in 0..MaxFaults

Inv == PlacesOK /\ ProfilesAccounted /\ AssociatedHasProfile

-----------------------------------------------------------------------------
(* Types.                                                                  *)

LEMMA LeasedStep == LeasedOK /\ [SessionNext]_sessionVars => LeasedOK'
<1> SUFFICES ASSUME LeasedOK, [SessionNext]_sessionVars
             PROVE  LeasedOK'
  OBVIOUS
<1>1. ASSUME NEW p \in Programs, Join(p) \/ JoinFails(p)
      PROVE  LeasedOK'
  BY <1>1 DEF Join, JoinFails, LeasedOK
<1>2. CASE Drop \/ Clean
  BY <1>2 DEF Drop, Clean, LeasedOK
<1>3. ASSUME NEW c \in Cameras, Autoconnect(c)
      PROVE  LeasedOK'
  BY <1>3 DEF Autoconnect, LeasedOK
<1>4. ASSUME leased' = leased
      PROVE  LeasedOK'
  BY <1>4 DEF LeasedOK
<1>5. ASSUME NEW p \in Programs,
             AskSsid(p) \/ AskIp(p) \/ WakeUp(p) \/ WakeFails(p) \/ Scan(p) \/ Address(p)
             \/ Bind(p) \/ Learn(p) \/ Login(p) \/ KillProgram(p)
      PROVE  LeasedOK'
  BY <1>4, <1>5 DEF AskSsid, AskIp, WakeUp, WakeFails, Scan, Address, Bind, Learn,
     Login, KillProgram, networkVars
<1>6. ASSUME NEW p \in Programs, NEW c \in Cameras, CameraSleeps(c) \/ Begin(p, c)
      PROVE  LeasedOK'
  BY <1>4, <1>6 DEF CameraSleeps, Begin, networkVars
<1>7. CASE Close \/ RunnerEnds \/ UNCHANGED sessionVars
  BY <1>4, <1>7 DEF Close, RunnerEnds, sessionVars, networkVars
<1> QED BY <1>1, <1>2, <1>3, <1>5, <1>6, <1>7, Zenon DEF SessionNext, ProgramStep, Programs

LEMMA CountsStep == CountsOK /\ [SessionNext]_sessionVars => CountsOK'
<1> SUFFICES ASSUME CountsOK, [SessionNext]_sessionVars
             PROVE  CountsOK'
  OBVIOUS
<1> USE SessionAssumption DEF CountsOK, countVars, Fault
<1>1. ASSUME NEW c \in Cameras, CameraSleeps(c) \/ Autoconnect(c)
      PROVE  CountsOK'
  BY <1>1 DEF CameraSleeps, Autoconnect, programVars
<1>2. CASE Drop
  BY <1>2 DEF Drop, programVars
<1>3. ASSUME NEW p \in Programs, NEW c \in Cameras, Begin(p, c)
      PROVE  CountsOK'
  BY <1>3 DEF Begin, GoesTo
<1>4. ASSUME NEW p \in Programs, AskSsid(p) \/ AskIp(p) \/ WakeUp(p) \/ Bind(p)
      PROVE  CountsOK'
  BY <1>4 DEF AskSsid, AskIp, WakeUp, Bind, GoesTo, Give
<1>5. ASSUME NEW p \in Programs, Join(p) \/ JoinFails(p) \/ KillProgram(p)
      PROVE  CountsOK'
  BY <1>5 DEF Join, JoinFails, KillProgram, GoesTo
<1>6. ASSUME NEW p \in Programs, WakeFails(p) \/ Scan(p) \/ Address(p)
      PROVE  CountsOK'
  BY <1>6 DEF WakeFails, Scan, Address, TryAgain, GoesTo, Give
<1>7. ASSUME NEW p \in Programs, Learn(p) \/ Login(p)
      PROVE  CountsOK'
  BY <1>7 DEF Learn, Login, TryAgain, GoesTo, GiveClosing
<1>8. CASE Close \/ Clean \/ RunnerEnds
  BY <1>8 DEF Close, Clean, RunnerEnds, GoesTo, GiveClosing, Programs
<1>9. CASE UNCHANGED sessionVars
  BY <1>9 DEF sessionVars, programVars
<1> QED BY <1>1, <1>2, <1>3, <1>4, <1>5, <1>6, <1>7, <1>8, <1>9 DEF SessionNext, ProgramStep

-----------------------------------------------------------------------------
(* The invariant.                                                          *)

LEMMA InvInit == SessionInit => Inv
BY SessionAssumption DEF SessionInit, Inv, PlacesOK, ProfilesAccounted, AssociatedHasProfile,
   Accounted, Running, Programs

\* A program that ends without cleaning up leaves its profile accounted for.
LEMMA EndsAccounted ==
    ASSUME Inv, NEW p \in Programs, GoesTo(p, "idle"), LeaveProfile(p),
           UNCHANGED networkVars, UNCHANGED target, port' \in Programs \cup {None}
    PROVE  Inv'
BY SessionAssumption DEF Inv, PlacesOK, ProfilesAccounted, AssociatedHasProfile, Accounted,
   Running, GoesTo, LeaveProfile, networkVars

\* A program that goes on keeps what it accounts for.
LEMMA GoesOnAccounted ==
    ASSUME Inv, NEW p \in Programs, Running(p),
           NEW place \in {"ssid", "ip", "wake", "scan", "join", "address",
                          "bind", "learn", "login", "session", "clean"},
           at' = [at EXCEPT ![p] = place],
           UNCHANGED <<profiles, assoc, left, target>>, awake' \subseteq Cameras,
           port' \in Programs \cup {None}
    PROVE  Inv'
BY DEF Inv, PlacesOK, ProfilesAccounted, AssociatedHasProfile, Accounted, Running

LEMMA StandsStill ==
    ASSUME Inv, UNCHANGED <<profiles, assoc, left, target, at, port>>, awake' \subseteq Cameras
    PROVE  Inv'
BY DEF Inv, PlacesOK, ProfilesAccounted, AssociatedHasProfile, Accounted, Running

LEMMA InvStep == Inv /\ [SessionNext]_sessionVars => Inv'
<1> SUFFICES ASSUME Inv, [SessionNext]_sessionVars
             PROVE  Inv'
  OBVIOUS
<1> USE SessionAssumption
<1>1. ASSUME NEW c \in Cameras, CameraSleeps(c)
      PROVE  Inv'
  BY <1>1, StandsStill DEF CameraSleeps, programVars, Inv, PlacesOK
<1>2. ASSUME NEW c \in Cameras, Autoconnect(c)
      PROVE  Inv'
  BY <1>2 DEF Autoconnect, programVars, Inv, PlacesOK, ProfilesAccounted,
     AssociatedHasProfile, Accounted, Running
<1>3. CASE Drop
  BY <1>3 DEF Drop, programVars, Inv, PlacesOK, ProfilesAccounted, AssociatedHasProfile,
     Accounted, Running
<1>4. ASSUME NEW p \in Programs, NEW c \in Cameras, Begin(p, c)
      PROVE  Inv'
  BY <1>4 DEF Begin, GoesTo, networkVars, Inv, PlacesOK, ProfilesAccounted,
     AssociatedHasProfile, Accounted, Running
<1>5. ASSUME NEW p \in Programs, AskSsid(p) \/ AskIp(p) \/ WakeUp(p)
      PROVE  Inv'
  BY <1>5, GoesOnAccounted DEF AskSsid, AskIp, WakeUp, GoesTo, networkVars, Running, Inv, PlacesOK
<1>6. ASSUME NEW p \in Programs, WakeFails(p) \/ Scan(p) \/ Address(p) \/ Bind(p)
      PROVE  Inv'
  <2>1. CASE Give(p)
    BY <1>6, <2>1, EndsAccounted DEF WakeFails, Scan, Address, Bind, Give, Inv, PlacesOK
  <2>2. CASE ~Give(p)
    <3>1. CASE UNCHANGED at
      BY <1>6, <2>2, <3>1, StandsStill
         DEF WakeFails, Scan, Address, Bind, TryAgain, GoesTo, networkVars, Inv, PlacesOK
    <3>2. CASE ~(UNCHANGED at)
      BY <1>6, <2>2, <3>2, GoesOnAccounted
         DEF WakeFails, Scan, Address, Bind, TryAgain, GoesTo, networkVars, Running, Inv, PlacesOK
    <3> QED BY <3>1, <3>2
  <2> QED BY <2>1, <2>2
<1>7. ASSUME NEW p \in Programs, Join(p)
      PROVE  Inv'
  BY <1>7 DEF Join, GoesTo, Inv, PlacesOK, ProfilesAccounted, AssociatedHasProfile,
     Accounted, Running
<1>8. ASSUME NEW p \in Programs, JoinFails(p)
      PROVE  Inv'
  BY <1>8 DEF JoinFails, GoesTo, Inv, PlacesOK, ProfilesAccounted, AssociatedHasProfile,
     Accounted, Running
<1>9. ASSUME NEW p \in Programs, Learn(p) \/ Login(p)
      PROVE  Inv'
  <2>1. CASE GiveClosing(p)
    BY <1>9, <2>1, EndsAccounted DEF Learn, Login, GiveClosing
  <2>2. CASE ~GiveClosing(p)
    <3>1. CASE UNCHANGED at
      BY <1>9, <2>2, <3>1, StandsStill
         DEF Learn, Login, TryAgain, GoesTo, networkVars, Inv, PlacesOK
    <3>2. CASE ~(UNCHANGED at)
      BY <1>9, <2>2, <3>2, GoesOnAccounted
         DEF Learn, Login, TryAgain, GoesTo, networkVars, Running, Inv, PlacesOK
    <3> QED BY <3>1, <3>2
  <2> QED BY <2>1, <2>2
<1>10. CASE Close
  BY <1>10, GoesOnAccounted DEF Close, GoesTo, networkVars, Running, Programs, Inv, PlacesOK
<1>11. CASE Clean
  BY <1>11 DEF Clean, GoesTo, Programs, Inv, PlacesOK, ProfilesAccounted, AssociatedHasProfile,
     Accounted, Running
<1>12. CASE RunnerEnds
  BY <1>12, EndsAccounted DEF RunnerEnds, GiveClosing, Programs
<1>13. ASSUME NEW p \in Programs, KillProgram(p)
      PROVE  Inv'
  BY <1>13, EndsAccounted DEF KillProgram, Inv, PlacesOK
<1>14. CASE UNCHANGED sessionVars
  BY <1>14, StandsStill DEF sessionVars, networkVars, programVars, Inv, PlacesOK
<1> QED BY <1>1, <1>2, <1>3, <1>4, <1>5, <1>6, <1>7, <1>8, <1>9, <1>10, <1>11, <1>12, <1>13, <1>14
        DEF SessionNext, ProgramStep

LEMMA InvAlways == SessionSpec => []Inv
BY InvInit, InvStep, PTL DEF SessionSpec

-----------------------------------------------------------------------------
(* What follows.                                                           *)

\* Every variable keeps its type; in particular nothing is left behind that
\* NetworkManager does not know.
THEOREM TypeCorrect == SessionSpec => []SessionTypeOK
<1>1. SessionInit => LeasedOK
  BY DEF SessionInit, LeasedOK
<1>2. SessionInit => CountsOK
  BY SessionAssumption DEF SessionInit, CountsOK
<1>3. Inv /\ LeasedOK /\ CountsOK => SessionTypeOK
  BY DEF Inv, PlacesOK, LeasedOK, CountsOK, SessionTypeOK
<1> QED BY <1>1, <1>2, <1>3, InvAlways, LeasedStep, CountsStep, PTL DEF SessionSpec

\* A program that has its address talks to its own camera, or to one whose
\* profile was left behind, or to one that another program is on its way to.
THEOREM TalksToItsOwn == SessionSpec => []OwnCamera
<1>1. Inv => OwnCamera
  <2> SUFFICES ASSUME Inv, NEW p \in Programs, assoc # None, assoc # target[p]
               PROVE  assoc \in left \cup {target[q] : q \in {r \in Programs \ {p} : Running(r)}}
    BY DEF OwnCamera
  <2>1. assoc \in Accounted
    BY DEF Inv, AssociatedHasProfile, ProfilesAccounted
  <2> QED BY <2>1 DEF Accounted
<1> QED BY <1>1, InvAlways, PTL
=============================================================================
