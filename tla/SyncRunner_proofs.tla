-------------------------- MODULE SyncRunner_proofs --------------------------
(***************************************************************************)
(* Proofs about SyncRunner for any number of cameras, keys, shots and      *)
(* faults.  TypeOK is inductive by itself; everything else rests on        *)
(* SafeInv, which says that files, cards and listings name shots of the    *)
(* right camera and what verify has established.                           *)
(***************************************************************************)
EXTENDS SyncRunner, TLAPS

\* Every action keeps the variables in their types.
LEMMA TypeStep == TypeOK /\ [Next]_vars => TypeOK'
<1> USE ConstantsAssumption DEF Cameras, Statuses
<1> SUFFICES ASSUME TypeOK, [Next]_vars PROVE TypeOK'
  OBVIOUS
<1> USE DEF TypeOK, SessionPcs
<1>0. CASE FormatAgain
  BY <1>0 DEF FormatAgain, fileVars, stateVars, procVars
<1>1. CASE UNCHANGED vars
  BY <1>1 DEF vars, cardVars, fileVars, stateVars, procVars
<1>2. CASE Crash
  BY <1>2 DEF Crash, cardVars, fileVars, stateVars
<1>3. CASE StartRun
  BY <1>3 DEF StartRun, cardVars, fileVars, stateVars
<1>4. CASE SkipDone
  BY <1>4 DEF SkipDone, NextCamera, cardVars, fileVars, stateVars
<1>5. CASE Connect
  BY <1>5 DEF Connect, SaveStatus, cardVars, fileVars
<1>6. CASE ConnectFails
  <2>1. faults' \in 0..MaxFaults
    BY <1>6 DEF ConnectFails
  <2>2. cam' \in Cameras /\ pc' \in {"camera", "finish"}
    BY <1>6 DEF ConnectFails, NextCamera
  <2> QED
    BY <1>6, <2>1, <2>2 DEF ConnectFails, NextCamera, cardVars, fileVars, stateVars
<1>7. CASE SessionError
  <2>1. faults' \in 0..MaxFaults
    BY <1>7 DEF SessionError
  <2>2. cam' \in Cameras /\ pc' \in {"camera", "finish"}
    BY <1>7 DEF SessionError, NextCamera
  <2>3. status' \in [Cameras -> Statuses] /\ UNCHANGED <<downloaded, organized>>
    BY <1>7 DEF SessionError, SaveStatus
  <2> QED
    BY <1>7, <2>1, <2>2, <2>3 DEF SessionError, NextCamera, cardVars, fileVars
<1>8. CASE ListMissing
  <2> PICK seen \in Listings(cam) : listing' = seen /\ todo' = Missing(cam, seen)
    BY <1>8 DEF ListMissing
  <2>1. seen \subseteq Shots
    BY DEF Listings
  <2>2. Missing(cam, seen) \subseteq Keys
    BY <2>1 DEF Missing, KeysOf
  <2>3. status' \in [Cameras -> Statuses] /\ UNCHANGED <<downloaded, organized>>
    BY <1>8 DEF ListMissing, SaveStatus, stateVars
  <2> QED
    BY <1>8, <2>1, <2>2, <2>3 DEF ListMissing, cardVars, fileVars
<1>9. CASE ListComplete
  <2>1. listing' \subseteq Shots
    BY <1>9 DEF ListComplete, Listings
  <2>2. status' \in [Cameras -> Statuses] /\ UNCHANGED <<downloaded, organized>>
    BY <1>9 DEF ListComplete, SaveStatus, stateVars
  <2> QED
    BY <1>9, <2>1, <2>2 DEF ListComplete, cardVars, fileVars
<1>10. CASE FetchedAll
  <2>1. status' \in [Cameras -> Statuses] /\ UNCHANGED <<downloaded, organized>>
    BY <1>10 DEF FetchedAll, SaveStatus, stateVars
  <2> QED
    BY <1>10, <2>1 DEF FetchedAll, cardVars, fileVars
<1>11. CASE StageOnly
  BY <1>11 DEF StageOnly, SaveStatus, NextCamera, cardVars, fileVars
<1>12. CASE EnterClear
  BY <1>12 DEF EnterClear, SaveStatus, cardVars, fileVars
<1>13. CASE Format
  BY <1>13 DEF Format, fileVars, stateVars
<1>14. CASE FormatUnanswered
  BY <1>14 DEF FormatUnanswered, fileVars, stateVars, procVars
<1>15. CASE EnterOrganize
  BY <1>15 DEF EnterOrganize, SaveStatus, StagedKeys, cardVars, fileVars
<1>16. CASE CameraDone
  BY <1>16 DEF CameraDone, SaveStatus, NextCamera, cardVars, fileVars
<1>17. CASE FinishRun
  BY <1>17 DEF FinishRun, RotateState, stateVars, cardVars, fileVars
<1>18. ASSUME NEW k \in Keys, Fetch(k) PROVE TypeOK'
  BY <1>18 DEF Fetch, Downloads, Fetching, cardVars, stateVars
<1>19. ASSUME NEW k \in Keys, TearFetch(k) PROVE TypeOK'
  BY <1>19 DEF TearFetch, Fetching, cardVars, stateVars
<1>20. ASSUME NEW k \in Keys, Record(k) PROVE TypeOK'
  BY <1>20 DEF Record, cardVars, fileVars
<1>21. ASSUME NEW k \in Keys, OrganizeOne(k) PROVE TypeOK'
  BY <1>21 DEF OrganizeOne, cardVars, stateVars
<1>22. ASSUME NEW k \in Keys, RecordOrganized(k) PROVE TypeOK'
  BY <1>22 DEF RecordOrganized, cardVars, fileVars
<1>23. ASSUME NEW s \in Shots, Shoot(s) PROVE TypeOK'
  BY <1>23 DEF Shoot, fileVars, stateVars, procVars
<1> QED
  BY <1>0, <1>1, <1>2, <1>3, <1>4, <1>5, <1>6, <1>7, <1>8, <1>9, <1>10, <1>11,
     <1>12, <1>13, <1>14, <1>15, <1>16, <1>17, <1>18, <1>19, <1>20, <1>21,
     <1>22, <1>23 DEF Next, Progress, Fault

\* The variables of the runs always have the types that TypeOK gives them.
THEOREM TypeCorrect == Spec => []TypeOK
<1>1. Init => TypeOK
  BY ConstantsAssumption DEF Init, InitialRecords, TypeOK, Cameras, Statuses
<1> QED
  BY <1>1, TypeStep, PTL DEF Spec

-----------------------------------------------------------------------------
(* Which steps touch what.                                                 *)

LEMMA StagedFrame ==
    ASSUME [Next]_vars
    PROVE  \/ UNCHANGED staged
           \/ \E k \in Keys : Fetch(k) \/ TearFetch(k) \/ OrganizeOne(k)
BY DEF Next, Progress, Fault, vars, cardVars, fileVars, stateVars, procVars,
       Crash, StartRun, SkipDone, Connect, ConnectFails, SessionError,
       ListMissing, ListComplete, FetchedAll, StageOnly, EnterClear, Format,
       FormatUnanswered, FormatAgain, EnterOrganize, CameraDone, FinishRun, Record,
       RecordOrganized, Shoot

LEMMA CardFrame ==
    ASSUME [Next]_vars
    PROVE  \/ UNCHANGED <<card, taken>>
           \/ Format \/ FormatUnanswered \/ FormatAgain
           \/ \E s \in Shots : Shoot(s)
BY DEF Next, Progress, Fault, vars, cardVars, fileVars, stateVars, procVars,
       Crash, StartRun, SkipDone, Connect, ConnectFails, SessionError,
       ListMissing, ListComplete, FetchedAll, StageOnly, EnterClear, Fetch,
       TearFetch, OrganizeOne, EnterOrganize, CameraDone, FinishRun, Record,
       RecordOrganized

LEMMA ListingFrame ==
    ASSUME [Next]_vars
    PROVE  \/ UNCHANGED <<listing, cam>>
           \/ listing' = {}
           \/ listing' \in Listings(cam) /\ UNCHANGED cam
BY DEF Next, Progress, Fault, vars, cardVars, fileVars, stateVars, procVars,
       Crash, StartRun, SkipDone, Connect, ConnectFails, SessionError,
       ListMissing, ListComplete, FetchedAll, StageOnly, EnterClear, Fetch,
       TearFetch, OrganizeOne, EnterOrganize, CameraDone, FinishRun, Record,
       RecordOrganized, Format, FormatUnanswered, FormatAgain, Shoot, NextCamera

\* The only way past verify is a listing with nothing missing; being past it,
\* the process changes neither its listing nor staging.
LEMMA VerifiedFrame ==
    ASSUME [Next]_vars, pc' \in VerifiedPcs
    PROVE  \/ /\ pc = "list"
              /\ UNCHANGED <<cam, staged, card>>
              /\ listing' \in Listings(cam)
              /\ Missing(cam, listing') = {}
           \/ /\ pc \in VerifiedPcs
              /\ UNCHANGED <<cam, staged, listing>>
BY DEF VerifiedPcs, Next, Progress, Fault, vars, cardVars, fileVars, stateVars,
       procVars, Crash, StartRun, SkipDone, Connect, ConnectFails,
       SessionError, ListMissing, ListComplete, FetchedAll, StageOnly,
       EnterClear, Fetch, TearFetch, OrganizeOne, EnterOrganize, CameraDone,
       FinishRun, Record, RecordOrganized, Format, FormatUnanswered, FormatAgain,
       Shoot, NextCamera

-----------------------------------------------------------------------------
(* The safety invariant, one lemma per part.                               *)

LEMMA FilesStep ==
    ASSUME TypeOK, FilesInPlace, ListingInPlace, [Next]_vars
    PROVE  FilesInPlace'
<1> USE ConstantsAssumption
<1>1. CASE UNCHANGED staged
  BY ONLY <1>1, FilesInPlace DEF FilesInPlace
<1>2. ASSUME NEW k \in Keys, Fetch(k) PROVE FilesInPlace'
  <2> PICK s \in listing : \E file \in {s, Partial} :
             s.key = k /\ staged' = [staged EXCEPT ![cam][k] = file]
    BY <1>2 DEF Fetch, Downloads
  <2> PICK file \in {s, Partial} : staged' = [staged EXCEPT ![cam][k] = file]
    OBVIOUS
  <2> QED
    BY DEF FilesInPlace, ListingInPlace, TypeOK
<1>3. ASSUME NEW k \in Keys, TearFetch(k) PROVE FilesInPlace'
  BY <1>3 DEF TearFetch, FilesInPlace, TypeOK
<1>4. ASSUME NEW k \in Keys, OrganizeOne(k) PROVE FilesInPlace'
  BY <1>4 DEF OrganizeOne, FilesInPlace, TypeOK
<1> QED
  BY <1>1, <1>2, <1>3, <1>4, StagedFrame

LEMMA CardsStep ==
    ASSUME TypeOK, CardsInPlace, [Next]_vars
    PROVE  CardsInPlace'
<1> USE ConstantsAssumption
<1>1. CASE UNCHANGED <<card, taken>>
  BY <1>1 DEF CardsInPlace
<1>2. CASE Format \/ FormatUnanswered \/ FormatAgain
  BY <1>2 DEF Format, FormatUnanswered, FormatAgain, CardsInPlace, TypeOK
<1>3. ASSUME NEW s \in Shots, Shoot(s) PROVE CardsInPlace'
  BY <1>3 DEF Shoot, CardsInPlace, TypeOK
<1> QED
  BY <1>1, <1>2, <1>3, CardFrame

LEMMA ListingStep ==
    ASSUME TypeOK, CardsInPlace, ListingInPlace, [Next]_vars
    PROVE  ListingInPlace'
BY ListingFrame DEF ListingInPlace, CardsInPlace, Listings, TypeOK

LEMMA VerifiedStep ==
    ASSUME TypeOK, VerifiedListing, [Next]_vars
    PROVE  VerifiedListing'
<1> SUFFICES ASSUME pc' \in VerifiedPcs
             PROVE  KeysOf(listing') \subseteq StagedKeys(cam)'
  BY DEF VerifiedListing, KeysOf
<1>1. CASE UNCHANGED <<cam, staged>> /\ Missing(cam, listing') = {}
  BY <1>1 DEF Missing, StagedKeys
<1>2. CASE pc \in VerifiedPcs /\ UNCHANGED <<cam, staged, listing>>
  BY <1>2 DEF VerifiedListing, StagedKeys
<1> QED
  BY <1>1, <1>2, VerifiedFrame

LEMMA PartialStep ==
    ASSUME TypeOK, ~TornWrites, ~LossyDownloads, NothingPartial, [Next]_vars
    PROVE  NothingPartial'
<1> USE ConstantsAssumption
<1>1. CASE UNCHANGED staged
  BY <1>1 DEF NothingPartial
<1>2. ASSUME NEW k \in Keys, Fetch(k) PROVE NothingPartial'
  BY <1>2 DEF Fetch, Downloads, NothingPartial, TypeOK
<1>3. ASSUME NEW k \in Keys, TearFetch(k) PROVE FALSE
  BY <1>3 DEF TearFetch
<1>4. ASSUME NEW k \in Keys, OrganizeOne(k) PROVE NothingPartial'
  BY <1>4 DEF OrganizeOne, NothingPartial, TypeOK
<1> QED
  BY <1>1, <1>2, <1>3, <1>4, StagedFrame

LEMMA FreshStep ==
    ASSUME TypeOK, ~LossyListing, ~ShootsWhileConnected,
           CardsInPlace, FreshListing, [Next]_vars
    PROVE  FreshListing'
<1> USE ConstantsAssumption
<1> SUFFICES ASSUME pc' \in VerifiedPcs
             PROVE  card'[cam'] \subseteq listing'
  BY DEF FreshListing
<1>1. CASE /\ pc = "list" /\ UNCHANGED <<cam, card>>
           /\ listing' \in Listings(cam)
  BY <1>1 DEF Listings
<1>2. CASE pc \in VerifiedPcs /\ UNCHANGED <<cam, listing>>
  <2>1. CASE UNCHANGED card
    BY <1>2, <2>1 DEF FreshListing
  <2>2. CASE Format \/ FormatUnanswered \/ FormatAgain
    BY <1>2, <2>2 DEF Format, FormatUnanswered, FormatAgain, TypeOK
  <2>3. ASSUME NEW s \in Shots, Shoot(s) PROVE card'[cam] = card[cam]
    BY <1>2, <2>3 DEF Shoot, SessionPcs, VerifiedPcs, TypeOK
  <2> QED
    BY <1>2, <2>1, <2>2, <2>3, CardFrame DEF FreshListing
<1> QED
  BY <1>1, <1>2, VerifiedFrame

LEMMA OnCardFrame ==
    ASSUME [Next]_vars, pc' \in FetchPcs
    PROVE  \/ /\ UNCHANGED <<cam, card>>
              /\ listing' \in Listings(cam)
           \/ /\ pc \in FetchPcs
              /\ UNCHANGED <<cam, listing>>
<1> USE DEF FetchPcs
<1>1. CASE Progress
  BY <1>1 DEF Progress, cardVars, StartRun, SkipDone, Connect, ListMissing,
       ListComplete, FetchedAll, StageOnly, EnterClear, Fetch, Fetching,
       OrganizeOne, EnterOrganize, CameraDone, FinishRun, Record,
       RecordOrganized, Format, NextCamera
<1>2. CASE ~Progress
  BY <1>2 DEF Next, Fault, vars, procVars, Crash, ConnectFails, SessionError,
       TearFetch, Fetching, FormatUnanswered, FormatAgain, Shoot, NextCamera
<1> QED
  BY <1>1, <1>2

LEMMA OnCardStep ==
    ASSUME TypeOK, ListedOnCard, [Next]_vars
    PROVE  ListedOnCard'
<1> USE ConstantsAssumption
<1> SUFFICES ASSUME pc' \in FetchPcs
             PROVE  listing' \subseteq card'[cam']
  BY DEF ListedOnCard
<1>1. CASE UNCHANGED <<cam, card>> /\ listing' \in Listings(cam)
  BY <1>1 DEF Listings
<1>2. CASE /\ pc \in FetchPcs
           /\ UNCHANGED <<cam, listing, card>>
  BY <1>2 DEF ListedOnCard
<1>3. ASSUME NEW s \in Shots, Shoot(s), UNCHANGED <<cam, listing>>,
             pc \in FetchPcs
      PROVE  listing' \subseteq card'[cam']
  BY <1>3 DEF ListedOnCard, Shoot, TypeOK
<1>4. pc \in FetchPcs => ~Format /\ ~FormatUnanswered /\ ~FormatAgain
  BY DEF Format, FormatUnanswered, FormatAgain, FetchPcs, ClearedPcs
<1> QED
  BY <1>1, <1>2, <1>3, <1>4, OnCardFrame, CardFrame

LEMMA WasTakenStep ==
    ASSUME TypeOK, CardsInPlace, ListedWasTaken, [Next]_vars
    PROVE  ListedWasTaken'
<1>1. taken \subseteq taken'
  BY CardFrame DEF Shoot, Format, FormatUnanswered, FormatAgain
<1>2. \A l \in Listings(cam) : l \subseteq taken
  BY DEF Listings, CardsInPlace, TypeOK
<1> QED
  BY <1>1, <1>2, ListingFrame DEF ListedWasTaken

\* Past the format are those who format, and those who were past it already.
LEMMA ClearedFrame ==
    ASSUME [Next]_vars, pc' \in ClearedPcs, mode' # "dry_run"
    PROVE  \/ Format
           \/ /\ pc \in ClearedPcs
              /\ UNCHANGED <<mode, cam, listing>>
<1> USE DEF ClearedPcs
<1>1. CASE Progress
  BY <1>1 DEF Progress, StartRun, SkipDone, Connect, ListMissing,
       ListComplete, FetchedAll, StageOnly, EnterClear, Fetch, Fetching,
       OrganizeOne, EnterOrganize, CameraDone, FinishRun, Record,
       RecordOrganized, NextCamera
<1>2. CASE ~Progress
  BY <1>2 DEF Next, Fault, vars, procVars, Crash, ConnectFails, SessionError,
       TearFetch, Fetching, FormatUnanswered, FormatAgain, Shoot, NextCamera
<1> QED
  BY <1>1, <1>2

LEMMA GoneStep ==
    ASSUME TypeOK, ListedWasTaken, ListedIsGone, [Next]_vars
    PROVE  ListedIsGone'
<1> USE ConstantsAssumption
<1> SUFFICES ASSUME pc' \in ClearedPcs, mode' # "dry_run"
             PROVE  card'[cam'] \cap listing' = {}
  BY DEF ListedIsGone
<1>1. CASE Format
  BY <1>1 DEF Format, TypeOK
<1>2. CASE pc \in ClearedPcs /\ UNCHANGED <<mode, cam, listing>>
  <2>1. card[cam] \cap listing = {}
    BY <1>2 DEF ListedIsGone
  <2>2. CASE UNCHANGED card
    BY <1>2, <2>1, <2>2
  <2>3. CASE Format \/ FormatUnanswered \/ FormatAgain
    BY <1>2, <2>3 DEF Format, FormatUnanswered, FormatAgain, TypeOK
  <2>4. ASSUME NEW s \in Shots, Shoot(s) PROVE card'[cam] \cap listing = {}
    BY <2>1, <2>4 DEF Shoot, ListedWasTaken, TypeOK
  <2> QED
    BY <1>2, <2>2, <2>3, <2>4, CardFrame
<1> QED
  BY <1>1, <1>2, ClearedFrame

LEMMA EmptyStep ==
    ASSUME TypeOK, ~ShootsWhileConnected, ClearedIsEmpty, [Next]_vars
    PROVE  ClearedIsEmpty'
<1> USE ConstantsAssumption
<1> SUFFICES ASSUME pc' \in ClearedPcs, mode' # "dry_run"
             PROVE  card'[cam'] = {}
  BY DEF ClearedIsEmpty
<1>1. CASE Format
  BY <1>1 DEF Format, TypeOK
<1>2. CASE pc \in ClearedPcs /\ UNCHANGED <<mode, cam, listing>>
  <2>1. card[cam] = {}
    BY <1>2 DEF ClearedIsEmpty
  <2>2. CASE UNCHANGED card
    BY <1>2, <2>1, <2>2
  <2>3. CASE Format \/ FormatUnanswered \/ FormatAgain
    BY <1>2, <2>3 DEF Format, FormatUnanswered, FormatAgain, TypeOK
  <2>4. ASSUME NEW s \in Shots, Shoot(s) PROVE card'[cam] = {}
    BY <1>2, <2>1, <2>4 DEF Shoot, SessionPcs, ClearedPcs, TypeOK
  <2> QED
    BY <1>2, <2>2, <2>3, <2>4, CardFrame
<1> QED
  BY <1>1, <1>2, ClearedFrame

LEMMA ArchiveFrame ==
    ASSUME [Next]_vars
    PROVE  UNCHANGED archive \/ \E k \in Keys : OrganizeOne(k)
BY DEF Next, Progress, Fault, vars, cardVars, fileVars, stateVars, procVars,
       Crash, StartRun, SkipDone, Connect, ConnectFails, SessionError,
       ListMissing, ListComplete, FetchedAll, StageOnly, EnterClear, Fetch,
       TearFetch, EnterOrganize, CameraDone, FinishRun, Record,
       RecordOrganized, Format, FormatUnanswered, FormatAgain, Shoot

LEMMA HostTakenStep ==
    ASSUME TypeOK, FilesInPlace, CardsInPlace, ListedOnCard, HostTaken, [Next]_vars
    PROVE  HostTaken'
<1> USE ConstantsAssumption
<1>0. taken \subseteq taken'
  BY CardFrame DEF Shoot, Format, FormatUnanswered, FormatAgain
<1>1. CASE UNCHANGED <<staged, archive>>
  BY <1>0, <1>1 DEF HostTaken, OnHost, WholeStaged
<1>2. ASSUME NEW k \in Keys, Fetch(k) PROVE HostTaken'
  <2> PICK s \in listing : \E file \in {s, Partial} :
             s.key = k /\ staged' = [staged EXCEPT ![cam][k] = file]
    BY <1>2 DEF Fetch, Downloads
  <2> PICK file \in {s, Partial} : staged' = [staged EXCEPT ![cam][k] = file]
    OBVIOUS
  <2>1. s \in taken
    BY <1>2 DEF Fetch, Fetching, ListedOnCard, FetchPcs, CardsInPlace, TypeOK
  <2>2. ASSUME NEW t \in Shots, staged'[t.cam][t.key] = t
        PROVE  t = s \/ WholeStaged(t)
    BY <2>2 DEF WholeStaged, TypeOK
  <2> QED
    BY <1>0, <1>2, <2>1, <2>2 DEF HostTaken, OnHost, WholeStaged, Fetch
<1>3. ASSUME NEW k \in Keys, TearFetch(k) PROVE HostTaken'
  <2>1. ASSUME NEW t \in Shots, staged'[t.cam][t.key] = t
        PROVE  WholeStaged(t)
    BY <1>3, <2>1 DEF TearFetch, WholeStaged, TypeOK
  <2> QED
    BY <1>0, <1>3, <2>1 DEF HostTaken, OnHost, WholeStaged, TearFetch
<1>4. ASSUME NEW k \in Keys, OrganizeOne(k) PROVE HostTaken'
  <2>1. ASSUME NEW t \in Shots, staged'[t.cam][t.key] = t
        PROVE  WholeStaged(t)
    BY <1>4, <2>1 DEF OrganizeOne, WholeStaged, TypeOK
  <2>2. ASSUME NEW t \in Shots, t = staged[cam][k]
        PROVE  WholeStaged(t)
    <3>1. cam \in Cameras
      BY DEF TypeOK
    <3>2. t.cam = cam /\ t.key = k
      BY <2>2, <3>1 DEF FilesInPlace
    <3> QED
      BY <2>2, <3>2 DEF WholeStaged
  <2>3. archive' \subseteq OnHost
    BY <1>4, <2>2 DEF OrganizeOne, OnHost, TypeOK
  <2> QED
    BY <1>0, <2>1, <2>3 DEF HostTaken, OnHost, WholeStaged
<1> QED
  BY <1>1, <1>2, <1>3, <1>4, StagedFrame, ArchiveFrame

\* A format erases no listed shot whose file is not in place.
LEMMA ListedErase ==
    ASSUME UniqueNames, TypeOK, SafeInv, [Next]_vars,
           NEW c \in Cameras, NEW s \in (card[c] \ card'[c]) \cap listing
    PROVE  staged[c][s.key] \in {s, Partial}
<1> USE ConstantsAssumption
<1>1. Format \/ FormatUnanswered
  BY CardFrame DEF Shoot, FormatAgain, SafeInv, ListedIsGone, TypeOK
<1>2. c = cam /\ pc = "clear"
  BY <1>1 DEF Format, FormatUnanswered, TypeOK
<1>3. s \in Shots /\ s.cam = c /\ s.key \in Keys
  BY <1>2 DEF TypeOK, SafeInv, ListingInPlace
<1>4. staged[c][s.key] # Absent
  BY <1>2 DEF SafeInv, VerifiedListing, VerifiedPcs, KeysOf, StagedKeys
<1>5. staged \in [Cameras -> [Keys -> Shots \cup {Absent, Partial}]]
  BY DEF TypeOK
<1>6. staged[c][s.key] \in Shots \cup {Partial}
  <2>1. staged[c][s.key] \in Shots \cup {Absent, Partial}
    BY ONLY <1>3, <1>5, c \in Cameras
  <2> QED
    BY ONLY <1>4, <2>1
<1>7. ASSUME NEW t \in Shots, staged[c][s.key] = t PROVE t = s
  <2>0. FilesInPlace
    BY DEF SafeInv
  <2>1. \A k \in Keys : staged[c][k] = t => t.cam = c /\ t.key = k
    BY <2>0 DEF FilesInPlace
  <2>2. t.cam = c /\ t.key = s.key
    BY <1>3, <1>7, <2>1
  <2> QED
    BY <1>3, <2>2 DEF UniqueNames
<1> QED
  BY <1>6, <1>7

\* In the reliable environment it erases no shot that is not whole in staging.
LEMMA AnyErase ==
    ASSUME Reliable, TypeOK, SafeInv, [Next]_vars,
           NEW c \in Cameras, NEW s \in card[c] \ card'[c]
    PROVE  WholeStaged(s)
<1> USE ConstantsAssumption
<1>1. Format \/ FormatUnanswered
  BY CardFrame DEF Shoot, FormatAgain, Reliable, SafeInv, ClearedIsEmpty, TypeOK
<1>2. c = cam /\ pc = "clear"
  BY <1>1 DEF Format, FormatUnanswered, TypeOK
<1>3. s \in listing
  BY <1>2 DEF SafeInv, FreshListing, VerifiedPcs, Reliable
<1>4. s \in Shots /\ s.cam = c /\ s.key \in Keys
  BY DEF TypeOK, SafeInv, CardsInPlace
<1>5. staged[c][s.key] # Partial
  BY <1>4 DEF Reliable, SafeInv, NothingPartial
<1> QED
  BY <1>3, <1>4, <1>5, ListedErase DEF Reliable, WholeStaged

\* The host never gives a whole copy up.
LEMMA HostKeeps ==
    ASSUME Reliable, TypeOK, SafeInv, [Next]_vars
    PROVE  OnHost \subseteq OnHost'
<1> USE ConstantsAssumption
<1>0. archive \subseteq archive'
  BY ArchiveFrame DEF OrganizeOne
<1> SUFFICES ASSUME NEW s \in Shots, WholeStaged(s)
             PROVE  s \in archive' \/ WholeStaged(s)'
  BY <1>0 DEF OnHost
<1>1. CASE UNCHANGED staged
  BY <1>1 DEF WholeStaged
<1>2. ASSUME NEW k \in Keys, Fetch(k) PROVE WholeStaged(s)'
  <2> PICK t \in listing : t.key = k /\ staged' = [staged EXCEPT ![cam][k] = t]
    BY <1>2 DEF Fetch, Downloads, Reliable
  <2>1. t \in Shots /\ t.cam = cam
    BY DEF TypeOK, SafeInv, ListingInPlace
  <2>2. CASE s.cam = cam /\ s.key = k
    BY <2>1, <2>2 DEF Reliable, UniqueNames, WholeStaged, TypeOK
  <2>3. CASE ~(s.cam = cam /\ s.key = k)
    BY <2>3 DEF WholeStaged, TypeOK
  <2> QED
    BY <2>2, <2>3
<1>3. ASSUME NEW k \in Keys, TearFetch(k) PROVE FALSE
  BY <1>3 DEF TearFetch, Reliable
<1>4. ASSUME NEW k \in Keys, OrganizeOne(k) PROVE s \in archive' \/ WholeStaged(s)'
  BY <1>4 DEF OrganizeOne, WholeStaged, TypeOK
<1> QED
  BY <1>1, <1>2, <1>3, <1>4, StagedFrame

LEMMA LossStep ==
    ASSUME Reliable, TypeOK, SafeInv, [Next]_vars
    PROVE  NoLoss'
<1> USE ConstantsAssumption
<1> SUFFICES ASSUME NEW s \in taken', s \notin card'[s.cam]
             PROVE  s \in OnHost'
  BY DEF NoLoss
<1>0. ASSUME NEW t \in Shots, Shoot(t) PROVE s # t
  <2>1. t.cam \in Cameras /\ card' = [card EXCEPT ![t.cam] = @ \cup {t}]
    BY <1>0 DEF Shoot
  <2>2. t \in card'[t.cam]
    BY <2>1 DEF TypeOK
  <2> QED
    BY <2>2
<1>1. s \in taken /\ s \in Shots /\ s.cam \in Cameras
  <2>1. s \in taken
    BY <1>0, CardFrame DEF Shoot, Format, FormatUnanswered, FormatAgain
  <2> QED
    BY <2>1 DEF TypeOK
<1>2. CASE s \in card[s.cam]
  <2>1. WholeStaged(s)
    BY <1>1, <1>2, AnyErase
  <2> QED
    BY <1>1, <2>1, HostKeeps DEF OnHost
<1>3. CASE s \in OnHost
  BY <1>3, HostKeeps
<1> QED
  BY <1>1, <1>2, <1>3 DEF SafeInv, NoLoss

LEMMA SafeStep == TypeOK /\ SafeInv /\ [Next]_vars => SafeInv'
BY FilesStep, CardsStep, ListingStep, VerifiedStep, OnCardStep, WasTakenStep,
   GoneStep, EmptyStep, HostTakenStep, PartialStep, FreshStep, LossStep
   DEF SafeInv

\* SafeInv holds in every state, whatever the environment.
THEOREM Safe == Spec => [](TypeOK /\ SafeInv)
<1>1. Init => SafeInv
  BY ConstantsAssumption
     DEF Init, SafeInv, FilesInPlace, CardsInPlace, ListingInPlace, NothingPartial,
         VerifiedListing, FreshListing, VerifiedPcs, ListedOnCard, FetchPcs, ListedWasTaken,
         ListedIsGone, ClearedIsEmpty, ClearedPcs, HostTaken,
         OnHost, WholeStaged, NoLoss
<1> QED
  BY <1>1, TypeCorrect, SafeStep, PTL DEF Spec

-----------------------------------------------------------------------------
(* The promises.                                                           *)

\* In the reliable environment (complete listings, whole downloads, whole
\* writes, no shot in mid-session) no shot is ever lost, whatever crashes,
\* errors and lost format replies the runs of run_camera go through.
THEOREM NothingIsLost ==
    ASSUME Reliable
    PROVE  Spec => []NoLoss
<1>1. SafeInv => NoLoss
  BY DEF SafeInv
<1> QED
  BY <1>1, Safe, PTL

\* In the reliable environment, whole downloads among it, the card is formatted
\* only over shots that are whole in staging.
THEOREM EraseIsSafe ==
    ASSUME Reliable
    PROVE  Spec => ErasedOnlyIfStaged
<1>1. TypeOK /\ SafeInv /\ [Next]_vars
        => [\A c \in Cameras : \A s \in card[c] \ card'[c] : WholeStaged(s)]_vars
  BY AnyErase
<1> QED
  BY <1>1, Safe, PTL DEF Spec, ErasedOnlyIfStaged

\* In every environment where names are unique, lost page replies, downloads
\* with holes and shots taken in mid-session included, the shots of the last
\* listing are erased only if staging has them, whole or in part.
THEOREM ListedEraseIsSafe ==
    ASSUME UniqueNames
    PROVE  Spec => ListedErasedOnlyIfStaged
<1>1. TypeOK /\ SafeInv /\ [Next]_vars
        => [\A c \in Cameras :
              \A s \in (card[c] \ card'[c]) \cap listing :
                  staged[c][s.key] \in {s, Partial}]_vars
  BY ListedErase
<1> QED
  BY <1>1, Safe, PTL DEF Spec, ListedErasedOnlyIfStaged

-----------------------------------------------------------------------------
(* The runs implement MediaArchive.                                        *)

\* What a step does to the cards, as MediaArchive sees it.
LEMMA CardsView ==
    ASSUME Reliable, TypeOK, SafeInv, [Next]_vars
    PROVE  LET onCamera == UNION {card[c] : c \in Cameras}
           IN  \/ UNCHANGED <<onCamera, taken>>
               \/ \E S \in SUBSET (onCamera \cap OnHost) :
                      /\ onCamera' = onCamera \ S
                      /\ UNCHANGED <<staged, archive>>
               \/ \E s \in Shots :
                      /\ s \notin taken
                      /\ onCamera' = onCamera \cup {s}
                      /\ UNCHANGED <<staged, archive>>
<1> USE ConstantsAssumption
<1> DEFINE onCamera == UNION {card[c] : c \in Cameras}
<1>1. CASE UNCHANGED <<card, taken>>
  BY <1>1
<1>2. CASE Format \/ FormatUnanswered \/ FormatAgain
  <2> DEFINE S == card[cam]
  <2>1. cam \in Cameras /\ card' = [card EXCEPT ![cam] = {}]
    BY <1>2 DEF Format, FormatUnanswered, FormatAgain, TypeOK
  <2>2. \A s \in S : s \in Shots /\ WholeStaged(s)
    BY <2>1, AnyErase DEF TypeOK
  <2>3. \A c \in Cameras : c # cam => card[c] \cap S = {}
    BY <2>1 DEF SafeInv, CardsInPlace
  <2>4. onCamera' = onCamera \ S
    BY <2>1, <2>3 DEF TypeOK
  <2>5. S \subseteq onCamera \cap OnHost
    BY <2>1, <2>2 DEF OnHost
  <2>6. UNCHANGED <<staged, archive>>
    BY <1>2 DEF Format, FormatUnanswered, FormatAgain, fileVars
  <2> QED
    BY <2>4, <2>5, <2>6
<1>3. ASSUME NEW s \in Shots, Shoot(s)
      PROVE  s \notin taken /\ onCamera' = onCamera \cup {s} /\ UNCHANGED <<staged, archive>>
  BY <1>3 DEF Shoot, fileVars, TypeOK
<1> QED
  BY <1>1, <1>2, <1>3, CardFrame

\* What a step that leaves the cards alone does to the host's copies.
LEMMA HostView ==
    ASSUME Reliable, TypeOK, SafeInv, [Next]_vars
    PROVE  \/ OnHost' = OnHost
           \/ \E s \in card[cam] : OnHost' = OnHost \cup {s} /\ UNCHANGED card
<1> USE ConstantsAssumption
<1>0. OnHost \subseteq OnHost'
  BY HostKeeps
<1>1. CASE UNCHANGED <<staged, archive>>
  BY <1>1 DEF OnHost, WholeStaged
<1>2. ASSUME NEW k \in Keys, Fetch(k)
      PROVE  \E s \in card[cam] : OnHost' = OnHost \cup {s} /\ UNCHANGED card
  <2> PICK s \in listing : s.key = k /\ staged' = [staged EXCEPT ![cam][k] = s]
    BY <1>2 DEF Fetch, Downloads, Reliable
  <2>1. s \in card[cam] /\ s \in Shots /\ s.cam = cam
    BY <1>2 DEF Fetch, Fetching, SafeInv, ListedOnCard, FetchPcs, ListingInPlace, TypeOK
  <2>2. WholeStaged(s)'
    BY <2>1 DEF WholeStaged, TypeOK
  <2>3. ASSUME NEW t \in Shots, staged'[t.cam][t.key] = t
        PROVE  t = s \/ WholeStaged(t)
    BY <2>3 DEF WholeStaged, TypeOK
  <2>4. UNCHANGED <<archive, card>>
    BY <1>2 DEF Fetch, cardVars
  <2>5. OnHost' = OnHost \cup {s}
    BY <1>0, <2>1, <2>2, <2>3, <2>4 DEF OnHost, WholeStaged
  <2> QED
    BY <2>1, <2>4, <2>5
<1>3. ASSUME NEW k \in Keys, TearFetch(k) PROVE FALSE
  BY <1>3 DEF TearFetch, Reliable
<1>4. ASSUME NEW k \in Keys, OrganizeOne(k) PROVE OnHost' = OnHost
  <2>1. ASSUME NEW t \in Shots, staged'[t.cam][t.key] = t
        PROVE  WholeStaged(t)
    BY <1>4, <2>1 DEF OrganizeOne, WholeStaged, TypeOK
  <2>2. ASSUME NEW t \in Shots, t = staged[cam][k]
        PROVE  WholeStaged(t)
    <3>1. cam \in Cameras
      BY DEF TypeOK
    <3>2. t.cam = cam /\ t.key = k
      BY <2>2, <3>1 DEF SafeInv, FilesInPlace
    <3> QED
      BY <2>2, <3>2 DEF WholeStaged
  <2>3. archive' \subseteq OnHost
    BY <1>4, <2>2 DEF OrganizeOne, OnHost, TypeOK
  <2> QED
    BY <1>0, <2>1, <2>3 DEF OnHost, WholeStaged
<1> QED
  BY <1>1, <1>2, <1>3, <1>4, StagedFrame, ArchiveFrame

\* In the reliable environment the runs implement MediaArchive: a format is an
\* Erase, a download, whole as that environment has it, a Copy, and everything
\* else a Take or a stutter.
THEOREM RunsKeepThePromise ==
    ASSUME Reliable
    PROVE  Spec => ArchivePromise
<1> USE ConstantsAssumption
<1> DEFINE onCamera == UNION {card[c] : c \in Cameras}
<1>1. Init => Promise!Init
  BY DEF Init, Promise!Init, OnHost, WholeStaged
<1>2. TypeOK /\ SafeInv /\ [Next]_vars => [Promise!Next]_<<onCamera, OnHost>>
  <2> SUFFICES ASSUME TypeOK, SafeInv, [Next]_vars
               PROVE  Promise!Next \/ UNCHANGED <<onCamera, OnHost>>
    OBVIOUS
  <2>1. ASSUME UNCHANGED <<onCamera, taken>>
        PROVE  Promise!Next \/ UNCHANGED <<onCamera, OnHost>>
    <3>1. ASSUME NEW s \in card[cam], OnHost' = OnHost \cup {s}
          PROVE  Promise!Next
      <4>1. s \in Shots /\ s \in onCamera
        BY DEF TypeOK
      <4> QED
        BY <2>1, <3>1, <4>1 DEF Promise!Next, Promise!Copy
    <3> QED
      BY <2>1, <3>1, HostView
  <2>2. ASSUME NEW S \in SUBSET (onCamera \cap OnHost),
               onCamera' = onCamera \ S, UNCHANGED <<staged, archive>>
        PROVE  Promise!Next
    <3>1. S \subseteq Shots
      BY DEF OnHost, TypeOK
    <3>2. OnHost' = OnHost
      BY <2>2 DEF OnHost, WholeStaged
    <3> QED
      BY <2>2, <3>1, <3>2 DEF Promise!Next, Promise!Erase
  <2>3. ASSUME NEW s \in Shots, s \notin taken,
               onCamera' = onCamera \cup {s}, UNCHANGED <<staged, archive>>
        PROVE  Promise!Next
    <3>1. s \notin onCamera \cup OnHost
      BY <2>3 DEF SafeInv, CardsInPlace, HostTaken
    <3>2. OnHost' = OnHost
      BY <2>3 DEF OnHost, WholeStaged
    <3> QED
      BY <2>3, <3>1, <3>2 DEF Promise!Next, Promise!Take
  <2> QED
    BY <2>1, <2>2, <2>3, CardsView
<1> QED
  BY <1>1, <1>2, Safe, PTL DEF Spec, ArchivePromise, Promise!Spec, Promise!archiveVars

-----------------------------------------------------------------------------
(* The state file: that done, downloaded and organized say of a camera     *)
(* what the disk has, that the file is rotated only when every camera is   *)
(* done, and that nothing is fetched twice.                                *)
(*                                                                         *)
(* What makes it inductive is the bookkeeping of the two loops over todo:  *)
(* what they have left is what staging lacks, or what it still has.        *)

\* The key at which a loop over todo is, in its order.
Greatest(k) == k \in todo /\ \A j \in todo : j <= k
Least(k)    == k \in todo /\ \A j \in todo : k <= j

\* A camera that is visited is not done, so that nothing is staged for one that is.
OpenNotDone == pc \in SessionPcs => status[cam] # "done"

\* The download loop has left what is missing, but for the one just written ...
FetchingMissing ==
    pc \in FetchPcs =>
        \A k \in todo : pc = "fetch" \/ ~Greatest(k) => k \notin StagedKeys(cam)

\* ... and organize what is staged, but for the one just moved: no more, and
\* unless it is a dry run no less.
OrganizingStaged ==
    pc \in {"organize", "moved"} =>
        \A k \in todo : pc = "organize" \/ ~Least(k) => k \in StagedKeys(cam)

OrganizingAll ==
    pc \in {"organize", "moved"} /\ mode # "dry_run" =>
        \A k \in StagedKeys(cam) : k \in todo /\ (pc = "organize" \/ ~Least(k))

\* While all goes well every camera that was visited is done.
IdleAtFirst == pc \in {"idle", "finish"} => cam = 1

VisitedDone ==
    allOk /\ mode # "stage_only" /\ pc # "idle" =>
        \A c \in Cameras : c < cam \/ pc = "finish" => status[c] = "done"

DoneOrganized == "dry_run" \notin Modes => DoneMeansOrganized

\* What is written or moved and not yet recorded is where the record will say.
RecordPending ==
    pc = "record" => \A s \in Shots : s.cam = cam /\ Greatest(s.key) => s \in OnHost

MovedPending ==
    pc = "moved" => \A s \in Shots : s.cam = cam /\ Least(s.key) => s \in archive

\* StateFileTruthful for all shots, those not taken included: where names are
\* unique nothing is recorded for them.
RecordsTrue ==
    \A s \in Shots :
        /\ s.key \in downloaded[s.cam] => s \in OnHost
        /\ s.key \in organized[s.cam] => s \in archive

BookInv ==
    OpenNotDone /\ FetchingMissing /\ OrganizingStaged /\ OrganizingAll
    /\ IdleAtFirst /\ VisitedDone /\ DoneOrganized

TruthInv == RecordPending /\ MovedPending /\ RecordsTrue

-----------------------------------------------------------------------------
(* Which steps touch what.                                                 *)

\* A camera becomes done by CameraDone alone.
LEMMA DoneFrame ==
    ASSUME TypeOK, [Next]_vars, NEW c \in Cameras, status'[c] = "done"
    PROVE  status[c] = "done" \/ (c = cam /\ CameraDone)
<1> USE ConstantsAssumption DEF TypeOK
<1>1. CASE UNCHANGED status
  BY <1>1
<1>2. CASE Connect \/ SessionError \/ ListMissing \/ ListComplete \/ FetchedAll
           \/ StageOnly \/ EnterClear \/ EnterOrganize
  BY <1>2 DEF Connect, SessionError, ListMissing, ListComplete, FetchedAll, StageOnly,
     EnterClear, EnterOrganize, SaveStatus, stateVars
<1>3. CASE CameraDone
  BY <1>3 DEF CameraDone, SaveStatus
<1>4. CASE FinishRun
  BY <1>4 DEF FinishRun, RotateState, stateVars
<1>5. \/ UNCHANGED status
      \/ Connect \/ SessionError \/ ListMissing \/ ListComplete \/ FetchedAll
      \/ StageOnly \/ EnterClear \/ EnterOrganize \/ CameraDone \/ FinishRun
  BY DEF Next, Progress, Fault, vars, stateVars, Crash, StartRun, SkipDone, ConnectFails,
     Fetch, TearFetch, Record, Format, FormatUnanswered, FormatAgain, OrganizeOne,
     RecordOrganized, Shoot
<1> QED
  BY <1>1, <1>2, <1>3, <1>4, <1>5

\* A camera that is done stays so until a rotation, if none is visited that is.
LEMMA UndoneFrame ==
    ASSUME TypeOK, OpenNotDone, [Next]_vars, NEW c \in Cameras,
           status[c] = "done", status'[c] # "done"
    PROVE  FinishRun /\ allOk /\ mode # "stage_only"
<1> USE ConstantsAssumption DEF TypeOK
<1>1. ~Connect
  BY DEF Connect, SaveStatus
<1>2. ~SessionError /\ ~ListMissing /\ ~ListComplete /\ ~FetchedAll
  BY DEF OpenNotDone, SessionPcs, SessionError, ListMissing, ListComplete, FetchedAll,
     SaveStatus, stateVars
<1>3. ~StageOnly /\ ~EnterClear /\ ~EnterOrganize /\ ~CameraDone
  BY DEF OpenNotDone, SessionPcs, StageOnly, EnterClear, EnterOrganize, CameraDone, SaveStatus
<1>4. FinishRun
  BY <1>1, <1>2, <1>3 DEF Next, Progress, Fault, vars, stateVars, Crash, StartRun, SkipDone,
     ConnectFails, Fetch, TearFetch, Record, Format, FormatUnanswered, FormatAgain,
     OrganizeOne, RecordOrganized, Shoot
<1> QED
  BY <1>4 DEF FinishRun, stateVars

\* A session is opened to a camera that is not done and keeps to it.
LEMMA SessionFrame ==
    ASSUME [Next]_vars, pc' \in SessionPcs
    PROVE  \/ Connect
           \/ pc \in SessionPcs /\ UNCHANGED cam /\ ~CameraDone
<1> USE DEF SessionPcs
<1>1. CASE Progress
  BY <1>1 DEF Progress, StartRun, SkipDone, ListMissing,
       ListComplete, FetchedAll, StageOnly, EnterClear, Fetch, Fetching,
       OrganizeOne, EnterOrganize, CameraDone, FinishRun, Record,
       RecordOrganized, Format, NextCamera
<1>2. CASE ~Progress
  BY <1>2 DEF Next, Fault, vars, procVars, Crash, ConnectFails, SessionError,
       TearFetch, Fetching, FormatUnanswered, FormatAgain, ClearedPcs, Shoot, NextCamera, CameraDone,
       Progress
<1> QED
  BY <1>1, <1>2

-----------------------------------------------------------------------------
(* The bookkeeping of the loops.                                           *)

LEMMA OneLeast ==
    ASSUME TypeOK, NEW m, Least(m), NEW k, Least(k)
    PROVE  k = m
<1>1. todo \subseteq Nat
  BY ConstantsAssumption DEF TypeOK
<1> QED
  BY <1>1 DEF Least

LEMMA OneGreatest ==
    ASSUME TypeOK, NEW m, Greatest(m), NEW k, Greatest(k)
    PROVE  k = m
<1>1. todo \subseteq Nat
  BY ConstantsAssumption DEF TypeOK
<1> QED
  BY <1>1 DEF Greatest

LEMMA OpenStep ==
    ASSUME TypeOK, OpenNotDone, [Next]_vars
    PROVE  OpenNotDone'
<1> SUFFICES ASSUME pc' \in SessionPcs PROVE status'[cam'] # "done"
  BY DEF OpenNotDone
<1>1. CASE Connect
  BY <1>1 DEF Connect, SaveStatus, TypeOK
<1>2. CASE pc \in SessionPcs /\ UNCHANGED cam /\ ~CameraDone
  <2>1. status[cam] # "done" /\ cam \in Cameras
    BY <1>2 DEF OpenNotDone, TypeOK
  <2> QED
    BY <1>2, <2>1, DoneFrame
<1> QED
  BY <1>1, <1>2, SessionFrame

\* Who fetches, and what for.
LEMMA FetchFrame ==
    ASSUME [Next]_vars, pc' \in FetchPcs
    PROVE  \/ ListMissing
           \/ \E k \in Keys : Fetch(k) \/ TearFetch(k) \/ Record(k)
           \/ pc \in FetchPcs /\ UNCHANGED <<pc, cam, todo, staged>>
<1> USE DEF FetchPcs
<1>1. CASE Progress
  BY <1>1 DEF Progress, StartRun, SkipDone, Connect, ListComplete, FetchedAll, StageOnly,
     EnterClear, OrganizeOne, EnterOrganize, CameraDone, FinishRun, RecordOrganized,
     Format, NextCamera
<1>2. CASE ~Progress
  BY <1>2 DEF Next, Fault, vars, procVars, fileVars, Crash, ConnectFails, SessionError,
     FormatUnanswered, FormatAgain, Shoot, NextCamera
<1> QED
  BY <1>1, <1>2

LEMMA FetchingStep ==
    ASSUME TypeOK, FetchingMissing, [Next]_vars
    PROVE  FetchingMissing'
<1> USE ConstantsAssumption
<1> SUFFICES ASSUME pc' \in FetchPcs, NEW k \in todo', pc' = "fetch" \/ ~Greatest(k)'
             PROVE  k \notin StagedKeys(cam)'
  BY DEF FetchingMissing
<1>1. CASE ListMissing
  BY <1>1 DEF ListMissing, Missing, StagedKeys, fileVars
<1>2. ASSUME NEW m \in Keys, Fetch(m) \/ TearFetch(m) PROVE k \notin StagedKeys(cam)'
  <2>1. /\ pc = "fetch" /\ Greatest(m) /\ pc' # "fetch" /\ UNCHANGED <<cam, todo>>
        /\ \A j \in Keys : j # m => staged'[cam][j] = staged[cam][j]
    BY <1>2 DEF Fetch, TearFetch, Fetching, Greatest, TypeOK
  <2>2. k \in todo /\ k # m /\ k \in Keys
    BY <2>1 DEF Greatest, TypeOK
  <2>3. k \notin StagedKeys(cam)
    BY <2>1, <2>2 DEF FetchingMissing, FetchPcs
  <2> QED
    BY <2>1, <2>2, <2>3 DEF StagedKeys
<1>3. ASSUME NEW m \in Keys, Record(m) PROVE k \notin StagedKeys(cam)'
  <2>1. /\ pc = "record" /\ Greatest(m) /\ UNCHANGED <<cam, staged>>
        /\ todo' = todo \ {m}
    BY <1>3 DEF Record, Greatest, fileVars
  <2>2. k \in todo /\ k # m /\ k \in Keys /\ todo \subseteq Nat
    BY <2>1 DEF TypeOK
  <2>3. ~Greatest(k)
    BY <2>1, <2>2 DEF Greatest
  <2> QED
    BY <2>1, <2>2, <2>3 DEF FetchingMissing, FetchPcs, StagedKeys
<1>4. CASE pc \in FetchPcs /\ UNCHANGED <<pc, cam, todo, staged>>
  <2>1. k \in todo /\ (pc = "fetch" \/ ~Greatest(k))
    BY <1>4 DEF Greatest
  <2> QED
    BY <1>4, <2>1 DEF FetchingMissing, StagedKeys
<1> QED
  BY <1>1, <1>2, <1>3, <1>4, FetchFrame

LEMMA OrganizeFrame ==
    ASSUME [Next]_vars, pc' \in {"organize", "moved"}
    PROVE  \/ EnterOrganize
           \/ \E k \in Keys : OrganizeOne(k) \/ RecordOrganized(k)
           \/ pc \in {"organize", "moved"} /\ UNCHANGED <<pc, cam, todo, staged, mode>>
<1>1. CASE Progress
  BY <1>1 DEF Progress, StartRun, SkipDone, Connect, ListMissing, ListComplete, FetchedAll,
     StageOnly, EnterClear, CameraDone, FinishRun, Fetch, Record, Format, NextCamera
<1>2. CASE ~Progress
  BY <1>2 DEF Next, Fault, vars, procVars, fileVars, Crash, ConnectFails, SessionError,
     TearFetch, FormatUnanswered, FormatAgain, Shoot, NextCamera
<1> QED
  BY <1>1, <1>2

LEMMA OrganizingStep ==
    ASSUME TypeOK, OrganizingStaged, OrganizingAll, [Next]_vars
    PROVE  OrganizingStaged' /\ OrganizingAll'
<1> USE ConstantsAssumption
<1> SUFFICES ASSUME pc' \in {"organize", "moved"}
             PROVE  /\ \A k \in todo' : pc' = "organize" \/ ~Least(k)' => k \in StagedKeys(cam)'
                    /\ mode' # "dry_run" =>
                          \A k \in StagedKeys(cam)' : k \in todo' /\ (pc' = "organize" \/ ~Least(k)')
  BY DEF OrganizingStaged, OrganizingAll
<1>1. CASE EnterOrganize
  BY <1>1 DEF EnterOrganize, StagedKeys, fileVars
<1>2. ASSUME NEW m \in Keys, OrganizeOne(m)
      PROVE  /\ \A k \in todo' : pc' = "organize" \/ ~Least(k)' => k \in StagedKeys(cam)'
             /\ mode' # "dry_run" =>
                  \A k \in StagedKeys(cam)' : k \in todo' /\ (pc' = "organize" \/ ~Least(k)')
  <2>1. /\ pc = "organize" /\ Least(m) /\ pc' = "moved" /\ UNCHANGED <<cam, todo, mode>>
        /\ \A j \in Keys : j # m => staged'[cam][j] = staged[cam][j]
        /\ staged'[cam][m] = Absent
    BY <1>2 DEF OrganizeOne, Least, TypeOK
  <2>2. \A k \in Keys : Least(k)' <=> Least(k)
    BY <2>1 DEF Least
  <2>3. \A k \in todo : Least(k) <=> k = m
    BY <2>1, OneLeast
  <2>4. StagedKeys(cam)' = StagedKeys(cam) \ {m}
    BY <2>1 DEF StagedKeys
  <2>5. todo \subseteq Keys
    BY DEF TypeOK
  <2> QED
    BY <2>1, <2>2, <2>3, <2>4, <2>5 DEF OrganizingStaged, OrganizingAll
<1>3. ASSUME NEW m \in Keys, RecordOrganized(m)
      PROVE  /\ \A k \in todo' : pc' = "organize" \/ ~Least(k)' => k \in StagedKeys(cam)'
             /\ mode' # "dry_run" =>
                  \A k \in StagedKeys(cam)' : k \in todo' /\ (pc' = "organize" \/ ~Least(k)')
  <2>1. /\ pc = "moved" /\ Least(m) /\ pc' = "organize" /\ UNCHANGED <<cam, mode, staged>>
        /\ todo' = todo \ {m}
    BY <1>3 DEF RecordOrganized, Least, fileVars
  <2>2. \A k \in todo : Least(k) <=> k = m
    BY <2>1, OneLeast
  <2>3. StagedKeys(cam)' = StagedKeys(cam)
    BY <2>1 DEF StagedKeys
  <2>4. \A k \in todo : k # m => k \in StagedKeys(cam)
    BY <2>1, <2>2 DEF OrganizingStaged
  <2>5. mode # "dry_run" => \A k \in StagedKeys(cam) : k \in todo /\ k # m
    BY <2>1, <2>2 DEF OrganizingAll
  <2>6. \A k \in todo' : k \in StagedKeys(cam)'
    BY <2>1, <2>3, <2>4
  <2>7. mode' # "dry_run" => \A k \in StagedKeys(cam)' : k \in todo'
    BY <2>1, <2>3, <2>5
  <2> QED
    BY <2>1, <2>6, <2>7
<1>4. CASE pc \in {"organize", "moved"} /\ UNCHANGED <<pc, cam, todo, staged, mode>>
  <2>1. \A k : Least(k)' <=> Least(k)
    BY <1>4 DEF Least
  <2>2. StagedKeys(cam)' = StagedKeys(cam)
    BY <1>4 DEF StagedKeys
  <2> QED
    BY <1>4, <2>1, <2>2 DEF OrganizingStaged, OrganizingAll
<1> QED
  BY <1>1, <1>2, <1>3, <1>4, OrganizeFrame

LEMMA DoneStep ==
    ASSUME TypeOK, OpenNotDone, OrganizingAll, "dry_run" \notin Modes, DoneMeansOrganized, [Next]_vars
    PROVE  DoneMeansOrganized'
<1> USE ConstantsAssumption
<1> SUFFICES ASSUME NEW c \in Cameras, status'[c] = "done"
             PROVE  StagedKeys(c)' = {}
  BY DEF DoneMeansOrganized
<1>1. CASE c = cam /\ CameraDone
  <2>1. pc = "organize" /\ todo = {} /\ UNCHANGED staged /\ mode # "dry_run"
    BY <1>1 DEF CameraDone, fileVars, TypeOK
  <2> QED
    BY <1>1, <2>1 DEF OrganizingAll, StagedKeys
<1>2. CASE status[c] = "done"
  <2>1. StagedKeys(c) = {}
    BY <1>2 DEF DoneMeansOrganized
  <2>2. CASE UNCHANGED staged
    BY <2>1, <2>2 DEF StagedKeys
  <2>3. ASSUME NEW k \in Keys, Fetch(k) \/ TearFetch(k) \/ OrganizeOne(k)
        PROVE  staged'[c] = staged[c]
    <3>1. c # cam
      BY <1>2, <2>3 DEF OpenNotDone, SessionPcs, Fetch, TearFetch, Fetching, OrganizeOne
    <3> QED
      BY <2>3, <3>1 DEF Fetch, TearFetch, OrganizeOne, TypeOK
  <2> QED
    BY <2>1, <2>2, <2>3, StagedFrame DEF StagedKeys
<1> QED
  BY <1>1, <1>2, DoneFrame

-----------------------------------------------------------------------------
(* The visits of a run.                                                    *)

LEMMA IdleStep ==
    ASSUME IdleAtFirst, [Next]_vars
    PROVE  IdleAtFirst'
<1> SUFFICES ASSUME pc' \in {"idle", "finish"} PROVE cam' = 1
  BY DEF IdleAtFirst
<1>1. CASE Progress
  BY <1>1 DEF Progress, IdleAtFirst, StartRun, SkipDone, Connect, ListMissing, ListComplete,
     FetchedAll, StageOnly, EnterClear, CameraDone, FinishRun, Fetch, Record, Format,
     EnterOrganize, OrganizeOne, RecordOrganized, NextCamera
<1>2. CASE ~Progress
  BY <1>2 DEF Next, Fault, IdleAtFirst, vars, procVars, Crash, ConnectFails, SessionError,
     TearFetch, FormatUnanswered, FormatAgain, Shoot, NextCamera
<1> QED
  BY <1>1, <1>2

\* What a step of a run that goes well, and goes on, does.
LEMMA VisitFrame ==
    ASSUME TypeOK, [Next]_vars, allOk', mode' # "stage_only", pc' # "idle"
    PROVE  \/ StartRun
           \/ SkipDone \/ CameraDone
           \/ /\ UNCHANGED <<cam, mode, allOk>>
              /\ pc # "idle" /\ (pc' = "finish" => pc = "finish")
              /\ \A c \in Cameras : c # cam => status'[c] = status[c]
              /\ pc' = "finish" => UNCHANGED status
<1> USE ConstantsAssumption DEF TypeOK
<1>1. CASE Connect \/ ListMissing \/ ListComplete \/ FetchedAll
           \/ EnterClear \/ EnterOrganize
  BY <1>1 DEF Connect, ListMissing, ListComplete, FetchedAll, EnterClear, EnterOrganize,
     SaveStatus, stateVars
<1>2. ~StageOnly /\ ~FinishRun /\ ~Crash
  BY DEF StageOnly, FinishRun, Crash, NextCamera
<1>3. ~ConnectFails /\ ~SessionError
  BY DEF ConnectFails, SessionError
<1>4. ASSUME NEW k \in Keys, Fetch(k) \/ TearFetch(k) \/ Record(k) \/ OrganizeOne(k)
                             \/ RecordOrganized(k)
      PROVE  UNCHANGED <<cam, mode, allOk, status>> /\ pc # "idle" /\ pc' # "finish"
  BY <1>4 DEF Fetch, Fetching, TearFetch, Record, OrganizeOne, RecordOrganized, stateVars
<1>5. CASE Format
  BY <1>5 DEF Format, stateVars
<1>6. CASE FormatUnanswered \/ FormatAgain \/ UNCHANGED vars \/ \E s \in Shots : Shoot(s)
  BY <1>6 DEF FormatUnanswered, FormatAgain, vars, Shoot, stateVars, procVars
<1> QED
  BY <1>1, <1>2, <1>3, <1>4, <1>5, <1>6 DEF Next, Progress, Fault

LEMMA VisitedStep ==
    ASSUME TypeOK, IdleAtFirst, VisitedDone, [Next]_vars
    PROVE  VisitedDone'
<1> USE ConstantsAssumption DEF Cameras
<1> SUFFICES ASSUME allOk', mode' # "stage_only", pc' # "idle",
                    NEW c \in Cameras, c < cam' \/ pc' = "finish"
             PROVE  status'[c] = "done"
  BY DEF VisitedDone
<1>0. cam \in 1..NCameras
  BY DEF TypeOK
<1>1. CASE StartRun
  BY <1>0, <1>1 DEF StartRun, IdleAtFirst
<1>2. CASE SkipDone \/ CameraDone
  <2>1. /\ pc \notin {"idle", "finish"} /\ UNCHANGED <<allOk, mode>>
        /\ \/ status' = status /\ status[cam] = "done"
           \/ status' = [status EXCEPT ![cam] = "done"]
    BY <1>2 DEF SkipDone, CameraDone, SaveStatus, NextCamera, stateVars
  <2>2. c < cam \/ c = cam
    <3>1. NextCamera
      BY <1>2 DEF SkipDone, CameraDone
    <3>2. CASE cam < NCameras
      <4>1. cam' = cam + 1 /\ pc' = "camera"
        BY <3>1, <3>2 DEF NextCamera
      <4>2. c < cam + 1
        BY <4>1
      <4> QED
        BY <1>0, <4>2
    <3>3. CASE ~(cam < NCameras)
      <4>1. cam = NCameras
        BY <1>0, <3>3
      <4> QED
        BY <4>1
    <3> QED
      BY <3>2, <3>3
  <2>3. c < cam => status[c] = "done"
    BY <2>1 DEF VisitedDone
  <2> QED
    BY <1>0, <2>1, <2>2, <2>3 DEF TypeOK
<1>3. CASE /\ UNCHANGED <<cam, mode, allOk>>
           /\ pc # "idle" /\ (pc' = "finish" => pc = "finish")
           /\ \A d \in Cameras : d # cam => status'[d] = status[d]
           /\ pc' = "finish" => UNCHANGED status
  <2>1. status[c] = "done"
    BY <1>3 DEF VisitedDone
  <2>2. CASE pc' = "finish"
    BY <1>3, <2>1, <2>2
  <2>3. CASE c < cam
    <3>1. c # cam
      BY <1>0, <2>3
    <3> QED
      BY <1>3, <2>1, <3>1
  <2> QED
    BY <1>3, <2>2, <2>3
<1> QED
  BY <1>1, <1>2, <1>3, VisitFrame

-----------------------------------------------------------------------------
LEMMA BookStep == TypeOK /\ BookInv /\ [Next]_vars => BookInv'
BY OpenStep, FetchingStep, OrganizingStep, IdleStep, VisitedStep, DoneStep
   DEF BookInv, DoneOrganized

\* The bookkeeping holds in every environment and every mode.
LEMMA Books == Spec => [](TypeOK /\ BookInv)
<1>1. Init => BookInv
  BY ConstantsAssumption
     DEF Init, InitialRecords, BookInv, OpenNotDone, SessionPcs, FetchingMissing, FetchPcs,
         OrganizingStaged, OrganizingAll, IdleAtFirst, VisitedDone, DoneOrganized,
         DoneMeansOrganized, StagedKeys, Cameras
<1> QED
  BY <1>1, TypeCorrect, BookStep, PTL DEF Spec

\* A camera is done only when its staging area is empty, so that skipping it
\* strands no file: whatever else goes wrong, as long as nobody does a dry run.
THEOREM DoneIsOrganized ==
    ASSUME "dry_run" \notin Modes
    PROVE  Spec => []DoneMeansOrganized
<1>1. BookInv => DoneMeansOrganized
  BY DEF BookInv, DoneOrganized
<1> QED
  BY <1>1, Books, PTL

\* main throws the state file away only when every camera is done, in every
\* environment and mode.
THEOREM RotationIsEarned == Spec => RotatedOnlyWhenAllDone
<1>1. TypeOK /\ BookInv /\ [Next]_vars
        => [(\E c \in Cameras : status[c] = "done" /\ status'[c] # "done")
               => \A c \in Cameras : status[c] = "done"]_vars
  <2> SUFFICES ASSUME TypeOK, BookInv, [Next]_vars,
                      NEW c \in Cameras, status[c] = "done", status'[c] # "done"
               PROVE  \A d \in Cameras : status[d] = "done"
    OBVIOUS
  <2>1. FinishRun /\ allOk /\ mode # "stage_only"
    BY UndoneFrame DEF BookInv
  <2> QED
    BY <2>1 DEF BookInv, VisitedDone, FinishRun
<1> QED
  BY <1>1, Books, PTL DEF Spec, RotatedOnlyWhenAllDone

\* No item that staging has is fetched, in every environment and mode.
THEOREM FetchedOnce == Spec => NeverRefetched
<1>1. TypeOK /\ BookInv /\ [Next]_vars
        => [\A k \in Keys \ Unmatched :
               Fetching(k) /\ pc' \in {"record", "torn"} => staged[cam][k] = Absent]_vars
  <2> SUFFICES ASSUME BookInv, NEW k \in Keys \ Unmatched, Fetching(k)
               PROVE  staged[cam][k] = Absent
    OBVIOUS
  <2>1. k \notin StagedKeys(cam)
    BY DEF BookInv, FetchingMissing, FetchPcs, Fetching
  <2> QED
    BY <2>1 DEF StagedKeys
<1> QED
  BY <1>1, Books, PTL DEF Spec, NeverRefetched

-----------------------------------------------------------------------------
(* The truth of the records.                                               *)

LEMMA WritingFrame ==
    ASSUME [Next]_vars, pc' \in {"record", "moved"}
    PROVE  \/ \E k \in Keys : Fetch(k) \/ OrganizeOne(k)
           \/ UNCHANGED <<pc, cam, todo>>
<1>1. CASE Progress
  BY <1>1 DEF Progress, StartRun, SkipDone, Connect, ListMissing, ListComplete, FetchedAll,
     StageOnly, EnterClear, CameraDone, FinishRun, Record, RecordOrganized, EnterOrganize,
     Format, NextCamera
<1>2. CASE ~Progress
  BY <1>2 DEF Next, Fault, vars, procVars, Crash, ConnectFails, SessionError,
     TearFetch, FormatUnanswered, FormatAgain, Shoot, NextCamera
<1> QED
  BY <1>1, <1>2

\* The item that was written is the one that will be recorded.
LEMMA RecordPendingStep ==
    ASSUME Reliable, TypeOK, SafeInv, RecordPending, [Next]_vars
    PROVE  RecordPending'
<1> SUFFICES ASSUME pc' = "record", NEW s \in Shots, s.cam = cam', Greatest(s.key)'
             PROVE  s \in OnHost'
  BY DEF RecordPending
<1>1. ASSUME NEW k \in Keys, Fetch(k) PROVE s \in OnHost'
  <2> PICK t \in listing : t.key = k /\ staged' = [staged EXCEPT ![cam][k] = t]
    BY <1>1 DEF Fetch, Downloads, Reliable
  <2>1. t \in Shots /\ t.cam = cam
    BY DEF TypeOK, SafeInv, ListingInPlace
  <2>2. Greatest(k) /\ UNCHANGED <<cam, todo>>
    BY <1>1 DEF Fetch, Fetching, Greatest
  <2>3. Greatest(s.key)
    BY <2>2 DEF Greatest
  <2>4. s.key = k
    BY <2>2, <2>3, OneGreatest
  <2>5. s = t
    BY <2>1, <2>2, <2>4 DEF Reliable, UniqueNames
  <2>6. staged'[cam][k] = t
    BY DEF TypeOK
  <2> QED
    BY <2>1, <2>5, <2>6 DEF OnHost, WholeStaged
<1>2. ASSUME NEW k \in Keys, OrganizeOne(k) PROVE FALSE
  BY <1>2 DEF OrganizeOne
<1>3. CASE UNCHANGED <<pc, cam, todo>>
  <2>1. pc = "record" /\ s.cam = cam /\ Greatest(s.key)
    BY <1>3 DEF Greatest
  <2>2. s \in OnHost
    BY <2>1 DEF RecordPending
  <2> QED
    BY <2>2, HostKeeps
<1> QED
  BY <1>1, <1>2, <1>3, WritingFrame

\* The item that was moved is the one that will be recorded.
LEMMA MovedPendingStep ==
    ASSUME Reliable, TypeOK, SafeInv, OrganizingStaged, MovedPending, [Next]_vars
    PROVE  MovedPending'
<1> SUFFICES ASSUME pc' = "moved", NEW s \in Shots, s.cam = cam', Least(s.key)'
             PROVE  s \in archive'
  BY DEF MovedPending
<1>0. archive \subseteq archive'
  BY ArchiveFrame DEF OrganizeOne
<1>1. ASSUME NEW k \in Keys, OrganizeOne(k) PROVE s \in archive'
  <2>1. pc = "organize" /\ Least(k) /\ UNCHANGED <<cam, todo>>
    BY <1>1 DEF OrganizeOne, Least
  <2>2. Least(s.key)
    BY <2>1 DEF Least
  <2>3. s.key = k
    BY <2>1, <2>2, OneLeast
  <2>4. staged[cam][k] # Absent
    BY <2>1 DEF OrganizingStaged, Least, StagedKeys
  <2>5. staged[cam][k] # Partial /\ staged[cam][k] \in Shots \cup {Absent, Partial}
    BY DEF Reliable, SafeInv, NothingPartial, TypeOK
  <2> DEFINE t == staged[cam][k]
  <2>6. t \in Shots
    BY <2>4, <2>5
  <2>7. t.cam = cam /\ t.key = k
    BY <2>6 DEF SafeInv, FilesInPlace, TypeOK
  <2>8. s = t
    BY <2>1, <2>3, <2>6, <2>7 DEF Reliable, UniqueNames
  <2> QED
    BY <1>1, <2>6, <2>8 DEF OrganizeOne
<1>2. ASSUME NEW k \in Keys, Fetch(k) PROVE FALSE
  BY <1>2 DEF Fetch
<1>3. CASE UNCHANGED <<pc, cam, todo>>
  <2>1. pc = "moved" /\ s.cam = cam /\ Least(s.key)
    BY <1>3 DEF Least
  <2>2. s \in archive
    BY <2>1 DEF MovedPending
  <2> QED
    BY <1>0, <2>2
<1> QED
  BY <1>1, <1>2, <1>3, WritingFrame

LEMMA RecordsFrame ==
    ASSUME [Next]_vars
    PROVE  \/ UNCHANGED <<downloaded, organized>>
           \/ FinishRun
           \/ \E k \in Keys : Record(k) \/ RecordOrganized(k)
<1>1. CASE Progress
  BY <1>1 DEF Progress, stateVars, StartRun, SkipDone, Connect, ListMissing, ListComplete,
     FetchedAll, StageOnly, EnterClear, CameraDone, EnterOrganize, Format, Fetch,
     OrganizeOne, SaveStatus
<1>2. CASE ~Progress
  BY <1>2 DEF Next, Fault, vars, stateVars, Crash, ConnectFails, SessionError, SaveStatus,
     TearFetch, FormatUnanswered, FormatAgain, Shoot
<1> QED
  BY <1>1, <1>2

LEMMA RecordsStep ==
    ASSUME Reliable, TypeOK, SafeInv, RecordPending, MovedPending, RecordsTrue, [Next]_vars
    PROVE  RecordsTrue'
<1> USE ConstantsAssumption
<1>0. archive \subseteq archive' /\ OnHost \subseteq OnHost'
  BY ArchiveFrame, HostKeeps DEF OrganizeOne
<1>1. CASE UNCHANGED <<downloaded, organized>>
  BY <1>0, <1>1 DEF RecordsTrue
<1>2. CASE FinishRun
  <2>1. \/ UNCHANGED <<downloaded, organized>>
        \/ \A c \in Cameras : downloaded'[c] = {} /\ organized'[c] = {}
    BY <1>2 DEF FinishRun, RotateState, stateVars
  <2> QED
    BY <1>0, <2>1 DEF RecordsTrue
<1>3. ASSUME NEW k \in Keys, Record(k) PROVE RecordsTrue'
  <2>1. pc = "record" /\ Greatest(k) /\ UNCHANGED organized
    BY <1>3 DEF Record, Greatest
  <2>2. ASSUME NEW s \in Shots, s.key \in downloaded'[s.cam] PROVE s \in OnHost
    <3>1. s.key \in downloaded[s.cam] \/ (s.cam = cam /\ s.key = k)
      BY <1>3, <2>2 DEF Record, TypeOK
    <3> QED
      BY <2>1, <3>1 DEF RecordsTrue, RecordPending
  <2> QED
    BY <1>0, <2>1, <2>2 DEF RecordsTrue
<1>4. ASSUME NEW k \in Keys, RecordOrganized(k) PROVE RecordsTrue'
  <2>1. pc = "moved" /\ Least(k) /\ UNCHANGED downloaded
    BY <1>4 DEF RecordOrganized, Least
  <2>2. ASSUME NEW s \in Shots, s.key \in organized'[s.cam] PROVE s \in archive
    <3>1. s.key \in organized[s.cam] \/ (s.cam = cam /\ s.key = k)
      BY <1>4, <2>2 DEF RecordOrganized, TypeOK
    <3> QED
      BY <2>1, <3>1 DEF RecordsTrue, MovedPending
  <2> QED
    BY <1>0, <2>1, <2>2 DEF RecordsTrue
<1> QED
  BY <1>1, <1>2, <1>3, <1>4, RecordsFrame

LEMMA TruthStep ==
    ASSUME Reliable
    PROVE  TypeOK /\ SafeInv /\ BookInv /\ TruthInv /\ [Next]_vars => TruthInv'
BY RecordPendingStep, MovedPendingStep, RecordsStep DEF TruthInv, BookInv

\* In the reliable environment, whole downloads among it, the state file never
\* runs ahead of the disk, wherever the process dies.
THEOREM StateFileTellsTheTruth ==
    ASSUME Reliable
    PROVE  Spec => []StateFileTruthful
<1>1. Init => TruthInv
  BY ConstantsAssumption
     DEF Init, InitialRecords, TruthInv, RecordPending, MovedPending, RecordsTrue
<1>2. TypeOK /\ SafeInv /\ BookInv /\ TruthInv /\ [Next]_vars => TruthInv'
  BY TruthStep
<1>3. TypeOK /\ TruthInv => StateFileTruthful
  BY DEF TruthInv, RecordsTrue, StateFileTruthful, TypeOK
<1> QED
  BY <1>1, <1>2, <1>3, Safe, Books, PTL DEF Spec
=============================================================================
