----------------------------- MODULE SyncRunner -----------------------------
(***************************************************************************)
(* trailcam_sync.py and src/sync/sync_runner.py: the runs that bring every *)
(* camera's media to the host and then format the camera's SD card.        *)
(*                                                                         *)
(* One run is one process.  It visits the cameras in alias order           *)
(* (run_all); run_camera takes a camera through the states download,       *)
(* verify, clear, organize and done, saving the state file at each step,   *)
(* and a step of this module ends where the code saves the state file,     *)
(* writes or moves a media file, or gets an answer from the camera: those  *)
(* are the points between which the process may die.                       *)
(*                                                                         *)
(* The environment is a set of switches, so that a property names what it  *)
(* needs: LossyListing (the camera's page replies may be lost, see         *)
(* MediaListing), LossyDownloads (chunks that never arrive leave a hole    *)
(* the download does not notice: a video of the default, not strict,       *)
(* flow, see VideoTransfer, and in the cases PhotoTransfer names a photo), *)
(* TornWrites (a media file written when the process dies or the disk      *)
(* fills is left partial), ShootsWhileConnected (the camera may take a     *)
(* shot during a session) and Broken (cameras that never connect).         *)
(* Cameras are numbered in alias order, media keys (dirNum, mediaNum,      *)
(* fileType) are numbers in key order.                                     *)
(***************************************************************************)
EXTENDS Naturals

CONSTANTS
    NCameras,               \* cameras in config.yaml
    Keys,                   \* media keys
    Shots,                  \* the shots that may be taken: [cam, key, n]
    Unmatched,              \* keys whose staged name the scan does not match
    Modes,                  \* how the operator may start a run
    Broken,                 \* cameras no session can be opened to
    LossyListing, LossyDownloads, TornWrites, ShootsWhileConnected,
    MaxFaults,              \* crashes, errors and failed connections, at most
    Absent, Partial         \* no file, and a file with part of a shot

Cameras == 1..NCameras

Statuses == {"pending", "download", "verify", "clear", "organize",
             "staged", "done", "error"}

ASSUME ConstantsAssumption ==
    /\ NCameras \in Nat \ {0}
    /\ Keys \subseteq Nat
    /\ Shots \subseteq [cam : Cameras, key : Keys, n : Nat]
    /\ Unmatched \subseteq Keys
    /\ Modes \subseteq {"sync", "dry_run", "stage_only"}
    /\ Broken \subseteq Cameras
    /\ {LossyListing, LossyDownloads, TornWrites, ShootsWhileConnected}
         \subseteq BOOLEAN
    /\ MaxFaults \in Nat
    /\ Absent \notin Shots /\ Partial \notin Shots /\ Absent # Partial

VARIABLES
    \* the cameras and the disk, which outlive a process
    taken,          \* the shots taken so far
    card,           \* per camera, the shots on its SD card
    staged,         \* per camera and key, the staging file: a shot, Partial, Absent
    archive,        \* the shots whole in the final tree (or in dupes)
    \* the state file
    status,         \* per camera, its status
    downloaded,     \* per camera, the keys recorded with their first_seen_at
    organized,      \* per camera, the keys recorded as organized
    \* the process
    pc,             \* where the run is
    mode,           \* how the run was started
    cam,            \* the camera being visited
    phase,          \* which of run_camera's two loops is running
    listing,        \* trailcam_manifest: the shots of the last listing
    todo,           \* keys the current loop over a manifest has left
    allOk,          \* run_all's all_ok
    \* the environment's budget
    faults

cardVars  == <<taken, card>>
fileVars  == <<staged, archive>>
stateVars == <<status, downloaded, organized>>
procVars  == <<pc, mode, cam, phase, listing, todo, allOk>>
vars      == <<cardVars, fileVars, stateVars, procVars, faults>>

-----------------------------------------------------------------------------
\* The pcs at which a session to cam is open, that is, inside run_camera's try.
SessionPcs == {"list", "fetch", "torn", "record", "verified", "clear",
               "cleared", "organize", "moved"}

\* Those past the format, or past the place where a dry run leaves it out.
ClearedPcs == {"cleared", "organize", "moved"}

\* build_staging_manifest: every file whose name matches, whatever it holds.
StagedKeys(c) == {k \in Keys \ Unmatched : staged[c][k] # Absent}

\* build_trailcam_manifest, as the set of keys of a listing.
KeysOf(shots) == {s.key : s \in shots}

\* Mutant: what is missing is read off the state file, not off the disk.
MissingFromState(c, shots) == KeysOf(shots) \ downloaded[c]

\* compute_missing.
Missing(c, shots) == KeysOf(shots) \ StagedKeys(c)

WholeStaged(s) == staged[s.cam][s.key] = s

\* The shots the host has a whole copy of.
OnHost == archive \cup {s \in Shots : WholeStaged(s)}

InitialRecords ==
    /\ status = [c \in Cameras |-> "pending"]
    /\ downloaded = [c \in Cameras |-> {}]
    /\ organized = [c \in Cameras |-> {}]

Init ==
    /\ taken = {}
    /\ card = [c \in Cameras |-> {}]
    /\ staged = [c \in Cameras |-> [k \in Keys |-> Absent]]
    /\ archive = {}
    /\ InitialRecords
    /\ pc = "idle"
    /\ mode \in Modes
    /\ cam = 1
    /\ phase = "download"
    /\ listing = {}
    /\ todo = {}
    /\ allOk = TRUE
    /\ faults = 0

\* rotate_if_exists: the next load finds no state file.
RotateState ==
    /\ status' = [c \in Cameras |-> "pending"]
    /\ downloaded' = [c \in Cameras |-> {}]
    /\ organized' = [c \in Cameras |-> {}]

SaveStatus(st) ==
    /\ status' = [status EXCEPT ![cam] = st]
    /\ UNCHANGED <<downloaded, organized>>

\* run_camera has returned or raised: what it held in memory is gone and
\* run_all takes the next alias.
NextCamera ==
    /\ IF cam < NCameras
         THEN cam' = cam + 1 /\ pc' = "camera"
         ELSE cam' = 1 /\ pc' = "finish"
    /\ phase' = "download"
    /\ listing' = {}
    /\ todo' = {}
    /\ UNCHANGED mode

-----------------------------------------------------------------------------
(* The environment.                                                        *)

\* The camera is triggered.  A name in use on the card is not taken again.
Shoot(s) ==
    /\ s \notin taken
    /\ s.key \notin KeysOf(card[s.cam])
    /\ ShootsWhileConnected \/ ~(pc \in SessionPcs /\ cam = s.cam)
    /\ taken' = taken \cup {s}
    /\ card' = [card EXCEPT ![s.cam] = @ \cup {s}]
    /\ UNCHANGED <<fileVars, stateVars, procVars, faults>>

\* The process dies (power, kill, an error outside run_camera).
Crash ==
    /\ pc # "idle"
    /\ faults < MaxFaults
    /\ faults' = faults + 1
    /\ pc' = "idle"
    /\ cam' = 1
    /\ phase' = "download"
    /\ listing' = {}
    /\ todo' = {}
    /\ allOk' = TRUE
    /\ UNCHANGED <<cardVars, fileVars, stateVars, mode>>

-----------------------------------------------------------------------------
(* A run, and its visit of one camera.                                     *)

StartRun ==
    /\ pc = "idle"
    /\ pc' = "camera"
    /\ mode' \in Modes
    /\ UNCHANGED <<cardVars, fileVars, stateVars,
                   cam, phase, listing, todo, allOk, faults>>

\* A camera whose state is already done is skipped.
SkipDone ==
    /\ pc = "camera"
    /\ status[cam] = "done"
    /\ NextCamera
    /\ UNCHANGED <<cardVars, fileVars, stateVars, allOk, faults>>

\* Any other status restarts at download once connect_and_login returns.
Connect ==
    /\ pc = "camera"
    /\ status[cam] # "done"
    /\ cam \notin Broken
    /\ SaveStatus("download")
    /\ pc' = "list"
    /\ UNCHANGED <<cardVars, fileVars, mode, cam, phase, listing, todo,
                   allOk, faults>>

\* connect_and_login raises outside the try block: the status stays.
ConnectFails ==
    /\ pc = "camera"
    /\ status[cam] # "done"
    /\ \/ cam \in Broken /\ UNCHANGED faults
       \/ faults < MaxFaults /\ faults' = faults + 1
    /\ allOk' = FALSE
    /\ NextCamera
    /\ UNCHANGED <<cardVars, fileVars, stateVars>>

\* An exception inside the try block: status error, session closed, raise.
SessionError ==
    /\ pc \in SessionPcs
    /\ pc = "torn" \/ faults < MaxFaults
    /\ faults' = IF pc = "torn" THEN faults ELSE faults + 1
    /\ SaveStatus("error")
    /\ allOk' = FALSE
    /\ NextCamera
    /\ UNCHANGED <<cardVars, fileVars>>

\* What ListMediaAllCommand may return.
Listings(c) == IF LossyListing THEN SUBSET card[c] ELSE {card[c]}

\* Both manifests are built and something is missing: download it.  The
\* verify loop goes back to status download for that.
ListMissing ==
    /\ pc = "list"
    /\ \E seen \in Listings(cam) :
         /\ Missing(cam, seen) # {}
         /\ listing' = seen
         /\ todo' = Missing(cam, seen)
    /\ IF phase = "verify" THEN SaveStatus("download") ELSE UNCHANGED stateVars
    /\ pc' = "fetch"
    /\ UNCHANGED <<cardVars, fileVars, mode, cam, phase, allOk, faults>>

\* Mutant: the loops are left without looking at what is missing.
ListCompleteUnchecked ==
    /\ pc = "list"
    /\ listing' \in Listings(cam)
    /\ pc' = "verified"
    /\ UNCHANGED <<cardVars, fileVars, stateVars, mode, cam, phase, todo, allOk, faults>>

\* Nothing is missing: the download loop goes on to verify, the verify loop
\* is over.
ListComplete ==
    /\ pc = "list"
    /\ \E seen \in Listings(cam) : Missing(cam, seen) = {} /\ listing' = seen
    /\ IF phase = "download"
         THEN SaveStatus("verify") /\ phase' = "verify" /\ UNCHANGED pc
         ELSE pc' = "verified" /\ UNCHANGED <<phase, stateVars>>
    /\ UNCHANGED <<cardVars, fileVars, mode, cam, todo, allOk, faults>>

Fetching(k) == pc = "fetch" /\ k \in todo /\ \A j \in todo : j <= k

\* What a download may put together of a shot.
Downloads(s) == IF LossyDownloads THEN {s, Partial} ELSE {s}

\* One item is downloaded, highest key first, and written into staging.  That
\* the file is there and not empty is all that is asked of it.
Fetch(k) ==
    /\ Fetching(k)
    /\ \E s \in listing : \E file \in Downloads(s) :
         /\ s.key = k
         /\ staged' = [staged EXCEPT ![cam][k] = file]
    /\ pc' = "record"
    /\ UNCHANGED <<cardVars, archive, stateVars, mode, cam, phase, listing,
                   todo, allOk, faults>>

\* The write into staging stops half way, the disk being full or the process
\* about to die: the error or the death is all that follows.
TearFetch(k) ==
    /\ Fetching(k)
    /\ TornWrites
    /\ faults < MaxFaults
    /\ faults' = faults + 1
    /\ staged' = [staged EXCEPT ![cam][k] = Partial]
    /\ pc' = "torn"
    /\ UNCHANGED <<cardVars, archive, stateVars, mode, cam, phase, listing,
                   todo, allOk>>

\* Mutants: every item of the pass is recorded with the first; the pass does
\* not move on to the next item.
RecordAll(k) ==
    /\ pc = "record"
    /\ k \in todo /\ \A j \in todo : j <= k
    /\ downloaded' = [downloaded EXCEPT ![cam] = @ \cup todo]
    /\ todo' = todo \ {k}
    /\ pc' = "fetch"
    /\ UNCHANGED <<cardVars, fileVars, status, organized, mode, cam, phase,
                   listing, allOk, faults>>

RecordStuck(k) ==
    /\ pc = "record"
    /\ k \in todo /\ \A j \in todo : j <= k
    /\ downloaded' = [downloaded EXCEPT ![cam] = @ \cup {k}]
    /\ pc' = "fetch"
    /\ UNCHANGED <<cardVars, fileVars, status, organized, mode, cam, phase,
                   listing, todo, allOk, faults>>

\* The downloaded item is recorded and the state file saved.
Record(k) ==
    /\ pc = "record"
    /\ k \in todo /\ \A j \in todo : j <= k
    /\ downloaded' = [downloaded EXCEPT ![cam] = @ \cup {k}]
    /\ todo' = todo \ {k}
    /\ pc' = "fetch"
    /\ UNCHANGED <<cardVars, fileVars, status, organized, mode, cam, phase,
                   listing, allOk, faults>>

\* _download_missing returns and its loop builds both manifests again.
FetchedAll ==
    /\ pc = "fetch"
    /\ todo = {}
    /\ IF phase = "verify" THEN SaveStatus("verify") ELSE UNCHANGED stateVars
    /\ pc' = "list"
    /\ UNCHANGED <<cardVars, fileVars, mode, cam, phase, listing, todo,
                   allOk, faults>>

StageOnly ==
    /\ pc = "verified"
    /\ mode = "stage_only"
    /\ SaveStatus("staged")
    /\ NextCamera
    /\ UNCHANGED <<cardVars, fileVars, allOk, faults>>

EnterClear ==
    /\ pc = "verified"
    /\ mode # "stage_only"
    /\ SaveStatus("clear")
    /\ pc' = IF mode = "dry_run" THEN "cleared" ELSE "clear"
    /\ UNCHANGED <<cardVars, fileVars, mode, cam, phase, listing, todo,
                   allOk, faults>>

\* FormatSdCardCommand: the card is erased and the reply arrives ...
Format ==
    /\ pc = "clear"
    /\ card' = [card EXCEPT ![cam] = {}]
    /\ pc' = "cleared"
    /\ UNCHANGED <<taken, fileVars, stateVars, mode, cam, phase, listing,
                   todo, allOk, faults>>

\* ... or the reply is lost, and the command asks again or gives up
\* (SessionError), the card being erased either way.
FormatUnanswered ==
    /\ pc = "clear"
    /\ card' = [card EXCEPT ![cam] = {}]
    /\ UNCHANGED <<taken, fileVars, stateVars, procVars, faults>>

\* The request goes out twice at once, and up to twice more: the camera may
\* carry one out when its answer to another is in and the run has gone on.
FormatAgain ==
    /\ pc \in ClearedPcs
    /\ mode # "dry_run"
    /\ card' = [card EXCEPT ![cam] = {}]
    /\ UNCHANGED <<taken, fileVars, stateVars, procVars, faults>>

\* _organize_staging scans staging again; a dry run only prints the items.
EnterOrganize ==
    /\ pc = "cleared"
    /\ SaveStatus("organize")
    /\ todo' = IF mode = "dry_run" THEN {} ELSE StagedKeys(cam)
    /\ pc' = "organize"
    /\ UNCHANGED <<cardVars, fileVars, mode, cam, phase, listing, allOk, faults>>

\* Mutant: the staged file is removed, the final one never written.
OrganizeOneDrops(k) ==
    /\ pc = "organize"
    /\ k \in todo /\ \A j \in todo : k <= j
    /\ staged' = [staged EXCEPT ![cam][k] = Absent]
    /\ pc' = "moved"
    /\ UNCHANGED <<cardVars, archive, stateVars, mode, cam, phase, listing,
                   todo, allOk, faults>>

\* organize_one moves one file, lowest key first, out of staging.
OrganizeOne(k) ==
    /\ pc = "organize"
    /\ k \in todo /\ \A j \in todo : k <= j
    /\ archive' = archive \cup ({staged[cam][k]} \cap Shots)
    /\ staged' = [staged EXCEPT ![cam][k] = Absent]
    /\ pc' = "moved"
    /\ UNCHANGED <<cardVars, stateVars, mode, cam, phase, listing, todo,
                   allOk, faults>>

RecordOrganized(k) ==
    /\ pc = "moved"
    /\ k \in todo /\ \A j \in todo : k <= j
    /\ organized' = [organized EXCEPT ![cam] = @ \cup {k}]
    /\ todo' = todo \ {k}
    /\ pc' = "organize"
    /\ UNCHANGED <<cardVars, fileVars, status, downloaded, mode, cam, phase,
                   listing, allOk, faults>>

\* Mutant: done is saved before every staged file is organized.
CameraDoneEarly ==
    /\ pc = "organize"
    /\ SaveStatus("done")
    /\ NextCamera
    /\ UNCHANGED <<cardVars, fileVars, allOk, faults>>

CameraDone ==
    /\ pc = "organize"
    /\ todo = {}
    /\ SaveStatus("done")
    /\ NextCamera
    /\ UNCHANGED <<cardVars, fileVars, allOk, faults>>

\* Mutants: the state file is rotated after a failure as well; never.
FinishRunAlways ==
    /\ pc = "finish"
    /\ RotateState
    /\ pc' = "idle"
    /\ allOk' = TRUE
    /\ UNCHANGED <<cardVars, fileVars, mode, cam, phase, listing, todo, faults>>

FinishRunNever ==
    /\ pc = "finish"
    /\ pc' = "idle"
    /\ allOk' = TRUE
    /\ UNCHANGED <<cardVars, fileVars, stateVars, mode, cam, phase, listing, todo, faults>>

\* main: the state file is rotated away when every camera went well.
FinishRun ==
    /\ pc = "finish"
    /\ IF allOk /\ mode # "stage_only"
         THEN RotateState
         ELSE UNCHANGED stateVars
    /\ pc' = "idle"
    /\ allOk' = TRUE
    /\ UNCHANGED <<cardVars, fileVars, mode, cam, phase, listing, todo, faults>>

-----------------------------------------------------------------------------
\* What the process does when nothing goes wrong.
Progress ==
    \/ StartRun \/ SkipDone \/ Connect \/ ListMissing \/ ListComplete
    \/ \E k \in Keys : Fetch(k) \/ Record(k) \/ OrganizeOne(k) \/ RecordOrganized(k)
    \/ FetchedAll \/ StageOnly \/ EnterClear \/ Format \/ EnterOrganize
    \/ CameraDone \/ FinishRun

\* What goes wrong.
Fault ==
    \/ Crash \/ ConnectFails \/ SessionError \/ FormatUnanswered \/ FormatAgain
    \/ \E k \in Keys : TearFetch(k)

Next == Progress \/ Fault \/ \E s \in Shots : Shoot(s)

Spec == Init /\ [][Next]_vars

\* The process is scheduled and the timer starts runs again; a camera that
\* never connects and a write that has failed do raise.  The timer's runs are
\* full ones: a person's stage-only runs, which hold it off while they last, do
\* so again and again at most.  Nothing obliges a fault to happen, nor an
\* operator or an animal to do anything.
FairSpec ==
    /\ Spec
    /\ WF_vars(Progress)
    /\ SF_vars(StartRun /\ mode' = "sync")
    /\ WF_vars(ConnectFails /\ cam \in Broken)
    /\ WF_vars(SessionError /\ pc = "torn")

-----------------------------------------------------------------------------
(* Correctness.                                                            *)

TypeOK ==
    /\ taken \subseteq Shots
    /\ card \in [Cameras -> SUBSET Shots]
    /\ staged \in [Cameras -> [Keys -> Shots \cup {Absent, Partial}]]
    /\ archive \subseteq Shots
    /\ status \in [Cameras -> Statuses]
    /\ downloaded \in [Cameras -> SUBSET Keys]
    /\ organized \in [Cameras -> SUBSET Keys]
    /\ pc \in {"idle", "camera", "finish"} \cup SessionPcs
    /\ mode \in Modes
    /\ cam \in Cameras
    /\ phase \in {"download", "verify"}
    /\ listing \subseteq Shots
    /\ todo \subseteq Keys
    /\ allOk \in BOOLEAN
    /\ faults \in 0..MaxFaults

\* A camera never gives two shots the same name, not even after a format.
UniqueNames == \A s, t \in Shots : s.cam = t.cam /\ s.key = t.key => s = t

\* The environment in which the whole promise is kept: every reply and every
\* chunk gets through, a file is written as a whole or not at all, nothing is
\* shot during a session.
Reliable ==
    /\ UniqueNames
    /\ ~LossyListing /\ ~LossyDownloads /\ ~TornWrites /\ ~ShootsWhileConnected

\* No shot is ever lost: until it is in the final tree, it is on its camera or
\* whole in staging, whatever crashes, errors and lost format replies come
\* between (download, verify, clear and organize in run_camera).  It takes
\* downloads that are whole: what is written with a hole in it is kept too.
NoLoss == \A s \in taken : s \in card[s.cam] \cup OnHost

\* A format erases only shots that are whole in staging at that moment
\* ("Clear media from camera only after successful download+verify").
ErasedOnlyIfStaged ==
    [][\A c \in Cameras : \A s \in card[c] \ card'[c] : WholeStaged(s)]_vars

\* Even when page replies are lost and the camera shoots during a session, a
\* format never erases a shot the last listing showed unless staging has that
\* very shot, whole or, where downloads or writes may fall short, in part: a
\* file there is, and it is no other shot's.
ListedErasedOnlyIfStaged ==
    [][\A c \in Cameras :
         \A s \in (card[c] \ card'[c]) \cap listing : staged[c][s.key] \in {s, Partial}]_vars

\* A camera's status is done only when organize has emptied its staging area,
\* so that skipping it (SkipDone) strands no file.
DoneMeansOrganized == \A c \in Cameras : status[c] = "done" => StagedKeys(c) = {}

\* A camera stops being done only when the state file is rotated, which main
\* does only when every camera is done: no camera's progress is thrown away
\* because another one finished.
RotatedOnlyWhenAllDone ==
    [][(\E c \in Cameras : status[c] = "done" /\ status'[c] # "done")
         => \A c \in Cameras : status[c] = "done"]_vars

\* What is fetched is not in staging yet, across crashes and reruns: nothing is
\* fetched twice ("safe to re-run after crashes/network failures without
\* re-downloading everything"), but for names the staging scan does not match.
NeverRefetched ==
    [][\A k \in Keys \ Unmatched :
         Fetching(k) /\ pc' \in {"record", "torn"} => staged[cam][k] = Absent]_vars

\* Why nothing is lost.  Files, cards and listings hold shots of their own
\* camera and name; past verify every listed shot has its file, and with prompt
\* and complete listings the card shows nothing else.  Once the card is formatted
\* no listed shot comes back to it, for a repeated format to erase.
VerifiedPcs == {"verified", "clear"}
FetchPcs == {"fetch", "torn", "record"}

FilesInPlace == \A c \in Cameras, k \in Keys, s \in Shots :
                    staged[c][k] = s => s.cam = c /\ s.key = k
CardsInPlace == \A c \in Cameras : \A s \in card[c] : s.cam = c /\ s \in taken
ListingInPlace == \A s \in listing : s.cam = cam
VerifiedListing == pc \in VerifiedPcs => KeysOf(listing) \subseteq StagedKeys(cam)
NothingPartial == \A c \in Cameras, k \in Keys : staged[c][k] # Partial
FreshListing == pc \in VerifiedPcs => card[cam] \subseteq listing
ListedOnCard == pc \in FetchPcs => listing \subseteq card[cam]
ListedWasTaken == listing \subseteq taken
ListedIsGone == pc \in ClearedPcs /\ mode # "dry_run" => card[cam] \cap listing = {}
ClearedIsEmpty == pc \in ClearedPcs /\ mode # "dry_run" => card[cam] = {}
HostTaken == OnHost \subseteq taken

\* The inductive invariant, each part under what it needs of the environment.
SafeInv ==
    /\ FilesInPlace
    /\ CardsInPlace
    /\ ListingInPlace
    /\ VerifiedListing
    /\ ListedOnCard
    /\ ListedWasTaken
    /\ ListedIsGone
    /\ HostTaken
    /\ ~TornWrites /\ ~LossyDownloads => NothingPartial
    /\ ~LossyListing /\ ~ShootsWhileConnected => FreshListing
    /\ ~ShootsWhileConnected => ClearedIsEmpty
    /\ Reliable => NoLoss

\* The state file never runs ahead of the disk: a key recorded as downloaded
\* has its shot on the host, one recorded as organized has it in the final
\* tree, at every point where the process may die.
StateFileTruthful ==
    \A s \in taken :
        /\ s.key \in downloaded[s.cam] => s \in OnHost
        /\ s.key \in organized[s.cam] => s \in archive

\* The detailed runs implement the promise of MediaArchive.
Promise == INSTANCE MediaArchive
             WITH onCamera <- UNION {card[c] : c \in Cameras}, onHost <- OnHost

ArchivePromise == Promise!Spec

\* Every shot of a camera that can be reached ends in the final tree, if the
\* runs go on and the faults stop.
EventuallyArchived ==
    \A s \in Shots : s.cam \notin Broken => (s \in taken ~> s \in archive)

\* Every run ends: the download and verify loops, both "while True", leave
\* nothing missing in the end.
RunsEnd == []<>(pc = "idle")
=============================================================================
