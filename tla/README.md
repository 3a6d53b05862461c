# Formal models of trailcam-automation

TLA+ models of the program in this repository, TLC configurations that check
them on small instances, and TLAPS proofs of the results that matter most.
Source paths are written as in `PROJECT.json`, with a leading `src/` for the
repository root; the shorter `sync/...`, `flows/...` and `command/...` are
under `src/src/`.

The program fetches the pictures and videos of several trail cameras over a
Wi-Fi each camera opens itself, puts them into a staging directory, **formats
the camera's SD card**, and sorts the files into a final tree. The format is
what makes correctness matter: between it and the last byte of the final tree
the staging directory holds the only copy.

## 1. Inventory

| Part | Source | State it keeps | Operations | Talks to |
|---|---|---|---|---|
| Sync runner | `trailcam_sync.py`, `sync/sync_runner.py`, `sync/status.py` | position in the run, the manifests of the current loop | `main`, `run_all`, `run_camera` (download, verify, clear, organize, done), `_download_missing`, `_organize_staging` | all below |
| State store, manifests | `sync/sync_state.py`, `sync/manifest.py` | `sync_state.json`: per camera status, downloaded, organized | load, save (rename), rotate, ensure; `build_*_manifest`, `compute_missing` | the runner |
| Media listing | `command/list_media_all_command.py`, `flows/media_list.py` | pages, repeats, entries of the current window | page loop, request and retry | the camera over UDP |
| Photo, video transfer | `flows/photo_download.py`, `flows/video_download.py` | chunks by 16-bit number, acknowledgement window | receive, acknowledge, order, check, write | the camera over UDP, staging |
| Format command | `command/format_sd_card_command.py` | - | request, retry, answer | the camera |
| Organize | `sync/organize.py` | - | choose a time, name and week; move, dupes | staging, final tree |
| Scheduling wrapper | `scripts/run_sync.sh`, `systemd/` | lock file, attempt counter | lock, attempts, sleeps, mail | the runner as a child, systemd |
| E-mail | `notify/email_notifier.py` | - | send | the wrapper |
| Control channel | `client.py`, `session.py` | `_ctrl_seq16`, socket, keepalive thread | send, receive, heartbeat | every flow |
| Connection | `connection/` | Wi-Fi association and profiles, BLE, socket | wake, scan, join, log in, close, clean up | NetworkManager, the runner, `client_runner` |
| Configuration, hardware check | `config.py`, `sync/sync_config.py`, `sync/hardware_check.py` | none | load, merge with the command line, check before a run | both programs |
| Single commands | `client_runner.py`, `command/` | the item searched for, the entries of a page | download one item, a page; list a page | a session |
| Layout tools | `tools/migrate_out_media_layout.py`, `tools/repair_final_media_names.py` | staging, final tree | move old names over, shift archived times | nothing else runs |
| Codecs, analysis tools, old scripts | see `PROJECT.json` | none that outlives a call | pure conversions | - |

Interactions: the wrapper starts the runner as a child process and sees only
its exit code; the runner calls the flows through a session, one camera after
the other; everything that must survive a death of the process is in three
places (the card, the directories, the state file), which are written at
different moments.

What is hard here, and what has to be true of it:

* **Death between two writes.** The card, staging, the tree and the state file
  are written one after the other and the process may die between any two.
  *No shot is ever lost* (`NoLoss`, `NothingLost`), *the state file never claims
  more than the disk has* (`StateFileTruthful`), *a skipped camera has nothing
  left in staging* (`DoneMeansOrganized`).
* **Acting on what was seen earlier.** The format erases whatever is on the
  card, on the strength of a listing made before and of files that are only
  known to be there and not empty. *Only what staging has is erased*
  (`ErasedOnlyIfStaged`, `ListedErasedOnlyIfStaged`): the runs show where it does
  not hold (section 4).
* **A lossy, reordering network.** Pages of a listing and chunks of a video are
  lost, late, doubled and reordered, under numbers that wrap. *A listing is
  full or a prefix* (`FullRelist`, `NoHole`); *chunks keep their order and no
  acknowledgement lies or is left out* (`KeptInOrder`, `AckedAreKept`,
  `NothingSlips`); *a photo is written whole or not at all* (`WholeOrNothing`),
  *and reception ends when nothing more comes* (`StopsOnlyWhenDone`).
* **Threads without a lock.** Heartbeats, repetitions and the flow count
  commands in one attribute. *What follows the request of a download goes beyond
  its number* (`LaterGoBeyond`).
* **One Wi-Fi interface, several cameras, two programs.** All cameras answer
  from one address and take one login; what a connect leaves behind is there
  at the next one. *A program talks to its own camera* (`OwnCamera`), *and
  nothing left behind keeps a camera from being reached* (`NeverWedged`).
* **Two invocations.** A person and the timer start the wrapper at once, and
  wrappers are killed. *One sync at a time* (`OneSyncAtATime`), *no dead
  process keeps the lock* (`LockHolderLives`), *one truthful mail*
  (`OneTruthfulEmail`).
* **Loops that must end.** Two `while True` loops, a paged listing, retries
  (`RunsEnd`, `ListingEnds`, `StagingEmpties`, `InvocationsEnd`).
* **Checked early, used late.** Settings and controllers are looked at before a
  camera is woken, and again, otherwise, when they are used
  (`CheckedIsResolved`, `RefusedBeforeConnect`); a card moves on between the
  pages a command looks through (`FoundIfListed`); a tool is interrupted
  (`LargestKept`, `ShiftedOnce`).

The full list, each at its line with the properties that would catch it, is
"hazards" in `PROJECT.json`.

## 2. Plan

In order of what a mistake would cost. Done:

1. `MediaArchive`, the promise; `SyncRunner`, the runs that must keep it;
   their configurations and `SyncRunner_proofs`.
2. `MediaListing`, which says what a listing may be under losses, and so what
   `SyncRunner`'s `Listings` has to allow.
3. `VideoTransfer`.
4. `Organize`, which opens `SyncRunner`'s one-step move up, and `WeekBucket`,
   with their proofs.
5. `RunSync`, the wrapper around `SyncRunner`'s runs.
6. `PhotoTransfer`, the other half of what a sync downloads, and
   `ControlChannel`, the counter its threads share with the flow.
7. `Session`, which opens `SyncRunner`'s `Connect` up, and `Session_proofs`.
8. `RunSync_proofs`.
9. What runs beside a sync: `Startup`, `Commands`, `LayoutTools`.
10. The proofs: `SyncRunner_proofs` (promise and state file),
    `MediaListing_proofs`, `Transfers_proofs` (video and control channel),
    `PhotoTransfer_proofs`, `Organize_proofs`, `Pieces_proofs` (weeks and item 9).
    Every safety property that TLC checks has its theorem.

Left:

11. A refinement from `Organize` to `SyncRunner`'s `OrganizeOne`.
12. The reply fragments of a listing.

Composition is by contract, each module's environment being what the next
one shows: `RunSync` takes a sync to be a process that ends (`RunsEnd`);
`SyncRunner` takes a connect to succeed or to fail (`Session`), a listing to be
complete or a subset of the card (`MediaListing`), a download to end in a whole
file, in one with holes that nobody notices, or, by a death or a full disk, in a
torn one (`VideoTransfer`, `PhotoTransfer`) and organizing to be a step that moves
a file (`Organize`).

Models that do not interact share a run of TLC: `MCTransfers` (video, control
channel), `MCHost` (wrapper, connection) and `MCPieces` (photo, weeks, startup,
commands, layout tools) have a
variable `part` that picks one of their models in `Init`, and the others keep
still. Each model stands by itself in its own module.

## 3. The modules and the code

"map" in `PROJECT.json` gives the lines of every definition. Definitions
headed *Mutant* are deliberate mistakes, used by no specification; each shows
that some property can fail.

### MediaArchive
What a user is promised, with no state machine: a shot is taken onto a
camera, the host gets a whole copy, and a camera gives a shot up only after
that; the host never does. Three actions: `Take`, `Copy`, `Erase`.

### SyncRunner
State: `card` and `taken` (the cameras), `staged` and `archive` (staging;
final tree with dupes), `status`, `downloaded`, `organized` (the state file),
`pc`, `mode`, `cam`, `phase`, `listing`, `todo`, `allOk` (the process). A step
ends where the code saves the state file, writes or moves a media file or gets
an answer from the camera.

| Code | Actions |
|---|---|
| `main` | `StartRun`, `FinishRun` (rotates the state file if all went well and the run was not stage-only) |
| `run_camera`, before the session | `SkipDone`, `Connect`, `ConnectFails` (raises outside the `try`, the status stays) |
| the download and verify loops | `ListMissing`, `Fetch` (a whole file or, with `LossyDownloads`, a partial one; both are accepted), `TearFetch`, `Record`, `FetchedAll`, `ListComplete` |
| clear, organize, done | `StageOnly`, `EnterClear`, `Format`, `FormatUnanswered`, `FormatAgain`, `EnterOrganize`, `OrganizeOne`, `RecordOrganized`, `CameraDone` |
| the `except` branch | `SessionError` |
| the environment | `Shoot`, `Crash` |

The environment is a set of switches, so that each property names what it
needs: `LossyListing`, `LossyDownloads`, `TornWrites`, `ShootsWhileConnected`,
`Broken` cameras and `Unmatched` names. `Reliable` is the environment without lost
pages, incomplete downloads, torn writes and shots in mid-session and with names
that are never used twice. Nothing in the program sees to it that a download is
complete: a video's strict mode comes near to it (`StrictWritesARun`) and is off by
default, and a photo is whole but in the cases `WholeOrNothing` names. Shots
are records [cam, key, n]; n tells apart shots that share a name. Left out:
battery readings, run ids, timestamps, the text of errors, log lines.

### MediaListing
`ListMediaAllCommand.run` and `fetch_media_list_page`: a page is asked for up
to three times (`Request`), whatever arrives in a window is collected
(`Receive`, `WindowCloses`), and pages are appended until one is empty, two
bring nothing new or repeat, or the cap is reached (`EmptyPage`,
`RepeatedPage`, `AppendPage`). Requests and replies may be lost, one reply may
be late. From which end a camera lists and what it answers past the end the
repository does not say: both are left open and chosen in `Init`.

### VideoTransfer
`send_video_download_flow_item`: the camera sends chunks under consecutive
16-bit numbers, anywhere in the range, and again while they are not
acknowledged; packets are lost, doubled and reordered, and one may be left over
from another video. `Receive`, `DropOutlier` and `Acknowledge` are the receive
loop, `Finish` all that comes after it: the chunks kept are joined in order
(`Assembled`), the stream is scanned for records, each read to its end
(`Records`), the records of one session are chosen, that of the request or else
the one with most records (`Selected`), strict mode looks at the result
(`StrictIssue`), and what the records hold is written (`Contents`).

A record of the real stream goes on over about twenty chunks
(`docs/download-video.md`) and may begin anywhere in one. Here it goes on over
several, all of one length, and begins with a chunk of its own. A packet left over
is the `Beginning` of another session's record, header and length included, or
comes from the `Middle` of one: the latter, where it fills the place of a lost
chunk within a record, is seen by nobody, strict mode included. Whether the camera
honoured the number of the session is chosen at the end. `came` is for the
properties only. Decryption and muxing are left out.

### PhotoTransfer
`send_photo_download_flow` and `download_photo_to_out_item`: the request goes out
up to three times (`Resend`, for as long as no data came), the camera answers
each with the whole photo under the next numbers of the bulk channel, and what
another command asked for comes on the thumbnail channel. `Receive` keeps and
acknowledges, per channel; `ReceiveReply` is anything on the control channel.
`StopEarly` is the end when every channel that has started is quiet, `Deadline`
the other one; both join the chunks in the plain order of their numbers, search
for records, cut out the JPEG of the item that was asked for and write the best
one. A record is told by where it starts: `Headers` are the places where the scan
sees one, `Record` what lies between a header and its length, `StrictRecords` those
that end where another begins or the blob ends, `Extracted` the JPEGs cut out,
`Best` the one that is written. A chunk stands for some
bytes of a record; a photo answered `MaxRequests` times has at most as many chunks
as there are numbers (65536, in the code). Taken as given: a channel does not pause for
`download_idle_s` in the middle of what it has to send (`Idle`).

### ControlChannel
The counter `_ctrl_seq16` as `send_cmd_json` uses it: read for the number
(`Take`), read again (`Load`), written (`Store`), by the flow and by the threads
it starts and does not wait for. The flows (`Begin`, `Request`, `Listen`,
`ListCommand`, `StopVideo`, `End`) are the order in which they do so. `Drained`
is what the 0.2 s of `drain_inbound` give a thread that was told to stop.

### Session
`connect_and_login`, for the sync and for a `client_runner` a person starts
meanwhile; they share the interface and the UDP port. One action per step (from
`AskSsid` to `Login`), with its tries and its failure. A step that ends a connect
leaves what the code leaves: `Give` before there is a socket, `GiveClosing` after,
and neither touches the Wi-Fi; only the sync cleans up (`Close`, `Clean`).
NetworkManager is external: `Autoconnect` joins any saved network in
sight, `Drop` ends an association to a camera that is asleep. `left` keeps book
of the profiles no running program will remove.

### Organize
One camera's items on their way from staging into the tree. A file's bytes
and its path are values; an item has a path by the camera's `mediaTime` and
another one by its own clock, which counts once a run that did not list it
organizes it. `shutil.move` is a rename on one file system (`Renames`) and a
copy followed by an unlink across two (`StartsCopy`, `Copied`, `Unlink`); which
of the two is chosen in `Init`.

### WeekBucket
`_week_bucket_label`, with the rollover's weekday and hour from the
configuration, in hours since a Monday. Numbering the weeks through abstracts
the ISO year, whose labels sort as weeks do.

### Startup, Commands, LayoutTools
`Startup` goes from the command line to the first command: `Configure` (what
`load_config` refuses, what goes before what, the choice of the camera), `Check`
(the hardware check with both its sources of controllers), `Resolve` (the lookup
of the adapter at the wake, where hciconfig is run anew; `NoLookup` where a name is
configured or nobody looks) and `Command` (`validate`, the empty directories of a
page's download included). A configuration is a record of the entries those
decisions hang on.
`Commands` is the search for one item over the pages (`NotFound` behind the last
one), the download of a page (`todo` is what is left of it) and the listing of one,
with a camera that shoots meanwhile. Of a page's window the model keeps that the
camera answers any number of times (`PageAnswered`), that replies are lost
(`PageLost`) and that whatever arrives counts for the page that is asked for by then
(`PageArrives`); the number of requests and the order of the entries are left out.
`LayoutTools` is the two tools, file by file, with interruptions: unlink and
rename are steps of their own.

### RunSync
`scripts/run_sync.sh`, every invocation a process: the lock (`TakeLock`,
`Skip`, with `try_cleanup_stale_lock` as `ClearsStaleLock`), the attempts
(`NotReady`, `LauncherMissing`, `StartSync`, `SyncEnds`), the sleeps and the mail.
The lock belongs to a file description that helpers (`sleep`, the mailing
python) inherit and the sync does not (`9>&-`), which decides what a killed
wrapper leaves behind: `Kill`, `HelperEnds`.

## 4. What TLC checks

Where models share a run their type invariants are checked together (`TypesOK`,
`PiecesTypesOK`); those of the other modules are proved and not run again. Deadlock is
checked in every run; where a system is over, a named stuttering
step (`Finished`, `Stop`, `Returned`, `Over`, ...) says so.

| Run | Instance | What it shows |
|---|---|---|
| `runner_reliable` | 2 cameras, 3 shots, 2 faults, sync and stage-only runs, fair; 126 000 states | `NoLoss`, `DoneMeansOrganized`, `StateFileTruthful`, that the runs implement `MediaArchive`, that every run ends and every shot reaches the tree |
| `runner_hostile` | the same with every switch on, all modes, a camera that never connects, an unmatched name; 45 000 states | what was listed is still erased only if staging has a file of its name, whole or partial; rotation; no double fetch |
| `listing` | up to 9 shots, 2 to a page, cap of 4 pages, 4 shots meanwhile, 4 losses, 1 late reply; 858 000 states | `NoHole`, `FullRelist`, `StopsAfterTheEnd`, `ListingEnds` |
| `transfers` | video: 4 chunks in 3 records, numbers modulo 8, window 3, one acknowledgement in 2, a left-over header that claims 2 chunks; control: 2 transfers, 5 commands; 849 000 states | the video's order, strict mode and acknowledgements; what follows a request |
| `host` | connection: 2 cameras, 2 tries, 1 run of `client_runner`, 2 failures, fair; wrapper: timer and person, 3 attempts, 1 outage, kills anywhere; 75 000 states | `OwnCamera`, `NeverWedged`; `OneSyncAtATime`, `LockHolderLives`, `OneTruthfulEmail`, and that invocations end |
| `organize` | 5 items, 4 contents, 4 paths, 1 crash, one file system or two; 76 000 states | `NothingLost`, `TreeNeverOverwritten`, `StagingEmpties` |
| `pieces` | photo: 3 chunks, numbers modulo 8, window 3, 2 requests, 1 loss; 5 weeks hour by hour, every weekday and hour of the rollover; 20 configurations, 15 command lines, 2 controllers; 5 items on a card, 2 more meanwhile, 3 pages of 2, 2 replies under way; 4 files of each tool, 2 interruptions; 753 000 states | a photo whole or not at all, early stop and acknowledgements; the label against a reference definition; what is checked before a run against what is used; searches; the layout tools |
| `runner_lost_pages` | 1 camera, 2 shots | *violated*: `ErasedOnlyIfStaged` when pages are lost |
| `runner_torn` | 1 camera, 2 shots | *violated*: `NoLoss` when a write is torn |
| `runner_short_video` | 1 camera, 2 shots, no fault | *violated*: `ErasedOnlyIfStaged` when a download has holes |
| `runner_dry_run` | 1 camera, 1 shot | *violated*: `DoneMeansOrganized` after a dry run |
| `wrapper_stale_lock` | the op daemon holds the lock | *violated*: `SkippedOnlyIfBusy` |

Why the bounds are enough. Two cameras make the order of visits, the skipping
of a done one and the rotation matter; two keys make the loops of a pass go
round and the orders (highest first when fetching, lowest first when
organizing) matter; two faults cover a crash in the run that repairs the
damage of the first. A listing needs as many lost messages as one page has
requests, and one more; pages of two, with a card that ends inside a page, on
its edge or past the cap; and two pages full of shots meanwhile, the number from
which pages may shift so far that a listing stops early. A video keeps the code's proportions (shorter than
`Span`, `Span` shorter than half of the numbers, `AckEvery` less than `Window`)
and wraps in its middle; one of its three records goes on over two chunks, one is
sound, and what is left over claims as many. A photo of three chunks has a first, a middle and a
last one to lose or to wrap at; it lies in the middle of the numbers, or wraps
inside, or between two answers (`WrapBetween`); and two requests give two answers that may fill
each other's holes; a second answer is also why `MaxRequests` need not be the
code's three. A search has at most two replies under way, enough for the one of a page that has
gone by to come with, or instead of, that of the page asked for. Two transfers and five commands are enough for the threads of the
first to write the counter under the second. A connect's tries are 5, 60, 30 and
3 in the code, by step; `MaxTries` is 2 for all of them, for only the
difference between the last try and the ones before counts. Five items have a pair with one name and other bytes,
a pair with one name and the same bytes, and a pair that collides only by
its own clocks. Where a property does not depend on the bound, the proofs
below take over.

### Fairness, and why
* `SyncRunner`: weak fairness of what the process does when nothing goes wrong
  (it is one sequential process and the timer starts it again), of the error
  of a camera that never connects and of the one after a torn write: both do
  raise. The timer's start of a sync needs strong fairness, for a person's
  stage-only runs may come between, time and again. No fairness for faults, nor for shots; faults are bounded, for with a
  crash in every run nothing could be promised.
* `MediaListing`: weak fairness of the client, whose windows close on their own.
* `Organize`: weak fairness of the run's steps and of its next start.
* `Session`: weak fairness of each program's next step, of the sync's start, of
  the end of a session, and of NetworkManager's noticing that a camera is gone.
* `RunSync`: weak fairness per invocation. A sync ends by itself (`RunsEnd`) or
  when systemd's `TimeoutStartSec` is over; sleep and mail are finite.

### Where the program differs from its documentation
The five violated runs above, in "findings" with the lines they concern:
a listing cut short by losses is trusted by verify; a video with holes is written
(strict mode is off by default), taken for downloaded and erased on its camera,
with no crash or error about it; a staging file left partial by a death counts as
staged; a dry run leaves `done` behind; the stale-lock cleanup always lists its own
shell and so never finds the op daemon alone.

Seen while modelling, and stated as a condition of a property instead of a
run of its own:

* A late page reply is taken for the next page (`flows/media_list.py:182`):
  `NoHole`, `FullRelist` and `StopsAfterTheEnd` hold for `late = 0`.
* The camera's shots shift its pages while it is listed. Two pages that bring
  nothing new are taken for the end, which two pages full of shots are enough
  for (`command/list_media_all_command.py:69`): `FullRelist` is about fewer.
* The first packet received is the anchor, so that a chunk it overtook is
  dropped as an outlier (`flows/video_download.py:242`): `StrictWritesARun`
  promises all the frames only if the start reply told their number, and
  never all of the sound.
* Strict mode tells another session by the headers of records
  (`flows/video_download.py:321`): a left-over packet in the middle of a record,
  under the number of a chunk that was lost, passes. `StrictWritesARun` promises a
  run without holes only where nothing left over was kept.
* With a rollover on a weekday other than Sunday labels go back at midnight
  (`sync/organize.py:107`): `NeverBack` is about
  Sunday, `AtMostOneWeekAhead` about every weekday (both are proved).
* A move across file systems torn by a crash leaves a partial file under the
  final name; the whole one goes to dupes (`sync/organize.py:225`):
  `DupesHaveRivals` is about one file system.
* A killed wrapper frees the lock while its sync goes on
  (`scripts/run_sync.sh:149`): `OneSyncAtATime` says so.
* A five-digit mediaNum is never matched by the staging scan
  (`sync/manifest.py:13`), so that its item is fetched for ever:
  `NeverRefetched` excludes `Unmatched` names, and `runner_reliable` has none.
* A camera that is done is skipped for as long as another one fails
  (`sync/sync_runner.py:64`): `runner_reliable` has no broken camera.
* Photos are joined in the plain order of their numbers
  (`flows/photo_download.py:268`): one that spans the wrap puts its first chunks
  last and is not found in one answer, and the chunks of a second answer, or of
  something left over, close a hole as if they belonged there. Even a photo that
  lies before the wrap and came in full is lost if the numbers wrap behind it, where
  an answer to a repeated request is under way: the beginning of that answer comes
  first in the plain order, and its record takes the first photo's chunks.
  `WholeOrNothing` and `ReceivedIsWritten` say when.
* Any reply on the control channel, that to a heartbeat included, stops the
  repetition of a lost photo request (`flows/photo_download.py:162`).
* Heartbeats, the commands of a listing, the repeated requests and a video's
  stop may go out under one number (`client.py:89`). The first request of a
  download may repeat the number of an earlier heartbeat, whose late write sets the
  counter back; only what is sent after it is sure to be beyond it
  (`LaterGoBeyond`).
* A page size of 50 and more is refused before the connect by the commands that
  list pages, and only after it by a single download and by a sync; an empty
  staging or temporary directory is refused after it by the download of a page
  (`RefusedBeforeConnect`).
* The hardware check finds a controller that only sysfs knows, the lookup at the
  wake does not, nor one that has gone meanwhile (`connection/ble.py:43`):
  `CheckedIsResolved` names both cases.
* A single item's search takes a late reply of one page for the next one
  (`flows/media_list.py:182`), which is how an item is found on another page than
  its own, and left out where the last window closes before its reply:
  `FoundIfListed` says so.
* The times repaired by an interrupted run of `repair_final_media_names.py` are
  shifted again by the next one: `ShiftedOnce` counts runs that are not stopped.
* One failing video ends the download of a page, one failing photo does not
  (`command/`), and then nothing is reported of what was written.
* A connect that fails after the join, `client_runner` and a killed sync leave the
  camera's profile and association behind (`connection/connection.py:224`), and
  NetworkManager may go to that camera when another one is being asked for:
  `OwnCamera` says from where the other camera may come.

Not covered by any property: the manifests are compared in one direction only
(`sync/manifest.py:63`); `first_seen_at` is saved after the download
(`sync/sync_runner.py:253`).

## 5. What TLAPS proves

For every value of the constants that satisfies the modules' assumptions
(sets of the right type, values like `Absent` and `Partial` no shots or contents,
positive windows and counts, records that are rows of chunks):

| Theorem | States |
|---|---|
| `SyncRunner_proofs!TypeCorrect` | `[]TypeOK` |
| `SyncRunner_proofs!Safe` | `[]SafeInv`, in every environment |
| `SyncRunner_proofs!NothingIsLost` | `Reliable`, complete downloads among it, gives `[]NoLoss` (runs `runner_torn`, `runner_lost_pages` and `runner_short_video` leave parts of it out) |
| `SyncRunner_proofs!EraseIsSafe`, `!ListedEraseIsSafe` | the two action properties about the format, in the reliable environment and in every one with unique names |
| `SyncRunner_proofs!RunsKeepThePromise` | `Reliable` gives that `SyncRunner` implements `MediaArchive` |
| `SyncRunner_proofs!DoneIsOrganized` | `DoneMeansOrganized`, if nobody does a dry run (run `runner_dry_run` has one) |
| `SyncRunner_proofs!RotationIsEarned`, `!FetchedOnce` | `RotatedOnlyWhenAllDone`, `NeverRefetched`, in every environment and mode |
| `SyncRunner_proofs!StateFileTellsTheTruth` | `Reliable` gives `[]StateFileTruthful` |
| `MediaListing_proofs!TypeCorrect` | `[]TypeOK` |
| `MediaListing_proofs!ListingHasNoHole`, `!ListingIsFull`, `!ListingStops` | `NoHole`, `FullRelist`, `StopsAfterTheEnd`, for any size of page, number of requests and losses |
| `Transfers_proofs!AcknowledgedInTime` | `NothingSlips`, if `AckEvery <= Window` (10 and 17 in the code) |
| `Transfers_proofs!OnlyKeptIsAcknowledged` | `AckedAreKept` |
| `Transfers_proofs!OrderSurvives`, `!PutTogetherInOrder`, `!StrictHasNoHole` | `KeptInOrder`, `PlacedInOrder`, `StrictWritesARun`, if `NChunks <= SeqMod - Span` (65536 and 20000 in the code) |
| `Transfers_proofs!RequestIsOutrun` | `LaterGoBeyond`, for any number of transfers and commands |
| `Transfers_proofs!VideoTyped`, `!CommandsTyped`, `!TransfersTyped` | the type invariants of the video, of the control channel and of both |
| `PhotoTransfer_proofs!WholeOrNothingWritten`, `!CompleteIsWritten` | `WholeOrNothing`, `ReceivedIsWritten`, for a photo of any length, numbers of any width, any number of requests, any losses and left-over packets |
| `PhotoTransfer_proofs!AcknowledgedOnBoth` | `BothAcknowledged`, if `AckEvery <= Window` (10 and 17 in the code) |
| `PhotoTransfer_proofs!EarlyStopIsLate`, `!PhotoTyped` | `StopsOnlyWhenDone`, `[]TypeOK` |
| `Organize_proofs!OrganizingLosesNothing`, `!TreeIsKept` | `NothingLost`, `TreeNeverOverwritten`, on one file system or two, for any number of crashes |
| `Organize_proofs!OnlyRivalsMakeDupes` | `DupesHaveRivals`, for one file system |
| `RunSync_proofs!TypeCorrect`, `!SyncsExclude`, `!NoLockOfTheDead`, `!MailTellsTheTruth` | `[]TypeOK`, `OneSyncAtATime`, `LockHolderLives`, `OneTruthfulEmail`, for any number of invocations, attempts and kills |
| `RunSync_proofs!SkippedForAReason` | `SkippedOnlyIfBusy`, where the op daemon does not hold the lock (run `wrapper_stale_lock` has it hold it) |
| `Session_proofs!TypeCorrect`, `!TalksToItsOwn` | `[]TypeOK`, `OwnCamera`, for any number of cameras, runs and failures |
| `Pieces_proofs!SundayLabelIsWeek`, `!SundayNeverBack`, `!NeverFarAhead` | the three properties of `WeekBucket`, for all time |
| `Pieces_proofs!FoundAgain`, `!ForbiddenRunsStopEarly`, `!StartupTyped` | `CheckedIsResolved`, `RefusedBeforeConnect`, the types of `Startup`, for any configurations, command lines and controllers |
| `Pieces_proofs!SearchFinds` | `FoundIfListed`, for any card, shots, page size and limit |
| `Pieces_proofs!NoneShiftedTwice`, `!LargestSurvives`, `!LayoutTyped` | `ShiftedOnce`, `LargestKept`, the types of `LayoutTools`, for any files, sizes, offsets and interruptions |
| `Pieces_proofs!PiecesTyped` | the type invariants of the five models that share a run |

**SyncRunner.** `NoLoss` alone is not inductive: `Format` would break it in a
state where the listing is stale or staging has not what it names. `SafeInv`
adds what the code relies on without saying it: files, cards and listings
hold shots of their own camera and name; past verify every listed key is
staged (`VerifiedListing`) and the card shows nothing else (`FreshListing`);
no staged file is partial (no torn write, no incomplete download). Each part stands under what it needs of the
environment, so that one induction serves all. The format then erases listed
shots only, each of which staging has by name and, names being unique, in
fact; every other step leaves shots where they are or copies them. The
refinement follows step by step: `Shoot` is `Take`, `Fetch` is `Copy`, `Format`,
`FormatUnanswered` and `FormatAgain` are `Erase` or stutter, all else stutters (a move from staging into
the tree included).

The state file needs the bookkeeping of the loops (`BookInv`): what a download
pass has left is missing in staging, but for the item just written; what
organize has left is just what staging has, but for the item just moved; a
camera with a session is not done; and while all goes well every camera before
the current one is. For `StateFileTruthful` the item in between, written or moved
and not yet recorded, is where the record is about to say it is (`TruthInv`). A
format that is repeated after its answer (`FormatAgain`) finds nothing of the
listing on the card (`ListedIsGone`): what was on it is erased, and names are
unique.

**MediaListing.** What came for a page completes it, leaves no hole, and goes to
the end of the page and no further (`Good`): true of every answer, of two answers
together, and still true once shots have pushed the pages down. So the pages so
far are listed (`Reached`), and a page that stays empty although one of its
requests was not lost lies past the end (`Answered`). How far down the card the
pages can have gone (`Floor`) is what a page without news costs: a page of new
shots, so that two of them in a row need two pages full.

**VideoTransfer.** What has not been acknowledged is among the last
`ackPending` entries of the window, and there are fewer of those than
`AckEvery`: so none slides out of it. The order of two kept chunks is that of
their distances from the anchor as long as no distance wraps, which the
length of the video and the outlier rule exclude. So a number's rank among the
kept ones is its place in what is put together, and places are in the order sent.
Records are read in place, so what is written keeps it. In strict mode no number is
missing between the first and the last (`MissingSeqs`), so that neighbours in the
result are neighbours in the video, and nothing else came under a number
(`changed`), so that what came was kept (`CameInv`). Without left-over packets the
stream is then one chunk after the other (`CleanStream`, `IsRun`): all its headers
are records, what is read of it has no hole, and as many frames as the start reply
told are all of them (`RunIsWhole`, `RunHasFrames`).

**PhotoTransfer.** Acknowledgements go as for the video, per channel. A channel
that was heard and is no longer fresh has sent all it has and, if nothing was lost,
all of it was kept (`QuietOf`): so the early stop comes late enough. For the photo, `ContentInv` says what lies under a
number is the chunk sent under it, or left over. The joined blob is then counted
out by ranks (`NthOf`): its n-th chunk is the one under the n-th smallest number
kept. A record that fits is `PhotoLen` chunks long and ends where another begins or
the blob does (`Record`); chunks that were sent next to each other stay so
(`SideBySide`), so that with nothing missing it is the photo from the first chunk to
the last (`RecordIsWhole`). Something may be missing only while there was one answer,
and then a blob as long as the photo has it all (`EnoughIsAll`). The other way
round, a photo kept in full lies whole in the blob, with a header before it and,
unless the wrap puts something in between, an end behind it (`BehindTheLast`,
`WholeIsFound`). Once the flow is over nothing is kept any more, so a number that is
sent for the first time then has nothing under it (`TooLate`): both properties stay
true.

**ControlChannel.** While a flow is at its request no other thread holds a number
(`FlowAlone`); once the request has gone out the counter, and what anybody is
about to write there, is past its number (`Passed`). The type invariant needs to
count: the counter is at most the number of commands sent (`CountInv`).

**Organize.** While a file is copied, what lies at its destination is the
torn file this very copy began (`CopyIsTorn`), so that ending the copy replaces
nobody's bytes; once it is copied its bytes are there (`CopiedIsSafe`), so that
the unlink loses nothing; and dupes has nothing whole of an item of this run
that is yet to be moved (`DupesOfThisRun`), so that a dupe never replaces one.

**RunSync.** The lock is somebody's exactly while he is between taking it and
his exit, or was killed over a helper that inherited it (`LockIsHeld`); a sync
runs below a wrapper that is at it, or was killed (`ChildrenInPlace`): so a second
one needs a killed wrapper. What is mailed follows from where the wrapper is and
from its last exit code (`MailAtTheEnd`, `CodeIsOutcome`).

**Session.** A network has a profile only if a program on its way wants it or
it is in `left` (`ProfilesAccounted`), and the interface is associated only to a
network with a profile (`AssociatedHasProfile`): whatever camera a program is
joined to, its own program, the other one or a dead one asked for it.

**WeekBucket.** A time is split into week, weekday and hour; the label is the
week, or the next one past the rollover; on a Sunday that is the number of
rollovers so far.

**Startup.** Past the check a configuration was loaded and a controller was there;
what is refused after the connect is what the parser does not look at
(`StartupInv`), for a page size that the parser looks at is clamped (`Clamped`).
A controller that is not found at the wake was listed without its address, by sysfs
alone, or is no longer there. Assumed: names and addresses of controllers differ.

**Commands.** Until it is found, an item that was on the card from the start lies
behind the pages looked at, or in a reply under way, or all replies with it were
lost (`FindInv`), whether shots push it down or not. Assumed: pages hold an item at
least.

**LayoutTools.** A file under a new name belongs there, and the one about to
replace a rival has its place free (`MigrateInv`); names in the archive are unique,
and what this run has not visited it has not shifted (`RepairInv`). Assumed: the
old names are finitely many, with sizes and times that are numbers.

Only model-checked: liveness and everything under fairness (`RunsEnd`,
`EventuallyArchived`, `ListingEnds`, `StagingEmpties`, `InvocationsEnd`,
`NeverWedged`), which is beyond the prover, as is `ENABLED`. Every invariant and
every action property of the passing runs has its theorem; the bounds of TLC
remain where a theorem states a condition (`AckEvery <= Window`,
`NChunks <= SeqMod - Span`), which the runs' constants satisfy as the code's do.

## 6. What is not modelled

* Framing, encryption, record formats and the joining of a listing's reply
  fragments: byte-level conversions that no property here tells apart; a lost
  fragment is a lost reply.
* The `details` of keepalives, and the answers a waiting command gives to those
  of the camera.
* Reading times from EXIF or ffprobe, muxing, SMTP.
* Default directories, which are looked for on the disk, and where the two
  programs differ in them; the dump directories of the migration tool.
* What a sync writes under a mount point whose share has gone away.
* The analysis tools for packet captures and the old scripts, which are about
  half of the tools' code: none is part of a sync or touches the media.

## 7. Running

    tlc -config SyncRunnerReliable.cfg MCSyncRunner
    tlapm SyncRunner_proofs.tla

and likewise for the other runs of `PROJECT.json`. The MC modules hold the
instances' values, the `*_proofs` modules the proofs.
