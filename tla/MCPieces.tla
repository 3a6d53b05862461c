----------------------------- MODULE MCPieces -----------------------------
(***************************************************************************)
(* Five models that have nothing to do with one another, for TLC, side by  *)
(* side: a behaviour is one of PhotoTransfer, of WeekBucket, of Startup,   *)
(* of Commands or of LayoutTools, as part says, and leaves the other four  *)
(* alone.                                                                  *)
(***************************************************************************)
EXTENDS PhotoTransfer, WeekBucket, Startup, Commands, LayoutTools

-----------------------------------------------------------------------------
(* PhotoTransfer: numbers wrap at 8 instead of 2^16.  A photo of three      *)
(* chunks lies in the middle of the range, wraps in its middle, or wraps    *)
(* behind its third chunk, between two answers.                             *)

WrapBetween == {1, 5, 6}
\* The number of a left-over packet: that of a chunk of the photo, or of none.
OneStale == {5}

-----------------------------------------------------------------------------
(* WeekBucket: five weeks, hour by hour, every weekday's rollover at every *)
(* hour.                                                                   *)

AnyWeekday == 0..6
AnyHour == 0..23
FiveWeeks == 5 * 168

-----------------------------------------------------------------------------
(* Startup.                                                                *)

Back == [alias |-> "back", ble |-> "x", ssid |-> "x"]
Gate == [alias |-> "gate", ble |-> "x", ssid |-> "x"]

Sound ==
    [version |-> 1, cameras |-> {Back, Gate}, pageNo |-> FALSE, adapter |-> "hci0",
     items |-> Absent, pages |-> Absent, weekday |-> 6, hour |-> 8,
     staging |-> Absent, tmp |-> Absent, password |-> "plain"]

\* A sound file, and all that differ from it in one entry or in what it says of
\* pages and their size together.
SomeSettings ==
    {[Sound EXCEPT !.version = 2], [Sound EXCEPT !.pageNo = TRUE],
     [Sound EXCEPT !.weekday = 7], [Sound EXCEPT !.hour = 24], [Sound EXCEPT !.hour = -1],
     [Sound EXCEPT !.password = "unset variable"],
     [Sound EXCEPT !.staging = ""], [Sound EXCEPT !.tmp = "", !.staging = "media"],
     [Sound EXCEPT !.cameras = {}], [Sound EXCEPT !.cameras = {Back}],
     [Sound EXCEPT !.cameras = {[Back EXCEPT !.ble = ""], Gate}],
     [Sound EXCEPT !.cameras = {[Back EXCEPT !.ssid = ""], Gate}]}
    \cup {[Sound EXCEPT !.adapter = a] : a \in {Absent, "hci1", "A", "usb0"}}
    \cup {[Sound EXCEPT !.items = n, !.pages = m] : n \in {Absent, 50}, m \in {Absent, 0}}

Plain ==
    [op |-> Absent, camera |-> "back", items |-> Absent, pages |-> Absent, media |-> 1,
     staging |-> Absent, tmp |-> Absent]

SomeOptions ==
    {Plain, [Plain EXCEPT !.op = "download_single", !.media = 0]}
    \cup {[Plain EXCEPT !.op = o] :
            o \in {"sync", "status", "login_only", "download_single", "delete_media_all"} \cup PageOps}
    \cup {[Plain EXCEPT !.op = "list_media_all", !.pages = 5, !.items = 60],
          [Plain EXCEPT !.op = "download_page", !.items = 60],
          [Plain EXCEPT !.op = "download_page", !.staging = "here", !.tmp = ""],
          [Plain EXCEPT !.op = "list_media_page", !.camera = Absent],
          [Plain EXCEPT !.op = "list_media_page", !.camera = "shed"]}

Status == [Plain EXCEPT !.op = "status"]

-----------------------------------------------------------------------------
(* Commands: one number is a photo's and a video's, and one item is of     *)
(* neither type.                                                           *)

Item(m, t) == [dir |-> 100, media |-> m, type |-> t]
FiveOnCard == <<Item(5, Video), Item(4, Photo), Item(3, Photo), Item(3, Video), Item(1, 2)>>
TwoMore == <<Item(6, Photo), Item(7, Video)>>
Third == [dir |-> 100, media |-> 3]
SomeWanted == {[dir |-> 100, media |-> m] : m \in {1, 3, 4, 8}}

-----------------------------------------------------------------------------
(* LayoutTools: three old names for one new name, and times an offset      *)
(* apart.                                                                  *)

FourOld == 1..4
OldToNew == <<"a", "a", "b", "a">>
OldSizes == <<1, 3, 2, 2>>
InARow == {[ts |-> t, item |-> 1] : t \in {0, 2, 4, 5}}
EastAndWest == {2, -2}

-----------------------------------------------------------------------------
(* The composition.                                                        *)

VARIABLE part

\* The parts that are not looked at begin in one state of theirs.
PiecesInit ==
    /\ part \in {"photo", "week", "startup", "command", "layout"}
    /\ part # "photo" => origin = 1 /\ underway = {}
    /\ part # "week" => weekday = 6 /\ hour = 8
    /\ part # "startup" => program = "sync" /\ settings = Absent /\ options = Status
    /\ part # "command" => cmd = "list" /\ want = Third /\ newestFirst = TRUE
    /\ part # "layout" => tool = "repair" /\ offset = 2
    /\ Init /\ WeekInit /\ StartupInit /\ CommandsInit /\ LayoutInit

PiecesNext ==
    /\ UNCHANGED part
    /\ \/ part = "photo" /\ Next /\ UNCHANGED <<weekVars, startupVars, commandsVars, layoutVars>>
       \/ part = "week" /\ WeekNext /\ UNCHANGED <<vars, startupVars, commandsVars, layoutVars>>
       \/ part = "startup" /\ StartupNext /\ UNCHANGED <<vars, weekVars, commandsVars, layoutVars>>
       \/ part = "command" /\ CommandsNext /\ UNCHANGED <<vars, weekVars, startupVars, layoutVars>>
       \/ part = "layout" /\ LayoutNext /\ UNCHANGED <<vars, weekVars, startupVars, commandsVars>>

piecesVars == <<vars, weekVars, startupVars, commandsVars, layoutVars, part>>

PiecesSpec == PiecesInit /\ [][PiecesNext]_piecesVars

\* The states of all of them have their types.
PiecesTypesOK ==
    TypeOK /\ WeekTypeOK /\ StartupTypeOK /\ CommandsTypeOK /\ LayoutTypeOK
=============================================================================
