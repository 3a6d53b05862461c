------------------------------ MODULE Startup ------------------------------
(***************************************************************************)
(* From a command line to a command: what trailcam_sync.py and             *)
(* client_runner.py do before they talk to a camera (src/config.py,        *)
(* sync/sync_config.py, sync/hardware_check.py), the choice of the BLE     *)
(* adapter (connection/ble.py) and the checks each command makes at last   *)
(* (validate in src/command).                                              *)
(*                                                                         *)
(* Both programs read the same configuration, each in its own way; and the *)
(* Bluetooth controllers are looked up twice, before the run from two      *)
(* sources and at the wake, anew, from one.                                *)
(***************************************************************************)
EXTENDS Integers, FiniteSets

CONSTANTS
    Settings,       \* configuration files: see TypeOK
    Options,        \* command lines
    Names,          \* adapter names, hciX
    Addrs,          \* controller addresses
    Absent          \* a value that is not given

\* A name (hciX) and an address are told apart by their form.
ASSUME StartupAssumption ==
    /\ Names \cap Addrs = {} /\ Absent \notin Names \cup Addrs
    /\ \A s \in Settings : {s.items, s.pages} \subseteq Int \cup {Absent}
    /\ \A o \in Options : {o.items, o.pages} \subseteq Int \cup {Absent}
    /\ Absent \notin Settings

MaxPageItems == 50          \* MAX_PAGE_ITEM_CNT_EXCLUSIVE
DefaultPageItems == 48      \* DEFAULT_PAGE_ITEM_CNT

VARIABLES
    program,        \* "sync" or "runner"
    settings,       \* the configuration file, or Absent
    options,        \* the command line
    hciconfig,      \* controllers hciconfig lists, with address or Absent; or Absent
    sysfs,          \* controllers under /sys/class/bluetooth
    atWake,         \* what hciconfig lists when it is run again at the wake
    stage           \* how far the program got

startupVars == <<program, settings, options, hciconfig, sysfs, atWake, stage>>

Tables == UNION {[S -> Addrs \cup {Absent}] : S \in SUBSET Names}

StartupInit ==
    /\ program \in {"sync", "runner"}
    /\ settings \in Settings \cup {Absent}
    /\ options \in Options
    /\ program = "sync" <=> options.op \in {"sync", "status"}
    /\ hciconfig = Absent /\ sysfs = <<>> /\ atWake = Absent
    /\ stage = "started"

Reaches(next) == stage' = next

-----------------------------------------------------------------------------
(* src/config.py.                                                          *)

\* load_config: every section is read, also those the program has no use for.
Loads(s) ==
    /\ s.version = 1
    /\ s.cameras # {}
    /\ \A c \in s.cameras : c.ble # "" /\ c.ssid # ""
    /\ ~s.pageNo                                   \* CLI-only
    /\ s.adapter \in Names \cup Addrs \cup {Absent}
    /\ s.weekday \in 0..6
    /\ s.hour \in 0..23
    /\ s.password # "unset variable"

\* A value of the command line goes before one of the file, and that before
\* the default.
Given(option, setting, default) ==
    IF option # Absent THEN option ELSE IF setting # Absent THEN setting ELSE default

\* The commands that ask for pages the parser knows of.
PageOps == {"download_page", "list_media_page", "list_media_all"}

\* Mutant: only the listing of one page is clamped.
PageItemsUnclamped(p) ==
    LET n == IF p = "sync" THEN Given(Absent, settings.items, DefaultPageItems)
                           ELSE Given(options.items, settings.items, DefaultPageItems)
    IN  IF options.op = "list_media_page" /\ n >= MaxPageItems THEN DefaultPageItems ELSE n

\* page_item_cnt, which parse_config_and_args clamps for those commands only.
PageItems(p) ==
    LET n == IF p = "sync" THEN Given(Absent, settings.items, DefaultPageItems)
                           ELSE Given(options.items, settings.items, DefaultPageItems)
    IN  IF options.op \in PageOps /\ n >= MaxPageItems THEN DefaultPageItems ELSE n

MaxPages == Given(IF program = "sync" THEN Absent ELSE options.pages, settings.pages, 10)

\* staging_dir or tmp_dir is empty, which passes for the current directory until
\* a command looks at it.
DirectoryEmpty ==
    "" \in {Given(options.staging, settings.staging, "out/media"), Given(options.tmp, settings.tmp, "out/tmp")}

\* --camera if given, else the only one; the sync runs all of them.
CameraChosen ==
    \/ program = "sync"
    \/ IF options.camera # Absent
         THEN \E c \in settings.cameras : c.alias = options.camera
         ELSE Cardinality(settings.cameras) = 1

\* A configuration, a camera and an action; an item is named by a number.
Wellformed ==
    /\ settings # Absent
    /\ Loads(settings)
    /\ CameraChosen
    /\ options.op # Absent
    /\ options.op = "download_single" => options.media > 0

\* parse_config_and_args and create_sync_config; the status is printed without
\* a configuration.
Configure ==
    /\ stage = "started"
    /\ Reaches(IF options.op = "status" THEN "status"
               ELSE IF Wellformed THEN "configured" ELSE "refused")
    /\ UNCHANGED <<program, settings, options, hciconfig, sysfs, atWake>>

-----------------------------------------------------------------------------
(* src/sync/hardware_check.py.                                             *)

\* What hciconfig lists, which is nothing where there is no hciconfig.
Shown(hci) == IF hci = Absent THEN <<>> ELSE hci

\* Mutant: sysfs has the last word.
ControllersSysfs(hci, sys) ==
    [n \in DOMAIN Shown(hci) \cup DOMAIN sys |-> IF n \in DOMAIN sys THEN sys[n] ELSE Shown(hci)[n]]

\* _list_bluetooth_controllers: hciconfig first, and sysfs for those it does
\* not list (setdefault: a listed one without an address stays without).
Controllers(hci, sys) ==
    LET shown == Shown(hci)
    IN  [n \in DOMAIN shown \cup DOMAIN sys |-> IF n \in DOMAIN shown THEN shown[n] ELSE sys[n]]

\* _check_bluetooth
BluetoothThere(hci, sys) ==
    LET known == Controllers(hci, sys)
    IN  /\ DOMAIN known # {}
        /\ \/ settings.adapter = Absent
           \/ settings.adapter \in DOMAIN known
           \/ \E n \in DOMAIN known : known[n] = settings.adapter

\* RequiredHardwareChecker.check: the adapter, and an interface that exists and
\* is wireless.
Check ==
    /\ stage = "configured"
    /\ hciconfig' \in Tables \cup {Absent}
    /\ sysfs' \in Tables
    /\ \E exists, wireless \in BOOLEAN :
         Reaches(IF BluetoothThere(hciconfig', sysfs') /\ exists /\ wireless
                   THEN "checked" ELSE "refused")
    /\ UNCHANGED <<program, settings, options, atWake>>

-----------------------------------------------------------------------------
(* src/connection/ble.py, and the command at last.                         *)

\* A controller of this name has the address that is configured.
HasIt(hci, n) == n \in DOMAIN Shown(hci) /\ Shown(hci)[n] = settings.adapter

\* _resolve_bluez_adapter_name: an address is looked for in what hciconfig lists
\* by now.
Resolve ==
    /\ stage = "checked"
    /\ settings.adapter \in Addrs
    /\ atWake' \in Tables \cup {Absent}
    /\ Reaches(IF \E n \in Names : HasIt(atWake', n) THEN "connected" ELSE "unresolved")
    /\ UNCHANGED <<program, settings, options, hciconfig, sysfs>>

\* A name is taken as it is; and nobody looks where the camera is associated
\* already.
NoLookup ==
    /\ stage = "checked"
    /\ Reaches("connected")
    /\ UNCHANGED <<program, settings, options, hciconfig, sysfs, atWake>>

\* validate: the token, and what the command needs of its settings.
Valid(token) ==
    /\ token > 0
    /\ options.op \in PageOps \cup {"download_single", "sync"} => PageItems(program) < MaxPageItems
    /\ options.op \in {"list_media_all", "sync"} => MaxPages > 0
    /\ options.op = "download_page" => ~DirectoryEmpty

\* The camera is awake and gave a token: the command of the run begins.
Command ==
    /\ stage = "connected"
    /\ \E token \in 0..1 :
         Reaches(IF options.op = "login_only" \/ Valid(token) THEN "running"
                 ELSE IF token > 0 THEN "refused late" ELSE "no token")
    /\ UNCHANGED <<program, settings, options, hciconfig, sysfs, atWake>>

Over ==
    /\ stage \in {"status", "refused", "unresolved", "refused late", "no token", "running"}
    /\ UNCHANGED startupVars

StartupNext == Configure \/ Check \/ Resolve \/ NoLookup \/ Command \/ Over

StartupSpec == StartupInit /\ [][StartupNext]_startupVars

-----------------------------------------------------------------------------
StartupTypeOK ==
    /\ program \in {"sync", "runner"}
    /\ settings = Absent \/ settings \in Settings
    /\ options \in Options
    /\ {hciconfig, atWake} \subseteq Tables \cup {Absent} /\ sysfs \in Tables
    /\ stage \in {"started", "configured", "checked", "connected", "status", "running",
                  "refused", "unresolved", "refused late", "no token"}

\* The check before the run and the lookup at the wake agree: a controller that
\* was there is found again, unless it was hciconfig that showed it and does not
\* any more, or hciconfig does not know it at all; then every connect fails
\* although the check went well.
CheckedIsResolved ==
    stage = "unresolved" =>
        \/ \E n \in Names : HasIt(hciconfig, n) /\ ~HasIt(atWake, n)
        \/ \E n \in DOMAIN sysfs \ DOMAIN Shown(hciconfig) : sysfs[n] = settings.adapter

\* A run that its own settings forbid stops before a camera is woken; only the
\* page size of a single download and of the sync, a number of pages that is not
\* positive, and an empty directory for the download of a page are looked at when
\* the camera is already connected.
RefusedBeforeConnect ==
    stage = "refused late" =>
        \/ options.op \in {"download_single", "sync"} /\ PageItems(program) >= MaxPageItems
        \/ options.op \in {"list_media_all", "sync"} /\ MaxPages <= 0
        \/ options.op = "download_page" /\ DirectoryEmpty
=============================================================================
