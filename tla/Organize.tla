------------------------------ MODULE Organize ------------------------------
(***************************************************************************)
(* sync/organize.py: how a staged file gets its place in the final tree.   *)
(*                                                                         *)
(* SyncRunner takes a file out of staging in one step, into "the archive". *)
(* Here that step is opened up: the file has a name in the tree, another   *)
(* file may be there already, with the same bytes or with others, and      *)
(* shutil.move is a rename on one file system and a copy followed by an    *)
(* unlink across two.  A run may die between any two steps.  A file's      *)
(* bytes are a value of Content, and its name (week bucket, second, alias, *)
(* extension: see WeekBucket) one of Names.                                *)
(***************************************************************************)
EXTENDS Naturals

CONSTANTS
    Items,          \* the media keys of one camera, in their order
    Contents,       \* what a file may hold
    Names,          \* the paths of the final tree
    Content,        \* Content[i]: the bytes of item i
    MediaName,      \* MediaName[i]: its path by the camera's mediaTime
    OwnName,        \* OwnName[i]: its path by EXIF, ffprobe or first_seen_at
    FileSystems,    \* whether staging, tree and dupes may be on one file system, or on two
    MaxCrashes,     \* runs that die, at most
    Absent, Torn    \* no file, and a file written in part

ASSUME ConstantsAssumption ==
    /\ Items \subseteq Nat
    /\ Content \in [Items -> Contents]
    /\ MediaName \in [Items -> Names] /\ OwnName \in [Items -> Names]
    /\ FileSystems \subseteq BOOLEAN
    /\ MaxCrashes \in Nat
    /\ Absent \notin Contents /\ Torn \notin Contents /\ Absent # Torn

VARIABLES
    sameFs,         \* staging, tree and dupes are on one file system
    downloaded,     \* items that ever came into staging
    staged,         \* items staging holds
    tree,           \* the file at every path of the final tree
    dupes,          \* the files under dupes: which run, which item, what bytes
    listed,         \* items in the run's trailcam_manifest
    run,            \* runs so far
    crashes,        \* those that died
    pc,             \* "off", between two items, or where shutil.move is
    into            \* where it copies to: "tree" or "dupes"

vars == <<sameFs, downloaded, staged, tree, dupes, listed, run, crashes, pc, into>>

Init ==
    /\ sameFs \in FileSystems
    /\ downloaded = {} /\ staged = {} /\ listed = {}
    /\ tree = [n \in Names |-> Absent]
    /\ dupes = {}
    /\ run = 0 /\ crashes = 0
    /\ pc = "off" /\ into = "tree"

-----------------------------------------------------------------------------
\* Items come into staging, one by one, before a run organizes.
Download(i) ==
    /\ pc = "off"
    /\ i \in Items \ downloaded
    /\ downloaded' = downloaded \cup {i}
    /\ staged' = staged \cup {i}
    /\ listed' = listed \cup {i}
    /\ UNCHANGED <<sameFs, tree, dupes, run, crashes, pc, into>>

\* _organize_staging begins.
Begin ==
    /\ pc = "off"
    /\ staged # {}
    /\ run' = run + 1
    /\ pc' = "next"
    /\ UNCHANGED <<sameFs, downloaded, staged, tree, dupes, listed, crashes, into>>

\* The item organize_one works on: the lowest key of staging.
IsCurrent(i) == i \in staged /\ \A j \in staged : i <= j

\* choose_timestamp and final_filename: an item of an earlier run is not in the
\* manifest any more.
Destination(i) == IF i \in listed THEN MediaName[i] ELSE OwnName[i]

\* Mutant: files of one size are taken to be the same.
SameSize(a, b) == TRUE

\* _same_content: sizes and hashes agree.
SameContent(a, b) == a = b

Unstage(i) == staged' = staged \ {i}

\* Mutant: a file that is in the tree already stays in staging.
AlreadyPresentKept(i) ==
    /\ pc = "next" /\ IsCurrent(i)
    /\ tree[Destination(i)] # Absent
    /\ SameContent(Content[i], tree[Destination(i)])
    /\ UNCHANGED vars

AlreadyPresent(i) ==
    /\ pc = "next" /\ IsCurrent(i)
    /\ tree[Destination(i)] # Absent
    /\ SameContent(Content[i], tree[Destination(i)])
    /\ Unstage(i)
    /\ UNCHANGED <<sameFs, downloaded, tree, dupes, listed, run, crashes, pc, into>>

\* The file at dupes/<run>/<alias>/<dir>/<name>; whatever was there is replaced.
InDupes(i, bytes) ==
    {d \in dupes : d.run # run \/ d.item # i} \cup {[run |-> run, item |-> i, bytes |-> bytes]}

\* shutil.move into the tree or into dupes: done at once if it is a rename.
Renames(i, where) ==
    /\ sameFs
    /\ tree'  = IF where = "tree" THEN [tree EXCEPT ![Destination(i)] = Content[i]] ELSE tree
    /\ dupes' = IF where = "dupes" THEN InDupes(i, Content[i]) ELSE dupes
    /\ Unstage(i)
    /\ UNCHANGED <<pc, into>>

StartsCopy(i, where) ==
    /\ ~sameFs
    /\ tree'  = IF where = "tree" THEN [tree EXCEPT ![Destination(i)] = Torn] ELSE tree
    /\ dupes' = IF where = "dupes" THEN InDupes(i, Torn) ELSE dupes
    /\ pc' = "copying" /\ into' = where
    /\ UNCHANGED staged

\* Mutant: what is at the destination is replaced.
MoveToTreeAnyway(i) ==
    /\ pc = "next" /\ IsCurrent(i)
    /\ Renames(i, "tree") \/ StartsCopy(i, "tree")
    /\ UNCHANGED <<sameFs, downloaded, listed, run, crashes>>

MoveToTree(i) ==
    /\ pc = "next" /\ IsCurrent(i)
    /\ tree[Destination(i)] = Absent
    /\ Renames(i, "tree") \/ StartsCopy(i, "tree")
    /\ UNCHANGED <<sameFs, downloaded, listed, run, crashes>>

MoveToDupes(i) ==
    /\ pc = "next" /\ IsCurrent(i)
    /\ tree[Destination(i)] # Absent
    /\ ~SameContent(Content[i], tree[Destination(i)])
    /\ Renames(i, "dupes") \/ StartsCopy(i, "dupes")
    /\ UNCHANGED <<sameFs, downloaded, listed, run, crashes>>

\* The last byte is written.
Copied(i) ==
    /\ pc = "copying" /\ IsCurrent(i)
    /\ tree'  = IF into = "tree" THEN [tree EXCEPT ![Destination(i)] = Content[i]] ELSE tree
    /\ dupes' = IF into = "dupes" THEN InDupes(i, Content[i]) ELSE dupes
    /\ pc' = "copied"
    /\ UNCHANGED <<sameFs, downloaded, staged, listed, run, crashes, into>>

\* The staged file is removed once the copy is there.
Unlink(i) ==
    /\ pc = "copied" /\ IsCurrent(i)
    /\ Unstage(i)
    /\ pc' = "next"
    /\ UNCHANGED <<sameFs, downloaded, tree, dupes, listed, run, crashes, into>>

\* Everything is organized; the camera's next listing has none of it.
End ==
    /\ pc = "next" /\ staged = {}
    /\ pc' = "off"
    /\ listed' = {}
    /\ UNCHANGED <<sameFs, downloaded, staged, tree, dupes, run, crashes, into>>

\* The run dies; the camera has been cleared, so that the next manifest has
\* nothing of what is left in staging.
Crash ==
    /\ pc # "off"
    /\ crashes < MaxCrashes
    /\ crashes' = crashes + 1
    /\ pc' = "off"
    /\ listed' = {}
    /\ UNCHANGED <<sameFs, downloaded, staged, tree, dupes, run, into>>

-----------------------------------------------------------------------------
Organizing ==
    \/ Begin \/ End
    \/ \E i \in Items : AlreadyPresent(i) \/ MoveToTree(i) \/ MoveToDupes(i)
                        \/ Copied(i) \/ Unlink(i)

\* Every item has been organized.
Idle == pc = "off" /\ downloaded = Items /\ staged = {} /\ UNCHANGED vars

Next == Organizing \/ Crash \/ Idle \/ \E i \in Items : Download(i)

Spec == Init /\ [][Next]_vars

\* A run goes on while it lives, and the timer starts another.
FairSpec == Spec /\ WF_vars(Organizing)

-----------------------------------------------------------------------------
(* Correctness.                                                            *)

File == Contents \cup {Torn}

TypeOK ==
    /\ sameFs \in BOOLEAN
    /\ downloaded \subseteq Items
    /\ staged \subseteq downloaded
    /\ listed \subseteq Items
    /\ tree \in [Names -> File \cup {Absent}]
    /\ dupes \subseteq [run : Nat, item : Items, bytes : File]
    /\ run \in Nat
    /\ crashes \in 0..MaxCrashes
    /\ pc \in {"off", "next", "copying", "copied"}
    /\ into \in {"tree", "dupes"}
    /\ sameFs => pc \in {"off", "next"} /\ \A n \in Names : tree[n] # Torn

InTree(i) == \E n \in Names : tree[n] = Content[i]
IsDupe(i) == \E d \in dupes : d.bytes = Content[i]

\* Wherever a run dies, the bytes of every item are whole in staging, in the
\* tree or among the dupes.
NothingLost == \A i \in downloaded : i \in staged \/ InTree(i) \/ IsDupe(i)

\* What a path of the tree holds whole is never replaced by anything else, in
\* this run or in a later one.
TreeNeverOverwritten ==
    [][\A n \in Names : tree[n] \in Contents => tree'[n] = tree[n]]_vars

\* On one file system only a true collision sends a file to dupes: some other
\* file has the path.  (Across two, the rival may be what a copy left torn.)
DupesHaveRivals ==
    sameFs => \A d \in dupes : \E j \in downloaded :
        /\ Content[j] # Content[d.item]
        /\ tree[MediaName[d.item]] = Content[j] \/ tree[OwnName[d.item]] = Content[j]

\* Everything in staging is organized in the end, although runs die.
StagingEmpties == \A i \in Items : i \in downloaded ~> i \notin staged
=============================================================================
