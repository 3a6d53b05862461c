---------------------------- MODULE LayoutTools ----------------------------
(***************************************************************************)
(* src/tools/: two tools that move what is there into a newer layout,      *)
(* while nothing else runs: migrate_out_media_layout.py brings staging     *)
(* files to padded names, and repair_final_media_names.py gives archived   *)
(* files their local time.  Either may be interrupted and run again.       *)
(*                                                                         *)
(* Several old names (dir7/media7, dir007/media0007) may stand for one new *)
(* name.  In the archive a name is a time and an item here; the week       *)
(* folder follows from the time.                                           *)
(***************************************************************************)
EXTENDS Integers, FiniteSets

CONSTANTS
    OldNames,       \* names in the old layout, in the order they are visited
    NewName,        \* the new name of each (f"{dir}/media{n:04d}.{ext}")
    SizeOf,         \* the size of the file under each old name
    Archived,       \* files of the archive: [ts, item]
    Offsets,        \* local offsets from UTC
    MaxStops,       \* interruptions, at most
    Gone            \* no file

ASSUME LayoutAssumption ==
    /\ OldNames \subseteq Nat /\ IsFiniteSet(OldNames)
    /\ \A f \in OldNames : SizeOf[f] \in Nat
    /\ \A f \in Archived : f.ts \in Int /\ f = [ts |-> f.ts, item |-> f.item]
    /\ Offsets \subseteq Int /\ MaxStops \in Nat /\ Gone \notin OldNames

NewNames == {NewName[f] : f \in OldNames}

VARIABLES
    tool,           \* "migrate" or "repair"
    offset,         \* the local offset of the files' time
    old,            \* files under old names
    new,            \* per new name, the file there, or Gone
    visited,        \* names this run is done with
    replacing,      \* the file whose rival was unlinked a moment ago, or Gone
    archive,        \* archived files: [ts, item, id], id the file it was at first
    snapshot,       \* the names this run of the repair found, not yet visited
    stops,          \* interruptions so far
    done            \* the tool has run to its end

layoutVars == <<tool, offset, old, new, visited, replacing, archive, snapshot, stops, done>>
migrateVars == <<old, new, visited, replacing>>
repairVars  == <<archive, snapshot>>

NameOf(f) == [ts |-> f.ts, item |-> f.item]
AllNames(files) == {NameOf(f) : f \in files}

LayoutInit ==
    /\ tool \in {"migrate", "repair"}
    /\ offset \in Offsets
    /\ old = OldNames /\ new = [n \in NewNames |-> Gone]
    /\ visited = {} /\ replacing = Gone
    /\ archive = {[ts |-> f.ts, item |-> f.item, id |-> f] : f \in Archived}
    /\ snapshot = Archived
    /\ stops = 0 /\ done = FALSE

-----------------------------------------------------------------------------
(* migrate_media_root.                                                     *)

\* sorted(child.iterdir()), directory by directory.
Due(f) == f \in old \ visited /\ \A g \in old \ visited : f <= g

Visit(f) == visited' = visited \cup {f}

Migrating(f) == tool = "migrate" /\ ~done /\ replacing = Gone /\ Due(f)

MoveOver(f) ==
    /\ Migrating(f) /\ new[NewName[f]] = Gone
    /\ old' = old \ {f}
    /\ new' = [new EXCEPT ![NewName[f]] = f]
    /\ Visit(f)
    /\ UNCHANGED <<tool, offset, replacing, repairVars, stops, done>>

\* Mutant: the file that is there already wins.
LargerNever(f) == FALSE

Larger(f) == SizeOf[f] > SizeOf[new[NewName[f]]]

\* dst.unlink(), of the smaller one ...
Unlink(f) ==
    /\ Migrating(f) /\ new[NewName[f]] # Gone /\ Larger(f)
    /\ new' = [new EXCEPT ![NewName[f]] = Gone]
    /\ replacing' = f
    /\ UNCHANGED <<tool, offset, old, visited, repairVars, stops, done>>

\* ... and the larger one moves in; if it cannot, nobody hears of it.
Replace(f) ==
    /\ tool = "migrate" /\ replacing = f /\ f # Gone
    /\ \/ old' = old \ {f} /\ new' = [new EXCEPT ![NewName[f]] = f]
       \/ UNCHANGED <<old, new>>
    /\ Visit(f)
    /\ replacing' = Gone
    /\ UNCHANGED <<tool, offset, repairVars, stops, done>>

\* p.unlink(): the file that is there is at least as large.
Discard(f) ==
    /\ Migrating(f) /\ new[NewName[f]] # Gone /\ ~Larger(f)
    /\ old' = old \ {f}
    /\ Visit(f)
    /\ UNCHANGED <<tool, offset, new, replacing, repairVars, stops, done>>

-----------------------------------------------------------------------------
(* repair_final_media_names.py --apply.                                    *)

\* Mutant: the tree is walked while it changes.
VisitAgain(name) == snapshot' = (snapshot \ {name}) \cup (AllNames(archive') \ AllNames(archive))

\* The names are taken from the list made before anything is renamed.
Leave(name) == snapshot' = snapshot \ {name}

\* _legacy_shift_local_epoch; a name that is taken is a conflict, and the file
\* stays where it is.
Rename(f) ==
    /\ tool = "repair" /\ ~done
    /\ NameOf(f) \in snapshot
    /\ \A n \in snapshot : f.ts <= n.ts
    /\ LET moved == [f EXCEPT !.ts = @ - offset]
       IN  archive' = IF NameOf(moved) \in AllNames(archive) THEN archive
                                                             ELSE (archive \ {f}) \cup {moved}
    /\ Leave(NameOf(f))
    /\ UNCHANGED <<tool, offset, migrateVars, stops, done>>

-----------------------------------------------------------------------------
\* The tool is interrupted and started again: it looks at what is there now.
Interrupted ==
    /\ stops < MaxStops /\ ~done
    /\ stops' = stops + 1
    /\ visited' = {} /\ replacing' = Gone
    /\ snapshot' = AllNames(archive)
    /\ UNCHANGED <<tool, offset, old, new, archive, done>>

End ==
    /\ ~done
    /\ IF tool = "migrate" THEN old \subseteq visited /\ replacing = Gone ELSE snapshot = {}
    /\ done' = TRUE
    /\ UNCHANGED <<tool, offset, migrateVars, repairVars, stops>>

LayoutOver == done /\ UNCHANGED layoutVars

LayoutNext ==
    \/ \E f \in OldNames : MoveOver(f) \/ Unlink(f) \/ Replace(f) \/ Discard(f)
    \/ \E f \in archive : Rename(f)
    \/ Interrupted \/ End \/ LayoutOver

LayoutSpec == LayoutInit /\ [][LayoutNext]_layoutVars

-----------------------------------------------------------------------------
LayoutTypeOK ==
    /\ tool \in {"migrate", "repair"} /\ offset \in Offsets
    /\ old \subseteq OldNames /\ visited \subseteq OldNames
    /\ new \in [NewNames -> OldNames \cup {Gone}]
    /\ replacing \in OldNames \cup {Gone}
    /\ \A f \in archive : f.ts \in Int /\ f.id \in Archived
    /\ stops \in 0..MaxStops /\ done \in BOOLEAN

\* Of the files that stand for one new name a largest one is there at any time,
\* under an old name or the new one, also between the unlink and the move and
\* when a move fails; and if no file is left over it is the one under the new name.
LargestKept ==
    \A n \in NewNames :
        \E f \in old \cup {new[n]} :
            /\ f # Gone /\ NewName[f] = n
            /\ \A g \in OldNames : NewName[g] = n => SizeOf[g] <= SizeOf[f]

\* No archived file is overwritten, and none is shifted twice by a run, although
\* a file may get the very name another one has just left.  (A run after an
\* interrupted one shifts again what was shifted already.)
ShiftedOnce ==
    /\ \A f \in Archived : Cardinality({g \in archive : g.id = f}) = 1
    /\ stops = 0 => \A f \in archive : f.ts \in {f.id.ts, f.id.ts - offset}
=============================================================================
