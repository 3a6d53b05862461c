--------------------------- MODULE Organize_proofs ---------------------------
(***************************************************************************)
(* Nothing is lost between staging and the tree, and the tree is never     *)
(* written over: for any items, names and bytes, on one file system or     *)
(* two, however often a run dies.                                          *)
(*                                                                         *)
(* What makes it inductive: while a file is copied, the file at its        *)
(* destination is the torn one this very copy began, so that nobody's      *)
(* bytes are replaced; and once it is copied, the bytes are there.         *)
(***************************************************************************)
EXTENDS Organize, TLAPS

Safe(i) == InTree(i) \/ IsDupe(i)

\* While it copies into the tree, the destination is torn.
CopyIsTorn ==
    pc = "copying" /\ into = "tree" =>
        \A i \in Items : IsCurrent(i) => tree[Destination(i)] = Torn

\* A copied item is safe although it is still in staging.
CopiedIsSafe ==
    pc = "copied" => \A i \in Items : IsCurrent(i) => Safe(i)

\* Of this run, dupes has nothing whole of an item that is still to be moved.
DupesOfThisRun ==
    \A d \in dupes :
        /\ d.run <= run
        /\ d.run = run /\ d.item \in staged /\ d.bytes # Torn
              => pc = "off" \/ (pc = "copied" /\ IsCurrent(d.item))

Inv == TypeOK /\ NothingLost /\ CopyIsTorn /\ CopiedIsSafe /\ DupesOfThisRun

-----------------------------------------------------------------------------
\* There is one current item at most.
LEMMA OneCurrent ==
    ASSUME TypeOK, NEW i \in Items, NEW j \in Items, IsCurrent(i), IsCurrent(j)
    PROVE  i = j
<1>1. i \in Nat /\ j \in Nat
  BY ConstantsAssumption
<1> QED BY <1>1 DEF IsCurrent

\* Every name an item may get is a path of the tree.
LEMMA DestinationType ==
    ASSUME NEW i \in Items
    PROVE  Destination(i) \in Names /\ Content[i] \in Contents
BY ConstantsAssumption DEF Destination

\* No torn and no absent file has the bytes of an item.
LEMMA TornIsNoContent ==
    ASSUME NEW i \in Items
    PROVE  Content[i] # Torn /\ Content[i] # Absent
BY ConstantsAssumption

\* Writing where the tree has no whole file loses no item's bytes.
LEMMA TreeKeeps ==
    ASSUME TypeOK, NEW n \in Names, NEW b \in File, tree[n] \notin Contents,
           tree' = [tree EXCEPT ![n] = b], NEW i \in Items, InTree(i)
    PROVE  InTree(i)'
<1>1. PICK m \in Names : tree[m] = Content[i]
  BY DEF InTree
<1>2. m # n
  BY <1>1, DestinationType
<1>3. tree'[m] = Content[i]
  BY <1>1, <1>2 DEF TypeOK
<1> QED BY <1>3 DEF InTree

\* Writing over a torn dupe of this run loses no item's bytes.
LEMMA DupesKeep ==
    ASSUME NEW j \in Items, NEW b \in File,
           \A d \in dupes : d.run = run /\ d.item = j => d.bytes = Torn,
           dupes' = InDupes(j, b), NEW i \in Items, IsDupe(i)
    PROVE  IsDupe(i)'
<1>1. PICK d \in dupes : d.bytes = Content[i]
  BY DEF IsDupe
<1>2. d.run # run \/ d.item # j
  BY <1>1, TornIsNoContent
<1>3. d \in dupes'
  BY <1>2 DEF InDupes
<1> QED BY <1>1, <1>3 DEF IsDupe

\* Records of dupes keep their type.
LEMMA DupesType ==
    ASSUME TypeOK, NEW j \in Items, NEW b \in File
    PROVE  InDupes(j, b) \subseteq [run : Nat, item : Items, bytes : File]
BY SMT DEF TypeOK, InDupes

-----------------------------------------------------------------------------
(* Each action preserves the invariant.                                    *)

LEMMA InitInv == Init => Inv
BY ConstantsAssumption DEF Init, Inv, TypeOK, NothingLost, CopyIsTorn,
   CopiedIsSafe, DupesOfThisRun, File

\* The steps that write no file: what they leave to show.
LEMMA NothingWritten ==
    ASSUME UNCHANGED <<tree, dupes>>, NEW i \in Items
    PROVE  Safe(i)' <=> Safe(i)
BY DEF Safe, InTree, IsDupe

LEMMA DownloadInv ==
    ASSUME Inv, NEW i \in Items, Download(i)
    PROVE  Inv'
<1>1. TypeOK'
  BY DEF Inv, TypeOK, Download
<1>2. NothingLost'
  BY NothingWritten DEF Inv, TypeOK, NothingLost, Download, Safe
<1>3. pc' = "off" /\ dupes' = dupes /\ run' = run
  BY DEF Download
<1>4. CopyIsTorn' /\ CopiedIsSafe'
  BY <1>3 DEF CopyIsTorn, CopiedIsSafe
<1>5. DupesOfThisRun'
  BY <1>3 DEF Inv, DupesOfThisRun, IsCurrent
<1> QED BY <1>1, <1>2, <1>4, <1>5 DEF Inv

LEMMA BeginInv ==
    ASSUME Inv, Begin
    PROVE  Inv'
<1>1. TypeOK'
  BY DEF Inv, TypeOK, Begin
<1>2. NothingLost'
  BY NothingWritten DEF Inv, TypeOK, NothingLost, Begin, Safe
<1>3. CopyIsTorn' /\ CopiedIsSafe'
  BY DEF Begin, CopyIsTorn, CopiedIsSafe
<1>4. ASSUME NEW d \in dupes
      PROVE  d.run <= run' /\ d.run # run'
  <2>1. d.run \in Nat /\ run \in Nat /\ d.run <= run /\ run' = run + 1
    BY DEF Inv, TypeOK, DupesOfThisRun, Begin
  <2> QED BY <2>1
<1>5. DupesOfThisRun'
  BY <1>4 DEF DupesOfThisRun, Begin
<1> QED BY <1>1, <1>2, <1>3, <1>5 DEF Inv

\* A step that ends the run, by itself or not.
LEMMA StopInv ==
    ASSUME Inv, End \/ Crash
    PROVE  Inv'
<1>1. TypeOK'
  <2>1. UNCHANGED <<sameFs, downloaded, staged, tree, dupes, run, into>> /\ pc' = "off" /\ listed' = {}
    BY DEF End, Crash
  <2>2. crashes' \in 0..MaxCrashes
    BY ConstantsAssumption DEF Inv, TypeOK, End, Crash
  <2> QED BY <2>1, <2>2 DEF Inv, TypeOK
<1>2. NothingLost'
  BY NothingWritten DEF Inv, TypeOK, NothingLost, End, Crash, Safe
<1>3. pc' = "off" /\ dupes' = dupes /\ run' = run
  BY DEF End, Crash
<1>4. CopyIsTorn' /\ CopiedIsSafe'
  BY <1>3 DEF CopyIsTorn, CopiedIsSafe
<1>5. DupesOfThisRun'
  BY <1>3 DEF Inv, DupesOfThisRun, IsCurrent
<1> QED BY <1>1, <1>2, <1>4, <1>5 DEF Inv

\* An item that is safe may leave staging.
LEMMA UnstageKeeps ==
    ASSUME Inv, NEW i \in Items, Unstage(i), UNCHANGED downloaded, Safe(i)',
           \A j \in Items : Safe(j) => Safe(j)'
    PROVE  NothingLost'
<1> SUFFICES ASSUME NEW j \in downloaded, j \notin staged'
             PROVE  Safe(j)'
  BY DEF NothingLost, Safe
<1>1. j \in Items
  BY DEF Inv, TypeOK
<1>2. CASE j = i
  BY <1>2
<1>3. CASE j # i
  BY <1>1, <1>3 DEF Inv, NothingLost, Safe, Unstage
<1> QED BY <1>2, <1>3

\* Only with SameContent as an equality is a staged file given up rightly.
LEMMA AlreadyPresentInv ==
    ASSUME Inv, NEW i \in Items, AlreadyPresent(i)
    PROVE  Inv'
<1>1. TypeOK'
  BY DEF Inv, TypeOK, AlreadyPresent, Unstage
<1>2. Safe(i)'
  BY DestinationType, NothingWritten DEF AlreadyPresent, SameContent, Safe, InTree
<1>3. NothingLost'
  BY <1>2, UnstageKeeps, NothingWritten DEF AlreadyPresent
<1>4. CopyIsTorn' /\ CopiedIsSafe'
  BY DEF AlreadyPresent, CopyIsTorn, CopiedIsSafe
<1>5. DupesOfThisRun'
  BY DEF Inv, DupesOfThisRun, AlreadyPresent, Unstage
<1> QED BY <1>1, <1>3, <1>4, <1>5 DEF Inv

LEMMA UnlinkInv ==
    ASSUME Inv, NEW i \in Items, Unlink(i)
    PROVE  Inv'
<1>1. TypeOK'
  BY DEF Inv, TypeOK, Unlink, Unstage
<1>2. Safe(i)'
  BY NothingWritten DEF Inv, CopiedIsSafe, Unlink
<1>3. NothingLost'
  BY <1>2, UnstageKeeps, NothingWritten DEF Unlink
<1>4. CopyIsTorn' /\ CopiedIsSafe'
  BY DEF Unlink, CopyIsTorn, CopiedIsSafe
<1>5. DupesOfThisRun'
  <2>1. ASSUME NEW d \in dupes, d.run = run, d.item \in staged', d.bytes # Torn
        PROVE  FALSE
    <3>1. IsCurrent(i) /\ pc = "copied" /\ d.item \in staged /\ d.item # i
      BY <2>1 DEF Unlink, Unstage
    <3>2. IsCurrent(d.item) /\ d.item \in Items
      BY <2>1, <3>1 DEF Inv, TypeOK, DupesOfThisRun
    <3> QED BY <3>1, <3>2, OneCurrent DEF Inv
  <2> QED BY <2>1 DEF Inv, DupesOfThisRun, Unlink
<1> QED BY <1>1, <1>3, <1>4, <1>5 DEF Inv

\* A write into the tree where no whole file is: by rename, by the beginning of
\* a copy or by its end.
LEMMA TreeWriteKeeps ==
    ASSUME Inv, NEW i \in Items, NEW b \in File, tree[Destination(i)] \notin Contents,
           tree' = [tree EXCEPT ![Destination(i)] = b], dupes' = dupes
    PROVE  /\ \A j \in Items : Safe(j) => Safe(j)'
           /\ tree'[Destination(i)] = b
           /\ tree' \in [Names -> File \cup {Absent}]
<1>1. Destination(i) \in Names /\ tree \in [Names -> File \cup {Absent}]
  BY DestinationType DEF Inv, TypeOK
<1>2. ASSUME NEW j \in Items, Safe(j)
      PROVE  Safe(j)'
  <2>1. CASE InTree(j)
    BY <1>1, <2>1, TreeKeeps DEF Inv, Safe
  <2>2. CASE IsDupe(j)
    BY <2>2 DEF Safe, IsDupe
  <2> QED BY <1>2, <2>1, <2>2 DEF Safe
<1>3. tree'[Destination(i)] = b /\ tree' \in [Names -> File \cup {Absent}]
  BY <1>1
<1> QED BY <1>2, <1>3

\* The same for a write into dupes.
LEMMA DupesWriteKeeps ==
    ASSUME Inv, NEW i \in Items, NEW b \in File, pc \in {"next", "copying"}, IsCurrent(i),
           dupes' = InDupes(i, b), tree' = tree
    PROVE  /\ \A j \in Items : Safe(j) => Safe(j)'
           /\ b = Content[i] => IsDupe(i)'
           /\ dupes' \subseteq [run : Nat, item : Items, bytes : File]
<1>1. \A d \in dupes : d.run = run /\ d.item = i => d.bytes = Torn
  BY DEF Inv, DupesOfThisRun, IsCurrent
<1>2. ASSUME NEW j \in Items, Safe(j)
      PROVE  Safe(j)'
  <2>1. CASE InTree(j)
    BY <2>1 DEF Safe, InTree
  <2>2. CASE IsDupe(j)
    BY <1>1, <2>2, DupesKeep DEF Safe
  <2> QED BY <1>2, <2>1, <2>2 DEF Safe
<1>3. [run |-> run, item |-> i, bytes |-> b] \in dupes'
  BY DEF InDupes
<1>4. b = Content[i] => IsDupe(i)'
  BY <1>3 DEF IsDupe
<1>5. dupes' \subseteq [run : Nat, item : Items, bytes : File]
  BY DupesType DEF Inv
<1> QED BY <1>2, <1>4, <1>5

\* DupesOfThisRun after a step that writes b for item i and leaves the run on.
LEMMA DupesRecords ==
    ASSUME Inv, NEW i \in Items, NEW b \in File, pc \in {"next", "copying"},
           dupes' = dupes \/ dupes' = InDupes(i, b), run' = run,
           NEW S, staged' = S, S \subseteq staged,
           b = Torn \/ i \notin S \/ (pc' = "copied" /\ IsCurrent(i)')
    PROVE  DupesOfThisRun'
<1>1. run \in Nat
  BY DEF Inv, TypeOK
<1>2. ASSUME NEW d \in dupes
      PROVE  d.run <= run /\ (d.run = run /\ d.item \in staged' => d.bytes = Torn)
  BY DEF Inv, DupesOfThisRun
<1>3. ASSUME NEW d \in dupes', d \notin dupes
      PROVE  d.run = run /\ d.item = i /\ d.bytes = b
  BY <1>3 DEF InDupes
<1>4. ASSUME NEW d \in dupes'
      PROVE  d.run <= run' /\ (d.run = run' /\ d.item \in staged' /\ d.bytes # Torn
                => pc' = "copied" /\ IsCurrent(d.item)')
  <2>1. CASE d \in dupes
    BY <1>2, <2>1
  <2>2. CASE d \notin dupes
    <3>1. d.run = run /\ d.item = i /\ d.bytes = b
      BY <1>3, <2>2
    <3> QED BY <1>1, <3>1 DEF IsCurrent
  <2> QED BY <2>1, <2>2
<1> QED BY <1>4 DEF DupesOfThisRun, IsCurrent

LEMMA MoveToTreeInv ==
    ASSUME Inv, NEW i \in Items, MoveToTree(i)
    PROVE  Inv'
<1>1. pc = "next" /\ IsCurrent(i) /\ tree[Destination(i)] \notin Contents
  BY ConstantsAssumption DEF MoveToTree
<1>2. UNCHANGED <<sameFs, downloaded, listed, run, crashes>>
  BY DEF MoveToTree
<1>3. CASE Renames(i, "tree")
  <2>1. tree' = [tree EXCEPT ![Destination(i)] = Content[i]] /\ dupes' = dupes
        /\ Unstage(i) /\ sameFs /\ UNCHANGED <<pc, into>>
    BY <1>3 DEF Renames
  <2>2. /\ \A j \in Items : Safe(j) => Safe(j)'
        /\ tree'[Destination(i)] = Content[i]
        /\ tree' \in [Names -> File \cup {Absent}]
    BY <1>1, <2>1, DestinationType, TreeWriteKeeps DEF File
  <2>3. Safe(i)'
    BY <2>2, DestinationType DEF Safe, InTree
  <2>4. TypeOK'
    <3>1. \A n \in Names : tree'[n] # Torn
      BY <2>1, TornIsNoContent DEF Inv, TypeOK
    <3> QED BY <1>1, <1>2, <2>1, <2>2, <3>1 DEF Inv, TypeOK, Unstage
  <2>5. NothingLost'
    BY <1>2, <2>1, <2>2, <2>3, UnstageKeeps
  <2>6. DupesOfThisRun'
    BY <1>1, <1>2, <2>1, DupesRecords, DestinationType DEF Unstage, File
  <2> QED BY <1>1, <2>1, <2>4, <2>5, <2>6 DEF Inv, CopyIsTorn, CopiedIsSafe
<1>4. CASE StartsCopy(i, "tree")
  <2>1. tree' = [tree EXCEPT ![Destination(i)] = Torn] /\ dupes' = dupes
        /\ staged' = staged /\ ~sameFs /\ pc' = "copying" /\ into' = "tree"
    BY <1>4 DEF StartsCopy
  <2>2. /\ \A j \in Items : Safe(j) => Safe(j)'
        /\ tree'[Destination(i)] = Torn
        /\ tree' \in [Names -> File \cup {Absent}]
    BY <1>1, <2>1, TreeWriteKeeps DEF File
  <2>3. TypeOK'
    BY <1>2, <2>1, <2>2 DEF Inv, TypeOK
  <2>4. NothingLost'
    BY <1>2, <2>1, <2>2 DEF Inv, TypeOK, NothingLost, Safe
  <2>5. CopyIsTorn'
    <3>1. ASSUME NEW j \in Items, IsCurrent(j)'
          PROVE  tree'[Destination(j)'] = Torn
      <4>1. IsCurrent(j)
        BY <2>1, <3>1 DEF IsCurrent
      <4>2. j = i /\ Destination(j)' = Destination(i)
        BY <1>1, <1>2, <4>1, OneCurrent DEF Inv, Destination
      <4> QED BY <2>2, <4>2
    <3> QED BY <3>1 DEF CopyIsTorn
  <2>6. DupesOfThisRun'
    BY <1>1, <1>2, <2>1, DupesRecords DEF File
  <2> QED BY <2>1, <2>3, <2>4, <2>5, <2>6 DEF Inv, CopiedIsSafe
<1> QED BY <1>3, <1>4 DEF MoveToTree

LEMMA MoveToDupesInv ==
    ASSUME Inv, NEW i \in Items, MoveToDupes(i)
    PROVE  Inv'
<1>1. pc = "next" /\ IsCurrent(i)
  BY DEF MoveToDupes
<1>2. UNCHANGED <<sameFs, downloaded, listed, run, crashes>>
  BY DEF MoveToDupes
<1>3. CASE Renames(i, "dupes")
  <2>1. dupes' = InDupes(i, Content[i]) /\ tree' = tree
        /\ Unstage(i) /\ sameFs /\ UNCHANGED <<pc, into>>
    BY <1>3 DEF Renames
  <2>2. /\ \A j \in Items : Safe(j) => Safe(j)'
        /\ IsDupe(i)'
        /\ dupes' \subseteq [run : Nat, item : Items, bytes : File]
    BY <1>1, <2>1, DestinationType, DupesWriteKeeps DEF File
  <2>3. TypeOK'
    BY <1>1, <1>2, <2>1, <2>2 DEF Inv, TypeOK, Unstage
  <2>4. NothingLost'
    BY <1>2, <2>1, <2>2, UnstageKeeps DEF Safe
  <2>5. DupesOfThisRun'
    BY <1>1, <1>2, <2>1, DupesRecords, DestinationType DEF Unstage, File
  <2> QED BY <1>1, <2>1, <2>3, <2>4, <2>5 DEF Inv, CopyIsTorn, CopiedIsSafe
<1>4. CASE StartsCopy(i, "dupes")
  <2>1. dupes' = InDupes(i, Torn) /\ tree' = tree
        /\ staged' = staged /\ ~sameFs /\ pc' = "copying" /\ into' = "dupes"
    BY <1>4 DEF StartsCopy
  <2>2. /\ \A j \in Items : Safe(j) => Safe(j)'
        /\ dupes' \subseteq [run : Nat, item : Items, bytes : File]
    BY <1>1, <2>1, DupesWriteKeeps DEF File
  <2>3. TypeOK'
    BY <1>2, <2>1, <2>2 DEF Inv, TypeOK
  <2>4. NothingLost'
    BY <1>2, <2>1, <2>2 DEF Inv, TypeOK, NothingLost, Safe
  <2>5. DupesOfThisRun'
    BY <1>1, <1>2, <2>1, DupesRecords DEF File
  <2> QED BY <2>1, <2>3, <2>4, <2>5 DEF Inv, CopyIsTorn, CopiedIsSafe
<1> QED BY <1>3, <1>4 DEF MoveToDupes

LEMMA CopiedInv ==
    ASSUME Inv, NEW i \in Items, Copied(i)
    PROVE  Inv'
<1>1. pc = "copying" /\ IsCurrent(i) /\ pc' = "copied"
  BY DEF Copied
<1>2. UNCHANGED <<sameFs, downloaded, staged, listed, run, crashes, into>>
  BY DEF Copied
<1>3. ~sameFs
  BY <1>1 DEF Inv, TypeOK
<1>4. /\ \A j \in Items : Safe(j) => Safe(j)'
      /\ Safe(i)'
      /\ tree' \in [Names -> File \cup {Absent}]
      /\ dupes' \subseteq [run : Nat, item : Items, bytes : File]
  <2>1. CASE into = "tree"
    <3>1. tree' = [tree EXCEPT ![Destination(i)] = Content[i]] /\ dupes' = dupes
      BY <2>1 DEF Copied
    <3>2. tree[Destination(i)] \notin Contents
      BY <1>1, <2>1, ConstantsAssumption DEF Inv, CopyIsTorn
    <3>3. /\ \A j \in Items : Safe(j) => Safe(j)'
          /\ tree'[Destination(i)] = Content[i]
          /\ tree' \in [Names -> File \cup {Absent}]
      BY <3>1, <3>2, DestinationType, TreeWriteKeeps DEF File
    <3> QED BY <3>1, <3>3, DestinationType DEF Safe, InTree, Inv, TypeOK
  <2>2. CASE into = "dupes"
    <3>1. dupes' = InDupes(i, Content[i]) /\ tree' = tree
      BY <2>2 DEF Copied
    <3> QED BY <1>1, <3>1, DestinationType, DupesWriteKeeps DEF File, Safe, Inv, TypeOK
  <2> QED BY <2>1, <2>2 DEF Inv, TypeOK
<1>5. TypeOK'
  BY <1>1, <1>2, <1>3, <1>4 DEF Inv, TypeOK
<1>6. NothingLost'
  BY <1>2, <1>4 DEF Inv, TypeOK, NothingLost, Safe
<1>7. CopiedIsSafe'
  <2>1. ASSUME NEW j \in Items, IsCurrent(j)'
        PROVE  Safe(j)'
    <3>1. IsCurrent(j)
      BY <1>2, <2>1 DEF IsCurrent
    <3>2. j = i
      BY <1>1, <3>1, OneCurrent DEF Inv
    <3> QED BY <1>4, <3>2
  <2> QED BY <2>1 DEF CopiedIsSafe
<1>8. DupesOfThisRun'
  <2>1. IsCurrent(i)'
    BY <1>1, <1>2 DEF IsCurrent
  <2>2. dupes' = dupes \/ dupes' = InDupes(i, Content[i])
    BY DEF Copied
  <2> QED BY <1>1, <1>2, <2>1, <2>2, DupesRecords, DestinationType DEF File
<1> QED BY <1>1, <1>5, <1>6, <1>7, <1>8 DEF Inv, CopyIsTorn

-----------------------------------------------------------------------------
LEMMA NextInv == Inv /\ [Next]_vars => Inv'
<1> SUFFICES ASSUME Inv, [Next]_vars
             PROVE  Inv'
  OBVIOUS
<1>1. CASE Organizing
  BY <1>1, BeginInv, StopInv, AlreadyPresentInv, MoveToTreeInv, MoveToDupesInv,
     CopiedInv, UnlinkInv DEF Organizing
<1>2. CASE Crash
  BY <1>2, StopInv
<1>3. CASE \E i \in Items : Download(i)
  BY <1>3, DownloadInv
<1>4. CASE UNCHANGED vars
  BY <1>4 DEF vars, Inv, TypeOK, NothingLost, CopyIsTorn, CopiedIsSafe, DupesOfThisRun,
     IsCurrent, Destination, Safe, InTree, IsDupe
<1> QED BY <1>1, <1>2, <1>3, <1>4 DEF Next, Idle

LEMMA InvAlways == Spec => []Inv
BY InitInv, NextInv, PTL DEF Spec

\* However often a run dies while it organizes, on one file system or across two,
\* the bytes of every item stay whole in staging, in the tree or in dupes.
THEOREM OrganizingLosesNothing == Spec => []NothingLost
<1>1. Inv => NothingLost
  BY DEF Inv
<1> QED BY <1>1, InvAlways, PTL

\* A whole file of the tree is never replaced, whatever names and bytes later
\* items have.
THEOREM TreeIsKept == Spec => TreeNeverOverwritten
<1>1. ASSUME Inv, Next, NEW n \in Names, tree[n] \in Contents
      PROVE  tree'[n] = tree[n]
  <2>1. ASSUME NEW i \in Items, MoveToTree(i)
        PROVE  tree'[n] = tree[n]
    <3>1. n # Destination(i)
      BY <1>1, <2>1, ConstantsAssumption DEF MoveToTree
    <3> QED BY <1>1, <2>1, <3>1 DEF MoveToTree, Renames, StartsCopy, Inv, TypeOK
  <2>2. ASSUME NEW i \in Items, Copied(i)
        PROVE  tree'[n] = tree[n]
    <3>1. into = "tree" => n # Destination(i)
      BY <1>1, <2>2, ConstantsAssumption DEF Copied, Inv, CopyIsTorn
    <3> QED BY <1>1, <2>2, <3>1 DEF Copied, Inv, TypeOK
  <2>3. ASSUME NEW i \in Items, MoveToDupes(i)
        PROVE  tree' = tree
    BY <2>3 DEF MoveToDupes, Renames, StartsCopy
  <2>4. ASSUME NEW i \in Items, AlreadyPresent(i) \/ Unlink(i) \/ Download(i)
        PROVE  tree' = tree
    BY <2>4 DEF AlreadyPresent, Unlink, Download
  <2>5. Begin \/ End \/ Crash \/ Idle => tree' = tree
    BY DEF Begin, End, Crash, Idle, vars
  <2> QED BY <1>1, <2>1, <2>2, <2>3, <2>4, <2>5 DEF Next, Organizing
<1>2. Inv /\ [Next]_vars
        => [\A n \in Names : tree[n] \in Contents => tree'[n] = tree[n]]_vars
  BY <1>1
<1> QED BY <1>2, InvAlways, PTL DEF Spec, TreeNeverOverwritten

-----------------------------------------------------------------------------
(* On one file system.                                                     *)

Rival(d) ==
    \E j \in downloaded :
        /\ Content[j] # Content[d.item]
        /\ tree[MediaName[d.item]] = Content[j] \/ tree[OwnName[d.item]] = Content[j]

\* What is in the tree came through staging, and every dupe has its rival there.
OriginsAndRivals ==
    sameFs =>
        /\ \A n \in Names : tree[n] = Absent \/ \E j \in downloaded : tree[n] = Content[j]
        /\ \A d \in dupes : Rival(d)

\* Renaming into a free path takes no dupe its rival.
LEMMA RenameKeepsRivals ==
    ASSUME TypeOK, sameFs, OriginsAndRivals, NEW i \in Items, MoveToTree(i)
    PROVE  OriginsAndRivals'
<1> USE ConstantsAssumption
<1>1. /\ tree[Destination(i)] = Absent /\ i \in downloaded
      /\ tree' = [tree EXCEPT ![Destination(i)] = Content[i]]
      /\ UNCHANGED <<dupes, downloaded, sameFs>>
  BY DEF TypeOK, MoveToTree, Renames, StartsCopy, IsCurrent
<1>2. ASSUME NEW n \in Names
      PROVE  tree'[n] = Absent \/ \E j \in downloaded : tree'[n] = Content[j]
  BY <1>1, DestinationType DEF TypeOK, OriginsAndRivals
<1>3. ASSUME NEW d \in dupes
      PROVE  Rival(d)'
  <2>1. d.item \in Items
    BY DEF TypeOK
  <2>2. PICK j \in downloaded :
            /\ Content[j] # Content[d.item]
            /\ tree[MediaName[d.item]] = Content[j] \/ tree[OwnName[d.item]] = Content[j]
    BY DEF OriginsAndRivals, Rival
  <2>3. Content[j] # Absent /\ MediaName[d.item] \in Names /\ OwnName[d.item] \in Names
    BY <2>1, TornIsNoContent DEF TypeOK
  <2>4. \A n \in Names : tree[n] = Content[j] => tree'[n] = Content[j]
    BY <1>1, <2>3 DEF TypeOK
  <2> QED BY <1>1, <2>2, <2>3, <2>4 DEF Rival
<1> QED BY <1>1, <1>2, <1>3 DEF OriginsAndRivals

\* A file goes to dupes because of what is at its destination.
LEMMA DupeFindsRival ==
    ASSUME TypeOK, sameFs, OriginsAndRivals, NEW i \in Items, MoveToDupes(i)
    PROVE  OriginsAndRivals'
<1> USE ConstantsAssumption
<1>1. /\ tree[Destination(i)] # Absent /\ Content[i] # tree[Destination(i)]
      /\ dupes' = InDupes(i, Content[i])
      /\ UNCHANGED <<tree, downloaded, sameFs>>
  BY DEF TypeOK, MoveToDupes, Renames, StartsCopy, SameContent
<1>2. PICK j \in downloaded : tree[Destination(i)] = Content[j]
  BY <1>1, DestinationType DEF OriginsAndRivals
<1>3. ASSUME NEW d \in dupes', d.item = i
      PROVE  Rival(d)'
  BY <1>1, <1>2, <1>3 DEF Rival, Destination
<1>4. ASSUME NEW d \in dupes
      PROVE  Rival(d)'
  BY <1>1, <1>4 DEF Rival, OriginsAndRivals
<1>5. ASSUME NEW d \in dupes'
      PROVE  Rival(d)'
  BY <1>1, <1>3, <1>4, <1>5 DEF InDupes
<1> QED BY <1>1, <1>5 DEF OriginsAndRivals

LEMMA RivalsStep == TypeOK /\ OriginsAndRivals /\ [Next]_vars => OriginsAndRivals'
<1> SUFFICES ASSUME TypeOK, OriginsAndRivals, [Next]_vars, sameFs
             PROVE  OriginsAndRivals'
  <2>1. ASSUME [Next]_vars PROVE sameFs' = sameFs
    BY <2>1 DEF Next, vars, Idle, Crash, Organizing, Begin, End, Download, AlreadyPresent,
       MoveToTree, MoveToDupes, Copied, Unlink
  <2>2. ASSUME sameFs' = sameFs, ~sameFs PROVE OriginsAndRivals'
    BY <2>2 DEF OriginsAndRivals
  <2> QED BY <2>1, <2>2
<1>1. ASSUME UNCHANGED <<tree, dupes>>, downloaded \subseteq downloaded'
      PROVE  OriginsAndRivals'
  BY <1>1 DEF OriginsAndRivals, Rival
<1>2. ASSUME NEW i \in Items, MoveToTree(i) \/ MoveToDupes(i)
      PROVE  OriginsAndRivals'
  BY <1>2, RenameKeepsRivals, DupeFindsRival
<1>3. ASSUME NEW i \in Items, Copied(i)
      PROVE  FALSE
  BY <1>3 DEF TypeOK, Copied
<1>4. ASSUME NEW i \in Items, Download(i) \/ AlreadyPresent(i) \/ Unlink(i)
      PROVE  OriginsAndRivals'
  BY <1>1, <1>4 DEF Download, AlreadyPresent, Unlink
<1>5. CASE Begin \/ End \/ Crash \/ UNCHANGED vars
  BY <1>1, <1>5 DEF Begin, End, Crash, vars
<1> QED BY <1>2, <1>3, <1>4, <1>5 DEF Next, Organizing, Idle

\* On one file system only a true collision sends a file to dupes: another file
\* with other bytes has its path.
THEOREM OnlyRivalsMakeDupes == Spec => []DupesHaveRivals
<1>1. Init => OriginsAndRivals
  BY DEF Init, OriginsAndRivals
<1>2. OriginsAndRivals => DupesHaveRivals
  BY DEF OriginsAndRivals, Rival, DupesHaveRivals
<1>3. Inv => TypeOK
  BY DEF Inv
<1> QED BY <1>1, <1>2, <1>3, InvAlways, RivalsStep, PTL DEF Spec
=============================================================================
