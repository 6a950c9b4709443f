---------------------------- MODULE UnpackProofs ----------------------------
(***************************************************************************)
(* What holds of Unpack for every set of names, archives, trees and        *)
(* options: the tree below dest stays a tree, with NoOverwriteDirNonDir no *)
(* directory is lost and no file becomes one, and when all went well each  *)
(* listed directory has the time of its header.  That holds whatever links *)
(* the tree and the entries make, whatever other processes remove and      *)
(* whichever operation fails.  Last, Unpack without a converter implements *)
(* LayerView.                                                              *)
(***************************************************************************)
EXTENDS Unpack, TreeProofs

(***************************************************************************)
(* The inductive invariant.  A whiteout's header is one but for its name,  *)
(* which may be what it hides; only the overlay format has such entries,   *)
(* and none of them is created as it is.                                   *)
(***************************************************************************)
EntryIn == [type : EntryType \ {"meta", "plnk", "plink"}, link : LinkType,
            name : Seq(Part \union {Opq}), owner : Nat, time : Nat, by : Nat \ {0}]

Trees == IsTree(tree) /\ IsTree(base) /\ IsTree(lower)

CallOK ==
    /\ opaque \subseteq Nat \X Nat
    /\ archive \subseteq HeaderIn
    /\ ~Converts => \A h \in archive : h.type \notin ConvertedType

EntryOK ==
    /\ pc \in {"read", "clear", "remap", "implied", "convert", "chown", "create",
               "times", "done"}
    /\ Parent \in Seq(Name)
    /\ InEntry => /\ hdr \in EntryIn /\ hdr.by = n
                  /\ dst.path \in Seq(Part \union {Opq}) /\ dst.path # << >>
                  /\ hdr.type # "white" => hdr \in Header
                  /\ hdr.type \in ConvertedType => Converts
                  /\ hdr.type \notin ConvertedType => dst.path \in Seq(Name)
    /\ pc = "create" => hdr.type \notin ConvertedType
    /\ pc \in {"clear", "remap"} => k = 0

CountersOK ==
    /\ n \in 0..MaxEntries
    /\ k \in Nat
    /\ dirs \in Seq([name : Seq(Name), time : Nat])
    /\ removals \in 0..MaxRemovals

(***************************************************************************)
(* DirsKept needs Kept: a directory is made only where nothing was when    *)
(* the entry was read.  Only an entry that is no directory takes something *)
(* away first, and then its parent is there, so that no directory is made  *)
(* on the way to it.  That is so because the path resolved as in a chroot  *)
(* goes through no link: what was removed is no directory, so it is not    *)
(* what the parent lies below.                                             *)
(***************************************************************************)
AllThere == DOMAIN base \subseteq DOMAIN tree

Kept ==
    options.NoOverwriteDirNonDir =>
        /\ pc = "clear" => tree = base /\ (~dst.parentWasPresent => NoLinks(tree, Parent))
        /\ pc = "remap" \/ (pc = "implied" /\ k = 0) =>
              AllThere \/ (hdr.type # "dir" /\ ParentThere)
        /\ pc = "implied" /\ k > 0 => AllThere
        /\ pc = "create" /\ hdr.type = "dir" => AllThere

IInv == Trees /\ CallOK /\ EntryOK /\ CountersOK /\ DirsKept /\ Kept

(***************************************************************************)
(* DirTimesRestored needs more.  What the time of one directory is set on  *)
(* is an inode, so a directory needs an inode of its own (Numbered): an    *)
(* entry makes nodes of its number, each at another depth.  That is so     *)
(* because the directories on the way lie on a path without links          *)
(* (Direct), one below the other.  Then a time set stays, as the names of  *)
(* the directories lead where they led before (Restored).                  *)
(***************************************************************************)
MayMake == pc \in {"clear", "remap", "implied", "convert", "create"}

Numbered == pc # "done" => Numbers(tree, n) /\ (MayMake => Shallow(tree, n, k))

Direct ==
    /\ MayMake /\ ~dst.parentWasPresent => NoLinks(tree, Parent)
    /\ MayMake /\ k > 0 => ~dst.parentWasPresent
    /\ pc = "implied" => k <= Len(Parent)
    /\ pc \in {"convert", "create"} /\ k > 0 => k = Len(Parent) + 1

LeadsTo(i) == Stat(tree, dirs[i].name).at

Settled(i) ==
    (IsDir(tree, LeadsTo(i)) /\ \A j \in DOMAIN dirs \ {i} : LeadsTo(j) # LeadsTo(i)) =>
        tree[LeadsTo(i)].time = dirs[i].time

Restored ==
    /\ pc = "times" \/ (pc = "done" /\ err = "ok") => \A i \in DOMAIN dirs : i < k => Settled(i)
    /\ pc = "done" /\ err = "ok" => k > Len(dirs)

TimesInv == Numbered /\ Direct /\ Restored

\* The inductive invariant has the type invariant in it.
LEMMA TypeImplied == IInv => TypeOK
  BY DEF IInv, Trees, CallOK, EntryOK, CountersOK, TypeOK

-----------------------------------------------------------------------------
(* The entry: what the ways to leave a step make of it. *)

\* Between entries there is no path.
LEMMA NoPathType == NoPath.path = << >> /\ Front(NoPath.path) = << >>
  BY DEF NoPath, Resolved, Front

\* The next entry starts without a path.
LEMMA ContinueEntry ==
    ASSUME Continue
    PROVE  EntryOK' /\ Kept' /\ k' = 0
  <1>1. dst'.path = << >> /\ Front(dst'.path) = << >> /\ << >> \in Seq(Name)
    BY NoPathType DEF Continue
  <1>2. pc' = "read" /\ k' = 0
    BY DEF Continue
  <1>3. QED
    BY <1>1, <1>2 DEF EntryOK, InEntry, Parent, Kept

\* An error return keeps the path, which nothing uses any more.
LEMMA ReturnEntry ==
    ASSUME EntryOK, NEW e, Return(e), dst' = dst
    PROVE  EntryOK' /\ Kept'
  BY DEF Return, EntryOK, InEntry, Parent, Kept

\* The call stays what it is.
LEMMA CallKept ==
    ASSUME CallOK, UNCHANGED <<call, opaque, archive>>
    PROVE  CallOK' /\ lower' = lower /\ options' = options
  BY DEF CallOK, Converts, call

\* The parent of an entry's path is made of parts, so it can be looked up.
LEMMA PathParts ==
    ASSUME EntryOK
    PROVE  Front(dst.path) \in Seq(Part) /\ Front(dst.path) \in Seq(Name)
  BY DEF EntryOK, Parent, Part

-----------------------------------------------------------------------------
(* What the steps on the tree do to the directories that were there. *)

\* A call that only adds nodes adds no directory where something was.
LEMMA DirsKeptGrown ==
    ASSUME DirsKept, UNCHANGED <<base, options>>, NEW kinds, Grown(tree, tree', kinds),
           options.NoOverwriteDirNonDir => AllThere \/ "dir" \notin kinds
    PROVE  /\ DirsKept'
           /\ AllThere => AllThere'
  <1>1. AllThere => AllThere'
    BY DEF AllThere, Grown
  <1>2. ASSUME options.NoOverwriteDirNonDir, NEW p \in DOMAIN base
        PROVE  /\ IsDir(base, p) => IsDir(tree', p)
               /\ ~IsDir(base, p) => ~IsDir(tree', p)
    <2>1. /\ IsDir(base, p) => IsDir(tree, p)
          /\ ~IsDir(base, p) => ~IsDir(tree, p)
      BY <1>2 DEF DirsKept
    <2>2. p \notin DOMAIN tree => "dir" \notin kinds
      BY <1>2 DEF AllThere
    <2>3. QED
      BY <2>1, <2>2 DEF Grown, IsDir, Exists
  <1>3. DirsKept'
    BY <1>2 DEF DirsKept
  <1>4. QED
    BY <1>1, <1>3

\* Removing a node that is no directory takes nothing else away.
LEMMA FileRemoved ==
    ASSUME IsTree(tree), NEW at \in DOMAIN tree, ~IsDir(tree, at),
           CutAt(tree, at, tree')
    PROVE  \A p \in DOMAIN tree \ {at} : p \in DOMAIN tree' /\ tree'[p].kind = tree[p].kind
  <1>1. at \in Seq(Name)
    BY TreePaths
  <1>2. ASSUME NEW p \in DOMAIN tree \ {at} PROVE ~Under(at, p)
    BY <1>1, PrefixThere
  <1>3. QED
    BY <1>2 DEF CutAt

\* So no directory is lost with it.
LEMMA DirsKeptRemoved ==
    ASSUME DirsKept, UNCHANGED <<base, options>>, IsTree(tree),
           NEW at \in DOMAIN tree, options.NoOverwriteDirNonDir => ~IsDir(tree, at),
           CutAt(tree, at, tree')
    PROVE  DirsKept'
  <1>1. ASSUME options.NoOverwriteDirNonDir, NEW p \in DOMAIN base
        PROVE  /\ IsDir(base, p) => IsDir(tree', p)
               /\ ~IsDir(base, p) => ~IsDir(tree', p)
    <2>1. /\ IsDir(base, p) => IsDir(tree, p)
          /\ ~IsDir(base, p) => ~IsDir(tree, p)
      BY <1>1 DEF DirsKept
    <2>2. IsDir(tree, p) => p # at
      BY <1>1
    <2>3. IsDir(tree, p) => IsDir(tree', p)
      BY <1>1, <2>2, FileRemoved DEF IsDir, Exists
    <2>4. IsDir(tree', p) => IsDir(tree, p)
      BY DEF CutAt, IsDir, Exists
    <2>5. QED
      BY <2>1, <2>3, <2>4
  <1>2. QED
    BY <1>1 DEF DirsKept

-----------------------------------------------------------------------------
(* Reading an entry. *)

\* An entry of the archive that is neither the root's nor refused.
LEMMA ReadHeader ==
    ASSUME NEW h \in HeaderIn, h.name # << >>, Head(h.name) # Up
    PROVE  /\ h.type \in EntryType \ {"meta", "plnk", "plink"}
           /\ h.link \in LinkType /\ h.owner \in Nat
           /\ h.name \in Seq(Part \union {Opq}) /\ Front(h.name) \in Seq(Name)
           /\ h.type \notin ConvertedType => h.name \in Seq(Name)
           /\ h.type # "white" => h.name \in EntryName
  <1>1. /\ h.type \in EntryType \ {"meta", "plnk", "plink"}
        /\ h.link \in LinkType /\ h.owner \in Nat
        /\ h.name \in Seq(Part \union {Opq})
        /\ Front(h.name) \in Seq(Name)
        /\ h.type = "opaque" => Last(h.name) = Opq
        /\ h.type \notin ConvertedType => Last(h.name) \in Name
    BY DEF HeaderIn, ConvertedType
  <1>2. PICK dir, last : dir \in Seq(Name) /\ dir = Front(h.name) /\ last = Last(h.name)
    BY <1>1
  <1>3. h.name = Append(dir, last)
    BY <1>1, <1>2, FrontLast
  <1>4. h.type \notin ConvertedType => h.name \in Seq(Name)
    BY <1>1, <1>2, <1>3, FrontAppend
  <1>5. h.type # "white" => h.name \in EntryName
    <2>1. SUFFICES ASSUME h.type # "white" PROVE h.name \in Seq(Name \union {Opq})
      BY <1>1 DEF EntryName
    <2>2. dir \in Seq(Name \union {Opq}) /\ last \in Name \union {Opq}
      BY <1>1, <1>2, <2>1 DEF ConvertedType
    <2>3. QED
      BY <1>3, <2>2, FrontAppend
  <1>6. QED
    BY <1>1, <1>4, <1>5

\* The entry's header, and the path it resolves to.
LEMMA ReadEntry ==
    ASSUME IsTree(tree), CallOK, n \in Nat, NEW h \in archive, h.name # << >>,
           Head(h.name) # Up, NEW r, r = resolveArchivePath(tree, h.name), r.err = "ok",
           tree' = tree, base' = tree, UNCHANGED call, n' = n + 1,
           hdr' = Entry(h), dst' = r, k' = 0, pc' = "clear"
    PROVE  EntryOK' /\ Kept'
  <1>1. h \in HeaderIn /\ (h.type \in ConvertedType => Converts)
    BY DEF CallOK
  <1>2. /\ h.type \in EntryType \ {"meta", "plnk", "plink"}
        /\ h.link \in LinkType /\ h.owner \in Nat
        /\ h.name \in Seq(Part \union {Opq}) /\ Front(h.name) \in Seq(Name)
        /\ h.type \notin ConvertedType => h.name \in Seq(Name)
        /\ h.type # "white" => h.name \in EntryName
    BY <1>1, ReadHeader
  <1>3. /\ hdr' \in EntryIn /\ hdr'.by = n' /\ hdr'.type = h.type
        /\ hdr'.type # "white" => hdr' \in Header
    <2>1. n + 1 \in Nat /\ n + 1 \in Nat \ {0}
      OBVIOUS
    <2>2. QED
      BY <1>2, <2>1 DEF Entry, EntryIn, Header
  <1>4. Front(h.name) \in Seq(Part) /\ Name \subseteq Part \union {Opq}
    BY <1>2 DEF Part
  <1>5. r.path \in Seq(Part \union {Opq}) /\ r.path # << >> /\ Front(r.path) \in Seq(Name)
    BY <1>2, <1>4, ResolvedType
  <1>6. h.type \notin ConvertedType => r.path \in Seq(Name)
    BY <1>2, <1>4, ResolvedType
  <1>7. ~r.parentWasPresent => NoLinks(tree, Front(r.path))
    BY <1>2, <1>4, ResolvedNoLink
  <1>8. Converts' = Converts
    BY DEF Converts, call
  <1>9. EntryOK'
    BY <1>1, <1>3, <1>5, <1>6, <1>8 DEF EntryOK, InEntry, Parent
  <1>10. Kept'
    BY <1>7 DEF Kept, Parent
  <1>11. QED
    BY <1>9, <1>10

\* Reading an entry: it is passed over, refused, or resolved.
LEMMA ReadStep == ASSUME IInv, NEW h \in archive, Read(h) PROVE IInv'
  <1>0. Trees /\ CallOK /\ EntryOK /\ CountersOK
    BY DEF IInv
  <1>1. /\ n < MaxEntries /\ n' = n + 1 /\ archive' = Remaining(h) /\ base' = tree
        /\ UNCHANGED <<tree, opaque, call, dirs, removals>>
    BY DEF Read
  <1>. DEFINE r == resolveArchivePath(tree, h.name)
  <1>2. \/ Continue
        \/ \E e : Return(e) /\ UNCHANGED entry
        \/ /\ h.name # << >> /\ Head(h.name) # Up /\ r.err = "ok"
           /\ hdr' = Entry(h) /\ dst' = r /\ k' = 0 /\ pc' = "clear"
    BY DEF Read, Skipped
  <1>. HIDE DEF r
  <1>3. n \in Nat /\ n' \in 0..MaxEntries
    BY <1>0, <1>1, UnpackAssumption DEF CountersOK
  <1>4. EntryOK' /\ Kept' /\ k' \in Nat
    <2>1. CASE Continue
      BY <2>1, ContinueEntry
    <2>2. CASE \E e : Return(e) /\ UNCHANGED entry
      <3>1. UNCHANGED <<dst, k>>
        BY <2>2 DEF entry
      <3>2. QED
        BY <1>0, <2>2, <3>1, ReturnEntry DEF CountersOK
    <2>3. CASE /\ h.name # << >> /\ Head(h.name) # Up /\ r.err = "ok"
               /\ hdr' = Entry(h) /\ dst' = r /\ k' = 0 /\ pc' = "clear"
      BY <1>0, <1>1, <1>3, <2>3, ReadEntry DEF Trees, r
    <2>4. QED
      BY <1>2, <2>1, <2>2, <2>3
  <1>5. CallOK' /\ Trees'
    <2>1. archive' \subseteq archive
      BY <1>1 DEF Remaining
    <2>2. lower' = lower /\ options' = options
      BY <1>1 DEF call
    <2>3. QED
      BY <1>0, <1>1, <2>1, <2>2 DEF CallOK, Trees, Converts
  <1>6. DirsKept'
    BY <1>1 DEF DirsKept
  <1>7. CountersOK'
    BY <1>0, <1>1, <1>3, <1>4 DEF CountersOK
  <1>8. QED
    BY <1>4, <1>5, <1>6, <1>7 DEF IInv

\* The end of the archive.
LEMMA EndStep == ASSUME IInv, EndOfArchive PROVE IInv'
  <1>0. Trees /\ CallOK /\ EntryOK /\ CountersOK /\ DirsKept
    BY DEF IInv
  <1>1. /\ pc' = "times" /\ k' = 1
        /\ UNCHANGED <<tree, opaque, call, archive, base, hdr, dst, n, dirs, removals>>
    BY DEF EndOfArchive
  <1>2. CallOK' /\ Trees' /\ options' = options
    BY <1>0, <1>1, CallKept DEF Trees
  <1>3. EntryOK' /\ Kept' /\ CountersOK' /\ DirsKept'
    BY <1>0, <1>1, <1>2 DEF EntryOK, InEntry, Parent, Kept, CountersOK, DirsKept
  <1>4. QED
    BY <1>2, <1>3 DEF IInv

-----------------------------------------------------------------------------
(* Making room for the entry. *)

\* What Clear removes: what Lstat finds in the entry's place, where Lstat and
\* RemoveAll find the same.
RemovesThere(at) ==
    /\ There.err = "ok" /\ at = There.at /\ at \in DOMAIN tree /\ at # << >>
    /\ MayOverwrite(There) /\ ~(IsDir(tree, at) /\ hdr.type = "dir")
    /\ hdr.type \notin ConvertedType
    /\ Locate(tree, dst.path).err = "ok"

\* With NoOverwriteDirNonDir that is no directory, and neither is the entry.
LEMMA RemovesNoDir ==
    ASSUME NEW at, RemovesThere(at), options.NoOverwriteDirNonDir
    PROVE  ~IsDir(tree, at) /\ hdr.type # "dir"
  BY DEF RemovesThere, MayOverwrite

\* What may be removed is there and is not the root.
LEMMA ThereType ==
    ASSUME Trees, EntryOK, InEntry, There.err = "ok"
    PROVE  /\ There.at \in DOMAIN tree /\ There.at # << >>
           /\ hdr.type \notin ConvertedType
           /\ There = Locate(tree, dst.path)
  <1>1. dst.path # << >> /\ Front(dst.path) \in Seq(Part)
    BY PathParts DEF EntryOK
  <1>2. There = Lstat(tree, dst.path) /\ hdr.type \notin ConvertedType
    BY DEF There, At
  <1>3. There.at \in DOMAIN tree /\ There.at # << >>
    BY <1>1, <1>2, LstatType DEF Trees
  <1>. DEFINE l == Locate(tree, dst.path)
  <1>4. There = IfThere(tree, l)
    BY <1>1, <1>2 DEF Lstat
  <1>. HIDE DEF l
  <1>5. There = l
    BY <1>4 DEF IfThere, At
  <1>6. QED
    BY <1>2, <1>3, <1>5 DEF l

\* Clear changes nothing, or removes one node.
LEMMA ClearOutcome ==
    ASSUME Trees, EntryOK, pc = "clear", NEW out, out = Cleared(There)
    PROVE  \/ out.tree = tree
           \/ \E at : RemovesThere(at) /\ out.tree = RemoveTree(tree, at, Clock)
  <1>1. CASE /\ There.err = "ok" /\ MayOverwrite(There)
             /\ ~(IsDir(tree, There.at) /\ hdr.type = "dir")
    <2>1. out = RemoveAll(tree, dst.path)
      BY <1>1 DEF Cleared
    <2>. DEFINE l == Locate(tree, dst.path)
    <2>2. l = There /\ There.at \in DOMAIN tree /\ There.at # << >>
          /\ hdr.type \notin ConvertedType
      BY <1>1, ThereType DEF InEntry
    <2>3. \/ out.tree = tree
          \/ out.tree = RemoveTree(tree, l.at, Clock)
      BY <2>1, PathParts, RemoveAllType DEF Trees
    <2>4. RemovesThere(There.at)
      BY <1>1, <2>2 DEF RemovesThere
    <2>. HIDE DEF l
    <2>5. QED
      BY <2>2, <2>3, <2>4
  <1>2. CASE ~(/\ There.err = "ok" /\ MayOverwrite(There)
               /\ ~(IsDir(tree, There.at) /\ hdr.type = "dir"))
    BY <1>2 DEF Cleared, Outcome
  <1>3. QED
    BY <1>1, <1>2

\* An entry whose place is emptied still has its parent, so that no directory is
\* made for it.
LEMMA ParentStays ==
    ASSUME Trees, EntryOK, pc = "clear", options.NoOverwriteDirNonDir,
           ~dst.parentWasPresent => NoLinks(tree, Parent),
           NEW at, RemovesThere(at), CutAt(tree, at, tree'), dst' = dst
    PROVE  ParentThere'
  <1>1. SUFFICES ASSUME ~dst.parentWasPresent, Parent # << >>
                 PROVE  Lstat(tree', Parent).err = "ok"
    BY DEF ParentThere, Parent
  <1>2. Parent \in Seq(Name) /\ NoLinks(tree, Parent)
    BY <1>1 DEF EntryOK
  <1>3. DirOf(tree, Parent).err = "ok"
    BY DEF RemovesThere, Locate, Inside, Parent, At
  <1>4. IsDir(tree, Parent)
    BY <1>2, <1>3, DirOfNoLink DEF Trees
  <1>5. ~IsDir(tree, at) /\ at \in DOMAIN tree
    BY RemovesNoDir DEF RemovesThere
  <1>6. Parent \in DOMAIN tree'
    <2>1. Parent \in DOMAIN tree \ {at}
      BY <1>4, <1>5 DEF IsDir, Exists
    <2>2. QED
      BY <1>5, <2>1, FileRemoved DEF Trees
  <1>7. Front(Parent) \in Seq(Part)
    <2>1. Front(Parent) \in Seq(Name)
      BY <1>1, <1>2, FrontProperties
    <2>2. QED
      BY <2>1 DEF Part
  <1>8. IsTree(tree')
    BY DEF CutAt
  <1>9. PICK l : l = Lstat(tree', Parent)
    OBVIOUS
  <1>10. l = At("ok", Parent)
    BY <1>6, <1>7, <1>8, <1>9, LstatType
  <1>11. QED
    BY <1>9, <1>10 DEF At

\* A subtree removed, which is not the root.
LEMMA Removal ==
    ASSUME IsTree(tree), NEW at \in DOMAIN tree, at # << >>,
           tree' = RemoveTree(tree, at, Clock)
    PROVE  CutAt(tree, at, tree')
  <1>1. PICK left : left = tree'
    OBVIOUS
  <1>2. CutAt(tree, at, left)
    BY <1>1, RemovedType
  <1>3. QED
    BY <1>1, <1>2

\* Making room for the entry.
LEMMA ClearStep == ASSUME IInv, Clear PROVE IInv'
  <1>0. Trees /\ CallOK /\ EntryOK /\ CountersOK /\ DirsKept /\ Kept /\ pc = "clear"
    BY DEF IInv, Clear
  <1>. DEFINE out == Cleared(There)
  <1>1. /\ tree' = out.tree
        /\ \/ pc' = "remap"
           \/ pc' = "done"
        /\ UNCHANGED <<entry, opaque, call, archive, base, n, dirs, removals>>
    BY DEF Clear, Then, Return
  <1>2. \/ tree' = tree
        \/ \E at : RemovesThere(at) /\ tree' = RemoveTree(tree, at, Clock)
    BY <1>0, <1>1, ClearOutcome
  <1>. HIDE DEF out
  <1>3. CallOK' /\ lower' = lower /\ options' = options /\ UNCHANGED <<hdr, dst, k>>
    BY <1>0, <1>1, CallKept DEF entry
  <1>4. EntryOK' /\ CountersOK'
    BY <1>0, <1>1, <1>3 DEF EntryOK, InEntry, Parent, CountersOK, Converts
  <1>5. CASE tree' = tree
    <2>1. Trees' /\ DirsKept'
      BY <1>0, <1>1, <1>3, <1>5 DEF Trees, DirsKept
    <2>2. Kept'
      BY <1>0, <1>1, <1>3, <1>5 DEF Kept, AllThere
    <2>3. QED
      BY <1>3, <1>4, <2>1, <2>2 DEF IInv
  <1>6. CASE \E at : RemovesThere(at) /\ tree' = RemoveTree(tree, at, Clock)
    <2>1. PICK at : RemovesThere(at) /\ tree' = RemoveTree(tree, at, Clock)
      BY <1>6
    <2>2. at \in DOMAIN tree /\ at # << >>
      BY <2>1 DEF RemovesThere
    <2>3. CutAt(tree, at, tree')
      BY <1>0, <2>1, <2>2, Removal DEF Trees
    <2>4. options.NoOverwriteDirNonDir => ~IsDir(tree, at) /\ hdr.type # "dir"
      BY <2>1, RemovesNoDir
    <2>5. Trees'
      BY <1>0, <1>1, <1>3, <2>3 DEF Trees, CutAt
    <2>6. DirsKept'
      BY <1>0, <1>1, <1>3, <2>2, <2>3, <2>4, DirsKeptRemoved DEF Trees
    <2>7. options.NoOverwriteDirNonDir => ParentThere'
      BY <1>0, <1>3, <2>1, <2>3, ParentStays DEF Kept
    <2>8. Kept'
      BY <1>1, <1>3, <2>4, <2>7 DEF Kept
    <2>9. QED
      BY <1>3, <1>4, <2>5, <2>6, <2>8 DEF IInv
  <1>7. QED
    BY <1>2, <1>5, <1>6

-----------------------------------------------------------------------------
(* The owner, and the directories on the way. *)

\* Mapping the owner keeps a header a header.
LEMMA RemappedType ==
    ASSUME NEW h \in EntryIn
    PROVE  /\ remapIDs(h) \in EntryIn
           /\ remapIDs(h).type = h.type /\ remapIDs(h).by = h.by
           /\ h \in Header => remapIDs(h) \in Header
  <1>1. h.owner \in Nat
    BY DEF EntryIn
  <1>2. ToHost(h.owner) \in Nat
    BY <1>1, ExtractAssumption DEF ToHost
  <1>3. /\ remapIDs(h) \in EntryIn
        /\ remapIDs(h).type = h.type /\ remapIDs(h).by = h.by
    BY <1>2 DEF EntryIn, remapIDs
  <1>4. h \in Header => remapIDs(h) \in Header
    BY <1>2, HeaderExcept DEF remapIDs
  <1>5. QED
    BY <1>3, <1>4

\* Mapping the owner.
LEMMA RemapStep == ASSUME IInv, Remap PROVE IInv'
  <1>0. Trees /\ CallOK /\ EntryOK /\ CountersOK /\ DirsKept /\ Kept /\ pc = "remap"
    BY DEF IInv, Remap
  <1>1. /\ UNCHANGED <<tree, opaque, call, archive, base, dst, k, n, dirs, removals>>
        /\ \/ hdr' = remapIDs(hdr) /\ pc' = "implied"
           \/ hdr' = hdr /\ pc' = "done"
    BY DEF Remap, Return
  <1>2. CallOK' /\ Trees' /\ options' = options
    BY <1>0, <1>1, CallKept DEF Trees
  <1>3. CountersOK' /\ DirsKept'
    BY <1>0, <1>1, <1>2 DEF CountersOK, DirsKept
  <1>4. CASE hdr' = remapIDs(hdr) /\ pc' = "implied"
    <2>1. hdr \in EntryIn
      BY <1>0 DEF EntryOK, InEntry
    <2>2. /\ hdr' \in EntryIn /\ hdr'.type = hdr.type /\ hdr'.by = hdr.by
          /\ hdr \in Header => hdr' \in Header
      BY <1>4, <2>1, RemappedType
    <2>3. EntryOK'
      BY <1>0, <1>1, <1>2, <1>4, <2>2 DEF EntryOK, InEntry, Parent, Converts
    <2>4. ParentThere' = ParentThere /\ AllThere' = AllThere /\ k = 0
      BY <1>0, <1>1 DEF ParentThere, Parent, AllThere, EntryOK
    <2>5. Kept'
      BY <1>0, <1>1, <1>2, <1>4, <2>2, <2>4 DEF Kept
    <2>6. QED
      BY <1>2, <1>3, <2>3, <2>5 DEF IInv
  <1>5. CASE hdr' = hdr /\ pc' = "done"
    <2>1. EntryOK' /\ Kept'
      BY <1>0, <1>1, <1>5 DEF EntryOK, InEntry, Parent, Kept
    <2>2. QED
      BY <1>2, <1>3, <2>1 DEF IInv
  <1>6. QED
    BY <1>1, <1>4, <1>5

\* After the directories the entry is converted, or made if it is no whiteout.
LEMMA AfterImpliedType ==
    ASSUME EntryOK, pc = "implied"
    PROVE  /\ AfterImplied \in {"convert", "create"}
           /\ AfterImplied = "create" => hdr.type \notin ConvertedType
  BY DEF AfterImplied, EntryOK, InEntry

\* Whether the parent is there.
LEMMA StartImpliedStep == ASSUME IInv, StartImplied PROVE IInv'
  <1>0. /\ Trees /\ CallOK /\ EntryOK /\ CountersOK /\ DirsKept /\ Kept
        /\ pc = "implied" /\ k = 0
    BY DEF IInv, StartImplied
  <1>1. /\ UNCHANGED <<tree, opaque, call, archive, base, hdr, dst, n, dirs, removals>>
        /\ \/ ParentThere /\ pc' = AfterImplied /\ k' = k
           \/ ~ParentThere /\ pc' = pc /\ k' = 1
           \/ pc' = "done" /\ k' = k
    BY DEF StartImplied, Return
  <1>2. CallOK' /\ Trees' /\ options' = options
    BY <1>0, <1>1, CallKept DEF Trees
  <1>3. CountersOK' /\ DirsKept'
    BY <1>0, <1>1, <1>2 DEF CountersOK, DirsKept
  <1>4. /\ pc' \in {"implied", "convert", "create", "done"}
        /\ pc' = "create" => hdr.type \notin ConvertedType
    BY <1>0, <1>1, AfterImpliedType
  <1>5. EntryOK'
    BY <1>0, <1>1, <1>2, <1>4 DEF EntryOK, InEntry, Parent, Converts
  <1>6. AllThere' = AllThere
    BY <1>1 DEF AllThere
  <1>7. ASSUME options.NoOverwriteDirNonDir
        PROVE  /\ pc' \notin {"clear", "remap"} /\ (pc' = "implied" => k' > 0)
               /\ pc' = "implied" => AllThere
               /\ pc' = "create" /\ hdr.type = "dir" => AllThere
    <2>1. AllThere \/ (hdr.type # "dir" /\ ParentThere)
      BY <1>0, <1>7 DEF Kept
    <2>2. AfterImplied # "implied"
      BY <1>0, AfterImpliedType
    <2>3. pc' = "implied" => ~ParentThere /\ k' = 1
      BY <1>1, <2>2
    <2>4. pc' \notin {"clear", "remap"}
      BY <1>4
    <2>5. pc' = "implied" => k' > 0
      BY <2>3
    <2>6. QED
      BY <2>1, <2>3, <2>4, <2>5
  <1>8. Kept'
    BY <1>1, <1>2, <1>6, <1>7 DEF Kept
  <1>9. QED
    BY <1>2, <1>3, <1>5, <1>8 DEF IInv

\* The parents of a path's parent are paths.
LEMMA ImpliedPath ==
    ASSUME EntryOK, k \in 1..Len(Parent)
    PROVE  Front(SubSeq(Parent, 1, k)) \in Seq(Part)
  <1>1. PICK path \in Seq(Part) : path = Parent
    BY DEF EntryOK, Part
  <1>2. PICK j \in 1..Len(path) : j = k
    BY <1>1
  <1>3. SubSeq(path, 1, j) \in Seq(Part) /\ Len(SubSeq(path, 1, j)) = j
    OBVIOUS
  <1>4. PICK cur \in Seq(Part) : cur = SubSeq(path, 1, j) /\ cur # << >>
    <2>1. j > 0 /\ Len(<< >>) = 0
      BY <1>2
    <2>2. SubSeq(path, 1, j) # << >>
      BY <1>3, <2>1
    <2>3. QED
      BY <1>3, <2>2
  <1>5. QED
    BY <1>1, <1>2, <1>4, FrontProperties

\* The Mkdir of one parent directory.
LEMMA MakeImpliedStep == ASSUME IInv, MakeImplied PROVE IInv'
  <1>0. /\ Trees /\ CallOK /\ EntryOK /\ CountersOK /\ DirsKept /\ Kept
        /\ pc = "implied" /\ k \in 1..Len(Parent)
    BY DEF IInv, MakeImplied
  <1>. DEFINE cur == SubSeq(Parent, 1, k)
              out == mkdirImplied(tree, cur, hdr)
  <1>1. /\ tree' = out.tree
        /\ UNCHANGED <<hdr, dst, opaque, call, archive, base, n, dirs, removals>>
        /\ \/ k' = k + 1 /\ pc' \in {pc, AfterImplied}
           \/ k' = k /\ pc' = "done"
    BY DEF MakeImplied, Then, Return, entry
  <1>2. Extracted(tree, tree') /\ Grown(tree, tree', {"dir"})
    <2>1. Front(cur) \in Seq(Part)
      BY <1>0, ImpliedPath
    <2>2. hdr.by \in Nat \ {0}
      BY <1>0 DEF EntryOK, InEntry, EntryIn
    <2>. HIDE DEF cur
    <2>3. Extracted(tree, out.tree) /\ Grown(tree, out.tree, {"dir"})
      BY <1>0, <2>1, <2>2, ImpliedType DEF Trees
    <2>4. QED
      BY <1>1, <2>3
  <1>. HIDE DEF out, cur
  <1>3. CallOK' /\ Trees' /\ options' = options
    BY <1>0, <1>1, <1>2, CallKept DEF Trees, Extracted
  <1>4. k \in Nat /\ k > 0 /\ k' \in Nat /\ k' > 0
    <2>1. k \in Nat /\ k > 0
      <3>1. Len(Parent) \in Nat
        BY <1>0 DEF EntryOK
      <3>2. QED
        BY <1>0, <3>1
    <2>2. QED
      BY <1>1, <2>1
  <1>5. CountersOK'
    BY <1>0, <1>1, <1>4 DEF CountersOK
  <1>6. /\ pc' \in {"implied", "convert", "create", "done"}
        /\ pc' = "create" => hdr.type \notin ConvertedType
    BY <1>0, <1>1, AfterImpliedType
  <1>7. EntryOK'
    BY <1>0, <1>1, <1>3, <1>6 DEF EntryOK, InEntry, Parent, Converts
  <1>8. options.NoOverwriteDirNonDir => AllThere
    BY <1>0, <1>4 DEF Kept
  <1>9. DirsKept' /\ (AllThere => AllThere')
    BY <1>0, <1>1, <1>2, <1>3, <1>8, DirsKeptGrown
  <1>10. Kept'
    BY <1>1, <1>3, <1>4, <1>6, <1>8, <1>9 DEF Kept
  <1>11. QED
    BY <1>3, <1>5, <1>7, <1>9, <1>10 DEF IInv

-----------------------------------------------------------------------------
(* Whiteouts. *)

\* The directory a whiteout lies in is opened through whatever links lead there.
LEMMA OpenedType ==
    ASSUME Trees, EntryOK, Opened.err = "ok"
    PROVE  Opened.at \in DOMAIN tree
  <1>. DEFINE stat == Stat(tree, Parent)
  <1>1. stat.at \in DOMAIN tree
    BY PathParts, StatType DEF Trees, Parent
  <1>2. Opened = Open(stat)
    BY DEF Opened
  <1>. HIDE DEF stat
  <1>3. Opened = stat
    BY <1>2 DEF Open, At
  <1>4. QED
    BY <1>1, <1>3

\* A step after which the call goes on to the next entry, or returns, or keeps the
\* entry as it is on the way to a chown.
LEMMA LeaveEntry ==
    ASSUME EntryOK, CountersOK, options' = options, InEntry,
           UNCHANGED <<n, dirs, removals>>,
           \/ Continue
           \/ \E e : Return(e) /\ UNCHANGED entry
           \/ pc' = "chown" /\ UNCHANGED entry
    PROVE  EntryOK' /\ CountersOK' /\ Kept'
  <1>1. CASE Continue
    BY <1>1, ContinueEntry DEF CountersOK
  <1>2. CASE \E e : Return(e) /\ UNCHANGED entry
    <2>1. UNCHANGED <<dst, k>>
      BY <1>2 DEF entry
    <2>2. QED
      BY <1>2, <2>1, ReturnEntry DEF CountersOK
  <1>3. CASE pc' = "chown" /\ UNCHANGED entry
    <2>1. UNCHANGED <<hdr, dst, k>>
      BY <1>3 DEF entry
    <2>2. QED
      BY <1>3, <2>1 DEF EntryOK, InEntry, Parent, Converts, CountersOK, Kept
  <1>4. QED
    BY <1>1, <1>2, <1>3

\* Marking a directory opaque.
LEMMA MarkOpaqueStep == ASSUME IInv, MarkOpaque PROVE IInv'
  <1>0. Trees /\ CallOK /\ EntryOK /\ CountersOK /\ DirsKept /\ pc = "convert"
    BY DEF IInv, MarkOpaque
  <1>1. /\ UNCHANGED <<tree, call, archive, base, n, dirs, removals>>
        /\ \/ /\ Opened.err = "ok" /\ opaque' = opaque \union {tree[Opened.at].ino}
              /\ Continue
           \/ (\E e : Return(e)) /\ UNCHANGED <<opaque, entry>>
    BY DEF MarkOpaque
  <1>2. options' = options /\ lower' = lower
    BY <1>1 DEF call
  <1>3. EntryOK' /\ CountersOK' /\ Kept'
    <2>1. Continue \/ \E e : Return(e) /\ UNCHANGED entry
      BY <1>1
    <2>2. QED
      BY <1>0, <1>1, <1>2, <2>1, LeaveEntry DEF InEntry
  <1>4. opaque' \subseteq Nat \X Nat
    <2>1. Opened.err = "ok" => tree[Opened.at].ino \in Nat \X Nat
      <3>1. SUFFICES ASSUME Opened.err = "ok" PROVE tree[Opened.at].ino \in Nat \X Nat
        OBVIOUS
      <3>2. tree[Opened.at] \in NodeType
        BY <1>0, <3>1, OpenedType, TreePaths DEF Trees
      <3>3. QED
        BY <3>2 DEF NodeType
    <2>2. QED
      BY <1>0, <1>1, <2>1 DEF CallOK
  <1>5. CallOK'
    BY <1>0, <1>1, <1>2, <1>4 DEF CallOK, Converts
  <1>6. Trees' /\ DirsKept'
    BY <1>0, <1>1, <1>2 DEF Trees, DirsKept
  <1>7. QED
    BY <1>3, <1>5, <1>6 DEF IInv

\* A whiteout is made in a directory of the tree, and is no directory.
LEMMA MknodType ==
    ASSUME Trees, EntryOK, InEntry, NEW name, NEW out, out = Mknod(InOpened(name))
    PROVE  IsTree(out.tree) /\ Grown(tree, out.tree, {"wh"})
  <1>. DEFINE l == InOpened(name)
  <1>1. Located(tree, l)
    <2>1. ASSUME l.err = "ok"
          PROVE  /\ Opened.err = "ok" /\ IsDir(tree, Opened.at) /\ name \in Name
                 /\ l.at = Append(Opened.at, name)
      BY <2>1 DEF InOpened, Inside, At
    <2>2. Opened.err = "ok" => Opened.at \in Seq(Name)
      BY OpenedType, TreePaths DEF Trees
    <2>. HIDE DEF l
    <2>3. ASSUME l.err = "ok"
          PROVE  l.at \in Seq(Name) /\ Front(l.at) = Opened.at
      <3>1. PICK dir : dir = Opened.at
        OBVIOUS
      <3>2. dir \in Seq(Name) /\ name \in Name /\ l.at = Append(dir, name)
        BY <2>1, <2>2, <2>3, <3>1
      <3>3. QED
        BY <3>1, <3>2, FrontAppend
    <2>4. QED
      BY <2>1, <2>3 DEF Located
  <1>2. out = Mknod(l)
    OBVIOUS
  <1>. HIDE DEF l
  <1>3. CASE l.err = "ok" /\ ~Exists(tree, l.at)
    <2>. DEFINE node == Device
    <2>1. PICK at, put : at = l.at /\ put = out.tree
      OBVIOUS
    <2>2. /\ at \in Seq(Name) /\ at # << >> /\ at \notin DOMAIN tree
          /\ IsDir(tree, Front(at))
      BY <1>1, <1>3, <2>1 DEF Located, Exists
    <2>3. Clock \in Nat
      BY ExtractAssumption
    <2>4. node \in NodeType /\ node.kind = "wh"
      <3>1. hdr.by \in Nat /\ Len(dst.path) \in Nat
        <4>1. hdr \in EntryIn /\ (hdr \in EntryIn => hdr.by \in Nat)
          BY DEF EntryOK, EntryIn
        <4>2. Len(dst.path) \in Nat
          BY DEF EntryOK
        <4>3. QED
          BY <4>1, <4>2
      <3>2. Inode(hdr, dst.path) \in Nat \X Nat
        BY <3>1 DEF Inode
      <3>3. QED
        BY <2>3, <3>1, <3>2 DEF Device, Node, NodeType, Kind, NoLink, LinkType, Process
    <2>5. put = PutNode(tree, at, node, Clock)
      BY <1>2, <1>3, <2>1 DEF Mknod, PutDevice, Outcome
    <2>. HIDE DEF node
    <2>6. PutAt(tree, at, node, put)
      BY <2>2, <2>3, <2>4, <2>5, PutNodeType DEF Trees
    <2>7. QED
      BY <2>1, <2>4, <2>6 DEF PutAt, Grown
  <1>4. CASE ~(l.err = "ok" /\ ~Exists(tree, l.at))
    <2>1. out.tree = tree
      BY <1>2, <1>4 DEF Mknod, Outcome
    <2>2. QED
      BY <2>1, Unchanged DEF Trees
  <1>5. QED
    BY <1>3, <1>4

\* Making a whiteout.
LEMMA MakeWhiteoutStep == ASSUME IInv, MakeWhiteout PROVE IInv'
  <1>0. Trees /\ CallOK /\ EntryOK /\ CountersOK /\ DirsKept /\ pc = "convert" /\ InEntry
    BY DEF IInv, MakeWhiteout, InEntry
  <1>. DEFINE out == Mknod(InOpened(Last(dst.path)))
  <1>1. /\ tree' = out.tree
        /\ UNCHANGED <<opaque, call, archive, base, n, dirs, removals>>
        /\ \/ Continue
           \/ (\E e : Return(e)) /\ UNCHANGED entry
           \/ pc' = "chown" /\ UNCHANGED entry
    BY DEF MakeWhiteout, Then
  <1>2. IsTree(out.tree) /\ Grown(tree, out.tree, {"wh"})
    BY <1>0, MknodType
  <1>. HIDE DEF out
  <1>3. CallOK' /\ Trees' /\ options' = options
    BY <1>0, <1>1, <1>2, CallKept DEF Trees
  <1>4. EntryOK' /\ CountersOK' /\ Kept'
    <2>1. \/ Continue
          \/ \E e : Return(e) /\ UNCHANGED entry
          \/ pc' = "chown" /\ UNCHANGED entry
      BY <1>1
    <2>2. QED
      BY <1>0, <1>1, <1>3, <2>1, LeaveEntry
  <1>5. DirsKept'
    BY <1>0, <1>1, <1>2, <1>3, DirsKeptGrown
  <1>6. QED
    BY <1>3, <1>4, <1>5 DEF IInv

\* Giving a whiteout its owner.
LEMMA ChownStep == ASSUME IInv, ChownWhiteout PROVE IInv'
  <1>0. Trees /\ CallOK /\ EntryOK /\ CountersOK /\ DirsKept /\ pc = "chown" /\ InEntry
    BY DEF IInv, ChownWhiteout, InEntry
  <1>1. PICK at : tree' = SetMeta(tree, at, hdr.owner, Clock)
    BY DEF ChownWhiteout
  <1>2. Continue /\ UNCHANGED <<opaque, call, archive, base, n, dirs, removals>>
    BY DEF ChownWhiteout
  <1>3. IsTree(tree') /\ Grown(tree, tree', {})
    <2>1. hdr.owner \in Nat /\ Clock \in Nat
      <3>1. hdr \in EntryIn
        BY <1>0 DEF EntryOK
      <3>2. QED
        BY <3>1, ExtractAssumption DEF EntryIn
    <2>2. PICK set : set = tree'
      OBVIOUS
    <2>3. PICK owner \in Nat : owner = hdr.owner
      BY <2>1
    <2>4. /\ IsTree(set) /\ DOMAIN set = DOMAIN tree
          /\ \A p \in DOMAIN tree : set[p].kind = tree[p].kind
      BY <1>0, <1>1, <2>1, <2>2, <2>3, SetMetaType DEF Trees
    <2>5. QED
      BY <2>2, <2>4 DEF Grown
  <1>4. CallOK' /\ Trees' /\ options' = options
    BY <1>0, <1>2, <1>3, CallKept DEF Trees
  <1>5. EntryOK' /\ CountersOK' /\ Kept'
    BY <1>0, <1>2, <1>4, LeaveEntry
  <1>6. DirsKept'
    BY <1>0, <1>2, <1>3, <1>4, DirsKeptGrown
  <1>7. QED
    BY <1>4, <1>5, <1>6 DEF IInv

-----------------------------------------------------------------------------
(* Making the entry, and the end of the call. *)

\* createTarFile of the entry, or of it with another owner and time.
LEMMA CreateOutcome ==
    ASSUME Trees, EntryOK, pc = "create", NEW h \in Header, h.type = hdr.type,
           NEW out, out = createTarFile(tree, dst.path, h)
    PROVE  /\ IsTree(out.tree)
           /\ Grown(tree, out.tree, IF hdr.type = "dir" THEN {"dir"} ELSE NonDir)
  <1>1. h.type \in {"dir", "reg", "dev", "sym", "link"}
    <2>1. hdr.type \in EntryType \ {"meta", "plnk", "plink"}
      BY DEF EntryOK, InEntry, EntryIn
    <2>2. QED
      BY <2>1 DEF EntryOK, EntryType, ConvertedType
  <1>2. /\ Extracted(tree, out.tree)
        /\ Grown(tree, out.tree, IF h.type = "dir" THEN {"dir"} ELSE NonDir)
    BY <1>1, PathParts, CreateType DEF Trees
  <1>3. QED
    BY <1>2 DEF Extracted

\* A directory is made only where nothing was, so what it adds loses none.
LEMMA CreateKeeps ==
    ASSUME DirsKept, Kept, pc = "create", UNCHANGED <<base, options>>,
           Grown(tree, tree', IF hdr.type = "dir" THEN {"dir"} ELSE NonDir)
    PROVE  DirsKept'
  <1>1. options.NoOverwriteDirNonDir =>
           AllThere \/ "dir" \notin IF hdr.type = "dir" THEN {"dir"} ELSE NonDir
    BY DEF Kept, NonDir
  <1>2. PICK kinds : kinds = IF hdr.type = "dir" THEN {"dir"} ELSE NonDir
    OBVIOUS
  <1>3. QED
    BY <1>1, <1>2, DirsKeptGrown

\* The entry of a file that is no whiteout.
LEMMA CreateHeader ==
    ASSUME EntryOK, pc = "create"
    PROVE  hdr \in Header /\ dst.path \in Seq(Name)
  BY DEF EntryOK, InEntry, ConvertedType

\* Making the entry.
LEMMA CreateStep == ASSUME IInv, Create PROVE IInv'
  <1>0. /\ Trees /\ CallOK /\ EntryOK /\ CountersOK /\ DirsKept /\ Kept
        /\ pc = "create"
    BY DEF IInv, Create
  <1>. DEFINE out == createTarFile(tree, dst.path, hdr)
  <1>1. /\ tree' = out.tree
        /\ UNCHANGED <<opaque, call, archive, base, n, removals>>
        /\ dirs' \in {dirs, RecordedDirs}
        /\ Continue \/ ((\E e : Return(e)) /\ UNCHANGED entry)
    BY DEF Create, Then
  <1>2. hdr \in Header /\ dst.path \in Seq(Name)
    BY <1>0, CreateHeader
  <1>3. /\ IsTree(out.tree)
        /\ Grown(tree, out.tree, IF hdr.type = "dir" THEN {"dir"} ELSE NonDir)
    BY <1>0, <1>2, CreateOutcome
  <1>. HIDE DEF out
  <1>4. CallOK' /\ Trees' /\ options' = options
    BY <1>0, <1>1, <1>3, CallKept DEF Trees
  <1>5. DirsKept'
    BY <1>0, <1>1, <1>3, <1>4, CreateKeeps
  <1>6. dirs' \in Seq([name : Seq(Name), time : Nat])
    <2>1. hdr.time \in Nat
      BY <1>2 DEF Header
    <2>2. [name |-> dst.path, time |-> hdr.time] \in [name : Seq(Name), time : Nat]
      BY <1>2, <2>1
    <2>3. PICK made \in [name : Seq(Name), time : Nat] :
             made = [name |-> dst.path, time |-> hdr.time]
      BY <2>2
    <2>4. Append(dirs, made) \in Seq([name : Seq(Name), time : Nat])
      BY <1>0 DEF CountersOK
    <2>5. dirs' = dirs \/ dirs' = Append(dirs, made)
      BY <1>1, <2>3 DEF RecordedDirs
    <2>6. QED
      BY <1>0, <2>4, <2>5 DEF CountersOK
  <1>7. EntryOK' /\ Kept' /\ k' \in Nat
    <2>1. CASE Continue
      BY <2>1, ContinueEntry
    <2>2. CASE (\E e : Return(e)) /\ UNCHANGED entry
      <3>1. UNCHANGED <<dst, k>>
        BY <2>2 DEF entry
      <3>2. QED
        BY <1>0, <2>2, <3>1, ReturnEntry DEF CountersOK
    <2>3. QED
      BY <1>1, <2>1, <2>2
  <1>8. CountersOK'
    BY <1>0, <1>1, <1>6, <1>7 DEF CountersOK
  <1>9. QED
    BY <1>4, <1>5, <1>7, <1>8 DEF IInv

\* The times of one directory.
LEMMA RestoreTimeStep == ASSUME IInv, RestoreTime PROVE IInv'
  <1>0. /\ Trees /\ CallOK /\ EntryOK /\ CountersOK /\ DirsKept
        /\ pc = "times" /\ k \in 1..Len(dirs)
    BY DEF IInv, RestoreTime
  <1>. DEFINE out == chtimes(tree, dirs[k].name, DirTime)
  <1>1. /\ tree' = out.tree
        /\ UNCHANGED <<hdr, dst, opaque, call, archive, base, n, dirs, removals>>
        /\ \/ pc' = pc /\ k' = k + 1
           \/ pc' = "done" /\ k' = k
    BY DEF RestoreTime, Then, Return, entry
  <1>2. dirs[k].name \in Seq(Name) /\ DirTime \in Nat
    <2>1. dirs[k] \in [name : Seq(Name), time : Nat]
      BY <1>0, ElementOfSeq DEF CountersOK
    <2>2. QED
      BY <2>1 DEF DirTime
  <1>3. Extracted(tree, out.tree) /\ Grown(tree, out.tree, {})
    <2>1. PICK p \in Seq(Name), time \in Nat : p = dirs[k].name /\ time = DirTime
      BY <1>2
    <2>2. p \in Seq(Part)
      BY DEF Part
    <2>3. out = chtimes(tree, p, time)
      BY <2>1
    <2>. HIDE DEF out
    <2>4. QED
      BY <1>0, <2>2, <2>3, ChtimesType DEF Trees
  <1>. HIDE DEF out
  <1>4. CallOK' /\ Trees' /\ options' = options
    BY <1>0, <1>1, <1>3, CallKept DEF Trees, Extracted
  <1>5. EntryOK' /\ Kept' /\ CountersOK'
    BY <1>0, <1>1, <1>4 DEF EntryOK, InEntry, Parent, Kept, CountersOK
  <1>6. DirsKept'
    BY <1>0, <1>1, <1>3, <1>4, DirsKeptGrown
  <1>7. QED
    BY <1>4, <1>5, <1>6 DEF IInv

\* The call returns.
LEMMA TimesRestoredStep == ASSUME IInv, TimesRestored PROVE IInv'
  <1>0. Trees /\ CallOK /\ EntryOK /\ CountersOK /\ DirsKept
    BY DEF IInv
  <1>1. /\ Return("ok")
        /\ UNCHANGED <<tree, opaque, call, archive, base, entry, n, dirs, removals>>
    BY DEF TimesRestored
  <1>2. CallOK' /\ Trees' /\ options' = options /\ UNCHANGED <<dst, k>>
    BY <1>0, <1>1, CallKept DEF Trees, entry
  <1>3. EntryOK' /\ Kept' /\ CountersOK' /\ DirsKept'
    BY <1>0, <1>1, <1>2, ReturnEntry DEF CountersOK, DirsKept
  <1>4. QED
    BY <1>2, <1>3 DEF IInv

-----------------------------------------------------------------------------
(* The environment. *)

\* What a removal that fails half way has removed.
LEMMA HalfRemovedType ==
    ASSUME Trees, EntryOK, InEntry, NEW q \in HalfRemoved
    PROVE  /\ q \in DOMAIN tree /\ q # << >>
           /\ options.NoOverwriteDirNonDir => ~IsDir(tree, q)
  <1>1. /\ q \in DOMAIN tree /\ There.err = "ok" /\ MayOverwrite(There)
        /\ ~(IsDir(tree, There.at) /\ hdr.type = "dir") /\ Under(There.at, q)
    BY DEF HalfRemoved
  <1>2. PICK at : at = There.at
    OBVIOUS
  <1>3. at \in DOMAIN tree /\ at # << >>
    BY <1>1, <1>2, ThereType
  <1>4. at \in Seq(Name) /\ q \in Seq(Name)
    BY <1>1, <1>3, TreePaths DEF Trees
  <1>5. q # << >>
    <2>1. Len(at) > 0 /\ Len(at) <= Len(q) /\ Len(<< >>) = 0
      BY <1>1, <1>2, <1>3, <1>4, EmptySeq, LenProperties DEF Under
    <2>2. QED
      BY <1>4, <2>1
  <1>6. ASSUME options.NoOverwriteDirNonDir PROVE ~IsDir(tree, q)
    <2>1. ~IsDir(tree, at)
      BY <1>1, <1>2, <1>6 DEF MayOverwrite
    <2>2. at = q
      BY <1>1, <1>2, <1>4, <2>1, PrefixThere DEF Trees
    <2>3. QED
      BY <2>1, <2>2
  <1>7. QED
    BY <1>1, <1>5, <1>6

\* What createTarFile had made when it failed.
LEMMA HalfMadeType ==
    ASSUME Trees, EntryOK, pc = "create", NEW made \in HalfMade
    PROVE  /\ IsTree(made)
           /\ Grown(tree, made, IF hdr.type = "dir" THEN {"dir"} ELSE NonDir)
  <1>. DEFINE h == [hdr EXCEPT !.owner = Process, !.time = Clock]
              out == createTarFile(tree, dst.path, h)
  <1>1. made = out.tree
    BY DEF HalfMade
  <1>2. hdr \in Header
    BY CreateHeader
  <1>3. h \in Header
    <2>1. Process \in Nat /\ Clock \in Nat
      BY ExtractAssumption DEF Process
    <2>2. QED
      BY <1>2, <2>1, HeaderExcept
  <1>4. h.type = hdr.type
    BY <1>2 DEF Header
  <1>. HIDE DEF h
  <1>5. QED
    BY <1>1, <1>3, <1>4, CreateOutcome

\* An operation fails.
LEMMA FaultStep == ASSUME IInv, Fault PROVE IInv'
  <1>0. Trees /\ CallOK /\ EntryOK /\ CountersOK /\ DirsKept /\ Kept
    BY DEF IInv
  <1>1. /\ Return("io")
        /\ UNCHANGED <<opaque, call, archive, base, entry, n, dirs, removals>>
    BY DEF Fault
  <1>2. \/ UNCHANGED tree
        \/ pc = "clear" /\ \E q \in HalfRemoved : tree' = RemoveTree(tree, q, Clock)
        \/ pc = "create" /\ tree' \in HalfMade
    BY DEF Fault
  <1>3. CallOK' /\ lower' = lower /\ options' = options /\ UNCHANGED <<dst, k>>
    BY <1>0, <1>1, CallKept DEF entry
  <1>4. EntryOK' /\ Kept' /\ CountersOK'
    BY <1>0, <1>1, <1>3, ReturnEntry DEF CountersOK
  <1>5. IsTree(tree') /\ DirsKept'
    <2>1. CASE UNCHANGED tree
      BY <1>0, <1>1, <1>3, <2>1 DEF Trees, DirsKept
    <2>2. CASE pc = "clear" /\ \E q \in HalfRemoved : tree' = RemoveTree(tree, q, Clock)
      <3>1. PICK q \in HalfRemoved : tree' = RemoveTree(tree, q, Clock)
        BY <2>2
      <3>2. /\ q \in DOMAIN tree /\ q # << >>
            /\ options.NoOverwriteDirNonDir => ~IsDir(tree, q)
        BY <1>0, <2>2, HalfRemovedType DEF InEntry
      <3>3. CutAt(tree, q, tree')
        BY <1>0, <3>1, <3>2, Removal DEF Trees
      <3>4. DirsKept'
        BY <1>0, <1>1, <1>3, <3>2, <3>3, DirsKeptRemoved DEF Trees
      <3>5. QED
        BY <3>3, <3>4 DEF CutAt
    <2>3. CASE pc = "create" /\ tree' \in HalfMade
      <3>1. /\ IsTree(tree')
            /\ Grown(tree, tree', IF hdr.type = "dir" THEN {"dir"} ELSE NonDir)
        BY <1>0, <2>3, HalfMadeType
      <3>2. DirsKept'
        BY <1>0, <1>1, <1>3, <2>3, <3>1, CreateKeeps
      <3>3. QED
        BY <3>1, <3>2
    <2>4. QED
      BY <1>2, <2>1, <2>2, <2>3
  <1>6. Trees'
    BY <1>0, <1>1, <1>3, <1>5 DEF Trees
  <1>7. QED
    BY <1>3, <1>4, <1>5, <1>6 DEF IInv

\* Another process removes something, from what was there as well.
LEMMA RemovedByOtherStep == ASSUME IInv, RemovedByOther PROVE IInv'
  <1>0. Trees /\ CallOK /\ EntryOK /\ CountersOK /\ DirsKept
    BY DEF IInv
  <1>1. /\ pc = "read" /\ removals < MaxRemovals /\ removals' = removals + 1
        /\ UNCHANGED <<opaque, call, archive, pc, entry, n, dirs>>
    BY DEF RemovedByOther
  <1>2. PICK at \in DOMAIN tree \ {<< >>} :
           /\ tree' = RemoveTree(tree, at, Clock)
           /\ base' = IF Exists(base, at) THEN RemoveTree(base, at, Clock) ELSE base
    BY DEF RemovedByOther
  <1>3. CutAt(tree, at, tree')
    BY <1>0, <1>2, Removal DEF Trees
  <1>4. IF Exists(base, at) THEN CutAt(base, at, base') ELSE base' = base
    <2>1. CASE Exists(base, at)
      <3>1. PICK left : left = base'
        OBVIOUS
      <3>2. CutAt(base, at, left)
        BY <1>0, <1>2, <2>1, <3>1, RemovedType DEF Trees, Exists
      <3>3. QED
        BY <2>1, <3>1, <3>2
    <2>2. CASE ~Exists(base, at)
      BY <1>2, <2>2
    <2>3. QED
      BY <2>1, <2>2
  <1>5. CallOK' /\ lower' = lower /\ options' = options /\ UNCHANGED <<hdr, dst, k>>
    BY <1>0, <1>1, CallKept DEF entry
  <1>6. Trees'
    BY <1>0, <1>3, <1>4, <1>5 DEF Trees, CutAt
  <1>7. EntryOK' /\ Kept' /\ CountersOK'
    <2>1. removals' \in 0..MaxRemovals
      BY <1>0, <1>1, UnpackAssumption DEF CountersOK
    <2>2. QED
      BY <1>0, <1>1, <1>5, <2>1 DEF EntryOK, InEntry, Parent, Kept, CountersOK
  <1>8. DirsKept'
    <2>1. SUFFICES ASSUME options.NoOverwriteDirNonDir, NEW p \in DOMAIN base'
                   PROVE  /\ IsDir(base', p) => IsDir(tree', p)
                          /\ ~IsDir(base', p) => ~IsDir(tree', p)
      BY <1>5 DEF DirsKept
    <2>2. p \in DOMAIN base /\ (IsDir(base', p) <=> IsDir(base, p))
      BY <1>4 DEF CutAt, IsDir, Exists
    <2>3. /\ IsDir(base, p) => IsDir(tree, p)
          /\ ~IsDir(base, p) => ~IsDir(tree, p)
      BY <1>0, <2>1, <2>2 DEF DirsKept
    <2>4. ~Under(at, p)
      <3>1. CASE Exists(base, at)
        BY <1>4, <3>1 DEF CutAt
      <3>2. CASE ~Exists(base, at)
        <4>1. at \in Seq(Name)
          BY <1>0, <1>2, TreePaths DEF Trees
        <4>2. QED
          BY <1>0, <2>2, <3>2, <4>1, PrefixThere DEF Trees, Exists
      <3>3. QED
        BY <3>1, <3>2
    <2>5. IsDir(tree', p) <=> IsDir(tree, p)
      BY <1>3, <2>4 DEF CutAt, IsDir, Exists
    <2>6. QED
      BY <2>2, <2>3, <2>5
  <1>9. QED
    BY <1>5, <1>6, <1>7, <1>8 DEF IInv

-----------------------------------------------------------------------------
(* The inodes and the times. *)

\* Nodes that stay what they are keep their inodes.
LEMMA NumberedAlike ==
    ASSUME Numbered, IsTree(tree), n \in Nat, k \in Nat, k' \in Nat, pc # "done",
           \A p \in DOMAIN tree' : p \in DOMAIN tree /\ Alike(tree, tree', p),
           \/ n' = n + 1
           \/ n' = n /\ (MayMake' => MayMake /\ k' >= k)
    PROVE  Numbered'
  <1>1. PICK new : new = tree'
    OBVIOUS
  <1>2. /\ Numbers(new, n)
        /\ Numbers(new, n + 1) /\ Shallow(new, n + 1, k')
        /\ Shallow(tree, n, k) => \A i \in Nat : i >= k => Shallow(new, n, i)
    BY <1>1, NumbersAlike DEF Numbered
  <1>3. Numbers(new, n') /\ (MayMake' => Shallow(new, n', k'))
    BY <1>2 DEF Numbered
  <1>4. QED
    BY <1>1, <1>3 DEF Numbered

\* A node made by the entry, deeper than those it has made before.
LEMMA NumberedJoins ==
    ASSUME Numbered, IsTree(tree), n \in Nat, k \in Nat, MayMake, NEW ino,
           ino[1] = n, ino[2] \in Nat, ino[2] >= k, JoinsInode(tree, tree', ino),
           n' = n, MayMake' => k' = ino[2] + 1
    PROVE  Numbered'
  <1>1. PICK new : new = tree'
    OBVIOUS
  <1>2. Numbers(tree, n) /\ Shallow(tree, n, k) /\ JoinsInode(tree, new, ino)
    BY <1>1 DEF Numbered, MayMake
  <1>3. Numbers(new, n) /\ Shallow(new, n, ino[2] + 1)
    BY <1>2, NumbersJoins
  <1>4. QED
    BY <1>1, <1>3 DEF Numbered

\* A step that ends the entry, or the call with an error.
LEMMA EntryEnds ==
    ASSUME pc' \in {"read", "chown"} \/ (pc' = "done" /\ err' # "ok")
    PROVE  Direct' /\ Restored' /\ ~MayMake'
  BY DEF Direct, Restored, MayMake

\* What follows from the invariant of the types.
LEMMA Typed ==
    ASSUME IInv
    PROVE  /\ Trees /\ CallOK /\ EntryOK /\ CountersOK
           /\ IsTree(tree) /\ n \in Nat /\ k \in Nat
           /\ InEntry => hdr.by = n /\ dst.path # << >>
           /\ Parent \in Seq(Name) /\ Len(Parent) \in Nat
  BY DEF IInv, Trees, EntryOK, CountersOK, InEntry, EntryIn

\* The tree stays as it is.
LEMMA SameAlike ==
    ASSUME tree' = tree
    PROVE  \A p \in DOMAIN tree' : p \in DOMAIN tree /\ Alike(tree, tree', p)
  BY DEF Alike

\* A subtree goes.
LEMMA CutAlike ==
    ASSUME IsTree(tree), NEW at, tree' = RemoveTree(tree, at, Clock)
    PROVE  \A p \in DOMAIN tree' : p \in DOMAIN tree /\ Alike(tree, tree', p)
  <1>1. PICK left : left = tree'
    OBVIOUS
  <1>2. QED
    BY <1>1, RemoveTreeAlike

\* Reading an entry.
LEMMA ReadTimes == ASSUME IInv, TimesInv, NEW h \in archive, Read(h) PROVE TimesInv'
  <1>0. CallOK /\ IsTree(tree) /\ n \in Nat /\ k \in Nat /\ Numbered
    BY Typed DEF TimesInv
  <1>1. pc = "read" /\ n' = n + 1 /\ tree' = tree
    BY DEF Read
  <1>. DEFINE r == resolveArchivePath(tree, h.name)
  <1>2. \/ Continue
        \/ \E e : e # "ok" /\ Return(e) /\ UNCHANGED entry
        \/ /\ h.name # << >> /\ Head(h.name) # Up /\ r.err = "ok"
           /\ dst' = r /\ k' = 0 /\ pc' = "clear"
    BY DEF Read, Skipped
  <1>3. k' \in Nat
    BY <1>0, <1>2 DEF Continue, entry
  <1>4. Numbered'
    BY <1>0, <1>1, <1>3, SameAlike, NumberedAlike
  <1>5. CASE pc' # "clear"
    <2>1. pc' = "read" \/ (pc' = "done" /\ err' # "ok")
      BY <1>2, <1>5 DEF Continue, Return
    <2>2. QED
      BY <1>4, <2>1, EntryEnds DEF TimesInv
  <1>6. CASE /\ h.name # << >> /\ Head(h.name) # Up /\ r.err = "ok"
             /\ dst' = r /\ k' = 0 /\ pc' = "clear"
    <2>1. h \in HeaderIn
      BY <1>0 DEF CallOK
    <2>2. h.name \in Seq(Part \union {Opq}) /\ Front(h.name) \in Seq(Name)
      BY <1>6, <2>1, ReadHeader
    <2>3. Front(h.name) \in Seq(Part)
      BY <2>2 DEF Part
    <2>4. ~r.parentWasPresent => NoLinks(tree, Front(r.path))
      BY <1>0, <1>6, <2>2, <2>3, ResolvedNoLink
    <2>5. Direct'
      BY <1>1, <1>6, <2>4 DEF Direct, Parent
    <2>6. Restored'
      BY <1>6 DEF Restored
    <2>7. QED
      BY <1>4, <2>5, <2>6 DEF TimesInv
  <1>7. QED
    BY <1>2, <1>5, <1>6 DEF Continue, Return

\* The end of the archive: no time is set yet.
LEMMA EndTimes == ASSUME IInv, TimesInv, EndOfArchive PROVE TimesInv'
  <1>0. CountersOK /\ IsTree(tree) /\ n \in Nat /\ k \in Nat /\ Numbered
    BY Typed DEF TimesInv
  <1>1. pc = "read" /\ pc' = "times" /\ k' = 1 /\ UNCHANGED <<tree, n, dirs>>
    BY DEF EndOfArchive
  <1>2. Numbered'
    BY <1>0, <1>1, SameAlike, NumberedAlike DEF MayMake
  <1>3. Direct'
    BY <1>1 DEF Direct, MayMake
  <1>4. Restored'
    <2>1. DOMAIN dirs = 1..Len(dirs)
      BY <1>0 DEF CountersOK
    <2>2. QED
      BY <1>1, <2>1 DEF Restored
  <1>5. QED
    BY <1>2, <1>3, <1>4 DEF TimesInv

\* Making room.
LEMMA ClearTimes == ASSUME IInv, TimesInv, Clear PROVE TimesInv'
  <1>0. /\ Trees /\ EntryOK /\ IsTree(tree) /\ n \in Nat /\ k \in Nat /\ Numbered /\ Direct
        /\ pc = "clear" /\ k = 0
    BY Typed DEF TimesInv, Clear, EntryOK
  <1>. DEFINE out == Cleared(There)
  <1>1. /\ tree' = out.tree /\ UNCHANGED <<n, entry>>
        /\ pc' = "remap" \/ (pc' = "done" /\ err' # "ok")
    BY DEF Clear, Then, Return
  <1>2. \/ tree' = tree
        \/ \E at : tree' = RemoveTree(tree, at, Clock)
    BY <1>0, <1>1, ClearOutcome
  <1>. HIDE DEF out
  <1>3. \A p \in DOMAIN tree' : p \in DOMAIN tree /\ Alike(tree, tree', p)
    BY <1>0, <1>2, SameAlike, CutAlike
  <1>4. UNCHANGED <<hdr, dst, k>>
    BY <1>1 DEF entry
  <1>5. Numbered'
    BY <1>0, <1>1, <1>3, <1>4, NumberedAlike DEF MayMake
  <1>6. CASE pc' = "remap"
    <2>1. ~dst.parentWasPresent => NoLinks(tree', Parent)
      <3>1. PICK new : new = tree'
        OBVIOUS
      <3>2. ~dst.parentWasPresent => NoLinks(new, Parent)
        BY <1>0, <1>3, <3>1, NoLinksAlike DEF Direct, MayMake
      <3>3. QED
        BY <3>1, <3>2
    <2>2. Direct' /\ Restored'
      BY <1>0, <1>4, <1>6, <2>1 DEF Direct, Restored, Parent
    <2>3. QED
      BY <1>5, <2>2 DEF TimesInv
  <1>7. CASE pc' = "done" /\ err' # "ok"
    BY <1>5, <1>7, EntryEnds DEF TimesInv
  <1>8. QED
    BY <1>1, <1>6, <1>7

\* Mapping the owner.
LEMMA RemapTimes == ASSUME IInv, TimesInv, Remap PROVE TimesInv'
  <1>0. /\ IsTree(tree) /\ n \in Nat /\ k \in Nat /\ Numbered /\ Direct
        /\ pc = "remap" /\ k = 0 /\ Len(Parent) \in Nat
    BY Typed DEF TimesInv, Remap, EntryOK
  <1>1. /\ UNCHANGED <<tree, dst, k, n>>
        /\ pc' = "implied" \/ (pc' = "done" /\ err' # "ok")
    BY DEF Remap, Return
  <1>2. Numbered'
    BY <1>0, <1>1, SameAlike, NumberedAlike DEF MayMake
  <1>3. CASE pc' = "implied"
    <2>1. Direct' /\ Restored'
      BY <1>0, <1>1, <1>3 DEF Direct, Restored, Parent, MayMake
    <2>2. QED
      BY <1>2, <2>1 DEF TimesInv
  <1>4. CASE pc' = "done" /\ err' # "ok"
    BY <1>2, <1>4, EntryEnds DEF TimesInv
  <1>5. QED
    BY <1>1, <1>3, <1>4

\* The first directory on the way is made where nothing has been made.
LEMMA StartTimes == ASSUME IInv, TimesInv, StartImplied PROVE TimesInv'
  <1>0. /\ EntryOK /\ IsTree(tree) /\ n \in Nat /\ k \in Nat /\ Numbered /\ Direct
        /\ pc = "implied" /\ k = 0 /\ Parent \in Seq(Name) /\ Len(Parent) \in Nat
    BY Typed DEF TimesInv, StartImplied
  <1>1. /\ UNCHANGED <<tree, dst, n>>
        /\ \/ pc' = AfterImplied /\ k' = 0
           \/ pc' = "implied" /\ k' = 1 /\ ~ParentThere
           \/ pc' = "done" /\ err' # "ok" /\ k' = 0
    BY <1>0 DEF StartImplied, Return, ParentThere
  <1>2. Numbered'
    BY <1>0, <1>1, SameAlike, NumberedAlike DEF MayMake
  <1>3. AfterImplied \in {"convert", "create"}
    BY <1>0, AfterImpliedType
  <1>4. CASE pc' = AfterImplied /\ k' = 0
    <2>1. Direct' /\ Restored'
      BY <1>0, <1>1, <1>3, <1>4 DEF Direct, Restored, Parent, MayMake
    <2>2. QED
      BY <1>2, <2>1 DEF TimesInv
  <1>5. CASE pc' = "implied" /\ k' = 1 /\ ~ParentThere
    <2>1. ~dst.parentWasPresent /\ Len(Parent) >= 1
      <3>1. ~dst.parentWasPresent /\ Parent # << >>
        BY <1>5 DEF ParentThere
      <3>2. QED
        BY <1>0, <3>1, EmptySeq, LenProperties
    <2>2. Direct' /\ Restored'
      BY <1>0, <1>1, <1>5, <2>1 DEF Direct, Restored, Parent, MayMake
    <2>3. QED
      BY <1>2, <2>2 DEF TimesInv
  <1>6. CASE pc' = "done" /\ err' # "ok"
    BY <1>2, <1>6, EntryEnds DEF TimesInv
  <1>7. QED
    BY <1>1, <1>4, <1>5, <1>6

\* The inode of what the entry makes.
LEMMA EntryInode ==
    ASSUME IInv, InEntry, NEW at, Len(at) \in Nat
    PROVE  /\ Inode(hdr, at)[1] = n
           /\ Inode(hdr, at)[2] = Len(at)
  BY Typed DEF Inode

\* The Mkdir of one parent directory: its depth is how far the loop has come.
LEMMA ImpliedTimes == ASSUME IInv, TimesInv, MakeImplied PROVE TimesInv'
  <1>0. /\ EntryOK /\ IsTree(tree) /\ n \in Nat /\ k \in Nat /\ Numbered /\ Direct
        /\ pc = "implied" /\ k \in 1..Len(Parent) /\ k > 0
        /\ Parent \in Seq(Name) /\ Len(Parent) \in Nat /\ InEntry
    BY Typed DEF TimesInv, MakeImplied, InEntry
  <1>. DEFINE cur == SubSeq(Parent, 1, k)
              out == mkdirImplied(tree, cur, hdr)
              l == Locate(tree, cur)
  <1>1. /\ tree' = out.tree /\ UNCHANGED <<dst, n>>
        /\ \/ /\ out.err = "ok" /\ k' = k + 1
              /\ pc' = IF k = Len(Parent) THEN AfterImplied ELSE pc
           \/ out.err # "ok" /\ pc' = "done" /\ err' # "ok"
    BY DEF MakeImplied, Then, Return, entry
  <1>2. CASE pc' = "done" /\ err' # "ok"
    <2>1. Numbered'
      BY <1>2 DEF Numbered
    <2>2. QED
      BY <1>2, <2>1, EntryEnds DEF TimesInv
  <1>3. CASE /\ out.err = "ok" /\ k' = k + 1
             /\ pc' = IF k = Len(Parent) THEN AfterImplied ELSE pc
    <2>1. NoLinks(tree, Parent) /\ ~dst.parentWasPresent
      BY <1>0 DEF Direct, MayMake
    <2>2. /\ cur \in Seq(Name) /\ Len(cur) = k /\ cur # << >>
          /\ NoLinks(tree, Front(cur)) /\ Front(cur) \in Seq(Part)
      <3>1. PICK path \in Seq(Name) : path = Parent
        BY <1>0
      <3>2. PICK i \in 1..Len(path) : i = k
        BY <1>0, <3>1
      <3>3. SubSeq(path, 1, i) \in Seq(Name) /\ Len(SubSeq(path, 1, i)) = i
        OBVIOUS
      <3>4. PICK part \in Seq(Name) : part = SubSeq(path, 1, i) /\ Len(part) = i
        BY <3>3
      <3>5. part # << >> /\ Front(part) = SubSeq(part, 1, i - 1)
        <4>1. Len(part) > 0 /\ Len(<< >>) = 0
          BY <3>2, <3>4
        <4>2. QED
          BY <3>4, <4>1 DEF Front
      <3>6. NoLinks(tree, part)
        BY <2>1, <3>1, <3>2, <3>4, NoLinksPart
      <3>7. NoLinks(tree, Front(part)) /\ Front(part) \in Seq(Name)
        <4>1. PICK j \in 0..Len(part) : j = i - 1
          BY <3>2, <3>4
        <4>2. Front(part) = SubSeq(part, 1, j)
          BY <3>5, <4>1
        <4>3. QED
          BY <3>4, <3>6, <4>2, NoLinksPart
      <3>8. Front(part) \in Seq(Part)
        BY <3>7 DEF Part
      <3>9. QED
        BY <3>1, <3>2, <3>4, <3>5, <3>7, <3>8
    <2>3. hdr.by \in Nat \ {0}
      BY <1>0 DEF EntryOK, EntryIn
    <2>. HIDE DEF cur
    <2>4. l.err = "ok"
      <3>1. l.err # "ok" => out.err = l.err
        BY NothingMade DEF Outcome
      <3>2. QED
        BY <1>3, <3>1
    <2>5. l.at = cur
      BY <1>0, <2>2, <2>4, LocateNoLink
    <2>6. PICK ino : ino = Inode(hdr, cur)
      OBVIOUS
    <2>7. JoinsInode(tree, out.tree, ino)
      BY <1>0, <2>5, <2>6, ImpliedJoins DEF JoinsInode
    <2>8. ino[1] = n /\ ino[2] = k
      BY <1>0, <2>2, <2>6, EntryInode
    <2>9. Grown(tree, out.tree, {"dir"})
      BY <1>0, <2>2, <2>3, ImpliedType
    <2>. HIDE DEF out
    <2>10. Numbered'
      BY <1>0, <1>1, <1>3, <2>7, <2>8, NumberedJoins DEF MayMake
    <2>11. NoLinks(tree', Parent)
      <3>1. PICK new : new = tree'
        OBVIOUS
      <3>2. NoLinks(new, Parent)
        BY <1>1, <2>1, <2>9, <3>1, NoLinksGrown
      <3>3. QED
        BY <3>1, <3>2
    <2>12. AfterImplied \in {"convert", "create"}
      BY <1>0, AfterImpliedType
    <2>13. Direct' /\ Restored'
      BY <1>0, <1>1, <1>3, <2>1, <2>11, <2>12 DEF Direct, Restored, Parent, MayMake
    <2>14. QED
      BY <2>10, <2>13 DEF TimesInv
  <1>4. QED
    BY <1>1, <1>2, <1>3

\* How deep the entry lies: below what has been made on the way to it.
LEMMA EntryDepth ==
    ASSUME IInv, Direct, pc \in {"convert", "create"}
    PROVE  Len(dst.path) \in Nat /\ Len(dst.path) >= k
  <1>1. /\ dst.path \in Seq(Part \union {Opq}) /\ dst.path # << >>
        /\ k = 0 \/ k = Len(Parent) + 1
    BY Typed DEF EntryOK, InEntry, Direct
  <1>2. Len(dst.path) \in Nat /\ Len(Parent) = Len(dst.path) - 1
    BY <1>1, FrontProperties DEF Parent
  <1>3. QED
    BY <1>1, <1>2

\* Marking a directory opaque.
LEMMA OpaqueTimes == ASSUME IInv, TimesInv, MarkOpaque PROVE TimesInv'
  <1>0. IsTree(tree) /\ n \in Nat /\ k \in Nat /\ Numbered /\ pc = "convert"
    BY Typed DEF TimesInv, MarkOpaque
  <1>1. /\ UNCHANGED <<tree, n>> /\ k' \in {0, k}
        /\ pc' = "read" \/ (pc' = "done" /\ err' # "ok")
    BY DEF MarkOpaque, Continue, Return, entry
  <1>2. Direct' /\ Restored' /\ ~MayMake'
    BY <1>1, EntryEnds
  <1>3. Numbered'
    BY <1>0, <1>1, <1>2, SameAlike, NumberedAlike
  <1>4. QED
    BY <1>2, <1>3 DEF TimesInv

\* Making a whiteout.
LEMMA WhiteoutTimes == ASSUME IInv, TimesInv, MakeWhiteout PROVE TimesInv'
  <1>0. /\ IsTree(tree) /\ n \in Nat /\ k \in Nat /\ Numbered /\ Direct
        /\ pc = "convert" /\ InEntry
    BY Typed DEF TimesInv, MakeWhiteout, InEntry
  <1>. DEFINE l == InOpened(Last(dst.path))
              node == Device
  <1>1. /\ tree' = Mknod(l).tree /\ n' = n
        /\ pc' \in {"read", "chown"} \/ (pc' = "done" /\ err' # "ok")
    BY DEF MakeWhiteout, Then, Continue, Return
  <1>2. tree' = tree \/ tree' = PutNode(tree, l.at, node, Clock)
    BY <1>1 DEF Mknod, PutDevice, Outcome
  <1>3. node.ino = Inode(hdr, dst.path)
    BY DEF Device, Node
  <1>. HIDE DEF l, node
  <1>4. PICK ino, new, at : ino = Inode(hdr, dst.path) /\ new = tree' /\ at = l.at
    OBVIOUS
  <1>5. JoinsInode(tree, new, ino)
    <2>1. Fresh(node, ino, node.link)
      BY <1>3, <1>4 DEF Fresh
    <2>2. PICK link : link = node.link
      OBVIOUS
    <2>3. Joins(tree, new, at, ino, link)
      BY <1>0, <1>2, <1>4, <2>1, <2>2, JoinsPut, JoinsSame
    <2>4. QED
      BY <2>3 DEF JoinsInode
  <1>6. Len(dst.path) \in Nat /\ Len(dst.path) >= k
    BY <1>0, EntryDepth
  <1>7. ino[1] = n /\ ino[2] \in Nat /\ ino[2] >= k
    BY <1>0, <1>4, <1>6, EntryInode
  <1>8. Direct' /\ Restored' /\ ~MayMake'
    BY <1>1, EntryEnds
  <1>9. Numbered'
    BY <1>0, <1>1, <1>4, <1>5, <1>7, <1>8, NumberedJoins DEF MayMake
  <1>10. QED
    BY <1>8, <1>9 DEF TimesInv

\* Giving it its owner.
LEMMA ChownTimes == ASSUME IInv, TimesInv, ChownWhiteout PROVE TimesInv'
  <1>0. IsTree(tree) /\ n \in Nat /\ k \in Nat /\ Numbered /\ pc = "chown"
    BY Typed DEF TimesInv, ChownWhiteout
  <1>1. PICK at, owner : tree' = SetMeta(tree, at, owner, Clock)
    BY DEF ChownWhiteout
  <1>2. n' = n /\ k' = 0 /\ pc' = "read"
    BY DEF ChownWhiteout, Continue
  <1>3. \A p \in DOMAIN tree' : p \in DOMAIN tree /\ Alike(tree, tree', p)
    <2>1. PICK new : new = tree'
      OBVIOUS
    <2>2. \A p \in DOMAIN tree : tree[p] \in NodeType
      BY <1>0, TreePaths
    <2>3. DOMAIN new = DOMAIN tree /\ \A p \in DOMAIN tree : Alike(tree, new, p)
      BY <1>1, <2>1, <2>2, SetMetaAlike
    <2>4. QED
      BY <2>1, <2>3
  <1>4. Direct' /\ Restored' /\ ~MayMake'
    BY <1>2, EntryEnds
  <1>5. Numbered'
    BY <1>0, <1>2, <1>3, <1>4, NumberedAlike
  <1>6. QED
    BY <1>4, <1>5 DEF TimesInv

\* Making the entry.
LEMMA CreateTimes == ASSUME IInv, TimesInv, Create PROVE TimesInv'
  <1>0. /\ EntryOK /\ IsTree(tree) /\ n \in Nat /\ k \in Nat /\ Numbered /\ Direct
        /\ pc = "create" /\ InEntry
    BY Typed DEF TimesInv, Create, InEntry
  <1>. DEFINE out == createTarFile(tree, dst.path, hdr)
              l == Locate(tree, dst.path)
  <1>1. /\ tree' = out.tree /\ n' = n
        /\ pc' = "read" \/ (pc' = "done" /\ err' # "ok")
    BY DEF Create, Then, Continue, Return
  <1>2. Direct' /\ Restored' /\ ~MayMake'
    BY <1>1, EntryEnds
  <1>3. hdr \in Header /\ dst.path \in Seq(Name) /\ dst.path # << >>
    BY <1>0, CreateHeader DEF EntryOK
  <1>4. hdr.type \in {"dir", "reg", "dev", "sym", "link"}
    BY <1>0 DEF EntryOK, EntryIn, EntryType, ConvertedType
  <1>5. Front(dst.path) \in Seq(Part)
    BY <1>0, PathParts
  <1>6. JoinsInode(tree, out.tree, Inode(hdr, l.at))
    BY <1>0, <1>3, <1>4, <1>5, CreateJoins DEF JoinsInode
  <1>7. l.err = "ok" => l.at \in Seq(Name)
    BY <1>0, <1>5, LocateType
  <1>8. l.err # "ok" => out.tree = tree
    BY <1>4, NothingMade
  <1>. HIDE DEF out
  <1>9. PICK at, ino, new : /\ ino = Inode(hdr, at) /\ new = tree'
                            /\ at = IF l.err = "ok" THEN l.at ELSE dst.path
    OBVIOUS
  <1>10. JoinsInode(tree, new, ino)
    <2>1. CASE l.err = "ok"
      BY <1>1, <1>6, <1>9, <2>1
    <2>2. CASE l.err # "ok"
      <3>1. new = tree
        BY <1>1, <1>8, <1>9, <2>2
      <3>2. QED
        BY <3>1, JoinsSame DEF JoinsInode
    <2>3. QED
      BY <2>1, <2>2
  <1>11. Len(at) \in Nat /\ Len(at) >= k
    <2>1. CASE l.err # "ok"
      BY <1>0, <1>9, <2>1, EntryDepth
    <2>2. CASE l.err = "ok" /\ k = 0
      BY <1>7, <1>9, <2>2
    <2>3. CASE l.err = "ok" /\ k > 0
      <3>1. NoLinks(tree, Front(dst.path))
        BY <1>0, <2>3 DEF Direct, MayMake, Parent
      <3>2. l.at = dst.path
        BY <1>0, <1>3, <2>3, <3>1, LocateNoLink
      <3>3. QED
        BY <1>0, <1>9, <2>3, <3>2, EntryDepth
    <2>4. QED
      BY <1>0, <2>1, <2>2, <2>3
  <1>12. ino[1] = n /\ ino[2] \in Nat /\ ino[2] >= k
    BY <1>0, <1>9, <1>11, EntryInode
  <1>13. Numbered'
    BY <1>0, <1>1, <1>2, <1>9, <1>10, <1>12, NumberedJoins DEF MayMake
  <1>14. QED
    BY <1>2, <1>13 DEF TimesInv

\* The times of one directory: it disturbs no other one.
LEMMA RestoreTimes == ASSUME IInv, TimesInv, RestoreTime PROVE TimesInv'
  <1>0. /\ CountersOK /\ IsTree(tree) /\ n \in Nat /\ k \in Nat /\ Numbered /\ Restored
        /\ pc = "times" /\ k \in 1..Len(dirs)
    BY Typed DEF TimesInv, RestoreTime
  <1>. DEFINE out == chtimes(tree, dirs[k].name, DirTime)
              stat == Stat(tree, dirs[k].name)
  <1>1. /\ tree' = out.tree /\ UNCHANGED <<n, dirs>>
        /\ \/ out.err = "ok" /\ pc' = "times" /\ k' = k + 1
           \/ out.err # "ok" /\ pc' = "done" /\ err' # "ok"
    BY <1>0 DEF RestoreTime, Then, Return
  <1>2. CASE pc' = "done" /\ err' # "ok"
    <2>1. Numbered'
      BY <1>2 DEF Numbered
    <2>2. QED
      BY <1>2, <2>1, EntryEnds DEF TimesInv
  <1>3. CASE out.err = "ok" /\ pc' = "times" /\ k' = k + 1
    <2>1. PICK to, owner : /\ to = LeadsTo(k)
                           /\ tree' = SetMeta(tree, to, owner, dirs[k].time)
      <3>1. out = SetTime(tree, stat, DirTime) /\ stat.at = LeadsTo(k)
        BY DEF chtimes, LeadsTo
      <3>. HIDE DEF stat
      <3>2. out.tree = SetMeta(tree, stat.at, tree[stat.at].owner, DirTime)
        BY <1>3, <3>1 DEF SetTime, Outcome
      <3>3. QED
        BY <1>1, <3>1, <3>2 DEF DirTime
    <2>. HIDE DEF out, stat
    <2>2. PICK new : new = tree'
      OBVIOUS
    <2>3. DOMAIN new = DOMAIN tree /\ \A p \in DOMAIN tree : Alike(tree, new, p)
      <3>1. \A p \in DOMAIN tree : tree[p] \in NodeType
        BY <1>0, TreePaths
      <3>2. PICK time : time = dirs[k].time
        OBVIOUS
      <3>3. QED
        BY <2>1, <2>2, <3>1, <3>2, SetMetaAlike
    <2>4. Numbered'
      <3>1. \A p \in DOMAIN tree' : p \in DOMAIN tree /\ Alike(tree, tree', p)
        BY <2>2, <2>3
      <3>2. ~MayMake' /\ k' \in Nat
        BY <1>0, <1>3 DEF MayMake
      <3>3. QED
        BY <1>0, <1>1, <3>1, <3>2, NumberedAlike
    <2>5. Direct'
      BY <1>3 DEF Direct, MayMake
    <2>6. DOMAIN dirs = 1..Len(dirs) /\ Len(dirs) \in Nat
      BY <1>0 DEF CountersOK
    <2>7. ASSUME NEW i \in DOMAIN dirs
          PROVE  /\ LeadsTo(i)' = LeadsTo(i) /\ LeadsTo(i) \in DOMAIN tree
                 /\ IsDir(new, LeadsTo(i)) <=> IsDir(tree, LeadsTo(i))
      <3>1. dirs[i] \in [name : Seq(Name), time : Nat]
        BY <1>0, <2>6, ElementOfSeq DEF CountersOK
      <3>2. PICK path \in Seq(Part) : path = dirs[i].name
        BY <3>1 DEF Part
      <3>3. Stat(new, path) = Stat(tree, path)
        BY <2>3, StatAlike
      <3>4. Stat(tree, path).at \in DOMAIN tree
        BY <1>0, StatType
      <3>5. LeadsTo(i)' = Stat(new, path).at /\ LeadsTo(i) = Stat(tree, path).at
        BY <1>1, <2>2, <3>2 DEF LeadsTo
      <3>6. QED
        BY <2>3, <3>3, <3>4, <3>5 DEF IsDir, Exists, Alike
    <2>8. ASSUME NEW p \in DOMAIN tree
          PROVE  /\ tree[p].ino # tree[to].ino => new[p] = tree[p]
                 /\ tree[p].ino = tree[to].ino => new[p].time = dirs[k].time
      <3>1. new[p] = IF tree[p].ino = tree[to].ino
                     THEN [tree[p] EXCEPT !.owner = owner, !.time = dirs[k].time]
                     ELSE tree[p]
        BY <2>1, <2>2 DEF SetMeta
      <3>2. PICK node, time : node = tree[p] /\ time = dirs[k].time
        OBVIOUS
      <3>3. node \in NodeType
        BY <1>0, <3>2, TreePaths
      <3>4. [node EXCEPT !.owner = owner, !.time = time].time = time
        BY <3>3 DEF NodeType
      <3>5. QED
        BY <3>1, <3>2, <3>4
    <2>9. ASSUME NEW i \in DOMAIN dirs, i < k + 1, IsDir(new, LeadsTo(i)),
                 \A j \in DOMAIN dirs \ {i} : LeadsTo(j) # LeadsTo(i)
          PROVE  new[LeadsTo(i)].time = dirs[i].time
      <3>1. IsDir(tree, LeadsTo(i)) /\ LeadsTo(i) \in DOMAIN tree
        BY <2>7, <2>9
      <3>2. CASE i = k
        BY <2>1, <2>8, <3>1, <3>2
      <3>3. CASE i # k
        <4>1. i < k /\ k \in DOMAIN dirs
          BY <1>0, <2>6, <2>9, <3>3
        <4>2. tree[LeadsTo(i)].time = dirs[i].time
          BY <1>0, <2>9, <3>1, <4>1 DEF Restored, Settled
        <4>3. LeadsTo(i) # to /\ to \in DOMAIN tree
          BY <2>1, <2>7, <2>9, <3>3, <4>1
        <4>4. tree[LeadsTo(i)].ino # tree[to].ino
          BY <1>0, <3>1, <4>3 DEF Numbered, Numbers, DirInodes
        <4>5. QED
          BY <2>8, <3>1, <4>2, <4>4
      <3>4. QED
        BY <3>2, <3>3
    <2>10. ASSUME NEW i \in DOMAIN dirs, i < k + 1 PROVE Settled(i)'
      <3>1. \A j \in DOMAIN dirs : LeadsTo(j)' = LeadsTo(j)
        BY <2>7
      <3>2. dirs' = dirs
        BY <1>1
      <3>3. QED
        BY <2>2, <2>9, <2>10, <3>1, <3>2 DEF Settled
    <2>11. Restored'
      BY <1>1, <1>3, <2>10 DEF Restored
    <2>12. QED
      BY <2>4, <2>5, <2>11 DEF TimesInv
  <1>4. QED
    BY <1>1, <1>2, <1>3

\* The call returns: every time has been set.
LEMMA ReturnTimes == ASSUME IInv, TimesInv, TimesRestored PROVE TimesInv'
  <1>1. /\ pc = "times" /\ k > Len(dirs) /\ pc' = "done" /\ err' = "ok"
        /\ UNCHANGED <<tree, dirs, k>>
    BY DEF TimesRestored, Return, entry
  <1>2. Numbered' /\ Direct'
    BY <1>1 DEF Numbered, Direct, MayMake
  <1>3. \A i \in DOMAIN dirs : i < k => Settled(i)
    BY <1>1 DEF TimesInv, Restored
  <1>4. \A i \in DOMAIN dirs : Settled(i)' = Settled(i)
    BY <1>1 DEF Settled, LeadsTo
  <1>5. Restored'
    BY <1>1, <1>3, <1>4 DEF Restored
  <1>6. QED
    BY <1>2, <1>5 DEF TimesInv

\* An operation fails.
LEMMA FaultTimes == ASSUME Fault PROVE TimesInv'
  <1>1. pc' = "done" /\ err' # "ok"
    BY DEF Fault, Return
  <1>2. Numbered'
    BY <1>1 DEF Numbered
  <1>3. QED
    BY <1>1, <1>2, EntryEnds DEF TimesInv

\* Another process removes something, before any time is set.
LEMMA OtherTimes == ASSUME IInv, TimesInv, RemovedByOther PROVE TimesInv'
  <1>0. IsTree(tree) /\ n \in Nat /\ k \in Nat /\ Numbered /\ pc = "read"
    BY Typed DEF TimesInv, RemovedByOther
  <1>1. PICK at : tree' = RemoveTree(tree, at, Clock)
    BY DEF RemovedByOther
  <1>2. pc' = "read" /\ k' = k /\ n' = n
    BY <1>0 DEF RemovedByOther, entry
  <1>3. Direct' /\ Restored' /\ ~MayMake'
    BY <1>2, EntryEnds
  <1>4. Numbered'
    BY <1>0, <1>1, <1>2, <1>3, CutAlike, NumberedAlike
  <1>5. QED
    BY <1>3, <1>4 DEF TimesInv

\* Nothing changes.
LEMMA StutterTimes == ASSUME TimesInv, UNCHANGED vars PROVE TimesInv'
  <1>1. UNCHANGED <<tree, pc, dst, k, n, dirs, err>>
    BY DEF vars, entry
  <1>2. Numbered' /\ Direct'
    BY <1>1 DEF TimesInv, Numbered, Direct, MayMake, Parent
  <1>3. \A i : Settled(i)' = Settled(i)
    BY <1>1 DEF Settled, LeadsTo
  <1>4. Restored'
    BY <1>1, <1>3 DEF TimesInv, Restored
  <1>5. QED
    BY <1>2, <1>4 DEF TimesInv

\* Every step keeps the invariant of the times.
LEMMA NextTimes == IInv /\ TimesInv /\ [Next]_vars => TimesInv'
  <1>. SUFFICES ASSUME IInv, TimesInv, [Next]_vars PROVE TimesInv'
    OBVIOUS
  <1>1. CASE \E h \in archive : Read(h)
    BY <1>1, ReadTimes
  <1>2. CASE EndOfArchive \/ Clear \/ Remap \/ StartImplied \/ MakeImplied
    BY <1>2, EndTimes, ClearTimes, RemapTimes, StartTimes, ImpliedTimes
  <1>3. CASE MarkOpaque \/ MakeWhiteout \/ ChownWhiteout \/ Create
    BY <1>3, OpaqueTimes, WhiteoutTimes, ChownTimes, CreateTimes
  <1>4. CASE RestoreTime \/ TimesRestored \/ Fault \/ RemovedByOther
    BY <1>4, RestoreTimes, ReturnTimes, FaultTimes, OtherTimes
  <1>5. CASE UNCHANGED vars
    BY <1>5, StutterTimes
  <1>6. QED
    BY <1>1, <1>2, <1>3, <1>4, <1>5 DEF Next, Returned

\* It holds at the start.
LEMMA InitTimes == Init => TimesInv
  <1>. SUFFICES ASSUME Init PROVE TimesInv
    OBVIOUS
  <1>1. PICK c \in Calls : tree = c.tree
    BY DEF Init
  <1>2. pc = "read" /\ n = 0
    BY DEF Init
  <1>3. Numbered
    BY <1>1, <1>2, UnpackAssumption DEF Numbered, Numbers, DirInodes, MayMake
  <1>4. Direct /\ Restored
    BY <1>2 DEF Direct, Restored, MayMake
  <1>5. QED
    BY <1>3, <1>4 DEF TimesInv

-----------------------------------------------------------------------------
(* The theorems. *)

\* The state a call starts in.
LEMMA InitIInv == Init => IInv
  <1>. SUFFICES ASSUME Init PROVE IInv
    OBVIOUS
  <1>1. PICK c \in Calls :
           /\ tree = c.tree /\ lower = c.lower /\ archive = c.archive
           /\ options = [NoOverwriteDirNonDir |-> c.NoOverwriteDirNonDir,
                         WhiteoutFormat |-> c.WhiteoutFormat]
    BY DEF Init
  <1>2. /\ opaque = {} /\ base = tree /\ pc = "read" /\ dst = NoPath /\ k = 0 /\ n = 0
        /\ dirs = << >> /\ removals = 0
    BY DEF Init
  <1>3. Trees
    BY <1>1, <1>2, UnpackAssumption DEF Trees
  <1>4. CallOK
    <2>1. /\ archive \subseteq HeaderIn
          /\ c.WhiteoutFormat \in WhiteoutFormats
          /\ c.WhiteoutFormat = "AUFSWhiteoutFormat" =>
                \A h \in archive : h.type \notin ConvertedType
      BY <1>1, UnpackAssumption
    <2>2. Converts <=> c.WhiteoutFormat = "OverlayWhiteoutFormat"
      BY <1>1 DEF Converts
    <2>3. QED
      BY <1>2, <2>1, <2>2 DEF CallOK, WhiteoutFormats
  <1>5. EntryOK
    <2>1. Parent = << >> /\ << >> \in Seq(Name)
      BY <1>2, NoPathType DEF Parent
    <2>2. QED
      BY <1>2, <2>1 DEF EntryOK, InEntry
  <1>6. CountersOK
    BY <1>2, UnpackAssumption DEF CountersOK
  <1>7. DirsKept /\ Kept
    BY <1>2 DEF DirsKept, Kept
  <1>8. QED
    BY <1>3, <1>4, <1>5, <1>6, <1>7 DEF IInv

\* Nothing changes.
LEMMA StutterStep == ASSUME IInv, UNCHANGED vars PROVE IInv'
  <1>1. UNCHANGED <<tree, opaque, call, archive, base, pc, hdr, dst, k, n, dirs, removals>>
    BY DEF vars, entry
  <1>2. CallOK' /\ lower' = lower /\ options' = options
    BY <1>1, CallKept DEF IInv
  <1>3. Trees' /\ EntryOK' /\ CountersOK' /\ DirsKept'
    BY <1>1, <1>2 DEF IInv, Trees, EntryOK, InEntry, Parent, Converts, CountersOK, DirsKept
  <1>4. Kept'
    BY <1>1, <1>2 DEF IInv, Kept, Parent, AllThere, ParentThere
  <1>5. QED
    BY <1>2, <1>3, <1>4 DEF IInv

\* Every step keeps the invariant.
LEMMA NextIInv == IInv /\ [Next]_vars => IInv'
  <1>. SUFFICES ASSUME IInv, [Next]_vars PROVE IInv'
    OBVIOUS
  <1>1. CASE \E h \in archive : Read(h)
    BY <1>1, ReadStep
  <1>2. CASE EndOfArchive \/ Clear \/ Remap \/ StartImplied \/ MakeImplied
    BY <1>2, EndStep, ClearStep, RemapStep, StartImpliedStep, MakeImpliedStep
  <1>3. CASE MarkOpaque \/ MakeWhiteout \/ ChownWhiteout \/ Create
    BY <1>3, MarkOpaqueStep, MakeWhiteoutStep, ChownStep, CreateStep
  <1>4. CASE RestoreTime \/ TimesRestored \/ Fault \/ RemovedByOther
    BY <1>4, RestoreTimeStep, TimesRestoredStep, FaultStep, RemovedByOtherStep
  <1>5. CASE UNCHANGED vars
    BY <1>5, StutterStep
  <1>6. QED
    BY <1>1, <1>2, <1>3, <1>4, <1>5 DEF Next, Returned

\* The tree below dest stays a tree, an entry's path is one, and what the call
\* records of directories are paths and times.
THEOREM TypeCorrect == Spec => []TypeOK
  <1>1. Init => IInv
    BY InitIInv
  <1>2. IInv /\ [Next]_vars => IInv'
    BY NextIInv
  <1>3. IInv => TypeOK
    BY TypeImplied
  <1>4. QED
    BY <1>1, <1>2, <1>3, PTL DEF Spec

\* With NoOverwriteDirNonDir Unpack replaces no directory by a file and no file by
\* a directory, also by way of a link in an entry's path, of a directory it makes
\* for an entry, or of a removal that fails half way.
THEOREM DirsAreKept == Spec => []DirsKept
  <1>1. Init => IInv
    BY InitIInv
  <1>2. IInv /\ [Next]_vars => IInv'
    BY NextIInv
  <1>3. IInv => DirsKept
    BY DEF IInv
  <1>4. QED
    BY <1>1, <1>2, <1>3, PTL DEF Spec

\* After a call without an error every directory the archive lists has the time of
\* its header, although entries were made and removed below it and other
\* directories got theirs later, unless another directory entry leads there.
THEOREM TimesAreRestored == Spec => []DirTimesRestored
  <1>1. Init => IInv /\ TimesInv
    BY InitIInv, InitTimes
  <1>2. IInv /\ TimesInv /\ [Next]_vars => (IInv /\ TimesInv)'
    BY NextIInv, NextTimes
  <1>3. IInv /\ TimesInv => DirTimesRestored
    <2>1. SUFFICES ASSUME IInv, TimesInv, pc = "done", err = "ok", NEW i \in DOMAIN dirs
                   PROVE  Settled(i)
      BY DEF DirTimesRestored, Settled, LeadsTo
    <2>2. DOMAIN dirs = 1..Len(dirs) /\ Len(dirs) \in Nat /\ k \in Nat
      BY <2>1, Typed DEF CountersOK
    <2>3. i < k
      BY <2>1, <2>2 DEF TimesInv, Restored
    <2>4. QED
      BY <2>1, <2>3 DEF TimesInv, Restored
  <1>4. QED
    BY <1>1, <1>2, <1>3, PTL DEF Spec

-----------------------------------------------------------------------------
(***************************************************************************)
(* Unpack without a converter implements LayerView, as UnpackLayer does,   *)
(* for a destination that is no upper directory: without lower directories *)
(* and without whiteouts it is what the mount shows.  What the calls of    *)
(* Extract do to how a tree looks is in TreeProofs.  Here is first what    *)
(* the view is and what LayerView's steps are in terms of it, then the     *)
(* invariant the refinement needs, and then step by step why Unpack's are  *)
(* among them.                                                             *)
(***************************************************************************)
NoWhiteouts(tr) == \A p \in DOMAIN tr : tr[p].kind # "wh"
PlainCall == ~Converts /\ DOMAIN lower = {<< >>} /\ NoWhiteouts(tree)

\* A path that no tree has, so that nothing is hidden.
Nowhere == <<Up>>

ViewNow == IF InEntry THEN Mount(base) ELSE Mount(tree)
EntryNow == IF InEntry THEN [type |-> hdr.type, name |-> hdr.name, link |-> hdr.link]
            ELSE NoEntry
AppliedNow == IF err # "ok" THEN 0 ELSE IF InEntry THEN n - 1 ELSE n
StatusNow == IF err # "ok" THEN "failed" ELSE IF pc = "done" THEN "applied" ELSE "applying"
LayerVars == <<ViewNow, EntryNow, listed, AppliedNow, StatusNow>>

\* No path of names leads there.
LEMMA NotNowhere ==
    ASSUME NEW p \in Seq(Name)
    PROVE  ~Under(Nowhere, p)
  <1>1. SUFFICES ASSUME Under(Nowhere, p) PROVE FALSE
    OBVIOUS
  <1>2. Len(<<Up>>) = 1 /\ <<Up>>[1] = Up
    OBVIOUS
  <1>3. Len(p) >= 1 /\ p[1] = Up
    BY <1>1, <1>2 DEF Under, Nowhere
  <1>4. p[1] \in Name
    BY <1>3
  <1>5. QED
    BY <1>3, <1>4, PartKinds

\* So a tree has nothing there, and its links are made of parts.
LEMMA AllSpared ==
    ASSUME NEW tr, IsTree(tr)
    PROVE  Spares(tr, Part, Nowhere) /\ LinksWithin(tr, Part)
  <1>1. \A p \in DOMAIN tr : ~Under(Nowhere, p)
    BY TreePaths, NotNowhere
  <1>2. \A p \in DOMAIN tr : tr[p].link.to \in Seq(Part)
    BY TreePaths DEF NodeType, LinkType
  <1>3. QED
    BY <1>1, <1>2 DEF Spares, LinksWithin

\* What the mount shows of a plain destination is that destination.
LEMMA MountIs ==
    ASSUME NEW tr, IsTree(tr), NoWhiteouts(tr), DOMAIN lower = {<< >>}
    PROVE  Mount(tr) = ViewLess(tr, Nowhere)
  <1>1. ShownUpper(tr) = DOMAIN tr
    BY DEF ShownUpper, NoWhiteouts
  <1>2. ShownLower(tr) = {}
    BY RootThere DEF ShownLower
  <1>3. {p \in DOMAIN tr : ~Under(Nowhere, p)} = DOMAIN tr
    BY TreePaths, NotNowhere
  <1>4. Mount(tr) = [p \in DOMAIN tr |-> Shown(tr[p])]
    BY <1>1, <1>2 DEF Mount, Exists
  <1>5. QED
    BY <1>3, <1>4 DEF ViewLess

\* And after a step.
LEMMA MountAfter ==
    ASSUME NEW tr, IsTree(tr), NoWhiteouts(tr), DOMAIN lower = {<< >>}, lower' = lower,
           tree' = tr
    PROVE  Mount(tree)' = ViewLess(tr, Nowhere)
  <1>1. ShownUpper(tr) = DOMAIN tr
    BY DEF ShownUpper, NoWhiteouts
  <1>2. {p \in DOMAIN tr : ~Under(Nowhere, p)} = DOMAIN tr
    BY TreePaths, NotNowhere
  <1>3. DOMAIN lower' \ DOMAIN tr = {}
    BY RootThere
  <1>4. Mount(tree)' = [p \in DOMAIN tr |-> Shown(tr[p])]
    BY <1>1, <1>3 DEF Mount, Exists, ShownUpper, ShownLower
  <1>5. QED
    BY <1>2, <1>4 DEF ViewLess

\* LayerView looks a path up by the same steps.
LEMMA PromiseWalk ==
    ASSUME NEW v, NEW path, NEW scoped, NEW follow
    PROVE  Promise!Walk(v, path, scoped, follow) = Walk(v, path, scoped, follow)
  BY DEF Promise!Walk, Walk, Promise!WalkEnd, WalkEnd, Promise!WalkNext, WalkNext,
         Promise!WalkStep, WalkStep, Promise!WalkStart, WalkStart, Promise!WalkLink, WalkLink,
         Promise!WalkUp, WalkUp, Promise!Exists, Exists, Promise!Dot, Dot, Promise!Up, Up,
         Promise!Front, Front

\* The paths of LayerView are those of Unpack.
LEMMA PromisePaths ==
    ASSUME NEW v, NEW p, NEW q
    PROVE  /\ Promise!Front(p) = Front(p) /\ Promise!Last(p) = Last(p)
           /\ Promise!Under(p, q) <=> Under(p, q)
           /\ Promise!Below(p, q) <=> Below(p, q)
           /\ Promise!Exists(v, p) <=> p \in DOMAIN v
           /\ Promise!IsDir(v, p) <=> IsDir(v, p)
           /\ Promise!Parents(p) = Ancestors(p)
           /\ Promise!ADir = ADir /\ Promise!NoLink = NoLink /\ Promise!NoEntry = NoEntry
  BY DEF Promise!Front, Front, Promise!Last, Last, Promise!Under, Under, Promise!Below, Below,
         Promise!Exists, Exists, Promise!IsDir, IsDir, Promise!Parents, Ancestors,
         Promise!ADir, ADir, Promise!NoLink, NoLink, Promise!NoEntry, NoEntry

\* LayerView's walk of a view is the walk of Unpack on what is seen.
LEMMA PromisePlaces ==
    ASSUME NEW v, NEW p
    PROVE  /\ Promise!DirIn(v, p) = DirWith(v, p)
           /\ Promise!PlaceIn(v, p) = PlaceWith(v, p)
           /\ Promise!LeavesRootOf(v, p) <=> LeavesBelow(v, Front(p))
  <1>1. \A path : Promise!DirIn(v, path) = DirWith(v, path)
    BY PromiseWalk DEF Promise!DirIn, DirWith
  <1>2. Promise!PlaceIn(v, p) = PlaceWith(v, p)
    BY <1>1, PromisePaths DEF Promise!PlaceIn, PlaceWith
  <1>3. Promise!LeavesRootOf(v, p) <=> LeavesBelow(v, Front(p))
    BY PromiseWalk, PromisePaths DEF Promise!LeavesRootOf, LeavesBelow, Promise!Up, Up
  <1>4. QED
    BY <1>1, <1>2, <1>3

\* LayerView's operators on the view, instantiated, are those on what is seen of the tree.
LEMMA PromiseNow ==
    ASSUME NEW p, NEW paths
    PROVE  /\ Promise!DirAt(p) = DirWith(ViewNow, p)
           /\ Promise!Place(p) = PlaceWith(ViewNow, p)
           /\ Promise!LeavesRoot(p) <=> LeavesBelow(ViewNow, Front(p))
           /\ Promise!Keep(paths, p) = KeepIn(ViewNow, paths, p)
           /\ Promise!Outside(p) = OutsideIn(ViewNow, p)
           /\ Promise!Cleared(p) = ClearedIn(ViewNow, p)
  <1>1. /\ Promise!DirAt(p) = DirWith(ViewNow, p)
        /\ Promise!Place(p) = PlaceWith(ViewNow, p)
        /\ Promise!LeavesRoot(p) <=> LeavesBelow(ViewNow, Front(p))
    BY PromisePlaces DEF Promise!DirAt, Promise!Place, Promise!LeavesRoot, ViewNow
  <1>2. \A s : Promise!Keep(s, p) = KeepIn(ViewNow, s, p)
    BY PromisePaths DEF Promise!Keep, KeepIn, ViewNow
  <1>3. Promise!Outside(p) = OutsideIn(ViewNow, p)
    BY PromisePaths DEF Promise!Outside, OutsideIn, ViewNow
  <1>4. QED
    BY <1>1, <1>2, <1>3 DEF Promise!Cleared, ClearedIn

\* What is left of an entry that failed, around its place.
HalfApplied(v, w, h) ==
    /\ h.type \notin {"meta", "plnk", "opaque"} /\ h.name \notin Skipped
    /\ ~LeavesBelow(v, Front(h.name))
    /\ AroundIn(v, w, PlaceWith(v, h.name))

\* A return with an error, with the entry half applied or not begun, is a step of LayerView.
LEMMA PromiseFail ==
    ASSUME StatusNow = "applying", StatusNow' = "failed", EntryNow' = NoEntry,
           AppliedNow' = 0, UNCHANGED listed,
           \/ ViewNow' = ViewNow
           \/ EntryNow # NoEntry /\ HalfApplied(ViewNow, ViewNow', EntryNow)
    PROVE  Promise!Next
  <1>1. CASE ViewNow' = ViewNow
    BY <1>1 DEF Promise!Next, Promise!Fail, StatusNow, EntryNow, AppliedNow, ViewNow,
                Promise!NoEntry, NoEntry
  <1>2. CASE EntryNow # NoEntry /\ HalfApplied(ViewNow, ViewNow', EntryNow)
    <2>1. PICK h : h = EntryNow
      OBVIOUS
    <2>2. PICK p : p = PlaceWith(ViewNow, h.name)
      OBVIOUS
    <2>3. p = Promise!Place(h.name)
      BY <2>2, PromiseNow
    <2>4. ~Promise!Ignored(h) /\ ~Promise!LeavesRoot(h.name)
      BY <1>2, <2>1, PromiseNow DEF HalfApplied, Promise!Ignored
    <2>5. /\ Promise!Outside(p) = OutsideIn(ViewNow, p) /\ Promise!Parents(p) = Ancestors(p)
      BY PromiseNow, PromisePaths
    <2>6. \A q \in OutsideIn(ViewNow, p) : q \in DOMAIN ViewNow' /\ ViewNow'[q] = ViewNow[q]
      BY <1>2, <2>1, <2>2 DEF HalfApplied, AroundIn
    <2>7. \A q \in DOMAIN ViewNow' \ DOMAIN ViewNow : q \in Ancestors(p) \union {p}
      BY <1>2, <2>1, <2>2 DEF HalfApplied, AroundIn
    <2>8. Promise!InPart(h)
      BY <1>2, <2>1, <2>3, <2>4, <2>5, <2>6, <2>7 DEF HalfApplied, Promise!InPart,
         Promise!Exists, ViewNow
    <2>9. QED
      BY <1>2, <2>1, <2>8 DEF Promise!Next, Promise!Fail, StatusNow, EntryNow, AppliedNow, ViewNow,
                Promise!NoEntry, NoEntry
  <1>3. QED
    BY <1>1, <1>2

\* Reading a header is the step that takes an entry.
LEMMA PromiseTake ==
    ASSUME StatusNow = "applying", EntryNow = NoEntry, NEW h \in UNION {c.archive : c \in Calls},
           EntryNow' = [type |-> h.type, name |-> h.name, link |-> h.link],
           UNCHANGED <<ViewNow, listed, AppliedNow, StatusNow>>
    PROVE  Promise!Next
  BY DEF Promise!Next, Promise!Take, StatusNow, EntryNow, AppliedNow, ViewNow,
         Promise!NoEntry, NoEntry

\* A header that is passed over counts as applied and changes nothing.
LEMMA PromisePassOver ==
    ASSUME StatusNow = "applying", EntryNow = NoEntry, NEW h \in UNION {c.archive : c \in Calls},
           h.name \in Skipped, AppliedNow' = AppliedNow + 1,
           UNCHANGED <<ViewNow, EntryNow, listed, StatusNow>>
    PROVE  Promise!Next
  BY DEF Promise!Next, Promise!PassOver, Promise!Ignored, StatusNow, EntryNow, AppliedNow, ViewNow,
         Promise!NoEntry, NoEntry

\* The end of the archive with no entry at hand is LayerView's finish.
LEMMA PromiseFinish ==
    ASSUME StatusNow = "applying", StatusNow' = "applied", EntryNow = NoEntry,
           UNCHANGED <<ViewNow, EntryNow, listed, AppliedNow>>
    PROVE  Promise!Next
  BY DEF Promise!Next, Promise!Finish, StatusNow, EntryNow, AppliedNow, ViewNow,
         Promise!NoEntry, NoEntry

\* A file removed by another process between entries is LayerView's loss.
LEMMA PromiseLose ==
    ASSUME MaxRemovals > 0, EntryNow = NoEntry,
           UNCHANGED <<EntryNow, listed, AppliedNow, StatusNow>>,
           NEW p \in DOMAIN ViewNow \ DOMAIN ViewNow',
           ViewNow' = KeepIn(ViewNow, OutsideIn(ViewNow, p), << >>)
    PROVE  Promise!Next
  <1>1. /\ Promise!Outside(p) = OutsideIn(ViewNow, p)
        /\ Promise!Keep(OutsideIn(ViewNow, p), << >>) = KeepIn(ViewNow, OutsideIn(ViewNow, p), << >>)
    BY PromiseNow
  <1>2. Promise!Lose
    BY <1>1 DEF Promise!Lose, StatusNow, EntryNow, AppliedNow, ViewNow, Promise!NoEntry, NoEntry
  <1>3. QED
    BY <1>2 DEF Promise!Next

\* An entry put at its place, with its path recorded, is LayerView's Put.
LEMMA PromisePut ==
    ASSUME NEW h, NEW p, p = PlaceWith(ViewNow, h.name),
           PutAs(ViewNow, ViewNow', h, p, AppliedNow + 1),
           NEW path \in {h.name, p}, listed' = listed \union {path}
    PROVE  Promise!Put(h)
  <1>1. /\ Promise!Place(h.name) = p /\ Promise!Cleared(p) = ClearedIn(ViewNow, p)
        /\ Promise!Parents(p) = Ancestors(p) /\ Promise!ADir = ADir /\ Promise!NoLink = NoLink
    BY PromiseNow, PromisePaths
  <1>2. Promise!Reachable(p) <=> Reaches(ViewNow, p)
    BY <1>1, PromisePaths DEF Promise!Reachable, Reaches, ViewNow
  <1>3. \A look : ViewNow' = ReplacedIn(ViewNow, p, look) => Promise!Replace(p, look)
    BY <1>1 DEF Promise!Replace, ReplacedIn, ViewNow
  <1>4. \A kind, link : Promise!Fresh(kind, link, p) = FreshIn(kind, link, p, AppliedNow + 1)
    BY DEF Promise!Fresh, FreshIn, AppliedNow
  <1>5. Promise!IsDir(ViewNow, p) <=> IsDir(ViewNow, p)
    BY PromisePaths
  <1>6. \/ Promise!PutDir(h) \/ Promise!PutFile(h) \/ Promise!PutSymlink(h)
        \/ Promise!PutDevice(h) \/ Promise!PutLink(h)
    <2>1. CASE h.type = "dir" /\ Reaches(ViewNow, p) /\ IsDir(ViewNow, p) /\ ViewNow' = ViewNow
      BY <1>1, <1>2, <1>5, <2>1 DEF Promise!PutDir, ViewNow
    <2>2. CASE /\ h.type = "dir" /\ Reaches(ViewNow, p) /\ ~IsDir(ViewNow, p)
               /\ ViewNow' = ReplacedIn(ViewNow, p, ADir)
      BY <1>1, <1>2, <1>3, <1>5, <2>2 DEF Promise!PutDir, ViewNow
    <2>3. CASE /\ h.type \in {"reg", "plink"} /\ Reaches(ViewNow, p)
               /\ ViewNow' = ReplacedIn(ViewNow, p, FreshIn("reg", NoLink, p, AppliedNow + 1))
      BY <1>1, <1>2, <1>3, <1>4, <2>3 DEF Promise!PutFile
    <2>4. CASE /\ h.type = "sym" /\ Reaches(ViewNow, p)
               /\ ViewNow' = ReplacedIn(ViewNow, p, FreshIn("sym", h.link, p, AppliedNow + 1))
      BY <1>1, <1>2, <1>3, <1>4, <2>4 DEF Promise!PutSymlink
    <2>5. CASE h.type = "dev" /\ InUserNS /\ Reaches(ViewNow, p) /\ ViewNow' = ClearedIn(ViewNow, p)
      BY <1>1, <1>2, <2>5, ExtractAssumption DEF Promise!PutDevice, ViewNow
    <2>6. CASE h.type = "dev" /\ InUserNS /\ ~Reaches(ViewNow, p) /\ ViewNow' = ViewNow
      BY <1>1, <1>2, <2>6, ExtractAssumption DEF Promise!PutDevice, ViewNow
    <2>7. CASE /\ h.type = "dev" /\ ~InUserNS /\ Reaches(ViewNow, p)
               /\ ViewNow' = ReplacedIn(ViewNow, p, FreshIn("dev", NoLink, p, AppliedNow + 1))
      <3>1. Promise!Replace(p, Promise!Fresh("dev", Promise!NoLink, p))
        BY <1>1, <1>3, <1>4, <2>7
      <3>2. QED
        BY <1>1, <1>2, <3>1, <2>7, ExtractAssumption DEF Promise!PutDevice
    <2>8. CASE h.type = "link" /\ Reaches(ViewNow, p) /\ LinkIn(ViewNow, ViewNow', p, h.link.to, AppliedNow + 1)
      <3>1. PICK c : c = ClearedIn(ViewNow, p)
        OBVIOUS
      <3>2. PICK t : /\ t = PlaceWith(c, h.link.to) /\ ~LeavesBelow(c, Front(h.link.to))
                     /\ t \in DOMAIN c /\ ~IsDir(c, t)
                     /\ ViewNow' = ReplacedIn(ViewNow, p, [ViewNow[t] EXCEPT !.by = AppliedNow + 1])
        BY <2>8, <3>1 DEF LinkIn
      <3>3. /\ Promise!PlaceIn(c, h.link.to) = t /\ ~Promise!LeavesRootOf(c, h.link.to)
            /\ Promise!Exists(c, t) /\ ~Promise!IsDir(c, t)
        BY <3>2, PromisePlaces, PromisePaths
      <3>4. Promise!Replace(p, [ViewNow[t] EXCEPT !.by = AppliedNow + 1])
        BY <1>3, <3>2
      <3>5. QED
        BY <1>1, <1>2, <2>8, <3>1, <3>3, <3>4 DEF Promise!PutLink, ViewNow, AppliedNow
    <2>9. QED
      BY <2>1, <2>2, <2>3, <2>4, <2>5, <2>6, <2>7, <2>8 DEF PutAs
  <1>7. QED
    BY <1>1, <1>6 DEF Promise!Put

\* An entry is done.
EntryDone(h) ==
    /\ h.type \notin {"meta", "plnk"} /\ h.name \notin Skipped
    /\ ~LeavesBelow(ViewNow, Front(h.name))
    /\ \E p, path : /\ p = PlaceWith(ViewNow, h.name)
                    /\ PutAs(ViewNow, ViewNow', h, p, AppliedNow + 1)
                    /\ path \in {h.name, p} /\ listed' = listed \union {path}

\* An entry done is LayerView's Apply.
LEMMA PromiseApply ==
    ASSUME StatusNow = "applying", EntryNow # NoEntry, EntryNow' = NoEntry,
           AppliedNow' = AppliedNow + 1, UNCHANGED StatusNow, EntryDone(EntryNow)
    PROVE  Promise!Next
  <1>1. PICK h : h = EntryNow
    OBVIOUS
  <1>2. ~Promise!Ignored(h) /\ ~Promise!LeavesRoot(h.name)
    BY <1>1, PromiseNow DEF EntryDone, Promise!Ignored
  <1>3. Promise!Put(h)
    BY <1>1, PromisePut DEF EntryDone
  <1>4. Promise!Apply
    BY <1>1, <1>2, <1>3 DEF Promise!Apply, StatusNow, EntryNow, AppliedNow, ViewNow,
           Promise!NoEntry, NoEntry
  <1>5. QED
    BY <1>4 DEF Promise!Next

-----------------------------------------------------------------------------
(* A plain call stays one. *)

PlainInv ==
    /\ ~Converts /\ DOMAIN lower = {<< >>}
    /\ NoWhiteouts(tree) /\ NoWhiteouts(base)
    /\ archive \subseteq UNION {c.archive : c \in Calls}
    /\ pc \notin {"convert", "chown"}
    /\ InEntry => hdr.name \in Seq(Name) /\ hdr.name \notin Skipped

\* What is cut, or looks as it did, leaves no whiteout.
LEMMA PlainKept ==
    ASSUME NEW old, NoWhiteouts(old), NEW new,
           \A q \in DOMAIN new : q \in DOMAIN old /\ Shown(new[q]) = Shown(old[q])
    PROVE  NoWhiteouts(new)
  BY ShownWay DEF NoWhiteouts

\* Nor does a node that is made and looks like none.
LEMMA PlainMade ==
    ASSUME NEW old, NoWhiteouts(old), NEW new, NEW at, NEW look, MadeAt(old, new, at, look),
           look.kind # "wh"
    PROVE  NoWhiteouts(new)
  <1>1. SUFFICES ASSUME NEW q \in DOMAIN new PROVE new[q].kind # "wh"
    BY DEF NoWhiteouts
  <1>2. CASE q \in DOMAIN old
    BY <1>2, ShownWay DEF MadeAt, NoWhiteouts
  <1>3. CASE q \notin DOMAIN old
    <2>1. q = at /\ Shown(new[at]) = look
      BY <1>1, <1>3 DEF MadeAt
    <2>2. PICK node : node = new[at] /\ Shown(node).kind # "wh"
      BY <2>1
    <2>3. node.kind # "wh"
      BY <2>2 DEF Shown
    <2>4. QED
      BY <2>1, <2>2, <2>3
  <1>4. QED
    BY <1>2, <1>3

\* createTarFile makes none.
LEMMA PlainCreated ==
    ASSUME NEW old, NoWhiteouts(old), NEW new, NEW l, NEW h, CreatedSeen(old, new, l, h)
    PROVE  NoWhiteouts(new)
  <1>1. \A kind, link : Shown(New(h, l.at, kind, link)).kind = kind
    BY NewLooks DEF FreshIn, ADir
  <1>2. ASSUME NEW kind, NEW link, kind # "wh", NewKind(old, new, l, h, kind, link)
        PROVE  NoWhiteouts(new)
    BY <1>1, <1>2, PlainMade DEF NewKind
  <1>3. ASSUME NEW at, NEW by, at \in DOMAIN old, SeenStamp(old, new, at, by)
        PROVE  NoWhiteouts(new)
    <2>1. SUFFICES ASSUME NEW q \in DOMAIN new PROVE new[q].kind # "wh"
      BY DEF NoWhiteouts
    <2>2. q \in DOMAIN old
      BY <1>3 DEF SeenStamp
    <2>3. CASE q # at
      BY <1>3, <2>2, <2>3, ShownWay DEF SeenStamp, NoWhiteouts
    <2>4. CASE q = at
      <3>1. PICK node, was : /\ node = new[at] /\ was = old[at]
                             /\ Shown(node) = Shown([was EXCEPT !.by = by]) /\ was.kind # "wh"
        BY <1>3 DEF SeenStamp, NoWhiteouts
      <3>2. [was EXCEPT !.by = by].kind # "wh"
        BY <3>1
      <3>3. node.kind # "wh"
        BY <3>1, <3>2, ShownWay
      <3>4. QED
        BY <2>4, <3>1, <3>3
    <2>5. QED
      BY <2>3, <2>4
  <1>4. ASSUME NEW from, from.at \in DOMAIN old,
               MadeAt(old, new, l.at, Shown([old[from.at] EXCEPT !.by = h.by]))
        PROVE  NoWhiteouts(new)
    <2>1. PICK was, by : was = old[from.at] /\ by = h.by /\ was.kind # "wh"
      BY <1>4 DEF NoWhiteouts
    <2>2. PICK node : node = [was EXCEPT !.by = by]
      OBVIOUS
    <2>3. node.kind # "wh"
      BY <2>1, <2>2
    <2>4. Shown(node).kind # "wh"
      BY <2>3 DEF Shown, ADir
    <2>5. MadeAt(old, new, l.at, Shown(node))
      BY <1>4, <2>1, <2>2
    <2>6. QED
      BY <2>4, <2>5, PlainMade
  <1>5. QED
    BY <1>2, <1>3, <1>4 DEF CreatedSeen, IsDir, Exists

\* The entry, or it with another owner and time, made.
LEMMA MakesPlain ==
    ASSUME IInv, PlainInv, pc = "create", NEW h \in Header, h.type = hdr.type,
           NEW out, out = createTarFile(tree, dst.path, h)
    PROVE  NoWhiteouts(out.tree)
  <1>1. IsTree(tree) /\ EntryOK
    BY Typed
  <1>2. h.type \in {"dir", "reg", "dev", "sym", "link"}
    <2>1. hdr.type \in EntryType \ {"meta", "plnk", "plink"}
      BY <1>1 DEF EntryOK, InEntry, EntryIn
    <2>2. QED
      BY <1>1, <2>1 DEF EntryOK, EntryType, ConvertedType
  <1>3. PICK path, l : path = dst.path /\ l = Locate(tree, path) /\ Front(path) \in Seq(Part)
    BY <1>1, PathParts
  <1>4. CASE out.err # "ok"
    <2>1. out.tree = tree
      BY <1>1, <1>2, <1>3, <1>4, CreateSeen
    <2>2. QED
      BY <2>1 DEF PlainInv
  <1>5. CASE out.err = "ok"
    <2>1. CreatedSeen(tree, out.tree, l, h)
      BY <1>1, <1>2, <1>3, <1>5, CreateSeen
    <2>2. QED
      BY <2>1, PlainCreated DEF PlainInv
  <1>6. QED
    BY <1>4, <1>5

\* No step on the tree makes a whiteout.
LEMMA TreeStaysPlain ==
    ASSUME IInv, PlainInv, [Next]_vars
    PROVE  NoWhiteouts(tree')
  <1>. USE Typed
  <1>1. CASE tree' = tree
    BY <1>1 DEF PlainInv
  <1>2. ASSUME NEW at, tree' = RemoveTree(tree, at, Clock)
        PROVE  NoWhiteouts(tree')
    <2>1. PICK left : left = tree' /\ SeenCut(tree, left, at)
      BY <1>2, CutSeen
    <2>2. QED
      BY <2>1, PlainKept DEF SeenCut, PlainInv
  <1>3. CASE Clear
    <2>1. pc = "clear" /\ tree' = Cleared(There).tree
      BY <1>3 DEF Clear, Then
    <2>2. tree' = tree \/ \E at : tree' = RemoveTree(tree, at, Clock)
      BY <2>1, ClearOutcome
    <2>3. QED
      BY <1>1, <1>2, <2>2
  <1>4. CASE MakeImplied
    <2>1. PICK cur, h, out, l : /\ cur = SubSeq(Parent, 1, k) /\ h = hdr /\ l = Locate(tree, cur)
                                /\ out = mkdirImplied(tree, cur, h)
      OBVIOUS
    <2>2. tree' = out.tree
      BY <1>4, <2>1 DEF MakeImplied, Then
    <2>3. tree' = tree \/ ImpliedSeenAs(tree, tree', cur, l)
      BY <2>1, <2>2, ImpliedSeen
    <2>4. tree' = tree \/ MadeAt(tree, tree', l.at, ADir)
      BY <2>3 DEF ImpliedSeenAs
    <2>5. CASE MadeAt(tree, tree', l.at, ADir)
      <3>1. ADir.kind # "wh"
        BY DEF ADir
      <3>2. QED
        BY <2>5, <3>1, PlainMade DEF PlainInv
    <2>6. QED
      BY <1>1, <2>4, <2>5
  <1>5. CASE Create
    <2>1. pc = "create" /\ tree' = createTarFile(tree, dst.path, hdr).tree
      BY <1>5 DEF Create, Then
    <2>2. hdr \in Header
      BY <2>1, CreateHeader
    <2>3. QED
      BY <2>1, <2>2, MakesPlain
  <1>6. CASE RestoreTime
    <2>1. PICK stat, time, out : /\ stat = Stat(tree, dirs[k].name) /\ time = DirTime
                                 /\ out = SetTime(tree, stat, time)
      OBVIOUS
    <2>2. tree' = out.tree
      BY <1>6, <2>1 DEF RestoreTime, Then, chtimes
    <2>3. tree' = tree \/ tree' = SetMeta(tree, stat.at, tree[stat.at].owner, time)
      BY <2>1, <2>2 DEF SetTime, Outcome
    <2>4. CASE tree' = SetMeta(tree, stat.at, tree[stat.at].owner, time)
      <3>1. SeenSame(tree, tree')
        BY <2>4, SetMetaSeen
      <3>2. QED
        BY <3>1, PlainKept DEF SeenSame, PlainInv
    <2>5. QED
      BY <1>1, <2>3, <2>4
  <1>7. CASE Fault
    <2>1. \/ tree' = tree
          \/ \E q : tree' = RemoveTree(tree, q, Clock)
          \/ pc = "create" /\ tree' \in HalfMade
      BY <1>7 DEF Fault
    <2>2. CASE pc = "create" /\ tree' \in HalfMade
      <3>1. PICK h : h = [hdr EXCEPT !.owner = Process, !.time = Clock]
        OBVIOUS
      <3>2. tree' = createTarFile(tree, dst.path, h).tree
        BY <2>2, <3>1 DEF HalfMade
      <3>3. hdr \in Header
        BY <2>2, CreateHeader
      <3>4. Process \in Nat /\ Clock \in Nat
        BY ExtractAssumption DEF Process
      <3>5. h \in Header /\ h.type = hdr.type
        BY <3>1, <3>3, <3>4, HeaderExcept DEF Header
      <3>6. QED
        BY <2>2, <3>2, <3>5, MakesPlain
    <2>3. QED
      BY <1>1, <1>2, <2>1, <2>2
  <1>8. CASE RemovedByOther
    BY <1>2, <1>8 DEF RemovedByOther
  <1>9. CASE MarkOpaque \/ MakeWhiteout \/ ChownWhiteout
    BY <1>9 DEF MarkOpaque, MakeWhiteout, ChownWhiteout, PlainInv
  <1>10. CASE \/ \E h \in archive : Read(h)
              \/ EndOfArchive \/ Remap \/ StartImplied \/ TimesRestored \/ Returned
              \/ UNCHANGED vars
    <2>1. tree' = tree
      BY <1>10 DEF Read, EndOfArchive, Remap, StartImplied, TimesRestored, Returned, vars
    <2>2. QED
      BY <1>1, <2>1
  <1>11. QED
    BY <1>3, <1>4, <1>5, <1>6, <1>7, <1>8, <1>9, <1>10 DEF Next

\* What a step makes of the base is the tree it read, or less of what it was.
LEMMA BaseStaysPlain ==
    ASSUME IInv, PlainInv, [Next]_vars
    PROVE  NoWhiteouts(base')
  <1>1. CASE base' = base
    BY <1>1 DEF PlainInv
  <1>2. CASE \E h \in archive : Read(h)
    BY <1>2 DEF Read, PlainInv
  <1>3. CASE RemovedByOther
    <2>1. PICK p : base' = base \/ base' = RemoveTree(base, p, Clock)
      BY <1>3 DEF RemovedByOther
    <2>2. CASE base' = RemoveTree(base, p, Clock)
      <3>1. PICK left : left = base' /\ SeenCut(base, left, p)
        BY <2>2, CutSeen DEF IInv, Trees
      <3>2. QED
        BY <3>1, PlainKept DEF SeenCut, PlainInv
    <2>3. QED
      BY <1>1, <2>1, <2>2
  <1>4. QED
    BY <1>1, <1>2, <1>3 DEF Next, EndOfArchive, Clear, Remap, StartImplied, MakeImplied,
           MarkOpaque, MakeWhiteout, ChownWhiteout, Create, RestoreTime, TimesRestored, Fault,
           Returned, vars

\* What the entry's header is made of.
LEMMA EntryStaysPlain ==
    ASSUME IInv, PlainInv, [Next]_vars
    PROVE  /\ pc' \notin {"convert", "chown"}
           /\ InEntry' => hdr'.name \in Seq(Name) /\ hdr'.name \notin Skipped
  <1>1. ASSUME NEW h \in archive, Read(h)
        PROVE  /\ pc' \notin {"convert", "chown"}
               /\ InEntry' => hdr'.name \in Seq(Name) /\ hdr'.name \notin Skipped
    <2>1. \/ ~InEntry'
          \/ /\ pc' = "clear" /\ h.name \notin Skipped /\ Head(h.name) # Up /\ hdr' = Entry(h)
      BY <1>1 DEF Read, Continue, Return, InEntry
    <2>2. CASE ~InEntry'
      BY <2>2 DEF InEntry
    <2>3. CASE pc' = "clear" /\ h.name \notin Skipped /\ Head(h.name) # Up /\ hdr' = Entry(h)
      <3>1. h \in HeaderIn /\ h.type \notin ConvertedType /\ h.name # << >>
        BY <2>3 DEF IInv, CallOK, PlainInv, Skipped
      <3>2. h.name \in Seq(Name)
        BY <2>3, <3>1, ReadHeader
      <3>3. hdr'.name = h.name
        BY <2>3 DEF Entry
      <3>4. QED
        BY <2>3, <3>2, <3>3
    <2>4. QED
      BY <2>1, <2>2, <2>3
  <1>2. CASE Remap
    <2>1. (hdr' = remapIDs(hdr) /\ pc' = "implied" /\ pc = "remap") \/ pc' = "done"
      BY <1>2 DEF Remap, Return
    <2>2. pc = "remap" => hdr \in EntryIn
      BY DEF IInv, EntryOK, InEntry
    <2>3. pc = "remap" => remapIDs(hdr).name = hdr.name
      BY <2>2 DEF remapIDs, EntryIn
    <2>4. QED
      BY <2>1, <2>3 DEF PlainInv, InEntry
  <1>3. CASE hdr' = hdr /\ InEntry /\ pc' \notin {"convert", "chown"}
    BY <1>3 DEF PlainInv
  <1>4. CASE ~InEntry'
    BY <1>4 DEF InEntry
  <1>5. AfterImplied = "create"
    BY DEF AfterImplied, PlainInv
  <1>6. CASE Clear
    BY <1>3, <1>4, <1>6 DEF Clear, Then, Return, entry, InEntry
  <1>7. CASE StartImplied \/ MakeImplied
    BY <1>3, <1>4, <1>5, <1>7 DEF StartImplied, MakeImplied, Then, Return, entry, InEntry
  <1>8. CASE Create
    BY <1>4, <1>8 DEF Create, Then, Continue, Return, InEntry
  <1>9. CASE EndOfArchive \/ RestoreTime \/ TimesRestored \/ Fault \/ RemovedByOther
    BY <1>4, <1>9 DEF EndOfArchive, RestoreTime, Then, TimesRestored, Fault, RemovedByOther,
                      Return, InEntry
  <1>10. CASE MarkOpaque \/ MakeWhiteout \/ ChownWhiteout
    BY <1>10 DEF MarkOpaque, MakeWhiteout, ChownWhiteout, PlainInv
  <1>11. CASE Returned \/ UNCHANGED vars
    BY <1>11 DEF Returned, vars, entry, PlainInv, InEntry
  <1>12. QED
    BY <1>1, <1>2, <1>6, <1>7, <1>8, <1>9, <1>10, <1>11 DEF Next

\* The call is what it was, and no entry is added.
LEMMA NextPlain == IInv /\ PlainInv /\ [Next]_vars => PlainInv'
  <1>. SUFFICES ASSUME IInv, PlainInv, [Next]_vars PROVE PlainInv'
    OBVIOUS
  <1>1. UNCHANGED call
    BY DEF Next, Read, EndOfArchive, Clear, Remap, StartImplied, MakeImplied, MarkOpaque,
           MakeWhiteout, ChownWhiteout, Create, RestoreTime, TimesRestored, Fault,
           RemovedByOther, Returned, vars
  <1>2. archive' \subseteq archive
    BY DEF Next, Read, Remaining, EndOfArchive, Clear, Remap, StartImplied, MakeImplied,
           MarkOpaque, MakeWhiteout, ChownWhiteout, Create, RestoreTime, TimesRestored, Fault,
           RemovedByOther, Returned, vars
  <1>3. Converts' = Converts /\ lower' = lower
    BY <1>1 DEF Converts, call
  <1>4. QED
    BY <1>2, <1>3, TreeStaysPlain, BaseStaysPlain, EntryStaysPlain DEF PlainInv

\* A plain call starts with one of its archives.
LEMMA InitPlain == Init /\ PlainCall => PlainInv
  <1>. SUFFICES ASSUME Init, PlainCall PROVE PlainInv
    OBVIOUS
  <1>1. \E c \in Calls : archive = c.archive
    BY DEF Init
  <1>2. pc = "read" /\ base = tree
    BY DEF Init
  <1>3. QED
    BY <1>1, <1>2 DEF PlainInv, PlainCall, InEntry

-----------------------------------------------------------------------------
(***************************************************************************)
(* The invariant of the refinement.  The place of an entry is where a      *)
(* chroot finds it in the tree its header was read from.  Until the place  *)
(* is cleared the tree is that one; then it differs by what lay in the     *)
(* place, and by the directories made on the way to it.                    *)
(***************************************************************************)
Way == Walk(base, Front(hdr.name), TRUE, TRUE)
Dir == Way.at
Spot == Append(Dir, Last(hdr.name))

Going == pc # "done" => err = "ok"

FromBase == InEntry => ResolvedAs(base, hdr.name, dst, Way)

AtPlace ==
    /\ pc = "clear" => tree = base
    /\ pc \in {"remap", "implied", "create"} => ReadyFor(base, tree, Spot, hdr.type)

WayMade ==
    /\ pc = "implied" => \A i \in 1..k-1 : SubSeq(Parent, 1, i) \in DOMAIN tree
    /\ pc \in {"remap", "implied"} /\ dst.parentWasPresent => Dir \in DOMAIN tree
    /\ pc = "create" => Dir \in DOMAIN tree

ViewInv == Going /\ FromBase /\ AtPlace /\ WayMade

\* What is so of the place of an entry, and of the path it was given.
SpotOK ==
    /\ hdr.name \in Seq(Name) /\ hdr.name # << >> /\ Front(hdr.name) \in Seq(Part)
    /\ Dir \in Seq(Name) /\ Last(hdr.name) \in Name
    /\ Spot \in Seq(Name) /\ Spot # << >> /\ Front(Spot) = Dir
    /\ dst.path # << >> /\ Last(dst.path) = Last(hdr.name)
PresentOK ==
    dst.parentWasPresent =>
        /\ dst.path = hdr.name /\ Parent = Front(hdr.name)
        /\ Walk(base, Parent, FALSE, TRUE) = Way /\ Way.err = "ok"
        /\ Dir \in DOMAIN base
AbsentOK == ~dst.parentWasPresent => dst.path = Spot /\ Parent = Dir

\* While an entry is applied its place is a path of names.
LEMMA SpotType ==
    ASSUME IInv, PlainInv, FromBase, InEntry
    PROVE  SpotOK /\ PresentOK /\ AbsentOK
  <1>. USE Typed
  <1>1. PICK name, last, r : name = hdr.name /\ last = Last(name) /\ r = dst
    OBVIOUS
  <1>2. name \in Seq(Name) /\ name # << >> /\ r.path # << >>
    BY <1>1 DEF PlainInv, Skipped
  <1>3. PICK front : front = Front(name) /\ front \in Seq(Name) /\ front \in Seq(Part)
    BY <1>2, FrontProperties DEF Part
  <1>4. last \in Name
    BY <1>1, <1>2 DEF Last
  <1>5. PICK w, dir : w = Way /\ dir = Dir /\ w = Walk(base, front, TRUE, TRUE) /\ dir = w.at
    BY <1>1, <1>3 DEF Way, Dir
  <1>6. dir \in Seq(Name)
    <2>1. PICK yes \in BOOLEAN : yes = TRUE
      OBVIOUS
    <2>2. OnTree(base, yes, Walk(base, front, yes, yes))
      BY <1>3, WalkType DEF Trees
    <2>3. QED
      BY <1>5, <2>1, <2>2 DEF OnTree, WalkState
  <1>7. PICK spot : spot = Spot /\ spot = Append(dir, last)
    BY <1>1, <1>5 DEF Spot
  <1>8. spot # << >> /\ Front(spot) = dir /\ Last(spot) = last /\ spot \in Seq(Name)
    BY <1>4, <1>6, <1>7, FrontAppend
  <1>9. ResolvedAs(base, name, r, w)
    BY <1>1, <1>5 DEF FromBase
  <1>10. r.path = name \/ r.path = spot
    BY <1>1, <1>7, <1>5, <1>9 DEF ResolvedAs
  <1>11. Last(r.path) = last
    BY <1>1, <1>8, <1>10
  <1>12. SpotOK
    BY <1>1, <1>2, <1>3, <1>4, <1>5, <1>6, <1>7, <1>8, <1>11 DEF SpotOK
  <1>13. PresentOK
    <2>1. SUFFICES ASSUME r.parentWasPresent PROVE PresentOK
      BY <1>1 DEF PresentOK
    <2>2. r.path = name /\ w = Walk(base, front, FALSE, TRUE) /\ w.err = "ok"
      BY <1>1, <1>3, <1>9, <2>1 DEF ResolvedAs
    <2>3. Parent = front
      BY <1>1, <1>3, <2>2 DEF Parent
    <2>4. PICK no \in BOOLEAN, yes \in BOOLEAN : no = FALSE /\ yes = TRUE
      OBVIOUS
    <2>5. OnTree(base, no, Walk(base, front, no, yes))
      BY <1>3, WalkType DEF Trees
    <2>6. dir \in DOMAIN base
      BY <1>5, <2>2, <2>4, <2>5 DEF OnTree
    <2>7. QED
      BY <1>1, <1>3, <1>5, <2>2, <2>3, <2>6 DEF PresentOK
  <1>14. AbsentOK
    BY <1>1, <1>5, <1>7, <1>8, <1>9 DEF AbsentOK, Parent, ResolvedAs
  <1>15. QED
    BY <1>12, <1>13, <1>14

\* Where os.Root acts on the entry's path when it looks what is there.
LEMMA LocateSpot ==
    ASSUME IInv, TimesInv, PlainInv, ViewInv, pc = "clear"
    PROVE  LocatesIn(tree, Dir, Last(hdr.name), Locate(tree, dst.path))
  <1>. USE Typed
  <1>1. InEntry /\ SpotOK /\ PresentOK /\ AbsentOK
    BY SpotType DEF InEntry, ViewInv
  <1>2. PICK path, dir : path = dst.path /\ dir = Dir
    OBVIOUS
  <1>3. CASE dst.parentWasPresent
    <2>1. /\ tree = base /\ Front(path) \in Seq(Part)
          /\ Walk(tree, Front(path), FALSE, TRUE) = Way /\ Way.err = "ok"
      BY <1>1, <1>2, <1>3, PathParts DEF ViewInv, AtPlace, PresentOK, Parent
    <2>2. LocatesIn(tree, Way.at, Last(path), Locate(tree, path))
      BY <2>1, LocateReached
    <2>3. QED
      BY <1>1, <1>2, <2>2 DEF SpotOK, Dir
  <1>4. CASE ~dst.parentWasPresent
    <2>1. NoLinks(tree, dir) /\ dir = Front(path) /\ dir \in Seq(Name)
      BY <1>1, <1>2, <1>4 DEF TimesInv, Direct, MayMake, AbsentOK, SpotOK, Parent
    <2>2. QED
      BY <1>1, <1>2, <2>1, LocateFree DEF SpotOK
  <1>5. QED
    BY <1>3, <1>4

\* A directory made on the way to the place leaves it as it is.
LEMMA RoomMade ==
    ASSUME NEW old, NEW now, NEW new, NEW dir \in Seq(Name), NEW last,
           NEW p, p = Append(dir, last), NEW at \in Ancestors(p), MadeAt(now, new, at, ADir),
           NEW type, ReadyFor(old, now, p, type)
    PROVE  ReadyFor(old, new, p, type)
  <1>1. at # p
    BY AncestorType
  <1>2. ASSUME MadeRoom(old, now, p) PROVE MadeRoom(old, new, p)
    BY <1>1, <1>2 DEF MadeRoom, Around, MadeAt
  <1>3. OnlyWay(old, now, p) => OnlyWay(old, new, p)
    BY OnlyWayMade
  <1>4. ASSUME IsDir(now, p) PROVE IsDir(new, p)
    <2>1. p \in DOMAIN now /\ p \in DOMAIN new /\ Shown(new[p]) = Shown(now[p])
      BY <1>4 DEF IsDir, Exists, MadeAt
    <2>2. QED
      BY <1>4, <2>1, SameDir DEF IsDir, Exists
  <1>5. QED
    BY <1>2, <1>3, <1>4 DEF ReadyFor

-----------------------------------------------------------------------------
\* A step that leaves the entry, or stays between entries.
LEMMA LeaveView ==
    ASSUME ~InEntry', Going' PROVE ViewInv'
  <1>1. pc' \notin {"clear", "remap", "implied", "create"}
    BY DEF InEntry
  <1>2. FromBase' /\ AtPlace' /\ WayMade'
    BY <1>1 DEF FromBase, AtPlace, WayMade
  <1>3. QED
    BY <1>2 DEF ViewInv

\* A step that goes on to the next header, or returns, keeps the invariant.
LEMMA EndsView ==
    ASSUME ViewInv, pc # "done", (Continue /\ UNCHANGED err) \/ \E e : Return(e)
    PROVE  ViewInv'
  <1>1. ~InEntry' /\ Going'
    BY DEF Continue, Return, InEntry, ViewInv, Going
  <1>2. QED
    BY <1>1, LeaveView

\* A step that goes on with the entry.
LEMMA GoesOn ==
    ASSUME ViewInv, InEntry, UNCHANGED <<base, dst, err>>, hdr'.name = hdr.name, InEntry'
    PROVE  /\ Going' /\ FromBase'
           /\ Dir' = Dir /\ Spot' = Spot /\ Parent' = Parent
  <1>1. err = "ok"
    BY DEF InEntry, ViewInv, Going
  <1>2. Way' = Way
    BY DEF Way
  <1>3. Dir' = Dir /\ Spot' = Spot /\ Parent' = Parent
    BY <1>2 DEF Dir, Spot, Parent
  <1>4. FromBase'
    BY <1>2 DEF FromBase, ViewInv
  <1>5. QED
    BY <1>1, <1>3, <1>4 DEF Going

\* The base of an entry is the tree its header is read from.
LEMMA ReadView ==
    ASSUME IInv, PlainInv, ViewInv, NEW h \in archive, Read(h)
    PROVE  ViewInv'
  <1>. USE Typed
  <1>1. PICK resolved : resolved = resolveArchivePath(tree, h.name)
    OBVIOUS
  <1>2. pc = "read" /\ base' = tree /\ tree' = tree
    BY DEF Read
  <1>3. CASE (Continue /\ UNCHANGED err) \/ \E e : Return(e)
    BY <1>2, <1>3, EndsView
  <1>4. CASE /\ h.name \notin Skipped /\ Head(h.name) # Up /\ resolved.err = "ok"
             /\ hdr' = Entry(h) /\ dst' = resolved /\ pc' = "clear" /\ UNCHANGED err
    <2>1. Going'
      BY <1>2, <1>4 DEF ViewInv, Going
    <2>2. PICK name : name = h.name /\ hdr'.name = name
      BY <1>4 DEF Entry
    <2>3. Front(name) \in Seq(Part)
      <3>1. h \in HeaderIn /\ h.name # << >>
        BY <1>4 DEF IInv, CallOK, Skipped
      <3>2. QED
        BY <1>4, <2>2, <3>1, ReadHeader DEF Part
    <2>4. PICK w : w = Walk(tree, Front(name), TRUE, TRUE) /\ w = Way'
      BY <1>2, <2>2 DEF Way
    <2>5. ResolvedAs(tree, name, resolved, w)
      BY <1>1, <1>4, <2>2, <2>3, <2>4, ResolvedWay
    <2>6. FromBase'
      BY <1>2, <1>4, <2>2, <2>4, <2>5 DEF FromBase
    <2>7. AtPlace' /\ WayMade'
      BY <1>2, <1>4 DEF AtPlace, WayMade
    <2>8. QED
      BY <2>1, <2>6, <2>7 DEF ViewInv
  <1>5. QED
    BY <1>1, <1>3, <1>4 DEF Read

\* What stands in the entry's place is removed, and only that.
LEMMA ClearSeen ==
    ASSUME IInv, TimesInv, PlainInv, ViewInv, pc = "clear", NEW out, out = Cleared(There)
    PROVE  /\ out.err # "ok" => out.tree = tree
           /\ out.err = "ok" => /\ ReadyFor(base, out.tree, Spot, hdr.type)
                                /\ Dir \in DOMAIN tree => Dir \in DOMAIN out.tree
  <1>. USE Typed
  <1>1. InEntry /\ SpotOK
    BY SpotType DEF InEntry, ViewInv
  <1>2. PICK path, dir, last, spot, there, type :
           /\ path = dst.path /\ dir = Dir /\ last = Last(hdr.name) /\ spot = Spot
           /\ there = There /\ type = hdr.type
    OBVIOUS
  <1>3. /\ path # << >> /\ dir \in Seq(Name) /\ last \in Name /\ spot = Append(dir, last)
        /\ tree = base
    BY <1>1, <1>2 DEF SpotOK, Spot, ViewInv, AtPlace
  <1>4. LocatesIn(tree, dir, last, Locate(tree, path))
    BY <1>2, LocateSpot
  <1>5. there = Lstat(tree, path)
    BY <1>1, <1>2 DEF There, EntryOK, PlainInv
  <1>6. SeesAt(tree, spot, there)
    BY <1>3, <1>4, <1>5, LstatSeen
  <1>7. Under(spot, spot) /\ ~Under(spot, dir)
    BY <1>3, SpotUnder
  <1>8. ASSUME NEW left, SeenCut(tree, left, spot), ~(type = "dir" /\ IsDir(tree, spot))
        PROVE  ReadyFor(base, left, spot, type) /\ (dir \in DOMAIN tree => dir \in DOMAIN left)
    <2>1. OnlyWay(base, tree, spot)
      BY <1>3, OnlyWaySame
    <2>2. MadeRoom(base, left, spot)
      BY <1>3, <1>8, <2>1, RoomCut
    <2>3. QED
      BY <1>3, <1>7, <1>8, <2>2 DEF ReadyFor, SeenCut
  <1>9. CASE there.err # "ok"
    <2>1. out = Outcome("ok", tree)
      BY <1>2, <1>9 DEF Cleared
    <2>2. out.err = "ok" /\ out.tree = tree
      BY <2>1 DEF Outcome
    <2>3. \A q \in DOMAIN tree : ~Under(spot, q)
      BY <1>6, <1>9 DEF SeesAt
    <2>4. SeenCut(tree, tree, spot) /\ ~IsDir(tree, spot)
      BY <1>7, <2>3, NothingCut DEF IsDir, Exists
    <2>5. QED
      BY <1>2, <1>8, <2>2, <2>4
  <1>10. CASE there.err = "ok" /\ ~MayOverwrite(there)
    <2>1. out = Outcome("overwrite", tree)
      BY <1>2, <1>10 DEF Cleared
    <2>2. out.err = "overwrite" /\ out.tree = tree
      BY <2>1 DEF Outcome
    <2>3. QED
      BY <2>2
  <1>11. CASE there.err = "ok" /\ MayOverwrite(there)
    <2>1. there.at = spot
      BY <1>6, <1>11 DEF SeesAt
    <2>2. CASE type = "dir" /\ IsDir(tree, spot)
      <3>1. out = Outcome("ok", tree)
        BY <1>2, <1>11, <2>1, <2>2 DEF Cleared
      <3>2. out.err = "ok" /\ out.tree = tree
        BY <3>1 DEF Outcome
      <3>3. ReadyFor(base, tree, spot, type)
        BY <1>3, <2>2, OnlyWaySame DEF ReadyFor
      <3>4. QED
        BY <1>2, <3>2, <3>3
    <2>3. CASE ~(type = "dir" /\ IsDir(tree, spot))
      <3>1. out = RemoveAll(tree, path)
        BY <1>2, <1>11, <2>1, <2>3 DEF Cleared
      <3>2. /\ out.err # "ok" => out.tree = tree
            /\ out.err = "ok" => SeenCut(tree, out.tree, spot)
        BY <1>3, <1>4, <3>1, RemoveAllSeen
      <3>3. QED
        BY <1>2, <1>8, <2>3, <3>2
    <2>4. QED
      BY <2>2, <2>3
  <1>12. QED
    BY <1>9, <1>10, <1>11

\* Clearing the place makes room and keeps the invariant.
LEMMA ClearView ==
    ASSUME IInv, TimesInv, PlainInv, ViewInv, Clear
    PROVE  ViewInv'
  <1>1. PICK out : out = Cleared(There)
    OBVIOUS
  <1>2. /\ pc = "clear" /\ tree' = out.tree /\ base' = base
        /\ \/ out.err = "ok" /\ pc' = "remap" /\ UNCHANGED <<hdr, dst, k, err>>
           \/ out.err # "ok" /\ \E e : Return(e)
    BY <1>1 DEF Clear, Then, entry
  <1>3. CASE \E e : Return(e)
    BY <1>2, <1>3, EndsView
  <1>4. CASE out.err = "ok" /\ pc' = "remap" /\ UNCHANGED <<hdr, dst, k, err>>
    <2>1. InEntry /\ InEntry'
      BY <1>2, <1>4 DEF InEntry
    <2>2. Going' /\ FromBase' /\ Dir' = Dir /\ Spot' = Spot
      BY <1>2, <1>4, <2>1, GoesOn
    <2>3. ReadyFor(base, tree', Spot, hdr.type) /\ (Dir \in DOMAIN tree => Dir \in DOMAIN tree')
      BY <1>1, <1>2, <1>4, ClearSeen
    <2>4. dst.parentWasPresent => Dir \in DOMAIN tree
      BY <1>2, <2>1, SpotType DEF ViewInv, AtPlace, PresentOK
    <2>5. AtPlace' /\ WayMade'
      BY <1>2, <1>4, <2>2, <2>3, <2>4 DEF AtPlace, WayMade
    <2>6. QED
      BY <2>2, <2>5 DEF ViewInv
  <1>5. QED
    BY <1>2, <1>3, <1>4

\* Mapping the owner changes nothing that is seen.
LEMMA RemapView ==
    ASSUME IInv, PlainInv, ViewInv, Remap
    PROVE  ViewInv'
  <1>1. /\ pc = "remap" /\ UNCHANGED <<tree, base, dst, k>>
        /\ \/ hdr' = remapIDs(hdr) /\ pc' = "implied" /\ UNCHANGED err
           \/ \E e : Return(e)
    BY DEF Remap
  <1>2. CASE \E e : Return(e)
    BY <1>1, <1>2, EndsView
  <1>3. CASE hdr' = remapIDs(hdr) /\ pc' = "implied" /\ UNCHANGED err
    <2>1. InEntry /\ InEntry' /\ hdr \in EntryIn /\ k = 0
      BY <1>1, <1>3 DEF InEntry, IInv, EntryOK
    <2>2. hdr'.name = hdr.name /\ hdr'.type = hdr.type
      BY <1>3, <2>1 DEF remapIDs, EntryIn
    <2>3. Going' /\ FromBase' /\ Dir' = Dir /\ Spot' = Spot
      BY <1>1, <1>3, <2>1, <2>2, GoesOn
    <2>4. AtPlace' /\ WayMade'
      BY <1>1, <1>3, <2>1, <2>2, <2>3 DEF ViewInv, AtPlace, WayMade
    <2>5. QED
      BY <2>3, <2>4 DEF ViewInv
  <1>4. QED
    BY <1>1, <1>2, <1>3

\* A parent that is there need not be made; otherwise the first directory on the
\* way is the next to make.
LEMMA StartView ==
    ASSUME IInv, TimesInv, PlainInv, ViewInv, StartImplied
    PROVE  ViewInv'
  <1>. USE Typed
  <1>1. /\ pc = "implied" /\ k = 0 /\ UNCHANGED <<tree, base, hdr, dst>> /\ InEntry
    BY DEF StartImplied, InEntry
  <1>2. SpotOK /\ PresentOK /\ AbsentOK
    BY <1>1, SpotType DEF ViewInv
  <1>3. \/ ParentThere /\ pc' = "create" /\ UNCHANGED <<k, err>>
        \/ ~ParentThere /\ k' = 1 /\ UNCHANGED <<pc, err>>
        \/ \E e : Return(e)
    BY DEF StartImplied, AfterImplied, PlainInv
  <1>4. CASE \E e : Return(e)
    BY <1>1, <1>4, EndsView
  <1>5. CASE ~ParentThere /\ k' = 1 /\ UNCHANGED <<pc, err>>
    <2>1. Going' /\ FromBase' /\ Dir' = Dir /\ Spot' = Spot /\ ~dst.parentWasPresent
      BY <1>1, <1>5, GoesOn DEF InEntry, ParentThere
    <2>2. \A i \in 1..k'-1 : SubSeq(Parent, 1, i)' \in DOMAIN tree'
      BY <1>5
    <2>3. AtPlace' /\ WayMade'
      BY <1>1, <1>5, <2>1, <2>2 DEF ViewInv, AtPlace, WayMade
    <2>4. QED
      BY <2>1, <2>3 DEF ViewInv
  <1>6. CASE ParentThere /\ pc' = "create" /\ UNCHANGED <<k, err>>
    <2>1. Dir \in DOMAIN tree
      <3>1. CASE dst.parentWasPresent
        BY <1>1, <3>1 DEF ViewInv, WayMade
      <3>2. CASE ~dst.parentWasPresent
        <4>1. PICK dir : dir = Dir /\ dir = Parent /\ dir \in Seq(Name)
          BY <1>2, <3>2 DEF AbsentOK, SpotOK
        <4>2. CASE dir = << >>
          BY <4>1, <4>2, RootThere
        <4>3. CASE dir # << >>
          <5>1. PICK l : l = Locate(tree, dir)
            OBVIOUS
          <5>2. l.err = "ok" /\ l.at \in DOMAIN tree
            BY <1>6, <3>2, <4>1, <4>3, <5>1 DEF ParentThere, Lstat, IfThere, Exists, At
          <5>3. NoLinks(tree, dir)
            BY <1>1, <3>2, <4>1 DEF TimesInv, Direct, MayMake
          <5>4. PICK m \in 0..Len(dir) : m = Len(dir) - 1
            <6>1. PICK path \in Seq(Name) : path = dir /\ path # << >>
              BY <4>1, <4>3
            <6>2. Len(path) - 1 \in 0..Len(path)
              BY <6>1
            <6>3. QED
              BY <6>1, <6>2
          <5>5. NoLinks(tree, Front(dir))
            BY <4>1, <5>3, <5>4, NoLinksPart DEF Front
          <5>6. l.at = dir
            BY <4>1, <4>3, <5>1, <5>2, <5>5, LocateNoLink
          <5>7. QED
            BY <4>1, <5>2, <5>6
        <4>4. QED
          BY <4>2, <4>3
      <3>3. QED
        BY <3>1, <3>2
    <2>2. Going' /\ FromBase' /\ Dir' = Dir /\ Spot' = Spot
      BY <1>1, <1>6, GoesOn DEF InEntry
    <2>3. AtPlace' /\ WayMade'
      BY <1>1, <1>6, <2>1, <2>2 DEF ViewInv, AtPlace, WayMade
    <2>4. QED
      BY <2>2, <2>3 DEF ViewInv
  <1>7. QED
    BY <1>3, <1>4, <1>5, <1>6

\* The parent directory that is made lies on the way to the entry's place.
LEMMA ImpliedOnWay ==
    ASSUME IInv, TimesInv, PlainInv, ViewInv, pc = "implied", k \in 1..Len(Parent),
           NEW cur, cur = SubSeq(Parent, 1, k), NEW l, l = Locate(tree, cur), l.err = "ok"
    PROVE  /\ ~dst.parentWasPresent /\ Parent = Dir
           /\ l.at = cur /\ cur \in Ancestors(Spot)
  <1>. USE Typed
  <1>1. InEntry /\ SpotOK /\ AbsentOK /\ ~dst.parentWasPresent
    BY SpotType DEF InEntry, ViewInv, TimesInv, Direct, MayMake
  <1>2. PICK dir \in Seq(Name) : dir = Dir /\ dir = Parent
    BY <1>1 DEF AbsentOK, SpotOK
  <1>3. PICK kk \in 1..Len(dir) : kk = k /\ cur = SubSeq(dir, 1, kk)
    BY <1>2
  <1>4. NoLinks(tree, dir)
    BY <1>1, <1>2 DEF TimesInv, Direct, MayMake
  <1>5. cur \in Seq(Name) /\ cur # << >> /\ Len(cur) = kk /\ Front(cur) = SubSeq(dir, 1, kk - 1)
    BY <1>3 DEF Front
  <1>6. NoLinks(tree, Front(cur))
    <2>1. PICK m \in 0..Len(dir) : m = kk - 1
      OBVIOUS
    <2>2. NoLinks(tree, SubSeq(dir, 1, m))
      BY <1>4, NoLinksPart
    <2>3. QED
      BY <1>5, <2>1, <2>2
  <1>7. l.at = cur
    BY <1>5, <1>6, LocateNoLink
  <1>8. cur \in Ancestors(Spot)
    <2>1. PICK spot, last : spot = Spot /\ last = Last(hdr.name) /\ spot = Append(dir, last)
      BY <1>2 DEF Spot
    <2>2. SubSeq(dir, 1, kk) \in Ancestors(spot)
      BY <2>1, AncestorIs
    <2>3. QED
      BY <1>3, <2>1, <2>2
  <1>9. QED
    BY <1>1, <1>2, <1>7, <1>8

\* Each directory made is one on the way to the entry's place, and the last one is
\* its parent.
LEMMA MakeImpliedView ==
    ASSUME IInv, TimesInv, PlainInv, ViewInv, MakeImplied
    PROVE  ViewInv'
  <1>. USE Typed
  <1>1. PICK cur, out, l : /\ cur = SubSeq(Parent, 1, k) /\ l = Locate(tree, cur)
                           /\ out = mkdirImplied(tree, cur, hdr)
    OBVIOUS
  <1>2. /\ pc = "implied" /\ k \in 1..Len(Parent) /\ tree' = out.tree /\ base' = base /\ InEntry
        /\ \/ out.err # "ok" /\ \E e : Return(e)
           \/ /\ out.err = "ok" /\ k' = k + 1 /\ UNCHANGED <<hdr, dst, err>>
              /\ pc' = IF k = Len(Parent) THEN "create" ELSE pc
    BY <1>1 DEF MakeImplied, Then, AfterImplied, PlainInv, InEntry
  <1>3. CASE \E e : Return(e)
    BY <1>2, <1>3, EndsView
  <1>4. CASE /\ out.err = "ok" /\ k' = k + 1 /\ UNCHANGED <<hdr, dst, err>>
             /\ pc' = IF k = Len(Parent) THEN "create" ELSE pc
    <2>1. InEntry' /\ SpotOK
      BY <1>2, <1>4, SpotType DEF InEntry, ViewInv
    <2>2. ImpliedSeenAs(tree, tree', cur, l)
      BY <1>1, <1>2, <1>4, ImpliedSeen
    <2>3. /\ ~dst.parentWasPresent /\ Parent = Dir
          /\ l.at = cur /\ cur \in Ancestors(Spot)
      BY <1>1, <1>2, <2>2, ImpliedOnWay DEF ImpliedSeenAs
    <2>4. /\ Going' /\ FromBase'
          /\ Dir' = Dir /\ Spot' = Spot /\ Parent' = Parent
      BY <1>2, <1>4, <2>1, GoesOn
    <2>5. MadeAt(tree, tree', cur, ADir) \/ (tree' = tree /\ cur \in DOMAIN tree)
      BY <2>2, <2>3 DEF ImpliedSeenAs
    <2>6. ReadyFor(base, tree', Spot, hdr.type)
      <3>1. PICK old, now, new, dir, last, p, type :
               /\ old = base /\ now = tree /\ new = tree' /\ dir = Dir /\ last = Last(hdr.name)
               /\ p = Spot /\ type = hdr.type
        OBVIOUS
      <3>2. ReadyFor(old, now, p, type) /\ cur \in Ancestors(p)
            /\ dir \in Seq(Name) /\ p = Append(dir, last)
        BY <1>2, <2>1, <2>3, <3>1 DEF ViewInv, AtPlace, Spot, SpotOK
      <3>3. MadeAt(now, new, cur, ADir) => ReadyFor(old, new, p, type)
        BY <3>2, RoomMade
      <3>4. QED
        BY <2>5, <3>1, <3>2, <3>3
    <2>7. cur \in DOMAIN tree' /\ \A q \in DOMAIN tree : q \in DOMAIN tree'
      BY <2>5 DEF MadeAt
    <2>8. \A i \in 1..k'-1 : SubSeq(Parent, 1, i) \in DOMAIN tree'
      <3>1. SUFFICES ASSUME NEW i \in 1..k PROVE SubSeq(Parent, 1, i) \in DOMAIN tree'
        BY <1>2, <1>4
      <3>2. CASE i = k
        BY <1>1, <2>7, <3>2
      <3>3. CASE i # k
        <4>1. i \in 1..k-1
          BY <1>2, <3>3
        <4>2. SubSeq(Parent, 1, i) \in DOMAIN tree
          BY <1>2, <4>1 DEF ViewInv, WayMade
        <4>3. QED
          BY <2>7, <4>2
      <3>4. QED
        BY <3>2, <3>3
    <2>9. k = Len(Parent) => Dir \in DOMAIN tree'
      <3>1. SUFFICES ASSUME k = Len(Parent) PROVE cur = Parent
        BY <2>3, <2>7
      <3>2. QED
        BY <1>1, <3>1
    <2>10. AtPlace' /\ WayMade'
      BY <1>2, <1>4, <2>3, <2>4, <2>6, <2>8, <2>9 DEF AtPlace, WayMade
    <2>11. QED
      BY <2>4, <2>10 DEF ViewInv
  <1>5. QED
    BY <1>2, <1>3, <1>4

\* Every step keeps the invariant.
LEMMA NextView ==
    ASSUME IInv, TimesInv, PlainInv, ViewInv, [Next]_vars
    PROVE  ViewInv'
  <1>1. CASE \E h \in archive : Read(h)
    BY <1>1, ReadView
  <1>2. CASE Clear \/ Remap \/ StartImplied \/ MakeImplied
    BY <1>2, ClearView, RemapView, StartView, MakeImpliedView
  <1>3. CASE MarkOpaque \/ MakeWhiteout \/ ChownWhiteout
    BY <1>3 DEF MarkOpaque, MakeWhiteout, ChownWhiteout, PlainInv
  <1>4. CASE Create \/ TimesRestored \/ Fault
    <2>1. pc # "done" /\ ((Continue /\ UNCHANGED err) \/ \E e : Return(e))
      BY <1>4 DEF Create, TimesRestored, Fault, Then
    <2>2. QED
      BY <2>1, EndsView
  <1>5. CASE EndOfArchive \/ RestoreTime \/ RemovedByOther
    <2>1. ~InEntry' /\ Going'
      BY <1>5 DEF EndOfArchive, RestoreTime, RemovedByOther, Then, Return, InEntry, Going, ViewInv
    <2>2. QED
      BY <2>1, LeaveView
  <1>6. CASE Returned \/ UNCHANGED vars
    <2>1. UNCHANGED <<tree, base, pc, hdr, dst, k, err>>
      BY <1>6 DEF Returned, vars, entry
    <2>2. QED
      BY <2>1 DEF ViewInv, Going, FromBase, AtPlace, WayMade, InEntry, Way, Dir, Spot, Parent
  <1>7. QED
    BY <1>1, <1>2, <1>3, <1>4, <1>5, <1>6 DEF Next

\* It holds at the start.
LEMMA InitView == Init => ViewInv
  <1>. SUFFICES ASSUME Init PROVE ViewInv
    OBVIOUS
  <1>1. pc = "read" /\ err = "ok"
    BY DEF Init
  <1>2. QED
    BY <1>1 DEF ViewInv, Going, FromBase, AtPlace, WayMade, InEntry

-----------------------------------------------------------------------------
(***************************************************************************)
(* The steps of Unpack as LayerView sees them.                             *)
(***************************************************************************)
\* What the mount shows when the step is done.
SeenAfter == Mount(tree)' = ViewLess(tree', Nowhere)

\* A plain destination stays one, so the mount shows it.
LEMMA AfterView ==
    ASSUME IInv, PlainInv, [Next]_vars
    PROVE  SeenAfter
  <1>1. IInv' /\ PlainInv'
    BY NextIInv, NextPlain
  <1>2. UNCHANGED call
    BY DEF Next, Read, EndOfArchive, Clear, Remap, StartImplied, MakeImplied, MarkOpaque,
           MakeWhiteout, ChownWhiteout, Create, RestoreTime, TimesRestored, Fault,
           RemovedByOther, Returned, vars
  <1>3. PICK tr : tr = tree'
    OBVIOUS
  <1>4. IsTree(tr) /\ NoWhiteouts(tr)
    BY <1>1, <1>3 DEF IInv, Trees, PlainInv, NoWhiteouts
  <1>5. DOMAIN lower = {<< >>} /\ lower' = lower
    BY <1>2 DEF PlainInv, call
  <1>6. Mount(tree)' = ViewLess(tr, Nowhere)
    BY <1>3, <1>4, <1>5, MountAfter
  <1>7. QED
    BY <1>3, <1>6 DEF SeenAfter

\* The entry that is being applied, and its place in the view.
EntryIs ==
    /\ StatusNow = "applying" /\ n \in Nat /\ AppliedNow + 1 = n
    /\ EntryNow # NoEntry /\ ViewNow = ViewLess(base, Nowhere)
    /\ EntryNow.type = hdr.type /\ EntryNow.name = hdr.name /\ EntryNow.link = hdr.link
    /\ hdr.type \in {"dir", "reg", "dev", "sym", "link"} /\ hdr.name \notin Skipped
PlaceIs ==
    /\ PlaceWith(ViewNow, hdr.name) = Spot
    /\ ~LeavesBelow(ViewNow, Front(hdr.name))
    /\ Unhidden(Dir, Last(hdr.name), Spot, Nowhere)

\* The entry of the view is the header being applied.
LEMMA EntryKnown ==
    ASSUME IInv, PlainInv, ViewInv, InEntry
    PROVE  EntryIs
  <1>. USE Typed
  <1>1. pc # "done" /\ err = "ok" /\ n \in Nat
    BY DEF InEntry, ViewInv, Going
  <1>2. PICK h : h = [type |-> hdr.type, name |-> hdr.name, link |-> hdr.link] /\ h = EntryNow
    BY DEF EntryNow
  <1>3. h.type = hdr.type /\ h.name = hdr.name /\ h.link = hdr.link
    BY <1>2
  <1>4. hdr.type \in {"dir", "reg", "dev", "sym", "link"}
    <2>1. hdr.type \in EntryType \ {"meta", "plnk", "plink"}
      BY DEF EntryOK, InEntry, EntryIn
    <2>2. hdr.type \notin ConvertedType
      BY DEF EntryOK, PlainInv
    <2>3. QED
      BY <2>1, <2>2 DEF EntryType, ConvertedType
  <1>5. NoEntry.type = "none"
    BY DEF NoEntry
  <1>6. h # NoEntry
    BY <1>3, <1>4, <1>5
  <1>7. Mount(base) = ViewLess(base, Nowhere)
    BY MountIs DEF Trees, PlainInv
  <1>8. QED
    BY <1>1, <1>2, <1>3, <1>4, <1>6, <1>7 DEF EntryIs, StatusNow, AppliedNow, ViewNow, PlainInv

\* The entry's place in the view at its reading is the path the code resolved.
LEMMA PlaceKnown ==
    ASSUME IInv, PlainInv, ViewInv, InEntry
    PROVE  PlaceIs /\ SpotOK /\ PresentOK /\ AbsentOK /\ EntryIs
  <1>. USE Typed
  <1>1. SpotOK /\ PresentOK /\ AbsentOK /\ EntryIs
    BY SpotType, EntryKnown DEF ViewInv
  <1>2. PICK name, front, dir, last, spot, tr :
           /\ name = hdr.name /\ front = Front(name) /\ dir = Dir /\ last = Last(name)
           /\ spot = Spot /\ tr = base
    OBVIOUS
  <1>3. /\ name \in Seq(Part) /\ name # << >> /\ front \in Seq(Part)
        /\ dir \in Seq(Name) /\ spot \in Seq(Name) /\ spot = Append(dir, last)
    BY <1>1, <1>2 DEF SpotOK, Spot, Part
  <1>4. IsTree(tr) /\ LinksWithin(tr, Part) /\ Spares(tr, Part, Nowhere)
    BY <1>2, AllSpared DEF Trees
  <1>5. dir = Walk(tr, front, TRUE, TRUE).at
    BY <1>2 DEF Dir, Way
  <1>6. DirWith(ViewLess(tr, Nowhere), front) = Walk(tr, front, TRUE, TRUE).at
    BY <1>2, <1>3, <1>4, ViewPlaces, ZenonT(30)
  <1>7. LeavesBelow(ViewLess(tr, Nowhere), front) <=> LeavesBelow(tr, front)
    BY <1>2, <1>3, <1>4, ViewPlaces, ZenonT(30)
  <1>8. ViewNow = ViewLess(tr, Nowhere)
    BY <1>1, <1>2 DEF EntryIs
  <1>9. ~LeavesBelow(tr, front)
    BY <1>2 DEF ViewInv, FromBase, ResolvedAs
  <1>10. PlaceWith(ViewNow, name) = spot
    BY <1>2, <1>3, <1>5, <1>6, <1>8 DEF PlaceWith
  <1>11. Unhidden(dir, last, spot, Nowhere)
    <2>1. \A q \in Ancestors(spot) : q \in Seq(Name)
      BY <1>3, AncestorType
    <2>2. \A q \in Ancestors(spot) \union {spot} : ~Under(Nowhere, q)
      BY <1>3, <2>1, NotNowhere
    <2>3. QED
      BY <1>3, <2>2 DEF Unhidden
  <1>12. PlaceIs
    BY <1>2, <1>7, <1>8, <1>9, <1>10, <1>11 DEF PlaceIs
  <1>13. QED
    BY <1>1, <1>12

\* While an entry is applied, only its place and what leads there have changed.
LEMMA AroundNow ==
    ASSUME IInv, PlainInv, ViewInv, InEntry
    PROVE  Around(base, tree, Spot)
  <1>1. pc \in {"clear", "remap", "implied", "create"}
    BY DEF InEntry, PlainInv
  <1>2. CASE tree = base
    BY <1>2, OnlyWaySame, OnlyWayAround
  <1>3. CASE ReadyFor(base, tree, Spot, hdr.type)
    BY <1>3, OnlyWayAround DEF ReadyFor, MadeRoom
  <1>4. QED
    BY <1>1, <1>2, <1>3 DEF ViewInv, AtPlace

\* The entry fails.
LEMMA FailsSeen ==
    ASSUME IInv, PlainInv, ViewInv, SeenAfter, InEntry, NEW e, e # "ok", Return(e),
           UNCHANGED listed, Around(base, tree', Spot)
    PROVE  Promise!Next
  <1>1. EntryIs /\ PlaceIs
    BY PlaceKnown
  <1>2. /\ StatusNow' = "failed" /\ EntryNow' = NoEntry /\ AppliedNow' = 0
        /\ ViewNow' = ViewLess(tree', Nowhere)
    BY DEF Return, StatusNow, EntryNow, AppliedNow, ViewNow, InEntry, SeenAfter, NoEntry
  <1>3. PICK old, new, p, hidden : old = base /\ new = tree' /\ p = Spot /\ hidden = Nowhere
    OBVIOUS
  <1>4. AroundIn(ViewLess(old, hidden), ViewLess(new, hidden), p)
    BY <1>3, AroundSeen
  <1>5. HalfApplied(ViewNow, ViewNow', EntryNow)
    BY <1>1, <1>2, <1>3, <1>4 DEF HalfApplied, EntryIs, PlaceIs
  <1>6. QED
    BY <1>1, <1>2, <1>5, PromiseFail DEF EntryIs

\* An operation on the way to the entry's place fails and changes nothing.
LEMMA ErrorSeen ==
    ASSUME IInv, PlainInv, ViewInv, SeenAfter, InEntry, NEW e, e # "ok", Return(e),
           UNCHANGED <<tree, listed>>
    PROVE  Promise!Next
  BY AroundNow, FailsSeen

\* The entry is done.
LEMMA DoneSeen ==
    ASSUME IInv, PlainInv, ViewInv, SeenAfter, InEntry, Continue, UNCHANGED <<err, n>>,
           PutAs(ViewLess(base, Nowhere), ViewLess(tree', Nowhere), hdr, Spot, n),
           listed' = listed \union {hdr.name}
    PROVE  Promise!Next
  <1>1. EntryIs /\ PlaceIs
    BY PlaceKnown
  <1>2. /\ StatusNow' = StatusNow /\ EntryNow' = NoEntry /\ AppliedNow' = n
        /\ ViewNow' = ViewLess(tree', Nowhere)
    <2>1. err = "ok" /\ err' = "ok" /\ pc' = "read" /\ ~InEntry'
      BY DEF InEntry, ViewInv, Going, Continue
    <2>2. QED
      BY <1>1, <2>1 DEF StatusNow, EntryNow, AppliedNow, ViewNow, EntryIs, SeenAfter, NoEntry
  <1>3. PICK h, v, w, p : /\ h = EntryNow /\ v = ViewNow /\ w = ViewNow'
                          /\ p = Spot /\ p = PlaceWith(v, h.name) /\ w = ViewLess(tree', Nowhere)
                          /\ v = ViewLess(base, Nowhere)
                          /\ h.type = hdr.type /\ h.name = hdr.name /\ h.link = hdr.link
    BY <1>1, <1>2 DEF EntryIs, PlaceIs
  <1>4. n = AppliedNow + 1 /\ AppliedNow' = AppliedNow + 1
    BY <1>1, <1>2 DEF EntryIs
  <1>5. /\ h.type \notin {"meta", "plnk"} /\ h.name \notin Skipped
        /\ ~LeavesBelow(v, Front(h.name))
    BY <1>1, <1>3 DEF PlaceIs, EntryIs
  <1>6. PutAs(v, w, h, p, AppliedNow + 1)
    BY <1>3, <1>4 DEF PutAs
  <1>7. EntryDone(h)
    BY <1>3, <1>5, <1>6 DEF EntryDone
  <1>8. QED
    BY <1>1, <1>2, <1>3, <1>4, <1>7, PromiseApply DEF EntryIs

\* What the view sees of a step that stays on the way to an entry: nothing.
LEMMA OnwardSeen ==
    ASSUME InEntry, InEntry', UNCHANGED <<base, opaque, call, n, listed, err>>,
           hdr'.type = hdr.type, hdr'.name = hdr.name, hdr'.link = hdr.link
    PROVE  UNCHANGED LayerVars
  <1>1. pc # "done" /\ pc' # "done"
    BY DEF InEntry
  <1>2. Mount(base)' = Mount(base)
    BY DEF Mount, ShownUpper, ShownLower, Hides, call
  <1>3. QED
    BY <1>1, <1>2 DEF LayerVars, ViewNow, EntryNow, AppliedNow, StatusNow

\* Reading a header is a step of LayerView: it takes the entry, passes it over, or
\* fails.
LEMMA ReadSeen ==
    ASSUME IInv, PlainInv, ViewInv, NEW h \in archive, Read(h)
    PROVE  [Promise!Next]_LayerVars
  <1>. USE Typed
  <1>1. PICK resolved : resolved = resolveArchivePath(tree, h.name)
    OBVIOUS
  <1>2. /\ pc = "read" /\ base' = tree /\ tree' = tree /\ n' = n + 1 /\ n \in Nat
        /\ UNCHANGED <<opaque, call, listed>> /\ err = "ok"
    BY DEF Read, ViewInv, Going
  <1>3. /\ StatusNow = "applying" /\ EntryNow = NoEntry /\ AppliedNow = n /\ ViewNow = Mount(tree)
    BY <1>2 DEF StatusNow, EntryNow, AppliedNow, ViewNow, InEntry
  <1>4. Mount(tree)' = Mount(tree) /\ Mount(base)' = Mount(tree)
    BY <1>2 DEF Mount, ShownUpper, ShownLower, Hides, call
  <1>5. h \in UNION {c.archive : c \in Calls}
    BY DEF PlainInv
  <1>6. CASE h.name \in Skipped /\ Continue /\ UNCHANGED err
    <2>1. pc' = "read" /\ ~InEntry' /\ err' = "ok"
      BY <1>2, <1>6 DEF Continue, InEntry
    <2>2. /\ AppliedNow' = AppliedNow + 1 /\ EntryNow' = EntryNow /\ StatusNow' = StatusNow
          /\ ViewNow' = ViewNow
      BY <1>2, <1>3, <1>4, <2>1 DEF StatusNow, EntryNow, AppliedNow, ViewNow, NoEntry
    <2>3. QED
      BY <1>2, <1>3, <1>5, <1>6, <2>2, PromisePassOver
  <1>7. ASSUME NEW e, e # "ok", Return(e) PROVE Promise!Next
    <2>1. pc' = "done" /\ ~InEntry' /\ err' # "ok"
      BY <1>7 DEF Return, InEntry
    <2>2. /\ StatusNow' = "failed" /\ EntryNow' = NoEntry /\ AppliedNow' = 0 /\ ViewNow' = ViewNow
      BY <1>2, <1>3, <1>4, <2>1 DEF StatusNow, EntryNow, AppliedNow, ViewNow, NoEntry
    <2>3. QED
      BY <1>2, <1>3, <2>2, PromiseFail
  <1>8. CASE /\ resolved.err = "ok" /\ hdr' = Entry(h) /\ pc' = "clear" /\ UNCHANGED err
    <2>1. hdr'.type = h.type /\ hdr'.name = h.name /\ hdr'.link = h.link
      BY <1>8 DEF Entry
    <2>2. InEntry' /\ pc' # "done"
      BY <1>8 DEF InEntry
    <2>3. EntryNow' = [type |-> h.type, name |-> h.name, link |-> h.link]
      BY <2>1, <2>2 DEF EntryNow
    <2>4. ViewNow' = ViewNow /\ StatusNow' = StatusNow /\ AppliedNow' = AppliedNow
      BY <1>2, <1>3, <1>4, <1>8, <2>2 DEF StatusNow, AppliedNow, ViewNow
    <2>5. QED
      BY <1>2, <1>3, <1>5, <2>3, <2>4, PromiseTake
  <1>9. "breakout" # "ok"
    OBVIOUS
  <1>10. QED
    BY <1>1, <1>6, <1>7, <1>8, <1>9 DEF Read

\* The steps up to the making of the entry are stutters of LayerView, or its
\* failure.
LEMMA ImpliedSteps ==
    ASSUME IInv, TimesInv, PlainInv, ViewInv, SeenAfter,
           Clear \/ Remap \/ StartImplied \/ MakeImplied
    PROVE  [Promise!Next]_LayerVars
  <1>. USE Typed
  <1>1. CASE Clear
    <2>1. PICK out : out = Cleared(There)
      OBVIOUS
    <2>2. /\ pc = "clear" /\ tree' = out.tree /\ UNCHANGED <<base, opaque, call, n, listed>>
          /\ \/ out.err = "ok" /\ pc' = "remap" /\ UNCHANGED <<hdr, err>>
             \/ out.err # "ok" /\ Return(out.err)
      BY <1>1, <2>1 DEF Clear, Then, entry
    <2>3. CASE out.err = "ok" /\ pc' = "remap" /\ UNCHANGED <<hdr, err>>
      BY <2>2, <2>3, OnwardSeen DEF InEntry
    <2>4. CASE out.err # "ok" /\ Return(out.err)
      <3>1. PICK e : e = out.err
        OBVIOUS
      <3>2. tree' = tree
        BY <2>1, <2>2, <2>4, ClearSeen
      <3>3. QED
        BY <2>2, <2>4, <3>1, <3>2, ErrorSeen DEF InEntry
    <2>5. QED
      BY <2>2, <2>3, <2>4
  <1>2. CASE Remap
    <2>1. /\ pc = "remap" /\ UNCHANGED <<tree, base, opaque, call, n, listed>>
          /\ \/ hdr' = remapIDs(hdr) /\ pc' = "implied" /\ UNCHANGED err
             \/ Return("unmapped")
      BY <1>2 DEF Remap
    <2>2. CASE hdr' = remapIDs(hdr) /\ pc' = "implied" /\ UNCHANGED err
      <3>1. hdr \in EntryIn
        BY <2>1 DEF EntryOK, InEntry
      <3>2. hdr'.type = hdr.type /\ hdr'.name = hdr.name /\ hdr'.link = hdr.link
        BY <2>2, <3>1 DEF remapIDs, EntryIn
      <3>3. QED
        BY <2>1, <2>2, <3>2, OnwardSeen DEF InEntry
    <2>3. CASE Return("unmapped")
      <3>1. PICK e : e = "unmapped" /\ e # "ok"
        OBVIOUS
      <3>2. QED
        BY <2>1, <2>3, <3>1, ErrorSeen DEF InEntry
    <2>4. QED
      BY <2>1, <2>2, <2>3
  <1>3. CASE StartImplied
    <2>1. /\ pc = "implied" /\ UNCHANGED <<tree, base, opaque, call, hdr, n, listed>>
          /\ \/ pc' \in {"implied", "create"} /\ UNCHANGED err
             \/ ~ParentThere /\ Return(Lstat(tree, Parent).err)
      BY <1>3 DEF StartImplied, AfterImplied, PlainInv
    <2>2. CASE pc' \in {"implied", "create"} /\ UNCHANGED err
      BY <2>1, <2>2, OnwardSeen DEF InEntry
    <2>3. CASE ~ParentThere /\ Return(Lstat(tree, Parent).err)
      <3>1. PICK e : e = Lstat(tree, Parent).err /\ e # "ok"
        BY <2>3 DEF ParentThere
      <3>2. QED
        BY <2>1, <2>3, <3>1, ErrorSeen DEF InEntry
    <2>4. QED
      BY <2>1, <2>2, <2>3
  <1>4. CASE MakeImplied
    <2>1. PICK out, cur : cur = SubSeq(Parent, 1, k) /\ out = mkdirImplied(tree, cur, hdr)
      OBVIOUS
    <2>2. /\ pc = "implied" /\ tree' = out.tree /\ UNCHANGED <<base, opaque, call, n, listed>>
          /\ \/ out.err = "ok" /\ pc' \in {"implied", "create"} /\ UNCHANGED <<hdr, err>>
             \/ out.err # "ok" /\ Return(out.err)
      BY <1>4, <2>1 DEF MakeImplied, Then, AfterImplied, PlainInv
    <2>3. CASE out.err = "ok" /\ pc' \in {"implied", "create"} /\ UNCHANGED <<hdr, err>>
      BY <2>2, <2>3, OnwardSeen DEF InEntry
    <2>4. CASE out.err # "ok" /\ Return(out.err)
      <3>1. PICK e : e = out.err
        OBVIOUS
      <3>2. tree' = tree
        BY <2>1, <2>2, <2>4, ImpliedSeen
      <3>3. QED
        BY <2>2, <2>4, <3>1, <3>2, ErrorSeen DEF InEntry
    <2>5. QED
      BY <2>2, <2>3, <2>4
  <1>5. QED
    BY <1>1, <1>2, <1>3, <1>4

\* The steps after the last entry.
LEMMA EndSeen ==
    ASSUME IInv, PlainInv, ViewInv, SeenAfter, EndOfArchive \/ RestoreTime \/ TimesRestored
    PROVE  [Promise!Next]_LayerVars
  <1>. USE Typed
  <1>1. pc \in {"read", "times"} /\ err = "ok"
    BY DEF EndOfArchive, RestoreTime, TimesRestored, ViewInv, Going
  <1>2. Mount(tree) = ViewLess(tree, Nowhere)
    BY MountIs DEF PlainInv
  <1>3. /\ StatusNow = "applying" /\ EntryNow = NoEntry /\ AppliedNow = n
        /\ ViewNow = ViewLess(tree, Nowhere)
    BY <1>1, <1>2 DEF StatusNow, EntryNow, AppliedNow, ViewNow, InEntry
  <1>4. ~InEntry' /\ UNCHANGED <<n, listed>>
    BY DEF EndOfArchive, RestoreTime, TimesRestored, Then, Return, InEntry
  <1>5. ViewNow' = ViewLess(tree', Nowhere) /\ EntryNow' = NoEntry
    BY <1>4 DEF ViewNow, EntryNow, SeenAfter, NoEntry
  <1>6. CASE EndOfArchive
    <2>1. pc' = "times" /\ UNCHANGED <<tree, err>>
      BY <1>6 DEF EndOfArchive
    <2>2. UNCHANGED LayerVars
      BY <1>1, <1>3, <1>4, <1>5, <2>1 DEF LayerVars, AppliedNow, StatusNow
    <2>3. QED
      BY <2>2
  <1>7. CASE RestoreTime
    <2>1. PICK stat, time, out : /\ stat = Stat(tree, dirs[k].name) /\ time = DirTime
                                 /\ out = SetTime(tree, stat, time)
      OBVIOUS
    <2>2. /\ tree' = out.tree /\ pc = "times"
          /\ \/ out.err = "ok" /\ UNCHANGED <<pc, err>>
             \/ out.err # "ok" /\ Return(out.err)
      BY <1>7, <2>1 DEF RestoreTime, chtimes, Then
    <2>3. SeenSame(tree, out.tree)
      <3>1. CASE stat.err = "ok"
        <4>1. out.tree = SetMeta(tree, stat.at, tree[stat.at].owner, time)
          BY <2>1, <3>1 DEF SetTime, Outcome
        <4>2. QED
          BY <4>1, SetMetaSeen
      <3>2. CASE stat.err # "ok"
        <4>1. out.tree = tree
          BY <2>1, <3>2 DEF SetTime, Outcome
        <4>2. QED
          BY <4>1 DEF SeenSame
      <3>3. QED
        BY <3>1, <3>2
    <2>4. ViewNow' = ViewNow
      <3>1. PICK old, new, hidden : old = tree /\ new = tree' /\ hidden = Nowhere
        OBVIOUS
      <3>2. ViewLess(new, hidden) = ViewLess(old, hidden)
        BY <2>2, <2>3, <3>1, SameAlikeSeen
      <3>3. QED
        BY <1>3, <1>5, <3>1, <3>2
    <2>5. CASE out.err = "ok" /\ UNCHANGED <<pc, err>>
      <3>1. UNCHANGED LayerVars
        BY <1>1, <1>3, <1>4, <1>5, <2>2, <2>4, <2>5 DEF LayerVars, AppliedNow, StatusNow
      <3>2. QED
        BY <3>1
    <2>6. CASE out.err # "ok" /\ Return(out.err)
      <3>1. StatusNow' = "failed" /\ AppliedNow' = 0
        BY <2>6 DEF Return, StatusNow, AppliedNow
      <3>2. QED
        BY <1>3, <1>4, <1>5, <2>4, <3>1, PromiseFail
    <2>7. QED
      BY <2>2, <2>5, <2>6
  <1>8. CASE TimesRestored
    <2>1. pc' = "done" /\ err' = "ok" /\ tree' = tree
      BY <1>8 DEF TimesRestored, Return
    <2>2. StatusNow' = "applied" /\ AppliedNow' = n
      BY <1>4, <2>1 DEF StatusNow, AppliedNow
    <2>3. QED
      BY <1>3, <1>4, <1>5, <2>1, <2>2, PromiseFinish
  <1>9. QED
    BY <1>6, <1>7, <1>8

\* Another process removes something: so the view loses it.
LEMMA OtherSeen ==
    ASSUME IInv, PlainInv, SeenAfter, RemovedByOther
    PROVE  Promise!Next
  <1>. USE Typed
  <1>1. /\ pc = "read" /\ removals < MaxRemovals
        /\ UNCHANGED <<pc, n, listed, err>>
    BY DEF RemovedByOther
  <1>2. ~InEntry /\ ~InEntry'
    BY <1>1 DEF InEntry
  <1>3. PICK p \in DOMAIN tree \ {<< >>} : tree' = RemoveTree(tree, p, Clock)
    BY DEF RemovedByOther
  <1>4. PICK old, new, hidden : old = tree /\ new = tree' /\ hidden = Nowhere
    OBVIOUS
  <1>5. SeenCut(old, new, p)
    BY <1>3, <1>4, CutSeen
  <1>6. Mount(tree) = ViewLess(tree, Nowhere)
    BY MountIs DEF PlainInv
  <1>7. /\ EntryNow = NoEntry /\ ViewNow = ViewLess(old, hidden) /\ ViewNow' = ViewLess(new, hidden)
        /\ UNCHANGED <<EntryNow, AppliedNow, StatusNow>>
    BY <1>1, <1>2, <1>4, <1>6 DEF EntryNow, ViewNow, AppliedNow, StatusNow, SeenAfter, NoEntry
  <1>8. p \in Seq(Name) /\ p # << >>
    BY <1>3, TreePaths
  <1>9. p \in DOMAIN ViewLess(old, hidden) /\ p \notin DOMAIN ViewLess(new, hidden)
    <2>1. Under(p, p) /\ ~Under(hidden, p)
      BY <1>4, <1>8, NotNowhere DEF Under
    <2>2. p \notin DOMAIN new
      BY <1>5, <2>1 DEF SeenCut
    <2>3. QED
      BY <1>3, <1>4, <2>1, <2>2, ViewIs
  <1>10. ViewNow' = KeepIn(ViewNow, OutsideIn(ViewNow, p), << >>)
    BY <1>5, <1>7, ViewCut
  <1>11. MaxRemovals > 0
    BY <1>1, UnpackAssumption DEF CountersOK
  <1>12. QED
    BY <1>1, <1>7, <1>9, <1>10, <1>11, PromiseLose

\* After the return nothing LayerView sees changes.
LEMMA StutterSeen ==
    ASSUME Returned \/ UNCHANGED vars
    PROVE  UNCHANGED LayerVars
  <1>1. UNCHANGED <<tree, base, opaque, lower, hdr, n, pc, listed, err>>
    BY DEF Returned, vars, entry, call
  <1>2. Mount(tree)' = Mount(tree) /\ Mount(base)' = Mount(base)
    BY <1>1 DEF Mount, ShownUpper, ShownLower, Hides
  <1>3. QED
    BY <1>1, <1>2 DEF LayerVars, ViewNow, EntryNow, AppliedNow, StatusNow, InEntry, NoEntry

-----------------------------------------------------------------------------
\* Where the entry is made: in its place.
LEMMA CreateSpot ==
    ASSUME IInv, TimesInv, PlainInv, ViewInv, pc = "create",
           NEW l, l = Locate(tree, dst.path), l.err = "ok"
    PROVE  l.at = Spot /\ IsDir(tree, Dir)
  <1>. USE Typed
  <1>1. SpotOK /\ PresentOK /\ AbsentOK
    BY SpotType DEF InEntry, ViewInv
  <1>2. PICK path, dir, last, spot, old, w :
           /\ path = dst.path /\ dir = Dir /\ last = Last(hdr.name) /\ spot = Spot
           /\ old = base /\ w = Way
    OBVIOUS
  <1>3. /\ dir \in Seq(Name) /\ spot = Append(dir, last) /\ Last(path) = last /\ w.at = dir
        /\ IsTree(old)
    BY <1>1, <1>2 DEF SpotOK, Spot, Dir, Trees
  <1>4. CASE dst.parentWasPresent
    <2>1. Front(path) \in Seq(Part)
      BY <1>2, PathParts
    <2>2. /\ dir \in DOMAIN old
          /\ w = Walk(old, Front(path), FALSE, TRUE) /\ w.err = "ok"
      BY <1>1, <1>2, <1>4 DEF PresentOK, Parent
    <2>3. MadeRoom(old, tree, spot) \/ OnlyWay(old, tree, spot)
      BY <1>2 DEF ViewInv, AtPlace, ReadyFor
    <2>4. ActsIn(tree, dir, last, l)
      BY <1>2, <1>3, <2>1, <2>2, <2>3, LocatePresent
    <2>5. QED
      BY <1>2, <1>3, <2>4 DEF ActsIn
  <1>5. CASE ~dst.parentWasPresent
    <2>1. NoLinks(tree, dir) /\ dir = Front(path)
      BY <1>1, <1>2, <1>5 DEF TimesInv, Direct, MayMake, AbsentOK, Parent
    <2>2. LocatesIn(tree, dir, last, l)
      BY <1>2, <1>3, <2>1, LocateFree
    <2>3. QED
      BY <1>2, <1>3, <2>2 DEF LocatesIn
  <1>6. QED
    BY <1>4, <1>5

\* The header of the entry is the one that is made.
LEMMA HeaderSeen ==
    ASSUME IInv, PlainInv, pc = "create"
    PROVE  /\ hdr \in Header /\ hdr.type \in {"dir", "reg", "dev", "sym", "link"}
           /\ HeaderOf(hdr, hdr, Part) /\ hdr.by = n
  <1>. USE Typed
  <1>1. hdr \in Header /\ hdr.by = n /\ hdr \in EntryIn
    BY CreateHeader DEF InEntry, EntryOK
  <1>2. hdr.type \in {"dir", "reg", "dev", "sym", "link"}
    <2>1. hdr.type \in EntryType \ {"meta", "plnk", "plink"}
      BY <1>1 DEF EntryIn
    <2>2. hdr.type \notin ConvertedType
      BY DEF EntryOK
    <2>3. QED
      BY <2>1, <2>2 DEF EntryType, ConvertedType
  <1>3. hdr.link.to \in Seq(Part)
    BY <1>1 DEF Header, LinkType
  <1>4. QED
    BY <1>1, <1>2, <1>3 DEF HeaderOf

\* The entry is made, or fails.
LEMMA CreateStepSeen ==
    ASSUME IInv, TimesInv, PlainInv, ViewInv, SeenAfter, Create
    PROVE  Promise!Next
  <1>. USE Typed
  <1>1. PICK now, new, path, h, l, out :
           /\ now = tree /\ new = tree' /\ path = dst.path /\ h = hdr
           /\ l = Locate(now, path) /\ out = createTarFile(now, path, h)
    OBVIOUS
  <1>2. /\ pc = "create" /\ new = out.tree /\ UNCHANGED n
        /\ \/ out.err = "ok" /\ Continue /\ listed' = listed \union {hdr.name} /\ UNCHANGED err
           \/ out.err # "ok" /\ Return(out.err) /\ UNCHANGED listed
    BY <1>1 DEF Create, Then
  <1>3. InEntry
    BY <1>2 DEF InEntry
  <1>4. /\ h \in Header /\ h.type \in {"dir", "reg", "dev", "sym", "link"}
        /\ HeaderOf(hdr, h, Part) /\ h.by = n
    BY <1>1, <1>2, HeaderSeen
  <1>5. Front(path) \in Seq(Part) /\ IsTree(now)
    BY <1>1, PathParts
  <1>6. CASE out.err # "ok" /\ Return(out.err) /\ UNCHANGED listed
    <2>1. out.tree = now
      BY <1>1, <1>4, <1>5, <1>6, CreateSeen
    <2>2. PICK e : e = out.err
      OBVIOUS
    <2>3. tree' = tree
      BY <1>1, <1>2, <2>1
    <2>4. QED
      BY <1>3, <1>6, <2>2, <2>3, ErrorSeen
  <1>7. CASE /\ out.err = "ok" /\ Continue /\ listed' = listed \union {hdr.name}
             /\ UNCHANGED err
    <2>1. PICK old, dir, last, p, hidden, S :
             /\ old = base /\ dir = Dir /\ last = Last(hdr.name) /\ p = Spot
             /\ hidden = Nowhere /\ S = Part
      OBVIOUS
    <2>2. CreatedSeen(now, new, l, h)
      <3>1. CreatedSeen(now, out.tree, l, h)
        BY <1>1, <1>4, <1>5, <1>7, CreateSeen
      <3>2. QED
        BY <1>2, <3>1
    <2>3. l.err = "ok" => l.at = p /\ IsDir(now, dir)
      BY <1>1, <1>2, <2>1, CreateSpot
    <2>4. PlaceIs
      BY <1>3, PlaceKnown
    <2>5. Unhidden(dir, last, p, hidden)
      BY <2>1, <2>4 DEF PlaceIs
    <2>6. /\ IsTree(old) /\ LinksWithin(now, S) /\ Spares(now, S, hidden)
          /\ dir \in DOMAIN now
      BY <1>1, <1>2, <1>5, <2>1, AllSpared DEF Trees, ViewInv, WayMade
    <2>7. ReadyFor(old, now, p, h.type)
      BY <1>1, <1>2, <2>1 DEF ViewInv, AtPlace
    <2>8. PICK e : e = hdr
      OBVIOUS
    <2>9. HeaderOf(e, h, S)
      BY <1>4, <2>1, <2>8
    <2>10. PutAs(ViewLess(old, hidden), ViewLess(new, hidden), e, p, h.by)
      BY <1>5, <2>2, <2>3, <2>5, <2>6, <2>7, <2>9, CreatedPut
    <2>11. PutAs(ViewLess(base, Nowhere), ViewLess(tree', Nowhere), hdr, Spot, n)
      BY <1>1, <1>4, <2>1, <2>8, <2>10
    <2>12. QED
      BY <1>2, <1>3, <1>7, <2>11, DoneSeen
  <1>8. QED
    BY <1>2, <1>6, <1>7

\* An operation fails, and may have done a part of what it does.
LEMMA FaultSeen ==
    ASSUME IInv, TimesInv, PlainInv, ViewInv, SeenAfter, Fault
    PROVE  Promise!Next
  <1>. USE Typed
  <1>1. /\ pc # "done" /\ Return("io") /\ UNCHANGED <<base, n, listed>>
        /\ \/ tree' = tree
           \/ pc = "clear" /\ \E q \in HalfRemoved : tree' = RemoveTree(tree, q, Clock)
           \/ pc = "create" /\ tree' \in HalfMade
    BY DEF Fault
  <1>2. CASE ~InEntry
    <2>1. tree' = tree /\ err = "ok" /\ ~InEntry'
      BY <1>1, <1>2 DEF InEntry, ViewInv, Going, Return
    <2>2. /\ StatusNow = "applying" /\ StatusNow' = "failed" /\ EntryNow' = NoEntry
          /\ AppliedNow' = 0
      BY <1>1, <2>1 DEF Return, StatusNow, EntryNow, AppliedNow, NoEntry
    <2>3. Mount(tree) = ViewLess(tree, Nowhere)
      BY MountIs DEF PlainInv
    <2>4. Mount(tree)' = Mount(tree)
      BY <2>1, <2>3 DEF SeenAfter
    <2>5. ViewNow' = ViewNow
      BY <1>2, <2>1, <2>4 DEF ViewNow
    <2>6. QED
      BY <1>1, <2>2, <2>5, PromiseFail
  <1>3. CASE InEntry
    <2>1. SpotOK /\ PlaceIs
      BY <1>3, PlaceKnown
    <2>2. PICK old, now, new, dir, last, p, path :
             /\ old = base /\ now = tree /\ new = tree' /\ dir = Dir /\ last = Last(hdr.name)
             /\ p = Spot /\ path = dst.path
      OBVIOUS
    <2>3. /\ dir \in Seq(Name) /\ last \in Name /\ p \in Seq(Name) /\ p = Append(dir, last)
          /\ path # << >> /\ IsTree(old) /\ IsTree(now)
      BY <2>1, <2>2 DEF SpotOK, Spot, Trees
    <2>4. Around(old, now, p)
      BY <1>3, <2>2, AroundNow
    <2>5. Around(old, new, p)
      <3>1. CASE new = now
        BY <2>4, <3>1
      <3>2. ASSUME pc = "clear", NEW q \in HalfRemoved, new = RemoveTree(now, q, Clock)
            PROVE  Around(old, new, p)
        <4>1. PICK there : there = Lstat(now, path)
          OBVIOUS
        <4>2. There = there
          BY <1>3, <2>2, <4>1 DEF There, EntryOK, PlainInv
        <4>3. there.err = "ok" /\ Under(there.at, q)
          BY <3>2, <4>2 DEF HalfRemoved
        <4>4. q \in Seq(Name)
          BY <1>3, <3>2, HalfRemovedType, TreePaths
        <4>5. LocatesIn(now, dir, last, Locate(now, path))
          BY <2>2, <3>2, LocateSpot
        <4>6. SeesAt(now, p, there)
          BY <2>3, <4>1, <4>5, LstatSeen
        <4>7. Under(p, q)
          BY <4>3, <4>6 DEF SeesAt
        <4>8. SeenCut(now, new, q)
          BY <2>3, <3>2, CutSeen
        <4>9. \A s \in DOMAIN old : Under(q, s) => Under(p, s)
          BY <2>3, <4>4, <4>7, TreePaths, UnderTrans
        <4>10. QED
          BY <2>4, <4>8, <4>9, AroundCut
      <3>3. ASSUME pc = "create", new \in HalfMade PROVE Around(old, new, p)
        <4>1. PICK source, h, l, out :
                 /\ source = hdr /\ h = [source EXCEPT !.owner = Process, !.time = Clock]
                 /\ l = Locate(now, path) /\ out = createTarFile(now, path, h)
          OBVIOUS
        <4>2. new = out.tree
          BY <2>2, <3>3, <4>1 DEF HalfMade
        <4>3. source \in Header /\ source.type \in {"dir", "reg", "dev", "sym", "link"}
          BY <3>3, <4>1, HeaderSeen
        <4>4. h \in Header
          <5>1. Process \in Nat /\ Clock \in Nat
            BY ExtractAssumption DEF Process
          <5>2. QED
            BY <4>1, <4>3, <5>1, HeaderExcept
        <4>5. h.type \in {"dir", "reg", "dev", "sym", "link"}
          BY <4>1, <4>3 DEF Header
        <4>6. Front(path) \in Seq(Part)
          BY <2>2, PathParts
        <4>7. l.err = "ok" => l.at = p
          BY <2>2, <3>3, <4>1, CreateSpot
        <4>m. IsTree(now) /\ out = createTarFile(now, path, h) /\ l = Locate(now, path)
          BY <2>3, <4>1
        <4>8. CASE out.err # "ok"
          <5>1. out.tree = now
            BY <4>m, <4>4, <4>5, <4>6, <4>8, CreateSeen
          <5>2. QED
            BY <2>4, <4>2, <5>1
        <4>9. CASE out.err = "ok"
          <5>1. CreatedSeen(now, out.tree, l, h)
            BY <4>m, <4>4, <4>5, <4>6, <4>9, CreateSeen
          <5>2. CreatedSeen(now, new, l, h)
            BY <4>2, <5>1
          <5>3. Under(p, p)
            BY <2>3, SpotUnder
          <5>4. QED
            BY <2>4, <4>7, <5>2, <5>3, CreatedAround
        <4>10. QED
          BY <4>8, <4>9
      <3>4. QED
        BY <1>1, <2>2, <3>1, <3>2, <3>3
    <2>6. Around(base, tree', Spot)
      BY <2>2, <2>5
    <2>7. PICK e : e = "io"
      OBVIOUS
    <2>8. QED
      BY <1>1, <1>3, <2>6, <2>7, FailsSeen
  <1>4. QED
    BY <1>2, <1>3

-----------------------------------------------------------------------------
\* The destination of a call is one of the views a layer may be applied to.
LEMMA InitSeen ==
    ASSUME Init, PlainCall
    PROVE  Promise!Init
  <1>1. /\ base = tree /\ pc = "read" /\ n = 0 /\ listed = {} /\ err = "ok"
    BY DEF Init
  <1>2. PICK c \in Calls : tree = c.tree /\ lower = c.lower
    BY DEF Init
  <1>3. /\ ViewNow = Mount(tree) /\ EntryNow = NoEntry /\ AppliedNow = 0
        /\ StatusNow = "applying"
    BY <1>1 DEF ViewNow, EntryNow, AppliedNow, StatusNow, InEntry
  <1>4. IsTree(tree)
    BY <1>2, UnpackAssumption
  <1>5. ShownUpper(tree) = DOMAIN tree
    BY DEF ShownUpper, PlainCall, NoWhiteouts
  <1>6. ShownLower(tree) = {}
    BY <1>4, RootThere DEF ShownLower, PlainCall
  <1>7. DOMAIN c.tree \union DOMAIN c.lower = DOMAIN tree
    BY <1>2, <1>4, RootThere DEF PlainCall
  <1>8. Mount(tree) = [p \in DOMAIN c.tree \union DOMAIN c.lower |->
                          Shown(IF Exists(c.tree, p) THEN c.tree[p] ELSE c.lower[p])]
    BY <1>2, <1>5, <1>6, <1>7 DEF Mount
  <1>9. Promise!NoEntry = NoEntry
    BY DEF Promise!NoEntry, NoEntry
  <1>10. QED
    BY <1>1, <1>3, <1>8, <1>9 DEF Promise!Init, ViewNow, EntryNow, AppliedNow, StatusNow

\* Every step is one of LayerView, or is not seen.
LEMMA NextSeen ==
    ASSUME IInv, TimesInv, PlainInv, ViewInv, [Next]_vars
    PROVE  [Promise!Next]_LayerVars
  <1>0. SeenAfter
    BY AfterView
  <1>1. ASSUME NEW h \in archive, Read(h) PROVE [Promise!Next]_LayerVars
    BY <1>1, ReadSeen
  <1>2. CASE EndOfArchive \/ RestoreTime \/ TimesRestored
    BY <1>0, <1>2, EndSeen
  <1>3. CASE Clear \/ Remap \/ StartImplied \/ MakeImplied
    BY <1>0, <1>3, ImpliedSteps
  <1>4. CASE MarkOpaque \/ MakeWhiteout \/ ChownWhiteout
    BY <1>4 DEF MarkOpaque, MakeWhiteout, ChownWhiteout, PlainInv
  <1>5. CASE Create
    BY <1>0, <1>5, CreateStepSeen
  <1>6. CASE Fault
    BY <1>0, <1>6, FaultSeen
  <1>7. CASE RemovedByOther
    BY <1>0, <1>7, OtherSeen
  <1>8. CASE Returned \/ UNCHANGED vars
    BY <1>8, StutterSeen
  <1>9. QED
    BY <1>1, <1>2, <1>3, <1>4, <1>5, <1>6, <1>7, <1>8 DEF Next

\* Unpack without a converter, into a destination that is no upper directory of an
\* overlay, keeps the promise of LayerView: entry after entry one atomic change of
\* what the destination shows, whatever links lead to an entry's place, and when an
\* operation fails only the entry being made may be half made.
THEOREM PlainUnpacks == PlainCall /\ Spec => UnpacksAsLayer
  <1>1. PlainCall /\ Init => IInv /\ TimesInv /\ PlainInv /\ ViewInv /\ Promise!Init
    BY InitIInv, InitTimes, InitPlain, InitView, InitSeen
  <1>2. IInv /\ TimesInv /\ PlainInv /\ ViewInv /\ [Next]_vars
           => IInv' /\ TimesInv' /\ PlainInv' /\ ViewInv' /\ [Promise!Next]_LayerVars
    BY NextIInv, NextTimes, NextPlain, NextView, NextSeen
  <1>3. QED
    BY <1>1, <1>2, PTL DEF Spec, UnpacksAsLayer, Promise!Spec, LayerVars, ViewNow, EntryNow,
           AppliedNow, StatusNow
=============================================================================
