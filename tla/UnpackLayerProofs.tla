-------------------------- MODULE UnpackLayerProofs --------------------------
(***************************************************************************)
(* What holds of UnpackLayer for every set of names, archives, lower trees *)
(* and options: the tree below dest stays a tree, an opaque whiteout       *)
(* leaves no file of a lower layer below its directory, the temporary      *)
(* directory is gone when the call returns, unless removing it fails, and  *)
(* when all went well each listed directory has the time of its header.    *)
(* That holds whatever links the layers make, whatever other processes     *)
(* remove and whichever operation fails. Last, UnpackLayer implements      *)
(* LayerView, when other processes remove files only between entries.      *)
(***************************************************************************)
EXTENDS UnpackLayer, TreeProofs

(***************************************************************************)
(* The inductive invariant.  LowerHidden needs Written: the walk of an     *)
(* opaque whiteout keeps what is recorded in unpackedPaths, so a recorded  *)
(* path must not name a file of a lower layer.  Written needs Cleared:     *)
(* what createTarFile finds in the entry's place is a directory.           *)
(***************************************************************************)
Written == \A p \in unpackedPaths \intersect DOMAIN tree : tree[p].by > 0

Cleared == pc = "create" /\ hdr.type # "dir" => dst.path \notin DOMAIN tree

Dispatched ==
    /\ pc \in {"implied", "apply"} => hdr.type \notin {"meta", "plnk"}
    /\ pc = "create" => hdr.type \in {"dir", "reg", "sym", "dev", "link", "plink"}

IInv == TypeOK /\ Written /\ Cleared /\ Dispatched

(***************************************************************************)
(* TempDirGone needs Apart: no path, link or record uses the name of the   *)
(* temporary directory, so no entry makes that directory, and none makes   *)
(* it before the call does, or once more when it has gone.                 *)
(***************************************************************************)
OnItsWay == pc \in {"implied", "apply", "create"}

\* What lies in it are directories and regular files.
TempPlain(tr) == \A q \in DOMAIN tr : Under(<<TempName>>, q) => tr[q].kind \in {"dir", "reg"}

TreeApart ==
    /\ LinksWithin(tree, Spared)
    /\ TempPlain(tree)
    /\ ~aufsTempdir \/ (pc = "done" /\ removeErr = "ok") => <<TempName>> \notin DOMAIN tree

NamesApart ==
    /\ InEntry => hdr.name \in Seq(Spared) /\ hdr.link.to \in Seq(Spared)
    /\ OnItsWay => dst.path \in Seq(Spared)
    /\ \A x \in DOMAIN aufsHardlinks : aufsHardlinks[x].link.to \in Seq(Spared)
    /\ \A i \in DOMAIN dirs : dirs[i].name \in Seq(Spared)

Apart == TreeApart /\ NamesApart

(***************************************************************************)
(* DirTimesRestored needs of inodes and times what it needs in Unpack: an  *)
(* entry makes nodes of its number, each at another depth (Numbered), as   *)
(* the directories on the way lie on a path without links (Direct), so a   *)
(* time that is set stays (Restored).  The temporary directory goes after  *)
(* the times are set, and by Apart no listed name leads to or through it.  *)
(***************************************************************************)
Numbered ==
    pc \notin {"cleanup", "done"} => Numbers(tree, n) /\ (InEntry => Shallow(tree, n, k))

Direct ==
    /\ OnItsWay /\ ~dst.parentWasPresent => NoLinks(tree, Parent)
    /\ OnItsWay /\ k > 0 => ~dst.parentWasPresent
    /\ pc = "implied" => k <= Len(Parent) + 1
    /\ pc \in {"apply", "create"} /\ k > 0 => k = Len(Parent) + 1
    /\ pc \in {"read", "plnk"} => k = 0

LeadsTo(i) == Stat(tree, dirs[i].name).at

Settled(i) ==
    (/\ IsDir(tree, LeadsTo(i)) /\ LeadsTo(i) # << >>
     /\ \A j \in DOMAIN dirs \ {i} : LeadsTo(j) # LeadsTo(i)) =>
        tree[LeadsTo(i)].time = dirs[i].time

AllWell == pc = "times" \/ (pc \in {"cleanup", "done"} /\ err = "ok")

Restored ==
    /\ AllWell /\ removals = 0 => \A i \in DOMAIN dirs : i < k => Settled(i)
    /\ AllWell /\ pc # "times" => k > Len(dirs)

TimesInv == Numbered /\ Direct /\ Restored

\* The parts of TypeOK.
EntryOK ==
    /\ pc \in {"read", "plnk", "implied", "apply", "create", "times", "cleanup", "done"}
    /\ InEntry => hdr \in Header /\ hdr.by = n
    /\ dst.path \in Seq(Name \union {Opq})
    /\ Parent \in Seq(Name)
    /\ InEntry /\ pc # "plnk" =>
          dst.path # << >> /\ (hdr.type # "opaque" => dst.path \in Seq(Name))
    /\ k \in Nat

LocalOK ==
    /\ unpackedPaths \subseteq Seq(Name)
    /\ dirs \in Seq([name : Seq(Name), time : Nat])
    /\ \A x \in DOMAIN aufsHardlinks : aufsHardlinks[x] \in Header
    /\ aufsTempdir \in BOOLEAN /\ removeErr \in {"ok", "io"}

CountersOK == n \in 0..MaxEntries /\ removals \in 0..MaxRemovals

\* TypeOK is its parts.
LEMMA TypeParts ==
    TypeOK <=> IsTree(tree) /\ IsTree(base) /\ EntryOK /\ LocalOK /\ CountersOK
  BY DEF TypeOK, EntryOK, LocalOK, CountersOK

\* The same after a step.
LEMMA TypePartsNext ==
    ASSUME IsTree(tree'), IsTree(base'), EntryOK', LocalOK', CountersOK'
    PROVE  TypeOK'
  BY DEF TypeOK, EntryOK, LocalOK, CountersOK

-----------------------------------------------------------------------------
(* Paths. *)

\* Between entries there is no path.
LEMMA NoPathType == NoPath.path = << >> /\ Front(NoPath.path) = << >>
  BY DEF NoPath, Resolved, Front

\* The temporary directory lies in the root.
LEMMA TempPath ==
    /\ <<TempName>> \in Seq(Name) /\ <<TempName>> # << >> /\ Front(<<TempName>>) = << >>
  <1>1. TempName \in Name
    BY UnpackLayerAssumption
  <1>2. <<TempName>> = Append(<< >>, TempName) /\ << >> \in Seq(Name)
    OBVIOUS
  <1>3. QED
    BY <1>1, <1>2, FrontAppend

\* The parent of a path below the temporary directory.
LEMMA FrontBelowTemp ==
    ASSUME NEW S, Name \subseteq S, NEW name \in Seq(S), name # << >>, Front(name) \in Seq(Name)
    PROVE  /\ Front(<<TempName>> \o name) \in Seq(Name)
           /\ Front(<<TempName>> \o name) = <<TempName>> \o Front(name)
  <1>1. PICK temp \in Seq(Name) : temp = <<TempName>>
    BY TempPath
  <1>2. PICK dir \in Seq(Name) : dir = Front(name)
    OBVIOUS
  <1>3. PICK last \in S : last = Last(name)
    BY ElementOfSeq, EmptySeq, LenProperties DEF Last
  <1>4. temp \in Seq(S) /\ dir \in Seq(S) /\ <<last>> \in Seq(S)
    OBVIOUS
  <1>5. name = dir \o <<last>>
    <2>1. name = Append(dir, last)
      BY <1>2, <1>3, FrontLast
    <2>2. QED
      BY <1>4, <2>1, AppendIsConcat
  <1>6. temp \o dir \in Seq(Name) /\ temp \o dir \in Seq(S)
    BY <1>4, ConcatProperties
  <1>7. temp \o name = Append(temp \o dir, last)
    <2>1. temp \o (dir \o <<last>>) = (temp \o dir) \o <<last>>
      BY <1>4, ConcatAssociative
    <2>2. Append(temp \o dir, last) = (temp \o dir) \o <<last>>
      BY <1>6, AppendIsConcat
    <2>3. QED
      BY <1>5, <2>1, <2>2
  <1>8. PICK both \in Seq(S) : both = temp \o dir
    BY <1>6
  <1>9. Front(Append(both, last)) = both
    BY FrontAppend
  <1>10. QED
    BY <1>1, <1>2, <1>6, <1>7, <1>8, <1>9

\* One outcome after another.
LEMMA ExtractedTwice ==
    ASSUME NEW a, NEW b, NEW c, Extracted(a, b), Extracted(b, c)
    PROVE  Extracted(a, c)
  BY DEF Extracted, Marks

-----------------------------------------------------------------------------
(* The entry: what the ways to leave a step make of it. *)

\* The next entry starts without a path.
LEMMA ContinueEntry ==
    ASSUME Continue PROVE EntryOK'
  <1>1. dst'.path = << >> /\ Front(dst'.path) = << >>
    BY NoPathType DEF Continue
  <1>2. << >> \in Seq(Name) /\ << >> \in Seq(Name \union {Opq})
    OBVIOUS
  <1>3. dst'.path \in Seq(Name \union {Opq}) /\ Front(dst'.path) \in Seq(Name)
    BY <1>1, <1>2
  <1>4. pc' = "read" /\ k' = 0
    BY DEF Continue
  <1>5. QED
    BY <1>3, <1>4 DEF EntryOK, InEntry, Parent

\* An error return keeps the path, which nothing uses any more.
LEMMA ReturnEntry ==
    ASSUME EntryOK, NEW e, Return(e), dst' = dst, k' \in Nat
    PROVE  EntryOK'
  BY DEF Return, EntryOK, InEntry, Parent

\* What the entries left behind, when a step leaves it alone.
LEMMA LocalUnchanged ==
    ASSUME LocalOK, UNCHANGED local PROVE LocalOK'
  BY DEF local, LocalOK

\* A step that records nothing and starts nothing keeps the invariant.
LEMMA StepKeeps ==
    ASSUME IInv, Extracted(tree, tree'), IsTree(base'), EntryOK', LocalOK', CountersOK',
           UNCHANGED unpackedPaths,
           \/ pc' \notin {"implied", "apply", "create"}
           \/ pc \in {"implied", "apply"} /\ pc' \in {"implied", "apply"} /\ UNCHANGED hdr
    PROVE  IInv'
  <1>1. TypeOK'
    BY TypePartsNext DEF Extracted
  <1>2. Written'
    BY DEF IInv, Written, Extracted, Marks
  <1>3. Cleared' /\ Dispatched'
    BY DEF IInv, Cleared, Dispatched
  <1>4. QED
    BY <1>1, <1>2, <1>3 DEF IInv

\* The parts of the invariant the steps start from.
LEMMA Parts ==
    ASSUME IInv
    PROVE  /\ IsTree(tree) /\ IsTree(base) /\ EntryOK /\ LocalOK /\ CountersOK
           /\ Extracted(tree, tree)
  BY TypeParts, Unchanged DEF IInv

-----------------------------------------------------------------------------
(* The steps that change nothing on disk. *)

\* Steps that only move on in the loop, return an error, or stutter.
LEMMA QuietStep ==
    ASSUME IInv,
           \/ EndOfArchive \/ SkipImplied \/ StartImplied \/ ImpliedMade
           \/ TimesRestored \/ Returned \/ UNCHANGED vars
    PROVE  IInv'
  <1>. USE Parts
  <1>1. UNCHANGED <<tree, base, hdr, dst, n, local, removals>>
    BY DEF EndOfArchive, SkipImplied, StartImplied, ImpliedMade, TimesRestored,
           Returned, Return, vars, entry
  <1>2. UNCHANGED hdr
    BY <1>1
  <1>3. UNCHANGED unpackedPaths
    BY <1>1 DEF local
  <1>4. LocalOK' /\ CountersOK' /\ IsTree(base')
    BY <1>1, LocalUnchanged DEF CountersOK
  <1>5. k' \in Nat
    BY DEF EntryOK, EndOfArchive, SkipImplied, StartImplied, ImpliedMade, TimesRestored,
           Returned, vars, entry
  <1>6. CASE UNCHANGED <<pc, hdr, k>>
    <2>1. EntryOK'
      BY <1>1, <1>6 DEF EntryOK, InEntry, Parent
    <2>2. Written' /\ Cleared' /\ Dispatched'
      BY <1>1, <1>3, <1>6 DEF IInv, Written, Cleared, Dispatched
    <2>3. QED
      BY <1>1, <1>4, <2>1, <2>2, TypePartsNext DEF IInv
  <1>7. CASE ~UNCHANGED <<pc, hdr, k>>
    <2>1. /\ pc \in {"implied", "read", "times"}
          /\ pc' \in {"implied", "apply", "times", "cleanup"}
          /\ pc' \in {"implied", "apply"} => pc = "implied"
      BY <1>2, <1>7 DEF EndOfArchive, SkipImplied, StartImplied, ImpliedMade,
                        TimesRestored, Returned, Return, vars, entry
    <2>2. EntryOK'
      BY <1>1, <1>2, <1>5, <2>1 DEF EntryOK, InEntry, Parent
    <2>3. QED
      BY <1>1, <1>2, <1>3, <1>4, <2>1, <2>2, StepKeeps
  <1>8. QED
    BY <1>6, <1>7

-----------------------------------------------------------------------------
(* The steps that make or remove one node. *)

\* The parent of an entry's path is made of parts, so it can be looked up.
LEMMA PathParts ==
    ASSUME EntryOK
    PROVE  Front(dst.path) \in Seq(Part) /\ Front(dst.path) \in Seq(Name)
  BY DEF EntryOK, Parent, Part

\* The Mkdir of one implied directory.
LEMMA MakeImpliedStep == IInv /\ MakeImplied => IInv'
  <1>. SUFFICES ASSUME IInv, MakeImplied PROVE IInv'
    OBVIOUS
  <1>. USE Parts
  <1>. DEFINE cur == SubSeq(Parent, 1, k)
              out == mkdirImplied(tree, cur, hdr)
  <1>1. hdr \in Header
    BY DEF MakeImplied, EntryOK, InEntry
  <1>2. Front(cur) \in Seq(Part)
    <2>1. Parent \in Seq(Part) /\ k \in 1..Len(Parent)
      BY PathParts DEF MakeImplied, Parent
    <2>2. cur \in Seq(Part) /\ cur # << >>
      <3>1. PICK path \in Seq(Part) : path = Parent
        BY <2>1
      <3>2. PICK j \in 1..Len(path) : j = k
        BY <2>1, <3>1
      <3>3. SubSeq(path, 1, j) \in Seq(Part) /\ Len(SubSeq(path, 1, j)) = j
        OBVIOUS
      <3>4. QED
        BY <3>1, <3>2, <3>3
    <2>. HIDE DEF cur
    <2>3. QED
      BY <2>2, FrontProperties
  <1>3. /\ tree' = out.tree
        /\ pc' = pc \/ pc' = "cleanup"
        /\ pc = "implied"
        /\ k \in Nat => k' \in Nat
        /\ UNCHANGED <<base, hdr, dst, n, local, removals>>
    BY DEF MakeImplied, Return
  <1>. HIDE DEF cur
  <1>4. Extracted(tree, out.tree)
    <2>1. hdr.by \in Nat \ {0}
      BY <1>1 DEF Header
    <2>2. QED
      BY <1>2, <2>1, ImpliedType
  <1>. HIDE DEF out
  <1>5. EntryOK'
    BY <1>3 DEF EntryOK, InEntry, Parent
  <1>6. LocalOK' /\ CountersOK' /\ IsTree(base') /\ UNCHANGED unpackedPaths
    BY <1>3, LocalUnchanged DEF CountersOK, local
  <1>7. QED
    BY <1>3, <1>4, <1>5, <1>6, StepKeeps

\* A whiteout: RemoveAll of the path it hides.
LEMMA WhiteoutStep == IInv /\ Whiteout => IInv'
  <1>. SUFFICES ASSUME IInv, Whiteout PROVE IInv'
    OBVIOUS
  <1>. USE Parts
  <1>. DEFINE out == RemoveAll(tree, dst.path)
  <1>1. Extracted(tree, out.tree)
    BY PathParts, RemoveAllType
  <1>2. /\ tree' = out.tree
        /\ Continue \/ (Return(out.err) /\ UNCHANGED entry)
        /\ UNCHANGED <<base, n, local, removals>>
    BY DEF Whiteout
  <1>. HIDE DEF out
  <1>3. EntryOK' /\ pc' \notin {"implied", "apply", "create"}
    <2>1. CASE Continue
      BY <2>1, ContinueEntry DEF Continue
    <2>2. CASE Return(out.err) /\ UNCHANGED entry
      <3>1. dst' = dst /\ k' \in Nat
        BY <2>2 DEF entry, EntryOK
      <3>2. QED
        BY <2>2, <3>1, ReturnEntry DEF Return
    <2>3. QED
      BY <1>2, <2>1, <2>2
  <1>4. LocalOK' /\ CountersOK' /\ IsTree(base') /\ UNCHANGED unpackedPaths
    BY <1>2, LocalUnchanged DEF CountersOK, local
  <1>5. QED
    BY <1>1, <1>2, <1>3, <1>4, StepKeeps

\* The time of one directory at the end.
LEMMA RestoreTimeStep == IInv /\ RestoreTime => IInv'
  <1>. SUFFICES ASSUME IInv, RestoreTime PROVE IInv'
    OBVIOUS
  <1>. USE Parts
  <1>. DEFINE out == chtimes(tree, dirs[k].name, DirTime)
  <1>1. dirs[k].name \in Seq(Part) /\ DirTime \in Nat
    <2>1. dirs[k] \in [name : Seq(Name), time : Nat]
      BY ElementOfSeq DEF LocalOK, RestoreTime
    <2>2. QED
      BY <2>1 DEF DirTime, Part
  <1>2. Extracted(tree, out.tree)
    BY <1>1, ChtimesType
  <1>3. /\ tree' = out.tree
        /\ pc' = pc \/ pc' = "cleanup"
        /\ pc = "times"
        /\ k \in Nat => k' \in Nat
        /\ UNCHANGED <<base, hdr, dst, n, local, removals>>
    BY DEF RestoreTime, Return
  <1>. HIDE DEF out
  <1>4. EntryOK'
    BY <1>3 DEF EntryOK, InEntry, Parent
  <1>5. LocalOK' /\ CountersOK' /\ IsTree(base') /\ UNCHANGED unpackedPaths
    BY <1>3, LocalUnchanged DEF CountersOK, local
  <1>6. QED
    BY <1>2, <1>3, <1>4, <1>5, StepKeeps

\* Removing a subtree that is not the root.
LEMMA Removal ==
    ASSUME IInv, NEW p \in DOMAIN tree, p # << >>, tree' = RemoveTree(tree, p, Clock)
    PROVE  Extracted(tree, tree') /\ DOMAIN tree' \subseteq DOMAIN tree
  <1>1. Extracted(tree, tree')
    BY Parts, RemovedType
  <1>2. DOMAIN tree' \subseteq DOMAIN tree
    BY DEF RemoveTree
  <1>3. QED
    BY <1>1, <1>2

\* The deferred removal of the temporary directory, all at once or in parts, or as
\* far as it came.
Removing == Cleanup \/ CleanupPart \/ CleanupFails

\* What it removes is the directory, or lies below it.
LEMMA RemovingTree ==
    ASSUME Removing
    PROVE  /\ pc = "cleanup" /\ pc' \in {"cleanup", "done"}
           /\ UNCHANGED <<base, hdr, dst, k, n, unpackedPaths, dirs, aufsHardlinks, aufsTempdir,
                          err, removals>>
           /\ removeErr' \in {removeErr, "io"}
           /\ \/ tree' = tree
              \/ \E q \in DOMAIN tree : /\ Under(<<TempName>>, q)
                                       /\ tree' = RemoveTree(tree, q, Clock)
  <1>1. CASE Cleanup
    <2>1. Under(<<TempName>>, <<TempName>>)
      BY DEF Under
    <2>2. QED
      BY <1>1, <2>1 DEF Cleanup, Exists, entry, local
  <1>2. CASE CleanupPart
    <2>1. \A q : Below(<<TempName>>, q) => Under(<<TempName>>, q)
      BY DEF Below, Under
    <2>2. QED
      BY <1>2, <2>1 DEF CleanupPart, entry, local
  <1>3. CASE CleanupFails
    BY <1>3 DEF CleanupFails, entry
  <1>4. QED
    BY <1>1, <1>2, <1>3 DEF Removing

\* It is no node of another directory, and not the root.
LEMMA BelowTemp ==
    ASSUME IsTree(tree), NEW q \in DOMAIN tree, Under(<<TempName>>, q)
    PROVE  q \in Seq(Name) /\ q # << >> /\ (Front(q) = << >> \/ Under(<<TempName>>, Front(q)))
  <1>1. q \in Seq(Name)
    BY TreePaths
  <1>2. PICK temp \in Seq(Name) : temp = <<TempName>> /\ Len(temp) = 1
    BY TempPath
  <1>3. Len(q) \in Nat /\ Len(q) >= 1 /\ temp[1] = q[1]
    BY <1>1, <1>2 DEF Under
  <1>4. q # << >>
    BY <1>3
  <1>5. PICK front \in Seq(Name) : front = Front(q)
    BY <1>1, <1>4, FrontProperties
  <1>6. Len(front) = Len(q) - 1 /\ \A i \in 1..Len(q)-1 : front[i] = q[i]
    BY <1>1, <1>4, <1>5, FrontProperties
  <1>7. CASE Len(q) = 1
    BY <1>1, <1>4, <1>5, <1>6, <1>7, EmptySeq
  <1>8. CASE Len(q) > 1
    BY <1>2, <1>3, <1>4, <1>5, <1>6, <1>8, <1>1 DEF Under
  <1>9. QED
    BY <1>1, <1>3, <1>4, <1>7, <1>8

\* The removal keeps the invariant.
LEMMA CleanupStep == IInv /\ Removing => IInv'
  <1>. SUFFICES ASSUME IInv, Removing PROVE IInv'
    OBVIOUS
  <1>. USE Parts
  <1>1. Extracted(tree, tree')
    <2>1. CASE tree' = tree
      BY <2>1
    <2>2. CASE tree' # tree
      <3>1. PICK q \in DOMAIN tree : /\ Under(<<TempName>>, q)
                                     /\ tree' = RemoveTree(tree, q, Clock)
        BY <2>2, RemovingTree
      <3>2. QED
        BY <3>1, BelowTemp, Removal
    <2>3. QED
      BY <2>1, <2>2
  <1>2. /\ pc' \in {"cleanup", "done"} /\ removeErr' \in {removeErr, "io"}
        /\ UNCHANGED <<base, hdr, dst, k, n, unpackedPaths, dirs, aufsHardlinks, aufsTempdir,
                       removals>>
    BY RemovingTree
  <1>3. EntryOK'
    BY <1>2 DEF EntryOK, InEntry, Parent
  <1>4. LocalOK' /\ CountersOK' /\ IsTree(base') /\ UNCHANGED unpackedPaths
    BY <1>2 DEF CountersOK, LocalOK
  <1>5. QED
    BY <1>1, <1>2, <1>3, <1>4, StepKeeps

\* Clearing the entry's place establishes Cleared.
LEMMA ClearStep == IInv /\ Clear => IInv'
  <1>. SUFFICES ASSUME IInv, Clear PROVE IInv'
    OBVIOUS
  <1>. USE Parts
  <1>. DEFINE there == Lstat(tree, dst.path)
  <1>1. /\ pc = "apply" /\ pc' = "create" /\ hdr.type \notin {"white", "opaque"}
        /\ UNCHANGED <<base, hdr, dst, k, n, local, removals>>
        /\ tree' = IF there.err = "ok" /\ RemovesFirst(there.at)
                   THEN RemoveTree(tree, there.at, Clock) ELSE tree
    BY DEF Clear, entry
  <1>2. dst.path # << >> /\ hdr \in Header
    BY <1>1 DEF EntryOK, InEntry
  <1>3. /\ there.err = "ok" => there.at \in DOMAIN tree /\ there.at # << >>
        /\ dst.path \in DOMAIN tree => there = At("ok", dst.path)
    BY <1>2, PathParts, LstatType
  <1>. HIDE DEF there
  <1>4. /\ Extracted(tree, tree')
        /\ hdr.type # "dir" => dst.path \notin DOMAIN tree'
    <2>1. CASE there.err = "ok" /\ RemovesFirst(there.at)
      <3>1. PICK at \in DOMAIN tree : at = there.at /\ at # << >>
        BY <1>3, <2>1
      <3>2. tree' = RemoveTree(tree, at, Clock)
        BY <1>1, <2>1, <3>1
      <3>3. Extracted(tree, tree') /\ DOMAIN tree' \subseteq DOMAIN tree
        BY <3>1, <3>2, Removal
      <3>4. at \notin DOMAIN tree'
        <4>1. Clock \in Nat
          BY ExtractAssumption
        <4>2. PICK left : left = tree'
          OBVIOUS
        <4>3. left = RemoveTree(tree, at, Clock)
          BY <3>2, <4>2
        <4>4. CutAt(tree, at, left)
          BY <3>1, <4>1, <4>3, RemoveTreeType
        <4>5. QED
          BY <4>2, <4>4 DEF CutAt
      <3>5. dst.path \in DOMAIN tree => at = dst.path
        BY <1>3, <3>1 DEF At
      <3>6. QED
        BY <3>3, <3>4, <3>5
    <2>2. CASE ~(there.err = "ok" /\ RemovesFirst(there.at))
      <3>1. tree' = tree
        BY <1>1, <2>2
      <3>2. dst.path \in DOMAIN tree => hdr.type = "dir"
        BY <1>3, <2>2 DEF At, RemovesFirst
      <3>3. QED
        BY <3>1, <3>2
    <2>3. QED
      BY <2>1, <2>2
  <1>5. EntryOK'
    BY <1>1 DEF EntryOK, InEntry, Parent
  <1>6. LocalOK' /\ CountersOK' /\ IsTree(base') /\ UNCHANGED unpackedPaths
    BY <1>1, LocalUnchanged DEF CountersOK, local
  <1>7. TypeOK'
    BY <1>4, <1>5, <1>6, TypePartsNext DEF Extracted
  <1>8. Written'
    BY <1>4, <1>6 DEF IInv, Written, Extracted, Marks
  <1>9. Cleared'
    BY <1>1, <1>4 DEF Cleared
  <1>10. Dispatched'
    <2>1. hdr.type \in EntryType \ {"white", "opaque", "meta", "plnk"}
      BY <1>1, <1>2 DEF IInv, Dispatched, Header
    <2>2. hdr.type \in {"dir", "reg", "sym", "dev", "link", "plink"}
      BY <2>1 DEF EntryType
    <2>3. QED
      BY <1>1, <2>2 DEF Dispatched
  <1>11. QED
    BY <1>7, <1>8, <1>9, <1>10 DEF IInv

\* Another process removes a subtree: no invariant asks for a node to be there.
LEMMA RemovedByOtherStep == IInv /\ RemovedByOther => IInv'
  <1>. SUFFICES ASSUME IInv, RemovedByOther PROVE IInv'
    OBVIOUS
  <1>. USE Parts
  <1>1. /\ removals < MaxRemovals /\ removals' = removals + 1
        /\ UNCHANGED <<pc, hdr, dst, k, n, local>>
    BY DEF RemovedByOther, entry
  <1>2. PICK p \in DOMAIN tree \ {<< >>} :
            /\ tree' = RemoveTree(tree, p, Clock)
            /\ base' = IF Exists(base, p) THEN RemoveTree(base, p, Clock) ELSE base
    BY DEF RemovedByOther
  <1>3. Extracted(tree, tree') /\ DOMAIN tree' \subseteq DOMAIN tree
    BY <1>2, Removal
  <1>4. IsTree(base')
    <2>1. CASE Exists(base, p)
      <3>1. Extracted(base, RemoveTree(base, p, Clock))
        BY <1>2, <2>1, RemovedType DEF Exists
      <3>2. QED
        BY <1>2, <2>1, <3>1 DEF Extracted
    <2>2. CASE ~Exists(base, p)
      BY <1>2, <2>2
    <2>3. QED
      BY <2>1, <2>2
  <1>5. EntryOK'
    BY <1>1 DEF EntryOK, InEntry, Parent
  <1>6. LocalOK' /\ CountersOK' /\ UNCHANGED unpackedPaths
    <2>1. CountersOK'
      BY <1>1, UnpackLayerAssumption DEF CountersOK
    <2>2. QED
      BY <1>1, <2>1, LocalUnchanged DEF local
  <1>7. TypeOK'
    BY <1>3, <1>4, <1>5, <1>6, TypePartsNext DEF Extracted
  <1>8. Written'
    BY <1>3, <1>6 DEF IInv, Written, Extracted, Marks
  <1>9. Cleared' /\ Dispatched'
    BY <1>1, <1>3 DEF IInv, Cleared, Dispatched
  <1>10. QED
    BY <1>7, <1>8, <1>9 DEF IInv

\* A file below /.wh..wh.plnk, whether all goes well or not.
Plnk == ExtractPlnk \/ PlnkFails

\* The header of a file that is written without owner and times.
HalfHdr == [PlnkHdr EXCEPT !.owner = Process, !.time = Clock]

\* What these two do: they make the directory, and then the file, or the error is
\* that of MkdirTemp's successor.
LEMMA PlnkOutcome ==
    ASSUME Plnk
    PROVE  /\ MakesTemp /\ pc = "plnk" /\ InEntry
           /\ \/ tree' = TempMade
              \/ \E header \in {PlnkHdr, HalfHdr} :
                    tree' = createTarFile(TempMade, PlnkPath, header).tree
           /\ \/ Continue /\ UNCHANGED err
              \/ \E e : e # "ok" /\ Return(e) /\ UNCHANGED entry
           /\ aufsHardlinks' = WithHeader
           /\ aufsTempdir' = TRUE
           /\ UNCHANGED <<base, n, unpackedPaths, dirs, removeErr, removals>>
  <1>1. CASE ExtractPlnk
    BY <1>1 DEF ExtractPlnk, MakesTemp, InEntry, PlnkMade
  <1>2. CASE PlnkFails
    BY <1>2 DEF PlnkFails, MakesTemp, InEntry, HalfPlnk, HalfHdr
  <1>3. QED
    BY <1>1, <1>2 DEF Plnk

\* The temporary directory is made where nothing is.
LEMMA TempMadeType ==
    ASSUME IInv, MakesTemp
    PROVE  Extracted(tree, TempMade)
  <1>. USE Parts
  <1>1. hdr \in Header /\ hdr.by = n /\ pc = "plnk"
    BY DEF MakesTemp, EntryOK, InEntry
  <1>. DEFINE temp == <<TempName>>
              node == TempNode
  <1>2. CASE aufsTempdir
    BY <1>2 DEF TempMade
  <1>3. CASE ~aufsTempdir
    <2>1. /\ temp \in Seq(Name) /\ temp # << >> /\ Front(temp) = << >>
          /\ temp \notin DOMAIN tree
      BY <1>3, TempPath DEF MakesTemp, Exists
    <2>2. IsDir(tree, << >>)
      BY DEF IsTree, WellFormed, IsDir, Exists
    <2>3. n \in Nat /\ n > 0 /\ Clock \in Nat
      BY <1>1, ExtractAssumption DEF Header
    <2>4. node \in NodeType /\ node.by = n
      BY <2>3 DEF TempNode, Node, NodeType, Kind, NoLink, LinkType, Process
    <2>5. TempMade = PutNode(tree, temp, node, Clock)
      BY <1>3 DEF TempMade
    <2>. HIDE DEF node, temp
    <2>6. PICK put : put = PutNode(tree, temp, node, Clock)
      OBVIOUS
    <2>7. PutAt(tree, temp, node, put)
      BY <2>1, <2>2, <2>3, <2>4, <2>6, PutNodeType
    <2>8. Extracted(tree, put)
      BY <2>3, <2>4, <2>7 DEF PutAt, Extracted, Marks
    <2>9. QED
      BY <2>5, <2>6, <2>8
  <1>4. QED
    BY <1>2, <1>3

\* The file's path and header.
LEMMA PlnkFile ==
    ASSUME IInv, pc = "plnk", NEW header \in {PlnkHdr, HalfHdr}
    PROVE  /\ Front(PlnkPath) \in Seq(Part)
           /\ header \in Header /\ header.type = "reg"
           /\ header.by = n /\ header.link = hdr.link
  <1>. USE Parts
  <1>1. hdr \in Header /\ hdr.by = n
    BY DEF EntryOK, InEntry
  <1>2. PICK name : name = hdr.name
    OBVIOUS
  <1>3. /\ name \in Seq(Name \union {Opq}) /\ name # << >> /\ Front(name) \in Seq(Name)
    BY <1>1, <1>2 DEF Header, EntryName
  <1>4. PICK S : S = Name \union {Opq}
    OBVIOUS
  <1>5. Front(<<TempName>> \o name) \in Seq(Name)
    BY <1>3, <1>4, FrontBelowTemp
  <1>6. Front(PlnkPath) \in Seq(Part)
    BY <1>2, <1>5 DEF PlnkPath, Part
  <1>7. "reg" \in EntryType
    BY DEF EntryType
  <1>8. PlnkHdr \in Header
    BY <1>1, <1>7, HeaderExcept DEF PlnkHdr
  <1>9. PlnkHdr.type = "reg" /\ PlnkHdr.by = n /\ PlnkHdr.link = hdr.link
    BY <1>1 DEF PlnkHdr, Header
  <1>10. HalfHdr \in Header
    <2>1. Process \in Nat /\ Clock \in Nat
      BY ExtractAssumption DEF Process
    <2>2. QED
      BY <1>8, <2>1, HeaderExcept DEF HalfHdr
  <1>11. HalfHdr.type = "reg" /\ HalfHdr.by = n /\ HalfHdr.link = hdr.link
    BY <1>8, <1>9 DEF HalfHdr, Header
  <1>12. QED
    BY <1>6, <1>8, <1>9, <1>10, <1>11

\* A file below /.wh..wh.plnk, after the temporary directory is made.
LEMMA ExtractPlnkStep == IInv /\ Plnk => IInv'
  <1>. SUFFICES ASSUME IInv, Plnk PROVE IInv'
    OBVIOUS
  <1>. USE Parts
  <1>1. /\ hdr \in Header /\ pc = "plnk" /\ MakesTemp
        /\ Continue \/ (\E e : Return(e) /\ UNCHANGED entry)
        /\ aufsHardlinks' = WithHeader
        /\ aufsTempdir' = TRUE
        /\ UNCHANGED <<base, n, unpackedPaths, dirs, removeErr, removals>>
    BY PlnkOutcome DEF EntryOK
  <1>2. PICK made : made = TempMade
    OBVIOUS
  <1>3. Extracted(tree, made)
    BY <1>1, <1>2, TempMadeType
  <1>4. Extracted(made, tree')
    <2>1. CASE tree' = made
      BY <1>3, <2>1, Unchanged DEF Extracted
    <2>2. CASE \E header \in {PlnkHdr, HalfHdr} :
                  tree' = createTarFile(made, PlnkPath, header).tree
      <3>1. PICK header \in {PlnkHdr, HalfHdr} :
                tree' = createTarFile(made, PlnkPath, header).tree
        BY <2>2
      <3>2. PICK path, out : path = PlnkPath /\ out = createTarFile(made, path, header)
        OBVIOUS
      <3>3. Front(path) \in Seq(Part) /\ header \in Header /\ header.type = "reg"
        BY <1>1, <3>2, PlnkFile
      <3>4. Extracted(made, out.tree)
        BY <1>3, <3>2, <3>3, CreateType DEF Extracted
      <3>5. QED
        BY <3>1, <3>2, <3>4
    <2>3. QED
      BY <1>2, <2>1, <2>2, PlnkOutcome
  <1>6. Extracted(tree, tree')
    <2>1. PICK new : new = tree'
      OBVIOUS
    <2>2. QED
      BY <1>3, <1>4, <2>1, ExtractedTwice
  <1>7. EntryOK' /\ pc' \notin {"implied", "apply", "create"}
    <2>1. CASE Continue
      BY <2>1, ContinueEntry DEF Continue
    <2>2. CASE \E e : Return(e) /\ UNCHANGED entry
      <3>1. dst' = dst /\ k' \in Nat
        BY <2>2 DEF entry, EntryOK
      <3>2. QED
        BY <2>2, <3>1, ReturnEntry DEF Return
    <2>3. QED
      BY <1>1, <2>1, <2>2
  <1>8. LocalOK'
    <2>1. \A x \in DOMAIN aufsHardlinks' : aufsHardlinks'[x] \in Header
      BY <1>1 DEF LocalOK, WithHeader
    <2>2. QED
      BY <1>1, <2>1 DEF LocalOK
  <1>9. CountersOK' /\ IsTree(base')
    BY <1>1 DEF CountersOK
  <1>10. QED
    BY <1>1, <1>6, <1>7, <1>8, <1>9, StepKeeps

-----------------------------------------------------------------------------
(* The walk of an opaque whiteout. *)

\* What the walk keeps holds every kept path's parent.
LEMMA KeptParent ==
    ASSUME IsTree(tree), NEW d \in Seq(Name), NEW q \in Kept(d), q # << >>
    PROVE  Front(q) \in Kept(d)
  <1>1. q \in Seq(Name) /\ q \in DOMAIN tree /\ Front(q) \in DOMAIN tree
    BY TreePaths DEF Kept
  <1>2. PICK p \in Seq(Name) : p = Front(q)
    BY <1>1, FrontProperties
  <1>3. /\ Len(p) = Len(q) - 1 /\ Len(q) \in Nat /\ Len(d) \in Nat
        /\ \A i \in 1..Len(q)-1 : p[i] = q[i]
    BY <1>1, <1>2, FrontProperties
  <1>4. ASSUME Below(d, p) PROVE Survives(d, p)
    <2>1. Below(d, q)
      BY <1>3, <1>4 DEF Below
    <2>2. Survives(d, q)
      BY <2>1 DEF Kept
    <2>3. ASSUME NEW i \in Len(d)+1..Len(p) PROVE SubSeq(p, 1, i) \in unpackedPaths
      <3>1. i \in 1..Len(q)-1 /\ i \in Len(d)+1..Len(q)
        BY <1>3
      <3>2. SubSeq(p, 1, i) = SubSeq(q, 1, i)
        BY <1>1, <1>2, <3>1, PrefixOfFront
      <3>3. QED
        BY <2>2, <3>1, <3>2 DEF Survives
    <2>4. QED
      BY <2>3 DEF Survives
  <1>5. QED
    BY <1>1, <1>2, <1>4 DEF Kept

\* The tree after the walk: part of it, with the same authors, and nothing below
\* the directory but recorded paths.
LEMMA AfterWalkType ==
    ASSUME IsTree(tree), NEW d \in Seq(Name), NEW left, left = AfterWalk(d)
    PROVE  /\ IsTree(left)
           /\ DOMAIN left \subseteq DOMAIN tree
           /\ \A q \in DOMAIN left : left[q].by = tree[q].by
           /\ \A q \in DOMAIN left : Below(d, q) => q \in unpackedPaths
  <1>. DEFINE D == Kept(d)
  <1>1. D \in SUBSET DOMAIN tree
    BY DEF Kept
  <1>2. << >> \in D
    <2>1. ~Below(d, << >>)
      <3>1. Len(d) \in Nat /\ Len(<< >>) = 0
        OBVIOUS
      <3>2. QED
        BY <3>1 DEF Below
    <2>2. << >> \in DOMAIN tree
      BY DEF IsTree, WellFormed
    <2>3. QED
      BY <2>1, <2>2 DEF Kept
  <1>3. \A p \in D \ {<< >>} : Front(p) \in D
    BY KeptParent
  <1>4. DOMAIN left = D /\ left = [q \in D |-> left[q]]
    BY DEF AfterWalk
  <1>5. ASSUME NEW q \in D
        PROVE  left[q] \in NodeType /\ left[q].kind = tree[q].kind /\ left[q].by = tree[q].by
    <2>1. PICK node \in NodeType : node = tree[q]
      BY <1>1, TreePaths
    <2>2. left[q] = node \/ left[q] = [node EXCEPT !.time = Clock]
      BY <2>1 DEF AfterWalk
    <2>3. Clock \in Nat
      BY ExtractAssumption
    <2>4. /\ [node EXCEPT !.time = Clock] \in NodeType
          /\ [node EXCEPT !.time = Clock].kind = node.kind
          /\ [node EXCEPT !.time = Clock].by = node.by
      BY <2>3 DEF NodeType
    <2>5. PICK new : new = [node EXCEPT !.time = Clock]
      OBVIOUS
    <2>6. new \in NodeType /\ new.kind = node.kind /\ new.by = node.by
      BY <2>4, <2>5
    <2>7. QED
      BY <2>1, <2>2, <2>5, <2>6
  <1>6. ASSUME NEW q \in D, Below(d, q) PROVE q \in unpackedPaths
    <2>1. q \in Seq(Name) /\ Len(q) \in Nat /\ Len(d) \in Nat
      BY <1>1, TreePaths
    <2>2. Len(q) \in Len(d)+1..Len(q)
      BY <1>6, <2>1 DEF Below
    <2>3. SubSeq(q, 1, Len(q)) \in unpackedPaths
      BY <1>6, <2>2 DEF Kept, Survives
    <2>4. SubSeq(q, 1, Len(q)) = q
      BY <2>1
    <2>5. QED
      BY <2>3, <2>4
  <1>. HIDE DEF D
  <1>7. left \in [D -> NodeType] /\ \A p \in D : left[p].kind = tree[p].kind
    BY <1>4, <1>5
  <1>8. IsTree(left)
    BY <1>1, <1>2, <1>3, <1>7, TreeKept
  <1>9. QED
    BY <1>1, <1>4, <1>5, <1>6, <1>8

\* The directory an opaque whiteout walks.
LEMMA WalkedType ==
    ASSUME IInv PROVE Walk(tree, Parent, TRUE, TRUE).at \in Seq(Name)
  <1>. USE Parts
  <1>1. Parent \in Seq(Part)
    BY PathParts DEF Parent
  <1>2. PICK dir : dir = Walk(tree, Parent, TRUE, TRUE)
    OBVIOUS
  <1>3. OnTree(tree, TRUE, dir)
    BY <1>1, <1>2, WalkType
  <1>4. QED
    BY <1>2, <1>3 DEF OnTree, WalkState

\* An opaque whiteout.
LEMMA OpaqueStep == IInv /\ Opaque => IInv'
  <1>. SUFFICES ASSUME IInv, Opaque PROVE IInv'
    OBVIOUS
  <1>. USE Parts
  <1>1. PICK d \in Seq(Name) : d = Walk(tree, Parent, TRUE, TRUE).at
    BY WalkedType
  <1>2. /\ tree' = tree \/ tree' = AfterWalk(d)
        /\ Continue \/ ((\E e : Return(e)) /\ UNCHANGED entry)
        /\ UNCHANGED <<base, n, local, removals>>
    BY <1>1 DEF Opaque
  <1>3. Extracted(tree, tree')
    <2>1. CASE tree' = tree
      BY <2>1
    <2>2. CASE tree' = AfterWalk(d)
      <3>1. PICK left : left = AfterWalk(d)
        OBVIOUS
      <3>2. /\ IsTree(left) /\ DOMAIN left \subseteq DOMAIN tree
            /\ \A q \in DOMAIN left : left[q].by = tree[q].by
        BY <3>1, AfterWalkType
      <3>3. QED
        BY <2>2, <3>1, <3>2 DEF Extracted, Marks
    <2>3. QED
      BY <1>2, <2>1, <2>2
  <1>4. EntryOK' /\ pc' \notin {"implied", "apply", "create"}
    <2>1. CASE Continue
      BY <2>1, ContinueEntry DEF Continue
    <2>2. CASE (\E e : Return(e)) /\ UNCHANGED entry
      <3>1. dst' = dst /\ k' \in Nat
        BY <2>2 DEF entry, EntryOK
      <3>2. QED
        BY <2>2, <3>1, ReturnEntry DEF Return
    <2>3. QED
      BY <1>2, <2>1, <2>2
  <1>5. LocalOK' /\ CountersOK' /\ IsTree(base') /\ UNCHANGED unpackedPaths
    BY <1>2, LocalUnchanged DEF CountersOK, local
  <1>6. QED
    BY <1>3, <1>4, <1>5, StepKeeps

-----------------------------------------------------------------------------
(* Writing the entry. *)

\* remapIDs keeps a header a header of the same type.
LEMMA RemapType ==
    ASSUME NEW header \in Header
    PROVE  remapIDs(header) \in Header /\ remapIDs(header).type = header.type
  <1>1. PICK owner : owner = ToHost(header.owner)
    OBVIOUS
  <1>2. owner \in Nat
    BY <1>1, ExtractAssumption DEF ToHost, Header
  <1>3. remapIDs(header) = [header EXCEPT !.owner = owner]
    BY <1>1 DEF remapIDs
  <1>4. QED
    BY <1>2, <1>3 DEF Header

\* The header createTarFile is given.
LEMMA SourceType ==
    ASSUME IInv, pc = "create", SourceError = "ok"
    PROVE  /\ srcHdr \in Header
           /\ srcHdr.type \in {"dir", "reg", "dev", "sym", "link"}
           /\ srcHdr.type = "dir" <=> hdr.type = "dir"
  <1>. USE Parts
  <1>1. /\ hdr \in Header /\ hdr.by = n
        /\ hdr.type \in {"dir", "reg", "sym", "dev", "link", "plink"}
    BY DEF IInv, Dispatched, EntryOK, InEntry
  <1>2. CASE hdr.type # "plink"
    BY <1>1, <1>2 DEF srcHdr
  <1>3. CASE hdr.type = "plink"
    <2>1. hdr.link.to \in DOMAIN aufsHardlinks
      BY <1>3 DEF SourceError
    <2>2. PICK header \in Header : header = aufsHardlinks[hdr.link.to]
      BY <2>1 DEF LocalOK
    <2>3. srcHdr = [header EXCEPT !.type = "reg", !.by = n]
      BY <1>3, <2>2 DEF srcHdr
    <2>4. "reg" \in EntryType /\ n \in Nat \ {0}
      BY <1>1 DEF EntryType, Header
    <2>5. srcHdr \in Header
      BY <2>3, <2>4, HeaderExcept
    <2>6. srcHdr.type = "reg"
      BY <2>2, <2>3 DEF Header
    <2>7. QED
      BY <1>3, <2>5, <2>6
  <1>4. QED
    BY <1>2, <1>3

\* What is left in the entry's place when it has been written.
LEMMA CreatedMarked ==
    ASSUME IInv, pc = "create", NEW header \in Header,
           header.type \in {"dir", "reg", "dev", "sym", "link"},
           header.type = "dir" <=> hdr.type = "dir",
           NEW path, path = dst.path,
           NEW out, out = createTarFile(tree, path, header)
    PROVE  /\ Extracted(tree, out.tree)
           /\ out.err = "ok" /\ path \in DOMAIN out.tree => out.tree[path].by > 0
  <1>. USE Parts
  <1>1. path # << >> /\ Front(path) \in Seq(Part)
    BY PathParts DEF EntryOK, InEntry
  <1>2. PICK l : l = Locate(tree, path)
    OBVIOUS
  <1>3. Extracted(tree, out.tree) /\ (header.type = "dir" => Made(tree, l, out))
    BY <1>1, <1>2, CreateType
  <1>4. ASSUME out.err = "ok", path \in DOMAIN out.tree
        PROVE  out.tree[path].by > 0
    <2>1. CASE path \notin DOMAIN tree
      BY <1>3, <1>4, <2>1 DEF Extracted, Marks
    <2>2. CASE path \in DOMAIN tree
      <3>1. header.type = "dir"
        BY <2>2 DEF IInv, Cleared
      <3>2. l.at = path
        <4>1. l = At("ok", path)
          BY <1>1, <1>2, <2>2, LocateType
        <4>2. QED
          BY <4>1 DEF At
      <3>3. QED
        BY <1>3, <1>4, <3>1, <3>2 DEF Made
    <2>3. QED
      BY <2>1, <2>2
  <1>5. QED
    BY <1>3, <1>4

\* Writing the entry records its path, which by Cleared is the entry's own.
LEMMA CreateStep == IInv /\ Create => IInv'
  <1>. SUFFICES ASSUME IInv, Create PROVE IInv'
    OBVIOUS
  <1>. USE Parts
  <1>1. CASE /\ \E e : Return(e)
             /\ UNCHANGED <<tree, entry, unpackedPaths, dirs, aufsHardlinks>>
    <2>1. UNCHANGED <<base, n, aufsTempdir, removeErr, removals>>
      BY DEF Create
    <2>2. dst' = dst /\ k' \in Nat
      BY <1>1 DEF entry, EntryOK
    <2>3. EntryOK' /\ pc' = "cleanup"
      BY <1>1, <2>2, ReturnEntry DEF Return
    <2>4. LocalOK' /\ CountersOK' /\ IsTree(base')
      BY <1>1, <2>1 DEF LocalOK, CountersOK
    <2>5. QED
      BY <1>1, <2>3, <2>4, StepKeeps
  <1>2. CASE SourceError = "ok" /\ Mapped(srcHdr.owner)
    <2>1. pc = "create" /\ SourceError = "ok" /\ hdr \in Header
      BY <1>2 DEF Create, EntryOK, InEntry
    <2>2. PICK header : header = remapIDs(srcHdr)
      OBVIOUS
    <2>3. /\ header \in Header /\ header.type \in {"dir", "reg", "dev", "sym", "link"}
          /\ header.type = "dir" <=> hdr.type = "dir"
      <3>1. PICK source : source = srcHdr
        OBVIOUS
      <3>2. /\ source \in Header /\ source.type \in {"dir", "reg", "dev", "sym", "link"}
            /\ source.type = "dir" <=> hdr.type = "dir"
        BY <2>1, <3>1, SourceType
      <3>3. header \in Header /\ header.type = source.type
        BY <2>2, <3>1, <3>2, RemapType
      <3>4. QED
        BY <3>2, <3>3
    <2>4. PICK path : path = dst.path
      OBVIOUS
    <2>5. PICK out : out = createTarFile(tree, path, header)
      OBVIOUS
    <2>6. /\ aufsHardlinks' = RemappedLinks
          /\ tree' = out.tree
          /\ UNCHANGED <<base, n, aufsTempdir, removeErr, removals>>
          /\ \/ /\ out.err = "ok"
                /\ dirs' = RecordedDirs
                /\ unpackedPaths' = unpackedPaths \union {path}
                /\ Continue
             \/ /\ Return(out.err)
                /\ UNCHANGED <<entry, unpackedPaths, dirs>>
      BY <1>2, <2>2, <2>4, <2>5 DEF Create
    <2>7. /\ Extracted(tree, tree')
          /\ out.err = "ok" /\ path \in DOMAIN tree' => tree'[path].by > 0
      BY <2>1, <2>3, <2>4, <2>5, <2>6, CreatedMarked
    <2>8. path \in Seq(Name) /\ hdr.time \in Nat
      BY <2>1, <2>4 DEF EntryOK, InEntry, IInv, Dispatched, Header
    <2>9. \A x \in DOMAIN aufsHardlinks' : aufsHardlinks'[x] \in Header
      <3>1. CASE hdr.type # "plink"
        BY <2>6, <3>1 DEF RemappedLinks, LocalOK
      <3>2. CASE hdr.type = "plink"
        <4>1. PICK to : to = hdr.link.to
          OBVIOUS
        <4>2. PICK remapped : remapped = remapIDs(aufsHardlinks[to])
          OBVIOUS
        <4>3. to \in DOMAIN aufsHardlinks
          BY <2>1, <3>2, <4>1 DEF SourceError
        <4>4. remapped \in Header
          BY <4>2, <4>3, RemapType DEF LocalOK
        <4>5. aufsHardlinks' = [aufsHardlinks EXCEPT ![to] = remapped]
          BY <2>6, <3>2, <4>1, <4>2 DEF RemappedLinks
        <4>6. QED
          BY <4>4, <4>5 DEF LocalOK
      <3>3. QED
        BY <3>1, <3>2
    <2>10. dirs' \in Seq([name : Seq(Name), time : Nat])
      <3>1. PICK dir : dir = [name |-> path, time |-> hdr.time]
        OBVIOUS
      <3>2. PICK R : R = [name : Seq(Name), time : Nat]
        OBVIOUS
      <3>3. dir \in R /\ dirs \in Seq(R)
        BY <2>8, <3>1, <3>2 DEF LocalOK
      <3>4. dirs' = dirs \/ dirs' = Append(dirs, dir)
        BY <2>4, <2>6, <3>1 DEF RecordedDirs
      <3>5. dirs' \in Seq(R)
        <4>1. Append(dirs, dir) \in Seq(R)
          BY <3>3, AppendProperties
        <4>2. QED
          BY <3>3, <3>4, <4>1
      <3>6. QED
        BY <3>2, <3>5
    <2>11. LocalOK' /\ CountersOK' /\ IsTree(base')
      BY <2>6, <2>8, <2>9, <2>10 DEF LocalOK, CountersOK
    <2>12. EntryOK' /\ pc' \notin {"implied", "apply", "create"}
      <3>1. CASE Continue
        BY <3>1, ContinueEntry DEF Continue
      <3>2. CASE Return(out.err) /\ UNCHANGED entry
        <4>1. dst' = dst /\ k' \in Nat
          BY <3>2 DEF entry, EntryOK
        <4>2. QED
          BY <3>2, <4>1, ReturnEntry DEF Return
      <3>3. QED
        BY <2>6, <3>1, <3>2
    <2>13. TypeOK'
      BY <2>7, <2>11, <2>12, TypePartsNext DEF Extracted
    <2>14. Written'
      BY <2>6, <2>7 DEF IInv, Written, Extracted, Marks
    <2>15. Cleared' /\ Dispatched'
      BY <2>12 DEF Cleared, Dispatched
    <2>16. QED
      BY <2>13, <2>14, <2>15 DEF IInv
  <1>3. QED
    BY <1>1, <1>2 DEF Create

-----------------------------------------------------------------------------
(* A failing operation. *)

\* What RemoveAll removes before it fails is not the root.
LEMMA HalfRemovedType ==
    ASSUME IInv, pc = "apply", NEW q \in HalfRemoved
    PROVE  q \in DOMAIN tree /\ q # << >>
  <1>. USE Parts
  <1>1. CASE hdr.type = "opaque"
    <2>1. PICK d \in Seq(Name) : d = Walk(tree, Parent, TRUE, TRUE).at
      BY WalkedType
    <2>2. q \in DOMAIN tree /\ Below(d, q)
      BY <1>1, <2>1 DEF HalfRemoved, Kept
    <2>3. Len(d) \in Nat /\ Len(<< >>) = 0
      OBVIOUS
    <2>4. QED
      BY <2>2, <2>3 DEF Below
  <1>2. CASE hdr.type # "opaque"
    <2>1. PICK there : there = Lstat(tree, dst.path)
      OBVIOUS
    <2>2. q \in DOMAIN tree /\ there.err = "ok" /\ Under(there.at, q)
      BY <1>2, <2>1 DEF HalfRemoved
    <2>3. dst.path # << >>
      BY DEF EntryOK, InEntry
    <2>4. there.at \in DOMAIN tree /\ there.at # << >>
      BY <2>1, <2>2, <2>3, PathParts, LstatType
    <2>5. there.at \in Seq(Name)
      BY <2>4, TreePaths
    <2>6. Len(there.at) > 0 /\ Len(<< >>) = 0
      BY <2>4, <2>5, EmptySeq, LenProperties
    <2>7. QED
      BY <2>2, <2>6 DEF Under
  <1>3. QED
    BY <1>1, <1>2

\* What createTarFile makes before it fails.
LEMMA HalfMadeType ==
    ASSUME IInv, pc = "create", NEW left \in HalfMade
    PROVE  Extracted(tree, left)
  <1>. USE Parts
  <1>1. PICK source : source = srcHdr
    OBVIOUS
  <1>2. /\ SourceError = "ok" /\ source.type \in {"dir", "reg", "sym"}
        /\ left = createTarFile(tree, dst.path,
                      [source EXCEPT !.owner = Process, !.time = Clock]).tree
    BY <1>1 DEF HalfMade
  <1>3. source \in Header
    BY <1>1, <1>2, SourceType
  <1>4. PICK header : header = [source EXCEPT !.owner = Process, !.time = Clock]
    OBVIOUS
  <1>5. header \in Header
    <2>1. Process \in Nat /\ Clock \in Nat
      BY ExtractAssumption DEF Process
    <2>2. QED
      BY <1>3, <1>4, <2>1, HeaderExcept
  <1>6. header.type \in {"dir", "reg", "dev", "sym", "link"}
    BY <1>2, <1>3, <1>4 DEF Header
  <1>7. PICK path, out : path = dst.path /\ out = createTarFile(tree, path, header)
    OBVIOUS
  <1>8. Front(path) \in Seq(Part) /\ left = out.tree
    BY <1>2, <1>4, <1>7, PathParts
  <1>9. QED
    BY <1>5, <1>6, <1>7, <1>8, CreateType

\* An operation fails half way.
LEMMA FaultStep == IInv /\ Fault => IInv'
  <1>. SUFFICES ASSUME IInv, Fault PROVE IInv'
    OBVIOUS
  <1>. USE Parts
  <1>1. /\ Return("io")
        /\ UNCHANGED <<base, hdr, dst, k, n, local, removals>>
        /\ \/ UNCHANGED tree
           \/ pc = "apply" /\ \E q \in HalfRemoved : tree' = RemoveTree(tree, q, Clock)
           \/ pc = "create" /\ tree' \in HalfMade
    BY DEF Fault, entry
  <1>2. Extracted(tree, tree')
    <2>1. CASE UNCHANGED tree
      BY <2>1
    <2>2. CASE pc = "apply" /\ \E q \in HalfRemoved : tree' = RemoveTree(tree, q, Clock)
      <3>1. PICK q \in HalfRemoved : tree' = RemoveTree(tree, q, Clock)
        BY <2>2
      <3>2. QED
        BY <2>2, <3>1, HalfRemovedType, Removal
    <2>3. CASE pc = "create" /\ tree' \in HalfMade
      <3>1. PICK left \in HalfMade : left = tree'
        BY <2>3
      <3>2. Extracted(tree, left)
        BY <2>3, <3>1, HalfMadeType
      <3>3. QED
        BY <3>1, <3>2
    <2>4. QED
      BY <1>1, <2>1, <2>2, <2>3
  <1>3. EntryOK' /\ pc' = "cleanup"
    <2>1. k' \in Nat
      BY <1>1 DEF EntryOK
    <2>2. QED
      BY <1>1, <2>1, ReturnEntry DEF Return
  <1>4. LocalOK' /\ CountersOK' /\ IsTree(base') /\ UNCHANGED unpackedPaths
    BY <1>1, LocalUnchanged DEF CountersOK, local
  <1>5. QED
    BY <1>2, <1>3, <1>4, StepKeeps

-----------------------------------------------------------------------------
(* Reading an entry. *)

\* Reading an entry resolves its name and starts its part of the loop.
LEMMA ReadStep == \A h \in Layer : IInv /\ Read(h) => IInv'
  <1>. SUFFICES ASSUME NEW h \in Layer, IInv, Read(h) PROVE IInv'
    OBVIOUS
  <1>. USE Parts
  <1>1. /\ h.type \in EntryType /\ h.name \in EntryName /\ h.link \in LinkType
        /\ h.owner \in Nat
        /\ h.type # "opaque" => h.name \in Seq(Name)
    BY UnpackLayerAssumption DEF HeaderIn
  <1>2. PICK name : name = h.name
    OBVIOUS
  <1>3. PICK S : S = Name \union {Opq}
    OBVIOUS
  <1>4. /\ name \in Seq(S) /\ name # << >>
        /\ Front(name) \in Seq(Name) /\ Front(name) \in Seq(Part)
        /\ h.type # "opaque" => name \in Seq(Name)
    BY <1>1, <1>2, <1>3 DEF EntryName, Part
  <1>5. PICK resolved : resolved = resolveArchivePath(tree, name)
    OBVIOUS
  <1>6. PICK header : header = [type |-> h.type, name |-> h.name, link |-> h.link,
                                owner |-> h.owner, time |-> n + 1, by |-> n + 1]
    OBVIOUS
  <1>7. /\ pc = "read" /\ n < MaxEntries /\ n' = n + 1 /\ base' = tree
        /\ UNCHANGED <<tree, local, removals>>
        /\ \/ Continue
           \/ pc' = "plnk" /\ hdr' = header /\ UNCHANGED <<dst, k>>
           \/ /\ h.type \notin {"meta", "plnk"} /\ resolved.err = "ok"
              /\ hdr' = header /\ dst' = resolved /\ k' = 0 /\ pc' = "implied"
           \/ Return(resolved.err) /\ UNCHANGED entry
    BY <1>2, <1>5, <1>6 DEF Read
  <1>8. n \in Nat /\ n' \in 1..MaxEntries
    BY <1>7, UnpackLayerAssumption DEF CountersOK
  <1>9. header \in Header /\ header.by = n' /\ header.type = h.type
    BY <1>1, <1>6, <1>7, <1>8 DEF Header
  <1>10. ASSUME resolved.err = "ok"
         PROVE  /\ resolved.path \in Seq(S) /\ resolved.path # << >>
                /\ Front(resolved.path) \in Seq(Name)
                /\ h.type # "opaque" => resolved.path \in Seq(Name)
    <2>1. /\ resolved.path \in Seq(S) /\ resolved.path # << >>
          /\ Front(resolved.path) \in Seq(Name) \union {Front(name)}
      BY <1>3, <1>4, <1>5, <1>10, ResolvedType
    <2>2. h.type # "opaque" => resolved.path \in Seq(Name)
      BY <1>4, <1>5, <1>10, ResolvedType
    <2>3. QED
      BY <1>4, <2>1, <2>2
  <1>11. EntryOK'
    <2>1. CASE Continue
      BY <2>1, ContinueEntry
    <2>2. CASE pc' = "plnk" /\ hdr' = header /\ UNCHANGED <<dst, k>>
      BY <1>9, <2>2 DEF EntryOK, InEntry, Parent
    <2>3. CASE /\ h.type \notin {"meta", "plnk"} /\ resolved.err = "ok"
               /\ hdr' = header /\ dst' = resolved /\ k' = 0 /\ pc' = "implied"
      BY <1>3, <1>9, <1>10, <2>3 DEF EntryOK, InEntry, Parent
    <2>4. CASE Return(resolved.err) /\ UNCHANGED entry
      <3>1. dst' = dst /\ k' \in Nat
        BY <2>4 DEF entry, EntryOK
      <3>2. QED
        BY <2>4, <3>1, ReturnEntry
    <2>5. QED
      BY <1>7, <2>1, <2>2, <2>3, <2>4
  <1>12. LocalOK' /\ CountersOK' /\ IsTree(base') /\ UNCHANGED unpackedPaths
    BY <1>7, <1>8, LocalUnchanged DEF CountersOK, local
  <1>13. TypeOK'
    BY <1>7, <1>11, <1>12, TypePartsNext
  <1>14. Written'
    BY <1>7, <1>12 DEF IInv, Written
  <1>15. Cleared' /\ Dispatched'
    BY <1>7, <1>9 DEF Continue, Return, Cleared, Dispatched
  <1>16. QED
    BY <1>13, <1>14, <1>15 DEF IInv

-----------------------------------------------------------------------------
(* The temporary directory's name. *)

\* A path of the other names does not lead to or into the temporary directory.
LEMMA SparedPath ==
    ASSUME NEW p \in Seq(Spared)
    PROVE  p # <<TempName>> /\ ~Under(<<TempName>>, p)
  <1>1. TempName \notin Spared
    BY DEF Spared
  <1>2. Len(p) \in Nat /\ (1 <= Len(p) => p[1] \in Spared)
    BY ElementOfSeq
  <1>3. Len(<<TempName>>) = 1 /\ <<TempName>>[1] = TempName
    OBVIOUS
  <1>4. QED
    BY <1>1, <1>2, <1>3 DEF Under

\* The temporary directory is as it was, if it was there.
TempKept(old, new) ==
    /\ <<TempName>> \in DOMAIN new => <<TempName>> \in DOMAIN old
    /\ TempPlain(old) => TempPlain(new)

\* What joins the tree at such a path keeps it apart.
LEMMA JoinsApart ==
    ASSUME TreeApart, NEW new, NEW at \in Seq(Spared), NEW ino, NEW link,
           Joins(tree, new, at, ino, link), link.to \in Seq(Spared)
    PROVE  /\ LinksWithin(new, Spared)
           /\ TempKept(tree, new)
  <1>1. LinksWithin(new, Spared)
    BY JoinsWithin DEF TreeApart
  <1>2. at # <<TempName>> /\ ~Under(<<TempName>>, at)
    BY SparedPath
  <1>3. TempKept(tree, new)
    BY <1>2 DEF Joins, Known, TempKept, TempPlain, Alike
  <1>4. QED
    BY <1>1, <1>3

\* createTarFile, given such a path and link.
LEMMA CreatedApart ==
    ASSUME TreeApart, IsTree(tree), NEW path \in Seq(Spared), path # << >>,
           Front(path) \in Seq(Part), NEW header \in Header,
           header.type \in {"dir", "reg", "dev", "sym", "link"},
           header.link.to \in Seq(Spared),
           NEW out, out = createTarFile(tree, path, header)
    PROVE  /\ LinksWithin(out.tree, Spared)
           /\ TempKept(tree, out.tree)
  <1>1. PICK l : l = Locate(tree, path)
    OBVIOUS
  <1>2. CASE l.err # "ok"
    <2>1. out.tree = tree
      BY <1>1, <1>2, NothingMade
    <2>2. QED
      BY <2>1 DEF TreeApart, TempKept
  <1>3. CASE l.err = "ok"
    <2>1. l.at \in Seq(Spared)
      BY <1>1, <1>3, LocateWithin DEF TreeApart
    <2>2. Joins(tree, out.tree, l.at, Inode(header, l.at), header.link)
      BY <1>1, CreateJoins
    <2>3. PICK at, ino, link, new :
              at = l.at /\ ino = Inode(header, l.at) /\ link = header.link /\ new = out.tree
      OBVIOUS
    <2>4. QED
      BY <2>1, <2>2, <2>3, JoinsApart
  <1>4. QED
    BY <1>2, <1>3

\* The Mkdir of a parent directory, given such a path.
LEMMA ImpliedApart ==
    ASSUME TreeApart, IsTree(tree), NEW cur \in Seq(Spared), cur # << >>,
           Front(cur) \in Seq(Part), NEW header, NEW out, out = mkdirImplied(tree, cur, header)
    PROVE  /\ LinksWithin(out.tree, Spared)
           /\ TempKept(tree, out.tree)
  <1>1. PICK l : l = Locate(tree, cur)
    OBVIOUS
  <1>2. CASE l.err # "ok"
    <2>1. out.tree = tree
      BY <1>1, <1>2, NothingMade DEF Outcome
    <2>2. QED
      BY <2>1 DEF TreeApart, TempKept
  <1>3. CASE l.err = "ok"
    <2>1. l.at \in Seq(Spared)
      BY <1>1, <1>3, LocateWithin DEF TreeApart
    <2>2. Joins(tree, out.tree, l.at, Inode(header, l.at), NoLink)
      BY <1>1, ImpliedJoins
    <2>3. PICK at, ino, link, new :
              at = l.at /\ ino = Inode(header, l.at) /\ link = NoLink /\ new = out.tree
      OBVIOUS
    <2>4. link.to \in Seq(Spared)
      BY <2>3 DEF NoLink
    <2>5. QED
      BY <2>1, <2>2, <2>3, <2>4, JoinsApart
  <1>4. QED
    BY <1>2, <1>3

\* A step that adds no node keeps the tree apart.
LEMMA TreeApartAlike ==
    ASSUME TreeApart, UNCHANGED aufsTempdir,
           \A p \in DOMAIN tree' : p \in DOMAIN tree /\ Alike(tree, tree', p),
           \/ pc' = "done" /\ removeErr' = "ok" => pc = "done" /\ removeErr = "ok"
           \/ <<TempName>> \notin DOMAIN tree'
    PROVE  TreeApart'
  BY DEF TreeApart, LinksWithin, TempPlain, Alike

\* A step that records nothing, and goes on with the entry or leaves it.
LEMMA NamesApartKept ==
    ASSUME NamesApart, UNCHANGED <<aufsHardlinks, dirs>>,
           \/ pc' \notin {"plnk", "implied", "apply", "create"}
           \/ UNCHANGED <<hdr, dst>> /\ (InEntry' => InEntry) /\ (OnItsWay' => OnItsWay)
    PROVE  NamesApart'
  BY DEF NamesApart, InEntry, OnItsWay

\* The tree stays as it is.
LEMMA SameAlike ==
    ASSUME tree' = tree
    PROVE  \A p \in DOMAIN tree' : p \in DOMAIN tree /\ Alike(tree, tree', p)
  BY DEF Alike

\* A subtree goes.
LEMMA CutAlike ==
    ASSUME IsTree(tree), NEW at, tree' = RemoveTree(tree, at, Clock)
    PROVE  \A p \in DOMAIN tree' : p \in DOMAIN tree /\ Alike(tree, tree', p)
  <1>1. PICK left : left = tree'
    OBVIOUS
  <1>2. QED
    BY <1>1, RemoveTreeAlike

\* What the walk of an opaque whiteout leaves.
LEMMA AfterWalkAlike ==
    ASSUME IsTree(tree), NEW d, tree' = AfterWalk(d)
    PROVE  \A p \in DOMAIN tree' : p \in DOMAIN tree /\ Alike(tree, tree', p)
  <1>1. PICK left : left = AfterWalk(d)
    OBVIOUS
  <1>2. ASSUME NEW p \in DOMAIN left PROVE p \in DOMAIN tree /\ Alike(tree, left, p)
    <2>1. p \in DOMAIN tree
      BY <1>1 DEF AfterWalk, Kept
    <2>2. PICK node \in NodeType : node = tree[p]
      BY <2>1, TreePaths
    <2>3. left[p] = node \/ left[p] = [node EXCEPT !.time = Clock]
      BY <1>1, <2>2 DEF AfterWalk
    <2>4. PICK other : other = [node EXCEPT !.time = Clock]
      OBVIOUS
    <2>5. other.kind = node.kind /\ other.link = node.link /\ other.ino = node.ino
      BY <2>4 DEF NodeType
    <2>6. QED
      BY <2>1, <2>2, <2>3, <2>4, <2>5 DEF Alike
  <1>3. QED
    BY <1>1, <1>2

\* The time of one directory.
LEMMA ChtimesAlike ==
    ASSUME IsTree(tree), NEW path, NEW time, tree' = chtimes(tree, path, time).tree
    PROVE  /\ DOMAIN tree' = DOMAIN tree
           /\ \A p \in DOMAIN tree : Alike(tree, tree', p)
  <1>. DEFINE stat == Stat(tree, path)
  <1>1. chtimes(tree, path, time) = SetTime(tree, stat, time)
    BY DEF chtimes
  <1>. HIDE DEF stat
  <1>2. \/ tree' = tree
        \/ \E at, owner : tree' = SetMeta(tree, at, owner, time)
    BY <1>1 DEF SetTime, Outcome
  <1>3. CASE tree' = tree
    BY <1>3 DEF Alike
  <1>4. CASE \E at, owner : tree' = SetMeta(tree, at, owner, time)
    <2>1. PICK at, owner : tree' = SetMeta(tree, at, owner, time)
      BY <1>4
    <2>2. PICK new : new = tree'
      OBVIOUS
    <2>3. \A p \in DOMAIN tree : tree[p] \in NodeType
      BY TreePaths
    <2>4. DOMAIN new = DOMAIN tree /\ \A p \in DOMAIN tree : Alike(tree, new, p)
      BY <2>1, <2>2, <2>3, SetMetaAlike
    <2>5. QED
      BY <2>2, <2>4
  <1>5. QED
    BY <1>2, <1>3, <1>4

\* The two parts.
LEMMA ApartParts ==
    ASSUME Apart
    PROVE  TreeApart /\ NamesApart
  BY DEF Apart

\* Steps that only move on in the loop, return an error, or stutter.
LEMMA QuietApart ==
    ASSUME Apart,
           \/ EndOfArchive \/ SkipImplied \/ StartImplied \/ ImpliedMade
           \/ TimesRestored \/ Returned \/ UNCHANGED vars
    PROVE  Apart'
  <1>1. /\ UNCHANGED <<tree, hdr, dst, local>> /\ (pc' = "done" => pc = "done")
        /\ InEntry' => InEntry
        /\ OnItsWay' => OnItsWay
    BY DEF EndOfArchive, SkipImplied, StartImplied, ImpliedMade, TimesRestored,
           Returned, Return, vars, entry, InEntry, OnItsWay
  <1>2. UNCHANGED <<aufsTempdir, aufsHardlinks, dirs, removeErr>>
    BY <1>1 DEF local
  <1>3. TreeApart'
    BY <1>1, <1>2, ApartParts, SameAlike, TreeApartAlike
  <1>4. NamesApart'
    BY <1>1, <1>2, ApartParts, NamesApartKept
  <1>5. QED
    BY <1>3, <1>4 DEF Apart

\* Reading an entry: its name and link are of the other names, so its path is.
LEMMA ReadApart == ASSUME IInv, Apart, NEW h \in Layer, Read(h) PROVE Apart'
  <1>. USE Parts
  <1>1. /\ h.name \in EntryName /\ h.name \in Seq(Spared) /\ h.link.to \in Seq(Spared)
    BY UnpackLayerAssumption DEF HeaderIn
  <1>2. PICK name, to : name = h.name /\ to = h.link.to
    OBVIOUS
  <1>3. PICK r : r = resolveArchivePath(tree, name)
    OBVIOUS
  <1>4. PICK header : header = [type |-> h.type, name |-> h.name, link |-> h.link,
                                owner |-> h.owner, time |-> n + 1, by |-> n + 1]
    OBVIOUS
  <1>5. header.name = name /\ header.link.to = to
    BY <1>2, <1>4
  <1>6. /\ pc = "read" /\ UNCHANGED <<tree, local>>
        /\ \/ Continue
           \/ pc' = "plnk" /\ hdr' = header
           \/ r.err = "ok" /\ hdr' = header /\ dst' = r /\ pc' = "implied"
           \/ pc' = "cleanup"
    BY <1>2, <1>3, <1>4 DEF Read, Return
  <1>7. UNCHANGED <<aufsTempdir, aufsHardlinks, dirs>>
    BY <1>6 DEF local
  <1>8. TreeApart'
    BY <1>6, <1>7, ApartParts, SameAlike, TreeApartAlike DEF Continue
  <1>9. CASE Continue \/ pc' = "cleanup"
    <2>1. NamesApart'
      BY <1>7, <1>9, ApartParts, NamesApartKept DEF Continue
    <2>2. QED
      BY <1>8, <2>1 DEF Apart
  <1>10. CASE \/ pc' = "plnk" /\ hdr' = header
              \/ r.err = "ok" /\ hdr' = header /\ dst' = r /\ pc' = "implied"
    <2>1. r.err = "ok" => r.path \in Seq(Spared)
      <3>1. name # << >> /\ Front(name) \in Seq(Part)
        BY <1>1, <1>2 DEF EntryName, Part
      <3>2. QED
        BY <1>1, <1>2, <1>3, <3>1, ApartParts, ResolvedWithin DEF TreeApart
    <2>2. hdr'.name \in Seq(Spared) /\ hdr'.link.to \in Seq(Spared)
      BY <1>1, <1>2, <1>5, <1>10
    <2>3. pc' = "implied" => dst'.path \in Seq(Spared)
      BY <1>10, <2>1
    <2>4. NamesApart'
      BY <1>7, <1>10, <2>2, <2>3, ApartParts DEF NamesApart, OnItsWay
    <2>5. QED
      BY <1>8, <2>4 DEF Apart
  <1>11. QED
    BY <1>6, <1>9, <1>10

\* A file below /.wh..wh.plnk: its link is kept with its header.
LEMMA ExtractPlnkApart == ASSUME IInv, Apart, Plnk PROVE Apart'
  <1>. USE Parts
  <1>1. PICK made, path, new : made = TempMade /\ path = PlnkPath /\ new = tree'
    OBVIOUS
  <1>2. /\ pc = "plnk" /\ InEntry /\ MakesTemp
        /\ \/ new = made
           \/ \E header \in {PlnkHdr, HalfHdr} : new = createTarFile(made, path, header).tree
        /\ pc' \in {"read", "cleanup"}
        /\ aufsHardlinks' = WithHeader /\ aufsTempdir' = TRUE /\ dirs' = dirs
    BY <1>1, PlnkOutcome DEF Continue, Return
  <1>3. IsTree(made) /\ LinksWithin(made, Spared)
    <2>1. IsTree(made)
      BY <1>1, <1>2, TempMadeType DEF Extracted
    <2>2. made = tree \/ made = PutNode(tree, <<TempName>>, TempNode, Clock)
      BY <1>1 DEF TempMade
    <2>3. PICK at, node, ino : at = <<TempName>> /\ node = TempNode /\ ino = node.ino
      OBVIOUS
    <2>4. Fresh(node, ino, NoLink)
      BY <2>3 DEF Fresh, TempNode, Node
    <2>5. Joins(tree, made, at, ino, NoLink)
      BY <2>2, <2>3, <2>4, JoinsPut, JoinsSame
    <2>6. NoLink.to \in Seq(Spared)
      BY DEF NoLink
    <2>7. LinksWithin(made, Spared)
      BY <2>5, <2>6, ApartParts, JoinsWithin DEF TreeApart
    <2>8. QED
      BY <2>1, <2>7
  <1>4. ASSUME NEW header \in {PlnkHdr, HalfHdr}
        PROVE  /\ Front(path) \in Seq(Part) /\ header \in Header /\ header.type = "reg"
               /\ header.link.to \in Seq(Spared)
    BY <1>1, <1>2, PlnkFile, ApartParts DEF NamesApart
  <1>7. LinksWithin(new, Spared)
    <2>1. ASSUME NEW header \in {PlnkHdr, HalfHdr}, new = createTarFile(made, path, header).tree
          PROVE  LinksWithin(new, Spared)
      <3>1. PICK at, out : /\ at = Locate(made, path).at
                           /\ out = createTarFile(made, path, header) /\ new = out.tree
        BY <2>1
      <3>2. Joins(made, out.tree, at, Inode(header, at), header.link)
        BY <1>3, <1>4, <3>1, CreateJoins
      <3>3. QED
        BY <1>3, <1>4, <3>1, <3>2, JoinsWithin
    <2>2. QED
      BY <1>2, <1>3, <2>1
  <1>11. TempPlain(new)
    <2>1. TempPlain(made)
      <3>1. TempPlain(tree)
        BY ApartParts DEF TreeApart
      <3>2. CASE made = tree
        BY <3>1, <3>2
      <3>3. CASE made = PutNode(tree, <<TempName>>, TempNode, Clock)
        <4>1. PICK at, node : at = <<TempName>> /\ node = TempNode
          OBVIOUS
        <4>2. Added(tree, at, node, made)
          BY <3>3, <4>1, PutNodeAlike
        <4>3. node.kind = "dir"
          BY <4>1 DEF TempNode, Node
        <4>4. QED
          BY <3>1, <4>2, <4>3 DEF Added, Alike, TempPlain
      <3>4. QED
        BY <1>1, <3>2, <3>3 DEF TempMade
    <2>2. ASSUME NEW header \in {PlnkHdr, HalfHdr}, new = createTarFile(made, path, header).tree
          PROVE  TempPlain(new)
      <3>1. PICK l, out : /\ l = Locate(made, path)
                          /\ out = createTarFile(made, path, header) /\ new = out.tree
        BY <2>2
      <3>2. out = WriteFile(made, l, header)
        BY <1>4, <3>1 DEF createTarFile, CreateAt
      <3>3. Located(made, l)
        BY <1>3, <1>4, <3>1, LocateType DEF Located
      <3>4. Grown(made, out.tree, {"reg"})
        BY <1>3, <1>4, <3>2, <3>3, WriteFileType
      <3>5. QED
        BY <2>1, <3>1, <3>4 DEF Grown, TempPlain
    <2>3. QED
      BY <1>2, <2>1, <2>2
  <1>8. TreeApart'
    BY <1>1, <1>2, <1>7, <1>11 DEF TreeApart
  <1>9. NamesApart'
    <2>1. \A x \in DOMAIN aufsHardlinks' : aufsHardlinks'[x].link.to \in Seq(Spared)
      BY <1>2, ApartParts DEF NamesApart, WithHeader
    <2>2. QED
      BY <1>2, <2>1, ApartParts DEF NamesApart, InEntry, OnItsWay
  <1>10. QED
    BY <1>8, <1>9 DEF Apart

\* A parent directory lies on the entry's path, so it is not the temporary one.
LEMMA MakeImpliedApart == ASSUME IInv, Apart, MakeImplied PROVE Apart'
  <1>. USE Parts
  <1>1. PICK cur, out, new : /\ cur = SubSeq(Parent, 1, k) /\ new = tree'
                             /\ out = mkdirImplied(tree, cur, hdr)
    OBVIOUS
  <1>2. /\ pc = "implied" /\ new = out.tree /\ k \in 1..Len(Parent)
        /\ pc' \in {"implied", "cleanup"}
        /\ UNCHANGED <<hdr, dst, local>>
    BY <1>1 DEF MakeImplied, Return
  <1>3. /\ cur \in Seq(Spared) /\ cur # << >> /\ Front(cur) \in Seq(Part)
    <2>1. Parent \in Seq(Spared) /\ Parent \in Seq(Part)
      <3>1. dst.path \in Seq(Spared) /\ dst.path # << >>
        BY <1>2, ApartParts DEF NamesApart, OnItsWay, EntryOK, InEntry
      <3>2. Front(dst.path) \in Seq(Spared)
        BY <3>1, FrontProperties
      <3>3. QED
        BY <3>2, PathParts DEF Parent
    <2>2. PICK p : p = Parent
      OBVIOUS
    <2>3. PICK j \in 1..Len(p) : j = k
      BY <1>2, <2>2
    <2>4. p \in Seq(Spared) /\ p \in Seq(Part) /\ cur = SubSeq(p, 1, j)
      BY <1>1, <2>1, <2>2, <2>3
    <2>5. /\ SubSeq(p, 1, j) \in Seq(Spared) /\ SubSeq(p, 1, j) \in Seq(Part)
          /\ Len(SubSeq(p, 1, j)) = j
      BY <2>4
    <2>6. cur \in Seq(Spared) /\ cur \in Seq(Part) /\ cur # << >>
      BY <2>4, <2>5
    <2>7. QED
      BY <2>6, FrontProperties
  <1>4. /\ LinksWithin(new, Spared)
        /\ TempKept(tree, new)
    <2>1. PICK header : header = hdr
      OBVIOUS
    <2>2. QED
      BY <1>1, <1>2, <1>3, <2>1, ApartParts, ImpliedApart
  <1>5. UNCHANGED <<aufsTempdir, aufsHardlinks, dirs>>
    BY <1>2 DEF local
  <1>6. TreeApart'
    BY <1>1, <1>2, <1>4, <1>5, ApartParts DEF TreeApart, TempKept
  <1>7. NamesApart'
    BY <1>2, <1>5, ApartParts, NamesApartKept DEF InEntry, OnItsWay
  <1>8. QED
    BY <1>6, <1>7 DEF Apart

\* The steps that take nodes away or set times.
LEMMA ShrinkApart ==
    ASSUME IInv, Apart, Whiteout \/ Opaque \/ Clear \/ RestoreTime \/ RemovedByOther
    PROVE  Apart'
  <1>. USE Parts
  <1>1. UNCHANGED local /\ (pc' = "done" => pc = "done")
    BY DEF Whiteout, Opaque, Clear, RestoreTime, RemovedByOther, Continue, Return
  <1>2. UNCHANGED <<aufsTempdir, aufsHardlinks, dirs, removeErr>>
    BY <1>1 DEF local
  <1>3. \/ pc' \notin {"plnk", "implied", "apply", "create"}
        \/ UNCHANGED <<hdr, dst>> /\ (InEntry' => InEntry) /\ (OnItsWay' => OnItsWay)
    BY DEF Whiteout, Opaque, Clear, RestoreTime, RemovedByOther, Continue, Return, entry,
           InEntry, OnItsWay
  <1>4. \A p \in DOMAIN tree' : p \in DOMAIN tree /\ Alike(tree, tree', p)
    <2>1. \/ tree' = tree
          \/ \E at : tree' = RemoveTree(tree, at, Clock)
          \/ \E d : tree' = AfterWalk(d)
          \/ \E path, time : tree' = chtimes(tree, path, time).tree
      <3>1. CASE Whiteout
        <4>1. \/ RemoveAll(tree, dst.path).tree = tree
              \/ \E at : RemoveAll(tree, dst.path).tree = RemoveTree(tree, at, Clock)
          BY PathParts, RemoveAllType
        <4>2. QED
          BY <3>1, <4>1 DEF Whiteout
      <3>2. QED
        BY <3>1 DEF Opaque, Clear, RestoreTime, RemovedByOther
    <2>2. QED
      BY <2>1, SameAlike, CutAlike, AfterWalkAlike, ChtimesAlike
  <1>5. TreeApart'
    BY <1>1, <1>2, <1>4, ApartParts, TreeApartAlike
  <1>6. NamesApart'
    BY <1>2, <1>3, ApartParts, NamesApartKept
  <1>7. QED
    BY <1>5, <1>6 DEF Apart

\* The deferred removal.
LEMMA CleanupApart == ASSUME IInv, Apart, Removing PROVE Apart'
  <1>. USE Parts
  <1>1. /\ UNCHANGED <<aufsTempdir, aufsHardlinks, dirs>>
        /\ pc = "cleanup" /\ pc' \in {"cleanup", "done"}
    BY RemovingTree
  <1>2. \A p \in DOMAIN tree' : p \in DOMAIN tree /\ Alike(tree, tree', p)
    BY RemovingTree, SameAlike, CutAlike
  <1>3. pc' = "done" /\ removeErr' = "ok" => <<TempName>> \notin DOMAIN tree'
    <2>1. CASE Cleanup /\ aufsTempdir /\ Exists(tree, <<TempName>>)
      <3>1. PICK at \in DOMAIN tree : at = <<TempName>> /\ at # << >>
        BY <2>1, TempPath DEF Exists
      <3>2. PICK left : left = tree'
        OBVIOUS
      <3>3. left = RemoveTree(tree, at, Clock) /\ Clock \in Nat
        BY <2>1, <3>1, <3>2, ExtractAssumption DEF Cleanup, RemovesTemp
      <3>4. CutAt(tree, at, left)
        BY <3>1, <3>3, RemoveTreeType
      <3>5. QED
        BY <3>1, <3>2, <3>4 DEF CutAt
    <2>2. CASE Cleanup /\ ~(aufsTempdir /\ Exists(tree, <<TempName>>))
      BY <2>2, ApartParts DEF TreeApart, Exists, Cleanup, RemovesTemp
    <2>3. CASE CleanupPart
      BY <1>1, <2>3 DEF CleanupPart
    <2>4. CASE CleanupFails
      BY <2>4 DEF CleanupFails
    <2>5. QED
      BY <2>1, <2>2, <2>3, <2>4 DEF Removing
  <1>4. TreeApart'
    BY <1>1, <1>2, <1>3, ApartParts, TreeApartAlike
  <1>5. NamesApart'
    BY <1>1, ApartParts, NamesApartKept
  <1>6. QED
    BY <1>4, <1>5 DEF Apart

\* The source of an entry: it has a link of the other names, and the entry's number.
LEMMA SourceApart ==
    ASSUME IInv, NamesApart, pc = "create", SourceError = "ok"
    PROVE  srcHdr.link.to \in Seq(Spared) /\ srcHdr.by = n
  <1>. USE Parts
  <1>1. hdr \in Header /\ hdr.by = n /\ hdr.link.to \in Seq(Spared)
    BY DEF EntryOK, InEntry, NamesApart
  <1>2. CASE hdr.type # "plink"
    BY <1>1, <1>2 DEF srcHdr
  <1>3. CASE hdr.type = "plink"
    <2>1. PICK to : to = hdr.link.to
      OBVIOUS
    <2>2. to \in DOMAIN aufsHardlinks
      BY <1>3, <2>1 DEF SourceError
    <2>3. PICK header \in Header : header = aufsHardlinks[to] /\ header.link.to \in Seq(Spared)
      BY <2>2 DEF LocalOK, NamesApart
    <2>4. srcHdr = [header EXCEPT !.type = "reg", !.by = n]
      BY <1>3, <2>1, <2>3 DEF srcHdr
    <2>5. PICK m : m = n
      OBVIOUS
    <2>6. [header EXCEPT !.type = "reg", !.by = m].link = header.link
          /\ [header EXCEPT !.type = "reg", !.by = m].by = m
      BY DEF Header
    <2>7. QED
      BY <2>3, <2>4, <2>5, <2>6
  <1>4. QED
    BY <1>2, <1>3

\* What Create does once the source is there: which header createTarFile gets.
LEMMA CreateOutcome ==
    ASSUME IInv, NamesApart, Create
    PROVE  /\ pc = "create" /\ InEntry /\ UNCHANGED <<n, aufsTempdir, removals>>
           /\ \/ /\ \E e : e # "ok" /\ Return(e)
                 /\ UNCHANGED <<tree, aufsHardlinks, dirs>>
              \/ \E header \in Header :
                    /\ header.type \in {"dir", "reg", "dev", "sym", "link"}
                    /\ header.link.to \in Seq(Spared) /\ header.by = n
                    /\ tree' = createTarFile(tree, dst.path, header).tree
                    /\ Continue \/ (\E e : e # "ok" /\ Return(e))
                    /\ aufsHardlinks' = RemappedLinks
                    /\ dirs' \in {RecordedDirs, dirs}
                    /\ SourceError = "ok"
  <1>. USE Parts
  <1>1. pc = "create" /\ InEntry /\ UNCHANGED <<n, aufsTempdir, removals>>
    BY DEF Create, InEntry
  <1>2. CASE SourceError # "ok" \/ ~Mapped(srcHdr.owner)
    BY <1>1, <1>2 DEF Create
  <1>3. CASE SourceError = "ok" /\ Mapped(srcHdr.owner)
    <2>1. PICK source : source = srcHdr
      OBVIOUS
    <2>2. /\ source \in Header /\ source.type \in {"dir", "reg", "dev", "sym", "link"}
          /\ source.link.to \in Seq(Spared) /\ source.by = n
      BY <1>1, <1>3, <2>1, SourceType, SourceApart
    <2>3. PICK header : header = remapIDs(source)
      OBVIOUS
    <2>4. header \in Header /\ header.type = source.type
      BY <2>2, <2>3, RemapType
    <2>5. header.link = source.link /\ header.by = source.by
      BY <2>2, <2>3 DEF remapIDs, Header
    <2>6. /\ aufsHardlinks' = RemappedLinks
          /\ tree' = createTarFile(tree, dst.path, header).tree
          /\ Continue \/ (\E e : e # "ok" /\ Return(e))
          /\ dirs' \in {RecordedDirs, dirs}
      BY <1>3, <2>1, <2>3 DEF Create
    <2>7. QED
      BY <1>1, <1>3, <2>2, <2>4, <2>5, <2>6
  <1>4. QED
    BY <1>2, <1>3

\* The entry's path, when it is made.
LEMMA EntryPath ==
    ASSUME IInv, NamesApart, pc = "create"
    PROVE  /\ dst.path \in Seq(Spared) /\ dst.path # << >>
           /\ dst.path \in Seq(Name) /\ Front(dst.path) \in Seq(Part)
  <1>. USE Parts
  <1>1. hdr.type # "opaque"
    BY DEF IInv, Dispatched
  <1>2. QED
    BY <1>1, PathParts DEF NamesApart, OnItsWay, EntryOK, InEntry

\* Making the entry.
LEMMA CreateApart == ASSUME IInv, Apart, Create PROVE Apart'
  <1>. USE Parts
  <1>1. /\ pc = "create" /\ UNCHANGED aufsTempdir
        /\ pc' \in {"read", "cleanup"}
    BY ApartParts, CreateOutcome DEF Continue, Return
  <1>2. CASE UNCHANGED <<tree, aufsHardlinks, dirs>>
    <2>1. TreeApart'
      BY <1>1, <1>2, ApartParts, SameAlike, TreeApartAlike
    <2>2. NamesApart'
      BY <1>1, <1>2, ApartParts, NamesApartKept
    <2>3. QED
      BY <2>1, <2>2 DEF Apart
  <1>3. CASE ~UNCHANGED <<tree, aufsHardlinks, dirs>>
    <2>1. PICK header \in Header :
              /\ header.type \in {"dir", "reg", "dev", "sym", "link"}
              /\ header.link.to \in Seq(Spared)
              /\ tree' = createTarFile(tree, dst.path, header).tree
              /\ aufsHardlinks' = RemappedLinks
              /\ dirs' \in {RecordedDirs, dirs}
              /\ SourceError = "ok"
      BY <1>3, ApartParts, CreateOutcome
    <2>2. PICK path : path = dst.path
      OBVIOUS
    <2>3. path \in Seq(Spared) /\ path # << >> /\ Front(path) \in Seq(Part)
      BY <1>1, <2>2, ApartParts, EntryPath
    <2>4. PICK out : out = createTarFile(tree, path, header)
      OBVIOUS
    <2>5. /\ LinksWithin(out.tree, Spared)
          /\ TempKept(tree, out.tree)
      BY <2>1, <2>3, <2>4, ApartParts, CreatedApart
    <2>6. TreeApart'
      BY <1>1, <2>1, <2>2, <2>4, <2>5, ApartParts DEF TreeApart, TempKept
    <2>7. \A i \in DOMAIN dirs' : dirs'[i].name \in Seq(Spared)
      <3>1. PICK dir : dir = [name |-> path, time |-> hdr.time]
        OBVIOUS
      <3>2. dir.name \in Seq(Spared)
        BY <2>3, <3>1
      <3>3. dirs' = dirs \/ dirs' = Append(dirs, dir)
        BY <2>1, <2>2, <3>1 DEF RecordedDirs
      <3>4. PICK all : all = dirs'
        OBVIOUS
      <3>5. \A i \in DOMAIN all : all[i] = dir \/ (i \in DOMAIN dirs /\ all[i] = dirs[i])
        <4>1. dirs \in Seq([name : Seq(Name), time : Nat])
          BY DEF LocalOK
        <4>2. PICK R : dirs \in Seq(R) /\ dir \in R
          <5>1. PICK R : R = [name : Seq(Name), time : Nat]
            OBVIOUS
          <5>2. dir \in R
            BY <1>1, <2>2, <3>1, <5>1, ApartParts, EntryPath DEF EntryOK, InEntry, Header
          <5>3. QED
            BY <4>1, <5>1, <5>2
        <4>3. QED
          BY <3>3, <3>4, <4>2
      <3>6. QED
        BY <3>2, <3>4, <3>5, ApartParts DEF NamesApart
    <2>8. \A x \in DOMAIN aufsHardlinks' : aufsHardlinks'[x].link.to \in Seq(Spared)
      <3>1. CASE hdr.type # "plink"
        BY <2>1, <3>1, ApartParts DEF RemappedLinks, NamesApart
      <3>2. CASE hdr.type = "plink"
        <4>1. PICK to : to = hdr.link.to
          OBVIOUS
        <4>2. to \in DOMAIN aufsHardlinks
          BY <2>1, <3>2, <4>1 DEF SourceError
        <4>3. PICK kept \in Header : kept = aufsHardlinks[to] /\ kept.link.to \in Seq(Spared)
          BY <4>2, ApartParts DEF LocalOK, NamesApart
        <4>4. PICK remapped : remapped = remapIDs(kept)
          OBVIOUS
        <4>5. remapped.link = kept.link
          BY <4>4 DEF remapIDs, Header
        <4>6. aufsHardlinks' = [aufsHardlinks EXCEPT ![to] = remapped]
          BY <2>1, <3>2, <4>1, <4>3, <4>4 DEF RemappedLinks
        <4>7. QED
          BY <4>3, <4>5, <4>6, ApartParts DEF NamesApart
      <3>3. QED
        BY <3>1, <3>2
    <2>9. NamesApart'
      BY <1>1, <2>7, <2>8 DEF NamesApart, InEntry, OnItsWay
    <2>10. QED
      BY <2>6, <2>9 DEF Apart
  <1>4. QED
    BY <1>2, <1>3

\* An operation fails half way.
LEMMA FaultApart == ASSUME IInv, Apart, Fault PROVE Apart'
  <1>. USE Parts
  <1>1. /\ UNCHANGED local /\ pc' = "cleanup"
        /\ \/ tree' = tree
           \/ \E q : tree' = RemoveTree(tree, q, Clock)
           \/ pc = "create" /\ tree' \in HalfMade
    BY DEF Fault, Return
  <1>2. UNCHANGED <<aufsTempdir, aufsHardlinks, dirs, removeErr>>
    BY <1>1 DEF local
  <1>3. NamesApart'
    BY <1>1, <1>2, ApartParts, NamesApartKept
  <1>4. CASE tree' = tree \/ \E q : tree' = RemoveTree(tree, q, Clock)
    <2>1. \A p \in DOMAIN tree' : p \in DOMAIN tree /\ Alike(tree, tree', p)
      BY <1>4, SameAlike, CutAlike
    <2>2. TreeApart'
      BY <1>1, <1>2, <2>1, ApartParts, TreeApartAlike
    <2>3. QED
      BY <1>3, <2>2 DEF Apart
  <1>5. CASE pc = "create" /\ tree' \in HalfMade
    <2>1. PICK source, path, left : source = srcHdr /\ path = dst.path /\ left = tree'
      OBVIOUS
    <2>2. PICK header : header = [source EXCEPT !.owner = Process, !.time = Clock]
      OBVIOUS
    <2>3. PICK out : out = createTarFile(tree, path, header)
      OBVIOUS
    <2>4. /\ SourceError = "ok" /\ source.type \in {"dir", "reg", "sym"}
          /\ left = out.tree
      BY <1>5, <2>1, <2>2, <2>3 DEF HalfMade
    <2>5. source \in Header /\ source.link.to \in Seq(Spared)
      BY <1>5, <2>1, <2>4, ApartParts, SourceType, SourceApart
    <2>6. header \in Header
      <3>1. Process \in Nat /\ Clock \in Nat
        BY ExtractAssumption DEF Process
      <3>2. QED
        BY <2>2, <2>5, <3>1, HeaderExcept
    <2>7. header.type = source.type /\ header.link = source.link
      BY <2>2, <2>5 DEF Header
    <2>8. path \in Seq(Spared) /\ path # << >> /\ Front(path) \in Seq(Part)
      BY <1>5, <2>1, ApartParts, EntryPath
    <2>9. /\ LinksWithin(left, Spared)
          /\ TempKept(tree, left)
      BY <2>3, <2>4, <2>5, <2>6, <2>7, <2>8, ApartParts, CreatedApart
    <2>10. TreeApart'
      BY <1>1, <1>2, <2>1, <2>9, ApartParts DEF TreeApart, TempKept
    <2>11. QED
      BY <1>3, <2>10 DEF Apart
  <1>6. QED
    BY <1>1, <1>4, <1>5

\* Every step keeps the tree and the names apart.
LEMMA NextApart == IInv /\ Apart /\ [Next]_vars => Apart'
  <1>. SUFFICES ASSUME IInv, Apart, [Next]_vars PROVE Apart'
    OBVIOUS
  <1>1. CASE \E h \in Layer : Read(h)
    BY <1>1, ReadApart
  <1>2. CASE \/ EndOfArchive \/ SkipImplied \/ StartImplied \/ ImpliedMade
             \/ TimesRestored \/ Returned \/ UNCHANGED vars
    BY <1>2, QuietApart
  <1>3. CASE Whiteout \/ Opaque \/ Clear \/ RestoreTime \/ RemovedByOther
    BY <1>3, ShrinkApart
  <1>4. CASE Plnk \/ MakeImplied \/ Create
    BY <1>4, ExtractPlnkApart, MakeImpliedApart, CreateApart
  <1>5. CASE Removing \/ Fault
    BY <1>5, CleanupApart, FaultApart
  <1>6. QED
    BY <1>1, <1>2, <1>3, <1>4, <1>5 DEF Next, Plnk, Removing

\* They are so at the start.
LEMMA InitApart == Init => Apart
  <1>. SUFFICES ASSUME Init PROVE Apart
    OBVIOUS
  <1>1. tree \in Lowers /\ pc = "read" /\ dirs = << >> /\ aufsHardlinks = << >>
    BY DEF Init
  <1>5. TempPlain(tree)
    <2>1. PICK tr, at : tr \in Lowers /\ tr = tree /\ at = <<TempName>>
      BY <1>1
    <2>2. IsTree(tr) /\ at \notin DOMAIN tr /\ at \in Seq(Name)
      BY <2>1, UnpackLayerAssumption, TempPath
    <2>3. \A q \in DOMAIN tr : ~Under(at, q)
      BY <2>2, PrefixThere
    <2>4. QED
      BY <2>1, <2>3 DEF TempPlain
  <1>2. TreeApart
    BY <1>1, <1>5, UnpackLayerAssumption DEF TreeApart, LinksWithin
  <1>3. NamesApart
    BY <1>1 DEF NamesApart, InEntry, OnItsWay
  <1>4. QED
    BY <1>2, <1>3 DEF Apart

-----------------------------------------------------------------------------
(* The inodes and the times. *)

\* What follows from the invariant of the types.
LEMMA Typed ==
    ASSUME IInv
    PROVE  /\ IsTree(tree) /\ n \in Nat /\ k \in Nat
           /\ InEntry => hdr \in Header /\ hdr.by = n
           /\ Parent \in Seq(Name) /\ Len(Parent) \in Nat
  <1>. USE Parts
  <1>1. n \in Nat
    BY DEF CountersOK
  <1>2. QED
    BY <1>1 DEF EntryOK

\* Nodes that stay what they are keep their inodes.
LEMMA NumberedAlike ==
    ASSUME IInv, Numbered, pc \notin {"cleanup", "done"}, k' \in Nat,
           \A p \in DOMAIN tree' : p \in DOMAIN tree /\ Alike(tree, tree', p),
           \/ n' = n + 1
           \/ n' = n /\ (InEntry' => InEntry /\ k' >= k)
    PROVE  Numbered'
  <1>1. PICK new : new = tree'
    OBVIOUS
  <1>2. /\ Numbers(new, n)
        /\ Numbers(new, n + 1) /\ Shallow(new, n + 1, k')
        /\ Shallow(tree, n, k) => \A i \in Nat : i >= k => Shallow(new, n, i)
    BY <1>1, Typed, NumbersAlike DEF Numbered
  <1>3. Numbers(new, n') /\ (InEntry' => Shallow(new, n', k'))
    BY <1>2 DEF Numbered
  <1>4. QED
    BY <1>1, <1>3 DEF Numbered

\* A node made by the entry, deeper than those it has made before.
LEMMA NumberedJoins ==
    ASSUME IInv, Numbered, InEntry, NEW ino,
           ino[1] = n, ino[2] \in Nat, ino[2] >= k, JoinsInode(tree, tree', ino),
           n' = n, InEntry' => k' = ino[2] + 1
    PROVE  Numbered'
  <1>1. PICK new : new = tree'
    OBVIOUS
  <1>2. Numbers(tree, n) /\ Shallow(tree, n, k) /\ JoinsInode(tree, new, ino)
    BY <1>1 DEF Numbered, InEntry
  <1>3. Numbers(new, n) /\ Shallow(new, n, ino[2] + 1)
    BY <1>2, Typed, NumbersJoins
  <1>4. QED
    BY <1>1, <1>3 DEF Numbered

\* A step that ends the entry, or the call with an error.
LEMMA EntryEnds ==
    ASSUME Continue \/ (\E e : e # "ok" /\ Return(e))
    PROVE  /\ Direct' /\ Restored' /\ ~InEntry'
           /\ pc' = "cleanup" => Numbered'
           /\ pc' # "cleanup" => pc' = "read" /\ k' = 0
  BY DEF Continue, Return, Direct, Restored, AllWell, OnItsWay, InEntry, Numbered

\* Such a step that adds no node.
LEMMA EndsAlike ==
    ASSUME IInv, TimesInv, pc \notin {"cleanup", "done"},
           Continue \/ (\E e : e # "ok" /\ Return(e)), n' = n,
           \A p \in DOMAIN tree' : p \in DOMAIN tree /\ Alike(tree, tree', p)
    PROVE  TimesInv'
  <1>1. /\ Direct' /\ Restored' /\ ~InEntry'
        /\ pc' = "cleanup" => Numbered'
        /\ pc' # "cleanup" => k' = 0
    BY EntryEnds
  <1>2. Numbered'
    BY <1>1, NumberedAlike DEF TimesInv
  <1>3. QED
    BY <1>1, <1>2 DEF TimesInv

\* The way to the entry, as long as it goes on.
LEMMA DirectKept ==
    ASSUME Direct, UNCHANGED dst,
           OnItsWay /\ ~dst.parentWasPresent => NoLinks(tree', Parent),
           OnItsWay, pc' \in {"implied", "apply", "create"},
           k' > 0 => ~dst.parentWasPresent,
           pc' = "implied" => k' <= Len(Parent) + 1,
           pc' \in {"apply", "create"} /\ k' > 0 => k' = Len(Parent) + 1
    PROVE  Direct' /\ Restored'
  BY DEF Direct, Restored, AllWell, OnItsWay, Parent

\* Reading an entry.
LEMMA ReadTimes == ASSUME IInv, TimesInv, NEW h \in Layer, Read(h) PROVE TimesInv'
  <1>. USE Parts
  <1>1. h.name \in EntryName
    BY UnpackLayerAssumption DEF HeaderIn
  <1>2. PICK name : name = h.name
    OBVIOUS
  <1>3. PICK r : r = resolveArchivePath(tree, name)
    OBVIOUS
  <1>4. /\ pc = "read" /\ n' = n + 1 /\ tree' = tree
        /\ \/ Continue
           \/ pc' = "plnk" /\ UNCHANGED k
           \/ r.err = "ok" /\ dst' = r /\ k' = 0 /\ pc' = "implied"
           \/ r.err # "ok" /\ Return(r.err) /\ UNCHANGED k
    BY <1>2, <1>3 DEF Read, entry
  <1>5. k = 0 /\ k' = 0
    BY <1>4 DEF TimesInv, Direct, Continue
  <1>6. Numbered'
    BY <1>4, <1>5, SameAlike, NumberedAlike DEF TimesInv
  <1>7. CASE Continue \/ (r.err # "ok" /\ Return(r.err))
    BY <1>6, <1>7, EntryEnds DEF TimesInv
  <1>8. CASE pc' = "plnk"
    <2>1. Direct' /\ Restored'
      BY <1>5, <1>8 DEF Direct, Restored, AllWell, OnItsWay
    <2>2. QED
      BY <1>6, <2>1 DEF TimesInv
  <1>9. CASE r.err = "ok" /\ dst' = r /\ k' = 0 /\ pc' = "implied"
    <2>1. PICK S : S = Name \union {Opq}
      OBVIOUS
    <2>2. name \in Seq(S) /\ name # << >> /\ Front(name) \in Seq(Part) /\ Name \subseteq S
      BY <1>1, <1>2, <2>1 DEF EntryName, Part
    <2>3. ~r.parentWasPresent => NoLinks(tree, Front(r.path))
      BY <1>3, <1>9, <2>2, ResolvedNoLink
    <2>4. /\ Front(r.path) \in Seq(Name) \union {Front(name)} /\ Front(name) \in Seq(Name)
      BY <1>1, <1>2, <1>3, <1>9, <2>2, ResolvedType DEF EntryName
    <2>5. Len(Front(r.path)) \in Nat
      BY <2>4
    <2>6. Direct' /\ Restored'
      BY <1>4, <1>9, <2>3, <2>5 DEF Direct, Restored, AllWell, OnItsWay, Parent
    <2>7. QED
      BY <1>6, <2>6 DEF TimesInv
  <1>10. QED
    BY <1>4, <1>7, <1>8, <1>9

\* The end of the archive: no time is set yet.
LEMMA EndTimes == ASSUME IInv, TimesInv, EndOfArchive PROVE TimesInv'
  <1>1. pc = "read" /\ pc' = "times" /\ k' = 1 /\ UNCHANGED <<tree, n, local>>
    BY DEF EndOfArchive
  <1>2. Numbered'
    BY <1>1, SameAlike, NumberedAlike DEF TimesInv, InEntry
  <1>3. Direct'
    BY <1>1 DEF Direct, OnItsWay
  <1>4. Restored'
    <2>1. DOMAIN dirs = 1..Len(dirs) /\ dirs' = dirs
      BY <1>1, Parts DEF LocalOK, local
    <2>2. QED
      BY <1>1, <2>1 DEF Restored
  <1>5. QED
    BY <1>2, <1>3, <1>4 DEF TimesInv

\* The loop over the parent directories starts, or is passed over, or is over.
LEMMA OnwardTimes ==
    ASSUME IInv, TimesInv, SkipImplied \/ StartImplied \/ ImpliedMade
    PROVE  TimesInv'
  <1>1. pc = "implied" /\ InEntry /\ OnItsWay
    BY DEF SkipImplied, StartImplied, ImpliedMade, InEntry, OnItsWay
  <1>2. UNCHANGED <<tree, n, dst>>
    BY DEF SkipImplied, StartImplied, ImpliedMade, entry
  <1>3. \/ pc' = "apply" /\ k' = k /\ (k = 0 \/ k > Len(Parent))
        \/ pc' = "implied" /\ k = 0 /\ k' = 1 /\ ~ParentThere
        \/ \E e : e # "ok" /\ Return(e)
    BY <1>1 DEF SkipImplied, StartImplied, ImpliedMade, ParentThere, entry
  <1>4. CASE \E e : e # "ok" /\ Return(e)
    BY <1>1, <1>2, <1>4, SameAlike, EndsAlike
  <1>5. CASE \/ pc' = "apply" /\ k' = k /\ (k = 0 \/ k > Len(Parent))
             \/ pc' = "implied" /\ k = 0 /\ k' = 1 /\ ~ParentThere
    <2>1. k \in Nat /\ k' \in Nat /\ k' >= k
      BY <1>5, Typed
    <2>2. Numbered'
      BY <1>1, <1>2, <2>1, SameAlike, NumberedAlike DEF TimesInv
    <2>3. Len(Parent) \in Nat /\ (Parent # << >> => Len(Parent) >= 1)
      BY Typed, EmptySeq, LenProperties
    <2>4. NoLinks(tree, Parent) = NoLinks(tree', Parent)
      BY <1>2
    <2>5. Direct' /\ Restored'
      BY <1>1, <1>2, <1>5, <2>1, <2>3, <2>4, DirectKept
         DEF TimesInv, Direct, OnItsWay, ParentThere
    <2>6. QED
      BY <2>2, <2>5 DEF TimesInv
  <1>6. QED
    BY <1>3, <1>4, <1>5

\* The inode of what the entry makes.
LEMMA EntryInode ==
    ASSUME NEW header, header.by = n, NEW at, Len(at) \in Nat
    PROVE  Inode(header, at)[1] = n /\ Inode(header, at)[2] = Len(at)
  BY DEF Inode

\* The Mkdir of one parent directory: its depth is how far the loop has come.
LEMMA ImpliedTimes == ASSUME IInv, TimesInv, MakeImplied PROVE TimesInv'
  <1>. USE Parts
  <1>0. /\ pc = "implied" /\ InEntry /\ OnItsWay
        /\ n \in Nat /\ k \in Nat /\ k \in 1..Len(Parent) /\ k > 0
        /\ Parent \in Seq(Name) /\ Len(Parent) \in Nat
        /\ hdr \in Header /\ hdr.by = n
    BY Typed DEF MakeImplied, InEntry, OnItsWay
  <1>1. PICK cur, header : cur = SubSeq(Parent, 1, k) /\ header = hdr
    OBVIOUS
  <1>2. PICK out, l : out = mkdirImplied(tree, cur, header) /\ l = Locate(tree, cur)
    OBVIOUS
  <1>3. /\ tree' = out.tree /\ UNCHANGED <<dst, n>>
        /\ \/ out.err = "ok" /\ k' = k + 1 /\ pc' = pc
           \/ out.err # "ok" /\ Return(out.err)
    BY <1>1, <1>2 DEF MakeImplied
  <1>4. CASE out.err # "ok" /\ Return(out.err)
    <2>1. Direct' /\ Restored' /\ Numbered'
      BY <1>4, EntryEnds DEF Return
    <2>2. QED
      BY <2>1 DEF TimesInv
  <1>5. CASE out.err = "ok" /\ k' = k + 1 /\ pc' = pc
    <2>1. NoLinks(tree, Parent) /\ ~dst.parentWasPresent
      BY <1>0 DEF TimesInv, Direct
    <2>2. /\ cur \in Seq(Name) /\ Len(cur) = k /\ cur # << >>
          /\ NoLinks(tree, Front(cur)) /\ Front(cur) \in Seq(Part)
      <3>1. PICK path \in Seq(Name) : path = Parent
        BY <1>0
      <3>2. PICK i \in 1..Len(path) : i = k
        BY <1>0, <3>1
      <3>3. SubSeq(path, 1, i) \in Seq(Name) /\ Len(SubSeq(path, 1, i)) = i
        OBVIOUS
      <3>4. PICK part \in Seq(Name) : part = SubSeq(path, 1, i) /\ Len(part) = i
        BY <3>3
      <3>5. part # << >> /\ Front(part) = SubSeq(part, 1, i - 1)
        <4>1. Len(part) > 0 /\ Len(<< >>) = 0
          BY <3>2, <3>4
        <4>2. QED
          BY <3>4, <4>1 DEF Front
      <3>6. NoLinks(tree, part)
        BY <2>1, <3>1, <3>2, <3>4, NoLinksPart
      <3>7. NoLinks(tree, Front(part)) /\ Front(part) \in Seq(Name)
        <4>1. PICK j \in 0..Len(part) : j = i - 1
          BY <3>2, <3>4
        <4>2. Front(part) = SubSeq(part, 1, j)
          BY <3>5, <4>1
        <4>3. QED
          BY <3>4, <3>6, <4>2, NoLinksPart
      <3>8. Front(part) \in Seq(Part)
        BY <3>7 DEF Part
      <3>9. QED
        BY <1>1, <3>1, <3>2, <3>4, <3>5, <3>7, <3>8
    <2>3. header.by \in Nat \ {0} /\ header.by = n
      BY <1>0, <1>1 DEF Header
    <2>4. l.err = "ok"
      <3>1. l.err # "ok" => out.err = l.err
        BY <1>2, NothingMade DEF Outcome
      <3>2. QED
        BY <1>5, <3>1
    <2>5. l.at = cur
      BY <1>2, <2>2, <2>4, LocateNoLink
    <2>6. PICK ino : ino = Inode(header, cur)
      OBVIOUS
    <2>7. JoinsInode(tree, out.tree, ino)
      BY <1>2, <2>5, <2>6, ImpliedJoins DEF JoinsInode
    <2>8. ino[1] = n /\ ino[2] = k
      BY <1>0, <2>2, <2>3, <2>6, EntryInode
    <2>9. Grown(tree, out.tree, {"dir"})
      BY <1>2, <2>2, <2>3, ImpliedType
    <2>10. Numbered'
      BY <1>0, <1>3, <1>5, <2>7, <2>8, NumberedJoins DEF TimesInv
    <2>11. NoLinks(tree', Parent)
      <3>1. PICK new : new = tree'
        OBVIOUS
      <3>2. NoLinks(new, Parent)
        BY <1>3, <2>1, <2>9, <3>1, NoLinksGrown
      <3>3. QED
        BY <3>1, <3>2
    <2>12. Direct' /\ Restored'
      BY <1>0, <1>3, <1>5, <2>1, <2>11, DirectKept DEF TimesInv
    <2>13. QED
      BY <2>10, <2>12 DEF TimesInv
  <1>6. QED
    BY <1>3, <1>4, <1>5

\* Whiteouts.
LEMMA WhiteoutTimes == ASSUME IInv, TimesInv, Whiteout \/ Opaque PROVE TimesInv'
  <1>. USE Parts
  <1>1. /\ pc = "apply" /\ n' = n
        /\ Continue \/ (\E e : e # "ok" /\ Return(e))
    BY DEF Whiteout, Opaque
  <1>2. \A p \in DOMAIN tree' : p \in DOMAIN tree /\ Alike(tree, tree', p)
    <2>1. \/ tree' = tree
          \/ \E at : tree' = RemoveTree(tree, at, Clock)
          \/ \E d : tree' = AfterWalk(d)
      <3>1. CASE Whiteout
        <4>1. \/ RemoveAll(tree, dst.path).tree = tree
              \/ \E at : RemoveAll(tree, dst.path).tree = RemoveTree(tree, at, Clock)
          BY PathParts, RemoveAllType
        <4>2. QED
          BY <3>1, <4>1 DEF Whiteout
      <3>2. QED
        BY <3>1 DEF Opaque
    <2>2. QED
      BY <2>1, SameAlike, CutAlike, AfterWalkAlike
  <1>3. QED
    BY <1>1, <1>2, EndsAlike

\* A path free of links stays so when nodes go.
LEMMA ParentAlike ==
    ASSUME NoLinks(tree, Parent),
           \A p \in DOMAIN tree' : p \in DOMAIN tree /\ Alike(tree, tree', p)
    PROVE  NoLinks(tree', Parent)
  <1>1. PICK new : new = tree'
    OBVIOUS
  <1>2. NoLinks(new, Parent)
    BY <1>1, NoLinksAlike
  <1>3. QED
    BY <1>1, <1>2

\* Making room.
LEMMA ClearTimes == ASSUME IInv, TimesInv, Clear PROVE TimesInv'
  <1>. USE Parts
  <1>1. /\ pc = "apply" /\ pc' = "create" /\ UNCHANGED <<n, dst, k>>
        /\ InEntry /\ OnItsWay
    BY DEF Clear, entry, InEntry, OnItsWay
  <1>2. tree' = tree \/ \E at : tree' = RemoveTree(tree, at, Clock)
    BY DEF Clear
  <1>3. \A p \in DOMAIN tree' : p \in DOMAIN tree /\ Alike(tree, tree', p)
    BY <1>2, SameAlike, CutAlike
  <1>4. k \in Nat
    BY Typed
  <1>5. Numbered'
    BY <1>1, <1>3, <1>4, NumberedAlike DEF TimesInv
  <1>6. OnItsWay /\ ~dst.parentWasPresent => NoLinks(tree', Parent)
    BY <1>3, ParentAlike DEF TimesInv, Direct
  <1>7. Direct' /\ Restored'
    BY <1>1, <1>6, DirectKept DEF TimesInv, Direct
  <1>8. QED
    BY <1>5, <1>7 DEF TimesInv

\* A file below /.wh..wh.plnk: the temporary directory and the file in it are of
\* one entry, the file one deeper.
LEMMA PlnkTimes == ASSUME IInv, TimesInv, Plnk PROVE TimesInv'
  <1>. USE Parts
  <1>1. PICK made, path, new : made = TempMade /\ path = PlnkPath /\ new = tree'
    OBVIOUS
  <1>2. /\ pc = "plnk" /\ InEntry /\ MakesTemp /\ n' = n
        /\ \/ new = made
           \/ \E header \in {PlnkHdr, HalfHdr} : new = createTarFile(made, path, header).tree
        /\ Continue \/ (\E e : e # "ok" /\ Return(e))
    BY <1>1, PlnkOutcome
  <1>3. /\ Numbers(tree, n) /\ Shallow(tree, n, 0) /\ k = 0 /\ n \in Nat
    BY <1>2, Typed DEF TimesInv, Numbered, Direct
  <1>4. IsTree(made)
    BY <1>1, <1>2, TempMadeType DEF Extracted
  <1>5. Numbers(made, n) /\ Shallow(made, n, 1)
    <2>1. made = tree \/ made = PutNode(tree, <<TempName>>, TempNode, Clock)
      BY <1>1 DEF TempMade
    <2>2. PICK at, node, ino : at = <<TempName>> /\ node = TempNode /\ ino = node.ino
      OBVIOUS
    <2>3. Fresh(node, ino, NoLink) /\ ino = <<n, 0>>
      BY <2>2 DEF Fresh, TempNode, Node
    <2>4. Joins(tree, made, at, ino, NoLink)
      BY <2>1, <2>2, <2>3, JoinsPut, JoinsSame
    <2>5. JoinsInode(tree, made, ino)
      BY <2>4 DEF JoinsInode
    <2>6. ino[1] = n /\ ino[2] = 0
      BY <2>3
    <2>7. PICK none \in Nat : none = 0
      OBVIOUS
    <2>8. Shallow(tree, n, none) /\ ino[2] \in Nat /\ ino[2] >= none
      BY <1>3, <2>6, <2>7
    <2>9. Numbers(made, n) /\ Shallow(made, n, ino[2] + 1)
      BY <1>3, <2>5, <2>6, <2>8, NumbersJoins
    <2>10. QED
      BY <2>6, <2>9
  <1>9. Numbers(new, n)
    <2>. SUFFICES ASSUME NEW header \in {PlnkHdr, HalfHdr},
                         new = createTarFile(made, path, header).tree
                  PROVE  Numbers(new, n)
      BY <1>2, <1>5
    <2>5. PICK out : out = createTarFile(made, path, header) /\ new = out.tree
      OBVIOUS
    <2>6. /\ Front(path) \in Seq(Part) /\ header \in Header /\ header.type = "reg"
          /\ header.by = n
      BY <1>1, <1>2, PlnkFile
    <2>1. PICK l : l = Locate(made, path)
      OBVIOUS
    <2>2. CASE l.err # "ok"
      <3>1. out.tree = made
        BY <2>5, <2>6, <2>1, <2>2, NothingMade
      <3>2. QED
        BY <2>5, <1>5, <3>1
    <2>3. CASE l.err = "ok"
      <3>1. PICK at, ino : at = l.at /\ ino = Inode(header, at)
        OBVIOUS
      <3>2. at \in Seq(Name) /\ at # << >>
        BY <1>4, <2>6, <2>1, <2>3, <3>1, LocateType
      <3>3. Len(at) \in Nat /\ Len(at) >= 1
        BY <3>2, EmptySeq, LenProperties
      <3>4. ino[1] = n /\ ino[2] = Len(at)
        BY <2>6, <3>1, <3>3, EntryInode
      <3>5. JoinsInode(made, out.tree, ino)
        BY <1>4, <2>5, <2>6, <2>1, <3>1, CreateJoins DEF JoinsInode
      <3>6. PICK one \in Nat : one = 1
        OBVIOUS
      <3>7. QED
        BY <2>5, <1>3, <1>4, <1>5, <3>3, <3>4, <3>5, <3>6, NumbersJoins
    <2>4. QED
      BY <2>2, <2>3
  <1>10. Direct' /\ Restored' /\ ~InEntry'
    BY <1>2, EntryEnds
  <1>11. Numbered'
    BY <1>1, <1>2, <1>9, <1>10 DEF Numbered
  <1>12. QED
    BY <1>10, <1>11 DEF TimesInv

\* Making the entry: below what has been made on the way to it.
LEMMA CreateTimes == ASSUME IInv, Apart, TimesInv, Create PROVE TimesInv'
  <1>. USE Parts
  <1>1. /\ pc = "create" /\ InEntry /\ OnItsWay /\ n' = n /\ n \in Nat /\ k \in Nat
        /\ Continue \/ (\E e : e # "ok" /\ Return(e))
    BY Typed, ApartParts, CreateOutcome DEF OnItsWay
  <1>2. CASE tree' = tree
    BY <1>1, <1>2, SameAlike, EndsAlike
  <1>3. CASE tree' # tree
    <2>1. PICK path, new : path = dst.path /\ new = tree'
      OBVIOUS
    <2>2. PICK header \in Header :
              /\ header.type \in {"dir", "reg", "dev", "sym", "link"}
              /\ header.by = n /\ new = createTarFile(tree, path, header).tree
      BY <1>3, <2>1, ApartParts, CreateOutcome
    <2>3. path \in Seq(Name) /\ path # << >> /\ Front(path) \in Seq(Part)
      BY <1>1, <2>1, ApartParts, EntryPath
    <2>4. PICK l, out : l = Locate(tree, path) /\ out = createTarFile(tree, path, header)
      OBVIOUS
    <2>5. l.err = "ok"
      BY <1>3, <2>1, <2>2, <2>4, NothingMade
    <2>6. PICK at, ino : at = l.at /\ ino = Inode(header, at)
      OBVIOUS
    <2>7. JoinsInode(tree, new, ino)
      BY <2>2, <2>3, <2>4, <2>6, CreateJoins DEF JoinsInode
    <2>8. Len(at) \in Nat /\ Len(at) >= k
      <3>1. at \in Seq(Name)
        BY <2>3, <2>4, <2>5, <2>6, LocateType
      <3>2. CASE k > 0
        <4>1. NoLinks(tree, Front(path)) /\ k = Len(Front(path)) + 1
          BY <1>1, <2>1, <3>2 DEF TimesInv, Direct, Parent
        <4>2. at = path
          BY <2>3, <2>4, <2>5, <2>6, <4>1, LocateNoLink
        <4>3. Len(path) \in Nat /\ Len(Front(path)) = Len(path) - 1
          BY <2>3, FrontProperties
        <4>4. QED
          BY <4>1, <4>2, <4>3
      <3>3. CASE ~(k > 0)
        BY <1>1, <3>1, <3>3
      <3>4. QED
        BY <3>2, <3>3
    <2>9. ino[1] = n /\ ino[2] = Len(at)
      BY <2>2, <2>6, <2>8, EntryInode
    <2>10. Direct' /\ Restored' /\ ~InEntry'
      BY <1>1, EntryEnds
    <2>11. Numbered'
      BY <1>1, <2>1, <2>7, <2>8, <2>9, <2>10, NumberedJoins DEF TimesInv
    <2>12. QED
      BY <2>10, <2>11 DEF TimesInv
  <1>4. QED
    BY <1>2, <1>3

\* A listed directory's name leads to a node.
LEMMA LeadsType ==
    ASSUME IInv, NEW i \in DOMAIN dirs
    PROVE  /\ dirs[i].name \in Seq(Part)
           /\ LeadsTo(i) \in DOMAIN tree
  <1>. USE Parts
  <1>1. dirs[i] \in [name : Seq(Name), time : Nat]
    <2>1. DOMAIN dirs = 1..Len(dirs)
      BY DEF LocalOK
    <2>2. QED
      BY <2>1, ElementOfSeq DEF LocalOK
  <1>2. PICK path \in Seq(Part) : path = dirs[i].name
    BY <1>1 DEF Part
  <1>3. Stat(tree, path).at \in DOMAIN tree
    BY StatType
  <1>4. QED
    BY <1>2, <1>3 DEF LeadsTo

\* The times of one directory: it disturbs no other one.
LEMMA RestoreTimes == ASSUME IInv, TimesInv, RestoreTime PROVE TimesInv'
  <1>0. /\ LocalOK /\ IsTree(tree) /\ n \in Nat /\ k \in Nat /\ Numbered /\ Restored
        /\ pc = "times" /\ k \in 1..Len(dirs)
    BY Parts, Typed DEF TimesInv, RestoreTime
  <1>1. PICK path, time : path = dirs[k].name /\ time = dirs[k].time
    OBVIOUS
  <1>2. PICK out, stat : out = chtimes(tree, path, time) /\ stat = Stat(tree, path)
    OBVIOUS
  <1>3. /\ tree' = out.tree /\ UNCHANGED <<n, dirs, removals>>
        /\ \/ out.err = "ok" /\ pc' = "times" /\ k' = k + 1
           \/ out.err # "ok" /\ Return(out.err)
    BY <1>0, <1>1, <1>2 DEF RestoreTime, DirTime, local
  <1>4. CASE out.err # "ok" /\ Return(out.err)
    <2>1. Direct' /\ Restored' /\ Numbered'
      BY <1>4, EntryEnds DEF Return
    <2>2. QED
      BY <2>1 DEF TimesInv
  <1>5. CASE out.err = "ok" /\ pc' = "times" /\ k' = k + 1
    <2>1. PICK to, owner : to = LeadsTo(k) /\ tree' = SetMeta(tree, to, owner, time)
      <3>1. out = SetTime(tree, stat, time) /\ stat.at = LeadsTo(k)
        BY <1>1, <1>2 DEF chtimes, LeadsTo
      <3>2. out.tree = SetMeta(tree, stat.at, tree[stat.at].owner, time)
        BY <1>5, <3>1 DEF SetTime, Outcome
      <3>3. QED
        BY <1>3, <3>1, <3>2
    <2>2. PICK new : new = tree'
      OBVIOUS
    <2>3. DOMAIN new = DOMAIN tree /\ \A p \in DOMAIN tree : Alike(tree, new, p)
      BY <1>0, <1>2, <1>3, <2>2, ChtimesAlike
    <2>4. Numbered'
      <3>1. \A p \in DOMAIN tree' : p \in DOMAIN tree /\ Alike(tree, tree', p)
        BY <2>2, <2>3
      <3>2. ~InEntry' /\ k' \in Nat
        BY <1>0, <1>5 DEF InEntry
      <3>3. QED
        BY <1>0, <1>3, <3>1, <3>2, NumberedAlike
    <2>5. Direct'
      BY <1>5 DEF Direct, OnItsWay
    <2>6. DOMAIN dirs = 1..Len(dirs) /\ Len(dirs) \in Nat
      BY <1>0 DEF LocalOK
    <2>7. ASSUME NEW i \in DOMAIN dirs
          PROVE  /\ LeadsTo(i)' = LeadsTo(i) /\ LeadsTo(i) \in DOMAIN tree
                 /\ IsDir(new, LeadsTo(i)) <=> IsDir(tree, LeadsTo(i))
      <3>1. PICK name : name = dirs[i].name
        OBVIOUS
      <3>2. Stat(new, name) = Stat(tree, name)
        BY <2>3, StatAlike
      <3>3. LeadsTo(i)' = Stat(new, name).at /\ LeadsTo(i) = Stat(tree, name).at
        BY <1>3, <2>2, <3>1 DEF LeadsTo
      <3>4. LeadsTo(i) \in DOMAIN tree
        BY LeadsType
      <3>5. QED
        BY <2>3, <3>2, <3>3, <3>4 DEF IsDir, Exists, Alike
    <2>8. ASSUME NEW p \in DOMAIN tree
          PROVE  /\ tree[p].ino # tree[to].ino => new[p] = tree[p]
                 /\ tree[p].ino = tree[to].ino => new[p].time = time
      <3>1. new[p] = IF tree[p].ino = tree[to].ino
                     THEN [tree[p] EXCEPT !.owner = owner, !.time = time] ELSE tree[p]
        BY <2>1, <2>2 DEF SetMeta
      <3>2. PICK node \in NodeType : node = tree[p]
        BY <1>0, TreePaths
      <3>3. [node EXCEPT !.owner = owner, !.time = time].time = time
        BY DEF NodeType
      <3>4. QED
        BY <3>1, <3>2, <3>3
    <2>9. ASSUME removals = 0, NEW i \in DOMAIN dirs, i < k + 1,
                 IsDir(new, LeadsTo(i)), LeadsTo(i) # << >>,
                 \A j \in DOMAIN dirs \ {i} : LeadsTo(j) # LeadsTo(i)
          PROVE  new[LeadsTo(i)].time = dirs[i].time
      <3>1. IsDir(tree, LeadsTo(i)) /\ LeadsTo(i) \in DOMAIN tree
        BY <2>7, <2>9
      <3>2. CASE i = k
        BY <1>1, <2>1, <2>8, <3>1, <3>2
      <3>3. CASE i # k
        <4>1. i < k /\ k \in DOMAIN dirs
          BY <1>0, <2>6, <2>9, <3>3
        <4>2. tree[LeadsTo(i)].time = dirs[i].time
          BY <1>0, <2>9, <3>1, <4>1 DEF Restored, Settled, AllWell
        <4>3. LeadsTo(i) # to /\ to \in DOMAIN tree
          BY <2>1, <2>7, <2>9, <3>3, <4>1
        <4>4. tree[LeadsTo(i)].ino # tree[to].ino
          BY <1>0, <3>1, <4>3 DEF Numbered, Numbers, DirInodes
        <4>5. QED
          BY <2>8, <3>1, <4>2, <4>4
      <3>4. QED
        BY <3>2, <3>3
    <2>10. ASSUME removals = 0, NEW i \in DOMAIN dirs, i < k + 1 PROVE Settled(i)'
      <3>1. \A j \in DOMAIN dirs : LeadsTo(j)' = LeadsTo(j)
        BY <2>7
      <3>2. dirs' = dirs
        BY <1>3
      <3>3. QED
        BY <2>2, <2>9, <2>10, <3>1, <3>2 DEF Settled
    <2>11. Restored'
      BY <1>3, <1>5, <2>10 DEF Restored, AllWell
    <2>12. QED
      BY <2>4, <2>5, <2>11 DEF TimesInv
  <1>6. QED
    BY <1>3, <1>4, <1>5

\* Every time has been set.
LEMMA DoneTimes == ASSUME IInv, TimesInv, TimesRestored PROVE TimesInv'
  <1>1. /\ pc = "times" /\ k > Len(dirs) /\ pc' = "cleanup" /\ err' = "ok"
        /\ UNCHANGED <<tree, dirs, k, removals>>
    BY DEF TimesRestored, Return, entry, local
  <1>2. Numbered' /\ Direct'
    BY <1>1 DEF Numbered, Direct, OnItsWay
  <1>3. removals = 0 => \A i \in DOMAIN dirs : i < k => Settled(i)
    BY <1>1 DEF TimesInv, Restored, AllWell
  <1>4. \A i : Settled(i)' = Settled(i)
    BY <1>1 DEF Settled, LeadsTo
  <1>5. Restored'
    BY <1>1, <1>3, <1>4 DEF Restored
  <1>6. QED
    BY <1>2, <1>5 DEF TimesInv

\* The removal of the temporary directory: a listed name leads where it led, and
\* to a node that stays what it is, unless it is the root.
LEMMA CleanupLeads ==
    ASSUME IInv, Apart, Removing, NEW i \in DOMAIN dirs
    PROVE  /\ LeadsTo(i)' = LeadsTo(i) /\ LeadsTo(i) \in DOMAIN tree
           /\ LeadsTo(i) # << >> => tree'[LeadsTo(i)] = tree[LeadsTo(i)]
  <1>. USE Parts
  <1>1. /\ dirs' = dirs
        /\ \/ tree' = tree
           \/ \E q \in DOMAIN tree : /\ Under(<<TempName>>, q)
                                    /\ tree' = RemoveTree(tree, q, Clock)
    BY RemovingTree
  <1>2. PICK path : path = dirs[i].name
    OBVIOUS
  <1>3. path \in Seq(Part) /\ path \in Seq(Spared) /\ LeadsTo(i) \in DOMAIN tree
    BY <1>2, LeadsType, ApartParts DEF NamesApart
  <1>4. CASE tree' = tree
    BY <1>1, <1>3, <1>4 DEF LeadsTo
  <1>5. CASE \E q \in DOMAIN tree : /\ Under(<<TempName>>, q)
                                   /\ tree' = RemoveTree(tree, q, Clock)
    <2>1. PICK at, new : /\ at \in DOMAIN tree /\ Under(<<TempName>>, at)
                           /\ new = tree' /\ new = RemoveTree(tree, at, Clock)
      BY <1>5
    <2>2. /\ at \in Seq(Name) /\ at # << >> /\ Clock \in Nat
          /\ Front(at) = << >> \/ Under(<<TempName>>, Front(at))
      BY <2>1, BelowTemp, ExtractAssumption
    <2>13. \A p \in Seq(Spared) : ~Under(at, p)
      <3>1. ASSUME NEW p \in Seq(Spared), Under(at, p) PROVE FALSE
        <4>1. Under(<<TempName>>, p)
          BY <2>1, <2>2, <3>1 DEF Under
        <4>2. QED
          BY <4>1, SparedPath
      <3>2. QED
        BY <3>1
    <2>3. /\ \A p \in DOMAIN new : p \in DOMAIN tree /\ Alike(tree, new, p)
          /\ \A p : p \in DOMAIN new <=> p \in DOMAIN tree /\ ~Under(at, p)
      BY <2>1, <2>2, RemoveTreeAlike, RemoveTreeType DEF CutAt
    <2>4. \A p \in Seq(Spared) : /\ p \in DOMAIN new <=> p \in DOMAIN tree
                                 /\ p \in DOMAIN tree => SameWay(tree, new, p)
      BY <2>3, <2>13 DEF Alike, SameWay
    <2>5. PICK scoped \in BOOLEAN, follow \in BOOLEAN : scoped = FALSE /\ follow = TRUE
      OBVIOUS
    <2>6. LinksWithin(tree, Spared)
      BY ApartParts DEF TreeApart
    <2>7. Walk(new, path, scoped, follow) = Walk(tree, path, scoped, follow)
      BY <1>3, <2>4, <2>6, WalkElsewhere
    <2>8. Walk(tree, path, scoped, follow).at \in Seq(Spared)
      BY <1>3, <2>6, WalkWithin
    <2>9. PICK to : to = LeadsTo(i)
      OBVIOUS
    <2>10. LeadsTo(i)' = to /\ to \in Seq(Spared)
      BY <1>1, <1>2, <2>1, <2>5, <2>7, <2>8, <2>9 DEF LeadsTo, Stat, Ends, At
    <2>11. to # << >> => new[to] = tree[to]
      <3>1. to \in DOMAIN new /\ to \in DOMAIN tree
        BY <1>3, <2>4, <2>9, <2>10
      <3>2. PICK touched : touched = Touch(tree, at, Clock)
        OBVIOUS
      <3>3. new[to] = touched[to]
        BY <2>1, <3>1, <3>2 DEF RemoveTree
      <3>6. to # << >> => to # Front(at)
        BY <2>2, <2>10, SparedPath
      <3>4. to # << >> => touched[to] = tree[to]
        BY <3>1, <3>2, <3>6 DEF Touch
      <3>5. QED
        BY <3>3, <3>4
    <2>12. QED
      BY <1>3, <2>1, <2>9, <2>10, <2>11
  <1>6. QED
    BY <1>1, <1>4, <1>5

\* So the times stay.
LEMMA CleanupTimes == ASSUME IInv, Apart, TimesInv, Removing PROVE TimesInv'
  <1>1. /\ pc = "cleanup" /\ pc' \in {"cleanup", "done"} /\ UNCHANGED <<dirs, k, err, removals>>
    BY RemovingTree
  <1>2. Numbered' /\ Direct'
    BY <1>1 DEF Numbered, Direct, OnItsWay
  <1>3. ASSUME NEW i \in DOMAIN dirs, Settled(i) PROVE Settled(i)'
    <2>1. \A j \in DOMAIN dirs : LeadsTo(j)' = LeadsTo(j)
      BY CleanupLeads
    <2>2. PICK to, new : to = LeadsTo(i) /\ new = tree'
      OBVIOUS
    <2>3. to \in DOMAIN tree /\ (to # << >> => new[to] = tree[to])
      BY <2>2, CleanupLeads
    <2>4. ASSUME IsDir(new, to), to # << >>, \A j \in DOMAIN dirs \ {i} : LeadsTo(j) # to
          PROVE  new[to].time = dirs[i].time
      <3>1. IsDir(tree, to)
        BY <2>3, <2>4 DEF IsDir, Exists
      <3>2. tree[to].time = dirs[i].time
        BY <1>3, <2>2, <2>4, <3>1 DEF Settled
      <3>3. QED
        BY <2>3, <2>4, <3>2
    <2>5. QED
      BY <1>1, <2>1, <2>2, <2>4 DEF Settled
  <1>4. Restored'
    BY <1>1, <1>3 DEF TimesInv, Restored, AllWell
  <1>5. QED
    BY <1>2, <1>4 DEF TimesInv

\* An operation fails.
LEMMA FaultTimes == ASSUME Fault PROVE TimesInv'
  <1>1. Return("io") /\ "io" # "ok"
    BY DEF Fault
  <1>2. Direct' /\ Restored' /\ Numbered'
    BY <1>1, EntryEnds DEF Return
  <1>3. QED
    BY <1>2 DEF TimesInv

\* Another process removes something.
LEMMA OtherTimes == ASSUME IInv, TimesInv, RemovedByOther PROVE TimesInv'
  <1>. USE Parts
  <1>1. /\ removals' = removals + 1
        /\ UNCHANGED <<pc, dst, k, n, dirs, err>>
        /\ \E at : tree' = RemoveTree(tree, at, Clock)
    BY DEF RemovedByOther, entry, local
  <1>2. \A p \in DOMAIN tree' : p \in DOMAIN tree /\ Alike(tree, tree', p)
    BY <1>1, CutAlike
  <1>3. Numbered'
    <2>1. k \in Nat
      BY Typed
    <2>2. pc \notin {"cleanup", "done"} => Numbered'
      BY <1>1, <1>2, <2>1, NumberedAlike DEF TimesInv, InEntry
    <2>3. QED
      BY <1>1, <2>2 DEF Numbered
  <1>4. Direct'
    <2>1. OnItsWay /\ ~dst.parentWasPresent => NoLinks(tree', Parent)
      BY <1>2, ParentAlike DEF TimesInv, Direct
    <2>2. QED
      BY <1>1, <2>1 DEF TimesInv, Direct, OnItsWay, Parent
  <1>5. Restored'
    <2>1. removals' # 0
      BY <1>1 DEF CountersOK
    <2>2. QED
      BY <1>1, <2>1 DEF TimesInv, Restored, AllWell
  <1>6. QED
    BY <1>3, <1>4, <1>5 DEF TimesInv

\* Nothing changes.
LEMMA StutterTimes == ASSUME TimesInv, UNCHANGED vars PROVE TimesInv'
  <1>1. UNCHANGED <<tree, pc, hdr, dst, k, n, dirs, err, removals>>
    BY DEF vars, entry, local
  <1>2. Numbered' /\ Direct'
    BY <1>1 DEF TimesInv, Numbered, Direct, InEntry, OnItsWay, Parent
  <1>3. \A i : Settled(i)' = Settled(i)
    BY <1>1 DEF Settled, LeadsTo
  <1>4. Restored'
    BY <1>1, <1>3 DEF TimesInv, Restored, AllWell
  <1>5. QED
    BY <1>2, <1>4 DEF TimesInv

\* Every step keeps the invariant of the times.
LEMMA NextTimes == IInv /\ Apart /\ TimesInv /\ [Next]_vars => TimesInv'
  <1>. SUFFICES ASSUME IInv, Apart, TimesInv, [Next]_vars PROVE TimesInv'
    OBVIOUS
  <1>1. CASE \E h \in Layer : Read(h)
    BY <1>1, ReadTimes
  <1>2. CASE EndOfArchive \/ SkipImplied \/ StartImplied \/ MakeImplied \/ ImpliedMade
    BY <1>2, EndTimes, OnwardTimes, ImpliedTimes
  <1>3. CASE Plnk \/ Whiteout \/ Opaque \/ Clear \/ Create
    BY <1>3, PlnkTimes, WhiteoutTimes, ClearTimes, CreateTimes
  <1>4. CASE RestoreTime \/ TimesRestored \/ Removing \/ Fault \/ RemovedByOther
    BY <1>4, RestoreTimes, DoneTimes, CleanupTimes, FaultTimes, OtherTimes
  <1>5. CASE UNCHANGED vars
    BY <1>5, StutterTimes
  <1>6. QED
    BY <1>1, <1>2, <1>3, <1>4, <1>5 DEF Next, Returned, Plnk, Removing

\* It holds at the start.
LEMMA InitTimes == Init => TimesInv
  <1>. SUFFICES ASSUME Init PROVE TimesInv
    OBVIOUS
  <1>1. tree \in Lowers /\ pc = "read" /\ n = 0 /\ k = 0
    BY DEF Init
  <1>2. Numbered
    BY <1>1, UnpackLayerAssumption DEF Numbered, Numbers, DirInodes, InEntry
  <1>3. Direct /\ Restored
    BY <1>1 DEF Direct, Restored, AllWell, OnItsWay
  <1>4. QED
    BY <1>2, <1>3 DEF TimesInv

-----------------------------------------------------------------------------
\* A lower layer starts with the invariant: nothing is recorded.
LEMMA InitInvariant == Init => IInv
  <1>. SUFFICES ASSUME Init PROVE IInv
    OBVIOUS
  <1>1. IsTree(tree) /\ IsTree(base)
    BY UnpackLayerAssumption DEF Init
  <1>2. /\ pc = "read" /\ dst = NoPath /\ k = 0 /\ n = 0 /\ removals = 0
        /\ unpackedPaths = {} /\ dirs = << >> /\ aufsHardlinks = << >>
        /\ aufsTempdir = FALSE /\ removeErr = "ok"
    BY DEF Init
  <1>3. EntryOK
    <2>1. dst.path = << >> /\ Front(dst.path) = << >>
      BY <1>2, NoPathType
    <2>2. << >> \in Seq(Name) /\ << >> \in Seq(Name \union {Opq})
      OBVIOUS
    <2>3. dst.path \in Seq(Name \union {Opq}) /\ Front(dst.path) \in Seq(Name)
      BY <2>1, <2>2
    <2>4. QED
      BY <1>2, <2>3 DEF EntryOK, InEntry, Parent
  <1>4. LocalOK
    <2>1. DOMAIN aufsHardlinks = {}
      BY <1>2
    <2>2. dirs \in Seq([name : Seq(Name), time : Nat])
      BY <1>2
    <2>3. QED
      BY <1>2, <2>1, <2>2 DEF LocalOK
  <1>5. CountersOK
    BY <1>2, UnpackLayerAssumption DEF CountersOK
  <1>6. TypeOK
    BY <1>1, <1>3, <1>4, <1>5, TypeParts
  <1>7. Written /\ Cleared /\ Dispatched
    BY <1>2 DEF Written, Cleared, Dispatched
  <1>8. QED
    BY <1>6, <1>7 DEF IInv

\* Every step keeps the invariant.
LEMMA NextInvariant == IInv /\ [Next]_vars => IInv'
  <1>. SUFFICES ASSUME IInv, [Next]_vars PROVE IInv'
    OBVIOUS
  <1>1. CASE \E h \in Layer : Read(h)
    BY <1>1, ReadStep
  <1>2. CASE \/ EndOfArchive \/ SkipImplied \/ StartImplied \/ ImpliedMade
             \/ TimesRestored \/ Returned \/ UNCHANGED vars
    BY <1>2, QuietStep
  <1>3. CASE Plnk
    BY <1>3, ExtractPlnkStep
  <1>4. CASE MakeImplied
    BY <1>4, MakeImpliedStep
  <1>5. CASE Whiteout
    BY <1>5, WhiteoutStep
  <1>6. CASE Opaque
    BY <1>6, OpaqueStep
  <1>7. CASE Clear
    BY <1>7, ClearStep
  <1>8. CASE Create
    BY <1>8, CreateStep
  <1>9. CASE RestoreTime
    BY <1>9, RestoreTimeStep
  <1>10. CASE Removing
    BY <1>10, CleanupStep
  <1>11. CASE Fault
    BY <1>11, FaultStep
  <1>12. CASE RemovedByOther
    BY <1>12, RemovedByOtherStep
  <1>13. QED
    BY <1>1, <1>2, <1>3, <1>4, <1>5, <1>6, <1>7, <1>8, <1>9, <1>10, <1>11, <1>12
       DEF Next, Plnk, Removing

\* The tree below dest stays a tree, and the variables of UnpackLayer keep their
\* types, whatever other processes remove and whichever operation fails.
THEOREM TypeCorrect == Spec => []TypeOK
  <1>1. IInv => TypeOK
    BY DEF IInv
  <1>2. QED
    BY <1>1, InitInvariant, NextInvariant, PTL DEF Spec

\* What an opaque whiteout walks over is removed unless it is recorded, and what
\* is recorded was written by this layer.
LEMMA NextLowerHidden ==
    ASSUME IInv, [Next]_vars, NEW d \in DOMAIN tree, WalksBelow(d),
           NEW q \in DOMAIN tree', Below(d, q)
    PROVE  tree'[q].by > 0
  <1>. USE Parts
  <1>1. Opaque /\ pc' = "read"
    BY DEF WalksBelow, Next, Read, EndOfArchive, ExtractPlnk, SkipImplied, StartImplied,
           MakeImplied, ImpliedMade, Whiteout, Clear, Create, RestoreTime,
           TimesRestored, Cleanup, CleanupPart, CleanupFails, Fault, PlnkFails, MakesTemp,
           RemovedByOther, Returned, Return, vars
  <1>2. tree' = AfterWalk(d)
    BY <1>1 DEF Opaque, Return, WalksBelow
  <1>3. d \in Seq(Name)
    BY WalkedType DEF WalksBelow
  <1>4. PICK left : left = AfterWalk(d)
    OBVIOUS
  <1>5. /\ q \in DOMAIN left /\ q \in DOMAIN tree
        /\ left[q].by = tree[q].by /\ q \in unpackedPaths
    BY <1>2, <1>3, <1>4, AfterWalkType
  <1>6. tree[q].by > 0
    BY <1>5 DEF IInv, Written
  <1>7. QED
    BY <1>2, <1>4, <1>5, <1>6

\* After an opaque whiteout no file of a lower layer is left below its directory.
THEOREM OpaqueHidesLower == Spec => LowerHidden
  <1>1. IInv /\ [Next]_vars =>
            [\A d \in DOMAIN tree : WalksBelow(d) =>
                \A q \in DOMAIN tree' : Below(d, q) => tree'[q].by > 0]_vars
    BY NextLowerHidden
  <1>2. QED
    BY <1>1, InitInvariant, NextInvariant, PTL DEF Spec, LowerHidden

\* When the call has returned, with or without an error, whichever operation failed
\* and whatever other processes removed, the temporary directory for the
\* /.wh..wh.plnk files is not left in the destination, but for one case: what
\* failed is its own removal, the error of which the code discards.
THEOREM TempDirIsGone == Spec => []TempDirGone
  <1>1. IInv /\ Apart /\ [Next]_vars => (IInv /\ Apart)'
    BY NextInvariant, NextApart
  <1>2. IInv /\ Apart => TempDirGone
    BY DEF Apart, TreeApart, TempDirGone
  <1>3. QED
    BY <1>1, <1>2, InitInvariant, InitApart, PTL DEF Spec

\* After a call without an error a directory the layer lists has the time of its
\* header, although entries, whiteouts and the temporary directory came and went in
\* it later, unless another directory entry leads there too.
THEOREM TimesAreRestored == Spec => []DirTimesRestored
  <1>1. Init => IInv /\ Apart /\ TimesInv
    BY InitInvariant, InitApart, InitTimes
  <1>2. IInv /\ Apart /\ TimesInv /\ [Next]_vars => (IInv /\ Apart /\ TimesInv)'
    BY NextInvariant, NextApart, NextTimes
  <1>3. IInv /\ TimesInv => DirTimesRestored
    <2>1. SUFFICES ASSUME IInv, TimesInv, pc = "done", err = "ok", removals = 0,
                          NEW i \in DOMAIN dirs
                   PROVE  Settled(i)
      BY DEF DirTimesRestored, Settled, LeadsTo
    <2>2. DOMAIN dirs = 1..Len(dirs) /\ Len(dirs) \in Nat /\ k \in Nat
      BY <2>1, Parts, Typed DEF LocalOK
    <2>3. i < k
      BY <2>1, <2>2 DEF TimesInv, Restored, AllWell
    <2>4. QED
      BY <2>1, <2>3 DEF TimesInv, Restored, AllWell
  <1>4. QED
    BY <1>1, <1>2, <1>3, PTL DEF Spec

-----------------------------------------------------------------------------
(***************************************************************************)
(* UnpackLayer implements LayerView.  What the calls of Extract do to how  *)
(* a tree looks is in TreeProofs.  Here is first what the view is, then    *)
(* the invariant the refinement needs (ViewInv), then LayerView's steps in *)
(* terms of the view, and then step by step why UnpackLayer's are among    *)
(* them.                                                                   *)
(***************************************************************************)
-----------------------------------------------------------------------------
(***************************************************************************)
(* The view of LayerView, and its operators, for any tree.                 *)
(***************************************************************************)
ViewNow == IF InEntry THEN Visible(base) ELSE Visible(tree)
EntryNow == IF InEntry THEN [type |-> hdr.type, name |-> hdr.name, link |-> hdr.link]
            ELSE NoEntry
AppliedNow == IF err # "ok" THEN 0 ELSE IF InEntry THEN n - 1 ELSE n
StatusNow == IF err # "ok" THEN "failed"
             ELSE IF pc \in {"cleanup", "done"} THEN "applied" ELSE "applying"
LayerVars == <<ViewNow, EntryNow, unpackedPaths, AppliedNow, StatusNow>>

\* The view hides the temporary directory.
LEMMA VisibleIs ==
    ASSUME NEW tr
    PROVE  /\ Visible(tr) = ViewLess(tr, <<TempName>>)
           /\ \A q : q \in DOMAIN Visible(tr) <=> q \in DOMAIN tr /\ ~Under(<<TempName>>, q)
           /\ \A q \in DOMAIN Visible(tr) : Visible(tr)[q] = Shown(tr[q])
           /\ Visible(tr) = [q \in DOMAIN Visible(tr) |-> Visible(tr)[q]]
  BY DEF Visible, ViewLess

\* No path by the other names leads there.
LEMMA SparedHidden ==
    ASSUME NEW tr
    PROVE  Spares(tr, Spared, <<TempName>>)
  BY SparedPath DEF Spares

\* LayerView looks a path up by the same steps.
LEMMA PromiseWalk ==
    ASSUME NEW v, NEW path, NEW scoped, NEW follow
    PROVE  Promise!Walk(v, path, scoped, follow) = Walk(v, path, scoped, follow)
  BY DEF Promise!Walk, Walk, Promise!WalkEnd, WalkEnd, Promise!WalkNext, WalkNext,
         Promise!WalkStep, WalkStep, Promise!WalkStart, WalkStart, Promise!WalkLink, WalkLink,
         Promise!WalkUp, WalkUp, Promise!Exists, Exists, Promise!Dot, Dot, Promise!Up, Up,
         Promise!Front, Front

\* The paths of LayerView are those of UnpackLayer.
LEMMA PromisePaths ==
    ASSUME NEW v, NEW p, NEW q
    PROVE  /\ Promise!Front(p) = Front(p) /\ Promise!Last(p) = Last(p)
           /\ Promise!Under(p, q) <=> Under(p, q)
           /\ Promise!Below(p, q) <=> Below(p, q)
           /\ Promise!Exists(v, p) <=> p \in DOMAIN v
           /\ Promise!IsDir(v, p) <=> IsDir(v, p)
           /\ Promise!Parents(p) = Ancestors(p)
           /\ Promise!ADir = ADir /\ Promise!NoLink = NoLink /\ Promise!NoEntry = NoEntry
  BY DEF Promise!Front, Front, Promise!Last, Last, Promise!Under, Under, Promise!Below, Below,
         Promise!Exists, Exists, Promise!IsDir, IsDir, Promise!Parents, Ancestors,
         Promise!ADir, ADir, Promise!NoLink, NoLink, Promise!NoEntry, NoEntry

\* LayerView's walk of a view is the walk of UnpackLayer on what is seen.
LEMMA PromisePlaces ==
    ASSUME NEW v, NEW p
    PROVE  /\ Promise!DirIn(v, p) = DirWith(v, p)
           /\ Promise!PlaceIn(v, p) = PlaceWith(v, p)
           /\ Promise!LeavesRootOf(v, p) <=> LeavesBelow(v, Front(p))
  <1>1. \A path : Promise!DirIn(v, path) = DirWith(v, path)
    BY PromiseWalk DEF Promise!DirIn, DirWith
  <1>2. Promise!PlaceIn(v, p) = PlaceWith(v, p)
    BY <1>1, PromisePaths DEF Promise!PlaceIn, PlaceWith
  <1>3. Promise!LeavesRootOf(v, p) <=> LeavesBelow(v, Front(p))
    BY PromiseWalk, PromisePaths DEF Promise!LeavesRootOf, LeavesBelow, Promise!Up, Up
  <1>4. QED
    BY <1>1, <1>2, <1>3

\* LayerView's operators on the view, instantiated, are those on what is seen of the tree.
LEMMA PromiseNow ==
    ASSUME NEW p, NEW paths
    PROVE  /\ Promise!DirAt(p) = DirWith(ViewNow, p)
           /\ Promise!Place(p) = PlaceWith(ViewNow, p)
           /\ Promise!LeavesRoot(p) <=> LeavesBelow(ViewNow, Front(p))
           /\ Promise!Keep(paths, p) = KeepIn(ViewNow, paths, p)
           /\ Promise!Outside(p) = OutsideIn(ViewNow, p)
           /\ Promise!Cleared(p) = ClearedIn(ViewNow, p)
  <1>1. /\ Promise!DirAt(p) = DirWith(ViewNow, p)
        /\ Promise!Place(p) = PlaceWith(ViewNow, p)
        /\ Promise!LeavesRoot(p) <=> LeavesBelow(ViewNow, Front(p))
    BY PromisePlaces DEF Promise!DirAt, Promise!Place, Promise!LeavesRoot, ViewNow
  <1>2. \A s : Promise!Keep(s, p) = KeepIn(ViewNow, s, p)
    BY PromisePaths DEF Promise!Keep, KeepIn, ViewNow
  <1>3. Promise!Outside(p) = OutsideIn(ViewNow, p)
    BY PromisePaths DEF Promise!Outside, OutsideIn, ViewNow
  <1>4. QED
    BY <1>1, <1>2, <1>3 DEF Promise!Cleared, ClearedIn

-----------------------------------------------------------------------------
(***************************************************************************)
(* An entry, from when it is read until it is done: its place is the one   *)
(* its name had in the tree it was read in (FromBase); only directories on *)
(* the way there are made (WayMade), and the place is cleared (Ready).     *)
(***************************************************************************)
Way  == Walk(base, Front(hdr.name), TRUE, TRUE)
Dir  == Way.at
Spot == Append(Dir, Last(hdr.name))

Going == pc \notin {"cleanup", "done"} => err = "ok"

FromBase ==
    /\ InEntry => LinksWithin(base, Spared)
    /\ pc = "plnk" => hdr.type = "plnk" /\ tree = base
    /\ OnItsWay => ResolvedAs(base, hdr.name, dst, Way)

WayMade ==
    /\ pc \in {"implied", "apply"} =>
          /\ OnlyWay(base, tree, Spot)
          /\ dst.parentWasPresent \/ (pc = "implied" /\ k = 0) => tree = base
    /\ pc = "implied" => \A i \in 1..k-1 : SubSeq(Parent, 1, i) \in DOMAIN tree
    /\ pc \in {"apply", "create"} => Dir \in DOMAIN tree

Ready ==
    pc = "create" =>
        \/ MadeRoom(base, tree, Spot) /\ (hdr.type = "dir" => ~IsDir(base, Spot))
        \/ hdr.type = "dir" /\ OnlyWay(base, tree, Spot) /\ IsDir(tree, Spot)

ViewInv == Going /\ FromBase /\ WayMade /\ Ready

\* What is so of the place of an entry, and of the path it was given.
SpotOK ==
    /\ hdr.name \in Seq(Spared) /\ hdr.name # << >> /\ Front(hdr.name) \in Seq(Part)
    /\ Dir \in Seq(Name)
    /\ Spot # << >> /\ Front(Spot) = Dir
    /\ hdr.type # "opaque" => Last(hdr.name) \in Name /\ Spot \in Seq(Name)
    /\ dst.path # << >> /\ Last(dst.path) = Last(hdr.name)
PresentOK ==
    dst.parentWasPresent =>
        /\ dst.path = hdr.name /\ Parent = Front(hdr.name)
        /\ Walk(base, Parent, FALSE, TRUE) = Way /\ Way.err = "ok"
        /\ Dir \in DOMAIN base
AbsentOK == ~dst.parentWasPresent => dst.path = Spot /\ Parent = Dir

\* While an entry is applied its place is a path apart from the temporary directory.
LEMMA SpotType ==
    ASSUME IInv, NamesApart, FromBase, OnItsWay
    PROVE  SpotOK /\ PresentOK /\ AbsentOK
  <1>. USE Parts
  <1>1. PICK name, last, r : name = hdr.name /\ last = Last(name) /\ r = dst
    OBVIOUS
  <1>2. /\ name \in Seq(Spared) /\ name \in EntryName /\ hdr.type \in EntryType
        /\ r.path # << >> /\ (hdr.type # "opaque" => r.path \in Seq(Name))
    BY <1>1 DEF OnItsWay, InEntry, EntryOK, NamesApart, Header
  <1>3. PICK front : front = Front(name) /\ front \in Seq(Name) /\ front \in Seq(Part)
    BY <1>1, <1>2 DEF EntryName, Part
  <1>4. name # << >> /\ name \in Seq(Name \union {Opq}) /\ last \in Name \union {Opq}
    BY <1>1, <1>2 DEF EntryName, Last
  <1>5. PICK w, dir : w = Way /\ dir = Dir /\ w = Walk(base, front, TRUE, TRUE) /\ dir = w.at
    BY <1>1, <1>3 DEF Way, Dir
  <1>6. dir \in Seq(Name)
    <2>1. PICK yes \in BOOLEAN : yes = TRUE
      OBVIOUS
    <2>2. OnTree(base, yes, Walk(base, front, yes, yes))
      BY <1>3, WalkType
    <2>3. QED
      BY <1>5, <2>1, <2>2 DEF OnTree, WalkState
  <1>7. PICK spot : spot = Spot /\ spot = Append(dir, last)
    BY <1>1, <1>5 DEF Spot
  <1>8. spot # << >> /\ Front(spot) = dir /\ Last(spot) = last /\ (last \in Name => spot \in Seq(Name))
    <2>1. dir \in Seq(Name \union {Opq})
      BY <1>6
    <2>2. QED
      BY <1>4, <1>6, <1>7, <2>1, FrontAppend
  <1>9. ResolvedAs(base, name, r, w)
    BY <1>1, <1>5 DEF FromBase
  <1>10. r.path = name \/ r.path = spot
    BY <1>1, <1>7, <1>5, <1>9 DEF ResolvedAs
  <1>11. Last(r.path) = last
    BY <1>1, <1>8, <1>10
  <1>12. hdr.type # "opaque" => last \in Name
    <2>1. SUFFICES ASSUME r.path \in Seq(Name) PROVE last \in Name
      BY <1>2
    <2>2. QED
      BY <1>2, <1>11, <2>1 DEF Last
  <1>13. SpotOK
    BY <1>1, <1>2, <1>3, <1>4, <1>5, <1>6, <1>7, <1>8, <1>11, <1>12 DEF SpotOK
  <1>14. PresentOK
    <2>1. SUFFICES ASSUME r.parentWasPresent PROVE PresentOK
      BY <1>1 DEF PresentOK
    <2>2. r.path = name /\ w = Walk(base, front, FALSE, TRUE) /\ w.err = "ok"
      BY <1>1, <1>3, <1>9, <2>1 DEF ResolvedAs
    <2>3. Parent = front
      BY <1>1, <1>3, <2>2 DEF Parent
    <2>4. PICK no \in BOOLEAN, yes \in BOOLEAN : no = FALSE /\ yes = TRUE
      OBVIOUS
    <2>5. OnTree(base, no, Walk(base, front, no, yes))
      BY <1>3, WalkType
    <2>6. dir \in DOMAIN base
      BY <1>5, <2>2, <2>4, <2>5 DEF OnTree
    <2>7. QED
      BY <1>1, <1>3, <1>5, <2>2, <2>3, <2>6 DEF PresentOK
  <1>15. AbsentOK
    BY <1>1, <1>5, <1>7, <1>8, <1>9 DEF AbsentOK, Parent, ResolvedAs
  <1>16. QED
    BY <1>13, <1>14, <1>15

\* Where os.Root acts on the entry's path.
LEMMA LocateSpot ==
    ASSUME IInv, Apart, TimesInv, ViewInv, pc = "apply"
    PROVE  LocatesIn(tree, Dir, Last(hdr.name), Locate(tree, dst.path))
  <1>. USE Parts
  <1>1. OnItsWay /\ SpotOK /\ PresentOK /\ AbsentOK
    BY ApartParts, SpotType DEF OnItsWay, ViewInv
  <1>2. PICK path, dir : path = dst.path /\ dir = Dir
    OBVIOUS
  <1>3. CASE dst.parentWasPresent
    <2>1. /\ tree = base /\ Front(path) \in Seq(Part)
          /\ Walk(tree, Front(path), FALSE, TRUE) = Way /\ Way.err = "ok"
      BY <1>1, <1>2, <1>3, PathParts DEF ViewInv, WayMade, PresentOK, Parent
    <2>2. LocatesIn(tree, Way.at, Last(path), Locate(tree, path))
      BY <2>1, LocateReached
    <2>3. QED
      BY <1>1, <1>2, <2>2 DEF SpotOK, Dir
  <1>4. CASE ~dst.parentWasPresent
    <2>1. NoLinks(tree, dir) /\ dir = Front(path) /\ dir \in Seq(Name)
      BY <1>1, <1>2, <1>4 DEF TimesInv, Direct, AbsentOK, SpotOK, Parent
    <2>2. QED
      BY <1>1, <1>2, <2>1, LocateFree DEF SpotOK
  <1>5. QED
    BY <1>3, <1>4

-----------------------------------------------------------------------------
\* Other processes remove nothing while an entry is being applied.
BetweenEntries == RemovedAt \intersect {"plnk", "implied", "apply", "create"} = {}

\* A step that leaves the entry, or stays between entries.
LEMMA LeaveView ==
    ASSUME ~InEntry', Going' PROVE ViewInv'
  <1>1. ~OnItsWay' /\ pc' \notin {"plnk", "implied", "apply", "create"}
    BY DEF OnItsWay, InEntry
  <1>2. FromBase' /\ WayMade' /\ Ready'
    BY <1>1 DEF FromBase, WayMade, Ready, InEntry
  <1>3. QED
    BY <1>2 DEF ViewInv

\* A step that goes on to the next header, or returns, keeps the invariant.
LEMMA EndsView ==
    ASSUME ViewInv, pc \notin {"cleanup", "done"},
           (Continue /\ UNCHANGED err) \/ \E e : Return(e)
    PROVE  ViewInv'
  <1>1. ~InEntry' /\ Going'
    BY DEF Continue, Return, InEntry, ViewInv, Going
  <1>2. QED
    BY <1>1, LeaveView

\* A step that goes on with the entry.
LEMMA GoesOn ==
    ASSUME ViewInv, OnItsWay, UNCHANGED <<base, hdr, dst, err>>,
           pc' \in {"implied", "apply", "create"}
    PROVE  /\ Going' /\ FromBase' /\ pc \notin {"cleanup", "done"}
           /\ Dir' = Dir /\ Spot' = Spot /\ Parent' = Parent /\ dst' = dst /\ base' = base
           /\ hdr' = hdr
  <1>1. InEntry /\ err = "ok"
    BY DEF OnItsWay, InEntry, ViewInv, Going
  <1>2. Way' = Way
    BY DEF Way
  <1>3. Dir' = Dir /\ Spot' = Spot /\ Parent' = Parent
    BY <1>2 DEF Dir, Spot, Parent
  <1>4. FromBase'
    BY <1>1, <1>2 DEF FromBase, ViewInv
  <1>5. QED
    BY <1>1, <1>3, <1>4 DEF Going, OnItsWay

\* The base of an entry is the tree at its header's reading, so the invariant holds at the start.
LEMMA ReadView ==
    ASSUME IInv, Apart, ViewInv, NEW h \in Layer, Read(h)
    PROVE  ViewInv'
  <1>. USE Parts
  <1>1. PICK header, resolved :
           /\ header = [type |-> h.type, name |-> h.name, link |-> h.link,
                        owner |-> h.owner, time |-> n + 1, by |-> n + 1]
           /\ resolved = resolveArchivePath(tree, h.name)
    OBVIOUS
  <1>2. pc = "read" /\ base' = tree /\ tree' = tree
    BY DEF Read
  <1>3. CASE \/ h.type = "meta" /\ Continue /\ UNCHANGED err
             \/ h.type \notin {"meta", "plnk"} /\ resolved.err # "ok" /\ Return(resolved.err)
    BY <1>2, <1>3, EndsView
  <1>4. CASE h.type = "plnk" /\ pc' = "plnk" /\ hdr' = header /\ UNCHANGED err
    <2>1. LinksWithin(base', Spared) /\ hdr'.type = "plnk" /\ tree' = base'
      BY <1>1, <1>2, <1>4, ApartParts DEF TreeApart
    <2>2. Going'
      BY <1>2, <1>4 DEF ViewInv, Going
    <2>3. FromBase'
      BY <1>4, <2>1 DEF FromBase, OnItsWay
    <2>4. WayMade' /\ Ready'
      BY <1>4 DEF WayMade, Ready
    <2>5. QED
      BY <2>2, <2>3, <2>4 DEF ViewInv
  <1>5. CASE /\ h.type \notin {"meta", "plnk"} /\ resolved.err = "ok"
             /\ hdr' = header /\ dst' = resolved /\ k' = 0 /\ pc' = "implied" /\ UNCHANGED err
    <2>1. LinksWithin(base', Spared)
      BY <1>2, ApartParts DEF TreeApart
    <2>2. Going'
      BY <1>2, <1>5 DEF ViewInv, Going
    <2>3. PICK name : name = h.name /\ hdr'.name = name
      BY <1>1, <1>5
    <2>4. Front(name) \in Seq(Part)
      BY <2>3, UnpackLayerAssumption DEF HeaderIn, EntryName, Part
    <2>5. PICK w : w = Walk(tree, Front(name), TRUE, TRUE) /\ w = Way'
      BY <1>2, <2>3 DEF Way
    <2>6. ResolvedAs(tree, name, resolved, w)
      BY <1>1, <1>5, <2>3, <2>4, <2>5, ResolvedWay
    <2>7. FromBase'
      BY <1>2, <1>5, <2>1, <2>3, <2>5, <2>6 DEF FromBase
    <2>8. OnlyWay(base', tree', Spot')
      BY <1>2, OnlyWaySame
    <2>9. WayMade' /\ Ready'
      BY <1>2, <1>5, <2>8 DEF WayMade, Ready
    <2>10. QED
      BY <2>2, <2>7, <2>9 DEF ViewInv
  <1>6. QED
    BY <1>1, <1>3, <1>4, <1>5 DEF Read

\* Nothing is made for a parent that is there.
LEMMA SkipView ==
    ASSUME IInv, Apart, TimesInv, ViewInv, SkipImplied
    PROVE  ViewInv'
  <1>. USE Parts
  <1>1. /\ pc = "implied" /\ k = 0 /\ ParentThere /\ pc' = "apply"
        /\ UNCHANGED <<tree, base, hdr, dst, n, err>>
    BY DEF SkipImplied, entry
  <1>2. OnItsWay
    BY <1>1 DEF OnItsWay
  <1>3. SpotOK /\ PresentOK /\ AbsentOK
    BY <1>2, ApartParts, SpotType DEF ViewInv
  <1>4. Dir \in DOMAIN tree
    <2>1. CASE dst.parentWasPresent
      BY <1>1, <1>3, <2>1 DEF PresentOK, ViewInv, WayMade
    <2>2. CASE ~dst.parentWasPresent
      <3>1. PICK dir : dir = Dir /\ dir = Parent /\ dir \in Seq(Name)
        BY <1>3, <2>2 DEF AbsentOK, SpotOK
      <3>2. CASE dir = << >>
        BY <3>1, <3>2, RootThere
      <3>3. CASE dir # << >>
        <4>1. PICK l : l = Locate(tree, dir)
          OBVIOUS
        <4>2. l.err = "ok" /\ l.at \in DOMAIN tree
          BY <1>1, <2>2, <3>1, <3>3, <4>1 DEF ParentThere, Lstat, IfThere, Exists, At
        <4>3. NoLinks(tree, dir)
          BY <1>2, <2>2, <3>1 DEF TimesInv, Direct
        <4>4. PICK m \in 0..Len(dir) : m = Len(dir) - 1 /\ SubSeq(dir, 1, m) = Front(dir)
          BY <3>1, <3>3 DEF Front
        <4>5. NoLinks(tree, Front(dir))
          BY <3>1, <4>3, <4>4, NoLinksPart
        <4>6. l.at = dir
          BY <3>1, <3>3, <4>1, <4>2, <4>5, LocateNoLink
        <4>7. QED
          BY <3>1, <4>2, <4>6
      <3>4. QED
        BY <3>2, <3>3
    <2>3. QED
      BY <2>1, <2>2
  <1>5. /\ Going' /\ FromBase'
        /\ Dir' = Dir /\ Spot' = Spot
    BY <1>1, <1>2, GoesOn
  <1>6. WayMade' /\ Ready'
    BY <1>1, <1>4, <1>5 DEF ViewInv, WayMade, Ready
  <1>7. QED
    BY <1>5, <1>6 DEF ViewInv

\* The first directory on the way is still to be made.
LEMMA StartView ==
    ASSUME IInv, Apart, ViewInv, StartImplied
    PROVE  ViewInv'
  <1>1. /\ pc = "implied" /\ k = 0 /\ ~ParentThere
        /\ UNCHANGED <<tree, base, hdr, dst, n>>
    BY DEF StartImplied
  <1>2. CASE \E e : Return(e)
    BY <1>1, <1>2, EndsView
  <1>3. CASE k' = 1 /\ UNCHANGED <<pc, err>>
    <2>1. OnItsWay /\ ~dst.parentWasPresent
      BY <1>1 DEF OnItsWay, ParentThere
    <2>2. /\ Going' /\ FromBase'
          /\ Dir' = Dir /\ Spot' = Spot
      BY <1>1, <1>3, <2>1, GoesOn
    <2>3. \A i \in 1..k'-1 : SubSeq(Parent, 1, i)' \in DOMAIN tree'
      BY <1>3
    <2>4. OnlyWay(base', tree', Spot')
      BY <1>1, <2>2 DEF ViewInv, WayMade
    <2>5. WayMade' /\ Ready'
      BY <1>1, <1>3, <2>1, <2>3, <2>4 DEF WayMade, Ready
    <2>6. QED
      BY <2>2, <2>5 DEF ViewInv
  <1>4. QED
    BY <1>2, <1>3 DEF StartImplied

\* The parent directory that is made lies on the way to the entry's place.
LEMMA ImpliedOnWay ==
    ASSUME IInv, Apart, TimesInv, ViewInv, pc = "implied", k \in 1..Len(Parent),
           NEW cur, cur = SubSeq(Parent, 1, k), NEW l, l = Locate(tree, cur), l.err = "ok"
    PROVE  /\ ~dst.parentWasPresent /\ Parent = Dir
           /\ l.at = cur /\ cur \in Ancestors(Spot)
  <1>. USE Parts
  <1>1. OnItsWay /\ SpotOK /\ AbsentOK /\ ~dst.parentWasPresent
    BY ApartParts, SpotType DEF OnItsWay, ViewInv, TimesInv, Direct
  <1>2. PICK dir \in Seq(Name) : dir = Dir /\ dir = Parent
    BY <1>1 DEF AbsentOK, SpotOK
  <1>3. PICK kk \in 1..Len(dir) : kk = k /\ cur = SubSeq(dir, 1, kk)
    BY <1>2
  <1>4. NoLinks(tree, dir)
    BY <1>1, <1>2 DEF TimesInv, Direct
  <1>5. cur \in Seq(Name) /\ cur # << >> /\ Len(cur) = kk /\ Front(cur) = SubSeq(dir, 1, kk - 1)
    BY <1>3 DEF Front
  <1>6. NoLinks(tree, Front(cur))
    <2>1. PICK m \in 0..Len(dir) : m = kk - 1
      OBVIOUS
    <2>2. NoLinks(tree, SubSeq(dir, 1, m))
      BY <1>4, NoLinksPart
    <2>3. QED
      BY <1>5, <2>1, <2>2
  <1>7. l.at = cur
    BY <1>5, <1>6, LocateNoLink
  <1>8. cur \in Ancestors(Spot)
    <2>1. PICK spot, last : spot = Spot /\ last = Last(hdr.name) /\ spot = Append(dir, last)
      BY <1>2 DEF Spot
    <2>2. SubSeq(dir, 1, kk) \in Ancestors(spot)
      BY <2>1, AncestorIs
    <2>3. QED
      BY <1>3, <2>1, <2>2
  <1>9. QED
    BY <1>1, <1>2, <1>7, <1>8

\* Each directory made is one on the way to the entry's place.
LEMMA MakeImpliedView ==
    ASSUME IInv, Apart, TimesInv, ViewInv, MakeImplied
    PROVE  ViewInv'
  <1>. USE Parts
  <1>1. PICK cur, out, l : /\ cur = SubSeq(Parent, 1, k) /\ l = Locate(tree, cur)
                           /\ out = mkdirImplied(tree, cur, hdr)
    OBVIOUS
  <1>2. /\ pc = "implied" /\ k \in 1..Len(Parent) /\ tree' = out.tree
        /\ UNCHANGED <<base, hdr, dst, n>>
    BY <1>1 DEF MakeImplied
  <1>3. CASE out.err # "ok"
    <2>1. Return(out.err)
      BY <1>1, <1>3 DEF MakeImplied
    <2>2. QED
      BY <1>2, <2>1, EndsView
  <1>4. CASE out.err = "ok"
    <2>1. k' = k + 1 /\ UNCHANGED <<pc, err>> /\ OnItsWay
      BY <1>1, <1>2, <1>4 DEF MakeImplied, OnItsWay
    <2>2. ImpliedSeenAs(tree, tree', cur, l)
      BY <1>1, <1>2, <1>4, ImpliedSeen
    <2>3. /\ ~dst.parentWasPresent /\ Parent = Dir
          /\ l.at = cur /\ cur \in Ancestors(Spot)
      BY <1>1, <1>2, <2>2, ImpliedOnWay DEF ImpliedSeenAs
    <2>4. /\ Going' /\ FromBase'
          /\ Dir' = Dir /\ Spot' = Spot /\ Parent' = Parent
      BY <1>2, <2>1, GoesOn
    <2>5. MadeAt(tree, tree', cur, ADir) \/ (tree' = tree /\ cur \in DOMAIN tree)
      BY <2>2, <2>3 DEF ImpliedSeenAs
    <2>6. OnlyWay(base, tree, Spot)
      BY <1>2 DEF ViewInv, WayMade
    <2>7. OnlyWay(base, tree', Spot)
      <3>1. PICK old, now, new, p : old = base /\ now = tree /\ new = tree' /\ p = Spot
        OBVIOUS
      <3>2. OnlyWay(old, now, p) /\ cur \in Ancestors(p)
        BY <2>3, <2>6, <3>1
      <3>3. MadeAt(now, new, cur, ADir) => OnlyWay(old, new, p)
        BY <3>2, OnlyWayMade
      <3>4. QED
        BY <2>5, <2>6, <3>1, <3>3
    <2>8. cur \in DOMAIN tree' /\ \A q \in DOMAIN tree : q \in DOMAIN tree'
      BY <2>5 DEF MadeAt
    <2>9. \A i \in 1..k'-1 : SubSeq(Parent, 1, i) \in DOMAIN tree'
      <3>1. SUFFICES ASSUME NEW i \in 1..k PROVE SubSeq(Parent, 1, i) \in DOMAIN tree'
        BY <1>2, <2>1
      <3>2. CASE i = k
        BY <1>1, <2>8, <3>2
      <3>3. CASE i # k
        <4>1. i \in 1..k-1
          BY <1>2, <3>3
        <4>2. SubSeq(Parent, 1, i) \in DOMAIN tree
          BY <1>2, <4>1 DEF ViewInv, WayMade
        <4>3. QED
          BY <2>8, <4>2
      <3>4. QED
        BY <3>2, <3>3
    <2>10. WayMade' /\ Ready'
      BY <1>2, <2>1, <2>3, <2>4, <2>7, <2>9 DEF WayMade, Ready
    <2>11. QED
      BY <2>4, <2>10 DEF ViewInv
  <1>5. QED
    BY <1>3, <1>4

\* After the last directory the entry's parent is reached.
LEMMA MadeView ==
    ASSUME IInv, Apart, TimesInv, ViewInv, ImpliedMade
    PROVE  ViewInv'
  <1>. USE Parts
  <1>1. /\ pc = "implied" /\ k > Len(Parent) /\ pc' = "apply"
        /\ UNCHANGED <<tree, base, hdr, dst, n, err, k>>
    BY DEF ImpliedMade, entry
  <1>2. OnItsWay
    BY <1>1 DEF OnItsWay
  <1>3. SpotOK /\ PresentOK /\ AbsentOK
    BY <1>2, ApartParts, SpotType DEF ViewInv
  <1>4. PICK path \in Seq(Name), kk \in Nat : path = Parent /\ kk = k /\ kk > Len(path)
    BY <1>1 DEF EntryOK
  <1>5. kk = Len(path) + 1 /\ ~dst.parentWasPresent
    BY <1>1, <1>2, <1>4 DEF TimesInv, Direct
  <1>6. path = Dir
    BY <1>3, <1>4, <1>5 DEF AbsentOK
  <1>7. path \in DOMAIN tree
    <2>1. CASE path = << >>
      BY <2>1, RootThere
    <2>2. CASE path # << >>
      <3>1. Len(path) \in 1..kk-1 /\ SubSeq(path, 1, Len(path)) = path
        BY <1>5, <2>2
      <3>2. QED
        BY <1>1, <1>4, <3>1 DEF ViewInv, WayMade
    <2>3. QED
      BY <2>1, <2>2
  <1>8. /\ Going' /\ FromBase'
        /\ Dir' = Dir /\ Spot' = Spot
    BY <1>1, <1>2, GoesOn
  <1>9. WayMade' /\ Ready'
    BY <1>1, <1>5, <1>6, <1>7, <1>8 DEF ViewInv, WayMade, Ready
  <1>10. QED
    BY <1>8, <1>9 DEF ViewInv

\* What Clear leaves of the tree.
Roomed(old, now, new, spot, type) ==
    \/ MadeRoom(old, new, spot) /\ (type = "dir" => ~IsDir(old, spot))
    \/ type = "dir" /\ new = now /\ IsDir(now, spot)

\* What stands in the entry's place is removed, and only that.
LEMMA ClearSeen ==
    ASSUME IInv, Apart, TimesInv, ViewInv, pc = "apply", hdr.type \notin {"white", "opaque"},
           NEW there, there = Lstat(tree, dst.path),
           NEW left, left = IF there.err = "ok" /\ RemovesFirst(there.at)
                            THEN RemoveTree(tree, there.at, Clock) ELSE tree
    PROVE  Roomed(base, tree, left, Spot, hdr.type) /\ Dir \in DOMAIN left
  <1>. USE Parts
  <1>1. OnItsWay /\ SpotOK
    BY ApartParts, SpotType DEF OnItsWay, ViewInv
  <1>2. PICK path, dir, last, spot, old :
           /\ path = dst.path /\ dir = Dir /\ last = Last(hdr.name) /\ spot = Spot
           /\ old = base
    OBVIOUS
  <1>3. /\ path # << >> /\ dir \in Seq(Name) /\ last \in Name
        /\ spot = Append(dir, last)
    BY <1>1, <1>2 DEF SpotOK, Spot
  <1>4. LocatesIn(tree, dir, last, Locate(tree, path))
    BY <1>2, LocateSpot
  <1>5. /\ there.err = "ok" => there.at = spot /\ spot \in DOMAIN tree
        /\ there.err # "ok" => \A q \in DOMAIN tree : ~Under(spot, q)
    <2>1. there = Lstat(tree, path)
      BY <1>2
    <2>2. SeesAt(tree, spot, there)
      BY <1>3, <1>4, <2>1, LstatSeen
    <2>3. QED
      BY <2>2 DEF SeesAt
  <1>6. OnlyWay(old, tree, spot) /\ dir \in DOMAIN tree
    BY <1>2 DEF ViewInv, WayMade
  <1>7. Under(spot, spot) /\ ~Under(spot, dir)
    <2>1. Len(spot) = Len(dir) + 1
      BY <1>3, AncestorsOf
    <2>2. QED
      BY <1>3, <2>1 DEF Under
  <1>8. CASE hdr.type = "dir" /\ IsDir(tree, spot)
    <2>1. there.err = "ok" /\ there.at = spot
      BY <1>5, <1>7, <1>8 DEF IsDir, Exists
    <2>2. left = tree
      BY <1>8, <2>1 DEF RemovesFirst, IsDir
    <2>3. QED
      BY <1>2, <1>6, <1>8, <2>2 DEF Roomed
  <1>9. CASE ~(hdr.type = "dir" /\ IsDir(tree, spot))
    <2>1. SeenCut(tree, left, spot)
      <3>1. CASE there.err = "ok"
        <4>1. RemovesFirst(there.at)
          BY <1>5, <1>9, <3>1 DEF RemovesFirst, IsDir, Exists
        <4>2. left = RemoveTree(tree, spot, Clock)
          BY <1>5, <3>1, <4>1
        <4>3. QED
          BY <4>2, CutSeen
      <3>2. CASE there.err # "ok"
        BY <1>5, <3>2, NothingCut
      <3>3. QED
        BY <3>1, <3>2
    <2>2. MadeRoom(old, left, spot)
      BY <1>3, <1>6, <2>1, RoomCut
    <2>3. hdr.type = "dir" => ~IsDir(old, spot)
      <3>1. SUFFICES ASSUME IsDir(old, spot) PROVE IsDir(tree, spot)
        BY <1>9
      <3>2. spot \in DOMAIN old /\ old[spot].kind = "dir"
        BY <3>1 DEF IsDir, Exists
      <3>3. spot \in DOMAIN tree /\ Shown(tree[spot]) = Shown(old[spot])
        BY <1>6, <3>2 DEF OnlyWay
      <3>4. PICK a, b : a = tree[spot] /\ b = old[spot] /\ Shown(a) = Shown(b) /\ b.kind = "dir"
        BY <3>2, <3>3
      <3>5. a.kind = "dir"
        BY <3>4 DEF Shown, ADir
      <3>6. QED
        BY <3>3, <3>4, <3>5 DEF IsDir, Exists
    <2>4. dir \in DOMAIN left
      BY <1>6, <1>7, <2>1 DEF SeenCut
    <2>5. QED
      BY <1>2, <2>2, <2>3, <2>4 DEF Roomed
  <1>10. QED
    BY <1>8, <1>9

\* Clearing the place makes room and keeps the invariant.
LEMMA ClearView ==
    ASSUME IInv, Apart, TimesInv, ViewInv, Clear
    PROVE  ViewInv'
  <1>1. PICK there : there = Lstat(tree, dst.path)
    OBVIOUS
  <1>2. /\ pc = "apply" /\ hdr.type \notin {"white", "opaque"} /\ pc' = "create"
        /\ tree' = IF there.err = "ok" /\ RemovesFirst(there.at)
                   THEN RemoveTree(tree, there.at, Clock) ELSE tree
        /\ UNCHANGED <<base, hdr, dst, n, err>>
    BY <1>1 DEF Clear, entry
  <1>3. OnItsWay
    BY <1>2 DEF OnItsWay
  <1>4. Roomed(base, tree, tree', Spot, hdr.type) /\ Dir \in DOMAIN tree'
    BY <1>1, <1>2, ClearSeen
  <1>5. /\ Going' /\ FromBase'
        /\ Dir' = Dir /\ Spot' = Spot
    BY <1>2, <1>3, GoesOn
  <1>6. OnlyWay(base, tree, Spot)
    BY <1>2 DEF ViewInv, WayMade
  <1>7. WayMade'
    BY <1>2, <1>4, <1>5 DEF WayMade
  <1>8. Ready'
    BY <1>2, <1>4, <1>5, <1>6 DEF Ready, Roomed
  <1>9. QED
    BY <1>5, <1>7, <1>8 DEF ViewInv

\* Every step keeps the invariant, if nothing is removed while an entry is applied.
LEMMA NextView ==
    ASSUME BetweenEntries, IInv, Apart, TimesInv, ViewInv, [Next]_vars
    PROVE  ViewInv'
  <1>1. CASE \E h \in Layer : Read(h)
    BY <1>1, ReadView
  <1>2. CASE SkipImplied \/ StartImplied
    BY <1>2, SkipView, StartView
  <1>3. CASE MakeImplied \/ ImpliedMade \/ Clear
    BY <1>3, MakeImpliedView, MadeView, ClearView
  <1>4. CASE Plnk
    <2>1. pc = "plnk" /\ ((Continue /\ UNCHANGED err) \/ \E e : Return(e))
      BY <1>4, PlnkOutcome
    <2>2. QED
      BY <2>1, EndsView
  <1>5. CASE Whiteout \/ Opaque
    <2>1. pc = "apply" /\ ((Continue /\ UNCHANGED err) \/ \E e : Return(e))
      BY <1>5 DEF Whiteout, Opaque
    <2>2. QED
      BY <2>1, EndsView
  <1>6. CASE Create
    <2>1. pc = "create" /\ ((Continue /\ UNCHANGED err) \/ \E e : Return(e))
      BY <1>6 DEF Create
    <2>2. QED
      BY <2>1, EndsView
  <1>7. CASE RestoreTime \/ EndOfArchive \/ TimesRestored
    <2>1. ~InEntry' /\ Going'
      BY <1>7 DEF RestoreTime, EndOfArchive, TimesRestored, Return, InEntry, ViewInv, Going
    <2>2. QED
      BY <2>1, LeaveView
  <1>12. CASE Removing
    <2>1. ~InEntry' /\ Going'
      BY <1>12, RemovingTree DEF InEntry, ViewInv, Going
    <2>2. QED
      BY <2>1, LeaveView
  <1>8. CASE Fault
    <2>1. ~InEntry' /\ Going'
      BY <1>8 DEF Fault, Return, InEntry, Going
    <2>2. QED
      BY <2>1, LeaveView
  <1>9. CASE RemovedByOther
    <2>1. pc \in RemovedAt /\ UNCHANGED <<pc, err>>
      BY <1>9 DEF RemovedByOther
    <2>2. ~InEntry' /\ Going'
      BY <2>1 DEF BetweenEntries, InEntry, ViewInv, Going
    <2>3. QED
      BY <2>2, LeaveView
  <1>10. CASE Returned \/ UNCHANGED vars
    BY <1>10 DEF Returned, vars, entry, ViewInv, Going, FromBase, WayMade, Ready, InEntry,
                 OnItsWay, Way, Dir, Spot, Parent
  <1>11. QED
    BY <1>1, <1>2, <1>3, <1>4, <1>5, <1>6, <1>7, <1>8, <1>9, <1>10, <1>12
       DEF Next, Plnk, Removing

\* The invariant holds at the start.
LEMMA InitView == Init => ViewInv
  <1>1. ASSUME Init PROVE ViewInv
    <2>1. pc = "read" /\ err = "ok"
      BY <1>1 DEF Init
    <2>2. QED
      BY <2>1 DEF ViewInv, Going, FromBase, WayMade, Ready, InEntry, OnItsWay
  <1>2. QED
    BY <1>1

-----------------------------------------------------------------------------
(***************************************************************************)
(* The steps of LayerView, in these terms.                                 *)
(***************************************************************************)
\* Where an entry may have been applied in part.
PartOf(v, h) == IF h.type = "opaque" THEN DirWith(v, Front(h.name)) ELSE PlaceWith(v, h.name)
HalfApplied(v, w, h) ==
    /\ h.type \notin {"meta", "plnk"} /\ ~LeavesBelow(v, Front(h.name))
    /\ \A q \in OutsideIn(v, PartOf(v, h)) : q \in DOMAIN w /\ w[q] = v[q]
    /\ \A q \in DOMAIN w \ DOMAIN v : q \in Ancestors(PartOf(v, h)) \union {PartOf(v, h)}

\* A return with an error, with the entry half applied or not begun, is a step of LayerView.
LEMMA PromiseFail ==
    ASSUME StatusNow = "applying", StatusNow' = "failed", EntryNow' = NoEntry,
           AppliedNow' = 0, UNCHANGED unpackedPaths,
           \/ ViewNow' = ViewNow
           \/ EntryNow # NoEntry /\ HalfApplied(ViewNow, ViewNow', EntryNow)
    PROVE  Promise!Next
  <1>1. CASE ViewNow' = ViewNow
    BY <1>1 DEF Promise!Next, Promise!Fail, StatusNow, EntryNow, AppliedNow, ViewNow,
                Promise!NoEntry, NoEntry
  <1>2. CASE EntryNow # NoEntry /\ HalfApplied(ViewNow, ViewNow', EntryNow)
    <2>1. PICK h : h = EntryNow
      OBVIOUS
    <2>2. PICK p : p = PartOf(ViewNow, h)
      OBVIOUS
    <2>3. p = IF h.type = "opaque" THEN Promise!DirAt(Front(h.name)) ELSE Promise!Place(h.name)
      BY <2>2, PromiseNow DEF PartOf
    <2>4. ~Promise!Ignored(h) /\ ~Promise!LeavesRoot(h.name)
      BY <1>2, <2>1, PromiseNow DEF HalfApplied, Promise!Ignored
    <2>5. /\ Promise!Outside(p) = OutsideIn(ViewNow, p) /\ Promise!Parents(p) = Ancestors(p)
      BY PromiseNow, PromisePaths
    <2>6. \A q \in OutsideIn(ViewNow, p) : q \in DOMAIN ViewNow' /\ ViewNow'[q] = ViewNow[q]
      BY <1>2, <2>1, <2>2 DEF HalfApplied
    <2>7. \A q \in DOMAIN ViewNow' \ DOMAIN ViewNow : q \in Ancestors(p) \union {p}
      BY <1>2, <2>1, <2>2 DEF HalfApplied
    <2>8. Promise!InPart(h)
      BY <2>3, <2>4, <2>5, <2>6, <2>7 DEF Promise!InPart, Promise!Exists, ViewNow,
         Promise!Front, Front
    <2>9. QED
      BY <1>2, <2>1, <2>8 DEF Promise!Next, Promise!Fail, StatusNow, EntryNow, AppliedNow, ViewNow,
                Promise!NoEntry, NoEntry
  <1>3. QED
    BY <1>1, <1>2

\* Reading a header is the step that takes an entry.
LEMMA PromiseTake ==
    ASSUME StatusNow = "applying", EntryNow = NoEntry, NEW h \in Layer,
           EntryNow' = [type |-> h.type, name |-> h.name, link |-> h.link],
           UNCHANGED <<ViewNow, unpackedPaths, AppliedNow, StatusNow>>
    PROVE  Promise!Next
  BY DEF Promise!Next, Promise!Take, StatusNow, EntryNow, AppliedNow, ViewNow,
         Promise!NoEntry, NoEntry

\* A header of metadata counts as applied and changes nothing.
LEMMA PromisePassOver ==
    ASSUME StatusNow = "applying", EntryNow = NoEntry, NEW h \in Layer,
           h.type \in {"meta", "plnk"}, AppliedNow' = AppliedNow + 1,
           UNCHANGED <<ViewNow, EntryNow, unpackedPaths, StatusNow>>
    PROVE  Promise!Next
  BY DEF Promise!Next, Promise!PassOver, Promise!Ignored, StatusNow, EntryNow, AppliedNow, ViewNow,
         Promise!NoEntry, NoEntry

\* The end of the layer with no entry at hand is LayerView's finish.
LEMMA PromiseFinish ==
    ASSUME StatusNow = "applying", StatusNow' = "applied", EntryNow = NoEntry,
           UNCHANGED <<ViewNow, EntryNow, unpackedPaths, AppliedNow>>
    PROVE  Promise!Next
  BY DEF Promise!Next, Promise!Finish, StatusNow, EntryNow, AppliedNow, ViewNow,
         Promise!NoEntry, NoEntry

\* A file removed by another process between entries is LayerView's loss.
LEMMA PromiseLose ==
    ASSUME MaxRemovals > 0, EntryNow = NoEntry,
           UNCHANGED <<EntryNow, unpackedPaths, AppliedNow, StatusNow>>,
           NEW p \in DOMAIN ViewNow \ DOMAIN ViewNow',
           ViewNow' = KeepIn(ViewNow, OutsideIn(ViewNow, p), << >>)
    PROVE  Promise!Next
  <1>1. /\ Promise!Outside(p) = OutsideIn(ViewNow, p)
        /\ Promise!Keep(OutsideIn(ViewNow, p), << >>) = KeepIn(ViewNow, OutsideIn(ViewNow, p), << >>)
    BY PromiseNow
  <1>2. Promise!Lose
    BY <1>1 DEF Promise!Lose, StatusNow, EntryNow, AppliedNow, ViewNow, Promise!NoEntry, NoEntry
  <1>3. QED
    BY <1>2 DEF Promise!Next

\* An entry put at its place, with its path recorded, is LayerView's Put.
LEMMA PromisePut ==
    ASSUME NEW h, NEW p, p = PlaceWith(ViewNow, h.name),
           PutAs(ViewNow, ViewNow', h, p, AppliedNow + 1),
           NEW path \in {h.name, p}, unpackedPaths' = unpackedPaths \union {path}
    PROVE  Promise!Put(h)
  <1>1. /\ Promise!Place(h.name) = p /\ Promise!Cleared(p) = ClearedIn(ViewNow, p)
        /\ Promise!Parents(p) = Ancestors(p) /\ Promise!ADir = ADir /\ Promise!NoLink = NoLink
    BY PromiseNow, PromisePaths
  <1>2. Promise!Reachable(p) <=> Reaches(ViewNow, p)
    BY <1>1, PromisePaths DEF Promise!Reachable, Reaches, ViewNow
  <1>3. \A look : ViewNow' = ReplacedIn(ViewNow, p, look) => Promise!Replace(p, look)
    BY <1>1 DEF Promise!Replace, ReplacedIn, ViewNow
  <1>4. \A kind, link : Promise!Fresh(kind, link, p) = FreshIn(kind, link, p, AppliedNow + 1)
    BY DEF Promise!Fresh, FreshIn, AppliedNow
  <1>5. Promise!IsDir(ViewNow, p) <=> IsDir(ViewNow, p)
    BY PromisePaths
  <1>6. \/ Promise!PutDir(h) \/ Promise!PutFile(h) \/ Promise!PutSymlink(h)
        \/ Promise!PutDevice(h) \/ Promise!PutLink(h)
    <2>1. CASE h.type = "dir" /\ Reaches(ViewNow, p) /\ IsDir(ViewNow, p) /\ ViewNow' = ViewNow
      BY <1>1, <1>2, <1>5, <2>1 DEF Promise!PutDir, ViewNow
    <2>2. CASE /\ h.type = "dir" /\ Reaches(ViewNow, p) /\ ~IsDir(ViewNow, p)
               /\ ViewNow' = ReplacedIn(ViewNow, p, ADir)
      BY <1>1, <1>2, <1>3, <1>5, <2>2 DEF Promise!PutDir, ViewNow
    <2>3. CASE /\ h.type \in {"reg", "plink"} /\ Reaches(ViewNow, p)
               /\ ViewNow' = ReplacedIn(ViewNow, p, FreshIn("reg", NoLink, p, AppliedNow + 1))
      BY <1>1, <1>2, <1>3, <1>4, <2>3 DEF Promise!PutFile
    <2>4. CASE /\ h.type = "sym" /\ Reaches(ViewNow, p)
               /\ ViewNow' = ReplacedIn(ViewNow, p, FreshIn("sym", h.link, p, AppliedNow + 1))
      BY <1>1, <1>2, <1>3, <1>4, <2>4 DEF Promise!PutSymlink
    <2>5. CASE h.type = "dev" /\ InUserNS /\ Reaches(ViewNow, p) /\ ViewNow' = ClearedIn(ViewNow, p)
      BY <1>1, <1>2, <2>5, ExtractAssumption DEF Promise!PutDevice, ViewNow
    <2>6. CASE h.type = "dev" /\ InUserNS /\ ~Reaches(ViewNow, p) /\ ViewNow' = ViewNow
      BY <1>1, <1>2, <2>6, ExtractAssumption DEF Promise!PutDevice, ViewNow
    <2>7. CASE /\ h.type = "dev" /\ ~InUserNS /\ Reaches(ViewNow, p)
               /\ ViewNow' = ReplacedIn(ViewNow, p, FreshIn("dev", NoLink, p, AppliedNow + 1))
      <3>1. Promise!Replace(p, Promise!Fresh("dev", Promise!NoLink, p))
        BY <1>1, <1>3, <1>4, <2>7
      <3>2. QED
        BY <1>1, <1>2, <3>1, <2>7, ExtractAssumption DEF Promise!PutDevice
    <2>8. CASE h.type = "link" /\ Reaches(ViewNow, p) /\ LinkIn(ViewNow, ViewNow', p, h.link.to, AppliedNow + 1)
      <3>1. PICK c : c = ClearedIn(ViewNow, p)
        OBVIOUS
      <3>2. PICK t : /\ t = PlaceWith(c, h.link.to) /\ ~LeavesBelow(c, Front(h.link.to))
                     /\ t \in DOMAIN c /\ ~IsDir(c, t)
                     /\ ViewNow' = ReplacedIn(ViewNow, p, [ViewNow[t] EXCEPT !.by = AppliedNow + 1])
        BY <2>8, <3>1 DEF LinkIn
      <3>3. /\ Promise!PlaceIn(c, h.link.to) = t /\ ~Promise!LeavesRootOf(c, h.link.to)
            /\ Promise!Exists(c, t) /\ ~Promise!IsDir(c, t)
        BY <3>2, PromisePlaces, PromisePaths
      <3>4. Promise!Replace(p, [ViewNow[t] EXCEPT !.by = AppliedNow + 1])
        BY <1>3, <3>2
      <3>5. QED
        BY <1>1, <1>2, <2>8, <3>1, <3>3, <3>4 DEF Promise!PutLink, ViewNow, AppliedNow
    <2>9. QED
      BY <2>1, <2>2, <2>3, <2>4, <2>5, <2>6, <2>7, <2>8 DEF PutAs
  <1>7. QED
    BY <1>1, <1>6 DEF Promise!Put

\* What an opaque whiteout does to the view.
StayOf(v, d) == {q \in DOMAIN v : Below(d, q) /\ (IsDir(v, q) \/ v[q].by > 0)}
LowerHiddenAs(v, w, d, last, listed) ==
    \E stay \in SUBSET StayOf(v, d) :
        /\ stay = {q \in DOMAIN w : Below(d, q)}
        /\ \A q \in StayOf(v, d) :
              (\A i \in Len(d)+1..Len(q) : SubSeq(q, 1, i) \in listed) => q \in stay
        /\ \A q \in stay : Front(q) \in stay \union {d}
        /\ w = KeepIn(v, {q \in DOMAIN v : ~Below(d, q)} \union stay, Append(d, last))

\* An opaque whiteout that went well is LayerView's HideLower.
LEMMA PromiseHideLower ==
    ASSUME NEW h, h.type = "opaque", NEW d, d = DirWith(ViewNow, Front(h.name)),
           LowerHiddenAs(ViewNow, ViewNow', d, Last(h.name), unpackedPaths)
    PROVE  Promise!HideLower(h)
  <1>1. PICK stay \in SUBSET StayOf(ViewNow, d) :
           /\ stay = {q \in DOMAIN ViewNow' : Below(d, q)}
           /\ \A q \in StayOf(ViewNow, d) :
                 (\A i \in Len(d)+1..Len(q) : SubSeq(q, 1, i) \in unpackedPaths) => q \in stay
           /\ \A q \in stay : Front(q) \in stay \union {d}
           /\ ViewNow' = KeepIn(ViewNow, {q \in DOMAIN ViewNow : ~Below(d, q)} \union stay,
                                Append(d, Last(h.name)))
    BY DEF LowerHiddenAs
  <1>2. /\ Promise!DirAt(Front(h.name)) = d
        /\ Promise!Front(h.name) = Front(h.name) /\ Promise!Last(h.name) = Last(h.name)
        /\ \A s, p : Promise!Keep(s, p) = KeepIn(ViewNow, s, p)
    BY PromiseNow, PromisePaths
  <1>3. \A q : /\ Promise!Front(q) = Front(q) /\ (Promise!Below(d, q) <=> Below(d, q))
               /\ (Promise!IsDir(ViewNow, q) <=> IsDir(ViewNow, q))
    BY PromisePaths
  <1>4. Promise!MayStay(d) = StayOf(ViewNow, d)
    BY <1>3 DEF Promise!MayStay, StayOf, ViewNow
  <1>5. Promise!Listed(d) \subseteq stay
    BY <1>1, <1>4 DEF Promise!Listed
  <1>6. {q \in DOMAIN ViewNow' : Promise!Below(d, q)} = stay
    BY <1>1, <1>3
  <1>7. {q \in DOMAIN ViewNow : ~Promise!Below(d, q)} = {q \in DOMAIN ViewNow : ~Below(d, q)}
    BY <1>3
  <1>8. PICK rest, spot : /\ rest = {q \in DOMAIN ViewNow : ~Below(d, q)}
                          /\ spot = Append(d, Last(h.name))
    OBVIOUS
  <1>9. ViewNow' = Promise!Keep(rest \union stay, spot)
    BY <1>1, <1>2, <1>8
  <1>10. stay \subseteq Promise!MayStay(d) /\ \A q \in stay : Promise!Front(q) \in stay \union {d}
    BY <1>1, <1>3, <1>4
  <1>11. /\ {q \in DOMAIN ViewNow' : Promise!Below(Promise!DirAt(Promise!Front(h.name)), q)} = stay
         /\ {q \in DOMAIN ViewNow : ~Promise!Below(Promise!DirAt(Promise!Front(h.name)), q)} = rest
    BY <1>2, <1>6, <1>7, <1>8
  <1>12. QED
    BY <1>2, <1>5, <1>8, <1>9, <1>10, <1>11 DEF Promise!HideLower, ViewNow

\* An entry is done.
EntryDone(h) ==
    \/ h.type \in {"meta", "plnk"} /\ UNCHANGED <<ViewNow, unpackedPaths>>
    \/ /\ h.type \notin {"meta", "plnk"} /\ ~LeavesBelow(ViewNow, Front(h.name))
       /\ \/ \E p, path : /\ p = PlaceWith(ViewNow, h.name)
                          /\ PutAs(ViewNow, ViewNow', h, p, AppliedNow + 1)
                          /\ path \in {h.name, p} /\ unpackedPaths' = unpackedPaths \union {path}
          \/ /\ h.type = "white" /\ UNCHANGED unpackedPaths
             /\ ViewNow' = ClearedIn(ViewNow, PlaceWith(ViewNow, h.name))
          \/ /\ h.type = "opaque" /\ UNCHANGED unpackedPaths
             /\ LowerHiddenAs(ViewNow, ViewNow', DirWith(ViewNow, Front(h.name)), Last(h.name),
                              unpackedPaths)

\* An entry done is LayerView's Apply.
LEMMA PromiseApply ==
    ASSUME StatusNow = "applying", EntryNow # NoEntry, EntryNow' = NoEntry,
           AppliedNow' = AppliedNow + 1, UNCHANGED StatusNow, EntryDone(EntryNow)
    PROVE  Promise!Next
  <1>1. PICK h : h = EntryNow
    OBVIOUS
  <1>2. CASE h.type \in {"meta", "plnk"} /\ UNCHANGED <<ViewNow, unpackedPaths>>
    <2>1. Promise!Ignored(h)
      BY <1>2 DEF Promise!Ignored
    <2>2. Promise!Apply
      BY <1>1, <1>2, <2>1 DEF Promise!Apply, StatusNow, EntryNow, AppliedNow, ViewNow,
             Promise!NoEntry, NoEntry
    <2>3. QED
      BY <2>2 DEF Promise!Next
  <1>3. CASE h.type \notin {"meta", "plnk"} /\ ~LeavesBelow(ViewNow, Front(h.name))
    <2>1. ~Promise!Ignored(h) /\ ~Promise!LeavesRoot(h.name)
      BY <1>3, PromiseNow DEF Promise!Ignored
    <2>2. Promise!Put(h) \/ ((Promise!Hide(h) \/ Promise!HideLower(h)) /\ UNCHANGED unpackedPaths)
      <3>1. CASE \E p, path : /\ p = PlaceWith(ViewNow, h.name)
                              /\ PutAs(ViewNow, ViewNow', h, p, AppliedNow + 1)
                              /\ path \in {h.name, p}
                              /\ unpackedPaths' = unpackedPaths \union {path}
        BY <3>1, PromisePut
      <3>2. CASE /\ h.type = "white" /\ UNCHANGED unpackedPaths
                 /\ ViewNow' = ClearedIn(ViewNow, PlaceWith(ViewNow, h.name))
        <4>1. Promise!Cleared(Promise!Place(h.name)) = ClearedIn(ViewNow, PlaceWith(ViewNow, h.name))
          BY PromiseNow
        <4>2. QED
          BY <3>2, <4>1 DEF Promise!Hide, ViewNow
      <3>3. CASE /\ h.type = "opaque" /\ UNCHANGED unpackedPaths
                 /\ LowerHiddenAs(ViewNow, ViewNow', DirWith(ViewNow, Front(h.name)), Last(h.name),
                                  unpackedPaths)
        BY <3>3, PromiseHideLower
      <3>4. QED
        BY <1>1, <1>3, <3>1, <3>2, <3>3 DEF EntryDone
    <2>3. Promise!Apply
      BY <1>1, <2>1, <2>2 DEF Promise!Apply, StatusNow, EntryNow, AppliedNow, ViewNow,
             Promise!NoEntry, NoEntry
    <2>4. QED
      BY <2>3 DEF Promise!Next
  <1>4. QED
    BY <1>1, <1>2, <1>3 DEF EntryDone

-----------------------------------------------------------------------------
(***************************************************************************)
(* The entry's place, as the view sees it.                                 *)
(***************************************************************************)
\* Neither the entry's place nor the way to it lies in the temporary directory.
LEMMA CleanPlace ==
    ASSUME NEW dir \in Seq(Name), dir \in Seq(Spared), NEW last \in Spared,
           NEW p, p = Append(dir, last)
    PROVE  Unhidden(dir, last, p, <<TempName>>)
  <1>1. p \in Seq(Spared)
    OBVIOUS
  <1>2. \A q \in Ancestors(p) : q \in Seq(Spared)
    <2>1. SUFFICES ASSUME NEW q \in Ancestors(p) PROVE q \in Seq(Spared)
      OBVIOUS
    <2>2. \A s \in Ancestors(p) : StartOf(dir, s)
      BY AncestorsOf
    <2>3. PICK i \in 1..Len(dir) : q = SubSeq(dir, 1, i)
      BY <2>1, <2>2 DEF StartOf
    <2>4. QED
      BY <2>3
  <1>3. QED
    BY <1>1, <1>2, SparedPath DEF Unhidden

-----------------------------------------------------------------------------
\* The entry that is being applied, and its place in the view.
EntryIs ==
    /\ InEntry /\ StatusNow = "applying" /\ n \in Nat /\ AppliedNow + 1 = n
    /\ EntryNow # NoEntry /\ ViewNow = Visible(base)
    /\ EntryNow.type = hdr.type /\ EntryNow.name = hdr.name /\ EntryNow.link = hdr.link
PlaceIs ==
    /\ DirWith(ViewNow, Front(hdr.name)) = Dir /\ PlaceWith(ViewNow, hdr.name) = Spot
    /\ ~LeavesBelow(ViewNow, Front(hdr.name))
    /\ Unhidden(Dir, Last(hdr.name), Spot, <<TempName>>)

\* The entry of the view is the header being applied.
LEMMA EntryKnown ==
    ASSUME IInv, ViewInv, InEntry
    PROVE  EntryIs
  <1>. USE Parts
  <1>1. pc \notin {"cleanup", "done"} /\ err = "ok" /\ n \in Nat
    BY DEF InEntry, ViewInv, Going, CountersOK
  <1>2. PICK h : h = [type |-> hdr.type, name |-> hdr.name, link |-> hdr.link] /\ h = EntryNow
    BY DEF EntryNow
  <1>3. h.type = hdr.type /\ h.name = hdr.name /\ h.link = hdr.link
    BY <1>2
  <1>4. h.type \in EntryType
    BY <1>3 DEF EntryOK, Header
  <1>5. NoEntry.type = "none"
    BY DEF NoEntry
  <1>6. h # NoEntry
    BY <1>4, <1>5 DEF EntryType
  <1>7. QED
    BY <1>1, <1>2, <1>3, <1>6 DEF EntryIs, StatusNow, AppliedNow, ViewNow

\* The entry's place in the view at its reading is the path the code resolved.
LEMMA PlaceKnown ==
    ASSUME IInv, Apart, ViewInv, OnItsWay
    PROVE  PlaceIs /\ SpotOK /\ PresentOK /\ AbsentOK /\ InEntry
  <1>. USE Parts
  <1>1. InEntry /\ SpotOK /\ PresentOK /\ AbsentOK
    BY ApartParts, SpotType DEF OnItsWay, InEntry, ViewInv
  <1>2. PICK name, front, dir, last : /\ name = hdr.name /\ front = Front(name) /\ dir = Dir
                                      /\ last = Last(name)
    OBVIOUS
  <1>3. /\ name \in Seq(Spared) /\ name # << >> /\ front \in Seq(Part)
        /\ dir \in Seq(Name) /\ Spot = Append(dir, last)
    BY <1>1, <1>2 DEF SpotOK, Spot
  <1>4. LinksWithin(base, Spared) /\ ViewNow = Visible(base)
    BY <1>1 DEF ViewInv, FromBase, ViewNow
  <1>5. dir = Walk(base, front, TRUE, TRUE).at
    BY <1>2 DEF Dir, Way
  <1>6. /\ DirWith(ViewNow, front) = dir
        /\ LeavesBelow(ViewNow, front) <=> LeavesBelow(base, front)
    <2>1. PICK hidden, tr : hidden = <<TempName>> /\ tr = base
      OBVIOUS
    <2>2. /\ IsTree(tr) /\ LinksWithin(tr, Spared) /\ Spares(tr, Spared, hidden)
          /\ name \in Seq(Spared) /\ name # << >> /\ Front(name) \in Seq(Part)
      BY <1>2, <1>3, <1>4, <2>1, SparedHidden
    <2>3. DirWith(ViewLess(tr, hidden), Front(name)) = Walk(tr, Front(name), TRUE, TRUE).at
      BY <2>2, ViewPlaces, ZenonT(30)
    <2>4. LeavesBelow(ViewLess(tr, hidden), Front(name)) <=> LeavesBelow(tr, Front(name))
      BY <2>2, ViewPlaces, ZenonT(30)
    <2>5. ViewNow = ViewLess(tr, hidden)
      BY <1>4, <2>1, VisibleIs
    <2>6. QED
      BY <1>2, <1>5, <2>1, <2>3, <2>4, <2>5
  <1>7. ~LeavesBelow(base, front)
    BY <1>2 DEF ViewInv, FromBase, ResolvedAs
  <1>8. PlaceWith(ViewNow, name) = Spot
    BY <1>2, <1>3, <1>6 DEF PlaceWith
  <1>9. front \in Seq(Spared) /\ last \in Spared
    BY <1>2, <1>3, FrontProperties DEF Last
  <1>10. dir \in Seq(Spared)
    <2>1. PICK yes \in BOOLEAN : yes = TRUE
      OBVIOUS
    <2>2. Walk(base, front, yes, yes).at \in Seq(Spared)
      BY <1>3, <1>4, <1>9, WalkWithin
    <2>3. QED
      BY <1>5, <2>1, <2>2
  <1>11. Unhidden(dir, last, Spot, <<TempName>>)
    BY <1>3, <1>9, <1>10, CleanPlace
  <1>12. PlaceIs
    BY <1>2, <1>6, <1>7, <1>8, <1>11 DEF PlaceIs
  <1>13. QED
    BY <1>1, <1>12

\* The entry fails.
LEMMA FailsSeen ==
    ASSUME IInv, Apart, ViewInv, OnItsWay, NEW e, e # "ok", Return(e), UNCHANGED unpackedPaths,
           Around(base, tree', IF hdr.type = "opaque" THEN Dir ELSE Spot),
           hdr.type \notin {"meta", "plnk"}
    PROVE  Promise!Next
  <1>1. EntryIs /\ PlaceIs
    BY EntryKnown, PlaceKnown
  <1>2. PICK p : p = IF hdr.type = "opaque" THEN Dir ELSE Spot
    OBVIOUS
  <1>3. /\ StatusNow' = "failed" /\ EntryNow' = NoEntry /\ AppliedNow' = 0
        /\ ViewNow' = Visible(tree')
    BY DEF Return, StatusNow, EntryNow, AppliedNow, ViewNow, InEntry
  <1>4. AroundIn(Visible(base), Visible(tree'), p)
    BY <1>2, AroundSeen, VisibleIs
  <1>5. p = PartOf(ViewNow, EntryNow)
    BY <1>1, <1>2 DEF EntryIs, PlaceIs, PartOf
  <1>6. HalfApplied(ViewNow, ViewNow', EntryNow)
    BY <1>1, <1>3, <1>4, <1>5 DEF HalfApplied, AroundIn, EntryIs, PlaceIs
  <1>7. QED
    BY <1>1, <1>3, <1>6, PromiseFail DEF EntryIs

\* The entry is done.
DoneAs(v, w, h) ==
    \/ /\ PutAs(v, w, h, Spot, n)
       /\ \E path \in {h.name, Spot} : unpackedPaths' = unpackedPaths \union {path}
    \/ h.type = "white" /\ UNCHANGED unpackedPaths /\ w = ClearedIn(v, Spot)
    \/ /\ h.type = "opaque" /\ UNCHANGED unpackedPaths
       /\ LowerHiddenAs(v, w, Dir, Last(h.name), unpackedPaths)

\* A step that ends an entry as LayerView asks is a step of LayerView.
LEMMA DoneSeen ==
    ASSUME IInv, Apart, ViewInv, OnItsWay, Continue, UNCHANGED <<err, n>>,
           hdr.type \notin {"meta", "plnk"},
           DoneAs(Visible(base), Visible(tree'), hdr)
    PROVE  Promise!Next
  <1>1. EntryIs /\ PlaceIs
    BY EntryKnown, PlaceKnown
  <1>2. /\ StatusNow' = StatusNow /\ EntryNow' = NoEntry /\ AppliedNow' = n
        /\ ViewNow' = Visible(tree')
    BY <1>1 DEF Continue, StatusNow, EntryNow, AppliedNow, ViewNow, InEntry, EntryIs
  <1>3. PICK h, v, w, p : /\ h = EntryNow /\ v = ViewNow /\ w = ViewNow'
                          /\ p = Spot /\ p = PlaceWith(v, h.name) /\ w = Visible(tree')
                          /\ v = Visible(base)
                          /\ h.type = hdr.type /\ h.name = hdr.name /\ h.link = hdr.link
    BY <1>1, <1>2 DEF EntryIs, PlaceIs
  <1>4. n = AppliedNow + 1 /\ AppliedNow' = AppliedNow + 1
    BY <1>1, <1>2 DEF EntryIs
  <1>5. h.type \notin {"meta", "plnk"} /\ ~LeavesBelow(v, Front(h.name))
        /\ DirWith(v, Front(h.name)) = Dir
    BY <1>1, <1>3 DEF PlaceIs
  <1>6. CASE /\ PutAs(v, w, hdr, Spot, n)
             /\ \E path \in {hdr.name, Spot} : unpackedPaths' = unpackedPaths \union {path}
    <2>1. PutAs(v, w, h, p, AppliedNow + 1)
      BY <1>3, <1>4, <1>6 DEF PutAs
    <2>2. EntryDone(h)
      BY <1>3, <1>5, <1>6, <2>1 DEF EntryDone
    <2>3. QED
      BY <1>1, <1>2, <1>3, <1>4, <2>2, PromiseApply DEF EntryIs
  <1>7. CASE hdr.type = "white" /\ UNCHANGED unpackedPaths /\ w = ClearedIn(v, Spot)
    <2>1. EntryDone(h)
      BY <1>3, <1>5, <1>7 DEF EntryDone
    <2>2. QED
      BY <1>1, <1>2, <1>3, <1>4, <2>1, PromiseApply DEF EntryIs
  <1>8. CASE /\ hdr.type = "opaque" /\ UNCHANGED unpackedPaths
             /\ LowerHiddenAs(v, w, Dir, Last(hdr.name), unpackedPaths)
    <2>1. LowerHiddenAs(v, w, DirWith(v, Front(h.name)), Last(h.name), unpackedPaths)
      BY <1>3, <1>5, <1>8
    <2>2. EntryDone(h)
      BY <1>3, <1>5, <1>8, <2>1 DEF EntryDone
    <2>3. QED
      BY <1>1, <1>2, <1>3, <1>4, <2>2, PromiseApply DEF EntryIs
  <1>9. QED
    BY <1>3, <1>6, <1>7, <1>8 DEF DoneAs

\* What the view sees of a step that stays on the way to an entry: nothing.
LEMMA OnwardSeen ==
    ASSUME InEntry, InEntry', UNCHANGED <<base, hdr, n, unpackedPaths, err>>
    PROVE  UNCHANGED LayerVars
  <1>1. pc \notin {"cleanup", "done"} /\ pc' \notin {"cleanup", "done"}
    BY DEF InEntry
  <1>2. QED
    BY <1>1 DEF LayerVars, ViewNow, EntryNow, AppliedNow, StatusNow

\* On the way nothing but directories on the way were made.
AroundPart(old, new, dir, spot, type) == Around(old, new, IF type = "opaque" THEN dir ELSE spot)

\* Directories made on the way are part of any entry half applied.
LEMMA OnlyWayPart ==
    ASSUME NEW old, NEW new, NEW dir \in Seq(Name), NEW last, NEW p, p = Append(dir, last),
           OnlyWay(old, new, p)
    PROVE  \A type : AroundPart(old, new, dir, p, type)
  <1>1. Around(old, new, p)
    BY OnlyWayAround
  <1>2. Around(old, new, dir)
    <2>1. Ancestors(p) \subseteq Ancestors(dir) \union {dir}
      BY AncestorsOf
    <2>2. QED
      BY <2>1 DEF OnlyWay, Around
  <1>3. QED
    BY <1>1, <1>2 DEF AroundPart

\* An error on the way to the entry's place is LayerView's failure.
LEMMA WayFails ==
    ASSUME IInv, Apart, ViewInv, pc \in {"implied", "apply"}, NEW e, e # "ok", Return(e),
           UNCHANGED <<tree, unpackedPaths>>
    PROVE  Promise!Next
  <1>1. OnItsWay /\ hdr.type \notin {"meta", "plnk"}
    BY DEF OnItsWay, IInv, Dispatched
  <1>2. SpotOK
    BY <1>1, PlaceKnown
  <1>3. PICK old, new, dir, spot, last, type :
           /\ old = base /\ new = tree /\ dir = Dir /\ spot = Spot /\ last = Last(hdr.name)
           /\ type = hdr.type
    OBVIOUS
  <1>4. OnlyWay(old, new, spot) /\ spot = Append(dir, last) /\ dir \in Seq(Name)
    BY <1>2, <1>3 DEF ViewInv, WayMade, Spot, SpotOK
  <1>5. AroundPart(old, new, dir, spot, type)
    BY <1>4, OnlyWayPart
  <1>6. Around(base, tree', IF hdr.type = "opaque" THEN Dir ELSE Spot)
    BY <1>3, <1>5 DEF AroundPart
  <1>7. QED
    BY <1>1, <1>6, FailsSeen

\* The steps up to the clearing of the entry's place are stutters of LayerView, or its failure.
LEMMA ImpliedSteps ==
    ASSUME IInv, Apart, TimesInv, ViewInv, SkipImplied \/ StartImplied \/ MakeImplied \/ ImpliedMade \/ Clear
    PROVE  [Promise!Next]_LayerVars
  <1>. USE Parts
  <1>1. CASE SkipImplied \/ ImpliedMade \/ Clear
    <2>1. InEntry /\ InEntry' /\ UNCHANGED <<base, hdr, n, unpackedPaths, err>>
      BY <1>1 DEF SkipImplied, ImpliedMade, Clear, InEntry, entry, local
    <2>2. QED
      BY <2>1, OnwardSeen
  <1>2. CASE StartImplied
    <2>1. pc = "implied" /\ InEntry /\ UNCHANGED <<tree, base, hdr, n, unpackedPaths>>
      BY <1>2 DEF StartImplied, InEntry, local
    <2>2. CASE UNCHANGED <<pc, err>>
      BY <2>1, <2>2, OnwardSeen DEF InEntry
    <2>3. CASE ~UNCHANGED <<pc, err>>
      <3>1. PICK e : e = Lstat(tree, Parent).err /\ Return(e)
        BY <1>2, <2>3 DEF StartImplied
      <3>2. e # "ok"
        BY <1>2, <3>1 DEF StartImplied, ParentThere
      <3>3. QED
        BY <2>1, <3>1, <3>2, WayFails
    <2>4. QED
      BY <2>2, <2>3
  <1>3. CASE MakeImplied
    <2>1. PICK out : out = mkdirImplied(tree, SubSeq(Parent, 1, k), hdr)
      OBVIOUS
    <2>2. /\ pc = "implied" /\ InEntry /\ UNCHANGED <<base, hdr, n, unpackedPaths>>
          /\ tree' = out.tree
      BY <1>3, <2>1 DEF MakeImplied, InEntry, local
    <2>3. CASE out.err = "ok"
      <3>1. UNCHANGED <<pc, err>>
        BY <1>3, <2>1, <2>3 DEF MakeImplied
      <3>2. QED
        BY <2>2, <3>1, OnwardSeen DEF InEntry
    <2>4. CASE out.err # "ok"
      <3>1. PICK e : e = out.err /\ e # "ok" /\ Return(e)
        BY <1>3, <2>1, <2>4 DEF MakeImplied
      <3>2. out.tree = tree
        BY <2>1, <2>4, ImpliedSeen
      <3>3. QED
        BY <2>2, <3>1, <3>2, WayFails
    <2>5. QED
      BY <2>3, <2>4
  <1>4. QED
    BY <1>1, <1>2, <1>3

\* Reading a header is a step of LayerView.
LEMMA ReadSeen ==
    ASSUME IInv, ViewInv, NEW h \in Layer, Read(h)
    PROVE  [Promise!Next]_LayerVars
  <1>. USE Parts
  <1>1. PICK header, resolved :
           /\ header = [type |-> h.type, name |-> h.name, link |-> h.link,
                        owner |-> h.owner, time |-> n + 1, by |-> n + 1]
           /\ resolved = resolveArchivePath(tree, h.name)
    OBVIOUS
  <1>2. /\ pc = "read" /\ base' = tree /\ tree' = tree /\ n' = n + 1 /\ n \in Nat
        /\ UNCHANGED unpackedPaths /\ err = "ok"
    BY DEF Read, local, CountersOK, ViewInv, Going
  <1>3. /\ StatusNow = "applying" /\ EntryNow = NoEntry /\ AppliedNow = n /\ ViewNow = Visible(tree)
    BY <1>2 DEF StatusNow, EntryNow, AppliedNow, ViewNow, InEntry
  <1>4. CASE h.type = "meta" /\ Continue /\ UNCHANGED err
    <2>1. /\ AppliedNow' = AppliedNow + 1 /\ EntryNow' = EntryNow /\ StatusNow' = StatusNow
          /\ ViewNow' = ViewNow
      BY <1>2, <1>3, <1>4 DEF Continue, StatusNow, EntryNow, AppliedNow, ViewNow, InEntry
    <2>2. QED
      BY <1>2, <1>3, <1>4, <2>1, PromisePassOver
  <1>5. CASE h.type \notin {"meta", "plnk"} /\ resolved.err # "ok" /\ Return(resolved.err)
    <2>1. /\ StatusNow' = "failed" /\ EntryNow' = NoEntry /\ AppliedNow' = 0 /\ ViewNow' = ViewNow
      BY <1>2, <1>3, <1>5 DEF Return, StatusNow, EntryNow, AppliedNow, ViewNow, InEntry
    <2>2. QED
      BY <1>2, <1>3, <2>1, PromiseFail
  <1>6. CASE pc' \in {"plnk", "implied"} /\ hdr' = header /\ UNCHANGED err
    <2>1. hdr'.type = h.type /\ hdr'.name = h.name /\ hdr'.link = h.link
      BY <1>1, <1>6
    <2>2. InEntry' /\ pc' \notin {"cleanup", "done"}
      BY <1>6 DEF InEntry
    <2>3. EntryNow' = [type |-> h.type, name |-> h.name, link |-> h.link]
      BY <2>1, <2>2 DEF EntryNow
    <2>4. ViewNow' = ViewNow /\ StatusNow' = StatusNow /\ AppliedNow' = AppliedNow
      BY <1>2, <1>3, <1>6, <2>2 DEF StatusNow, AppliedNow, ViewNow
    <2>5. QED
      BY <1>2, <1>3, <2>3, <2>4, PromiseTake
  <1>7. QED
    BY <1>1, <1>4, <1>5, <1>6 DEF Read

\* The steps after the last entry.
LEMMA EndSeen ==
    ASSUME IInv, ViewInv, EndOfArchive \/ RestoreTime \/ TimesRestored
    PROVE  [Promise!Next]_LayerVars
  <1>. USE Parts
  <1>1. /\ pc \in {"read", "times"} /\ err = "ok"
    BY DEF EndOfArchive, RestoreTime, TimesRestored, ViewInv, Going
  <1>2. /\ StatusNow = "applying" /\ EntryNow = NoEntry /\ AppliedNow = n /\ ViewNow = Visible(tree)
    BY <1>1 DEF StatusNow, EntryNow, AppliedNow, ViewNow, InEntry
  <1>3. CASE EndOfArchive
    <2>1. pc' = "times" /\ UNCHANGED <<tree, n, unpackedPaths, err>>
      BY <1>3 DEF EndOfArchive, local
    <2>2. UNCHANGED LayerVars
      BY <1>1, <2>1 DEF LayerVars, ViewNow, EntryNow, AppliedNow, StatusNow, InEntry
    <2>3. QED
      BY <2>2
  <1>4. CASE RestoreTime
    <2>1. PICK stat, time, out : /\ stat = Stat(tree, dirs[k].name) /\ time = DirTime
                                 /\ out = SetTime(tree, stat, time)
      OBVIOUS
    <2>2. /\ tree' = out.tree /\ pc = "times" /\ UNCHANGED <<n, unpackedPaths>>
          /\ \/ out.err = "ok" /\ UNCHANGED <<pc, err>>
             \/ out.err # "ok" /\ Return(out.err)
      BY <1>4, <2>1 DEF RestoreTime, chtimes, local
    <2>3. SeenSame(tree, out.tree)
      <3>1. CASE stat.err = "ok"
        <4>1. out.tree = SetMeta(tree, stat.at, tree[stat.at].owner, time)
          BY <2>1, <3>1 DEF SetTime, Outcome
        <4>2. QED
          BY <4>1, SetMetaSeen
      <3>2. CASE stat.err # "ok"
        <4>1. out.tree = tree
          BY <2>1, <3>2 DEF SetTime, Outcome
        <4>2. QED
          BY <4>1 DEF SeenSame
      <3>3. QED
        BY <3>1, <3>2
    <2>4. Visible(tree') = Visible(tree)
      BY <2>2, <2>3, SameAlikeSeen, VisibleIs
    <2>5. CASE out.err = "ok" /\ UNCHANGED <<pc, err>>
      <3>1. UNCHANGED LayerVars
        BY <1>1, <2>2, <2>4, <2>5 DEF LayerVars, ViewNow, EntryNow, AppliedNow, StatusNow, InEntry
      <3>2. QED
        BY <3>1
    <2>6. CASE out.err # "ok" /\ Return(out.err)
      <3>1. /\ StatusNow' = "failed" /\ EntryNow' = NoEntry /\ AppliedNow' = 0 /\ ViewNow' = ViewNow
        BY <1>2, <2>4, <2>6 DEF Return, StatusNow, EntryNow, AppliedNow, ViewNow, InEntry
      <3>2. QED
        BY <1>2, <2>2, <3>1, PromiseFail
    <2>7. QED
      BY <2>2, <2>5, <2>6
  <1>5. CASE TimesRestored
    <2>1. Return("ok") /\ UNCHANGED <<tree, n, unpackedPaths>>
      BY <1>5 DEF TimesRestored, local
    <2>2. /\ StatusNow' = "applied" /\ EntryNow' = NoEntry /\ AppliedNow' = n /\ ViewNow' = Visible(tree)
      BY <2>1 DEF Return, StatusNow, EntryNow, AppliedNow, ViewNow, InEntry
    <2>3. QED
      BY <1>2, <2>1, <2>2, PromiseFinish
  <1>6. QED
    BY <1>3, <1>4, <1>5

\* The temporary directory goes, or parts of it, and nobody sees it.
LEMMA CleanupSeen ==
    ASSUME IInv, Removing
    PROVE  UNCHANGED LayerVars
  <1>. USE Parts
  <1>1. pc = "cleanup" /\ pc' \in {"cleanup", "done"} /\ UNCHANGED <<n, unpackedPaths, err>>
    BY RemovingTree
  <1>2. Visible(tree') = Visible(tree)
    <2>1. CASE tree' = tree
      BY <2>1
    <2>2. CASE tree' # tree
      <3>1. PICK q \in DOMAIN tree : Under(<<TempName>>, q) /\ tree' = RemoveTree(tree, q, Clock)
        BY <2>2, RemovingTree
      <3>2. SeenCut(tree, tree', q) /\ q \in Seq(Name)
        BY <3>1, CutSeen, TreePaths
      <3>3. \A p : Under(q, p) => Under(<<TempName>>, p)
        BY <3>1, <3>2 DEF Under
      <3>4. PICK hidden, old, new : hidden = <<TempName>> /\ old = tree /\ new = tree'
        OBVIOUS
      <3>5. ViewLess(new, hidden) = ViewLess(old, hidden)
        BY <3>1, <3>2, <3>3, <3>4, ViewCut
      <3>6. QED
        BY <3>4, <3>5, VisibleIs
    <2>3. QED
      BY <2>1, <2>2
  <1>3. QED
    BY <1>1, <1>2 DEF LayerVars, ViewNow, EntryNow, AppliedNow, StatusNow, InEntry

\* Another process removes something: so the view loses it.
LEMMA OtherSeen ==
    ASSUME BetweenEntries, IInv, RemovedByOther
    PROVE  [Promise!Next]_LayerVars
  <1>. USE Parts
  <1>1. /\ pc \in RemovedAt /\ removals < MaxRemovals
        /\ UNCHANGED <<pc, n, unpackedPaths, err>>
    BY DEF RemovedByOther, local
  <1>2. ~InEntry /\ ~InEntry'
    BY <1>1 DEF BetweenEntries, InEntry
  <1>3. PICK p \in DOMAIN tree \ {<< >>} : tree' = RemoveTree(tree, p, Clock)
    BY DEF RemovedByOther
  <1>4. SeenCut(tree, tree', p)
    BY <1>3, CutSeen
  <1>5. /\ EntryNow = NoEntry /\ ViewNow = Visible(tree) /\ ViewNow' = Visible(tree')
        /\ UNCHANGED <<EntryNow, AppliedNow, StatusNow>>
    BY <1>1, <1>2 DEF EntryNow, ViewNow, AppliedNow, StatusNow
  <1>6. p \in Seq(Name) /\ p # << >>
    BY <1>3, TreePaths
  <1>7. CASE Under(<<TempName>>, p)
    <2>1. \A q : Under(p, q) => Under(<<TempName>>, q)
      BY <1>6, <1>7 DEF Under
    <2>2. Visible(tree') = Visible(tree)
      <3>1. PICK hidden, old, new : hidden = <<TempName>> /\ old = tree /\ new = tree'
        OBVIOUS
      <3>2. ViewLess(new, hidden) = ViewLess(old, hidden)
        BY <1>4, <1>7, <2>1, <3>1, ViewCut
      <3>3. QED
        BY <3>1, <3>2, VisibleIs
    <2>3. QED
      BY <1>1, <1>5, <2>2 DEF LayerVars
  <1>8. CASE ~Under(<<TempName>>, p)
    <2>1. p \in DOMAIN Visible(tree) /\ p \notin DOMAIN Visible(tree')
      <3>1. Under(p, p)
        BY <1>6 DEF Under
      <3>2. p \notin DOMAIN tree'
        BY <1>4, <3>1 DEF SeenCut
      <3>3. QED
        BY <1>3, <1>8, <3>2, VisibleIs
    <2>2. ViewNow' = KeepIn(ViewNow, OutsideIn(ViewNow, p), << >>)
      BY <1>4, <1>5, ViewCut, VisibleIs
    <2>3. MaxRemovals > 0
      BY <1>1, UnpackLayerAssumption DEF CountersOK
    <2>4. QED
      BY <1>1, <1>5, <2>1, <2>2, <2>3, PromiseLose
  <1>9. QED
    BY <1>7, <1>8

\* After the return nothing LayerView sees changes.
LEMMA StutterSeen ==
    ASSUME Returned \/ UNCHANGED vars
    PROVE  UNCHANGED LayerVars
  BY DEF Returned, vars, entry, local, LayerVars, ViewNow, EntryNow, AppliedNow, StatusNow, InEntry

\* What lies in the temporary directory when it has been made.
LEMMA MadePlain ==
    ASSUME IInv, Apart, MakesTemp
    PROVE  /\ IsTree(TempMade) /\ TempPlain(TempMade)
           /\ SeenAlike(tree, TempMade, <<TempName>>)
  <1>. USE Parts
  <1>1. PICK made : made = TempMade
    OBVIOUS
  <1>2. IsTree(made)
    BY <1>1, TempMadeType DEF Extracted
  <1>3. TempPlain(tree)
    BY ApartParts DEF TreeApart
  <1>4. CASE made = tree
    BY <1>1, <1>2, <1>3, <1>4 DEF SeenAlike
  <1>5. CASE made = PutNode(tree, <<TempName>>, TempNode, Clock)
    <2>1. PICK at, node : at = <<TempName>> /\ node = TempNode
      OBVIOUS
    <2>2. Added(tree, at, node, made)
      BY <1>5, <2>1, PutNodeAlike
    <2>3. node.kind = "dir"
      BY <2>1 DEF TempNode, Node
    <2>4. TempPlain(made)
      BY <1>3, <2>2, <2>3 DEF Added, Alike, TempPlain
    <2>5. SeenPut(tree, made, at, node)
      BY <1>5, <2>1, PutSeen
    <2>6. Under(<<TempName>>, at)
      BY <2>1 DEF Under
    <2>7. SeenAlike(tree, made, <<TempName>>)
      BY <2>5, <2>6 DEF SeenPut, SeenAlike
    <2>8. QED
      BY <1>1, <1>2, <2>4, <2>7
  <1>6. QED
    BY <1>1, <1>4, <1>5 DEF TempMade

\* Where the file goes.
LEMMA PlnkPlace ==
    ASSUME IInv, pc = "plnk", NEW dir, dir = Front(PlnkPath)
    PROVE  /\ dir \in Seq(Name) /\ Len(dir) > 0 /\ dir[1] = TempName
  <1>. USE Parts
  <1>1. PICK name : name = hdr.name /\ hdr \in Header
    BY DEF EntryOK, InEntry
  <1>2. /\ name \in Seq(Name \union {Opq}) /\ name # << >> /\ Front(name) \in Seq(Name)
    BY <1>1 DEF Header, EntryName
  <1>3. PICK S : S = Name \union {Opq}
    OBVIOUS
  <1>4. /\ Front(<<TempName>> \o name) \in Seq(Name)
        /\ Front(<<TempName>> \o name) = <<TempName>> \o Front(name)
    BY <1>2, <1>3, FrontBelowTemp
  <1>5. PICK front \in Seq(Name), temp \in Seq(Name) : front = Front(name) /\ temp = <<TempName>>
    BY <1>2, TempPath
  <1>6. dir = temp \o front /\ Len(temp) = 1 /\ temp[1] = TempName
    BY <1>1, <1>4, <1>5 DEF PlnkPath
  <1>7. QED
    BY <1>5, <1>6

\* A path through the temporary directory.
LEMMA ThroughTemp ==
    ASSUME NEW tr, TempPlain(tr), NEW dir \in Seq(Name), Len(dir) > 0, dir[1] = TempName,
           NEW last
    PROVE  NoLinks(tr, dir) /\ Under(<<TempName>>, Append(dir, last))
  <1>1. ASSUME NEW i \in 1..Len(dir)
        PROVE  Under(<<TempName>>, SubSeq(dir, 1, i))
    <2>1. Len(SubSeq(dir, 1, i)) = i /\ SubSeq(dir, 1, i)[1] = TempName
      OBVIOUS
    <2>2. PICK q : q = SubSeq(dir, 1, i) /\ Len(q) = i /\ q[1] = TempName
      BY <2>1
    <2>3. QED
      BY <2>2 DEF Under
  <1>2. NoLinks(tr, dir)
    BY <1>1 DEF NoLinks, TempPlain
  <1>3. PICK q : q = Append(dir, last)
    OBVIOUS
  <1>4. Len(q) = Len(dir) + 1 /\ q[1] = TempName
    BY <1>3
  <1>5. Under(<<TempName>>, q)
    BY <1>4 DEF Under
  <1>6. QED
    BY <1>2, <1>3, <1>5

\* A file below /.wh..wh.plnk is not seen.
LEMMA PlnkNotSeen ==
    ASSUME IInv, Apart, Plnk
    PROVE  Visible(tree') = Visible(tree)
  <1>1. PICK made, path, l, dir, last :
           /\ made = TempMade /\ path = PlnkPath
           /\ l = Locate(made, path) /\ dir = Front(path) /\ last = Last(path)
    OBVIOUS
  <1>2. /\ pc = "plnk" /\ MakesTemp
        /\ \/ tree' = made
           \/ \E header \in {PlnkHdr, HalfHdr} : tree' = createTarFile(made, path, header).tree
    BY <1>1, PlnkOutcome
  <1>3. IsTree(made) /\ TempPlain(made) /\ SeenAlike(tree, made, <<TempName>>)
    BY <1>1, <1>2, MadePlain
  <1>4. dir \in Seq(Name) /\ Len(dir) > 0 /\ dir[1] = TempName
    BY <1>1, <1>2, PlnkPlace
  <1>7. NoLinks(made, dir) /\ Under(<<TempName>>, Append(dir, last))
    BY <1>3, <1>4, ThroughTemp
  <1>8. LocatesIn(made, dir, last, l)
    BY <1>1, <1>3, <1>4, <1>7, LocateFree
  <1>9. SeenAlike(made, tree', <<TempName>>)
    <2>. SUFFICES ASSUME NEW header \in {PlnkHdr, HalfHdr},
                         tree' = createTarFile(made, path, header).tree
                  PROVE  SeenAlike(made, tree', <<TempName>>)
      BY <1>2 DEF SeenAlike
    <2>4. PICK out : out = createTarFile(made, path, header) /\ tree' = out.tree
      OBVIOUS
    <2>5. /\ Front(path) \in Seq(Part) /\ header \in Header /\ header.type = "reg"
      BY <1>1, <1>2, PlnkFile
    <2>1. CASE out.err # "ok"
      <3>1. out.tree = made
        BY <1>1, <1>3, <2>4, <2>5, <2>1, CreateSeen
      <3>2. QED
        BY <2>4, <3>1 DEF SeenAlike
    <2>2. CASE out.err = "ok"
      <3>1. CreatedSeen(made, out.tree, l, header)
        BY <1>1, <1>3, <2>4, <2>5, <2>2, CreateSeen
      <3>2. /\ l.err = "ok"
            /\ SeenStamp(made, out.tree, l.at, header.by) \/ NewKind(made, out.tree, l, header, "reg", NoLink)
        BY <2>5, <3>1 DEF CreatedSeen
      <3>3. Under(<<TempName>>, l.at)
        BY <1>7, <1>8, <3>2 DEF LocatesIn
      <3>4. QED
        BY <2>4, <3>2, <3>3 DEF SeenStamp, NewKind, MadeAt, SeenAlike
    <2>3. QED
      BY <2>1, <2>2
  <1>10. QED
    BY <1>3, <1>9, ViewAlike, VisibleIs

\* An entry of the link directory goes to the temporary directory: LayerView sees it counted, or the call fail.
LEMMA PlnkSeen ==
    ASSUME IInv, Apart, ViewInv, Plnk
    PROVE  Promise!Next
  <1>. USE Parts
  <1>1. /\ pc = "plnk" /\ InEntry /\ UNCHANGED <<n, unpackedPaths>>
        /\ \/ Continue /\ UNCHANGED err
           \/ \E e : e # "ok" /\ Return(e)
    BY PlnkOutcome
  <1>2. EntryIs /\ hdr.type = "plnk" /\ tree = base
    BY <1>1, EntryKnown DEF ViewInv, FromBase
  <1>3. Visible(tree') = ViewNow
    BY <1>2, PlnkNotSeen DEF EntryIs
  <1>4. CASE Continue /\ UNCHANGED err
    <2>1. /\ StatusNow' = StatusNow /\ EntryNow' = NoEntry /\ AppliedNow' = n
          /\ ViewNow' = ViewNow
      BY <1>1, <1>2, <1>3, <1>4 DEF Continue, StatusNow, EntryNow, AppliedNow, ViewNow, InEntry, EntryIs
    <2>2. EntryDone(EntryNow)
      BY <1>1, <1>2, <2>1 DEF EntryDone, EntryIs
    <2>3. QED
      BY <1>2, <2>1, <2>2, PromiseApply DEF EntryIs
  <1>5. CASE \E e : e # "ok" /\ Return(e)
    <2>1. /\ StatusNow' = "failed" /\ EntryNow' = NoEntry /\ AppliedNow' = 0 /\ ViewNow' = ViewNow
      BY <1>3, <1>5 DEF Return, StatusNow, EntryNow, AppliedNow, ViewNow, InEntry
    <2>2. QED
      BY <1>1, <1>2, <2>1, PromiseFail DEF EntryIs
  <1>6. QED
    BY <1>1, <1>4, <1>5

\* A whiteout: the view hides the place.
LEMMA WhiteoutSeen ==
    ASSUME IInv, Apart, TimesInv, ViewInv, Whiteout
    PROVE  Promise!Next
  <1>. USE Parts
  <1>1. PICK out, path, dir, last, spot, old, new :
           /\ out = RemoveAll(tree, path) /\ path = dst.path /\ dir = Dir /\ last = Last(hdr.name)
           /\ spot = Spot /\ old = base /\ new = tree'
    OBVIOUS
  <1>2. /\ pc = "apply" /\ hdr.type = "white" /\ new = out.tree /\ UNCHANGED <<n, unpackedPaths>>
        /\ \/ out.err = "ok" /\ Continue /\ UNCHANGED err
           \/ out.err # "ok" /\ Return(out.err)
    BY <1>1 DEF Whiteout, local
  <1>3. OnItsWay
    BY <1>2 DEF OnItsWay
  <1>4. PlaceIs /\ SpotOK /\ InEntry
    BY <1>3, PlaceKnown
  <1>5. LocatesIn(tree, dir, last, Locate(tree, path))
    BY <1>1, <1>2, LocateSpot
  <1>6. dir \in Seq(Name) /\ last \in Name /\ spot = Append(dir, last)
    BY <1>1, <1>2, <1>4 DEF SpotOK, Spot
  <1>7. CASE out.err # "ok" /\ Return(out.err)
    <2>1. out.tree = tree
      BY <1>1, <1>5, <1>6, <1>7, RemoveAllSeen
    <2>2. PICK e : e = out.err
      OBVIOUS
    <2>3. QED
      BY <1>1, <1>2, <1>7, <2>1, <2>2, WayFails
  <1>8. CASE out.err = "ok" /\ Continue /\ UNCHANGED err
    <2>1. SeenCut(tree, new, spot)
      BY <1>1, <1>2, <1>5, <1>6, <1>8, RemoveAllSeen
    <2>2. OnlyWay(old, tree, spot) /\ dir \in DOMAIN tree
      BY <1>1, <1>2 DEF ViewInv, WayMade
    <2>3. MadeRoom(old, new, spot)
      BY <1>6, <2>1, <2>2, RoomCut
    <2>4. dir \in DOMAIN new
      <3>1. Len(spot) = Len(dir) + 1
        BY <1>6, AncestorsOf
      <3>2. ~Under(spot, dir)
        BY <1>6, <3>1 DEF Under
      <3>3. QED
        BY <2>1, <2>2, <3>2 DEF SeenCut
    <2>5. IsTree(new)
      BY <1>1, WhiteoutStep DEF IInv, TypeOK
    <2>6. Unhidden(dir, last, spot, <<TempName>>)
      BY <1>1, <1>4 DEF PlaceIs
    <2>7. Visible(new) = ClearedIn(Visible(old), spot)
      BY <2>3, <2>4, <2>5, <2>6, RoomSeen, VisibleIs
    <2>8. DoneAs(Visible(base), Visible(tree'), hdr)
      BY <1>1, <1>2, <2>7 DEF DoneAs
    <2>9. QED
      BY <1>2, <1>3, <1>8, <2>8, DoneSeen
  <1>9. QED
    BY <1>2, <1>7, <1>8

-----------------------------------------------------------------------------
\* Where the entry is made: in its place.
LEMMA CreateSpot ==
    ASSUME IInv, Apart, TimesInv, ViewInv, pc = "create",
           NEW l, l = Locate(tree, dst.path), l.err = "ok"
    PROVE  l.at = Spot /\ IsDir(tree, Dir)
  <1>. USE Parts
  <1>1. OnItsWay /\ SpotOK /\ PresentOK /\ AbsentOK
    BY PlaceKnown DEF OnItsWay
  <1>2. PICK path, dir, last, spot, old, w :
           /\ path = dst.path /\ dir = Dir /\ last = Last(hdr.name) /\ spot = Spot
           /\ old = base /\ w = Way
    OBVIOUS
  <1>3. /\ dir \in Seq(Name) /\ spot = Append(dir, last) /\ Last(path) = last /\ w.at = dir
        /\ IsTree(old)
    BY <1>1, <1>2 DEF SpotOK, Spot, Dir
  <1>4. CASE dst.parentWasPresent
    <2>1. Front(path) \in Seq(Part)
      BY <1>2, PathParts
    <2>2. /\ dir \in DOMAIN old
          /\ w = Walk(old, Front(path), FALSE, TRUE) /\ w.err = "ok"
      BY <1>1, <1>2, <1>4 DEF PresentOK, Parent
    <2>3. MadeRoom(old, tree, spot) \/ OnlyWay(old, tree, spot)
      BY <1>2 DEF ViewInv, Ready
    <2>4. ActsIn(tree, dir, last, l)
      BY <1>2, <1>3, <2>1, <2>2, <2>3, LocatePresent
    <2>5. QED
      BY <1>2, <1>3, <2>4 DEF ActsIn
  <1>5. CASE ~dst.parentWasPresent
    <2>1. NoLinks(tree, dir) /\ dir = Front(path)
      BY <1>1, <1>2, <1>5 DEF TimesInv, Direct, AbsentOK, Parent
    <2>2. LocatesIn(tree, dir, last, l)
      BY <1>2, <1>3, <2>1, LocateFree
    <2>3. QED
      BY <1>2, <1>3, <2>2 DEF LocatesIn
  <1>6. QED
    BY <1>4, <1>5

\* What is around is as it was when the entry is made.
LEMMA AroundAtCreate ==
    ASSUME ViewInv, pc = "create"
    PROVE  Around(base, tree, Spot)
  BY OnlyWayAround DEF ViewInv, Ready, MadeRoom

\* The header createTarFile is given is one for the entry.
LEMMA HeaderSeen ==
    ASSUME IInv, Apart, pc = "create", SourceError = "ok",
           NEW h, h = remapIDs(srcHdr)
    PROVE  /\ h \in Header /\ h.type \in {"dir", "reg", "dev", "sym", "link"}
           /\ HeaderOf(hdr, h, Spared) /\ h.by = n
  <1>. USE Parts
  <1>1. PICK s : s = srcHdr
    OBVIOUS
  <1>2. s \in Header /\ s.type \in {"dir", "reg", "dev", "sym", "link"}
    BY <1>1, SourceType
  <1>3. s.link.to \in Seq(Spared) /\ s.by = n
    BY <1>1, ApartParts, SourceApart
  <1>4. h \in Header /\ h.type = s.type
    BY <1>1, <1>2, RemapType
  <1>5. h.link = s.link /\ h.by = s.by
    BY <1>1, <1>2 DEF remapIDs, Header
  <1>6. h.link.to \in Seq(Part)
    BY <1>4 DEF Header, LinkType
  <1>7. CASE hdr.type = "plink"
    <2>1. PICK k1, g : g = aufsHardlinks[hdr.link.to] /\ k1 = hdr.link.to /\ k1 \in DOMAIN aufsHardlinks
      BY <1>7 DEF SourceError
    <2>2. g \in Header
      BY <2>1 DEF LocalOK
    <2>3. s = [g EXCEPT !.type = "reg", !.by = n]
      BY <1>1, <1>7, <2>1 DEF srcHdr
    <2>4. s.type = "reg"
      BY <2>2, <2>3 DEF Header
    <2>5. QED
      BY <1>2, <1>3, <1>4, <1>5, <1>6, <1>7, <2>4 DEF HeaderOf
  <1>8. CASE hdr.type # "plink"
    <2>1. s = hdr
      BY <1>1, <1>8 DEF srcHdr
    <2>2. QED
      BY <1>2, <1>3, <1>4, <1>5, <1>6, <1>8, <2>1 DEF HeaderOf
  <1>9. QED
    BY <1>7, <1>8

\* The entry is made, or fails.
LEMMA CreateStepSeen ==
    ASSUME IInv, Apart, TimesInv, ViewInv, Create
    PROVE  Promise!Next
  <1>. USE Parts
  <1>1. pc = "create" /\ UNCHANGED n
    BY DEF Create
  <1>2. OnItsWay /\ hdr.type \in {"dir", "reg", "sym", "dev", "link", "plink"}
    BY <1>1 DEF OnItsWay, IInv, Dispatched
  <1>3. PlaceIs /\ SpotOK /\ PresentOK /\ AbsentOK /\ EntryIs
    BY <1>2, PlaceKnown, EntryKnown
  <1>4. PICK old, now, new, dir, last, p, path, h, l, out :
           /\ old = base /\ now = tree /\ new = tree' /\ dir = Dir /\ last = Last(hdr.name)
           /\ p = Spot /\ path = dst.path /\ h = remapIDs(srcHdr) /\ l = Locate(now, path)
           /\ out = createTarFile(now, path, h)
    OBVIOUS
  <1>5. IsTree(old) /\ IsTree(now) /\ Unhidden(dir, last, p, <<TempName>>) /\ LinksWithin(now, Spared)
    BY <1>3, <1>4, ApartParts DEF PlaceIs, TreeApart
  <1>6. Around(old, now, p)
    BY <1>1, <1>4, AroundAtCreate
  <1>7. ASSUME NEW e, e # "ok", Return(e), new = now, UNCHANGED unpackedPaths
        PROVE  Promise!Next
    BY <1>2, <1>4, <1>6, <1>7, FailsSeen
  <1>8. CASE SourceError # "ok"
    <2>1. PICK e : e = SourceError
      OBVIOUS
    <2>2. Return(e) /\ new = now /\ UNCHANGED unpackedPaths
      BY <1>4, <1>8, <2>1 DEF Create
    <2>3. QED
      BY <1>7, <1>8, <2>1, <2>2
  <1>9. CASE SourceError = "ok" /\ ~Mapped(srcHdr.owner)
    <2>1. Return("unmapped") /\ new = now /\ UNCHANGED unpackedPaths
      BY <1>4, <1>9 DEF Create
    <2>2. QED
      BY <1>7, <2>1
  <1>10. CASE SourceError = "ok" /\ Mapped(srcHdr.owner)
    <2>1. /\ new = out.tree
          /\ \/ out.err = "ok" /\ unpackedPaths' = unpackedPaths \union {path} /\ Continue /\ UNCHANGED err
             \/ out.err # "ok" /\ Return(out.err) /\ UNCHANGED unpackedPaths
      BY <1>4, <1>10 DEF Create
    <2>2. /\ h \in Header /\ h.type \in {"dir", "reg", "dev", "sym", "link"}
          /\ HeaderOf(hdr, h, Spared) /\ h.by = n
      BY <1>1, <1>4, <1>10, HeaderSeen
    <2>3. Front(path) \in Seq(Part)
      BY <1>4, PathParts
    <2>4. CASE out.err # "ok" /\ Return(out.err) /\ UNCHANGED unpackedPaths
      <3>1. out.tree = now
        BY <1>4, <1>5, <2>2, <2>3, <2>4, CreateSeen
      <3>2. PICK e : e = out.err
        OBVIOUS
      <3>3. QED
        BY <1>7, <2>1, <2>4, <3>1, <3>2
    <2>5. CASE /\ out.err = "ok" /\ unpackedPaths' = unpackedPaths \union {path}
               /\ Continue /\ UNCHANGED err
      <3>1. CreatedSeen(now, new, l, h)
        <4>1. CreatedSeen(now, out.tree, l, h)
          BY <1>4, <1>5, <2>2, <2>3, <2>5, CreateSeen
        <4>2. QED
          BY <2>1, <4>1
      <3>2. l.err = "ok" => l.at = p /\ IsDir(now, dir)
        BY <1>1, <1>4, CreateSpot
      <3>3. dir \in DOMAIN now
        BY <1>1, <1>4 DEF ViewInv, WayMade
      <3>4. h.type = "dir" <=> hdr.type = "dir"
        BY <1>2, <2>2 DEF HeaderOf
      <3>5. ReadyFor(old, now, p, h.type)
        BY <1>1, <1>4, <3>4 DEF ViewInv, Ready, ReadyFor
      <3>6. PICK entry1 : entry1 = hdr
        OBVIOUS
      <3>7. PutAs(Visible(old), Visible(new), entry1, p, h.by)
        <4>1. PICK hidden : hidden = <<TempName>>
          OBVIOUS
        <4>2. /\ Unhidden(dir, last, p, hidden) /\ Spares(now, Spared, hidden)
              /\ HeaderOf(entry1, h, Spared)
          BY <1>5, <2>2, <3>6, <4>1, SparedHidden
        <4>3. PutAs(ViewLess(old, hidden), ViewLess(new, hidden), entry1, p, h.by)
          BY <1>5, <3>1, <3>2, <3>3, <3>5, <4>2, CreatedPut
        <4>4. QED
          BY <4>1, <4>3, VisibleIs
      <3>8. PutAs(Visible(base), Visible(tree'), hdr, Spot, n)
        BY <1>4, <2>2, <3>6, <3>7
      <3>9. path \in {hdr.name, Spot}
        BY <1>3, <1>4 DEF PresentOK, AbsentOK
      <3>10. DoneAs(Visible(base), Visible(tree'), hdr)
        BY <2>5, <3>8, <3>9 DEF DoneAs
      <3>11. QED
        BY <1>1, <1>2, <2>5, <3>10, DoneSeen
    <2>6. QED
      BY <2>1, <2>4, <2>5
  <1>11. QED
    BY <1>8, <1>9, <1>10

-----------------------------------------------------------------------------
\* The parent of what lies below a directory is that directory or below it.
LEMMA ParentBelow ==
    ASSUME NEW d \in Seq(Name), NEW q \in Seq(Name), Below(d, q)
    PROVE  /\ q # << >> /\ Front(q) \in Seq(Name)
           /\ Front(q) = d \/ Below(d, Front(q))
           /\ \A p : Len(p) = 1 /\ Under(p, Front(q)) => Under(p, q)
  <1>1. Len(q) \in Nat /\ Len(d) \in Nat /\ Len(q) > Len(d) /\ \A i \in 1..Len(d) : d[i] = q[i]
    BY DEF Below
  <1>2. q # << >>
    BY <1>1
  <1>3. PICK f \in Seq(Name) : f = Front(q)
    BY <1>2, FrontProperties
  <1>4. Len(f) = Len(q) - 1 /\ \A i \in 1..Len(q)-1 : f[i] = q[i]
    BY <1>2, <1>3, FrontProperties
  <1>5. \A i \in 1..Len(d) : d[i] = f[i]
    BY <1>1, <1>4
  <1>6. CASE Len(f) = Len(d)
    <2>1. f = d
      BY <1>3, <1>5, <1>6
    <2>2. ASSUME NEW p, Len(p) = 1, Under(p, f) PROVE Under(p, q)
      BY <1>1, <1>4, <2>2 DEF Under
    <2>3. QED
      BY <1>2, <1>3, <2>1, <2>2
  <1>7. CASE Len(f) # Len(d)
    <2>1. Below(d, f)
      BY <1>1, <1>4, <1>5, <1>7 DEF Below
    <2>2. ASSUME NEW p, Len(p) = 1, Under(p, f) PROVE Under(p, q)
      BY <1>1, <1>4, <2>2 DEF Under
    <2>3. QED
      BY <1>2, <1>3, <2>1, <2>2
  <1>8. QED
    BY <1>6, <1>7

\* What the walk of an opaque whiteout leaves looks as it did.
LEMMA AfterWalkSeen ==
    ASSUME IsTree(tree), NEW d \in Seq(Name), NEW left, left = AfterWalk(d)
    PROVE  DOMAIN left = Kept(d) /\ \A q \in DOMAIN left : Shown(left[q]) = Shown(tree[q])
  <1>1. DOMAIN left = Kept(d)
    BY DEF AfterWalk
  <1>2. ASSUME NEW q \in DOMAIN left PROVE Shown(left[q]) = Shown(tree[q])
    <2>1. PICK node \in NodeType : node = tree[q]
      BY <1>1, <1>2, TreePaths DEF Kept
    <2>2. PICK new : new = left[q]
      OBVIOUS
    <2>3. new = node \/ new = [node EXCEPT !.time = Clock]
      BY <1>1, <1>2, <2>1, <2>2 DEF AfterWalk
    <2>4. new = node \/ \E time : new = [node EXCEPT !.time = time]
      BY <2>3
    <2>5. QED
      BY <2>1, <2>2, <2>4, MetaHidden
  <1>3. QED
    BY <1>1, <1>2

\* The directory it walks is the entry's.
LEMMA OpaqueDir ==
    ASSUME IInv, Apart, TimesInv, ViewInv, pc = "apply",
           NEW x, x = Walk(tree, Parent, TRUE, TRUE), x.err = "ok"
    PROVE  x.at = Dir
  <1>. USE Parts
  <1>1. SpotOK /\ PresentOK /\ AbsentOK
    BY PlaceKnown DEF OnItsWay
  <1>2. CASE dst.parentWasPresent
    <2>1. tree = base /\ Parent = Front(hdr.name)
      BY <1>1, <1>2 DEF ViewInv, WayMade, PresentOK
    <2>2. x = Way
      BY <2>1 DEF Way
    <2>3. QED
      BY <2>2 DEF Dir
  <1>3. CASE ~dst.parentWasPresent
    <2>1. Parent = Dir /\ Dir \in Seq(Name) /\ NoLinks(tree, Parent)
      BY <1>1, <1>3 DEF TimesInv, Direct, AbsentOK, OnItsWay, SpotOK
    <2>2. PICK parent \in Seq(Name), yes \in BOOLEAN : parent = Parent /\ yes = TRUE
      BY <2>1
    <2>3. x = Walk(tree, parent, yes, TRUE) /\ NoLinks(tree, parent)
      BY <2>1, <2>2
    <2>4. x.at = parent
      BY <2>3, NoLinkWalk
    <2>5. QED
      BY <2>1, <2>2, <2>4
  <1>4. QED
    BY <1>2, <1>3

\* What the walk leaves is what LayerView lets stay.
LEMMA WalkedSeen ==
    ASSUME IInv, NEW old, NEW dir, NEW last, NEW p, Unhidden(dir, last, p, <<TempName>>), OnlyWay(old, tree, p),
           dir \in DOMAIN tree, NEW new, new = AfterWalk(dir)
    PROVE  LowerHiddenAs(Visible(old), Visible(new), dir, last, unpackedPaths)
  <1>. USE Parts
  <1>1. /\ dir \in Seq(Name) /\ p = Append(dir, last)
        /\ \A q \in Ancestors(p) : ~Under(<<TempName>>, q)
    BY DEF Unhidden
  <1>2. DOMAIN new = Kept(dir) /\ \A q \in DOMAIN new : Shown(new[q]) = Shown(tree[q])
    BY <1>1, AfterWalkSeen
  <1>3. \A q \in DOMAIN new : Below(dir, q) => q \in unpackedPaths /\ tree[q].by > 0
    <2>1. ASSUME NEW q \in DOMAIN new, Below(dir, q) PROVE q \in unpackedPaths
      BY <1>1, <2>1, AfterWalkType
    <2>2. ASSUME NEW q \in DOMAIN new, Below(dir, q) PROVE tree[q].by > 0
      BY <1>2, <2>1, <2>2 DEF IInv, Written, Kept
    <2>3. QED
      BY <2>1, <2>2
  <1>4. PICK v, w : v = Visible(old) /\ w = Visible(new)
    OBVIOUS
  <1>5. \A q : q \in DOMAIN v <=> q \in DOMAIN old /\ ~Under(<<TempName>>, q)
    BY <1>4, VisibleIs
  <1>6. \A q : q \in DOMAIN w <=> q \in DOMAIN new /\ ~Under(<<TempName>>, q)
    BY <1>4, VisibleIs
  <1>7. \A q \in Ancestors(p) : q \in DOMAIN tree /\ ~Below(dir, q)
    <2>1. \A q \in Ancestors(p) : q \in DOMAIN tree
      BY <1>1, AncestorsThere
    <2>2. \A q \in Ancestors(p) : ~Below(dir, q)
      BY <1>1, AncestorType
    <2>3. QED
      BY <2>1, <2>2
  <1>8. \A q : q \in DOMAIN new <=> q \in DOMAIN tree /\ (Below(dir, q) => Survives(dir, q))
    BY <1>2 DEF Kept
  <1>9. /\ \A q \in DOMAIN old : q \in DOMAIN tree /\ Shown(tree[q]) = Shown(old[q])
        /\ \A q \in DOMAIN tree \ DOMAIN old : q \in Ancestors(p) /\ Shown(tree[q]) = ADir
    BY DEF OnlyWay
  <1>10. PICK stay : stay = {q \in DOMAIN w : Below(dir, q)}
    OBVIOUS
  <1>11. ASSUME NEW q \in stay
         PROVE  /\ q \in DOMAIN new /\ Below(dir, q) /\ q \in DOMAIN v
                /\ IsDir(v, q) \/ v[q].by > 0
    <2>1. q \in DOMAIN new /\ Below(dir, q) /\ ~Under(<<TempName>>, q)
      BY <1>6, <1>10, <1>11
    <2>2. q \in DOMAIN old
      BY <1>7, <1>8, <1>9, <2>1
    <2>3. q \in DOMAIN v /\ v[q] = Shown(old[q])
      BY <1>4, <1>5, <2>1, <2>2, VisibleIs
    <2>4. v[q] = Shown(tree[q]) /\ tree[q].by > 0
      BY <1>3, <1>9, <2>1, <2>2, <2>3
    <2>5. CASE tree[q].kind = "dir"
      <3>1. v[q].kind = "dir"
        BY <2>4, <2>5 DEF Shown, ADir
      <3>2. QED
        BY <2>1, <2>3, <3>1 DEF IsDir, Exists
    <2>6. CASE tree[q].kind # "dir"
      <3>1. v[q].by = tree[q].by
        BY <2>4, <2>6 DEF Shown
      <3>2. QED
        BY <2>1, <2>3, <2>4, <3>1
    <2>7. QED
      BY <2>5, <2>6
  <1>12. stay \in SUBSET StayOf(v, dir)
    BY <1>11 DEF StayOf
  <1>13. ASSUME NEW q \in StayOf(v, dir),
                \A i \in Len(dir)+1..Len(q) : SubSeq(q, 1, i) \in unpackedPaths
         PROVE  q \in stay
    <2>1. q \in DOMAIN v /\ Below(dir, q)
      BY <1>13 DEF StayOf
    <2>2. Survives(dir, q)
      BY <1>13 DEF Survives
    <2>3. q \in DOMAIN new /\ ~Under(<<TempName>>, q)
      BY <1>5, <1>8, <1>9, <2>1, <2>2
    <2>4. QED
      BY <1>6, <1>10, <2>1, <2>3
  <1>14. ASSUME NEW q \in stay PROVE Front(q) \in stay \union {dir}
    <2>1. q \in Kept(dir) /\ Below(dir, q) /\ ~Under(<<TempName>>, q)
      BY <1>2, <1>5, <1>11, <1>14
    <2>2. q \in Seq(Name)
      BY <2>1, TreePaths DEF Kept
    <2>3. /\ q # << >> /\ (Front(q) = dir \/ Below(dir, Front(q)))
          /\ Under(<<TempName>>, Front(q)) => Under(<<TempName>>, q)
      <3>0. PICK temp : temp = <<TempName>>
        OBVIOUS
      <3>1. temp = <<TempName>> /\ Len(temp) = 1
        BY <3>0
      <3>2. q # << >> /\ (Front(q) = dir \/ Below(dir, Front(q)))
        BY <1>1, <2>1, <2>2, ParentBelow
      <3>3. Under(temp, Front(q)) => Under(temp, q)
        BY <1>1, <2>1, <2>2, <3>1, ParentBelow
      <3>4. QED
        BY <3>1, <3>2, <3>3
    <2>4. q # << >> /\ Front(q) \in Kept(dir)
      <3>1. q # << >>
        BY <1>1, <2>1, <2>2, ParentBelow
      <3>2. QED
        BY <1>1, <2>1, <3>1, KeptParent
    <2>5. Front(q) \in DOMAIN w
      BY <1>2, <1>6, <2>1, <2>3, <2>4
    <2>6. QED
      BY <1>10, <2>3, <2>5
  <1>15. PICK rest, c : /\ rest = {q \in DOMAIN v : ~Below(dir, q)} \union stay
                        /\ c = KeepIn(v, rest, p)
    OBVIOUS
  <1>16. \A q : q \in DOMAIN c <=> q \in rest \/ q \in Ancestors(p)
    BY <1>15 DEF KeepIn
  <1>17. ASSUME NEW q \in DOMAIN w PROVE q \in DOMAIN c
    <2>1. CASE Below(dir, q)
      BY <1>10, <1>15, <1>16, <1>17, <2>1
    <2>2. CASE ~Below(dir, q)
      <3>1. q \in DOMAIN tree /\ ~Under(<<TempName>>, q)
        BY <1>6, <1>8, <1>17
      <3>2. q \in DOMAIN v \/ q \in Ancestors(p)
        BY <1>5, <1>9, <3>1
      <3>3. QED
        BY <1>15, <1>16, <2>2, <3>2
    <2>3. QED
      BY <2>1, <2>2
  <1>18. ASSUME NEW q \in DOMAIN c PROVE q \in DOMAIN w
    <2>1. CASE q \in Ancestors(p)
      BY <1>1, <1>6, <1>7, <1>8, <2>1
    <2>2. CASE q \in DOMAIN v /\ ~Below(dir, q)
      BY <1>5, <1>6, <1>8, <1>9, <2>2
    <2>3. CASE q \in stay
      BY <1>10, <2>3
    <2>4. QED
      BY <1>15, <1>16, <1>18, <2>1, <2>2, <2>3
  <1>19. ASSUME NEW q \in DOMAIN w PROVE w[q] = c[q]
    <2>1. /\ q \in DOMAIN new /\ q \in DOMAIN tree /\ ~Under(<<TempName>>, q)
          /\ q \in DOMAIN c
      BY <1>6, <1>8, <1>17, <1>19
    <2>2. w[q] = Shown(new[q])
      BY <1>4, <1>19, VisibleIs
    <2>3. w[q] = Shown(tree[q])
      BY <1>2, <2>1, <2>2
    <2>4. c[q] = IF q \in DOMAIN v THEN v[q] ELSE ADir
      BY <1>15, <1>16, <2>1 DEF KeepIn
    <2>5. CASE q \in DOMAIN old
      <3>1. q \in DOMAIN v
        BY <1>5, <2>1, <2>5
      <3>2. v[q] = Shown(old[q])
        BY <1>4, <3>1, VisibleIs
      <3>3. QED
        BY <1>9, <2>3, <2>4, <2>5, <3>1, <3>2
    <2>6. CASE q \notin DOMAIN old
      BY <1>5, <1>9, <2>1, <2>3, <2>4, <2>6
    <2>7. QED
      BY <2>5, <2>6
  <1>20. w = [q \in DOMAIN w |-> w[q]] /\ c = [q \in DOMAIN c |-> c[q]]
    BY <1>4, <1>15, VisibleIs DEF KeepIn
  <1>21. w = c
    BY <1>17, <1>18, <1>19, <1>20
  <1>22. w = KeepIn(v, {q \in DOMAIN v : ~Below(dir, q)} \union stay, Append(dir, last))
    BY <1>1, <1>15, <1>21
  <1>23. LowerHiddenAs(v, w, dir, last, unpackedPaths)
    BY <1>10, <1>12, <1>13, <1>14, <1>22 DEF LowerHiddenAs
  <1>24. QED
    BY <1>4, <1>23

\* An opaque whiteout.
LEMMA OpaqueSeen ==
    ASSUME IInv, Apart, TimesInv, ViewInv, Opaque
    PROVE  Promise!Next
  <1>. USE Parts
  <1>1. PICK seen, x : seen = Lstat(tree, Parent) /\ x = Walk(tree, Parent, TRUE, TRUE)
    OBVIOUS
  <1>2. /\ pc = "apply" /\ hdr.type = "opaque" /\ UNCHANGED <<n, unpackedPaths>>
        /\ \/ seen.err # "ok" /\ Return(seen.err) /\ tree' = tree
           \/ x.err # "ok" /\ Return(x.err) /\ tree' = tree
           \/ x.err = "ok" /\ tree' = AfterWalk(x.at) /\ Continue /\ UNCHANGED err
    BY <1>1 DEF Opaque, local
  <1>3. ASSUME NEW e, e # "ok", Return(e), tree' = tree PROVE Promise!Next
    BY <1>2, <1>3, WayFails
  <1>4. CASE seen.err # "ok" /\ Return(seen.err) /\ tree' = tree
    <2>1. PICK e : e = seen.err
      OBVIOUS
    <2>2. QED
      BY <1>3, <1>4, <2>1
  <1>5. CASE x.err # "ok" /\ Return(x.err) /\ tree' = tree
    <2>1. PICK e : e = x.err
      OBVIOUS
    <2>2. QED
      BY <1>3, <1>5, <2>1
  <1>6. CASE x.err = "ok" /\ tree' = AfterWalk(x.at) /\ Continue /\ UNCHANGED err
    <2>1. x.at = Dir
      BY <1>1, <1>2, <1>6, OpaqueDir
    <2>2. OnItsWay
      BY <1>2 DEF OnItsWay
    <2>3. PlaceIs
      BY <2>2, PlaceKnown
    <2>4. PICK old, dir, last, p, new :
             /\ old = base /\ dir = Dir /\ last = Last(hdr.name) /\ p = Spot /\ new = tree'
      OBVIOUS
    <2>5. /\ Unhidden(dir, last, p, <<TempName>>) /\ OnlyWay(old, tree, p) /\ dir \in DOMAIN tree
          /\ new = AfterWalk(dir)
      BY <1>2, <1>6, <2>1, <2>3, <2>4 DEF PlaceIs, ViewInv, WayMade
    <2>6. LowerHiddenAs(Visible(old), Visible(new), dir, last, unpackedPaths)
      BY <2>5, WalkedSeen
    <2>7. DoneAs(Visible(base), Visible(tree'), hdr)
      BY <1>2, <2>4, <2>6 DEF DoneAs
    <2>8. QED
      BY <1>2, <1>6, <2>2, <2>7, DoneSeen
  <1>7. QED
    BY <1>2, <1>4, <1>5, <1>6

\* An operation fails, and may have done a part of what it does.
LEMMA FaultSeen ==
    ASSUME IInv, Apart, TimesInv, ViewInv, Fault
    PROVE  Promise!Next
  <1>. USE Parts
  <1>1. /\ pc \in {"read", "plnk", "implied", "apply", "create", "times"} /\ Return("io")
        /\ UNCHANGED <<base, n, unpackedPaths>>
        /\ \/ tree' = tree
           \/ pc = "apply" /\ \E q \in HalfRemoved : tree' = RemoveTree(tree, q, Clock)
           \/ pc = "create" /\ tree' \in HalfMade
    BY DEF Fault, local, EntryOK
  <1>2. CASE ~OnItsWay
    <2>1. pc \in {"read", "plnk", "times"} /\ tree' = tree
      BY <1>1, <1>2 DEF OnItsWay
    <2>2. pc = "plnk" => tree = base
      BY DEF ViewInv, FromBase
    <2>3. /\ StatusNow = "applying" /\ StatusNow' = "failed" /\ EntryNow' = NoEntry
          /\ AppliedNow' = 0
      BY <1>1, <2>1 DEF ViewInv, Going, Return, StatusNow, EntryNow, AppliedNow, InEntry
    <2>4. ViewNow' = ViewNow
      BY <1>1, <2>1, <2>2 DEF Return, ViewNow, InEntry
    <2>5. QED
      BY <1>1, <2>3, <2>4, PromiseFail
  <1>3. CASE OnItsWay
    <2>1. PlaceIs /\ SpotOK
      BY <1>3, PlaceKnown
    <2>2. hdr.type \notin {"meta", "plnk"} /\ (pc = "create" => hdr.type # "opaque")
      BY <1>3 DEF OnItsWay, IInv, Dispatched
    <2>3. PICK old, now, new, dir, last, p, type, part :
             /\ old = base /\ now = tree /\ new = tree' /\ dir = Dir /\ last = Last(hdr.name)
             /\ p = Spot /\ type = hdr.type /\ part = IF type = "opaque" THEN dir ELSE p
      OBVIOUS
    <2>4. /\ dir \in Seq(Name) /\ p = Append(dir, last) /\ IsTree(old) /\ IsTree(now)
      BY <2>1, <2>3 DEF SpotOK, Spot
    <2>5. Around(old, now, part)
      <3>1. CASE pc = "create"
        BY <2>2, <2>3, <3>1, AroundAtCreate
      <3>2. CASE pc # "create"
        <4>1. OnlyWay(old, now, p)
          BY <1>3, <2>3, <3>2 DEF OnItsWay, ViewInv, WayMade
        <4>2. AroundPart(old, now, dir, p, type)
          BY <2>4, <4>1, OnlyWayPart
        <4>3. QED
          BY <2>3, <4>2 DEF AroundPart
      <3>3. QED
        BY <3>1, <3>2
    <2>6. Around(old, new, part)
      <3>1. CASE new = now
        BY <2>5, <3>1
      <3>2. ASSUME pc = "apply", NEW q \in HalfRemoved, new = RemoveTree(now, q, Clock)
            PROVE  Around(old, new, part)
        <4>1. q \in DOMAIN now /\ q \in Seq(Name)
          BY <2>3, <2>4, <3>2, HalfRemovedType, TreePaths
        <4>2. Under(part, q) /\ part \in Seq(Name)
          <5>1. CASE type = "opaque"
            <6>1. PICK x : x = Walk(tree, Parent, TRUE, TRUE)
              OBVIOUS
            <6>2. x.err = "ok" /\ Below(x.at, q)
              BY <2>3, <3>2, <5>1, <6>1 DEF HalfRemoved, Kept
            <6>3. x.at = dir
              BY <2>3, <3>2, <6>1, <6>2, OpaqueDir
            <6>4. Under(dir, q)
              BY <2>4, <4>1, <6>2, <6>3 DEF Below, Under
            <6>5. QED
              BY <2>3, <2>4, <5>1, <6>4
          <5>2. CASE type # "opaque"
            <6>1. PICK path, there : path = dst.path /\ there = Lstat(now, path)
              OBVIOUS
            <6>2. there.err = "ok" /\ Under(there.at, q)
              BY <2>3, <3>2, <5>2, <6>1 DEF HalfRemoved
            <6>3. LocatesIn(now, dir, last, Locate(now, path))
              BY <2>3, <3>2, <6>1, LocateSpot
            <6>4. path # << >> /\ last \in Name
              BY <2>1, <2>3, <5>2, <6>1 DEF SpotOK
            <6>5. SeesAt(now, p, there)
              BY <2>4, <6>1, <6>3, <6>4, LstatSeen
            <6>6. there.at = p
              BY <6>2, <6>5 DEF SeesAt
            <6>7. QED
              BY <2>3, <2>4, <5>2, <6>2, <6>4, <6>6
          <5>3. QED
            BY <5>1, <5>2
        <4>3. SeenCut(now, new, q)
          BY <2>4, <3>2, CutSeen
        <4>4. \A s \in DOMAIN old : Under(q, s) => Under(part, s)
          BY <2>4, <4>1, <4>2, TreePaths, UnderTrans
        <4>5. QED
          BY <2>5, <4>3, <4>4, AroundCut
      <3>3. ASSUME pc = "create", new \in HalfMade PROVE Around(old, new, part)
        <4>1. PICK source, header, path, out, l :
                 /\ source = srcHdr
                 /\ header = [source EXCEPT !.owner = Process, !.time = Clock]
                 /\ path = dst.path /\ out = createTarFile(now, path, header)
                 /\ l = Locate(now, path)
          OBVIOUS
        <4>2. /\ SourceError = "ok" /\ source.type \in {"dir", "reg", "sym"}
              /\ new = out.tree
          BY <2>3, <3>3, <4>1 DEF HalfMade
        <4>3. source \in Header
          BY <3>3, <4>1, <4>2, SourceType
        <4>4. header \in Header
          <5>1. Process \in Nat /\ Clock \in Nat
            BY ExtractAssumption DEF Process
          <5>2. QED
            BY <4>1, <4>3, <5>1, HeaderExcept
        <4>5. header.type \in {"dir", "reg", "dev", "sym", "link"}
          BY <4>1, <4>2, <4>3 DEF Header
        <4>6. Front(path) \in Seq(Part)
          BY <4>1, PathParts
        <4>7. l.err = "ok" => l.at = p
          BY <2>3, <3>3, <4>1, CreateSpot
        <4>8. part = p
          BY <2>2, <2>3, <3>3
        <4>m. IsTree(now) /\ out = createTarFile(now, path, header) /\ l = Locate(now, path)
          BY <2>4, <4>1
        <4>9. CASE out.err # "ok"
          <5>1. out.tree = now
            BY <4>m, <4>4, <4>5, <4>6, <4>9, CreateSeen
          <5>2. QED
            BY <2>5, <4>2, <5>1
        <4>10. CASE out.err = "ok"
          <5>1. CreatedSeen(now, out.tree, l, header)
            BY <4>m, <4>4, <4>5, <4>6, <4>10, CreateSeen
          <5>2. CreatedSeen(now, new, l, header)
            BY <4>2, <5>1
          <5>3. Under(p, p)
            BY <2>4, SpotUnder
          <5>4. Around(old, now, p)
            BY <2>5, <4>8
          <5>5. Around(old, new, p)
            BY <4>7, <5>2, <5>3, <5>4, CreatedAround
          <5>6. QED
            BY <4>8, <5>5
        <4>11. QED
          BY <4>9, <4>10
      <3>4. QED
        BY <1>1, <2>3, <3>1, <3>2, <3>3
    <2>7. Around(base, tree', IF hdr.type = "opaque" THEN Dir ELSE Spot)
      BY <2>3, <2>6
    <2>8. QED
      BY <1>1, <1>3, <2>2, <2>7, FailsSeen
  <1>4. QED
    BY <1>2, <1>3

-----------------------------------------------------------------------------
\* A lower tree is one of the views a layer may be applied to.
LEMMA InitSeen ==
    ASSUME Init
    PROVE  Promise!Init
  <1>1. /\ tree \in Lowers /\ pc = "read" /\ n = 0 /\ unpackedPaths = {} /\ err = "ok"
    BY DEF Init
  <1>2. /\ ViewNow = Visible(tree) /\ EntryNow = NoEntry /\ AppliedNow = 0
        /\ StatusNow = "applying"
    BY <1>1 DEF ViewNow, EntryNow, AppliedNow, StatusNow, InEntry
  <1>3. ViewNow \in {Visible(t) : t \in Lowers}
    BY <1>1, <1>2
  <1>4. Promise!NoEntry = NoEntry
    BY DEF Promise!NoEntry, NoEntry
  <1>5. QED
    BY <1>1, <1>2, <1>3, <1>4 DEF Promise!Init, ViewNow, EntryNow, AppliedNow, StatusNow

\* Every step is one of LayerView, or is not seen.
LEMMA NextSeen ==
    ASSUME BetweenEntries, IInv, Apart, TimesInv, ViewInv, [Next]_vars
    PROVE  [Promise!Next]_LayerVars
  <1>1. ASSUME NEW h \in Layer, Read(h) PROVE [Promise!Next]_LayerVars
    BY <1>1, ReadSeen
  <1>2. CASE EndOfArchive \/ RestoreTime \/ TimesRestored
    BY <1>2, EndSeen
  <1>3. CASE Plnk
    BY <1>3, PlnkSeen
  <1>4. CASE SkipImplied \/ StartImplied \/ MakeImplied \/ ImpliedMade \/ Clear
    BY <1>4, ImpliedSteps
  <1>5. CASE Whiteout
    BY <1>5, WhiteoutSeen
  <1>6. CASE Opaque
    BY <1>6, OpaqueSeen
  <1>7. CASE Create
    BY <1>7, CreateStepSeen
  <1>8. CASE Removing
    BY <1>8, CleanupSeen
  <1>9. CASE Fault
    BY <1>9, FaultSeen
  <1>10. CASE RemovedByOther
    BY <1>10, OtherSeen
  <1>11. CASE Returned \/ UNCHANGED vars
    BY <1>11, StutterSeen
  <1>12. QED
    BY <1>1, <1>2, <1>3, <1>4, <1>5, <1>6, <1>7, <1>8, <1>9, <1>10, <1>11
       DEF Next, Plnk, Removing

\* UnpackLayer keeps the promise of LayerView, provided that other processes
\* remove nothing while an entry is being applied.
THEOREM LayerIsApplied ==
    ASSUME BetweenEntries
    PROVE  Spec => AppliesAsLayer
  <1>1. Init => IInv /\ Apart /\ TimesInv /\ ViewInv /\ Promise!Init
    BY InitInvariant, InitApart, InitTimes, InitView, InitSeen
  <1>2. IInv /\ Apart /\ TimesInv /\ ViewInv /\ [Next]_vars
           => IInv' /\ Apart' /\ TimesInv' /\ ViewInv' /\ [Promise!Next]_LayerVars
    BY NextInvariant, NextApart, NextTimes, NextView, NextSeen
  <1>3. QED
    BY <1>1, <1>2, PTL DEF Spec, AppliesAsLayer, Promise!Spec, LayerVars, ViewNow, EntryNow,
           AppliedNow, StatusNow
=============================================================================
