------------------------------- MODULE Unpack -------------------------------
(***************************************************************************)
(* Unpack (archive.go), with the converter of whiteouts to the overlay     *)
(* format (archive_linux.go).  In that format the destination is the upper *)
(* directory of an overlay mount, and the archive is a layer: what matters *)
(* is what the mount shows.  One action is one operation on the file       *)
(* system, and any of them may fail.                                       *)
(***************************************************************************)
EXTENDS Extract

CONSTANTS Calls,        \* the calls: a tree, the lower directories, an archive, options
          MaxEntries,   \* entries in one archive
          Excluded,     \* the names an exclude pattern is a prefix of
          Faults,       \* whether operations may fail
          MaxRemovals   \* subtrees other processes remove between entries

ConvertedType == {"white", "opaque"}
WhiteoutFormats == {"AUFSWhiteoutFormat", "OverlayWhiteoutFormat"}

\* An entry as the archive holds it.  Only an opaque whiteout ends in the marker,
\* and only what a whiteout hides may be no name.
HeaderIn == {h \in [type : EntryType \ {"meta", "plnk", "plink"}, link : LinkType,
                    name : Seq(Part \union {Opq}), owner : Nat] :
                \/ h.name = << >>
                \/ Head(h.name) = Up
                \/ /\ Front(h.name) \in Seq(Name)
                   /\ CASE h.type = "opaque" -> Last(h.name) = Opq
                        [] h.type = "white"  -> Last(h.name) \in Part
                        [] h.type \notin ConvertedType -> Last(h.name) \in Name}

\* Without a converter a whiteout is a file like any other, and given as one.
ASSUME UnpackAssumption ==
    /\ MaxEntries \in Nat /\ MaxRemovals \in Nat
    /\ Faults \in BOOLEAN
    /\ Clock > MaxEntries
    /\ \A c \in Calls :
          /\ IsTree(c.tree) /\ IsTree(c.lower)
          /\ \A p \in DOMAIN c.tree : c.tree[p].by = 0 /\ c.tree[p].ino[1] = 0
          \* A directory has one name.
          /\ \A p, q \in DOMAIN c.tree :
                IsDir(c.tree, p) /\ c.tree[p].ino = c.tree[q].ino => p = q
          /\ c.archive \subseteq HeaderIn
          /\ c.NoOverwriteDirNonDir \in BOOLEAN
          /\ c.WhiteoutFormat \in WhiteoutFormats
          /\ c.WhiteoutFormat = "AUFSWhiteoutFormat" =>
                \A h \in c.archive : h.type \notin ConvertedType

VARIABLES tree,      \* what is on disk below dest
          opaque,    \* the inodes that carry the overlay's opaque attribute
          lower,     \* what the lower directories of an overlay mount hold
          options,
          archive,   \* the entries that may still follow
          base,      \* what was on disk when the last entry was read, without what
               \* other processes removed since
          pc, hdr, dst, k,
          n,         \* entries read
          dirs,
          listed,    \* the names of the entries made so far
          err,
          removals   \* subtrees removed by other processes

call  == <<lower, options>>
entry == <<hdr, dst, k>>
vars  == <<tree, opaque, call, archive, base, pc, entry, n, dirs, listed, err, removals>>

NoEntry == [type |-> "none"]
NoPath  == Resolved("ok", << >>, TRUE)

Init ==
    /\ \E c \in Calls :
          /\ tree = c.tree /\ lower = c.lower /\ archive = c.archive
          /\ options = [NoOverwriteDirNonDir |-> c.NoOverwriteDirNonDir,
                        WhiteoutFormat |-> c.WhiteoutFormat]
    /\ opaque = {}
    /\ base = tree
    /\ pc = "read"
    /\ hdr = NoEntry /\ dst = NoPath /\ k = 0
    /\ n = 0
    /\ dirs = << >>
    /\ listed = {}
    /\ err = "ok"
    /\ removals = 0

Return(e) ==
    /\ pc' = "done"
    /\ err' = e

\* The loop goes on to the next entry.
Continue ==
    /\ pc' = "read"
    /\ hdr' = NoEntry /\ dst' = NoPath /\ k' = 0

\* An operation on the tree, after which the entry goes on, or the call returns.
Then(out, next) ==
    /\ tree' = out.tree
    /\ \/ out.err = "ok" /\ next /\ UNCHANGED err
       \/ out.err # "ok" /\ Return(out.err) /\ UNCHANGED entry

Parent == Front(dst.path)
Converts == options.WhiteoutFormat = "OverlayWhiteoutFormat"

(***************************************************************************)
(* Reading an entry and resolving its name.  The entry of the root itself  *)
(* is passed over, as an excluded one and a global header are; a name that *)
(* starts with ".." is refused.  A layer in the overlay format names       *)
(* nothing twice.                                                          *)
(***************************************************************************)
Skipped == Excluded \union {<< >>}
Remaining(h) == IF Converts THEN {g \in archive : g.name # h.name} ELSE archive

Entry(h) == [type |-> h.type, name |-> h.name, link |-> h.link, owner |-> h.owner,
             time |-> n + 1, by |-> n + 1]

Read(h) ==
    /\ pc = "read"
    /\ n < MaxEntries
    /\ n' = n + 1
    /\ archive' = Remaining(h)
    /\ base' = tree
    /\ UNCHANGED <<tree, opaque, call, dirs, listed, removals>>
    /\ \/ /\ h.name \in Skipped
          /\ Continue
          /\ UNCHANGED err
       \/ /\ h.name \notin Skipped /\ Head(h.name) = Up
          /\ Return("breakout")
          /\ UNCHANGED entry
       \/ /\ h.name \notin Skipped /\ Head(h.name) # Up
          /\ LET resolved == resolveArchivePath(tree, h.name)
             IN  IF resolved.err = "ok"
                 THEN /\ hdr' = Entry(h) /\ dst' = resolved /\ k' = 0
                      /\ pc' = "clear"
                      /\ UNCHANGED err
                 ELSE Return(resolved.err) /\ UNCHANGED entry

EndOfArchive ==
    /\ pc = "read"
    /\ pc' = "times"
    /\ k' = 1
    /\ UNCHANGED <<tree, opaque, call, archive, base, hdr, dst, n, dirs, listed, err,
                   removals>>

(***************************************************************************)
(* What is there goes, unless both are directories or it must not.         *)
(***************************************************************************)
There == IF hdr.type \in ConvertedType THEN At("notexist", << >>)
         ELSE Lstat(tree, dst.path)

OverwriteAllowed(there) == TRUE
MayOverwrite(there) ==
    options.NoOverwriteDirNonDir => (IsDir(tree, there.at) <=> hdr.type = "dir")

Cleared(there) ==
    CASE there.err # "ok" -> Outcome("ok", tree)
      [] there.err = "ok" /\ ~MayOverwrite(there) -> Outcome("overwrite", tree)
      [] there.err = "ok" /\ MayOverwrite(there) ->
            IF IsDir(tree, there.at) /\ hdr.type = "dir" THEN Outcome("ok", tree)
            ELSE RemoveAll(tree, dst.path)

Clear ==
    /\ pc = "clear"
    /\ Then(Cleared(There), pc' = "remap" /\ UNCHANGED entry)
    /\ UNCHANGED <<opaque, call, archive, base, n, dirs, listed, removals>>

Remap ==
    /\ pc = "remap"
    /\ IF Mapped(hdr.owner)
       THEN /\ hdr' = remapIDs(hdr)
            /\ pc' = "implied"
            /\ UNCHANGED err
       ELSE Return("unmapped") /\ UNCHANGED hdr
    /\ UNCHANGED <<tree, opaque, call, archive, base, dst, k, n, dirs, listed, removals>>

(***************************************************************************)
(* createImpliedDirectories; after it the entry is converted or made.      *)
(***************************************************************************)
AfterImplied == IF Converts /\ hdr.type \in ConvertedType THEN "convert" ELSE "create"

ParentThere == dst.parentWasPresent \/ Parent = << >> \/ Lstat(tree, Parent).err = "ok"

StartImplied ==
    /\ pc = "implied" /\ k = 0
    /\ IF ParentThere THEN pc' = AfterImplied /\ UNCHANGED <<k, err>>
       ELSE LET e == Lstat(tree, Parent).err
            IN  IF e = "notexist" THEN k' = 1 /\ UNCHANGED <<pc, err>>
                ELSE Return(e) /\ UNCHANGED k
    /\ UNCHANGED <<tree, opaque, call, archive, base, hdr, dst, n, dirs, listed, removals>>

MakeImplied ==
    /\ pc = "implied" /\ k \in 1..Len(Parent)
    /\ Then(mkdirImplied(tree, SubSeq(Parent, 1, k), hdr),
            /\ k' = k + 1
            /\ pc' = IF k = Len(Parent) THEN AfterImplied ELSE pc
            /\ UNCHANGED <<hdr, dst>>)
    /\ UNCHANGED <<opaque, call, archive, base, n, dirs, listed, removals>>

(***************************************************************************)
(* ConvertRead: an opaque whiteout marks the directory it lies in, and a   *)
(* whiteout becomes a character device, made in the directory opened, if   *)
(* what it hides is a name.                                                *)
(***************************************************************************)
\* root.Open of the parent.  The device 0:0 has no driver to open.
Open(l) == IF l.err = "ok" /\ tree[l.at].kind = "wh" THEN At("nxio", << >>) ELSE l
OpenedByName == Open(Lstat(tree, Parent))
Opened == Open(Stat(tree, Parent))

MarkOpaque ==
    /\ pc = "convert" /\ hdr.type = "opaque"
    /\ IF Opened.err = "ok"
       THEN /\ opaque' = opaque \union {tree[Opened.at].ino}
            /\ Continue
            /\ UNCHANGED err
       ELSE Return(Opened.err) /\ UNCHANGED <<opaque, entry>>
    /\ UNCHANGED <<tree, call, archive, base, n, dirs, listed, removals>>

InOpened(name) == IF Opened.err = "ok" /\ ~IsDir(tree, Opened.at) THEN At("notdir", << >>)
                  ELSE Inside(Opened, name)

Device == Node("wh", NoLink, Inode(hdr, dst.path), hdr.by, Clock, Process)

PutDevice(l) == IF l.err = "ok" THEN Outcome("ok", PutNode(tree, l.at, Device, Clock))
                ELSE Outcome(l.err, tree)
Mknod(l) ==
    CASE l.err # "ok" -> Outcome(l.err, tree)
      [] l.err = "ok" /\ Exists(tree, l.at) -> Outcome("exist", tree)
      [] l.err = "ok" /\ ~Exists(tree, l.at) -> PutDevice(l)

MakeWhiteout ==
    /\ pc = "convert" /\ hdr.type = "white"
    /\ Then(Mknod(InOpened(Last(dst.path))),
            IF hdr.owner = 0 THEN Continue ELSE pc' = "chown" /\ UNCHANGED entry)
    /\ UNCHANGED <<opaque, call, archive, base, n, dirs, listed, removals>>

ChownWhiteout ==
    /\ pc = "chown"
    /\ tree' = SetMeta(tree, InOpened(Last(dst.path)).at, hdr.owner, Clock)
    /\ Continue
    /\ UNCHANGED <<opaque, call, archive, base, n, dirs, listed, err, removals>>

(***************************************************************************)
(* Any other entry, and the end: the times of the directories.             *)
(***************************************************************************)
RecordedDirs == IF hdr.type = "dir"
                THEN Append(dirs, [name |-> dst.path, time |-> hdr.time]) ELSE dirs

Create ==
    /\ pc = "create"
    /\ LET out == createTarFile(tree, dst.path, hdr)
       IN  /\ Then(out, Continue)
           /\ dirs' = IF out.err = "ok" THEN RecordedDirs ELSE dirs
           /\ listed' = IF out.err = "ok" THEN listed \union {hdr.name} ELSE listed
    /\ UNCHANGED <<opaque, call, archive, base, n, removals>>

FirstTime == dirs[1].time
DirTime == dirs[k].time

RestoreTime ==
    /\ pc = "times" /\ k \in 1..Len(dirs)
    /\ Then(chtimes(tree, dirs[k].name, DirTime),
            k' = k + 1 /\ UNCHANGED <<pc, hdr, dst>>)
    /\ UNCHANGED <<opaque, call, archive, base, n, dirs, listed, removals>>

TimesRestored ==
    /\ pc = "times" /\ k > Len(dirs)
    /\ Return("ok")
    /\ UNCHANGED <<tree, opaque, call, archive, base, entry, n, dirs, listed, removals>>

(***************************************************************************)
(* The environment.  A removal may fail half way, and createTarFile after  *)
(* it made the name but before its owner and times.                        *)
(***************************************************************************)
HalfRemoved ==
    {q \in DOMAIN tree : /\ There.err = "ok" /\ MayOverwrite(There)
                         /\ ~(IsDir(tree, There.at) /\ hdr.type = "dir")
                         /\ Under(There.at, q)}

HalfMade ==
    IF hdr.type \in {"dir", "reg", "sym"} /\ There.err = "notexist"
    THEN {createTarFile(tree, dst.path, [hdr EXCEPT !.owner = Process, !.time = Clock]).tree}
    ELSE {}

\* An operation fails, or the archive ends in the middle of an entry.
Fault ==
    /\ Faults
    /\ pc # "done"
    /\ Return("io")
    /\ \/ UNCHANGED tree
       \/ pc = "clear" /\ \E q \in HalfRemoved : tree' = RemoveTree(tree, q, Clock)
       \/ pc = "create" /\ tree' \in HalfMade
    /\ UNCHANGED <<opaque, call, archive, base, entry, n, dirs, listed, removals>>

\* Another process removes a file or a directory below dest between two entries.
\* Nobody does so below the upper directory of an overlay mount.
RemovedByOther ==
    /\ pc = "read" /\ ~Converts
    /\ removals < MaxRemovals
    /\ removals' = removals + 1
    /\ \E p \in DOMAIN tree \ {<< >>} :
          /\ tree' = RemoveTree(tree, p, Clock)
          /\ base' = IF Exists(base, p) THEN RemoveTree(base, p, Clock) ELSE base
    /\ UNCHANGED <<opaque, call, archive, pc, entry, n, dirs, listed, err>>

Returned ==
    /\ pc = "done"
    /\ UNCHANGED vars

Next ==
    \/ \E h \in archive : Read(h)
    \/ EndOfArchive \/ Clear \/ Remap
    \/ StartImplied \/ MakeImplied
    \/ MarkOpaque \/ MakeWhiteout \/ ChownWhiteout \/ Create
    \/ RestoreTime \/ TimesRestored
    \/ Fault \/ RemovedByOther \/ Returned

Spec == Init /\ [][Next]_vars

-----------------------------------------------------------------------------
(* Properties *)

InEntry == pc \in {"clear", "remap", "implied", "convert", "chown", "create"}

\* The types of the variables: the tree below dest stays a tree, whichever
\* operation fails.
TypeOK ==
    /\ IsTree(tree) /\ IsTree(base) /\ IsTree(lower)
    /\ opaque \subseteq Nat \X Nat
    /\ pc \in {"read", "clear", "remap", "implied", "convert", "chown", "create",
               "times", "done"}
    /\ n \in 0..MaxEntries
    /\ InEntry => /\ hdr.by = n /\ dst.path # << >>
                  /\ hdr.type # "white" => hdr \in Header
    /\ Parent \in Seq(Name)
    /\ k \in Nat
    /\ dirs \in Seq([name : Seq(Name), time : Nat])
    /\ removals \in 0..MaxRemovals

(***************************************************************************)
(* What an overlay mount shows: a file of the upper directory, and a file  *)
(* of the lower ones that no whiteout, no other file and no opaque         *)
(* directory of the upper one hides.  Without lower directories that is    *)
(* the destination itself.                                                 *)
(***************************************************************************)
Hides(upper, q) == Exists(upper, q) /\ (~IsDir(upper, q) \/ upper[q].ino \in opaque)
ShownLower(upper) ==
    {p \in DOMAIN lower \ DOMAIN upper :
        \A i \in 0..Len(p)-1 : ~Hides(upper, SubSeq(p, 1, i))}
ShownUpper(upper) == {p \in DOMAIN upper : upper[p].kind # "wh"}

Mount(upper) ==
    [p \in ShownUpper(upper) \union ShownLower(upper) |->
        Shown(IF Exists(upper, p) THEN upper[p] ELSE lower[p])]

\* Unpack keeps the promise of LayerView.  In the overlay format, what the mount
\* shows is what UnpackLayer makes of the same layer: a whiteout hides, and an
\* opaque directory shows nothing of the lower layers; otherwise the destination
\* itself changes as promised, entry after entry.
Promise == INSTANCE LayerView WITH
    Bottoms   <- {[p \in DOMAIN c.tree \union DOMAIN c.lower |->
                      Shown(IF Exists(c.tree, p) THEN c.tree[p] ELSE c.lower[p])] :
                      c \in Calls},
    Layer     <- UNION {c.archive : c \in Calls},
    NoDevices <- InUserNS,
    Shared    <- MaxRemovals > 0,
    view      <- IF InEntry THEN Mount(base) ELSE Mount(tree),
    pending   <- IF InEntry THEN [type |-> hdr.type, name |-> hdr.name, link |-> hdr.link]
                 ELSE NoEntry,
    applied   <- IF err # "ok" THEN 0 ELSE IF InEntry THEN n - 1 ELSE n,
    status    <- IF err # "ok" THEN "failed"
                 ELSE IF pc = "done" THEN "applied" ELSE "applying"

UnpacksAsLayer == Promise!Spec

\* With NoOverwriteDirNonDir a directory stays one and nothing else becomes one,
\* however the call ends and whatever links the entries' paths go through.
DirsKept ==
    options.NoOverwriteDirNonDir =>
        \A p \in DOMAIN base :
            /\ IsDir(base, p) => IsDir(tree, p)
            /\ ~IsDir(base, p) => ~IsDir(tree, p)

\* When the call has succeeded, a directory the archive lists has the time of
\* its header, unless another directory entry now leads to the same directory
\* or a later entry has put something else there.
DirTimesRestored ==
    (pc = "done" /\ err = "ok" /\ removals = 0) =>
        \A i \in DOMAIN dirs :
            LET at(j) == Stat(tree, dirs[j].name).at
            IN  (IsDir(tree, at(i)) /\ \A j \in DOMAIN dirs \ {i} : at(j) # at(i)) =>
                   tree[at(i)].time = dirs[i].time
=============================================================================
