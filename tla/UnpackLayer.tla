---------------------------- MODULE UnpackLayer ----------------------------
(***************************************************************************)
(* UnpackLayer (diff.go): applying a layer in the AUFS whiteout format to  *)
(* a directory.  The entries are read one by one; one action is one        *)
(* operation on the file system.  Between any two of them another process  *)
(* may remove files below the directory, and any of them may fail.         *)
(***************************************************************************)
EXTENDS Extract

CONSTANTS Layer,        \* the entries an archive may hold
          MaxEntries,   \* entries in one archive
          Lowers,       \* the trees the layer may be applied to
          TempName,     \* the name MkdirTemp picks in the destination
          Faults,       \* whether operations may fail
          MaxRemovals,  \* subtrees other processes remove meanwhile
          RemovedAt     \* the points of the loop where they do

\* An entry as the archive holds it.  Only opaque whiteouts end in the marker.
HeaderIn == {h \in [type : EntryType, name : EntryName, link : LinkType, owner : Nat] :
                h.type # "opaque" => h.name \in Seq(Name)}

\* The name MkdirTemp picks is random: no entry and no link uses it.
Spared == (Part \union {Opq}) \ {TempName}

ASSUME UnpackLayerAssumption ==
    /\ MaxEntries \in Nat /\ MaxRemovals \in Nat
    /\ Faults \in BOOLEAN
    /\ TempName \in Name
    /\ Clock > MaxEntries
    /\ \A t \in Lowers : /\ IsTree(t)
                         /\ <<TempName>> \notin DOMAIN t
                         /\ \A p \in DOMAIN t : /\ t[p].by = 0 /\ t[p].ino[1] = 0
                                                /\ t[p].link.to \in Seq(Spared)
                         \* A directory has one name.
                         /\ \A p, q \in DOMAIN t :
                               IsDir(t, p) /\ t[p].ino = t[q].ino => p = q
    /\ Layer \subseteq HeaderIn
    /\ \A h \in Layer : h.name \in Seq(Spared) /\ h.link.to \in Seq(Spared)

VARIABLES tree,           \* what is on disk below dest
          base,           \* what was on disk when the current entry was read
          pc, hdr, dst, k,
          n,              \* entries read
          unpackedPaths, dirs, aufsHardlinks,
          aufsTempdir,    \* whether the temporary directory was made
          removeErr,      \* the error of the deferred removal, which is discarded
          err,
          removals        \* subtrees removed by other processes

entry == <<hdr, dst, k>>
local == <<unpackedPaths, dirs, aufsHardlinks, aufsTempdir, removeErr>>
vars  == <<tree, base, pc, entry, n, local, err, removals>>

NoEntry == [type |-> "none"]
NoPath  == Resolved("ok", << >>, TRUE)

Init ==
    /\ tree \in Lowers
    /\ base = tree
    /\ pc = "read"
    /\ hdr = NoEntry /\ dst = NoPath /\ k = 0
    /\ n = 0
    /\ unpackedPaths = {}
    /\ dirs = << >>
    /\ aufsHardlinks = << >>
    /\ aufsTempdir = FALSE /\ removeErr = "ok"
    /\ err = "ok"
    /\ removals = 0

\* Every error return runs the deferred removal of the temporary directory.
Return(e) ==
    /\ pc' = "cleanup"
    /\ err' = e

\* The loop goes on to the next entry.
Continue ==
    /\ pc' = "read"
    /\ hdr' = NoEntry /\ dst' = NoPath /\ k' = 0

Parent == Front(dst.path)
(***************************************************************************)
(* Reading an entry and resolving its name.                                *)
(***************************************************************************)
Read(h) ==
    /\ pc = "read"
    /\ n < MaxEntries
    /\ n' = n + 1
    /\ base' = tree
    /\ UNCHANGED <<tree, local, removals>>
    /\ LET header   == [type |-> h.type, name |-> h.name, link |-> h.link,
                        owner |-> h.owner, time |-> n + 1, by |-> n + 1]
           resolved == resolveArchivePath(tree, h.name)
       IN  \/ /\ h.type = "meta"
              /\ Continue
              /\ UNCHANGED err
           \/ /\ h.type = "plnk"
              /\ pc' = "plnk"
              /\ hdr' = header
              /\ UNCHANGED <<dst, k, err>>
           \/ /\ h.type \notin {"meta", "plnk"}
              /\ resolved.err = "ok"
              /\ hdr' = header /\ dst' = resolved /\ k' = 0
              /\ pc' = "implied"
              /\ UNCHANGED err
           \/ /\ h.type \notin {"meta", "plnk"}
              /\ resolved.err # "ok"
              /\ Return(resolved.err)
              /\ UNCHANGED entry

\* The end of the archive: the directory times are next.
EndOfArchive ==
    /\ pc = "read"
    /\ pc' = "times"
    /\ k' = 1
    /\ UNCHANGED <<tree, base, hdr, dst, n, local, err, removals>>

(***************************************************************************)
(* A regular file below /.wh..wh.plnk goes to the temporary directory,     *)
(* which lies in the destination and is made for the first of them.        *)
(***************************************************************************)
WithHeader == [x \in DOMAIN aufsHardlinks \union {hdr.name} |->
                  IF x = hdr.name THEN hdr ELSE aufsHardlinks[x]]

MakesTemp == pc = "plnk" /\ (aufsTempdir \/ ~Exists(tree, <<TempName>>))

TempNode == Node("dir", NoLink, <<n, 0>>, n, Clock, Process)
TempMade == IF aufsTempdir THEN tree ELSE PutNode(tree, <<TempName>>, TempNode, Clock)

PlnkPath == <<TempName>> \o hdr.name
PlnkHdr  == [hdr EXCEPT !.type = "reg"]
PlnkMade == createTarFile(TempMade, PlnkPath, PlnkHdr)

ExtractPlnk ==
    /\ MakesTemp
    /\ aufsHardlinks' = WithHeader
    /\ aufsTempdir' = TRUE
    /\ tree' = PlnkMade.tree
    /\ IF PlnkMade.err = "ok" THEN Continue /\ UNCHANGED err
       ELSE Return(PlnkMade.err) /\ UNCHANGED entry
    /\ UNCHANGED <<base, n, unpackedPaths, dirs, removeErr, removals>>

(***************************************************************************)
(* createImpliedDirectories.                                               *)
(***************************************************************************)
ParentThere == dst.parentWasPresent \/ Parent = << >> \/ Lstat(tree, Parent).err = "ok"

SkipImplied ==
    /\ pc = "implied" /\ k = 0
    /\ ParentThere
    /\ pc' = "apply"
    /\ UNCHANGED <<tree, base, entry, n, local, err, removals>>

StartImplied ==
    /\ pc = "implied" /\ k = 0
    /\ ~ParentThere
    /\ LET e == Lstat(tree, Parent).err
       IN  IF e = "notexist" THEN k' = 1 /\ UNCHANGED <<pc, err>>
           ELSE Return(e) /\ UNCHANGED k
    /\ UNCHANGED <<tree, base, hdr, dst, n, local, removals>>

MakeImplied ==
    /\ pc = "implied" /\ k \in 1..Len(Parent)
    /\ LET out == mkdirImplied(tree, SubSeq(Parent, 1, k), hdr)
       IN  /\ tree' = out.tree
           /\ IF out.err = "ok" THEN k' = k + 1 /\ UNCHANGED <<pc, err>>
              ELSE Return(out.err) /\ UNCHANGED k
    /\ UNCHANGED <<base, hdr, dst, n, local, removals>>

ImpliedMade ==
    /\ pc = "implied" /\ k > Len(Parent)
    /\ pc' = "apply"
    /\ UNCHANGED <<tree, base, entry, n, local, err, removals>>

(***************************************************************************)
(* Whiteouts.                                                              *)
(***************************************************************************)
Whiteout ==
    /\ pc = "apply" /\ hdr.type = "white"
    /\ LET out == RemoveAll(tree, dst.path)
       IN  /\ tree' = out.tree
           /\ IF out.err = "ok" THEN Continue /\ UNCHANGED err
              ELSE Return(out.err) /\ UNCHANGED entry
    /\ UNCHANGED <<base, n, local, removals>>

(***************************************************************************)
(* The walk of an opaque whiteout below d, the directory's resolved path:  *)
(* it removes what is not in unpackedPaths and looks into the rest.        *)
(***************************************************************************)
SurvivesByParent(d, q) == Len(q) > Len(d) + 1 => Front(q) \in unpackedPaths
SurvivesByName(d, q)   == q \in unpackedPaths
Survives(d, q) == \A i \in Len(d)+1..Len(q) : SubSeq(q, 1, i) \in unpackedPaths

Kept(d) == {q \in DOMAIN tree : Below(d, q) => Survives(d, q)}

AfterWalk(d) ==
    [q \in Kept(d) |->
        IF IsDir(tree, q) /\ \E r \in DOMAIN tree \ Kept(d) : Front(r) = q
        THEN [tree[q] EXCEPT !.time = Clock] ELSE tree[q]]

Opaque ==
    /\ pc = "apply" /\ hdr.type = "opaque"
    /\ LET seen == Lstat(tree, Parent)
           dir  == Walk(tree, Parent, TRUE, TRUE)
       IN  \/ /\ seen.err # "ok"
              /\ Return(seen.err)
              /\ UNCHANGED <<tree, entry>>
           \/ /\ seen.err = "ok" /\ dir.err # "ok"
              /\ Return(dir.err)
              /\ UNCHANGED <<tree, entry>>
           \/ /\ seen.err = "ok" /\ dir.err = "ok"
              /\ tree' = AfterWalk(dir.at)
              /\ Continue
              /\ UNCHANGED err
    /\ UNCHANGED <<base, n, local, removals>>

(***************************************************************************)
(* Any other entry: what is there goes, unless both are directories.       *)
(***************************************************************************)
RemovesAll(there)  == TRUE
RemovesFirst(there) == tree[there].kind # "dir" \/ hdr.type # "dir"

Clear ==
    /\ pc = "apply" /\ hdr.type \notin {"white", "opaque"}
    /\ LET there == Lstat(tree, dst.path)
       IN  tree' = IF there.err = "ok" /\ RemovesFirst(there.at)
                   THEN RemoveTree(tree, there.at, Clock) ELSE tree
    /\ pc' = "create"
    /\ UNCHANGED <<base, entry, n, local, err, removals>>

(***************************************************************************)
(* The source of the entry: itself, or for a link into /.wh..wh.plnk the   *)
(* file kept in the temporary directory, with that file's header.          *)
(***************************************************************************)
srcHdr == IF hdr.type = "plink"
          THEN [aufsHardlinks[hdr.link.to] EXCEPT !.type = "reg", !.by = n]
          ELSE hdr

SourceError ==
    IF hdr.type # "plink" THEN "ok"
    ELSE IF hdr.link.to \notin DOMAIN aufsHardlinks THEN "badlink"
    ELSE IF ~Exists(tree, <<TempName>> \o hdr.link.to) THEN "notexist"
    ELSE "ok"

\* remapIDs changes the header in place, and aufsHardlinks keeps that header.
RemappedLinks ==
    IF hdr.type # "plink" THEN aufsHardlinks
    ELSE [aufsHardlinks EXCEPT ![hdr.link.to] = remapIDs(@)]

RecordedDirs == IF hdr.type = "dir"
                THEN Append(dirs, [name |-> dst.path, time |-> hdr.time]) ELSE dirs

Create ==
    /\ pc = "create"
    /\ \/ /\ SourceError # "ok"
          /\ Return(SourceError)
          /\ UNCHANGED <<tree, entry, unpackedPaths, dirs, aufsHardlinks>>
       \/ /\ SourceError = "ok" /\ ~Mapped(srcHdr.owner)
          /\ Return("unmapped")
          /\ UNCHANGED <<tree, entry, unpackedPaths, dirs, aufsHardlinks>>
       \/ /\ SourceError = "ok" /\ Mapped(srcHdr.owner)
          /\ aufsHardlinks' = RemappedLinks
          /\ LET out == createTarFile(tree, dst.path, remapIDs(srcHdr))
             IN  /\ tree' = out.tree
                 /\ \/ /\ out.err = "ok"
                       /\ dirs' = RecordedDirs
                       /\ unpackedPaths' = unpackedPaths \union {dst.path}
                       /\ Continue
                       /\ UNCHANGED err
                    \/ /\ out.err # "ok"
                       /\ Return(out.err)
                       /\ UNCHANGED <<entry, unpackedPaths, dirs>>
    /\ UNCHANGED <<base, n, aufsTempdir, removeErr, removals>>

(***************************************************************************)
(* The end: directory times, then the deferred removal.                    *)
(***************************************************************************)
NoTime == Clock
DirTime == dirs[k].time

RestoreTime ==
    /\ pc = "times" /\ k \in 1..Len(dirs)
    /\ LET out == chtimes(tree, dirs[k].name, DirTime)
       IN  /\ tree' = out.tree
           /\ IF out.err = "ok" THEN k' = k + 1 /\ UNCHANGED <<pc, err>>
              ELSE Return(out.err) /\ UNCHANGED k
    /\ UNCHANGED <<base, hdr, dst, n, local, removals>>

TimesRestored ==
    /\ pc = "times" /\ k > Len(dirs)
    /\ Return("ok")
    /\ UNCHANGED <<tree, base, entry, n, local, removals>>

RemovesTempOnSuccess == aufsTempdir /\ err = "ok"
RemovesTemp == aufsTempdir

Cleanup ==
    /\ pc = "cleanup"
    /\ pc' = "done"
    /\ tree' = IF RemovesTemp /\ Exists(tree, <<TempName>>)
               THEN RemoveTree(tree, <<TempName>>, Clock) ELSE tree
    /\ UNCHANGED <<base, entry, n, local, err, removals>>

\* os.RemoveAll takes what is in the directory before the directory itself, and
\* may fail anywhere: nobody looks at its error, err stays as it is.
CleanupPart ==
    /\ pc = "cleanup" /\ RemovesTemp
    /\ \E q \in DOMAIN tree : /\ Below(<<TempName>>, q)
                              /\ tree' = RemoveTree(tree, q, Clock)
    /\ UNCHANGED <<base, pc, entry, n, local, err, removals>>

CleanupFails ==
    /\ Faults
    /\ pc = "cleanup" /\ RemovesTemp /\ Exists(tree, <<TempName>>)
    /\ pc' = "done"
    /\ removeErr' = "io"
    /\ UNCHANGED <<tree, base, entry, n, unpackedPaths, dirs, aufsHardlinks, aufsTempdir, err,
                   removals>>

(***************************************************************************)
(* The environment.                                                        *)
(***************************************************************************)
\* What RemoveAll may have removed when it fails, and what createTarFile may
\* have made, without owner and times, when it fails.
HalfRemoved ==
    IF hdr.type = "opaque"
    THEN LET dir == Walk(tree, Parent, TRUE, TRUE)
         IN  {q \in DOMAIN tree \ Kept(dir.at) : dir.err = "ok"}
    ELSE {q \in DOMAIN tree : LET there == Lstat(tree, dst.path)
                              IN  /\ there.err = "ok" /\ Under(there.at, q)
                                  /\ hdr.type = "white" \/ RemovesFirst(there.at)}

HalfMade ==
    IF /\ SourceError = "ok" /\ srcHdr.type \in {"dir", "reg", "sym"}
       /\ Lstat(tree, dst.path).err = "notexist"
    THEN {createTarFile(tree, dst.path,
                        [srcHdr EXCEPT !.owner = Process, !.time = Clock]).tree}
    ELSE {}

\* Opening the temporary directory fails once it is made, or writing the file does.
HalfPlnk == createTarFile(TempMade, PlnkPath, [PlnkHdr EXCEPT !.owner = Process, !.time = Clock])

PlnkFails ==
    /\ Faults
    /\ MakesTemp
    /\ aufsHardlinks' = WithHeader
    /\ aufsTempdir' = TRUE
    /\ tree' \in {TempMade, HalfPlnk.tree}
    /\ Return("io")
    /\ UNCHANGED <<base, entry, n, unpackedPaths, dirs, removeErr, removals>>

\* Any other operation that is not deferred fails, or the archive ends in the
\* middle of an entry.
Fault ==
    /\ Faults
    /\ pc \notin {"cleanup", "done"}
    /\ Return("io")
    /\ \/ UNCHANGED tree
       \/ pc = "apply" /\ \E q \in HalfRemoved : tree' = RemoveTree(tree, q, Clock)
       \/ pc = "create" /\ tree' \in HalfMade
    /\ UNCHANGED <<base, entry, n, local, removals>>

\* Another process removes a file or a directory below dest.
RemovedByOther ==
    /\ pc \in RemovedAt
    /\ removals < MaxRemovals
    /\ removals' = removals + 1
    /\ \E p \in DOMAIN tree \ {<< >>} :
          /\ tree' = RemoveTree(tree, p, Clock)
          /\ base' = IF Exists(base, p) THEN RemoveTree(base, p, Clock) ELSE base
    /\ UNCHANGED <<pc, entry, n, local, err>>

Returned ==
    /\ pc = "done"
    /\ UNCHANGED vars

Next ==
    \/ \E h \in Layer : Read(h)
    \/ EndOfArchive \/ ExtractPlnk
    \/ SkipImplied \/ StartImplied \/ MakeImplied \/ ImpliedMade
    \/ Whiteout \/ Opaque \/ Clear \/ Create
    \/ RestoreTime \/ TimesRestored \/ Cleanup \/ CleanupPart \/ CleanupFails
    \/ Fault \/ PlnkFails \/ RemovedByOther \/ Returned

Spec == Init /\ [][Next]_vars

-----------------------------------------------------------------------------
(* Properties *)

InEntry == pc \in {"plnk", "implied", "apply", "create"}

\* The types of the variables: at every point, whatever other processes remove
\* and whichever operation fails, the tree below dest is a tree, and the paths
\* recorded are paths below dest.
TypeOK ==
    /\ IsTree(tree) /\ IsTree(base)
    /\ pc \in {"read", "plnk", "implied", "apply", "create", "times", "cleanup", "done"}
    /\ n \in 0..MaxEntries
    /\ InEntry => hdr \in Header /\ hdr.by = n
    /\ dst.path \in Seq(Name \union {Opq})
    /\ Parent \in Seq(Name)
    /\ InEntry /\ pc # "plnk" =>
          dst.path # << >> /\ (hdr.type # "opaque" => dst.path \in Seq(Name))
    /\ k \in Nat
    /\ unpackedPaths \subseteq Seq(Name)
    /\ dirs \in Seq([name : Seq(Name), time : Nat])
    /\ \A x \in DOMAIN aufsHardlinks : aufsHardlinks[x] \in Header
    /\ aufsTempdir \in BOOLEAN /\ removeErr \in {"ok", "io"}
    /\ removals \in 0..MaxRemovals

\* UnpackLayer keeps the promise of LayerView: seen through the image's root,
\* each entry is one atomic change, whatever symlinks its path goes through,
\* and an error leaves everything but its own entry alone.
Visible(t) == [p \in {q \in DOMAIN t : ~Under(<<TempName>>, q)} |-> Shown(t[p])]

Promise == INSTANCE LayerView WITH
    Bottoms   <- {Visible(t) : t \in Lowers},
    Skipped   <- {},
    NoDevices <- InUserNS,
    Shared    <- MaxRemovals > 0,
    view      <- IF InEntry THEN Visible(base) ELSE Visible(tree),
    listed    <- unpackedPaths,
    pending   <- IF InEntry THEN [type |-> hdr.type, name |-> hdr.name, link |-> hdr.link]
                 ELSE NoEntry,
    applied   <- IF err # "ok" THEN 0 ELSE IF InEntry THEN n - 1 ELSE n,
    status    <- IF err # "ok" THEN "failed"
                 ELSE IF pc \in {"cleanup", "done"} THEN "applied" ELSE "applying"

AppliesAsLayer == Promise!Spec

\* An opaque whiteout is about to walk directory d.
WalksBelow(d) ==
    /\ pc = "apply" /\ hdr.type = "opaque"
    /\ pc' = "read"
    /\ d = Walk(tree, Parent, TRUE, TRUE).at

\* After an opaque whiteout no file of a lower layer is left below its
\* directory, whichever names unpackedPaths holds by then and whatever other
\* processes removed.
LowerHidden ==
    [][\A d \in DOMAIN tree : WalksBelow(d) =>
          \A q \in DOMAIN tree' : Below(d, q) => tree'[q].by > 0]_vars

\* When the call has returned, with or without an error, the temporary
\* directory for the /.wh..wh.plnk files is not left in the destination, unless
\* its removal itself failed.  (That error is discarded: the call may then have
\* succeeded all the same, and the directory is left.)
TempDirGone == pc = "done" /\ removeErr = "ok" => <<TempName>> \notin DOMAIN tree

\* When the call has succeeded, a directory the layer lists has the time of its
\* header, although files were made and removed in it later, unless another
\* directory entry now leads to the same directory or a later entry has put
\* something else there.  An entry for the root is skipped, so the root, where
\* only a later link can lead, has no header.
DirTimesRestored ==
    (pc = "done" /\ err = "ok" /\ removals = 0) =>
        \A i \in DOMAIN dirs :
            LET at(j) == Stat(tree, dirs[j].name).at
            IN  (/\ IsDir(tree, at(i)) /\ at(i) # << >>
                 /\ \A j \in DOMAIN dirs \ {i} : at(j) # at(i)) =>
                   tree[at(i)].time = dirs[i].time

\* A comment of UnpackLayer: the files in /.wh..wh.plnk "can be used as hardlink
\* targets".  A link to one does not fail for want of an ID mapping that the
\* file's header has.
PlnkLinksApply ==
    (err = "unmapped" /\ hdr.type = "plink") =>
        \E h \in Layer : h.type = "plnk" /\ h.name = hdr.link.to /\ ~Mapped(h.owner)
=============================================================================
