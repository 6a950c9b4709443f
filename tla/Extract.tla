------------------------------ MODULE Extract ------------------------------
(***************************************************************************)
(* The steps Unpack and UnpackLayer share: where an archive entry lands    *)
(* (resolveArchivePath, resolveHardlinkTarget), how it is written          *)
(* (createTarFile, createImpliedDirectories, chtimes) and whose it becomes *)
(* (remapIDs).  Each operator gives the outcome of one call on a tree: an  *)
(* error name, "ok" when there is none, and the tree afterwards.           *)
(*                                                                         *)
(* An entry is a header record: its type, its name, its link target, its   *)
(* owner, its modification time, and as "by" its position in the archive.  *)
(* A whiteout entry carries the name it hides; an opaque whiteout carries  *)
(* the path of its marker, so that Front of it is the directory; "plnk" is *)
(* a regular file below /.wh..wh.plnk and "meta" any other AUFS metadata;  *)
(* "plink" is a hard link to such a file.                                  *)
(***************************************************************************)
EXTENDS RootFs

CONSTANTS NoLchown,    \* TarOptions.NoLchown
          InUserNS,    \* TarOptions.InUserNS
          MapSize,     \* IDs mapped by TarOptions.IDMap; 0: no mapping
          MapOffset,   \* the host ID of ID 0
          Clock        \* the time the file system stamps on what it changes

ASSUME ExtractAssumption ==
    /\ NoLchown \in BOOLEAN /\ InUserNS \in BOOLEAN
    /\ MapSize \in Nat /\ MapOffset \in Nat /\ Clock \in Nat

EntryType == {"dir", "reg", "sym", "dev", "link", "white", "opaque", "meta",
              "plnk", "plink"}

Opq == ".wh..wh..opq"   \* the marker of an opaque whiteout

EntryName == {p \in Seq(Name \union {Opq}) : p # << >> /\ Front(p) \in Seq(Name)}
Header == [type : EntryType, name : EntryName, link : LinkType, owner : Nat,
           time : Nat, by : Nat \ {0}]

\* The ID the extracting process itself runs as.
Process == 0

(***************************************************************************)
(* IdentityMapping.ToHost of github.com/moby/sys/user: an ID that already  *)
(* is the mapped root is left alone, another must be in the mapping.       *)
(***************************************************************************)
RootID == IF MapSize = 0 THEN 0 ELSE MapOffset
Mapped(id) == MapSize = 0 \/ id = MapOffset \/ id < MapSize
ToHost(id) == IF MapSize = 0 \/ id = MapOffset THEN id ELSE id + MapOffset

remapIDs(hdr) == [hdr EXCEPT !.owner = ToHost(@)]

(***************************************************************************)
(* resolveArchivePath: the name itself when os.Root can reach its parent;  *)
(* otherwise the parent is resolved as in a chroot, unless what left the   *)
(* root was a "..".                                                        *)
(***************************************************************************)
Resolved(err, path, present) ==
    [err |-> err, path |-> path, parentWasPresent |-> present]

AcceptAnyEscape(w) == TRUE
EscapeIsAbsoluteLink(w) == w.followedAbsoluteLink /\ ~w.relativeEscapeBeforeAbsolute

Fallback(name, stat, w) ==
    CASE stat.err = "ok" -> Resolved("ok", name, TRUE)
      [] stat.err \notin {"ok", "notexist", "escapes"} ->
            Resolved(stat.err, << >>, FALSE)
      [] stat.err \in {"notexist", "escapes"} ->
            IF w.err # "ok" THEN Resolved(w.err, << >>, FALSE)
            ELSE IF stat.err = "escapes" /\ ~EscapeIsAbsoluteLink(w)
            THEN Resolved("escapes", << >>, FALSE)
            ELSE Resolved("ok", Append(w.at, Last(name)), FALSE)

resolveArchivePath(tree, name) ==
    Fallback(name, Stat(tree, Front(name)), Walk(tree, Front(name), TRUE, TRUE))

\* A hardlink target that is not a path below the root is refused; a leading
\* "/" is stripped, so an absolute target is its path below the root.
resolveHardlinkTarget(tree, linkname) ==
    IF linkname = << >> \/ Head(linkname) = Up
    THEN Resolved("breakout", << >>, FALSE)
    ELSE resolveArchivePath(tree, linkname)

(***************************************************************************)
(* createTarFile.                                                          *)
(***************************************************************************)
Outcome(err, tree) == [err |-> err, tree |-> tree]

Inode(hdr, at) == <<hdr.by, Len(at)>>
OwnerOf(hdr)   == IF NoLchown THEN Process ELSE hdr.owner

New(hdr, at, kind, link) ==
    Node(kind, link, Inode(hdr, at), hdr.by, hdr.time, OwnerOf(hdr))

\* Lchown, the mode and the times, on a node that was there already.
Stamp(tree, at, hdr) ==
    LET owned == IF NoLchown THEN tree[at].owner ELSE hdr.owner
    IN  SetMeta([tree EXCEPT ![at].by = hdr.by], at, owned, hdr.time)

\* Mkdir, Mknod and Symlink make a new name or fail.
MakeNew(tree, l, hdr, kind, link) ==
    CASE l.err # "ok" -> Outcome(l.err, tree)
      [] l.err = "ok" /\ Exists(tree, l.at) -> Outcome("exist", tree)
      [] l.err = "ok" /\ ~Exists(tree, l.at) ->
            Outcome("ok", PutNode(tree, l.at, New(hdr, l.at, kind, link), Clock))

\* An existing directory is merged with.
MakeDir(tree, l, hdr) ==
    IF l.err = "ok" /\ IsDir(tree, l.at)
    THEN Outcome("ok", Stamp(tree, l.at, hdr))
    ELSE MakeNew(tree, l, hdr, "dir", NoLink)

\* OpenFile creates or truncates; the callers give it no symlink.
WriteFile(tree, l, hdr) ==
    IF l.err = "ok" /\ Exists(tree, l.at)
    THEN IF tree[l.at].kind = "reg" THEN Outcome("ok", Stamp(tree, l.at, hdr))
         ELSE Outcome("exist", tree)
    ELSE MakeNew(tree, l, hdr, "reg", NoLink)

\* The new name shares the target's inode, whose owner and, unless it is a
\* symlink, times become the header's.
LinkFrom(tree, l, hdr, from) ==
    CASE from.err # "ok" -> Outcome(from.err, tree)
      [] from.err = "ok" /\ IsDir(tree, from.at) -> Outcome("perm", tree)
      [] from.err = "ok" /\ ~IsDir(tree, from.at) ->
            IF l.err # "ok" THEN Outcome(l.err, tree)
            ELSE IF Exists(tree, l.at) THEN Outcome("exist", tree)
            ELSE LET linked == PutNode(tree, l.at, tree[from.at], Clock)
                     header == IF tree[from.at].kind = "sym"
                               THEN [hdr EXCEPT !.time = tree[from.at].time] ELSE hdr
                 IN  Outcome("ok", Stamp(linked, l.at, header))

TargetOf(tree, target) ==
    IF target.err = "ok" THEN Lstat(tree, target.path) ELSE At(target.err, << >>)

MakeLink(tree, l, hdr) ==
    LinkFrom(tree, l, hdr, TargetOf(tree, resolveHardlinkTarget(tree, hdr.link.to)))

CreateAt(tree, l, hdr) ==
    CASE hdr.type = "dir"  -> MakeDir(tree, l, hdr)
      [] hdr.type = "reg"  -> WriteFile(tree, l, hdr)
      [] hdr.type = "dev"  -> IF InUserNS THEN Outcome("ok", tree)
                              ELSE MakeNew(tree, l, hdr, "dev", NoLink)
      [] hdr.type = "sym"  -> MakeNew(tree, l, hdr, "sym", hdr.link)
      [] hdr.type = "link" -> MakeLink(tree, l, hdr)

createTarFile(tree, dstPath, hdr) == CreateAt(tree, Locate(tree, dstPath), hdr)

(***************************************************************************)
(* createImpliedDirectories: one pass of its loop, the Mkdir of one parent *)
(* directory.  A component that is there must be a directory, or a link to *)
(* one.  The new directory belongs to the mapped root.                     *)
(***************************************************************************)
ImpliedAt(tree, l, stat, hdr) ==
    CASE l.err # "ok" -> Outcome(l.err, tree)
      [] l.err = "ok" /\ ~Exists(tree, l.at) ->
            Outcome("ok", PutNode(tree, l.at,
                Node("dir", NoLink, Inode(hdr, l.at), hdr.by, Clock,
                     IF NoLchown THEN Process ELSE RootID), Clock))
      [] l.err = "ok" /\ Exists(tree, l.at) ->
            IF stat.err # "ok" THEN Outcome(stat.err, tree)
            ELSE IF IsDir(tree, stat.at) THEN Outcome("ok", tree)
            ELSE Outcome("notdir", tree)

mkdirImplied(tree, cur, hdr) == ImpliedAt(tree, Locate(tree, cur), Stat(tree, cur), hdr)

\* chtimes follows symlinks.
SetTime(tree, stat, time) ==
    IF stat.err # "ok" THEN Outcome(stat.err, tree)
    ELSE Outcome("ok", SetMeta(tree, stat.at, tree[stat.at].owner, time))

chtimes(tree, p, time) == SetTime(tree, Stat(tree, p), time)

\* RemoveAll of something that is not there succeeds.
RemoveLocated(tree, l) ==
    CASE l.err \notin {"ok", "notexist"} -> Outcome(l.err, tree)
      [] l.err = "notexist" \/ (l.err = "ok" /\ ~Exists(tree, l.at)) -> Outcome("ok", tree)
      [] l.err = "ok" /\ Exists(tree, l.at) -> Outcome("ok", RemoveTree(tree, l.at, Clock))

RemoveAll(tree, p) == RemoveLocated(tree, Locate(tree, p))
=============================================================================
