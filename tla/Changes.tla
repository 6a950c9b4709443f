------------------------------ MODULE Changes ------------------------------
(***************************************************************************)
(* Finding out what changed between two trees and exporting it as a layer  *)
(* (changes.go, changes_linux.go).  ChangesDirs walks the old and the new  *)
(* directory side by side, one system call per step, and compares what it  *)
(* saw.  Changes walks the upper branch of an AUFS mount instead.          *)
(* ExportChanges then writes the archive, reading each file again; the     *)
(* container may change its files all the while.                           *)
(***************************************************************************)
EXTENDS Pack

CONSTANT Cases    \* the trees compared, see below

\* A case: the lower tree, what the container sees, the upper AUFS branch,
\* which of the two functions is called, whether the trees are on one device,
\* and how many times the container changes something.  In the branch the
\* whiteout of a name is a node of kind "wh" of that name.
ASSUME ChangesAssumption ==
    /\ \A c \in Cases :
          /\ IsTree(c.old) /\ IsTree(c.new)
          /\ c.tool \in {"ChangesDirs", "Changes"}
          /\ c.sameDevice \in BOOLEAN /\ c.moves \in Nat

VARIABLES old, new, rw, tool, sameDevice,
          step,          \* where the functions are
          todo,          \* the paths the walk has to visit
          info1, info2,  \* the FileInfo trees found in old and in new
          changes,       \* a set, since ExportChanges sorts the list
          changedDirs,
          unwritten,     \* the changes ExportChanges has not come to
          SeenFiles,
          sent,          \* the node whose header was written last
          archive,
          cut,           \* whether the archive lacks the end of its last entry
          moves,         \* changes the container may still make
          touched        \* the paths it has changed

trees == <<old, new, rw, tool, sameDevice>>
found == <<todo, info1, info2, changes, changedDirs>>
out   == <<unwritten, SeenFiles, sent, archive, cut>>
vars  == <<trees, step, found, out, moves, touched>>

NoNode == Node("dir", NoLink, <<0, 0>>, 0, 0, 0)

Init ==
    /\ \E c \in Cases :
          /\ old = c.old /\ new = c.new /\ rw = c.rw
          /\ tool = c.tool /\ sameDevice = c.sameDevice /\ moves = c.moves
          /\ step = IF c.tool = "Changes" THEN "visit" ELSE "readdir"
    /\ todo = << << >> >>
    /\ info1 = << >> /\ info2 = << >>
    /\ changes = {} /\ changedDirs = {}
    /\ unwritten = {} /\ SeenFiles = << >> /\ sent = NoNode
    /\ archive = << >> /\ cut = FALSE
    /\ touched = {}

With(f, p, node) == [q \in DOMAIN f \union {p} |-> IF q = p THEN node ELSE f[q]]

Change(path, kind) == [path |-> path, kind |-> kind]

(***************************************************************************)
(* walker.walk.  One step stats a name in both trees, the next reads both  *)
(* directories.  A name that is gone is no error; a directory that is gone *)
(* ends the walk with one.                                                 *)
(***************************************************************************)
Here == Head(todo)
WasDir(info, p) == p = << >> \/ (p \in DOMAIN info /\ info[p].kind = "dir")

Register(info, t, p) ==
    IF WasDir(info, Front(p)) /\ Exists(t, p) THEN With(info, p, t[p]) ELSE info

\* Lstat below what is no directory any more fails with ENOTDIR.
StatFailsIfGone == WasDir(info2, Front(Here)) /\ ~Exists(new, Here) /\ ~Exists(old, Here)
StatFails == /\ WasDir(info2, Front(Here))
             /\ Exists(new, Front(Here)) /\ ~IsDir(new, Front(Here))

StatName ==
    /\ step = "stat" /\ todo # << >>
    /\ IF StatFails THEN step' = "failed" /\ UNCHANGED <<info1, info2, todo>>
       ELSE /\ info1' = Register(info1, old, Here)
            /\ info2' = Register(info2, new, Here)
            /\ IF WasDir(info1', Here) \/ WasDir(info2', Here)
               THEN step' = "readdir" /\ UNCHANGED todo
               ELSE todo' = Tail(todo) /\ UNCHANGED step
    /\ UNCHANGED <<trees, changes, changedDirs, out, moves, touched>>

SameNumber(p) == Exists(old, p) /\ Exists(new, p) /\ old[p].ino = new[p].ino

\* Two names of one inode on one device are the same file: what is below it
\* cannot differ, and the walk leaves it out.
SameFile(p) == /\ Exists(old, p) /\ Exists(new, p)
               /\ old[p].ino = new[p].ino
               /\ sameDevice /\ WasDir(info1, Here) /\ WasDir(info2, Here)

InBoth(d) == {p \in (IF WasDir(info1, d) THEN NamesIn(old, d) ELSE {}) \union
                    (IF WasDir(info2, d) THEN NamesIn(new, d) ELSE {}) : ~SameFile(p)}

ReadNames ==
    /\ step = "readdir"
    /\ IF WasDir(info2, Here) /\ ~IsDir(new, Here)
       THEN step' = "failed" /\ UNCHANGED todo
       ELSE step' = "stat" /\ todo' = Sorted(InBoth(Here)) \o Tail(todo)
    /\ UNCHANGED <<trees, info1, info2, changes, changedDirs, out, moves, touched>>

(***************************************************************************)
(* FileInfo.addChanges, for the whole tree.  Of a directory the time is    *)
(* not compared, of a link the target is not: its time tells.              *)
(***************************************************************************)
statDifferent(o, f) ==
    \/ o.kind # f.kind \/ o.owner # f.owner
    \/ o.kind # "dir" /\ ~sameFsTime(o.time, f.time)

OldOf(p) == p \in DOMAIN info1 /\ WasDir(info2, Front(p))
Added    == {p \in DOMAIN info2 : ~OldOf(p)}
Differs  == {p \in DOMAIN info2 : OldOf(p) /\ statDifferent(info1[p], info2[p])}
DeletedDeep == {p \in DOMAIN info1 : p \notin DOMAIN info2}
\* A directory that is gone stands for all that was in it.
Deleted  == {p \in DOMAIN info1 : p \notin DOMAIN info2 /\ WasDir(info2, Front(p))}
Changed  == Added \union Differs \union Deleted
HoldingAny == {p \in DOMAIN info2 : WasDir(info2, p) /\ \E q \in Changed : Below(p, q)}
Holding  == {p \in DOMAIN info2 \ Changed :
                WasDir(info2, p) /\ \E q \in Changed : Below(p, q)}

Compare ==
    /\ step = "stat" /\ todo = << >>
    /\ changes' = {Change(p, "A") : p \in Added} \union
                  {Change(p, "C") : p \in Differs \union Holding} \union
                  {Change(p, "D") : p \in Deleted}
    /\ unwritten' = changes'
    /\ step' = "export"
    /\ UNCHANGED <<trees, todo, info1, info2, changedDirs, SeenFiles, sent, archive,
                   cut, moves, touched>>

(***************************************************************************)
(* collectChanges: one visit of filepath.Walk in the AUFS branch.  Entries *)
(* of the root that begin with ".wh..wh." are skipped.  A path that is     *)
(* gone ends the walk, without an error.                                   *)
(***************************************************************************)
\* os.Stat follows links; one that leaves the layer is taken to lead nowhere.
InLayer(p) == Stat(old, p)
LayerFails(p) == InLayer(p).err \in {"notdir", "loop"}

\* The directory was only copied up because something in it changed.
DirUnchanged(p) ==
    /\ InLayer(p).err = "ok" /\ IsDir(old, InLayer(p).at) /\ IsDir(rw, p)
    /\ sameFsTime(rw[p].time, old[InLayer(p).at].time)

KindOf(p) == IF rw[p].kind = "wh" \/ Last(p) = Opq THEN "D"
             ELSE IF InLayer(p).err = "ok" THEN "C" ELSE "A"

\* The parent of what is added or deleted is recorded as modified.
Recorded(p) ==
    LET parent == Front(p)
        unseen == KindOf(p) # "C" /\ parent # << >> /\ parent \notin changedDirs
    IN  [changes |-> {Change(p, KindOf(p))} \union
                     (IF unseen THEN {Change(parent, "C")} ELSE {}),
         dirs    |-> (IF IsDir(rw, p) THEN {p} ELSE {}) \union
                     (IF unseen THEN {parent} ELSE {})]

Skips(p) == p = << >> \/ p = <<Opq>>

Visit ==
    /\ step = "visit" /\ todo # << >>
    /\ IF ~Exists(rw, Here)
       THEN todo' = << >> /\ UNCHANGED <<changes, changedDirs, step>>
       ELSE /\ todo' = Sorted(NamesIn(rw, Here)) \o Tail(todo)
            /\ IF Skips(Here) \/ (KindOf(Here) # "D" /\ DirUnchanged(Here))
               THEN UNCHANGED <<changes, changedDirs, step>>
               ELSE IF KindOf(Here) # "D" /\ LayerFails(Here)
               THEN step' = "failed" /\ UNCHANGED <<changes, changedDirs>>
               ELSE /\ changes' = changes \union Recorded(Here).changes
                    /\ changedDirs' = changedDirs \union Recorded(Here).dirs
                    /\ UNCHANGED step
    /\ UNCHANGED <<trees, info1, info2, out, moves, touched>>

Visited ==
    /\ step = "visit" /\ todo = << >>
    /\ unwritten' = changes
    /\ step' = "export"
    /\ UNCHANGED <<trees, found, SeenFiles, sent, archive, cut, moves, touched>>

(***************************************************************************)
(* ExportChanges.  Errors are logged and the next change follows; once an  *)
(* entry lacks its end, the tar writer refuses every other header.         *)
(***************************************************************************)
Current == CHOOSE c \in unwritten : \A d \in unwritten \ {c} : Before(c.path, d.path)

Written(hdr) == IF cut THEN archive ELSE Append(archive, hdr)

WhiteoutHeader(p) ==
    [type |-> IF Last(p) = Opq THEN "opaque" ELSE "white", name |-> p, link |-> NoLink,
     owner |-> 0, time |-> 0]

ExportWhiteout ==
    /\ step = "export" /\ unwritten # {} /\ Current.kind = "D"
    /\ archive' = Written(WhiteoutHeader(Current.path))
    /\ unwritten' = unwritten \ {Current}
    /\ UNCHANGED <<trees, step, found, SeenFiles, sent, cut, moves, touched>>

ExportFile ==
    /\ step = "export" /\ unwritten # {} /\ Current.kind # "D"
    /\ LET packed == Packed(new, Current.path, Current.path, SeenFiles)
       IN  /\ SeenFiles' = packed.seen
           /\ IF packed.err # "ok"
              THEN unwritten' = unwritten \ {Current} /\ UNCHANGED <<step, sent, archive>>
              ELSE /\ archive' = Written(packed.hdr)
                   /\ IF packed.hdr.type = "reg" /\ ~cut
                      THEN /\ step' = "body" /\ sent' = new[Current.path]
                           /\ UNCHANGED unwritten
                      ELSE unwritten' = unwritten \ {Current} /\ UNCHANGED <<step, sent>>
    /\ UNCHANGED <<trees, found, cut, moves, touched>>

\* The contents are read from the path again.  If the file changed since its
\* header was written, there may be fewer bytes than the header says.
CopyContents ==
    /\ step = "body"
    /\ LET p == Current.path
       IN  IF Exists(new, p) /\ new[p] = sent THEN UNCHANGED cut
           ELSE IF Exists(new, p) /\ new[p].kind = "reg" THEN cut' \in BOOLEAN
           ELSE cut' = TRUE
    /\ step' = "export"
    /\ unwritten' = unwritten \ {Current}
    /\ UNCHANGED <<trees, found, SeenFiles, sent, archive, moves, touched>>

CloseArchive ==
    /\ step = "export" /\ unwritten = {}
    /\ step' = "closed"
    /\ UNCHANGED <<trees, found, out, moves, touched>>

(***************************************************************************)
(* The container, between any two steps.                                   *)
(***************************************************************************)
Moving(paths) ==
    /\ step \notin {"closed", "failed"}
    /\ moves > 0
    /\ moves' = moves - 1
    /\ touched' = touched \union paths
    /\ UNCHANGED <<old, tool, sameDevice, step, found, out>>

IsLeaf(t, p) == p # << >> /\ ~\E q \in DOMAIN t : Below(p, q)

Unlink(p) ==
    /\ tool = "ChangesDirs" /\ IsLeaf(new, p)
    /\ new' = RemoveTree(new, p, Clock)
    /\ Moving({p})
    /\ UNCHANGED rw

FreshIno == <<2, moves>>

\* Writing to a file the trees share copies it first.
Rewrite(p) ==
    /\ tool = "ChangesDirs" /\ new[p].kind = "reg"
    /\ LET shared == \E q \in DOMAIN old : old[q].ino = new[p].ino
           names  == {q \in DOMAIN new : new[q].ino = new[p].ino}
       IN  /\ new' = [q \in DOMAIN new |->
                         IF q \notin names THEN new[q]
                         ELSE [new[q] EXCEPT !.time = Clock,
                                             !.ino = IF shared THEN FreshIno ELSE @]]
           /\ Moving(names)
    /\ UNCHANGED rw

Make(p, kind) ==
    /\ tool = "ChangesDirs" /\ ~Exists(new, p) /\ IsDir(new, Front(p))
    /\ new' = PutNode(new, p, Node(kind, NoLink, FreshIno, 0, Clock, new[<< >>].owner), Clock)
    /\ Moving({p})
    /\ UNCHANGED rw

\* A file that only the AUFS branch holds goes without a whiteout.
Vanish(p) ==
    /\ tool = "Changes" /\ IsLeaf(rw, p)
    /\ rw[p].kind # "wh" /\ Last(p) # Opq /\ ~Exists(old, p)
    /\ rw' = RemoveTree(rw, p, Clock)
    /\ new' = RemoveTree(new, p, Clock)
    /\ Moving({p})

Container ==
    \/ \E p \in DOMAIN new : Unlink(p) \/ Rewrite(p)
    \/ \E p \in (DOMAIN old \union touched) \ {<< >>}, kind \in {"reg", "dir"} : Make(p, kind)
    \/ \E p \in DOMAIN rw : Vanish(p)

Walks   == StatName \/ ReadNames \/ Compare \/ Visit \/ Visited
Exports == ExportWhiteout \/ ExportFile \/ CopyContents \/ CloseArchive

Next == Walks \/ Exports \/ Container
=============================================================================
