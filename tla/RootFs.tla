------------------------------- MODULE RootFs -------------------------------
(***************************************************************************)
(* The file tree below an extraction root, and the operations of Go's      *)
(* os.Root that the archive package performs on it.  os.Root is not part   *)
(* of the repository: it is modelled from how archive.go, diff.go and      *)
(* rootpath.go use it.  A path is a sequence of names relative to the      *)
(* root; a tree is a function from the paths that exist to their nodes.    *)
(***************************************************************************)
EXTENDS Naturals, Sequences, SequencesExt

CONSTANTS Name,       \* the file names that occur
          MaxLinks,   \* symlinks one lookup may follow before it fails
          MaxSteps    \* components one lookup handles, expanded links included

ASSUME RootFsAssumption ==
    /\ {".", ".."} \intersect Name = {}
    /\ MaxLinks \in Nat /\ MaxSteps \in Nat

Dot == "."
Up  == ".."
Part == Name \union {Dot, Up}   \* what a symlink target is made of

(***************************************************************************)
(* A node: its kind, the target if it is a symlink, the inode it is a      *)
(* name of, the archive entry that last wrote it (0: a lower layer),       *)
(* its modification time and its owner.  The kind "wh" is the character    *)
(* device 0:0, which is a whiteout on an overlay file system.              *)
(***************************************************************************)
Kind == {"dir", "reg", "sym", "dev", "wh"}
LinkType == [abs : BOOLEAN, to : Seq(Part)]
NodeType == [kind : Kind, link : LinkType, ino : Nat \X Nat, by : Nat, time : Nat,
             owner : Nat]

NoLink == [abs |-> FALSE, to |-> << >>]
Node(kind, link, ino, by, time, owner) ==
    [kind |-> kind, link |-> link, ino |-> ino, by |-> by, time |-> time,
     owner |-> owner]

\* What a reader of the file system sees of a node: directories are all alike.
ADir == [kind |-> "dir", link |-> NoLink, ino |-> <<0, 0>>, by |-> 0]
Shown(node) ==
    IF node.kind = "dir" THEN ADir
    ELSE [kind |-> node.kind, link |-> node.link, ino |-> node.ino, by |-> node.by]

Exists(tree, p) == p \in DOMAIN tree
IsDir(tree, p)  == Exists(tree, p) /\ tree[p].kind = "dir"

\* q is p or lies below it; q lies strictly below p.
Under(p, q) == Len(p) <= Len(q) /\ \A i \in 1..Len(p) : p[i] = q[i]
Below(p, q) == Len(p) < Len(q) /\ \A i \in 1..Len(p) : p[i] = q[i]

\* What a tree always is: rooted, and every other node lies in a directory.
WellFormed(tree) ==
    /\ << >> \in DOMAIN tree
    /\ tree[<< >>].kind = "dir"
    /\ \A p \in DOMAIN tree \ {<< >>} :
          /\ p \in Seq(Name)
          /\ IsDir(tree, Front(p))

IsTree(tree) ==
    /\ tree \in [DOMAIN tree -> NodeType]
    /\ WellFormed(tree)

(***************************************************************************)
(* Lookup.  With scoped = FALSE this is os.Root: a missing component is an *)
(* error, and so is an absolute link or a ".." that leaves the root.  With *)
(* scoped = TRUE it is resolveFSRootPath: those stay inside the root, a    *)
(* missing component is kept, and the result remembers what was met.       *)
(***************************************************************************)
WalkStart(path) ==
    [at |-> << >>, rest |-> path, links |-> 0, err |-> "ok",
     followedAbsoluteLink |-> FALSE, relativeEscapeBeforeAbsolute |-> FALSE]

WalkUp(scoped, s) ==
    IF s.at # << >> THEN [s EXCEPT !.at = Front(@), !.rest = Tail(@)]
    ELSE IF scoped
         THEN [s EXCEPT !.rest = Tail(@),
                        !.relativeEscapeBeforeAbsolute = @ \/ ~s.followedAbsoluteLink]
         ELSE [s EXCEPT !.err = "escapes"]

WalkLink(scoped, s, link) ==
    IF s.links = MaxLinks THEN [s EXCEPT !.err = "loop"]
    ELSE IF link.abs /\ ~scoped THEN [s EXCEPT !.err = "escapes"]
    ELSE [s EXCEPT !.at = IF link.abs THEN << >> ELSE @,
                   !.rest = link.to \o Tail(@),
                   !.links = @ + 1,
                   !.followedAbsoluteLink = @ \/ link.abs]

WalkStep(tree, scoped, follow, s) ==
    LET here == Append(s.at, Head(s.rest))
        last == Len(s.rest) = 1
        enter == [s EXCEPT !.at = here, !.rest = Tail(@)]
    IN  CASE Head(s.rest) = Dot -> [s EXCEPT !.rest = Tail(@)]
          [] Head(s.rest) = Up  -> WalkUp(scoped, s)
          [] Head(s.rest) \in Name /\ ~Exists(tree, here) ->
                IF scoped THEN enter ELSE [s EXCEPT !.err = "notexist"]
          [] Head(s.rest) \in Name /\ Exists(tree, here) ->
                IF tree[here].kind = "sym" /\ (follow \/ ~last)
                THEN WalkLink(scoped, s, tree[here].link)
                ELSE IF last \/ tree[here].kind = "dir" THEN enter
                ELSE [s EXCEPT !.err = "notdir"]

WalkNext(tree, scoped, follow, s) ==
    IF s.rest = << >> \/ s.err # "ok" THEN s ELSE WalkStep(tree, scoped, follow, s)

WalkEnd(s) == IF s.rest # << >> /\ s.err = "ok" THEN [s EXCEPT !.err = "loop"] ELSE s

Walk(tree, path, scoped, follow) ==
    LET w[i \in 0..MaxSteps] == IF i = 0 THEN WalkStart(path)
                                ELSE WalkNext(tree, scoped, follow, w[i-1])
    IN  WalkEnd(w[MaxSteps])

(***************************************************************************)
(* The directory a path denotes for os.Root.  A directory's own path needs *)
(* no walk: every component of it is a directory.                          *)
(***************************************************************************)
At(err, path) == [err |-> err, at |-> path]

EndsAtDir(tree, w) ==
    CASE w.err # "ok" -> At(w.err, << >>)
      [] w.err = "ok" /\ IsDir(tree, w.at)  -> At("ok", w.at)
      [] w.err = "ok" /\ ~IsDir(tree, w.at) -> At("notdir", << >>)

DirOf(tree, p) ==
    IF IsDir(tree, p) THEN At("ok", p)
    ELSE EndsAtDir(tree, Walk(tree, p, FALSE, TRUE))

\* Where os.Root acts when it is given p: the last component is not followed.
Inside(d, name) ==
    CASE d.err # "ok" -> d
      [] d.err = "ok" /\ name \in Name -> At("ok", Append(d.at, name))
      [] d.err = "ok" /\ name \notin Name -> At("invalid", << >>)

Locate(tree, p) == Inside(DirOf(tree, Front(p)), Last(p))

IfThere(tree, l) == IF l.err = "ok" /\ ~Exists(tree, l.at) THEN At("notexist", << >>) ELSE l

Lstat(tree, p) == IF p = << >> THEN At("ok", p) ELSE IfThere(tree, Locate(tree, p))

Ends(w) == At(w.err, w.at)
Stat(tree, p) == Ends(Walk(tree, p, FALSE, TRUE))

(***************************************************************************)
(* Changes.  Making or removing a name gives its directory a new           *)
(* modification time, written Clock.                                       *)
(***************************************************************************)
Touch(tree, p, clock) ==
    [tree EXCEPT ![Front(p)] = [@ EXCEPT !.time = clock]]

PutNode(tree, at, node, clock) ==
    LET touched == Touch(tree, at, clock)
    IN  [p \in DOMAIN tree \union {at} |-> IF p = at THEN node ELSE touched[p]]

RemoveTree(tree, at, clock) ==
    LET touched == Touch(tree, at, clock)
    IN  [p \in {q \in DOMAIN tree : ~Under(at, q)} |-> touched[p]]

\* Times and owners belong to the inode, so every name of it shows the change.
SetMeta(tree, at, owner, time) ==
    [p \in DOMAIN tree |->
        IF tree[p].ino = tree[at].ino
        THEN [tree[p] EXCEPT !.owner = owner, !.time = time] ELSE tree[p]]
=============================================================================
