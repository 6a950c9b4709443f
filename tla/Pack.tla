-------------------------------- MODULE Pack --------------------------------
(***************************************************************************)
(* tarAppender (archive.go): the header addTarFile writes for one path of  *)
(* a source tree.  Names of one inode become hard links to the first of    *)
(* them, owners are mapped back into the container, times are truncated to *)
(* whole seconds.                                                          *)
(***************************************************************************)
EXTENDS Extract, FiniteSets

CONSTANTS Second,    \* the ticks of the file system's clock in a second
          Rank       \* the order of file names

ASSUME PackAssumption ==
    /\ Second \in Nat \ {0}
    /\ Rank \in [Name \union {Opq} -> Nat]
    /\ \A x, y \in Name \union {Opq} : Rank[x] = Rank[y] => x = y

\* Paths in the order of sort.Sort, filepath.Walk and filepath.WalkDir: a
\* directory comes before what is in it.
Before(p, q) ==
    \/ Below(p, q)
    \/ \E i \in 1..Len(p) : /\ i <= Len(q)
                            /\ \A j \in 1..i-1 : p[j] = q[j]
                            /\ Rank[p[i]] < Rank[q[i]]

\* Each path at the place that the number of paths before it gives it.
Sorted(paths) ==
    LET place(p) == Cardinality({q \in paths : Before(q, p)}) + 1
    IN  [i \in 1..Cardinality(paths) |-> CHOOSE p \in paths : place(p) = i]

NamesIn(t, d) == {q \in DOMAIN t : q # << >> /\ Front(q) = d}

\* FileInfoHeader keeps whole seconds only.
Truncate(time) == time - (time % Second)

\* Times agree if they are equal, or if one was truncated.
sameFsTime(s, t) ==
    \/ s = t
    \/ /\ Truncate(s) = Truncate(t)
       /\ Truncate(s) = s \/ Truncate(t) = t

(***************************************************************************)
(* IdentityMapping.ToContainer of github.com/moby/sys/user.                *)
(***************************************************************************)
AsOnHost(id) == id
InContainer(id) == MapSize = 0 \/ id \in MapOffset .. MapOffset + MapSize - 1
ToContainer(id) == IF MapSize = 0 THEN id ELSE id - MapOffset

(***************************************************************************)
(* SeenFiles maps an inode with several names to the name its first path   *)
(* got in the archive.  It is filled in before the owner is mapped, which  *)
(* may fail.                                                               *)
(***************************************************************************)
hasHardlinks(src, p) == \E q \in DOMAIN src \ {p} : src[q].ino = src[p].ino
IsLinked(src, p)     == src[p].kind # "dir" /\ hasHardlinks(src, p)

IsOverlayWhiteout(node) == node.kind = "wh"

SeePath(src, p, name, seen) ==
    IF IsLinked(src, p) /\ src[p].ino \notin DOMAIN seen
    THEN [i \in DOMAIN seen \union {src[p].ino} |-> IF i = src[p].ino THEN p ELSE seen[i]]
    ELSE seen

SeeFile(src, p, name, seen) ==
    IF IsLinked(src, p) /\ src[p].ino \notin DOMAIN seen
    THEN [i \in DOMAIN seen \union {src[p].ino} |-> IF i = src[p].ino THEN name ELSE seen[i]]
    ELSE seen

NeverLinks(src, p, seen) == FALSE
LinksTo(src, p, seen) == IsLinked(src, p) /\ src[p].ino \in DOMAIN seen

HeaderFor(src, p, name, seen) ==
    LET linked == LinksTo(src, p, seen)
    IN  [type  |-> IF linked THEN "link"
                   ELSE IF IsOverlayWhiteout(src[p]) THEN "dev" ELSE src[p].kind,
         name  |-> name,
         link  |-> IF linked THEN [abs |-> FALSE, to |-> seen[src[p].ino]] ELSE src[p].link,
         owner |-> IF IsOverlayWhiteout(src[p]) THEN src[p].owner
                   ELSE ToContainer(src[p].owner),
         time  |-> Truncate(src[p].time)]

\* addTarFile(p, name) up to the header: an error, the header, and SeenFiles
\* afterwards.  The header must not be looked at if there was an error.
Packed(src, p, name, seen) ==
    IF ~Exists(src, p) THEN [err |-> "notexist", seen |-> seen]
    ELSE IF ~IsOverlayWhiteout(src[p]) /\ ~InContainer(src[p].owner)
    THEN [err |-> "unmapped", seen |-> SeeFile(src, p, name, seen)]
    ELSE [err |-> "ok", seen |-> SeeFile(src, p, name, seen), hdr |-> HeaderFor(src, p, name, seen)]
=============================================================================
