----------------------------- MODULE LayerView -----------------------------
(***************************************************************************)
(* What applying a layer promises to whoever looks at the file system      *)
(* through the image's own root: entry after entry, one atomic change of   *)
(* the view each.  A path names the place a chroot would find for it.  A   *)
(* directory entry merges with a directory; any other entry replaces what  *)
(* is there; missing parents appear as directories; a whiteout hides a     *)
(* subtree; an opaque whiteout hides what lower layers hold below a        *)
(* directory.  When the layer fails, only the entry being applied may be   *)
(* half applied.                                                           *)
(***************************************************************************)
EXTENDS RootFs

CONSTANTS Bottoms,   \* the views a layer may be applied to
          Layer,     \* the entries a layer may hold
          Skipped,   \* the names of entries that are passed over
          NoDevices, \* device entries only remove what was there
          Shared     \* other processes remove files between entries

VARIABLES view,      \* path -> what is Shown of the node there
          pending,   \* the entry being applied
          listed,    \* the paths the entries applied so far have named
          applied,   \* entries applied
          status

NoEntry == [type |-> "none"]

Init ==
    /\ view \in Bottoms
    /\ pending = NoEntry
    /\ listed = {}
    /\ applied = 0
    /\ status = "applying"

DirIn(v, p) == Walk(v, p, TRUE, TRUE).at
PlaceIn(v, name) == Append(DirIn(v, Front(name)), Last(name))
Parents(p) == {SubSeq(p, 1, i) : i \in 1..Len(p)-1}

\* An entry is refused when its path leaves the root by a "..".
LeavesRootOf(v, p) ==
    LET w == Walk(v, Front(p), FALSE, TRUE)
    IN  w.err = "escapes" /\ Head(w.rest) = Up

DirAt(p)      == DirIn(view, p)
Place(name)   == PlaceIn(view, name)
LeavesRoot(p) == LeavesRootOf(view, p)

Fresh(kind, link, p) ==
    [kind |-> kind, link |-> link, ino |-> <<applied + 1, Len(p)>>, by |-> applied + 1]

\* The view that keeps these paths, with the missing parents of p made.
Keep(paths, p) ==
    [q \in paths \union Parents(p) |-> IF q \in DOMAIN view THEN view[q] ELSE ADir]

Outside(p) == {q \in DOMAIN view : ~Under(p, q)}

Reachable(p) == \A q \in Parents(p) : Exists(view, q) => IsDir(view, q)

\* What was at p has made way for what comes.
Cleared(p) == Keep(Outside(p), p)

Replace(p, node) ==
    view' = [q \in DOMAIN Cleared(p) \union {p} |-> IF q = p THEN node ELSE Cleared(p)[q]]

PutDir(h) ==
    LET p == Place(h.name)
    IN  /\ h.type = "dir"
        /\ Reachable(p)
        /\ IF IsDir(view, p)
           THEN UNCHANGED view
           ELSE Replace(p, ADir)

PutFile(h) ==
    LET p == Place(h.name)
    IN  /\ h.type \in {"reg", "plink"}
        /\ Reachable(p)
        /\ Replace(p, Fresh("reg", NoLink, p))

PutSymlink(h) ==
    LET p == Place(h.name)
    IN  /\ h.type = "sym"
        /\ Reachable(p)
        /\ Replace(p, Fresh("sym", h.link, p))

\* Without devices nobody finds out that the place cannot be reached.
PutDevice(h) ==
    LET p == Place(h.name)
    IN  /\ h.type = "dev"
        /\ CASE NoDevices /\ Reachable(p)  -> view' = Cleared(p)
             [] NoDevices /\ ~Reachable(p) -> UNCHANGED view
             [] ~NoDevices -> Reachable(p) /\ Replace(p, Fresh("dev", NoLink, p))

\* The new name shows the very file the target names, once the place is cleared.
PutLink(h) ==
    LET p == Place(h.name)
        t == PlaceIn(Cleared(p), h.link.to)
    IN  /\ h.type = "link"
        /\ Reachable(p)
        /\ ~LeavesRootOf(Cleared(p), h.link.to)
        /\ Exists(Cleared(p), t) /\ ~IsDir(Cleared(p), t)
        /\ Replace(p, [view[t] EXCEPT !.by = applied + 1])

Hide(h) ==
    LET p == Place(h.name)
    IN  /\ h.type = "white"
        /\ view' = Cleared(p)

(***************************************************************************)
(* No file of a lower layer stays below d.  A file this layer wrote stays  *)
(* when the layer has listed it and every directory between; files in      *)
(* directories it has not listed may go, and so may any directory that is  *)
(* not listed.                                                             *)
(***************************************************************************)
MayStay(d) == {q \in DOMAIN view : Below(d, q) /\ (IsDir(view, q) \/ view[q].by > 0)}

Listed(d) == {q \in MayStay(d) : \A i \in Len(d)+1..Len(q) : SubSeq(q, 1, i) \in listed}

HideLower(h) ==
    LET d == DirAt(Front(h.name))
        stay == {q \in DOMAIN view' : Below(d, q)}
    IN  /\ h.type = "opaque"
        /\ Listed(d) \subseteq stay
        /\ stay \subseteq MayStay(d)
        /\ \A q \in stay : Front(q) \in stay \union {d}
        /\ view' = Keep({q \in DOMAIN view : ~Below(d, q)} \union stay,
                        Append(d, Last(h.name)))

\* AUFS metadata is not part of the view, and an archive may hold what its reader
\* asked to leave out.
Ignored(h) == h.type \in {"meta", "plnk"} \/ h.name \in Skipped

\* An entry whose path goes through links may be listed by the path it was
\* given or by its place.
Put(h) ==
    /\ PutDir(h) \/ PutFile(h) \/ PutSymlink(h) \/ PutDevice(h) \/ PutLink(h)
    /\ \E p \in {h.name, Place(h.name)} : listed' = listed \union {p}

Take(h) ==
    /\ status = "applying" /\ pending = NoEntry
    /\ pending' = [type |-> h.type, name |-> h.name, link |-> h.link]
    /\ UNCHANGED <<view, listed, applied, status>>

PassOver(h) ==
    /\ status = "applying" /\ pending = NoEntry
    /\ applied' = applied + 1
    /\ Ignored(h)
    /\ UNCHANGED <<view, pending, listed, status>>

Apply ==
    /\ status = "applying" /\ pending # NoEntry
    /\ pending' = NoEntry
    /\ applied' = applied + 1
    /\ UNCHANGED status
    /\ IF Ignored(pending) THEN UNCHANGED <<view, listed>>
       ELSE /\ ~LeavesRoot(pending.name)
            /\ \/ Put(pending)
               \/ (Hide(pending) \/ HideLower(pending)) /\ UNCHANGED listed

\* One entry is applied in part: outside of it only its parents were made, and
\* below it only files of a lower layer can come back.
InPart(h) ==
    LET p == IF h.type = "opaque" THEN DirAt(Front(h.name)) ELSE Place(h.name)
    IN  /\ ~Ignored(h) /\ ~LeavesRoot(h.name)
        /\ \A q \in Outside(p) : Exists(view', q) /\ view'[q] = view[q]
        /\ \A q \in DOMAIN view' \ DOMAIN view :
              \/ q \in Parents(p) \union {p}
              \/ Under(p, q) /\ \E b \in Bottoms : q \in DOMAIN b

\* After a failure the entry count means nothing any more.
Fail ==
    /\ status = "applying" /\ status' = "failed"
    /\ pending' = NoEntry
    /\ applied' = 0
    /\ UNCHANGED listed
    /\ UNCHANGED view \/ (pending # NoEntry /\ InPart(pending))

Finish ==
    /\ status = "applying" /\ status' = "applied"
    /\ pending = NoEntry
    /\ UNCHANGED <<view, pending, listed, applied>>

Lose ==
    /\ Shared
    /\ pending = NoEntry
    /\ UNCHANGED <<pending, listed, applied, status>>
    /\ \E p \in DOMAIN view \ DOMAIN view' : view' = Keep(Outside(p), << >>)

Next ==
    \/ \E h \in Layer : Take(h) \/ PassOver(h)
    \/ Apply \/ Fail \/ Finish \/ Lose

Spec == Init /\ [][Next]_<<view, pending, listed, applied, status>>
=============================================================================
