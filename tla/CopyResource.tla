---------------------------- MODULE CopyResource ----------------------------
(***************************************************************************)
(* CopyResource (copy.go): TarResource's goroutine, Tarballer.Do, archives *)
(* the source; that of RebaseArchiveEntries, if the names have to change,  *)
(* copies the archive to a second pipe; and the caller extracts it.  Files *)
(* of the source change, and the extraction fails, at any point.           *)
(***************************************************************************)
EXTENDS Tarballer, CopyPaths

CONSTANTS Tree,    \* the file system as the copies find it
          Copies,  \* the calls made: two texts, followLink, and how much may go wrong
          maxSymlinkIter

ASSUME CopyResourceAssumption ==
    /\ IsTree(Tree) /\ maxSymlinkIter \in Nat
    /\ \A c \in Copies :
          /\ c.followLink \in BOOLEAN /\ c.faults \in Nat
          /\ \A text \in {c.src, c.dst} :
                /\ text.parts \in Seq(Part) /\ Clean(text.parts) # << >>
                /\ text.separator => Last(text.parts) # Dot

VARIABLES copy,      \* the call, with its paths cleaned
          denoted,   \* what the two paths denoted when it was made
          caller,    \* where it is
          srcInfo,
          dstPath,   \* the destination, as far as its links were followed
          links,
          dstDir,
          rebase,    \* the base names to exchange
          rebaser,   \* where the goroutine of RebaseArchiveEntries is
          rebased,   \* what it is writing to its pipe
          rebasedEnd,    \* how it has closed the pipe
          rebasedClosed, \* the reading end is closed
          received, untar, result, faults, touched

tarballer == <<options, srcPath, walk, entry>>
second == <<rebased, rebasedEnd, rebasedClosed>>
asked == <<copy, denoted>>
goal == <<asked, srcInfo, dstPath, links, dstDir, rebase>>
outcome == <<received, untar, result>>
vars == <<src, tarballer, at, pipe, goal, caller, rebaser, second, outcome, faults, touched>>

\* Where the source lies, and the place and the node the destination leads to.
Origin(path, followLink) == Found(Tree, path, ResolvesAll(path, followLink))
Denoted(from, to, followLink) ==
    [from |-> Origin(from, followLink), to |-> Walk(Tree, to.dirs, TRUE, TRUE),
     node |-> Found(Tree, to, TRUE), link |-> IsLink(Tree, Path(to.dirs, "plain"))]

Init ==
    /\ \E c \in Copies :
          /\ copy = [src |-> PreserveTrailingDotOrSeparator(c.src),
                     dst |-> PreserveTrailingDotOrSeparator(c.dst),
                     followLink |-> c.followLink, faults |-> c.faults]
    /\ denoted = Denoted(copy.src, copy.dst, copy.followLink)
    /\ src = Tree /\ faults = copy.faults /\ touched = {}
    /\ at = "idle" /\ srcPath = << >> /\ options = TarResourceRebaseOpts(<< >>, << >>)
    /\ DoInit
    /\ caller = "source" /\ srcInfo = [err |-> "none"]
    /\ dstPath = copy.dst /\ links = 0 /\ dstDir = << >> /\ rebase = NoRebase
    /\ rebaser = "none" /\ rebased = << >> /\ rebasedEnd = "open" /\ rebasedClosed = FALSE
    /\ received = << >> /\ untar = "none" /\ result = "none"

Fails == result' = "err" /\ caller' = "done" /\ at' = "ended"

(***************************************************************************)
(* The caller, up to the extraction.                                       *)
(***************************************************************************)
CopySource ==
    /\ caller = "source"
    /\ srcInfo' = CopyInfoSourcePath(src, copy.src, copy.followLink)
    /\ IF srcInfo'.err # "ok" THEN Fails ELSE caller' = "archive" /\ UNCHANGED <<at, result>>
    /\ UNCHANGED <<src, tarballer, pipe, asked, dstPath, links, dstDir, rebase, rebaser, second,
                   received, untar, faults, touched>>

TarResource ==
    /\ caller = "archive"
    /\ LET split == SplitPathDirEntry(srcInfo.Path)
       IN  IF Found(src, srcInfo.Path, FALSE).err # "ok"
           THEN Fails /\ UNCHANGED <<options, srcPath>>
           ELSE /\ srcPath' = split.dir
                /\ options' = TarResourceRebaseOpts(split.base, srcInfo.RebaseName)
                /\ at' = "start" /\ caller' = "dest" /\ UNCHANGED result
    /\ UNCHANGED <<src, walk, entry, pipe, goal, rebaser, second, received, untar, faults, touched>>

Refused == untar' = "err" /\ caller' = "close"

\* CopyInfoDestinationPath.
FollowLink ==
    /\ caller = "dest" /\ IsLink(src, dstPath)
    /\ IF links > maxSymlinkIter THEN Refused /\ UNCHANGED <<dstPath, links>>
       ELSE /\ dstPath' = LinkTarget(src, dstPath) /\ links' = links + 1
            /\ UNCHANGED <<untar, caller>>
    /\ UNCHANGED <<src, tarballer, at, pipe, asked, srcInfo, dstDir, rebase, rebaser, second,
                   received, result, faults, touched>>

CopyTo ==
    /\ caller = "dest" /\ ~IsLink(src, dstPath)
    /\ LET dstInfo == DestinationInfo(src, dstPath)
           prepared == IF dstInfo.err # "ok" THEN dstInfo
                       ELSE PrepareArchiveCopy(srcInfo, dstInfo)
       IN  IF prepared.err # "ok" THEN Refused /\ UNCHANGED <<dstDir, rebase, rebaser>>
           ELSE /\ dstDir' = prepared.dstDir /\ rebase' = prepared.rebase
                /\ rebaser' = IF rebase' = NoRebase THEN "none" ELSE "next"
                /\ caller' = "next" /\ UNCHANGED untar
    /\ UNCHANGED <<src, tarballer, at, pipe, asked, srcInfo, dstPath, links, second, received,
                   result, faults, touched>>

(***************************************************************************)
(* The goroutine of RebaseArchiveEntries.                                  *)
(***************************************************************************)
Renamed(hdr) ==
    [hdr EXCEPT !.name = Rebases(rebase, @),
                !.link.to = IF hdr.type = "link" THEN Rebases(rebase, @) ELSE @]

Gives(what)    == wire # << >> /\ Head(wire).what = what /\ wire' = << >>
Passes(m, to)  == rebased' = <<m>> /\ rebaser' = to /\ UNCHANGED rebasedEnd
ClosesWith(e)  == rebasedEnd' = e /\ rebaser' = "ended" /\ rebased' = << >>
Sends(m, to)   == IF rebasedClosed THEN ClosesWith("err") ELSE Passes(m, to)

RebaseHeader ==
    /\ rebaser = "next" /\ Gives("header")
    /\ Sends([what |-> "header", hdr |-> Renamed(Head(wire).hdr)],
             IF Head(wire).hdr.type = "reg" THEN "header" ELSE "contents")

\* The end of the stream between two entries is the end of the archive.
RebaseEnd ==
    /\ rebaser = "next"
    /\ \/ Gives("end")
       \/ wire = << >> /\ wclosed /\ UNCHANGED wire
    /\ IF rebasedClosed THEN ClosesWith("eof") ELSE Passes([what |-> "end"], "end")

HeaderSent ==
    /\ rebaser = "header" /\ rebased = << >> /\ rebaser' = "body"
    /\ UNCHANGED <<wire, rebased, rebasedEnd>>

RebaseContents ==
    /\ rebaser = "body"
    /\ \/ Gives("body") /\ Sends([what |-> "body"], "contents")
       \/ wire = << >> /\ wclosed /\ ClosesWith("err") /\ UNCHANGED wire

ContentsSent ==
    /\ rebaser = "contents" /\ rebased = << >> /\ rebaser' = "next"
    /\ UNCHANGED <<wire, rebased, rebasedEnd>>

SendBroken ==
    /\ rebaser \in {"header", "contents"} /\ rebased # << >> /\ rebasedClosed
    /\ ClosesWith("err") /\ UNCHANGED wire

EndSent ==
    /\ rebaser = "end" /\ (rebased = << >> \/ rebasedClosed)
    /\ ClosesWith("eof") /\ UNCHANGED wire

Rebaser ==
    /\ RebaseHeader \/ RebaseEnd \/ HeaderSent \/ RebaseContents \/ ContentsSent
       \/ SendBroken \/ EndSent
    /\ UNCHANGED <<src, tarballer, at, wclosed, rclosed, goal, caller, rebasedClosed, outcome,
                   faults, touched>>

(***************************************************************************)
(* Untar, with NoOverwriteDirNonDir, reads the second pipe, or the first.  *)
(***************************************************************************)
Inlet == IF rebase = NoRebase THEN wire ELSE rebased
InletEnd == IF rebase # NoRebase THEN rebasedEnd ELSE IF wclosed THEN "eof" ELSE "open"

Takes(what) ==
    /\ Inlet # << >> /\ Head(Inlet).what = what
    /\ IF rebase = NoRebase THEN wire' = << >> /\ UNCHANGED rebased
       ELSE rebased' = << >> /\ UNCHANGED wire

Returns(r) == caller' = "returned" /\ untar' = r

Place(name) == Found(src, Path(dstDir, "slash"), TRUE).at \o name
Refuses(hdr) == /\ Exists(src, Place(hdr.name))
                /\ IsDir(src, Place(hdr.name)) # (hdr.type = "dir")

ReadHeader ==
    /\ caller = "next" /\ Takes("header")
    /\ received' = Append(received, [hdr |-> Head(Inlet).hdr, whole |-> Head(Inlet).hdr.type # "reg"])
    /\ caller' = "place" /\ UNCHANGED untar

Extracts ==
    /\ caller = "place"
    /\ LET hdr == Last(received).hdr
       IN  IF Refuses(hdr) THEN Returns("err")
           ELSE caller' = (IF hdr.type = "reg" THEN "body" ELSE "next") /\ UNCHANGED untar
    /\ UNCHANGED <<src, tarballer, at, pipe, goal, rebaser, second, received, result,
                   faults, touched>>

ReadContents ==
    /\ caller = "body" /\ Takes("body")
    /\ received' = [received EXCEPT ![Len(received)].whole = TRUE]
    /\ caller' = "next" /\ UNCHANGED untar

ReadEnd ==
    /\ caller = "next" /\ Takes("end")
    /\ Returns("nil") /\ UNCHANGED received

\* Inside an entry the end of the stream is an error.
AsStreamEnds(end) == IF end = "eof" THEN "nil" ELSE "err"
AtStreamEnd(end)  == IF caller = "next" /\ end = "eof" THEN "nil" ELSE "err"

StreamEnds ==
    /\ caller \in {"next", "body"} /\ Inlet = << >> /\ InletEnd # "open"
    /\ Returns(AtStreamEnd(InletEnd))
    /\ UNCHANGED <<wire, rebased, received>>

Untar == /\ ReadHeader \/ ReadContents \/ ReadEnd \/ StreamEnds
         /\ UNCHANGED <<src, tarballer, at, wclosed, rclosed, goal, rebaser, rebasedEnd,
                        rebasedClosed, result, faults, touched>>

(***************************************************************************)
(* The deferred functions of CopyTo and CopyResource.                      *)
(***************************************************************************)
CloseRebased ==
    /\ caller = "returned" /\ caller' = "close"
    /\ rebasedClosed' = (rebase # NoRebase)
    /\ UNCHANGED <<src, tarballer, at, pipe, goal, rebaser, rebased, rebasedEnd, outcome, faults,
                   touched>>

LeavesContent == UNCHANGED rclosed
ClosesContent == rclosed' = TRUE

CloseContent ==
    /\ caller = "close" /\ caller' = "done"
    /\ ClosesContent /\ result' = untar
    /\ UNCHANGED <<src, tarballer, at, wire, wclosed, goal, rebaser, second, received, untar,
                   faults, touched>>

Decides == CopySource \/ TarResource \/ FollowLink \/ CopyTo \/ Extracts
Caller  == Untar \/ CloseRebased \/ CloseContent

TarballerDo ==
    Do /\ UNCHANGED <<goal, caller, rebaser, second, outcome, faults, touched>>

(***************************************************************************)
(* What goes wrong: an operation of Untar fails; files of the source are   *)
(* removed or rewritten.                                                   *)
(***************************************************************************)
UntarFails ==
    /\ caller \in {"next", "body"} /\ faults > 0 /\ faults' = faults - 1
    /\ Returns("err")
    /\ UNCHANGED <<src, tarballer, at, pipe, goal, rebaser, second, received, result, touched>>

Disturb(p) ==
    /\ faults > 0 /\ faults' = faults - 1
    /\ denoted.from.err = "ok" /\ Under(denoted.from.at, p)
    /\ \/ src' = RemoveTree(src, p, Clock) /\ touched' = touched \union {p}
       \/ /\ src[p].kind = "reg"
          /\ src' = SetMeta(src, p, src[p].owner, Clock)
          /\ touched' = touched \union {q \in DOMAIN src : src[q].ino = src[p].ino}
    /\ UNCHANGED <<tarballer, at, pipe, goal, caller, rebaser, second, outcome>>

Ended == caller = "done" /\ at = "ended" /\ rebaser \in {"none", "ended"} /\ UNCHANGED vars

Next == \/ Decides \/ Caller \/ TarballerDo \/ Rebaser \/ UntarFails
        \/ \E p \in DOMAIN src : Disturb(p)
        \/ Ended

\* No goroutine stops on its own.  What the caller decides after looking at the file
\* system it decides some time, one way or another.
Decided == /\ caller \in {"source", "archive", "dest", "place"}
           /\ caller' \in {"archive", "dest", "next", "body", "returned", "close", "done"}

Spec == Init /\ [][Next]_vars /\ WF_caller(Decided) /\ WF_vars(Caller) /\ WF_vars(TarballerDo)
             /\ WF_vars(Rebaser)

(***************************************************************************)
(* Properties.  What cp does, by what the paths denote in the tree: copies *)
(* go below an existing directory, under the name that was asked for, or   *)
(* with "." without it; otherwise the copy gets the path of the            *)
(* destination, which a last link may give.                                *)
(***************************************************************************)
FromDir == IsDir(Tree, denoted.from.at)
ToDir   == denoted.node.err = "ok" /\ IsDir(Tree, denoted.node.at)

CpRefuses ==
    \/ denoted.from.err # "ok"
    \/ denoted.node.err \notin {"ok", "notexist"} \/ denoted.to.links > maxSymlinkIter + 1
    \/ denoted.node.err = "ok" /\ ~ToDir /\ FromDir
    \/ denoted.node.err = "notexist" /\ \/ ~IsDir(Tree, Front(denoted.to.at))
                                        \/ copy.dst.tail = "dot"
                                        \/ copy.dst.tail = "slash" /\ (~FromDir \/ denoted.link)

Copied == {SubSeq(p, Len(denoted.from.at) + 1, Len(p)) :
              p \in {q \in DOMAIN Tree : Under(denoted.from.at, q)}}
CopyOf(q) == IF ToDir /\ copy.src.tail # "dot"
             THEN Append(denoted.node.at, Last(copy.src.dirs)) \o q
             ELSE denoted.to.at \o q

Undisturbed == {q \in Copied : ~\E p \in touched : Under(p, denoted.from.at \o q)}
Clashes(q)  == /\ Exists(Tree, CopyOf(q))
               /\ IsDir(Tree, CopyOf(q)) # IsDir(Tree, denoted.from.at \o q)
Placed == {Place(received[i].hdr.name) : i \in 1..Len(received)}

\* A copy without an error is what cp makes of the two paths: each file of the source
\* is at its place, once, whichever links, endings and renamings led there, a hard
\* link after the file it leads to; and what cp refuses is refused, all else only if
\* something failed.  (The table of the tests of copy_unix.go: ResolveHostSourcePath,
\* CopyInfoDestinationPath, PrepareArchiveCopy and the two renamings.)
PlacedLikeCp ==
    /\ result = "nil" =>
          /\ ~CpRefuses /\ \A q \in Undisturbed : ~Clashes(q) /\ CopyOf(q) \in Placed
          /\ Placed \subseteq {CopyOf(q) : q \in Copied}
          /\ Len(received) = Cardinality(Placed)
          /\ \A i \in 1..Len(received) : received[i].hdr.type = "link" =>
                \E j \in 1..i-1 : /\ received[j].hdr.name = received[i].hdr.link.to
                                  /\ received[j].hdr.type = "reg"
    /\ result = "err" => CpRefuses \/ faults < copy.faults \/ \E q \in Copied : Clashes(q)

\* Without an error all that the Tarballer announced has arrived whole, through
\* both pipes: a file that could not be read, or became shorter once its header was
\* out, breaks the archive off, and that is an error behind the renaming as well.
\* (Tarballer.Do only logs it; RebaseArchiveEntries and createTarFile must notice.)
WholeOrError ==
    result = "nil" =>
        /\ Len(received) = Len(written) /\ ~owed
        /\ \A i \in 1..Len(received) : received[i].whole

\* All three goroutines end, also when the destination or an entry is refused and
\* nobody reads on.  (The deferred closes of CopyTo and CopyResource.)
Finishes == <>(caller = "done" /\ at = "ended" /\ rebaser \in {"none", "ended"})
=============================================================================
