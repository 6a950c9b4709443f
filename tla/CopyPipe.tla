------------------------------ MODULE CopyPipe ------------------------------
(***************************************************************************)
(* The two copies of archive.go that join a writing goroutine and Untar by *)
(* a pipe: TarUntar, whose writer is Tarballer.Do, and CopyFileWithTar,    *)
(* whose writer archives one file and reports an error over a channel.     *)
(* Files change, and the extraction fails, at any point.                   *)
(***************************************************************************)
EXTENDS Tarballer

CONSTANT Cases   \* the calls made, see below

\* A case: which copy, what is copied, the options of the Tarballer (those of
\* TarUntar itself are empty), and how many things may go wrong.
ASSUME CopyAssumption ==
    \A c \in Cases :
        /\ c.call \in {"TarUntar", "CopyFileWithTar"} /\ c.faults \in Nat
        /\ IsTree(c.src) /\ IsFiniteSet(DOMAIN c.src) /\ c.srcPath \in Seq(Name)
        \* Names of one inode are names of one file.
        /\ \A p, q \in DOMAIN c.src :
              (c.src[p].ino = c.src[q].ino /\ ~IsDir(c.src, p) /\ ~IsDir(c.src, q)) =>
                  c.src[p].kind = c.src[q].kind /\ c.src[p].owner = c.src[q].owner
        \* What CopyFileWithTar reads is a file and no device.
        /\ c.call = "CopyFileWithTar" =>
              \A p \in DOMAIN c.src : c.src[p].kind \in {"dir", "reg", "sym"}
        /\ c.IncludeFiles \in Seq(Seq(Name))
        /\ c.ExcludePatterns \in Seq([exclusion : BOOLEAN, path : Seq(Name \union {"*"})])
        /\ \A f \in DOMAIN c.RebaseNames : c.RebaseNames[f] \in Seq(Name)
        \* The text "." stands at the front of a path only with IncludeSourceDir.
        /\ << >> \in DOMAIN c.RebaseNames => c.IncludeSourceDir
        \* With it the paths begin with "./", for the patterns and for other includes.
        /\ c.IncludeSourceDir => /\ c.ExcludePatterns = << >>
                                 /\ Len(c.IncludeFiles) = 1
                                 /\ IsDir(c.src, c.srcPath)

VARIABLES reader,     \* where the goroutine that calls Untar is
          received,   \* the entries Untar has met, and whether it has all of each
          untar,      \* what Untar returned
          writerErr,  \* what the writer of CopyFileWithTar reports, once it has ended
          opened,     \* the file that writer has open
          result,     \* what the copy returned
          faults, touched

goroutine == <<writerErr, opened>>
copy == <<reader, received, untar, result>>
vars == <<src, writer, pipe, goroutine, copy, faults, touched>>

Init ==
    /\ \E c \in Cases : /\ src = c.src /\ srcPath = c.srcPath /\ options = c
                        /\ faults = c.faults
                        /\ reader = IF c.call = "TarUntar" THEN "next" ELSE "idle"
                        /\ at = IF c.call = "TarUntar" THEN "start" ELSE "stat"
    /\ DoInit
    /\ received = << >> /\ untar = "none" /\ result = "none"
    /\ writerErr = FALSE /\ opened = NoNode
    /\ touched = {}

(***************************************************************************)
(* CopyFileWithTar: os.Stat, then the writer.  The file is open while it   *)
(* is read, so removing its name does not disturb it.                      *)
(***************************************************************************)
\* Where the name leads, through any links, if anywhere.
Leads == LET w == Walk(src, srcPath, TRUE, TRUE)
         IN  IF w.err = "ok" /\ Exists(src, w.at) THEN {w.at} ELSE {}

StatFile ==
    /\ at = "stat"
    /\ LET file == {p \in Leads : ~IsDir(src, p)}
       IN  \/ /\ file = {}
              /\ at' = "ended" /\ reader' = "done" /\ result' = "err" /\ UNCHANGED sent
           \/ \E p \in file :
                 at' = "open" /\ reader' = "next" /\ sent' = src[p] /\ UNCHANGED result
    /\ UNCHANGED <<src, options, srcPath, walk, adding, SeenFiles, owed, written, logged,
                   pipe, goroutine, received, untar, faults, touched>>

FileHeader ==
    [type |-> sent.kind, name |-> <<Last(srcPath)>>, link |-> sent.link,
     owner |-> ToHost(sent.owner), time |-> Truncate(sent.time)]

OpenFile ==
    /\ at = "open"
    /\ LET file == {p \in Leads : Mapped(sent.owner) /\ ~rclosed}
       IN  \/ /\ file = {}
              /\ writerErr' = TRUE /\ at' = "closing" /\ UNCHANGED <<opened, written, pipe>>
           \/ \E p \in file :
                 /\ opened' = src[p]
                 /\ Writes([what |-> "header", hdr |-> FileHeader])
                 /\ written' = <<FileHeader>>
                 /\ at' = "send"
                 /\ UNCHANGED writerErr
    /\ UNCHANGED <<src, options, srcPath, walk, adding, SeenFiles, sent, owed, logged,
                   copy, faults, touched>>

SendDone ==
    /\ at = "send"
    /\ IF WriteBroken THEN writerErr' = TRUE /\ at' = "closing" /\ wire' = << >>
       ELSE WriteDone /\ at' = "copy" /\ UNCHANGED <<writerErr, wire>>
    /\ UNCHANGED <<src, options, srcPath, walk, entry, wclosed, rclosed, opened, copy,
                   faults, touched>>

OpenedNow ==
    LET names == {p \in DOMAIN src : src[p].ino = opened.ino}
    IN  IF names = {} THEN opened ELSE src[CHOOSE p \in names : TRUE]

CopyFile ==
    /\ at = "copy"
    /\ \E r \in Reads(OpenedNow) :
          IF r = "none" \/ rclosed
          THEN owed' = (r = "none") /\ writerErr' = TRUE /\ at' = "close" /\ UNCHANGED pipe
          ELSE IF r = "short"
          THEN owed' = TRUE /\ at' = "close" /\ UNCHANGED <<writerErr, pipe>>
          ELSE /\ Writes([what |-> "body"])
               /\ writerErr' = (r = "long")
               /\ at' = "copied"
               /\ UNCHANGED owed
    /\ UNCHANGED <<src, options, srcPath, walk, adding, SeenFiles, sent, written, logged,
                   opened, copy, faults, touched>>

CopyDone ==
    /\ at = "copied"
    /\ at' = "close"
    /\ IF WriteBroken THEN writerErr' = TRUE /\ wire' = << >>
       ELSE WriteDone /\ UNCHANGED <<writerErr, wire>>
    /\ UNCHANGED <<src, options, srcPath, walk, entry,
                   wclosed, rclosed, opened, copy, faults, touched>>

Writer == \/ Do /\ UNCHANGED <<goroutine, copy, faults, touched>>
          \/ StatFile \/ OpenFile \/ SendDone \/ CopyFile \/ CopyDone

(***************************************************************************)
(* Untar reads entry after entry.  The stream may end between two entries; *)
(* inside one that is an error.                                            *)
(***************************************************************************)
Reading == reader \in {"next", "entry", "body"}
Takes(what) == wire # << >> /\ Head(wire).what = what /\ wire' = << >>
Returns(r)  == reader' = "returned" /\ untar' = r

ReadHeader ==
    /\ reader = "next" /\ Takes("header")
    /\ received' = Append(received, [hdr |-> Head(wire).hdr, whole |-> FALSE])
    /\ reader' = "entry"
    /\ UNCHANGED <<src, writer, wclosed, rclosed, goroutine, untar, result, faults, touched>>

Whole == [received EXCEPT ![Len(received)].whole = TRUE]

Extracts ==
    /\ reader = "entry"
    /\ IF Last(received).hdr.type = "reg" THEN reader' = "body" /\ UNCHANGED received
       ELSE reader' = "next" /\ received' = Whole
    /\ UNCHANGED <<src, writer, pipe, goroutine, untar, result, faults, touched>>

ReadContents ==
    /\ reader = "body" /\ Takes("body")
    /\ received' = Whole
    /\ reader' = "next"
    /\ UNCHANGED <<src, writer, wclosed, rclosed, goroutine, untar, result, faults, touched>>

ReadEnd ==
    /\ reader = "next" /\ Takes("end")
    /\ Returns("nil")
    /\ UNCHANGED <<src, writer, wclosed, rclosed, goroutine, received, result, faults, touched>>

StreamEnds ==
    /\ reader \in {"next", "body"} /\ wclosed
    /\ Returns(IF reader = "next" THEN "nil" ELSE "err")
    /\ UNCHANGED <<src, writer, pipe, goroutine, received, result, faults, touched>>

(***************************************************************************)
(* TarUntar closes its end of the pipe and does not wait for the writer.   *)
(* CopyFileWithTar closes it only after an error, and waits for the        *)
(* writer's report, which counts if Untar had no error.                    *)
(***************************************************************************)
EndTarUntar ==
    /\ reader = "returned" /\ options.call = "TarUntar"
    /\ rclosed' = TRUE /\ result' = untar /\ reader' = "done"
    /\ UNCHANGED <<src, writer, wire, wclosed, goroutine, received, untar, faults, touched>>

NeverCloses(r) == FALSE
ClosesWithError(r) == r = "err"

CloseWithError ==
    /\ reader = "returned" /\ options.call = "CopyFileWithTar"
    /\ reader' = "wait"
    /\ rclosed' = ClosesWithError(untar)
    /\ UNCHANGED <<src, writer, wire, wclosed, goroutine, received, untar, result, faults,
                   touched>>

UntarResult(r, err) == r
CopyResult(r, err) == IF r = "nil" /\ err THEN "err" ELSE r

EndCopyFile ==
    /\ reader = "wait" /\ at = "ended"
    /\ result' = CopyResult(untar, writerErr) /\ reader' = "done"
    /\ UNCHANGED <<src, writer, pipe, goroutine, received, untar, faults, touched>>

Reader == \/ ReadHeader \/ Extracts \/ ReadContents \/ ReadEnd \/ StreamEnds
          \/ EndTarUntar \/ CloseWithError \/ EndCopyFile

(***************************************************************************)
(* What goes wrong: an operation of Untar fails, and other processes       *)
(* remove, rewrite or replace files of the source.                         *)
(***************************************************************************)
Fault == faults > 0 /\ faults' = faults - 1

UntarFails ==
    /\ Reading /\ Fault
    /\ Returns("err")
    /\ UNCHANGED <<src, writer, pipe, goroutine, received, result, touched>>

Moving(paths) ==
    /\ Fault /\ at # "ended"
    /\ touched' = touched \union paths
    /\ UNCHANGED <<writer, pipe, goroutine, copy>>

Delete(p) == p # << >> /\ src' = RemoveTree(src, p, Clock) /\ Moving({p})

Rewrite(p) ==
    /\ src[p].kind = "reg"
    /\ LET names == {q \in DOMAIN src : src[q].ino = src[p].ino}
       IN  /\ src' = [q \in DOMAIN src |-> IF q \in names THEN [src[q] EXCEPT !.time = Clock]
                                           ELSE src[q]]
           /\ Moving(names)

Replace(p) ==
    /\ src[p].kind = "reg"
    /\ src' = PutNode(src, p, Node("dir", NoLink, <<2, faults>>, 0, Clock, src[p].owner), Clock)
    /\ Moving({p})

Disturb == UntarFails \/ \E p \in DOMAIN src : Delete(p) \/ Rewrite(p) \/ Replace(p)

Ended == reader = "done" /\ at = "ended" /\ UNCHANGED vars

Next == Writer \/ Reader \/ Disturb \/ Ended

\* Neither goroutine stops on its own.
Spec == Init /\ [][Next]_vars /\ WF_vars(Writer) /\ WF_vars(Reader)

(***************************************************************************)
(* Properties.                                                             *)
(***************************************************************************)
HeaderType == [type : Kind \union {"link"}, name : Seq(Name), link : LinkType,
               owner : Nat, time : Nat]

\* Every variable has its type; the remembered parents of a path lie each below
\* the one before, and below the include; only an announced file is owed.
TypeOK ==
    /\ IsTree(src) /\ srcPath \in Seq(Name)
    /\ at \in {"start", "stat", "walk", "add", "header", "body", "contents", "open", "send", "copy",
               "copied", "close", "closing", "ended"}
    /\ unwalked \in Seq(Seq(Name)) /\ include \in Seq(Name)
    /\ todo \in Seq([path : Seq(Name), dir : BOOLEAN, read : BOOLEAN])
    /\ \A i \in 1..Len(parents) : Under(include, parents[i].dir)
    /\ \A i \in 1..Len(parents)-1 : Below(parents[i].dir, parents[i+1].dir)
    /\ seen \subseteq Seq(Name) /\ logged \subseteq seen
    /\ adding \in [path : Seq(Name), name : Seq(Name)]
    /\ sent \in NodeType /\ opened \in NodeType
    /\ written \in Seq(HeaderType)
    /\ owed \in BOOLEAN /\ (owed => written # << >> /\ Last(written).type # "link")
    /\ Len(wire) <= 1 /\ wclosed \in BOOLEAN /\ rclosed \in BOOLEAN
    /\ reader \in {"idle", "next", "entry", "body", "returned", "wait", "done"}
    /\ received \in Seq([hdr : HeaderType, whole : BOOLEAN])
    /\ untar \in {"none", "nil", "err"} /\ result \in {"none", "nil", "err"}
    /\ writerErr \in BOOLEAN /\ faults \in Nat

\* What was asked for: a path is excluded if the last pattern that matches it or
\* a directory above it is no exclusion, and an include asks for itself always.
FromDir == IsDir(options.src, options.srcPath)
Base    == IF FromDir THEN options.srcPath ELSE Front(options.srcPath)
Includes == IF ~FromDir THEN << <<Last(options.srcPath)>> >>
            ELSE IF options.IncludeFiles = << >> THEN << << >> >> ELSE options.IncludeFiles

MatchesOrParentMatches(p) ==
    LET hit(i) == Fits(Patterns[i], p) \/ FitsAbove(Patterns[i], p)
    IN  \E i \in 1..Len(Patterns) : /\ hit(i) /\ ~Patterns[i].exclusion
                                    /\ \A j \in i+1..Len(Patterns) : ~hit(j)

AskedBy(inc, p) == p = inc \/ (Under(inc, p) /\ ~MatchesOrParentMatches(p))
Asked == {p \in {SubSeq(q, Len(Base) + 1, Len(q)) :
                    q \in {r \in DOMAIN options.src : Under(Base, r)}} :
             /\ \E i \in 1..Len(Includes) : AskedBy(Includes[i], p)
             /\ p # << >> \/ options.IncludeSourceDir}

AskedName(p) ==
    Rebased(Includes[Min({i \in 1..Len(Includes) : AskedBy(Includes[i], p)})], p)

Undisturbed(p) == ~\E q \in touched : Under(q, Base \o p)

\* The owner of a file has a number in the container; a whiteout's is kept.
Ownable(p) == LET node == options.src[Base \o p]
              IN  IsOverlayWhiteout(node) \/ InContainer(node.owner)

\* An exclusion is a plain path, as "!dir/file" is: below a directory that another
\* pattern excludes, one with a "*" brings nothing back.
ExclusionsArePlain ==
    \A i \in 1..Len(Patterns) : Patterns[i].exclusion =>
        \A k \in 1..Len(Patterns[i].path) : Patterns[i].path[k] # "*"

NamesDiffer == \A p, q \in Asked : AskedName(p) = AskedName(q) => p = q

ReceivedNames == {received[i].hdr.name : i \in 1..Len(received)}

\* A copy without an error has every path the includes and the patterns ask for,
\* under its name, once if no other has that name; a file that goes or changes
\* meanwhile, or whose owner is not mapped, costs no other, and what the walk came
\* to and could not add was logged.
\* (Tarballer.Do's match results kept for parents, its pruning of excluded
\* directories, seen, and its going on after an error.)
ArchivesWhatIsAsked ==
    options.call = "TarUntar" /\ result = "nil" /\ ExclusionsArePlain =>
        /\ ReceivedNames \subseteq {AskedName(p) : p \in Asked}
        /\ {AskedName(p) : p \in {q \in Asked : Undisturbed(q) /\ Ownable(q)}}
               \subseteq ReceivedNames
        /\ {AskedName(p) : p \in (Asked \intersect seen) \ logged} \subseteq ReceivedNames
        /\ NamesDiffer => Len(received) = Cardinality(ReceivedNames)

\* A copy returns no error only if all that its writer announced has arrived
\* whole: a file that became shorter, could not be opened once its header was
\* out, or broke the writer in another way is an error, whichever side noticed
\* it.  For CopyFileWithTar that is the one file, with all its contents.
\* (CopyFileWithTar's errC, and the tar writer that refuses to go on.)
WholeOrError ==
    result = "nil" =>
        /\ Len(received) = Len(written) /\ ~owed
        /\ \A i \in 1..Len(received) : received[i].hdr = written[i] /\ received[i].whole
        /\ options.call = "CopyFileWithTar" => Len(received) = 1 /\ ~writerErr

\* A hard link that Untar meets names an entry it has met before, neither a link nor
\* a directory, whatever files went meanwhile, under the name that entry has in the
\* archive.
\* (addTarFile's SeenFiles and the renaming of Tarballer.Do.)
LinksToReceived ==
    \A i \in 1..Len(received) :
        received[i].hdr.type = "link" =>
            \E j \in 1..i-1 : /\ received[j].hdr.name = received[i].hdr.link.to
                              /\ received[j].hdr.type \notin {"link", "dir"}

\* Both goroutines end: neither waits for ever for the other, whoever fails.
\* (CopyFileWithTar's CloseWithError, TarUntar's deferred Close, and the
\* writers' deferred Close.)
Finishes == <>(reader = "done" /\ at = "ended")
=============================================================================
