--------------------------- MODULE LayerRoundTrip ---------------------------
(***************************************************************************)
(* ChangesDirs (or Changes), ExportChanges and UnpackLayer in a row: the   *)
(* changes of a container are found and exported, and the archive is       *)
(* applied to a copy of the lower tree, as when an image is committed and  *)
(* pulled elsewhere.                                                       *)
(***************************************************************************)
EXTENDS Changes

CONSTANTS Lowers, MaxEntries, TempName    \* of UnpackLayer

ASSUME LayerRoundTripAssumption == \A c \in Cases : c.old \in Lowers

\* The variables of UnpackLayer.
VARIABLES tree, base, pc, hdr, dst, k, n, unpackedPaths, dirs, aufsHardlinks,
          aufsTempdir, removeErr, err, removals

Apply == INSTANCE UnpackLayer WITH
    Layer <- {}, Faults <- TRUE,
    MaxRemovals <- 0, RemovedAt <- {}

applyVars == <<tree, base, pc, hdr, dst, k, n, unpackedPaths, dirs, aufsHardlinks,
               aufsTempdir, removeErr, err, removals>>
tripVars == <<vars, applyVars>>

TripInit == Init /\ tree = old /\ Apply!Init

\* The reader meets the end of the stream in the contents of a cut entry.
IsCut == cut /\ n = Len(archive)

ApplyStep ==
    \/ n < Len(archive) /\ Apply!Read(archive[n + 1])
    \/ n = Len(archive) /\ Apply!EndOfArchive
    \/ Apply!SkipImplied \/ Apply!StartImplied \/ Apply!MakeImplied
    \/ Apply!ImpliedMade
    \/ Apply!Whiteout \/ Apply!Opaque \/ Apply!Clear
    \/ ~IsCut /\ Apply!Create
    \/ pc = "create" /\ IsCut /\ Apply!Fault
    \/ Apply!RestoreTime \/ Apply!TimesRestored \/ Apply!Cleanup
    \/ Apply!Returned

Failed == step = "failed" /\ UNCHANGED tripVars

TripNext ==
    \/ Next /\ UNCHANGED applyVars
    \/ step = "closed" /\ ApplyStep /\ UNCHANGED vars
    \/ Failed

Spec == TripInit /\ [][TripNext]_tripVars

-----------------------------------------------------------------------------
(* Properties *)

Quiet == touched = {}
Applied == pc = "done" /\ err = "ok"

\* What the archive cannot carry: paths the container changed meanwhile, and
\* files whose owner has no ID in the container.
Unmapped == {p \in DOMAIN new : ~InContainer(new[p].owner)}
Disturbed(p) == \E q \in touched \union Unmapped : Under(q, p)

TypeOK ==
    /\ IsTree(new)
    /\ DOMAIN info1 \subseteq DOMAIN old
    /\ \A p \in DOMAIN info1 : Front(p) = << >> \/ WasDir(info1, Front(p))
    /\ \A p \in DOMAIN info2 : Front(p) = << >> \/ WasDir(info2, Front(p))
    /\ \A c, d \in changes : c.path = d.path => c = d
    /\ unwritten \subseteq changes
    /\ Len(archive) <= MaxEntries

\* The time of a file in the applied tree, in the clock of the file system.
AppliedTime(p) == IF tree[p].by = 0 THEN tree[p].time ELSE archive[tree[p].by].time

SameNode(p) ==
    /\ tree[p].kind = new[p].kind
    /\ tree[p].link = new[p].link
    /\ \/ tree[p].owner = new[p].owner
       \/ tool = "Changes" /\ tree[p].kind = "dir" /\ tree[p].by = 0
    /\ tree[p].kind = "dir" \/ sameFsTime(AppliedTime(p), new[p].time)

\* Applying the exported changes to the lower tree gives what the container
\* had: the same files with the same links, owners and, but for fractions of a
\* second, times, and nothing else.  What the container changes while the walk
\* or the export runs spoils no other path.  (Of an AUFS branch Changes does not
\* compare the owner of a directory whose time is the same, and a file that
\* goes while it walks ends the list: it must be left alone.)
RoundTrip ==
    (Applied /\ (Quiet \/ tool = "ChangesDirs")) =>
        \A p \in DOMAIN new \union DOMAIN tree :
            ~Disturbed(p) => /\ Exists(new, p) /\ Exists(tree, p)
                             /\ SameNode(p)

\* Of the files in the archive, two are names of one file in the applied tree
\* exactly if they were in the container.
Archived(p) == \E i \in 1..Len(archive) : archive[i].name = p
LinksKept ==
    (Applied /\ (Quiet \/ tool = "ChangesDirs")) =>
        \A p, q \in {r \in DOMAIN new : Archived(r) /\ ~Disturbed(r) /\ ~IsDir(new, r)} :
            (new[p].ino = new[q].ino) <=> (tree[p].ino = tree[q].ino)

\* A whole archive applies, unless it holds something below what is no
\* directory, because the container replaced a directory between two steps.
Contradictory ==
    \E i, j \in 1..Len(archive) :
        archive[i].type \notin {"dir", "white", "opaque"} /\ Below(archive[i].name, archive[j].name)
WholeApplies == pc = "done" /\ err # "ok" => cut \/ Contradictory

\* The walk of ChangesDirs gives up only when a directory it had seen is gone;
\* files may come and go while it runs.
OnlyDirsFail ==
    (step = "failed" /\ tool = "ChangesDirs") =>
        \E p \in touched : p \in DOMAIN info2 /\ info2[p].kind = "dir"
=============================================================================
