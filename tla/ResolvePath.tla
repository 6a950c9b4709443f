---------------------------- MODULE ResolvePath ----------------------------
(***************************************************************************)
(* resolveFSRootPath (rootpath.go): resolving a path below a root the way  *)
(* a chroot would, one system call per step.  The function reads the file  *)
(* system while other processes may change it, so a change of the whole    *)
(* tree can fall between any two steps, the Lstat of a component and the   *)
(* Readlink that follows it included.                                      *)
(***************************************************************************)
EXTENDS RootFs

CONSTANTS Trees,       \* the trees the root may hold
          Paths,       \* the paths that are resolved
          MaxChanges   \* how often other processes change the tree

ASSUME ResolvePathAssumption ==
    /\ \A t \in Trees : IsTree(t)
    /\ Paths \subseteq Seq(Part)
    /\ MaxChanges \in Nat

VARIABLES tree, path, parts, resolved, linksWalked, followedAbsoluteLink,
          relativeEscapeBeforeAbsolute, pc, err, changes

result == <<resolved, followedAbsoluteLink, relativeEscapeBeforeAbsolute>>
vars == <<tree, path, parts, resolved, linksWalked, followedAbsoluteLink,
          relativeEscapeBeforeAbsolute, pc, err, changes>>

Init ==
    /\ tree \in Trees
    /\ path \in Paths
    /\ parts = path
    /\ resolved = << >>
    /\ linksWalked = 0
    /\ followedAbsoluteLink = FALSE
    /\ relativeEscapeBeforeAbsolute = FALSE
    /\ pc = "loop"
    /\ err = "ok"
    /\ changes = 0

(***************************************************************************)
(* What Lstat and Readlink of the joined path can report.  They act on the *)
(* host's path: once a component already resolved has been replaced by a   *)
(* symlink, the kernel follows it and may report anything.                 *)
(***************************************************************************)
candidate == Append(resolved, Head(parts))

Astray == \E i \in 1..Len(resolved) :
             LET q == SubSeq(resolved, 1, i)
             IN  Exists(tree, q) /\ tree[q].kind = "sym"

FileInTheWay == \E i \in 1..Len(resolved) :
                   LET q == SubSeq(resolved, 1, i)
                   IN  Exists(tree, q) /\ tree[q].kind \notin {"dir", "sym"}

Seen == CASE Astray -> Kind \union {"missing", "error"}
          [] ~Astray /\ FileInTheWay -> {"error"}
          [] ~Astray /\ ~FileInTheWay ->
                {IF Exists(tree, candidate) THEN tree[candidate].kind ELSE "missing"}

LinkRead == IF Astray THEN UNION {{t[p].link : p \in DOMAIN t} : t \in Trees}
            ELSE IF Exists(tree, candidate) /\ tree[candidate].kind = "sym"
                 THEN {tree[candidate].link} ELSE {}

Fail(e) ==
    /\ pc' = "done"
    /\ err' = e
    /\ UNCHANGED <<tree, path, parts, linksWalked, changes, result>>

(***************************************************************************)
(* The choices the loop makes, each with the slip a mutant run replaces it *)
(* by.                                                                     *)
(***************************************************************************)
\* A ".." that would leave the root, before any absolute link was followed.
EscapesEver == resolved = << >>
EscapesBefore == resolved = << >> /\ ~followedAbsoluteLink

\* A missing component is kept, and so is a file or directory that may stand
\* where it does.
EntersLastLink(seen) == \/ seen \in {"missing", "dir"}
                        \/ seen \in Kind \ {"dir"} /\ Len(parts) = 1
Enters(seen) == \/ seen \in {"missing", "dir"}
                \/ seen \in Kind \ {"dir", "sym"} /\ Len(parts) = 1

LinksLeftOffByOne == linksWalked <= MaxLinks
LinksLeft == linksWalked # MaxLinks

Uncounted == linksWalked
Counted == linksWalked + 1

\* The target is spliced in before the remaining components.
SplicedLast(link) == Tail(parts) \o link.to
Spliced(link) == link.to \o Tail(parts)

KeptBase(link) == resolved
Base(link) == IF link.abs THEN << >> ELSE resolved

Looking == pc = "loop" /\ parts # << >> /\ Head(parts) \in Name

SkipDot ==
    /\ pc = "loop" /\ parts # << >> /\ Head(parts) = Dot
    /\ parts' = Tail(parts)
    /\ UNCHANGED <<tree, path, linksWalked, pc, err, changes, result>>

GoUp ==
    /\ pc = "loop" /\ parts # << >> /\ Head(parts) = Up
    /\ parts' = Tail(parts)
    /\ resolved' = IF resolved = << >> THEN << >> ELSE Front(resolved)
    /\ relativeEscapeBeforeAbsolute' =
          (relativeEscapeBeforeAbsolute \/ EscapesBefore)
    /\ UNCHANGED <<tree, path, linksWalked, followedAbsoluteLink, pc, err, changes>>

Enter ==
    /\ Looking
    /\ \E seen \in Seen : Enters(seen)
    /\ resolved' = candidate
    /\ parts' = Tail(parts)
    /\ UNCHANGED <<tree, path, linksWalked, followedAbsoluteLink,
                   relativeEscapeBeforeAbsolute, pc, err, changes>>

NotADirectory ==
    /\ Looking
    /\ Len(parts) > 1
    /\ Seen \intersect (Kind \ {"dir", "sym"}) # {}
    /\ Fail("notdir")

LstatFails ==
    /\ Looking
    /\ "error" \in Seen
    /\ Fail("lstat")

TooManyLinks ==
    /\ Looking
    /\ "sym" \in Seen
    /\ ~LinksLeft
    /\ Fail("loop")

MeetLink ==
    /\ Looking
    /\ "sym" \in Seen
    /\ LinksLeft
    /\ linksWalked' = Counted
    /\ pc' = "readlink"
    /\ UNCHANGED <<tree, path, parts, err, changes, result>>

Readlink ==
    /\ pc = "readlink"
    /\ \E link \in LinkRead :
          /\ parts' = Spliced(link)
          /\ resolved' = Base(link)
          /\ followedAbsoluteLink' = (followedAbsoluteLink \/ link.abs)
    /\ pc' = "loop"
    /\ UNCHANGED <<tree, path, linksWalked, relativeEscapeBeforeAbsolute, err, changes>>

\* The link was replaced or removed after the Lstat.
ReadlinkFails ==
    /\ pc = "readlink"
    /\ \/ Astray
       \/ LinkRead = {}
    /\ Fail("readlink")

Finish ==
    /\ pc = "loop" /\ parts = << >>
    /\ pc' = "done"
    /\ UNCHANGED <<tree, path, parts, linksWalked, err, changes, result>>

\* Another process changes the tree.
Change ==
    /\ pc # "done"
    /\ changes < MaxChanges
    /\ changes' = changes + 1
    /\ tree' \in Trees
    /\ UNCHANGED <<path, parts, linksWalked, pc, err, result>>

Returned ==
    /\ pc = "done"
    /\ UNCHANGED vars

Step == \/ SkipDot \/ GoUp \/ Enter \/ NotADirectory \/ LstatFails
        \/ TooManyLinks \/ MeetLink \/ Readlink \/ ReadlinkFails \/ Finish

Next == Step \/ Change \/ Returned

Spec == Init /\ [][Next]_vars /\ WF_vars(Step)

-----------------------------------------------------------------------------
(* Properties *)

\* The types of the variables.  What the callers rely on is in it: whatever
\* other processes do meanwhile, the result is a path of plain names below
\* the root, and no more than MaxLinks links were followed.
TypeOK ==
    /\ tree \in Trees
    /\ path \in Paths
    /\ parts \in Seq(Part)
    /\ resolved \in Seq(Name)
    /\ linksWalked \in 0..MaxLinks
    /\ followedAbsoluteLink \in BOOLEAN
    /\ relativeEscapeBeforeAbsolute \in BOOLEAN
    /\ pc \in {"loop", "readlink", "done"}
    /\ err \in {"ok", "notdir", "lstat", "loop", "readlink"}
    /\ changes \in 0..MaxChanges
    /\ pc = "readlink" => parts # << >> /\ Head(parts) \in Name

\* On a tree nobody else changes, no prefix of the path resolved so far is a
\* symlink, so the later operations that are given the result (WalkDir, the
\* xattr calls, os.Root) follow no link at all.
NoSymlinkLeft ==
    changes = 0 =>
        \A i \in 1..Len(resolved) :
            LET q == SubSeq(resolved, 1, i)
            IN  Exists(tree, q) => tree[q].kind # "sym"

\* The lookup of RootFs has a step for every component it may have to handle:
\* those of the path and of as many link targets as may be followed.
StepsSuffice(size) ==
    /\ \A t \in Trees : \A p \in DOMAIN t : Len(t[p].link.to) <= size
    /\ \A p \in Paths : Len(p) + MaxLinks * size <= MaxSteps

\* On a tree nobody else changes, the result is the one the step-by-step
\* lookup of RootFs gives: the operator the other modules use for
\* resolveFSRootPath is this function.
WalkIsResolution ==
    (pc = "done" /\ changes = 0) =>
        LET w == Walk(tree, path, TRUE, TRUE)
        IN  IF err = "ok"
            THEN /\ w.err = "ok"
                 /\ w.at = resolved
                 /\ w.followedAbsoluteLink = followedAbsoluteLink
                 /\ w.relativeEscapeBeforeAbsolute = relativeEscapeBeforeAbsolute
            ELSE w.err = err

\* When os.Root refuses the path as escaping, relativeEscapeBeforeAbsolute says
\* whether a ".." or an absolute link was what left the root first, which is how
\* resolveArchivePath tells an absolute link of an image from a breakout; when
\* os.Root accepts the path, the two resolutions name the same file.
EscapeClassified ==
    (pc = "done" /\ changes = 0 /\ err = "ok") =>
        LET w == Walk(tree, path, FALSE, TRUE)
        IN  /\ w.err = "escapes" =>
                 /\ relativeEscapeBeforeAbsolute = (Head(w.rest) = Up)
                 /\ Head(w.rest) # Up => followedAbsoluteLink
            /\ w.err = "ok" =>
                 /\ w.at = resolved
                 /\ ~followedAbsoluteLink
                 /\ ~relativeEscapeBeforeAbsolute

\* The loop ends, symlink cycles and concurrent changes notwithstanding: every
\* link followed counts against MaxLinks.
Terminates == <>(pc = "done")
=============================================================================
