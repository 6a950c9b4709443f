-------------------------- MODULE ResolvePathProofs --------------------------
(***************************************************************************)
(* What holds of resolveFSRootPath for every set of names, trees, paths    *)
(* and bounds: its result is a path of plain names below the root, and on  *)
(* a tree nobody else changes no prefix of it is a symlink, it is what     *)
(* the lookup of RootFs gives, and it tells how the path escapes os.Root.  *)
(***************************************************************************)
EXTENDS ResolvePath, TreeProofs

\* A link read is a link of one of the trees, so its target is made of parts.
LEMMA LinkReadType ==
    ASSUME tree \in Trees, NEW link \in LinkRead
    PROVE  link.abs \in BOOLEAN /\ link.to \in Seq(Part)
  <1>1. PICK t \in Trees : \E p \in DOMAIN t : link = t[p].link
    <2>1. CASE Astray
      BY <2>1 DEF LinkRead
    <2>2. CASE ~Astray
      <3>1. Exists(tree, candidate) /\ link = tree[candidate].link
        BY <2>2 DEF LinkRead
      <3>2. QED
        BY <3>1 DEF Exists
    <2>3. QED
      BY <2>1, <2>2
  <1>2. \A p \in DOMAIN t : t[p] \in NodeType
    BY ResolvePathAssumption DEF IsTree
  <1>3. \A p \in DOMAIN t : t[p].link \in LinkType
    BY <1>2 DEF NodeType
  <1>4. QED
    BY <1>1, <1>3 DEF LinkType

\* Splicing a target before the remaining parts gives a sequence of parts.
LEMMA SplicedType ==
    ASSUME NEW link, link.to \in Seq(Part), parts \in Seq(Part), parts # << >>
    PROVE  Spliced(link) \in Seq(Part)
  <1>1. Tail(parts) \in Seq(Part)
    OBVIOUS
  <1>2. QED
    BY <1>1, ConcatProperties DEF Spliced

-----------------------------------------------------------------------------
\* The state resolveFSRootPath starts in.
LEMMA InitTypeOK == Init => TypeOK
  <1>. SUFFICES ASSUME Init PROVE TypeOK
    OBVIOUS
  <1>1. path \in Paths /\ parts \in Seq(Part)
    BY ResolvePathAssumption DEF Init
  <1>2. linksWalked \in 0..MaxLinks /\ changes \in 0..MaxChanges
    BY RootFsAssumption, ResolvePathAssumption DEF Init
  <1>3. resolved \in Seq(Name)
    BY DEF Init
  <1>4. QED
    BY <1>1, <1>2, <1>3 DEF Init, TypeOK

\* Every step keeps the types: a component is pushed only when it is a name,
\* and a link is followed only while linksWalked is below MaxLinks.
LEMMA NextTypeOK == TypeOK /\ [Next]_vars => TypeOK'
  <1>. SUFFICES ASSUME TypeOK, [Next]_vars PROVE TypeOK'
    OBVIOUS
  <1>. USE DEF TypeOK
  <1>0. parts # << >> => Tail(parts) \in Seq(Part) /\ Head(parts) \in Part
    OBVIOUS
  <1>1. CASE SkipDot
    BY <1>0, <1>1 DEF SkipDot, result
  <1>2. CASE GoUp
    <2>1. resolved' \in Seq(Name)
      BY <1>2, FrontProperties DEF GoUp
    <2>2. relativeEscapeBeforeAbsolute' \in BOOLEAN
      BY <1>2 DEF GoUp, EscapesBefore
    <2>3. QED
      BY <1>0, <1>2, <2>1, <2>2 DEF GoUp
  <1>3. CASE Enter
    <2>1. resolved' \in Seq(Name)
      BY <1>3 DEF Enter, Looking, candidate
    <2>2. QED
      BY <1>0, <1>3, <2>1 DEF Enter, Looking
  <1>4. CASE NotADirectory
    BY <1>4 DEF NotADirectory, Fail, result
  <1>5. CASE LstatFails
    BY <1>5 DEF LstatFails, Fail, result
  <1>6. CASE TooManyLinks
    BY <1>6 DEF TooManyLinks, Fail, result
  <1>7. CASE MeetLink
    <2>1. linksWalked' \in 0..MaxLinks
      BY <1>7, RootFsAssumption DEF MeetLink, LinksLeft, Counted
    <2>2. QED
      BY <1>7, <2>1 DEF MeetLink, Looking, result
  <1>8. CASE Readlink
    <2>1. PICK link \in LinkRead :
             /\ parts' = Spliced(link)
             /\ resolved' = Base(link)
             /\ followedAbsoluteLink' = (followedAbsoluteLink \/ link.abs)
      BY <1>8 DEF Readlink
    <2>2. link.abs \in BOOLEAN /\ link.to \in Seq(Part)
      BY LinkReadType
    <2>3. parts' \in Seq(Part)
      BY <1>8, <2>1, <2>2, SplicedType DEF Readlink
    <2>4. resolved' \in Seq(Name)
      BY <2>1, <2>2 DEF Base
    <2>5. followedAbsoluteLink' \in BOOLEAN
      BY <2>1, <2>2
    <2>6. QED
      BY <1>8, <2>3, <2>4, <2>5 DEF Readlink
  <1>9. CASE ReadlinkFails
    BY <1>9 DEF ReadlinkFails, Fail, result
  <1>10. CASE Finish
    BY <1>10 DEF Finish, result
  <1>11. CASE Change
    BY <1>11, ResolvePathAssumption DEF Change, result
  <1>12. CASE UNCHANGED vars
    BY <1>12 DEF vars
  <1>13. QED
    BY <1>1, <1>2, <1>3, <1>4, <1>5, <1>6, <1>7, <1>8, <1>9, <1>10, <1>11,
       <1>12 DEF Next, Step, Returned

\* The result of resolveFSRootPath is a path of plain names below the root,
\* whatever other processes do to the tree between its system calls.
THEOREM TypeCorrect == Spec => []TypeOK
  <1>1. Init => TypeOK
    BY InitTypeOK
  <1>2. TypeOK /\ [Next]_vars => TypeOK'
    BY NextTypeOK
  <1>3. QED
    BY <1>1, <1>2, PTL DEF Spec

-----------------------------------------------------------------------------
\* A component entered on an undisturbed tree is no symlink: Lstat has just
\* said so, and no earlier component led the call astray.
LEMMA EnteredIsNoLink ==
    ASSUME TypeOK, NoSymlinkLeft, changes = 0, Looking,
           NEW seen \in Seen, Enters(seen), Exists(tree, candidate)
    PROVE  tree[candidate].kind # "sym"
  <1>1. ~Astray
    BY DEF NoSymlinkLeft, Astray
  <1>2. CASE FileInTheWay
    <2>1. Seen = {"error"}
      BY <1>1, <1>2 DEF Seen
    <2>2. QED
      BY <2>1 DEF Enters, Kind
  <1>3. CASE ~FileInTheWay
    <2>1. seen = tree[candidate].kind
      BY <1>1, <1>3 DEF Seen
    <2>2. QED
      BY <2>1 DEF Enters, Kind
  <1>4. QED
    BY <1>2, <1>3

\* Every step keeps the resolved prefix free of symlinks.
LEMMA NextNoSymlinkLeft == TypeOK /\ NoSymlinkLeft /\ [Next]_vars => NoSymlinkLeft'
  <1>. SUFFICES ASSUME TypeOK, NoSymlinkLeft, [Next]_vars, changes' = 0,
                       NEW i \in 1..Len(resolved'),
                       Exists(tree', SubSeq(resolved', 1, i))
                PROVE  tree'[SubSeq(resolved', 1, i)].kind # "sym"
    BY DEF NoSymlinkLeft
  <1>0. ~Change /\ tree' = tree /\ changes = 0
    <2>1. ~Change
      BY DEF Change, TypeOK
    <2>2. tree' = tree /\ changes' = changes
      BY <2>1 DEF Next, Step, Returned, SkipDot, GoUp, Enter, NotADirectory,
                  LstatFails, TooManyLinks, MeetLink, Readlink, ReadlinkFails,
                  Finish, Fail, vars
    <2>3. QED
      BY <2>1, <2>2
  <1>1. CASE resolved' = resolved
    BY <1>0, <1>1 DEF NoSymlinkLeft
  <1>2. CASE resolved' = << >>
    BY <1>2
  <1>3. CASE GoUp /\ resolved # << >>
    <2>1. /\ resolved' = Front(resolved)
          /\ i \in 1..Len(resolved)-1
      BY <1>3, FrontProperties DEF GoUp, TypeOK
    <2>2. /\ SubSeq(resolved', 1, i) = SubSeq(resolved, 1, i)
          /\ i \in 1..Len(resolved)
      BY <1>3, <2>1, PrefixOfFront DEF TypeOK
    <2>3. QED
      BY <1>0, <2>2 DEF NoSymlinkLeft
  <1>4. CASE Enter
    <2>1. /\ resolved \in Seq(Name) /\ Head(parts) \in Name
          /\ resolved' = Append(resolved, Head(parts))
          /\ Len(resolved') = Len(resolved) + 1
      BY <1>4 DEF Enter, Looking, candidate, TypeOK
    <2>2. CASE i = Len(resolved) + 1
      <3>1. SubSeq(resolved', 1, i) = candidate
        BY <2>1, <2>2, PrefixOfAppend DEF candidate
      <3>2. PICK seen \in Seen : Enters(seen)
        BY <1>4 DEF Enter
      <3>3. Looking
        BY <1>4 DEF Enter
      <3>4. QED
        BY <1>0, <3>1, <3>2, <3>3, EnteredIsNoLink
    <2>3. CASE i # Len(resolved) + 1
      <3>1. i \in 1..Len(resolved) /\ i \in 1..Len(resolved)+1
        BY <2>1, <2>3
      <3>2. SubSeq(resolved', 1, i) = SubSeq(resolved, 1, i)
        BY <2>1, <2>3, <3>1, PrefixOfAppend
      <3>3. QED
        BY <1>0, <3>1, <3>2 DEF NoSymlinkLeft
    <2>4. QED
      BY <2>2, <2>3
  <1>5. resolved' = resolved \/ resolved' = << >> \/ (GoUp /\ resolved # << >>) \/ Enter
    BY <1>0 DEF Next, Step, Returned, SkipDot, GoUp, NotADirectory, LstatFails,
                TooManyLinks, MeetLink, Readlink, Base, ReadlinkFails, Finish,
                Fail, result, vars
  <1>6. QED
    BY <1>1, <1>2, <1>3, <1>4, <1>5

\* No prefix of the path resolved is a symlink, on a tree nobody else changes:
\* WalkDir, the xattr calls and os.Root follow no link of the image when they
\* are given the result.
THEOREM ResolvedHasNoLink == Spec => []NoSymlinkLeft
  <1>1. Init => TypeOK /\ NoSymlinkLeft
    <2>1. Init => NoSymlinkLeft
      BY DEF Init, NoSymlinkLeft
    <2>2. QED
      BY <2>1, InitTypeOK
  <1>2. (TypeOK /\ NoSymlinkLeft) /\ [Next]_vars => (TypeOK /\ NoSymlinkLeft)'
    BY NextTypeOK, NextNoSymlinkLeft
  <1>3. QED
    BY <1>1, <1>2, PTL DEF Spec
-----------------------------------------------------------------------------
(* The lookup of RootFs, step for step: on a tree nobody else changes the  *)
(* loop is in a state the lookup goes through, scoped for                  *)
(* resolveFSRootPath's own and unscoped for os.Root's of the same path.    *)

\* A link counts from MeetLink on, the lookup takes the two steps at once.
Links == IF pc = "readlink" THEN linksWalked - 1 ELSE linksWalked

IsAt(s) == StateIs(s, resolved, parts, Links, "ok", followedAbsoluteLink,
                   relativeEscapeBeforeAbsolute)

Beside(scoped) ==
    \E i \in 0..MaxSteps : IsAt(Stage(tree, path, scoped, TRUE, i))

LookedUp(scoped) == Walk(tree, path, scoped, TRUE)

OutOfSteps(scoped) ==
    LET s == Stage(tree, path, scoped, TRUE, MaxSteps)
    IN  s.err = "ok" /\ s.rest # << >>

\* Between Lstat and Readlink there is a link; nothing is looked up below a file.
AtLink == pc = "readlink" => candidate \in DOMAIN tree /\ tree[candidate].kind = "sym"
NoFileInTheWay == parts # << >> => ~FileInTheWay
Undisturbed == changes = 0 => AtLink /\ NoFileInTheWay

\* The loop starts where a lookup does.
LEMMA InitBeside ==
    ASSUME Init, NEW scoped \in BOOLEAN
    PROVE  Beside(scoped)
  <1>1. 0 \in 0..MaxSteps
    BY RootFsAssumption
  <1>2. Stage(tree, path, scoped, TRUE, 0) = WalkStart(path)
    BY StageFirst
  <1>3. IsAt(WalkStart(path))
    BY DEF Init, IsAt, Links, StateIs, WalkStart
  <1>4. QED
    BY <1>1, <1>2, <1>3 DEF Beside

\* While the loop goes on the lookup handles the same component, unless it has
\* used up its steps.
LEMMA LookupStep ==
    ASSUME TypeOK, NEW scoped \in BOOLEAN, Beside(scoped), parts # << >>, ~OutOfSteps(scoped)
    PROVE  \E s, next \in WalkState, i \in 0..MaxSteps :
              /\ IsAt(s)
              /\ Stepped(tree, scoped, TRUE, s, Head(parts), candidate, next)
              /\ next = Stage(tree, path, scoped, TRUE, i)
  <1>1. IsTree(tree) /\ path \in Seq(Part) /\ MaxSteps \in Nat
    BY RootFsAssumption, ResolvePathAssumption DEF TypeOK
  <1>2. PICK i \in 0..MaxSteps : IsAt(Stage(tree, path, scoped, TRUE, i))
    BY DEF Beside
  <1>3. PICK s : s = Stage(tree, path, scoped, TRUE, i)
    OBVIOUS
  <1>4. /\ s.rest = parts /\ s.err = "ok" /\ s.at = resolved
        /\ s \in WalkState
    BY <1>1, <1>2, <1>3, StageType DEF IsAt, StateIs, OnTree
  <1>5. i # MaxSteps
    BY <1>3, <1>4 DEF OutOfSteps
  <1>6. PICK next : next = Stage(tree, path, scoped, TRUE, i + 1)
    OBVIOUS
  <1>7. i + 1 \in 0..MaxSteps /\ next = WalkNext(tree, scoped, TRUE, s)
    <2>1. /\ i + 1 \in 0..MaxSteps
          /\ Stage(tree, path, scoped, TRUE, i + 1) =
                WalkNext(tree, scoped, TRUE, Stage(tree, path, scoped, TRUE, i))
      <3>1. ASSUME NEW t, NEW p, NEW follow
            PROVE  /\ i + 1 \in 0..MaxSteps
                   /\ Stage(t, p, scoped, follow, i + 1) =
                         WalkNext(t, scoped, follow, Stage(t, p, scoped, follow, i))
        BY <1>5, StageNext
      <3>2. QED
        BY <3>1
    <2>2. QED
      BY <1>3, <1>6, <2>1
  <1>8. next = WalkStep(tree, scoped, TRUE, s)
    BY <1>4, <1>7 DEF WalkNext
  <1>9. Stepped(tree, scoped, TRUE, s, Head(parts), candidate, next)
    <2>1. candidate = Append(s.at, Head(parts)) /\ Head(parts) = Head(s.rest)
      BY <1>4 DEF candidate
    <2>2. QED
      BY <1>4, <1>8, <2>1, WalkStepFields
  <1>10. next \in WalkState
    BY <1>1, <1>6, <1>7, StageType DEF OnTree
  <1>11. QED
    BY <1>2, <1>3, <1>4, <1>6, <1>7, <1>9, <1>10

\* A lookup in a state the loop is in next has kept beside it.
LEMMA BesideNext ==
    ASSUME tree' = tree, path' = path, NEW scoped \in BOOLEAN, NEW i \in 0..MaxSteps,
           NEW next, next = Stage(tree, path, scoped, TRUE, i),
           StateIs(next, resolved', parts', Links', "ok", followedAbsoluteLink',
                   relativeEscapeBeforeAbsolute')
    PROVE  Beside(scoped)'
  BY DEF Beside, IsAt

\* A lookup that has failed returns what it failed with.
LEMMA LookupFails ==
    ASSUME TypeOK, NEW scoped \in BOOLEAN, NEW i \in 0..MaxSteps,
           NEW next, next = Stage(tree, path, scoped, TRUE, i),
           next.err # "ok" \/ next.rest = << >>
    PROVE  LookedUp(scoped) = next
  BY StageLast DEF LookedUp

\* What Lstat reports on a tree nobody else changes, unless it fails.
LEMMA SeenIs ==
    ASSUME TypeOK, NoSymlinkLeft, changes = 0, NEW seen \in Seen, seen # "error"
    PROVE  /\ ~FileInTheWay
           /\ seen = IF candidate \in DOMAIN tree THEN tree[candidate].kind ELSE "missing"
  <1>1. ~Astray
    BY DEF NoSymlinkLeft, Astray
  <1>2. QED
    BY <1>1 DEF Seen, Exists

\* A link of an undisturbed tree is read as it is.
LEMMA LinkReadIs ==
    ASSUME TypeOK, NoSymlinkLeft, changes = 0, AtLink, pc = "readlink"
    PROVE  ~Astray /\ LinkRead = {tree[candidate].link}
  <1>1. ~Astray
    BY DEF NoSymlinkLeft, Astray
  <1>2. QED
    BY <1>1 DEF LinkRead, AtLink, Exists

\* Every step of the loop that handles a component keeps beside the lookup, or
\* the lookup fails there: os.Root's at a missing component, at a ".." and at
\* an absolute link that leave the root.
LEMMA LookupMoves ==
    ASSUME TypeOK, NoSymlinkLeft, AtLink, changes = 0, NEW scoped \in BOOLEAN,
           Beside(scoped), ~OutOfSteps(scoped), SkipDot \/ GoUp \/ Enter \/ Readlink
    PROVE  \/ /\ Beside(scoped)'
              /\ scoped \/ UNCHANGED <<followedAbsoluteLink, relativeEscapeBeforeAbsolute>>
           \/ /\ ~scoped
              /\ \/ LookedUp(scoped).err = "notexist"
                 \/ /\ LookedUp(scoped).err = "escapes"
                    /\ \/ /\ GoUp /\ resolved = << >>
                          /\ Head(LookedUp(scoped).rest) = Up
                       \/ /\ Readlink /\ followedAbsoluteLink'
                          /\ Head(LookedUp(scoped).rest) # Up
  <1>0. /\ parts # << >> /\ parts \in Seq(Part)
        /\ tree' = tree /\ path' = path
        /\ linksWalked \in Nat /\ MaxLinks \in Nat
    BY RootFsAssumption
       DEF SkipDot, GoUp, Enter, Readlink, Looking, TypeOK
  <1>1. PICK s \in WalkState, next \in WalkState, i \in 0..MaxSteps :
           /\ IsAt(s)
           /\ Stepped(tree, scoped, TRUE, s, Head(parts), candidate, next)
           /\ next = Stage(tree, path, scoped, TRUE, i)
    BY <1>0, LookupStep
  <1>2. next.err # "ok" => LookedUp(scoped) = next
    BY <1>1, LookupFails
  <1>3. StateIs(s, resolved, parts, Links, "ok", followedAbsoluteLink,
                relativeEscapeBeforeAbsolute)
    BY <1>1 DEF IsAt
  <1>4. CASE SkipDot
    <2>1. StepsOn(s, next, s.at) /\ Links' = Links
      BY <1>1, <1>4 DEF SkipDot, Stepped, Links
    <2>2. StateIs(next, resolved', parts', Links', "ok", followedAbsoluteLink',
                  relativeEscapeBeforeAbsolute')
      BY <1>3, <1>4, <2>1 DEF SkipDot, StepsOn, StateIs, result
    <2>3. QED
      BY <1>0, <1>1, <1>4, <2>2, BesideNext DEF SkipDot, result
  <1>5. CASE GoUp /\ resolved # << >>
    <2>1. StepsOn(s, next, Front(resolved)) /\ Links' = Links
      BY <1>1, <1>3, <1>5 DEF GoUp, Stepped, Links, StateIs
    <2>2. relativeEscapeBeforeAbsolute' = relativeEscapeBeforeAbsolute
      BY <1>5 DEF GoUp, EscapesBefore, TypeOK
    <2>3. StateIs(next, resolved', parts', Links', "ok", followedAbsoluteLink',
                  relativeEscapeBeforeAbsolute')
      BY <1>3, <1>5, <2>1, <2>2 DEF GoUp, StepsOn, StateIs
    <2>4. QED
      BY <1>0, <1>1, <1>5, <2>2, <2>3, BesideNext DEF GoUp
  <1>6. CASE GoUp /\ resolved = << >> /\ scoped
    <2>1. /\ StateIs(next, << >>, Tail(s.rest), s.links, s.err, s.followedAbsoluteLink,
                     s.relativeEscapeBeforeAbsolute \/ ~s.followedAbsoluteLink)
          /\ Links' = Links
      BY <1>1, <1>3, <1>6 DEF GoUp, Stepped, Links, StateIs
    <2>2. relativeEscapeBeforeAbsolute' =
             (relativeEscapeBeforeAbsolute \/ ~followedAbsoluteLink)
      BY <1>6 DEF GoUp, EscapesBefore
    <2>3. StateIs(next, resolved', parts', Links', "ok", followedAbsoluteLink',
                  relativeEscapeBeforeAbsolute')
      BY <1>3, <1>6, <2>1, <2>2 DEF GoUp, StateIs
    <2>4. QED
      BY <1>0, <1>1, <1>6, <2>3, BesideNext
  <1>7. CASE GoUp /\ resolved = << >> /\ ~scoped
    <2>1. StopsWith(s, next, "escapes") /\ Head(parts) = Up
      BY <1>1, <1>3, <1>7 DEF GoUp, Stepped, StateIs
    <2>2. next.err = "escapes" /\ next.rest = parts
      BY <1>3, <2>1 DEF StopsWith, StateIs
    <2>3. QED
      BY <1>2, <1>7, <2>1, <2>2
  <1>8. CASE Enter
    <2>1. PICK seen \in Seen : Enters(seen)
      BY <1>8 DEF Enter
    <2>2. seen = IF candidate \in DOMAIN tree THEN tree[candidate].kind ELSE "missing"
      BY <2>1, SeenIs DEF Enters, Kind
    <2>3. Links' = Links /\ Head(parts) \in Name
      BY <1>8 DEF Enter, Links, Looking
    <2>4. CASE candidate \notin DOMAIN tree /\ ~scoped
      <3>1. StopsWith(s, next, "notexist")
        BY <1>1, <2>3, <2>4 DEF Stepped, Exists
      <3>2. QED
        BY <1>2, <2>4, <3>1 DEF StopsWith, StateIs
    <2>5. CASE candidate \in DOMAIN tree \/ scoped
      <3>1. StepsOn(s, next, candidate)
        <4>1. CASE candidate \notin DOMAIN tree
          BY <1>1, <2>3, <2>5, <4>1 DEF Stepped, Exists
        <4>2. CASE candidate \in DOMAIN tree
          <5>1. /\ tree[candidate].kind # "sym"
                /\ tree[candidate].kind = "dir" \/ Len(s.rest) = 1
            <6>1. tree[candidate].kind \in Kind
              BY <4>2, ResolvePathAssumption, TreePaths DEF TypeOK, NodeType
            <6>2. QED
              BY <1>3, <2>1, <2>2, <4>2, <6>1 DEF Enters, StateIs, Kind
          <5>2. QED
            BY <1>1, <2>3, <4>2, <5>1 DEF Stepped, Exists
        <4>3. QED
          BY <4>1, <4>2
      <3>2. StateIs(next, resolved', parts', Links', "ok", followedAbsoluteLink',
                    relativeEscapeBeforeAbsolute')
        BY <1>3, <1>8, <2>3, <3>1 DEF Enter, StepsOn, StateIs
      <3>3. QED
        BY <1>0, <1>1, <1>8, <3>2, BesideNext DEF Enter
    <2>6. QED
      BY <2>4, <2>5
  <1>9. CASE Readlink
    <2>1. PICK link \in LinkRead :
             /\ parts' = Spliced(link)
             /\ resolved' = Base(link)
             /\ followedAbsoluteLink' = (followedAbsoluteLink \/ link.abs)
      BY <1>9 DEF Readlink
    <2>2. /\ pc = "readlink" /\ Head(parts) \in Name
          /\ candidate \in DOMAIN tree /\ tree[candidate].kind = "sym"
          /\ link = tree[candidate].link
      BY <1>9, <2>1, LinkReadIs DEF Readlink, AtLink, TypeOK
    <2>3. s.links = linksWalked - 1 /\ s.links \in Nat
      BY <1>3, <2>2 DEF StateIs, Links, WalkState
    <2>4. s.links # MaxLinks /\ Links' = s.links + 1
      <3>1. linksWalked <= MaxLinks
        BY <1>0 DEF TypeOK
      <3>2. Links' = linksWalked
        BY <1>9 DEF Readlink, Links
      <3>3. QED
        BY <1>0, <2>3, <3>1, <3>2
    <2>5. CASE link.abs /\ ~scoped
      <3>1. StopsWith(s, next, "escapes")
        BY <1>1, <2>2, <2>4, <2>5 DEF Stepped, Exists
      <3>2. next.err = "escapes" /\ next.rest = parts
        BY <1>3, <3>1 DEF StopsWith, StateIs
      <3>3. QED
        BY <1>2, <1>9, <2>1, <2>2, <2>5, <3>2, PartKinds
    <2>6. CASE ~(link.abs /\ ~scoped)
      <3>1. Follows(s, next, link)
        BY <1>1, <2>2, <2>4, <2>6 DEF Stepped, Exists
      <3>2. StateIs(next, resolved', parts', Links', "ok", followedAbsoluteLink',
                    relativeEscapeBeforeAbsolute')
        BY <1>3, <1>9, <2>1, <2>4, <3>1
           DEF Follows, StateIs, Spliced, Base, Readlink
      <3>3. scoped \/ UNCHANGED <<followedAbsoluteLink, relativeEscapeBeforeAbsolute>>
        BY <1>9, <2>1, <2>6 DEF Readlink, TypeOK
      <3>4. QED
        BY <1>0, <1>1, <3>2, <3>3, BesideNext
    <2>7. QED
      BY <2>5, <2>6
  <1>10. QED
    BY <1>4, <1>5, <1>6, <1>7, <1>8, <1>9

\* A link is counted, or there is no component left: the lookup waits.
LEMMA LookupWaits ==
    ASSUME NEW scoped \in BOOLEAN, Beside(scoped), MeetLink \/ Finish, TypeOK
    PROVE  Beside(scoped)'
  <1>1. /\ tree' = tree /\ path' = path /\ parts' = parts
        /\ Links' = Links
        /\ UNCHANGED result
    BY DEF MeetLink, Finish, Looking, Counted, Links, TypeOK
  <1>2. PICK i \in 0..MaxSteps : IsAt(Stage(tree, path, scoped, TRUE, i))
    BY DEF Beside
  <1>3. PICK next : next = Stage(tree, path, scoped, TRUE, i)
    OBVIOUS
  <1>4. StateIs(next, resolved', parts', Links', "ok", followedAbsoluteLink',
                relativeEscapeBeforeAbsolute')
    BY <1>1, <1>2, <1>3 DEF IsAt, StateIs, result
  <1>5. QED
    BY <1>1, <1>3, <1>4, BesideNext

\* What a step may be on a tree nobody else changes.
LEMMA UndisturbedStep ==
    ASSUME TypeOK, [Next]_vars, changes' = 0
    PROVE  /\ changes = 0 /\ tree' = tree /\ path' = path
           /\ \/ Step
              \/ UNCHANGED vars
  <1>1. ~Change
    BY DEF Change, TypeOK
  <1>2. Step => changes' = changes /\ tree' = tree /\ path' = path
    BY DEF Step, SkipDot, GoUp, Enter, NotADirectory, LstatFails, TooManyLinks, MeetLink,
           Readlink, ReadlinkFails, Finish, Fail
  <1>3. QED
    BY <1>1, <1>2 DEF Next, Returned, vars

\* Every step keeps a link where Readlink will read one, and files out of the way.
LEMMA NextUndisturbed ==
    TypeOK /\ NoSymlinkLeft /\ Undisturbed /\ [Next]_vars => Undisturbed'
  <1>. SUFFICES ASSUME TypeOK, NoSymlinkLeft, Undisturbed, [Next]_vars, changes' = 0
                PROVE  AtLink' /\ NoFileInTheWay'
    BY DEF Undisturbed
  <1>0. /\ changes = 0 /\ tree' = tree
        /\ Step \/ UNCHANGED vars
        /\ AtLink /\ NoFileInTheWay
        /\ parts \in Seq(Part) /\ resolved \in Seq(Name)
    BY UndisturbedStep DEF Undisturbed, TypeOK
  <1>1. AtLink'
    <2>1. CASE MeetLink
      <3>1. PICK seen \in Seen : seen = "sym"
        BY <2>1 DEF MeetLink
      <3>2. candidate \in DOMAIN tree /\ tree[candidate].kind = "sym"
        BY <1>0, <3>1, SeenIs
      <3>3. candidate' = candidate
        BY <2>1 DEF MeetLink, candidate, result
      <3>4. QED
        BY <1>0, <3>2, <3>3 DEF AtLink
    <2>2. CASE ~MeetLink /\ pc' = "readlink"
      <3>1. UNCHANGED vars
        BY <1>0, <2>2 DEF Step, SkipDot, GoUp, Enter, NotADirectory, LstatFails,
              TooManyLinks, Readlink, ReadlinkFails, Finish, Fail, Looking
      <3>2. QED
        BY <1>0, <3>1 DEF AtLink, candidate, vars, result
    <2>3. QED
      BY <2>1, <2>2 DEF AtLink
  <1>2. NoFileInTheWay'
    <2>1. CASE resolved' = resolved /\ (parts' # << >> => parts # << >>)
      BY <1>0, <2>1 DEF NoFileInTheWay, FileInTheWay
    <2>2. CASE resolved' = << >>
      BY <2>2 DEF NoFileInTheWay, FileInTheWay
    <2>3. CASE GoUp /\ resolved # << >>
      <3>1. ~FileInTheWay /\ resolved' = Front(resolved)
        BY <1>0, <2>3 DEF NoFileInTheWay, GoUp
      <3>2. ASSUME NEW i \in 1..Len(resolved')
            PROVE  i \in 1..Len(resolved) /\ SubSeq(resolved', 1, i) = SubSeq(resolved, 1, i)
        <4>1. i \in 1..Len(resolved)-1
          BY <1>0, <2>3, <3>1, FrontProperties
        <4>2. SubSeq(resolved', 1, i) = SubSeq(resolved, 1, i)
          BY <1>0, <2>3, <3>1, <4>1, PrefixOfFront
        <4>3. QED
          BY <1>0, <4>1, <4>2
      <3>3. QED
        BY <1>0, <3>1, <3>2 DEF NoFileInTheWay, FileInTheWay
    <2>4. CASE Enter
      <3>1. PICK seen \in Seen : Enters(seen)
        BY <2>4 DEF Enter
      <3>2. /\ ~FileInTheWay
            /\ seen = IF candidate \in DOMAIN tree THEN tree[candidate].kind ELSE "missing"
        BY <1>0, <3>1, SeenIs DEF Enters, Kind
      <3>3. SUFFICES ASSUME parts' # << >> PROVE ~FileInTheWay'
        BY DEF NoFileInTheWay
      <3>4. seen \in {"missing", "dir"}
        <4>1. parts' = Tail(parts) /\ parts # << >>
          BY <2>4 DEF Enter, Looking
        <4>2. Len(parts) # 1
          BY <1>0, <3>3, <4>1
        <4>3. QED
          BY <3>1, <4>2 DEF Enters
      <3>5. candidate \in DOMAIN tree => tree[candidate].kind = "dir"
        <4>1. candidate \in DOMAIN tree => tree[candidate].kind \in Kind
          BY ResolvePathAssumption, TreePaths DEF TypeOK, NodeType
        <4>2. QED
          BY <3>2, <3>4, <4>1 DEF Kind
      <3>6. /\ Head(parts) \in Name /\ resolved' = candidate
            /\ Len(resolved') = Len(resolved) + 1
        BY <1>0, <2>4 DEF Enter, Looking, candidate
      <3>7. ASSUME NEW i \in 1..Len(resolved'), SubSeq(resolved', 1, i) # candidate
            PROVE  i \in 1..Len(resolved) /\ SubSeq(resolved', 1, i) = SubSeq(resolved, 1, i)
        <4>1. i \in 1..Len(resolved)+1
          BY <1>0, <3>6
        <4>2. SubSeq(resolved', 1, i) =
                 IF i = Len(resolved) + 1 THEN candidate ELSE SubSeq(resolved, 1, i)
          BY <1>0, <3>6, <4>1, PrefixOfAppend DEF candidate
        <4>3. QED
          BY <1>0, <3>7, <4>1, <4>2
      <3>8. QED
        BY <1>0, <3>2, <3>5, <3>7 DEF FileInTheWay, Exists
    <2>5. \/ resolved' = resolved /\ (parts' # << >> => parts # << >>)
          \/ resolved' = << >>
          \/ GoUp /\ resolved # << >>
          \/ Enter
      <3>1. Tail(<< >>) = << >>
        OBVIOUS
      <3>2. QED
        BY <1>0, <3>1 DEF Step, SkipDot, GoUp, NotADirectory, LstatFails, TooManyLinks,
              MeetLink, Readlink, Base, ReadlinkFails, Finish, Fail, result, vars, TypeOK
    <2>6. QED
      BY <2>1, <2>2, <2>3, <2>4, <2>5
  <1>3. QED
    BY <1>1, <1>2

\* The loop ends with an error, or when no component is left.
Ended == /\ pc = "done" /\ err = "ok" => parts = << >>
         /\ pc # "done" => err = "ok"

\* A step ends the walk without an error only when no part is left.
LEMMA NextEnded == Ended /\ [Next]_vars => Ended'
  BY DEF Ended, Next, Step, Returned, SkipDot, GoUp, Enter, NotADirectory, LstatFails,
         TooManyLinks, MeetLink, Readlink, ReadlinkFails, Finish, Fail, Change, Looking,
         vars

\* At the end the lookup beside the loop has ended too.
LEMMA BesideAtEnd ==
    ASSUME TypeOK, Ended, pc = "done", err = "ok", NEW scoped \in BOOLEAN, Beside(scoped)
    PROVE  /\ LookedUp(scoped).err = "ok" /\ LookedUp(scoped).at = resolved
           /\ LookedUp(scoped).followedAbsoluteLink = followedAbsoluteLink
           /\ LookedUp(scoped).relativeEscapeBeforeAbsolute = relativeEscapeBeforeAbsolute
  <1>1. PICK i \in 0..MaxSteps : IsAt(Stage(tree, path, scoped, TRUE, i))
    BY DEF Beside
  <1>2. PICK s : s = Stage(tree, path, scoped, TRUE, i)
    OBVIOUS
  <1>3. StateIs(s, resolved, parts, Links, "ok", followedAbsoluteLink,
                relativeEscapeBeforeAbsolute)
    BY <1>1, <1>2 DEF IsAt
  <1>4. s.rest = << >>
    BY <1>3 DEF Ended, StateIs
  <1>5. LookedUp(scoped) = s
    BY <1>2, <1>4, LookupFails
  <1>6. QED
    BY <1>3, <1>5 DEF StateIs

\* A lookup out of steps fails like one with too many links.
LEMMA OutOfStepsLoops ==
    ASSUME TypeOK, NEW scoped \in BOOLEAN, OutOfSteps(scoped)
    PROVE  LookedUp(scoped).err = "loop"
  <1>1. PICK s : s = Stage(tree, path, scoped, TRUE, MaxSteps)
    OBVIOUS
  <1>2. s \in WalkState
    <2>1. IsTree(tree) /\ path \in Seq(Part) /\ MaxSteps \in 0..MaxSteps
      BY RootFsAssumption, ResolvePathAssumption DEF TypeOK
    <2>2. QED
      BY <1>1, <2>1, StageType DEF OnTree
  <1>3. LookedUp(scoped) = [s EXCEPT !.err = "loop"]
    BY <1>1, WalkFunction DEF LookedUp, OutOfSteps, Stage, WalkEnd
  <1>4. QED
    BY <1>2, <1>3 DEF WalkState

(***************************************************************************)
(* os.Root's lookup of the path goes along with the loop until it fails;   *)
(* when what it fails at is an escape, the loop has noted which kind, and  *)
(* notes nothing else later.                                               *)
(***************************************************************************)
EscapeNoted ==
    LET w == LookedUp(FALSE)
    IN  /\ relativeEscapeBeforeAbsolute = (Head(w.rest) = Up)
        /\ Head(w.rest) # Up => followedAbsoluteLink

EscapeFollowed ==
    (changes = 0 /\ err = "ok") =>
        \/ Beside(FALSE) /\ ~followedAbsoluteLink /\ ~relativeEscapeBeforeAbsolute
        \/ LookedUp(FALSE).err \notin {"ok", "escapes"}
        \/ LookedUp(FALSE).err = "escapes" /\ EscapeNoted

EscapeInv == TypeOK /\ NoSymlinkLeft /\ Undisturbed /\ Ended /\ EscapeFollowed

\* Every step keeps the two walks together until the escape.
LEMMA NextEscapeFollowed == EscapeInv /\ [Next]_vars => EscapeFollowed'
  <1>. SUFFICES ASSUME EscapeInv, [Next]_vars, changes' = 0, err' = "ok"
                PROVE  EscapeFollowed'
    BY DEF EscapeFollowed
  <1>0. /\ TypeOK /\ NoSymlinkLeft
        /\ changes = 0 /\ tree' = tree /\ path' = path
        /\ Step \/ UNCHANGED vars
        /\ AtLink
    BY UndisturbedStep DEF EscapeInv, Undisturbed
  <1>1. err = "ok"
    BY <1>0 DEF Step, SkipDot, GoUp, Enter, NotADirectory, LstatFails, TooManyLinks,
                MeetLink, Readlink, ReadlinkFails, Finish, Fail, vars
  <1>2. LookedUp(FALSE)' = LookedUp(FALSE)
    BY <1>0 DEF LookedUp
  <1>3. CASE UNCHANGED vars
    <2>1. Beside(FALSE)' = Beside(FALSE)
      BY <1>3 DEF Beside, IsAt, Links, vars, result
    <2>2. QED
      BY <1>0, <1>1, <1>2, <1>3, <2>1 DEF EscapeInv, EscapeFollowed, EscapeNoted, vars, result
  <1>4. CASE LookedUp(FALSE).err \notin {"ok", "escapes"}
    BY <1>2, <1>4 DEF EscapeFollowed
  <1>5. CASE Step /\ LookedUp(FALSE).err = "escapes" /\ EscapeNoted
    <2>1. followedAbsoluteLink => followedAbsoluteLink'
      BY <1>0, <1>5 DEF Step, SkipDot, GoUp, Enter, NotADirectory, LstatFails, TooManyLinks,
            MeetLink, Readlink, ReadlinkFails, Finish, Fail, result
    <2>2. \/ relativeEscapeBeforeAbsolute' = relativeEscapeBeforeAbsolute
          \/ ~followedAbsoluteLink /\ relativeEscapeBeforeAbsolute'
      BY <1>0, <1>5 DEF Step, SkipDot, GoUp, Enter, NotADirectory, LstatFails, TooManyLinks,
            MeetLink, Readlink, ReadlinkFails, Finish, Fail, result, EscapesBefore, TypeOK
    <2>3. EscapeNoted'
      BY <1>0, <1>2, <1>5, <2>1, <2>2 DEF EscapeNoted, TypeOK
    <2>4. QED
      BY <1>2, <1>5, <2>3 DEF EscapeFollowed
  <1>6. CASE Step /\ Beside(FALSE) /\ ~followedAbsoluteLink /\ ~relativeEscapeBeforeAbsolute
    <2>1. CASE MeetLink \/ Finish
      <3>1. Beside(FALSE)'
        BY <1>0, <1>6, <2>1, LookupWaits
      <3>2. UNCHANGED result
        BY <2>1 DEF MeetLink, Finish
      <3>3. QED
        BY <1>6, <3>1, <3>2 DEF EscapeFollowed, result
    <2>2. CASE OutOfSteps(FALSE)
      <3>1. LookedUp(FALSE).err = "loop"
        BY <1>0, <2>2, OutOfStepsLoops
      <3>2. QED
        BY <1>2, <3>1 DEF EscapeFollowed
    <2>3. CASE ~OutOfSteps(FALSE) /\ (SkipDot \/ GoUp \/ Enter \/ Readlink)
      <3>1. \/ /\ Beside(FALSE)'
               /\ UNCHANGED <<followedAbsoluteLink, relativeEscapeBeforeAbsolute>>
            \/ LookedUp(FALSE).err = "notexist"
            \/ /\ LookedUp(FALSE).err = "escapes"
               /\ \/ GoUp /\ resolved = << >> /\ Head(LookedUp(FALSE).rest) = Up
                  \/ Readlink /\ followedAbsoluteLink' /\ Head(LookedUp(FALSE).rest) # Up
        BY <1>0, <1>6, <2>3, LookupMoves
      <3>2. CASE Beside(FALSE)' /\
                 UNCHANGED <<followedAbsoluteLink, relativeEscapeBeforeAbsolute>>
        BY <1>6, <3>2 DEF EscapeFollowed
      <3>3. CASE LookedUp(FALSE).err = "notexist"
        BY <1>2, <3>3 DEF EscapeFollowed
      <3>4. CASE /\ LookedUp(FALSE).err = "escapes" /\ Head(LookedUp(FALSE).rest) = Up
                 /\ GoUp /\ resolved = << >>
        <4>1. relativeEscapeBeforeAbsolute'
          BY <1>6, <3>4 DEF GoUp, EscapesBefore
        <4>2. QED
          BY <1>2, <3>4, <4>1 DEF EscapeFollowed, EscapeNoted
      <3>5. CASE /\ LookedUp(FALSE).err = "escapes" /\ Head(LookedUp(FALSE).rest) # Up
                 /\ Readlink /\ followedAbsoluteLink'
        <4>1. relativeEscapeBeforeAbsolute' = FALSE
          BY <1>0, <1>6, <3>5 DEF Readlink, TypeOK
        <4>2. EscapeNoted'
          BY <1>2, <3>5, <4>1 DEF EscapeNoted
        <4>3. QED
          BY <1>2, <3>5, <4>2 DEF EscapeFollowed
      <3>6. QED
        BY <3>1, <3>2, <3>3, <3>4, <3>5
    <2>4. QED
      BY <1>0, <1>1, <1>6, <2>1, <2>2, <2>3
         DEF Step, NotADirectory, LstatFails, TooManyLinks, ReadlinkFails, Fail
  <1>7. QED
    BY <1>0, <1>1, <1>3, <1>4, <1>5, <1>6 DEF EscapeInv, EscapeFollowed

\* Whether the path escapes for os.Root, and by a ".." or by an absolute link, is
\* told by relativeEscapeBeforeAbsolute; a path that does not escape is resolved to
\* what os.Root finds.  (resolveArchivePath, which tells an image's absolute link
\* from a breakout by it.)
THEOREM EscapesAreClassified == Spec => []EscapeClassified
  <1>1. Init => EscapeInv
    <2>1. Init => TypeOK
      BY InitTypeOK
    <2>2. Init => NoSymlinkLeft /\ Undisturbed /\ Ended
      BY DEF Init, NoSymlinkLeft, Undisturbed, AtLink, NoFileInTheWay, FileInTheWay, Ended
    <2>3. Init => EscapeFollowed
      BY InitBeside DEF Init, EscapeFollowed
    <2>4. QED
      BY <2>1, <2>2, <2>3 DEF EscapeInv
  <1>2. EscapeInv /\ [Next]_vars => EscapeInv'
    BY NextTypeOK, NextNoSymlinkLeft, NextUndisturbed, NextEnded, NextEscapeFollowed
       DEF EscapeInv
  <1>3. EscapeInv => EscapeClassified
    <2>. SUFFICES ASSUME EscapeInv, pc = "done", changes = 0, err = "ok"
                  PROVE  LET w == LookedUp(FALSE)
                         IN  /\ w.err = "escapes" => EscapeNoted
                             /\ w.err = "ok" =>
                                  /\ w.at = resolved
                                  /\ ~followedAbsoluteLink
                                  /\ ~relativeEscapeBeforeAbsolute
      BY DEF EscapeClassified, EscapeNoted, LookedUp
    <2>1. CASE Beside(FALSE) /\ ~followedAbsoluteLink /\ ~relativeEscapeBeforeAbsolute
      BY <2>1, BesideAtEnd DEF EscapeInv
    <2>2. CASE ~(Beside(FALSE) /\ ~followedAbsoluteLink /\ ~relativeEscapeBeforeAbsolute)
      BY <2>2 DEF EscapeInv, EscapeFollowed
    <2>3. QED
      BY <2>1, <2>2
  <1>4. QED
    BY <1>1, <1>2, <1>3, PTL DEF Spec

\* The lookup beside the loop fails when the loop does.
LookupFollowed ==
    changes = 0 => /\ err = "ok" => Beside(TRUE)
                   /\ err # "ok" => LookedUp(TRUE).err = err

LookupInv == TypeOK /\ NoSymlinkLeft /\ Undisturbed /\ Ended /\ LookupFollowed

\* With enough steps the walk does not run out of them.
LEMMA NotOutOfSteps ==
    ASSUME TypeOK, NEW scoped \in BOOLEAN, NEW size \in Nat, StepsSuffice(size)
    PROVE  ~OutOfSteps(scoped)
  <1>1. /\ IsTree(tree) /\ path \in Seq(Part)
        /\ \A p \in DOMAIN tree : Len(tree[p].link.to) <= size
        /\ Len(path) + MaxLinks * size <= MaxSteps
    BY ResolvePathAssumption DEF TypeOK, StepsSuffice
  <1>2. PICK s : s = Stage(tree, path, scoped, TRUE, MaxSteps)
    OBVIOUS
  <1>3. s.rest = << >> \/ s.err # "ok"
    BY <1>1, <1>2, EnoughSteps
  <1>4. QED
    BY <1>2, <1>3 DEF OutOfSteps

\* When the loop fails the lookup fails, for the same reason.
LEMMA FailsAlike ==
    ASSUME TypeOK, NoSymlinkLeft, AtLink, NoFileInTheWay, changes = 0, Beside(TRUE),
           ~OutOfSteps(TRUE), NotADirectory \/ LstatFails \/ TooManyLinks \/ ReadlinkFails
    PROVE  LookedUp(TRUE).err = err'
  <1>1. ~ReadlinkFails
    BY LinkReadIs DEF ReadlinkFails
  <1>2. pc = "loop" /\ parts # << >> /\ Head(parts) \in Name
    BY <1>1 DEF NotADirectory, LstatFails, TooManyLinks, Looking
  <1>3. Seen = {IF candidate \in DOMAIN tree THEN tree[candidate].kind ELSE "missing"}
    <2>1. ~Astray /\ ~FileInTheWay
      BY <1>2 DEF NoSymlinkLeft, Astray, NoFileInTheWay
    <2>2. QED
      BY <2>1 DEF Seen, Exists
  <1>4. candidate \in DOMAIN tree => tree[candidate].kind \in Kind
    BY ResolvePathAssumption, TreePaths DEF TypeOK, NodeType
  <1>5. ~LstatFails
    BY <1>3, <1>4 DEF LstatFails, Kind
  <1>6. PICK s \in WalkState, next \in WalkState, i \in 0..MaxSteps :
           /\ IsAt(s)
           /\ Stepped(tree, TRUE, TRUE, s, Head(parts), candidate, next)
           /\ next = Stage(tree, path, TRUE, TRUE, i)
    BY <1>2, LookupStep
  <1>7. s.rest = parts /\ s.links = linksWalked
    BY <1>2, <1>6 DEF IsAt, StateIs, Links
  <1>8. CASE NotADirectory
    <2>1. /\ candidate \in DOMAIN tree /\ tree[candidate].kind \notin {"dir", "sym"}
          /\ Len(s.rest) # 1
      BY SMTT(30), <1>3, <1>7, <1>8 DEF NotADirectory, Kind, TypeOK
    <2>2. StopsWith(s, next, "notdir")
      BY <1>2, <1>6, <2>1 DEF Stepped, Exists
    <2>3. QED
      BY <1>6, <1>8, <2>2, LookupFails DEF NotADirectory, Fail, StopsWith, StateIs
  <1>9. CASE TooManyLinks
    <2>1. /\ candidate \in DOMAIN tree /\ tree[candidate].kind = "sym"
          /\ s.links = MaxLinks
      BY <1>3, <1>7, <1>9 DEF TooManyLinks, LinksLeft
    <2>2. StopsWith(s, next, "loop")
      BY <1>2, <1>6, <2>1 DEF Stepped, Exists
    <2>3. QED
      BY <1>6, <1>9, <2>2, LookupFails DEF TooManyLinks, Fail, StopsWith, StateIs
  <1>10. QED
    BY <1>1, <1>5, <1>8, <1>9

\* Every step keeps the lookup together with the walk.
LEMMA NextLookupFollowed ==
    ASSUME NEW size \in Nat, StepsSuffice(size), LookupInv, [Next]_vars
    PROVE  LookupFollowed'
  <1>. SUFFICES ASSUME changes' = 0
                PROVE  /\ err' = "ok" => Beside(TRUE)'
                       /\ err' # "ok" => LookedUp(TRUE)'.err = err'
    BY DEF LookupFollowed
  <1>0. /\ TypeOK /\ NoSymlinkLeft
        /\ changes = 0 /\ tree' = tree /\ path' = path
        /\ Step \/ UNCHANGED vars
        /\ AtLink /\ NoFileInTheWay
        /\ err = "ok" => Beside(TRUE)
        /\ err # "ok" => LookedUp(TRUE).err = err
        /\ pc # "done" => err = "ok"
    BY UndisturbedStep DEF LookupInv, Ended, Undisturbed, LookupFollowed
  <1>1. ~OutOfSteps(TRUE)
    BY <1>0, NotOutOfSteps
  <1>2. LookedUp(TRUE)' = LookedUp(TRUE)
    BY <1>0 DEF LookedUp
  <1>3. CASE UNCHANGED vars
    <2>1. Beside(TRUE)' = Beside(TRUE)
      BY <1>3 DEF Beside, IsAt, Links, vars, result
    <2>2. err' = err
      BY <1>3 DEF vars
    <2>3. QED
      BY <1>0, <1>2, <2>1, <2>2
  <1>4. CASE NotADirectory \/ LstatFails \/ TooManyLinks \/ ReadlinkFails
    <2>1. err = "ok"
      BY <1>0, <1>4 DEF NotADirectory, LstatFails, TooManyLinks, ReadlinkFails, Looking
    <2>2. err' # "ok"
      BY <1>4 DEF NotADirectory, LstatFails, TooManyLinks, ReadlinkFails, Fail
    <2>3. QED
      BY <1>0, <1>1, <1>2, <1>4, <2>1, <2>2, FailsAlike
  <1>5. CASE SkipDot \/ GoUp \/ Enter \/ Readlink \/ MeetLink \/ Finish
    <2>1. err = "ok" /\ err' = err
      BY <1>0, <1>5 DEF SkipDot, GoUp, Enter, Readlink, MeetLink, Finish, Looking
    <2>2. Beside(TRUE)'
      BY <1>0, <1>1, <1>5, <2>1, LookupMoves, LookupWaits
    <2>3. QED
      BY <2>1, <2>2
  <1>6. QED
    BY <1>0, <1>3, <1>4, <1>5 DEF Step

\* On a tree nobody else changes, resolveFSRootPath returns what the lookup of
\* RootFs does, its error and what it has noted of escapes included: what is
\* proved with that lookup about Unpack and UnpackLayer is about this function.
THEOREM ResolutionIsWalk ==
    ASSUME NEW CONSTANT size, size \in Nat /\ StepsSuffice(size)
    PROVE  Spec => []WalkIsResolution
  <1>1. Init => LookupInv
    <2>1. Init => TypeOK
      BY InitTypeOK
    <2>2. Init => NoSymlinkLeft /\ Undisturbed /\ Ended
      BY DEF Init, NoSymlinkLeft, Undisturbed, AtLink, NoFileInTheWay, FileInTheWay, Ended
    <2>3. Init => LookupFollowed
      BY InitBeside DEF Init, LookupFollowed
    <2>4. QED
      BY <2>1, <2>2, <2>3 DEF LookupInv
  <1>2. LookupInv /\ [Next]_vars => LookupInv'
    BY NextTypeOK, NextNoSymlinkLeft, NextUndisturbed, NextEnded, NextLookupFollowed
       DEF LookupInv
  <1>3. LookupInv => WalkIsResolution
    <2>. SUFFICES ASSUME LookupInv, pc = "done", changes = 0
                  PROVE  LET w == LookedUp(TRUE)
                         IN  IF err = "ok"
                             THEN /\ w.err = "ok" /\ w.at = resolved
                                  /\ w.followedAbsoluteLink = followedAbsoluteLink
                                  /\ w.relativeEscapeBeforeAbsolute =
                                        relativeEscapeBeforeAbsolute
                             ELSE w.err = err
      BY DEF WalkIsResolution, LookedUp
    <2>1. CASE err = "ok"
      BY <2>1, BesideAtEnd DEF LookupInv, LookupFollowed
    <2>2. CASE err # "ok"
      BY <2>2 DEF LookupInv, LookupFollowed
    <2>3. QED
      BY <2>1, <2>2
  <1>4. QED
    BY <1>1, <1>2, <1>3, PTL DEF Spec
=============================================================================
