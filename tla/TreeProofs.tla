----------------------------- MODULE TreeProofs -----------------------------
(***************************************************************************)
(* Facts about the paths, trees and lookups of RootFs, and about the calls *)
(* of Extract.  A lookup is a function defined by recursion over the       *)
(* natural numbers; what it computes is proved by induction, stated here   *)
(* over subsets of Nat, and for lookups over sets of states that a step    *)
(* does not leave.  Whatever is called, a tree stays a tree; every node is *)
(* one that was there, with the same author, or has the current entry as   *)
(* its author; and no call but a removal takes a node away or turns it     *)
(* into one of another kind.  Last, what a call that writes an entry       *)
(* changes in the view of a tree is what LayerView says of that entry.     *)
(***************************************************************************)
EXTENDS Extract, SequenceTheorems, TLAPS, WellFoundedInduction

-----------------------------------------------------------------------------
(* Sequences.                                                              *)

\* A sequence over a set is one over any larger set.
LEMMA WiderSeq ==
    ASSUME NEW S, NEW T, S \subseteq T, NEW s \in Seq(S)
    PROVE  s \in Seq(T)
  <1>1. Len(s) \in Nat /\ s \in [1..Len(s) -> S]
    BY LenProperties
  <1>2. s \in [1..Len(s) -> T]
    BY <1>1
  <1>3. QED
    BY <1>1, <1>2, SeqDef

\* The last element of a sequence and the length of a longer one.
LEMMA AppendFacts ==
    ASSUME NEW S, NEW s \in Seq(S), NEW e
    PROVE  /\ Append(s, e) \in Seq(S \union {e})
           /\ Len(s) \in Nat /\ Len(Append(s, e)) = Len(s) + 1
           /\ \A i \in 1..Len(s) : Append(s, e)[i] = s[i]
           /\ Append(s, e)[Len(s) + 1] = e
           /\ Append(s, e) # << >> /\ Last(Append(s, e)) = e
  <1>1. s \in Seq(S \union {e}) /\ e \in S \union {e}
    BY WiderSeq
  <1>2. /\ Append(s, e) \in Seq(S \union {e})
        /\ Len(s) \in Nat /\ Len(Append(s, e)) = Len(s) + 1
        /\ \A i \in 1..Len(s) : Append(s, e)[i] = s[i]
        /\ Append(s, e)[Len(s) + 1] = e
    BY <1>1, AppendProperties, LenProperties
  <1>3. Append(s, e) # << >>
    BY <1>2, EmptySeq
  <1>4. QED
    BY <1>2, <1>3 DEF Last

(* Facts about paths, which are sequences of names: what Front, Append and *)
(* SubSeq do to them.                                                      *)

\* Front drops the last element and keeps the others: the path of the parent
\* directory, filepath.Dir in the code.
LEMMA FrontProperties ==
    ASSUME NEW S, NEW s \in Seq(S), s # << >>
    PROVE  /\ Front(s) \in Seq(S)
           /\ Len(Front(s)) = Len(s) - 1
           /\ \A i \in 1..Len(s)-1 : Front(s)[i] = s[i]
           /\ Len(s) > 0
  <1>1. Len(s) \in Nat /\ Len(s) > 0 /\ \A i \in 1..Len(s) : s[i] \in S
    BY EmptySeq, LenProperties, ElementOfSeq
  <1>2. PICK n \in Nat : n = Len(s) - 1
    BY <1>1
  <1>3. n \in Int /\ \A i \in 1..n : s[i] \in S
    BY <1>1, <1>2
  <1>4. /\ SubSeq(s, 1, n) \in Seq(S)
        /\ Len(SubSeq(s, 1, n)) = IF 1 <= n THEN n - 1 + 1 ELSE 0
        /\ \A i \in 1..n-1+1 : SubSeq(s, 1, n)[i] = s[1 + i - 1]
    BY <1>3, SubSeqProperties
  <1>5. Front(s) = SubSeq(s, 1, n)
    BY <1>2 DEF Front
  <1>6. Len(SubSeq(s, 1, n)) = n
    BY <1>4
  <1>7. \A i \in 1..n : SubSeq(s, 1, n)[i] = s[i]
    BY <1>4
  <1>8. QED
    BY <1>1, <1>2, <1>4, <1>5, <1>6, <1>7

\* The parent of Append(s, e) is s, and its base is e.
LEMMA FrontAppend ==
    ASSUME NEW S, NEW s \in Seq(S), NEW e \in S
    PROVE  /\ Append(s, e) \in Seq(S)
           /\ Append(s, e) # << >>
           /\ Len(Append(s, e)) = Len(s) + 1
           /\ Front(Append(s, e)) = s
           /\ Last(Append(s, e)) = e
  <1>1. /\ Append(s, e) \in Seq(S)
        /\ Append(s, e) # << >>
        /\ Len(Append(s, e)) = Len(s) + 1
        /\ Append(s, e)[Len(s) + 1] = e
    OBVIOUS
  <1>2. Front(Append(s, e)) = SubSeq(Append(s, e), 1, Len(s))
    BY <1>1 DEF Front
  <1>3. SubSeq(Append(s, e), 1, Len(s)) = s
    OBVIOUS
  <1>4. QED
    BY <1>1, <1>2, <1>3 DEF Last

\* The prefixes of the parent are prefixes of the path.
LEMMA PrefixOfFront ==
    ASSUME NEW S, NEW s \in Seq(S), s # << >>, NEW i \in 1..Len(s)-1
    PROVE  SubSeq(Front(s), 1, i) = SubSeq(s, 1, i)
  BY DEF Front

\* The prefixes of Append(s, e) are those of s, and itself.
LEMMA PrefixOfAppend ==
    ASSUME NEW S, NEW s \in Seq(S), NEW e \in S, NEW i \in 1..Len(s)+1
    PROVE  SubSeq(Append(s, e), 1, i) =
               IF i = Len(s) + 1 THEN Append(s, e) ELSE SubSeq(s, 1, i)
  OBVIOUS

\* A path is its parent and its base.
LEMMA FrontLast ==
    ASSUME NEW S, NEW s \in Seq(S), s # << >>
    PROVE  Append(Front(s), Last(s)) = s
  <1>1. /\ Front(s) \in Seq(S)
        /\ Len(Front(s)) = Len(s) - 1
        /\ \A i \in 1..Len(s)-1 : Front(s)[i] = s[i]
        /\ Len(s) > 0
    BY FrontProperties
  <1>2. Len(s) \in Nat /\ s[Len(s)] \in S
    BY <1>1
  <1>. DEFINE whole == Append(Front(s), s[Len(s)])
  <1>3. whole \in Seq(S) /\ Len(whole) = Len(s)
    BY <1>1, <1>2
  <1>4. \A i \in 1..Len(s) : whole[i] = s[i]
    BY <1>1, <1>2
  <1>. HIDE DEF whole
  <1>5. whole = s
    BY <1>3, <1>4
  <1>6. QED
    BY <1>5 DEF Last, whole

\* Moving the first remaining part to the end of the path found.
LEMMA MovePart ==
    ASSUME NEW S, NEW at \in Seq(S), NEW rest \in Seq(S), rest # << >>
    PROVE  /\ Append(at, Head(rest)) \o Tail(rest) = at \o rest
           /\ SubSeq(at \o rest, 1, Len(at) + 1) = Append(at, Head(rest))
           /\ Head(rest) = (at \o rest)[Len(at) + 1]
           /\ Len(at) + 1 \in 1..Len(at \o rest)
  <1>. DEFINE whole == at \o rest
              here == Append(at, Head(rest))
  <1>1. Len(at) \in Nat /\ Len(rest) \in Nat /\ Len(rest) > 0 /\ Head(rest) \in S
    OBVIOUS
  <1>2. /\ whole \in Seq(S) /\ Len(whole) = Len(at) + Len(rest)
        /\ \A i \in 1..Len(whole) : whole[i] = IF i <= Len(at) THEN at[i] ELSE rest[i - Len(at)]
    BY ConcatProperties
  <1>3. Tail(rest) \in Seq(S) /\ Len(Tail(rest)) = Len(rest) - 1
        /\ \A i \in 1..Len(rest)-1 : Tail(rest)[i] = rest[i+1]
    OBVIOUS
  <1>4. /\ here \in Seq(S) /\ Len(here) = Len(at) + 1
        /\ \A i \in 1..Len(at)+1 : here[i] = whole[i]
    BY <1>1, <1>2
  <1>5. here \o Tail(rest) = whole
    <2>0. PICK h, t : h = here /\ t = Tail(rest)
      OBVIOUS
    <2>. DEFINE moved == h \o t
    <2>. HIDE DEF whole, here
    <2>1. /\ moved \in Seq(S) /\ Len(moved) = Len(here) + Len(Tail(rest))
          /\ \A i \in 1..Len(moved) :
                moved[i] = IF i <= Len(here) THEN here[i] ELSE Tail(rest)[i - Len(here)]
      <3>1. h \in Seq(S) /\ t \in Seq(S)
        BY <1>3, <1>4, <2>0
      <3>2. /\ moved \in Seq(S) /\ Len(moved) = Len(h) + Len(t)
            /\ \A i \in 1..Len(moved) : moved[i] = IF i <= Len(h) THEN h[i] ELSE t[i - Len(h)]
        BY <3>1, ConcatProperties
      <3>3. QED
        BY <2>0, <3>2
    <2>. HIDE DEF moved
    <2>2. Len(moved) = Len(whole)
      BY <1>1, <1>2, <1>3, <1>4, <2>1
    <2>3. ASSUME NEW i \in 1..Len(moved) PROVE moved[i] = whole[i]
      <3>1. CASE i <= Len(at) + 1
        BY <1>1, <1>4, <2>1, <3>1
      <3>2. CASE i > Len(at) + 1
        <4>1. moved[i] = Tail(rest)[i - (Len(at) + 1)]
          BY <1>1, <1>4, <2>1, <3>2
        <4>2. i - (Len(at) + 1) \in 1..Len(rest)-1
          BY <1>1, <1>2, <2>2, <3>2
        <4>3. moved[i] = rest[i - (Len(at) + 1) + 1]
          BY <1>3, <4>1, <4>2
        <4>4. i - (Len(at) + 1) + 1 = i - Len(at) /\ ~(i <= Len(at)) /\ i \in 1..Len(whole)
          BY <1>1, <2>2, <3>2
        <4>5. QED
          BY <1>2, <4>3, <4>4
      <3>3. QED
        BY <1>1, <3>1, <3>2
    <2>4. moved = whole
      BY <1>2, <2>1, <2>2, <2>3
    <2>5. QED
      BY <2>0, <2>4 DEF moved
  <1>6. SubSeq(whole, 1, Len(at) + 1) = here
    <2>. HIDE DEF whole, here
    <2>1. PICK n \in Nat : n = Len(at) + 1
      BY <1>1
    <2>2. n \in 1..Len(whole)
      BY <1>1, <1>2, <2>1
    <2>3. SubSeq(whole, 1, n) = here
      BY <1>2, <1>4, <2>1, <2>2
    <2>4. QED
      BY <2>1, <2>3
  <1>7. here[Len(at) + 1] = Head(rest) /\ Len(at) + 1 \in 1..Len(at)+1
    BY <1>1
  <1>8. QED
    BY <1>1, <1>2, <1>4, <1>5, <1>6, <1>7

-----------------------------------------------------------------------------
(* Induction. *)

\* Induction over the natural numbers, for a set instead of a predicate.
LEMMA SetInduction ==
    ASSUME NEW T \in SUBSET Nat, 0 \in T, \A n \in T : n + 1 \in T
    PROVE  T = Nat
  <1>. DEFINE R == OpToRel(<, Nat)
  <1>1. IsWellFoundedOn(R, Nat)
    BY NatLessThanWellFounded
  <1>2. \A x, y \in Nat : x < y => <<x, y>> \in R
    BY DEF OpToRel
  <1>. HIDE DEF R
  <1>3. SUFFICES ASSUME Nat \ T # {} PROVE FALSE
    OBVIOUS
  <1>4. PICK x \in Nat \ T : \A y \in Nat \ T : <<y, x>> \notin R
    BY <1>1, <1>3, WFMin
  <1>5. x # 0
    BY <1>4
  <1>6. PICK m \in Nat : x = m + 1
    <2>1. x - 1 \in Nat /\ x = (x - 1) + 1
      BY <1>4, <1>5
    <2>2. QED
      BY <2>1
  <1>7. m \notin T
    BY <1>4, <1>6
  <1>8. <<m, x>> \in R
    BY <1>2, <1>4, <1>6
  <1>9. QED
    BY <1>4, <1>6, <1>7, <1>8

-----------------------------------------------------------------------------
(* The recursive function of Walk is well defined. *)

WalkFcn(tree, path, scoped, follow, m) ==
    CHOOSE w : w = [i \in 0..m |-> IF i = 0 THEN WalkStart(path)
                                   ELSE WalkNext(tree, scoped, follow, w[i-1])]

\* For every bound m there is a function that starts with WalkStart and steps
\* with WalkStep, so the CHOOSE behind the recursive definition picks one.
LEMMA WalkDefined ==
    ASSUME NEW tree, NEW path, NEW scoped, NEW follow, NEW m \in Nat
    PROVE  LET w == WalkFcn(tree, path, scoped, follow, m)
           IN  w = [i \in 0..m |-> IF i = 0 THEN WalkStart(path)
                                   ELSE WalkNext(tree, scoped, follow, w[i-1])]
  <1>. DEFINE A == WalkStart(path)
              B(s) == WalkNext(tree, scoped, follow, s)
              Is(w, j) == w = [i \in 0..j |-> IF i = 0 THEN A ELSE B(w[i-1])]
              T == {j \in Nat : \E w : Is(w, j)}
  <1>. HIDE DEF A, B
  <1>1. 0 \in T
    <2>1. Is([i \in 0..0 |-> A], 0)
      OBVIOUS
    <2>2. QED
      BY <2>1
  <1>2. ASSUME NEW j \in T PROVE j + 1 \in T
    <2>1. PICK w : Is(w, j)
      OBVIOUS
    <2>. DEFINE v == [i \in 0..j+1 |-> IF i = j + 1 THEN B(w[j]) ELSE w[i]]
    <2>2. j \in Nat
      OBVIOUS
    <2>3. \A i \in 0..j : v[i] = w[i]
      BY <2>2
    <2>4. \A i \in 0..j : w[i] = IF i = 0 THEN A ELSE B(w[i-1])
      BY <2>1
    <2>5. \A i \in 0..j+1 : v[i] = IF i = 0 THEN A ELSE B(v[i-1])
      <3>1. TAKE i \in 0..j+1
      <3>2. CASE i = j + 1
        BY <2>2, <2>3, <3>2
      <3>3. CASE i # j + 1
        <4>1. i \in 0..j /\ (i # 0 => i - 1 \in 0..j)
          BY <2>2, <3>3
        <4>2. QED
          BY <2>3, <2>4, <4>1
      <3>4. QED
        BY <3>2, <3>3
    <2>6. Is(v, j + 1)
      BY <2>5
    <2>. HIDE DEF v, Is
    <2>7. \E u : Is(u, j + 1)
      BY <2>6
    <2>8. QED
      BY <2>2, <2>7
  <1>3. T = Nat
    <2>. HIDE DEF T
    <2>1. T \in SUBSET Nat
      BY DEF T
    <2>2. QED
      BY <1>1, <1>2, <2>1, SetInduction
  <1>4. \E w : Is(w, m)
    BY <1>3
  <1>5. QED
    BY <1>4 DEF WalkFcn, A, B

-----------------------------------------------------------------------------
(* What a lookup returns. *)

WalkError == {"ok", "loop", "escapes", "notexist", "notdir"}
WalkState == [at : Seq(Name), rest : Seq(Part), links : Nat, err : WalkError,
              followedAbsoluteLink : BOOLEAN, relativeEscapeBeforeAbsolute : BOOLEAN]

\* A lookup stays at a path of plain names; os.Root's own lookup, which refuses
\* missing components, stays on the tree.
OnTree(tree, scoped, s) == s \in WalkState /\ (~scoped => s.at \in DOMAIN tree)

\* The paths of a tree are made of names, and the parent of one is a directory.
LEMMA TreePaths ==
    ASSUME NEW tree, IsTree(tree), NEW p \in DOMAIN tree
    PROVE  /\ p \in Seq(Name)
           /\ tree[p] \in NodeType
           /\ p # << >> => Front(p) \in DOMAIN tree /\ tree[Front(p)].kind = "dir"
           /\ << >> \in DOMAIN tree /\ tree[<< >>].kind = "dir"
  <1>1. << >> \in DOMAIN tree /\ tree[<< >>].kind = "dir"
    BY DEF IsTree, WellFormed
  <1>2. tree[p] \in NodeType
    BY DEF IsTree
  <1>3. p # << >> => p \in Seq(Name) /\ IsDir(tree, Front(p))
    BY DEF IsTree, WellFormed
  <1>4. p = << >> => p \in Seq(Name)
    OBVIOUS
  <1>5. QED
    BY <1>1, <1>2, <1>3, <1>4 DEF IsDir, Exists

\* The three kinds of parts are told apart.
LEMMA PartKinds == Dot # Up /\ Dot \notin Name /\ Up \notin Name
  BY RootFsAssumption DEF Dot, Up

\* Changing one field of a lookup keeps the types.
LEMMA WalkStateExcept ==
    ASSUME NEW s \in WalkState
    PROVE  /\ \A at \in Seq(Name) : [s EXCEPT !.at = at] \in WalkState
           /\ \A rest \in Seq(Part) : [s EXCEPT !.rest = rest] \in WalkState
           /\ \A at \in Seq(Name), rest \in Seq(Part) :
                 [s EXCEPT !.at = at, !.rest = rest] \in WalkState
           /\ \A err \in WalkError : [s EXCEPT !.err = err] \in WalkState
           /\ \A rest \in Seq(Part), b \in BOOLEAN :
                 [s EXCEPT !.rest = rest, !.relativeEscapeBeforeAbsolute = b] \in WalkState
           /\ \A at \in Seq(Name), rest \in Seq(Part), links \in Nat, b \in BOOLEAN :
                 [s EXCEPT !.at = at, !.rest = rest, !.links = links,
                           !.followedAbsoluteLink = b] \in WalkState
  BY DEF WalkState

\* One component of a lookup: os.Root's stays on nodes of the tree.
LEMMA WalkStepType ==
    ASSUME NEW tree, IsTree(tree), NEW scoped \in BOOLEAN, NEW follow \in BOOLEAN,
           NEW s, OnTree(tree, scoped, s), s.rest # << >>
    PROVE  OnTree(tree, scoped, WalkStep(tree, scoped, follow, s))
  <1>. DEFINE part == Head(s.rest)
              here == Append(s.at, part)
              enter == [s EXCEPT !.at = here, !.rest = Tail(s.rest)]
  <1>1. s \in WalkState /\ (~scoped => s.at \in DOMAIN tree)
    BY DEF OnTree
  <1>2. s.at \in Seq(Name) /\ s.rest \in Seq(Part) /\ s.links \in Nat
    BY <1>1 DEF WalkState
  <1>3. part \in Part /\ Tail(s.rest) \in Seq(Part)
    BY <1>2
  <1>4. CASE part = Dot
    <2>1. WalkStep(tree, scoped, follow, s) = [s EXCEPT !.rest = Tail(s.rest)]
      BY <1>4, PartKinds DEF WalkStep
    <2>2. [s EXCEPT !.rest = Tail(s.rest)] \in WalkState
      BY <1>1, <1>3, WalkStateExcept
    <2>3. [s EXCEPT !.rest = Tail(s.rest)].at = s.at
      BY <1>1 DEF WalkState
    <2>4. QED
      BY <1>1, <2>1, <2>2, <2>3 DEF OnTree
  <1>5. CASE part = Up
    <2>1. WalkStep(tree, scoped, follow, s) = WalkUp(scoped, s)
      BY <1>5, PartKinds DEF WalkStep
    <2>2. CASE s.at # << >>
      <3>. DEFINE up == [s EXCEPT !.at = Front(s.at), !.rest = Tail(s.rest)]
      <3>1. Front(s.at) \in Seq(Name)
        BY <1>2, <2>2, FrontProperties
      <3>2. ~scoped => Front(s.at) \in DOMAIN tree
        BY <1>1, <2>2, TreePaths
      <3>3. up \in WalkState
        BY <1>1, <1>3, <3>1, WalkStateExcept
      <3>4. up.at = Front(s.at)
        BY <1>1 DEF WalkState
      <3>5. WalkUp(scoped, s) = up
        BY <2>2 DEF WalkUp
      <3>. HIDE DEF up
      <3>6. QED
        BY <2>1, <3>2, <3>3, <3>4, <3>5 DEF OnTree
    <2>3. CASE s.at = << >> /\ scoped
      <3>. DEFINE b == s.relativeEscapeBeforeAbsolute \/ ~s.followedAbsoluteLink
                  up == [s EXCEPT !.rest = Tail(s.rest), !.relativeEscapeBeforeAbsolute = b]
      <3>1. b \in BOOLEAN
        OBVIOUS
      <3>2. WalkUp(scoped, s) = up
        BY <2>3 DEF WalkUp
      <3>. HIDE DEF b
      <3>3. up \in WalkState
        BY <1>1, <1>3, <3>1, WalkStateExcept
      <3>4. QED
        BY <2>1, <2>3, <3>2, <3>3 DEF OnTree
    <2>4. CASE s.at = << >> /\ ~scoped
      <3>1. WalkUp(scoped, s) = [s EXCEPT !.err = "escapes"]
        BY <2>4 DEF WalkUp
      <3>2. [s EXCEPT !.err = "escapes"] \in WalkState
        BY <1>1, WalkStateExcept DEF WalkError
      <3>3. [s EXCEPT !.err = "escapes"].at = s.at
        BY <1>1 DEF WalkState
      <3>4. QED
        BY <1>1, <2>1, <3>1, <3>2, <3>3 DEF OnTree
    <2>5. QED
      BY <2>2, <2>3, <2>4
  <1>6. CASE part \in Name
    <2>1. part # Dot /\ part # Up
      BY <1>6, PartKinds
    <2>2. here \in Seq(Name)
      BY <1>2, <1>6
    <2>3. enter \in WalkState /\ enter.at = here
      <3>1. enter \in WalkState
        BY <1>1, <1>3, <2>2, WalkStateExcept
      <3>2. enter.at = here
        BY <1>1 DEF WalkState
      <3>3. QED
        BY <3>1, <3>2
    <2>4. \A e \in WalkError : OnTree(tree, scoped, [s EXCEPT !.err = e])
      <3>1. TAKE e \in WalkError
      <3>2. [s EXCEPT !.err = e] \in WalkState
        BY <1>1, WalkStateExcept
      <3>3. [s EXCEPT !.err = e].at = s.at
        BY <1>1 DEF WalkState
      <3>4. QED
        BY <1>1, <3>2, <3>3 DEF OnTree
    <2>5. CASE ~Exists(tree, here)
      <3>1. WalkStep(tree, scoped, follow, s) =
               IF scoped THEN enter ELSE [s EXCEPT !.err = "notexist"]
        BY <1>6, <2>1, <2>5 DEF WalkStep
      <3>2. scoped => OnTree(tree, scoped, enter)
        BY <2>3 DEF OnTree
      <3>3. OnTree(tree, scoped, [s EXCEPT !.err = "notexist"])
        BY <2>4 DEF WalkError
      <3>. HIDE DEF enter
      <3>4. QED
        BY <3>1, <3>2, <3>3
    <2>6. CASE Exists(tree, here)
      <3>1. here \in DOMAIN tree /\ tree[here].link \in LinkType
        BY <2>6, TreePaths DEF Exists, NodeType
      <3>2. OnTree(tree, scoped, enter)
        BY <2>3, <3>1 DEF OnTree
      <3>3. OnTree(tree, scoped, WalkLink(scoped, s, tree[here].link))
        <4>. DEFINE link == tree[here].link
        <4>1. link.abs \in BOOLEAN /\ link.to \in Seq(Part)
          BY <3>1 DEF LinkType
        <4>2. link.to \o Tail(s.rest) \in Seq(Part)
          BY <1>3, <4>1, ConcatProperties
        <4>3. << >> \in Seq(Name) /\ << >> \in DOMAIN tree
          BY <3>1, TreePaths
        <4>. HIDE DEF link
        <4>4. CASE s.links = MaxLinks \/ (link.abs /\ ~scoped)
          <5>1. \/ WalkLink(scoped, s, link) = [s EXCEPT !.err = "loop"]
                \/ WalkLink(scoped, s, link) = [s EXCEPT !.err = "escapes"]
            BY <4>4 DEF WalkLink
          <5>2. /\ OnTree(tree, scoped, [s EXCEPT !.err = "loop"])
                /\ OnTree(tree, scoped, [s EXCEPT !.err = "escapes"])
            BY <2>4 DEF WalkError
          <5>3. OnTree(tree, scoped, WalkLink(scoped, s, link))
            BY <5>1, <5>2
          <5>4. QED
            BY <5>3 DEF link
        <4>5. CASE ~(s.links = MaxLinks \/ (link.abs /\ ~scoped))
          <5>. DEFINE at == IF link.abs THEN << >> ELSE s.at
          <5>1. at \in Seq(Name) /\ (~scoped => at \in DOMAIN tree)
            BY <1>1, <1>2, <4>3
          <5>2. WalkLink(scoped, s, link) =
                   [s EXCEPT !.at = at, !.rest = link.to \o Tail(s.rest),
                             !.links = s.links + 1,
                             !.followedAbsoluteLink = s.followedAbsoluteLink \/ link.abs]
            BY <4>5 DEF WalkLink
          <5>3. (s.followedAbsoluteLink \/ link.abs) \in BOOLEAN /\ s.links + 1 \in Nat
            BY <1>2
          <5>. DEFINE next == [s EXCEPT !.at = at, !.rest = link.to \o Tail(s.rest),
                                        !.links = s.links + 1,
                                        !.followedAbsoluteLink =
                                           s.followedAbsoluteLink \/ link.abs]
          <5>. HIDE DEF at
          <5>4. next \in WalkState
            BY <1>1, <4>2, <5>1, <5>3, WalkStateExcept
          <5>5. next.at = at
            BY <1>1 DEF WalkState
          <5>6. WalkLink(scoped, s, link) = next
            BY <5>2
          <5>. HIDE DEF next
          <5>7. OnTree(tree, scoped, WalkLink(scoped, s, link))
            BY <5>1, <5>4, <5>5, <5>6 DEF OnTree
          <5>8. QED
            BY <5>7 DEF link
        <4>6. QED
          BY <4>4, <4>5 DEF link
      <3>4. \/ WalkStep(tree, scoped, follow, s) = WalkLink(scoped, s, tree[here].link)
            \/ WalkStep(tree, scoped, follow, s) = enter
            \/ WalkStep(tree, scoped, follow, s) = [s EXCEPT !.err = "notdir"]
        BY <1>6, <2>1, <2>6 DEF WalkStep
      <3>5. OnTree(tree, scoped, [s EXCEPT !.err = "notdir"])
        BY <2>4 DEF WalkError
      <3>. HIDE DEF enter
      <3>6. QED
        BY <3>2, <3>3, <3>4, <3>5
    <2>7. QED
      BY <2>5, <2>6
  <1>7. QED
    BY <1>3, <1>4, <1>5, <1>6 DEF Part

\* The fields of a lookup's state.
StateIs(s, at, rest, links, err, followed, escaped) ==
    /\ s.at = at /\ s.rest = rest /\ s.links = links /\ s.err = err
    /\ s.followedAbsoluteLink = followed
    /\ s.relativeEscapeBeforeAbsolute = escaped

\* A component is dropped, entered, or ends the lookup, or a link is followed.
StepsOn(s, next, at) ==
    StateIs(next, at, Tail(s.rest), s.links, s.err, s.followedAbsoluteLink,
            s.relativeEscapeBeforeAbsolute)
StopsWith(s, next, err) ==
    StateIs(next, s.at, s.rest, s.links, err, s.followedAbsoluteLink,
            s.relativeEscapeBeforeAbsolute)
Follows(s, next, link) ==
    StateIs(next, IF link.abs THEN << >> ELSE s.at, link.to \o Tail(s.rest), s.links + 1,
            s.err, s.followedAbsoluteLink \/ link.abs, s.relativeEscapeBeforeAbsolute)

\* What the component "part" of a lookup does, field by field.
Stepped(tree, scoped, follow, s, part, here, next) ==
    /\ part = Dot => StepsOn(s, next, s.at)
    /\ part = Up /\ s.at # << >> => StepsOn(s, next, Front(s.at))
    /\ part = Up /\ s.at = << >> /\ scoped =>
          StateIs(next, << >>, Tail(s.rest), s.links, s.err, s.followedAbsoluteLink,
                  s.relativeEscapeBeforeAbsolute \/ ~s.followedAbsoluteLink)
    /\ part = Up /\ s.at = << >> /\ ~scoped => StopsWith(s, next, "escapes")
    /\ part \in Name /\ ~Exists(tree, here) =>
          IF scoped THEN StepsOn(s, next, here) ELSE StopsWith(s, next, "notexist")
    /\ part \in Name /\ Exists(tree, here) =>
          IF tree[here].kind = "sym" /\ (follow \/ Len(s.rest) # 1)
          THEN IF s.links = MaxLinks THEN StopsWith(s, next, "loop")
               ELSE IF tree[here].link.abs /\ ~scoped
               THEN StopsWith(s, next, "escapes")
               ELSE Follows(s, next, tree[here].link)
          ELSE IF Len(s.rest) = 1 \/ tree[here].kind = "dir"
          THEN StepsOn(s, next, here)
          ELSE StopsWith(s, next, "notdir")

\* A step of a lookup changes the fields as Stepped says.
LEMMA WalkStepFields ==
    ASSUME NEW tree, NEW scoped \in BOOLEAN, NEW follow \in BOOLEAN,
           NEW s \in WalkState, s.rest # << >>,
           NEW next, next = WalkStep(tree, scoped, follow, s),
           NEW part, part = Head(s.rest), NEW here, here = Append(s.at, part)
    PROVE  Stepped(tree, scoped, follow, s, part, here, next)
  <1>. USE DEF Stepped
  <1>. DEFINE enter == [s EXCEPT !.at = here, !.rest = Tail(s.rest)]
              link == tree[here].link
  <1>0. s = [at |-> s.at, rest |-> s.rest, links |-> s.links, err |-> s.err,
             followedAbsoluteLink |-> s.followedAbsoluteLink,
             relativeEscapeBeforeAbsolute |-> s.relativeEscapeBeforeAbsolute]
    BY DEF WalkState
  <1>1. ASSUME NEW at PROVE StepsOn(s, [s EXCEPT !.at = at, !.rest = Tail(s.rest)], at)
    BY <1>0 DEF StepsOn, StateIs
  <1>2. ASSUME NEW err PROVE StopsWith(s, [s EXCEPT !.err = err], err)
    BY <1>0 DEF StopsWith, StateIs
  <1>3. CASE part = Dot
    <2>1. next = [s EXCEPT !.rest = Tail(s.rest)]
      BY <1>3, PartKinds DEF WalkStep
    <2>2. StepsOn(s, next, s.at)
      BY <1>0, <2>1 DEF StepsOn, StateIs
    <2>3. QED
      BY <1>3, <2>2, PartKinds
  <1>4. CASE part = Up
    <2>1. next = WalkUp(scoped, s)
      BY <1>4, PartKinds DEF WalkStep
    <2>2. s.at # << >> => StepsOn(s, next, Front(s.at))
      BY <1>1, <2>1 DEF WalkUp
    <2>3. ASSUME s.at = << >>, scoped
          PROVE  StateIs(next, << >>, Tail(s.rest), s.links, s.err, s.followedAbsoluteLink,
                         s.relativeEscapeBeforeAbsolute \/ ~s.followedAbsoluteLink)
      <3>. DEFINE b == s.relativeEscapeBeforeAbsolute \/ ~s.followedAbsoluteLink
      <3>1. next = [s EXCEPT !.rest = Tail(s.rest), !.relativeEscapeBeforeAbsolute = b]
        BY <2>1, <2>3 DEF WalkUp
      <3>. HIDE DEF b
      <3>2. StateIs(next, << >>, Tail(s.rest), s.links, s.err, s.followedAbsoluteLink, b)
        BY <1>0, <2>3, <3>1 DEF StateIs
      <3>3. QED
        BY <3>2 DEF b
    <2>4. s.at = << >> /\ ~scoped => StopsWith(s, next, "escapes")
      BY <1>2, <2>1 DEF WalkUp
    <2>5. QED
      BY <1>4, <2>2, <2>3, <2>4, PartKinds
  <1>5. CASE part \in Name
    <2>1. part # Dot /\ part # Up
      BY <1>5, PartKinds
    <2>2. StepsOn(s, enter, here)
      BY <1>1
    <2>3. CASE ~Exists(tree, here)
      <3>1. next = IF scoped THEN enter ELSE [s EXCEPT !.err = "notexist"]
        BY <1>5, <2>1, <2>3 DEF WalkStep
      <3>. HIDE DEF enter
      <3>2. IF scoped THEN StepsOn(s, next, here) ELSE StopsWith(s, next, "notexist")
        BY <1>2, <2>2, <3>1
      <3>3. QED
        BY <2>1, <2>3, <3>2
    <2>4. CASE Exists(tree, here) /\ tree[here].kind = "sym" /\ (follow \/ Len(s.rest) # 1)
      <3>1. next = WalkLink(scoped, s, link)
        BY <1>5, <2>1, <2>4 DEF WalkStep
      <3>. HIDE DEF link
      <3>2. ASSUME s.links # MaxLinks, ~(link.abs /\ ~scoped)
            PROVE  Follows(s, next, link)
        <4>. DEFINE b == s.followedAbsoluteLink \/ link.abs
                    at == IF link.abs THEN << >> ELSE s.at
        <4>1. next = [s EXCEPT !.at = at, !.rest = link.to \o Tail(s.rest),
                               !.links = s.links + 1, !.followedAbsoluteLink = b]
          BY <3>1, <3>2 DEF WalkLink
        <4>. HIDE DEF b, at
        <4>2. StateIs(next, at, link.to \o Tail(s.rest), s.links + 1, s.err, b,
                      s.relativeEscapeBeforeAbsolute)
          BY <1>0, <4>1 DEF StateIs
        <4>3. QED
          BY <4>2 DEF Follows, b, at
      <3>3. IF s.links = MaxLinks THEN StopsWith(s, next, "loop")
            ELSE IF link.abs /\ ~scoped THEN StopsWith(s, next, "escapes")
            ELSE Follows(s, next, link)
        <4>1. s.links = MaxLinks => StopsWith(s, next, "loop")
          BY <1>2, <3>1 DEF WalkLink
        <4>2. s.links # MaxLinks /\ link.abs /\ ~scoped => StopsWith(s, next, "escapes")
          BY <1>2, <3>1 DEF WalkLink
        <4>3. QED
          BY <3>2, <4>1, <4>2
      <3>4. QED
        BY <2>1, <2>4, <3>3 DEF link
    <2>5. CASE Exists(tree, here) /\ ~(tree[here].kind = "sym" /\ (follow \/ Len(s.rest) # 1))
      <3>1. next = IF Len(s.rest) = 1 \/ tree[here].kind = "dir" THEN enter
                   ELSE [s EXCEPT !.err = "notdir"]
        BY <1>5, <2>1, <2>5 DEF WalkStep
      <3>. HIDE DEF enter
      <3>2. IF Len(s.rest) = 1 \/ tree[here].kind = "dir" THEN StepsOn(s, next, here)
            ELSE StopsWith(s, next, "notdir")
        BY <1>2, <2>2, <3>1
      <3>3. QED
        BY <2>1, <2>5, <3>2
    <2>6. QED
      BY <2>3, <2>4, <2>5
  <1>6. CASE part \notin Name /\ part # Dot /\ part # Up
    BY <1>6
  <1>7. QED
    BY <1>3, <1>4, <1>5, <1>6

\* The function a lookup is computed by.
LEMMA WalkFunction ==
    ASSUME NEW tree, NEW path, NEW scoped, NEW follow
    PROVE  Walk(tree, path, scoped, follow) =
              WalkEnd(WalkFcn(tree, path, scoped, follow, MaxSteps)[MaxSteps])
  BY DEF Walk, WalkFcn

\* What holds at the start of a lookup and is kept by each of its steps holds of
\* what the lookup returns, one that ran out of steps included.
LEMMA WalkInduction ==
    ASSUME NEW tree, NEW path, NEW scoped, NEW follow, NEW I,
           WalkStart(path) \in I,
           \A s \in I : s.rest # << >> /\ s.err = "ok" =>
                           WalkStep(tree, scoped, follow, s) \in I,
           \A s \in I : [s EXCEPT !.err = "loop"] \in I
    PROVE  Walk(tree, path, scoped, follow) \in I
  <1>. DEFINE w == WalkFcn(tree, path, scoped, follow, MaxSteps)
              T == {i \in Nat : i \in 0..MaxSteps => w[i] \in I}
  <1>0. MaxSteps \in Nat
    BY RootFsAssumption
  <1>1. w = [i \in 0..MaxSteps |-> IF i = 0 THEN WalkStart(path)
                                   ELSE WalkNext(tree, scoped, follow, w[i-1])]
    BY <1>0, WalkDefined
  <1>. HIDE DEF w
  <1>2. 0 \in T
    BY <1>0, <1>1
  <1>3. ASSUME NEW i \in T PROVE i + 1 \in T
    <2>1. SUFFICES ASSUME i + 1 \in 0..MaxSteps PROVE w[i+1] \in I
      OBVIOUS
    <2>2. i \in 0..MaxSteps /\ i + 1 # 0 /\ (i + 1) - 1 = i
      BY <1>0, <2>1
    <2>3. w[i] \in I
      BY <2>2
    <2>4. w[i+1] = WalkNext(tree, scoped, follow, w[i])
      BY <1>1, <2>1, <2>2
    <2>5. QED
      BY <2>3, <2>4 DEF WalkNext
  <1>4. T = Nat
    <2>1. T \in SUBSET Nat
      OBVIOUS
    <2>. HIDE DEF T
    <2>2. QED
      BY <1>2, <1>3, <2>1, SetInduction
  <1>5. w[MaxSteps] \in I
    BY <1>0, <1>4
  <1>6. \/ Walk(tree, path, scoped, follow) = w[MaxSteps]
        \/ Walk(tree, path, scoped, follow) = [w[MaxSteps] EXCEPT !.err = "loop"]
    BY WalkFunction DEF w, WalkEnd
  <1>7. QED
    BY <1>5, <1>6

\* The state a lookup starts in.
LEMMA WalkStartType ==
    ASSUME NEW path \in Seq(Part)
    PROVE  WalkStart(path) \in WalkState
  BY DEF WalkStart, WalkState, WalkError

\* What every lookup returns: a path of plain names, and an error or none.
\* os.Root's own lookup ends at a node of the tree.
LEMMA WalkType ==
    ASSUME NEW tree, IsTree(tree), NEW path \in Seq(Part),
           NEW scoped \in BOOLEAN, NEW follow \in BOOLEAN
    PROVE  OnTree(tree, scoped, Walk(tree, path, scoped, follow))
  <1>. DEFINE I == {s \in WalkState : OnTree(tree, scoped, s)}
  <1>1. WalkStart(path) \in I
    <2>1. WalkStart(path).at = << >> /\ << >> \in DOMAIN tree
      BY DEF WalkStart, IsTree, WellFormed
    <2>2. QED
      BY <2>1, WalkStartType DEF OnTree
  <1>2. ASSUME NEW s \in I, s.rest # << >> PROVE WalkStep(tree, scoped, follow, s) \in I
    BY <1>2, WalkStepType DEF OnTree
  <1>3. ASSUME NEW s \in I PROVE [s EXCEPT !.err = "loop"] \in I
    <2>1. [s EXCEPT !.err = "loop"] \in WalkState
      BY WalkStateExcept DEF WalkError
    <2>2. [s EXCEPT !.err = "loop"].at = s.at
      BY DEF WalkState
    <2>3. QED
      BY <2>1, <2>2 DEF OnTree
  <1>. HIDE DEF I
  <1>4. Walk(tree, path, scoped, follow) \in I
    BY <1>1, <1>2, <1>3, WalkInduction
  <1>5. QED
    BY <1>4 DEF I

\* A lookup without an error has handled every component.
LEMMA WalkDone ==
    ASSUME NEW tree, IsTree(tree), NEW path \in Seq(Part),
           NEW scoped \in BOOLEAN, NEW follow \in BOOLEAN,
           Walk(tree, path, scoped, follow).err = "ok"
    PROVE  Walk(tree, path, scoped, follow).rest = << >>
  <1>. DEFINE s == WalkFcn(tree, path, scoped, follow, MaxSteps)[MaxSteps]
              w == Walk(tree, path, scoped, follow)
  <1>1. w = WalkEnd(s)
    BY WalkFunction
  <1>2. w \in WalkState
    BY WalkType DEF OnTree
  <1>. HIDE DEF s, w
  <1>3. ASSUME s.rest # << >>, s.err = "ok" PROVE w.err = "loop"
    <2>1. w = [s EXCEPT !.err = "loop"]
      BY <1>1, <1>3 DEF WalkEnd
    <2>2. "err" \in DOMAIN w
      BY <1>2 DEF WalkState
    <2>3. QED
      BY <2>1, <2>2
  <1>4. CASE s.rest # << >> /\ s.err = "ok"
    BY <1>3, <1>4 DEF w
  <1>5. CASE ~(s.rest # << >> /\ s.err = "ok")
    BY <1>1, <1>5 DEF WalkEnd, w
  <1>6. QED
    BY <1>4, <1>5

-----------------------------------------------------------------------------
(* The states a lookup goes through. *)

Stage(tree, path, scoped, follow, i) == WalkFcn(tree, path, scoped, follow, MaxSteps)[i]

\* A lookup starts in WalkStart.
LEMMA StageFirst ==
    ASSUME NEW tree, NEW path, NEW scoped, NEW follow
    PROVE  Stage(tree, path, scoped, follow, 0) = WalkStart(path)
  <1>. DEFINE w == WalkFcn(tree, path, scoped, follow, MaxSteps)
  <1>0. MaxSteps \in Nat
    BY RootFsAssumption
  <1>1. w = [i \in 0..MaxSteps |-> IF i = 0 THEN WalkStart(path)
                                   ELSE WalkNext(tree, scoped, follow, w[i-1])]
    BY <1>0, WalkDefined
  <1>. HIDE DEF w
  <1>2. QED
    BY <1>0, <1>1 DEF Stage, w

\* A lookup goes on by WalkNext.
LEMMA StageNext ==
    ASSUME NEW tree, NEW path, NEW scoped, NEW follow,
           NEW i \in 0..MaxSteps, i # MaxSteps
    PROVE  /\ i + 1 \in 0..MaxSteps
           /\ Stage(tree, path, scoped, follow, i + 1) =
                 WalkNext(tree, scoped, follow, Stage(tree, path, scoped, follow, i))
  <1>. DEFINE w == WalkFcn(tree, path, scoped, follow, MaxSteps)
  <1>0. MaxSteps \in Nat
    BY RootFsAssumption
  <1>1. w = [j \in 0..MaxSteps |-> IF j = 0 THEN WalkStart(path)
                                   ELSE WalkNext(tree, scoped, follow, w[j-1])]
    BY <1>0, WalkDefined
  <1>. HIDE DEF w
  <1>2. i + 1 \in 0..MaxSteps /\ i + 1 # 0 /\ (i + 1) - 1 = i
    BY <1>0
  <1>3. QED
    BY <1>1, <1>2 DEF Stage, w

\* Every state a lookup goes through has its type.
LEMMA StageType ==
    ASSUME NEW tree, IsTree(tree), NEW path \in Seq(Part),
           NEW scoped \in BOOLEAN, NEW follow \in BOOLEAN
    PROVE  \A i \in 0..MaxSteps : OnTree(tree, scoped, Stage(tree, path, scoped, follow, i))
  <1>. DEFINE S(i) == Stage(tree, path, scoped, follow, i)
              T == {i \in Nat : i \in 0..MaxSteps => OnTree(tree, scoped, S(i))}
  <1>1. S(0) = WalkStart(path)
    BY StageFirst
  <1>2. ASSUME NEW i \in 0..MaxSteps, i # MaxSteps
        PROVE  S(i + 1) = WalkNext(tree, scoped, follow, S(i))
    BY <1>2, StageNext
  <1>. HIDE DEF S
  <1>3. 0 \in T
    <2>1. WalkStart(path).at = << >> /\ << >> \in DOMAIN tree
      BY DEF WalkStart, IsTree, WellFormed
    <2>2. QED
      BY <1>1, <2>1, WalkStartType DEF OnTree
  <1>4. ASSUME NEW i \in T PROVE i + 1 \in T
    <2>1. SUFFICES ASSUME i + 1 \in 0..MaxSteps PROVE OnTree(tree, scoped, S(i + 1))
      OBVIOUS
    <2>2. i \in 0..MaxSteps /\ i # MaxSteps
      BY <2>1, RootFsAssumption
    <2>3. S(i + 1) = WalkNext(tree, scoped, follow, S(i)) /\ OnTree(tree, scoped, S(i))
      BY <1>2, <2>2
    <2>4. QED
      BY <2>3, WalkStepType DEF WalkNext
  <1>5. T = Nat
    <2>1. T \in SUBSET Nat
      OBVIOUS
    <2>. HIDE DEF T
    <2>2. QED
      BY <1>3, <1>4, <2>1, SetInduction
  <1>6. QED
    BY <1>5 DEF S

\* Once a lookup has nothing left or has failed, it returns the state it is in.
LEMMA StageLast ==
    ASSUME NEW tree, NEW path, NEW scoped, NEW follow, NEW i \in 0..MaxSteps,
           NEW s, s = Stage(tree, path, scoped, follow, i), s.rest = << >> \/ s.err # "ok"
    PROVE  Walk(tree, path, scoped, follow) = s
  <1>. DEFINE S(j) == Stage(tree, path, scoped, follow, j)
              T == {j \in Nat : i + j \in 0..MaxSteps => S(i + j) = s}
  <1>0. MaxSteps \in Nat
    BY RootFsAssumption
  <1>1. ASSUME NEW j \in 0..MaxSteps, j # MaxSteps
        PROVE  S(j + 1) = WalkNext(tree, scoped, follow, S(j))
    BY <1>1, StageNext
  <1>. HIDE DEF S
  <1>2. 0 \in T
    BY DEF S
  <1>3. ASSUME NEW j \in T PROVE j + 1 \in T
    <2>1. SUFFICES ASSUME i + (j + 1) \in 0..MaxSteps PROVE S(i + (j + 1)) = s
      OBVIOUS
    <2>2. i + j \in 0..MaxSteps /\ i + j # MaxSteps /\ i + (j + 1) = (i + j) + 1
      BY <1>0, <2>1
    <2>3. S(i + (j + 1)) = WalkNext(tree, scoped, follow, S(i + j)) /\ S(i + j) = s
      BY <1>1, <2>2
    <2>4. QED
      BY <2>3 DEF WalkNext
  <1>4. T = Nat
    <2>1. T \in SUBSET Nat
      OBVIOUS
    <2>. HIDE DEF T
    <2>2. QED
      BY <1>2, <1>3, <2>1, SetInduction
  <1>5. S(MaxSteps) = s
    <2>1. MaxSteps - i \in Nat /\ i + (MaxSteps - i) = MaxSteps /\ MaxSteps \in 0..MaxSteps
      BY <1>0
    <2>2. QED
      BY <1>4, <2>1
  <1>6. QED
    BY <1>5, WalkFunction DEF S, Stage, WalkEnd

\* A component costs a step; a link that is followed brings no more components
\* than the longest target has.
LEMMA StepCost ==
    ASSUME NEW tree, IsTree(tree), NEW scoped \in BOOLEAN, NEW follow \in BOOLEAN,
           NEW size \in Nat, \A p \in DOMAIN tree : Len(tree[p].link.to) <= size,
           NEW s \in WalkState, s.rest # << >>, s.err = "ok", s.links <= MaxLinks,
           NEW next, next = WalkStep(tree, scoped, follow, s)
    PROVE  /\ next.links <= MaxLinks
           /\ next.err = "ok" =>
                 Len(next.rest) + 1 + s.links * size <= Len(s.rest) + next.links * size
  <1>0. PICK part, here : part = Head(s.rest) /\ here = Append(s.at, part)
    OBVIOUS
  <1>1. s.rest \in Seq(Part) /\ part \in Part /\ s.links \in Nat
    BY <1>0 DEF WalkState
  <1>2. Tail(s.rest) \in Seq(Part) /\ Len(Tail(s.rest)) = Len(s.rest) - 1
    BY <1>1
  <1>3. Stepped(tree, scoped, follow, s, part, here, next)
    BY <1>0, WalkStepFields
  <1>4. \/ next.rest = Tail(s.rest) /\ next.links = s.links
        \/ next.err # "ok" /\ next.links = s.links
        \/ here \in DOMAIN tree /\ s.links # MaxLinks /\ Follows(s, next, tree[here].link)
    BY <1>1, <1>3 DEF Stepped, StepsOn, StopsWith, StateIs, Part, Exists
  <1>5. MaxLinks \in Nat
    BY RootFsAssumption
  <1>6. CASE next.rest = Tail(s.rest) /\ next.links = s.links
    <2>1. PICK spent \in Nat : spent = s.links * size
      BY <1>1
    <2>2. QED
      BY <1>1, <1>2, <1>6, <2>1
  <1>7. CASE next.err # "ok" /\ next.links = s.links
    BY <1>7
  <1>8. CASE here \in DOMAIN tree /\ s.links # MaxLinks /\ Follows(s, next, tree[here].link)
    <2>1. PICK to \in Seq(Part) : to = tree[here].link.to
      BY <1>8, TreePaths DEF NodeType, LinkType
    <2>2. next.rest = to \o Tail(s.rest) /\ next.links = s.links + 1
      BY <1>8, <2>1 DEF Follows, StateIs
    <2>3. Len(to) <= size
      BY <1>8, <2>1
    <2>4. Len(to \o Tail(s.rest)) = Len(to) + Len(Tail(s.rest))
      BY <1>2, <2>1, ConcatProperties
    <2>5. PICK long, short : long = Len(next.rest) /\ short = Len(s.rest)
      OBVIOUS
    <2>6. long \in Nat /\ short \in Nat /\ long + 1 <= short + size
      <3>1. Len(to) \in Nat /\ short \in Nat
        BY <1>1, <2>1, <2>5
      <3>2. long = Len(to) + (short - 1) /\ short > 0
        BY <1>1, <1>2, <2>2, <2>4, <2>5
      <3>3. QED
        BY <2>3, <3>1, <3>2
    <2>7. PICK spent \in Nat : spent = s.links * size
      BY <1>1
    <2>8. next.links * size = spent + size
      BY <1>1, <2>2, <2>7
    <2>9. next.links <= MaxLinks
      BY <1>1, <1>5, <1>8, <2>2
    <2>10. long + 1 + spent <= short + (spent + size)
      BY SMTT(30), <2>5, <2>6, <2>7
    <2>11. QED
      BY <2>5, <2>7, <2>8, <2>9, <2>10
  <1>9. QED
    BY <1>4, <1>6, <1>7, <1>8

\* With a step for every component of the path, and for every component of as
\* many targets as may be followed, a lookup does not run out of steps.
LEMMA EnoughSteps ==
    ASSUME NEW tree, IsTree(tree), NEW path \in Seq(Part),
           NEW scoped \in BOOLEAN, NEW follow \in BOOLEAN,
           NEW size \in Nat, \A p \in DOMAIN tree : Len(tree[p].link.to) <= size,
           Len(path) + MaxLinks * size <= MaxSteps,
           NEW s, s = Stage(tree, path, scoped, follow, MaxSteps)
    PROVE  s.rest = << >> \/ s.err # "ok"
  <1>. DEFINE S(i) == Stage(tree, path, scoped, follow, i)
              Spent(i, at) == /\ at.links <= MaxLinks
                              /\ at.err = "ok" /\ at.rest # << >> =>
                                    i + Len(at.rest) <= Len(path) + at.links * size
              T == {i \in Nat : i \in 0..MaxSteps => Spent(i, S(i))}
  <1>0. MaxSteps \in Nat /\ MaxLinks \in Nat
    BY RootFsAssumption
  <1>1. S(0) = WalkStart(path)
    BY StageFirst
  <1>2. ASSUME NEW i \in 0..MaxSteps, i # MaxSteps
        PROVE  S(i + 1) = WalkNext(tree, scoped, follow, S(i))
    BY <1>2, StageNext
  <1>3. \A i \in 0..MaxSteps : S(i) \in WalkState
    BY StageType DEF OnTree
  <1>. HIDE DEF S, Spent
  <1>4. 0 \in T
    <2>1. /\ WalkStart(path).links = 0 /\ WalkStart(path).rest = path
          /\ 0 * size = 0 /\ Len(path) \in Nat
      BY DEF WalkStart
    <2>2. QED
      BY <1>0, <1>1, <2>1 DEF Spent
  <1>5. ASSUME NEW i \in T PROVE i + 1 \in T
    <2>1. SUFFICES ASSUME i + 1 \in 0..MaxSteps PROVE Spent(i + 1, S(i + 1))
      OBVIOUS
    <2>2. i \in 0..MaxSteps /\ i # MaxSteps
      BY <1>0, <2>1
    <2>3. PICK a, b : a = S(i) /\ b = S(i + 1)
      OBVIOUS
    <2>4. a \in WalkState /\ b \in WalkState /\ Spent(i, a)
      BY <1>3, <2>1, <2>2, <2>3
    <2>5. b = WalkNext(tree, scoped, follow, a)
      BY <1>2, <2>2, <2>3
    <2>6. CASE a.err # "ok"
      BY <2>3, <2>4, <2>5, <2>6 DEF WalkNext, Spent
    <2>7. CASE a.err = "ok" /\ a.rest = << >>
      <3>1. b = a
        BY <2>5, <2>7 DEF WalkNext
      <3>2. QED
        BY <2>3, <2>4, <2>7, <3>1 DEF Spent
    <2>8. CASE a.err = "ok" /\ a.rest # << >>
      <3>1. b = WalkStep(tree, scoped, follow, a)
        BY <2>5, <2>8 DEF WalkNext
      <3>2. /\ b.links <= MaxLinks
            /\ b.err = "ok" => Len(b.rest) + 1 + a.links * size <= Len(a.rest) + b.links * size
        BY <2>4, <2>8, <3>1, StepCost DEF Spent
      <3>3. /\ a.links \in Nat /\ b.links \in Nat
            /\ Len(a.rest) \in Nat /\ Len(b.rest) \in Nat /\ Len(path) \in Nat
        BY <2>4 DEF WalkState
      <3>4. PICK x \in Nat, y \in Nat : x = a.links * size /\ y = b.links * size
        BY <3>3
      <3>5. i + Len(a.rest) <= Len(path) + x
        BY <2>4, <2>8, <3>4 DEF Spent
      <3>6. ASSUME b.err = "ok" PROVE (i + 1) + Len(b.rest) <= Len(path) + y
        <4>1. Len(b.rest) + 1 + x <= Len(a.rest) + y
          BY <3>2, <3>4, <3>6
        <4>2. PICK la, lb, lp \in Nat : la = Len(a.rest) /\ lb = Len(b.rest) /\ lp = Len(path)
          BY <3>3
        <4>3. i \in Nat
          OBVIOUS
        <4>4. i + la <= lp + x /\ lb + 1 + x <= la + y
          BY <3>5, <4>1, <4>2
        <4>5. (i + 1) + lb <= lp + y
          BY <4>3, <4>4
        <4>6. QED
          BY <4>2, <4>5
      <3>7. QED
        BY <2>3, <3>2, <3>4, <3>6 DEF Spent
    <2>9. QED
      BY <2>6, <2>7, <2>8
  <1>6. T = Nat
    <2>1. T \in SUBSET Nat
      OBVIOUS
    <2>. HIDE DEF T
    <2>2. QED
      BY <1>4, <1>5, <2>1, SetInduction
  <1>7. s = S(MaxSteps) /\ MaxSteps \in 0..MaxSteps /\ s \in WalkState
    BY <1>0, <1>3 DEF S
  <1>8. Spent(MaxSteps, s)
    BY <1>0, <1>6, <1>7
  <1>9. SUFFICES ASSUME s.err = "ok", s.rest # << >> PROVE FALSE
    OBVIOUS
  <1>10. s.links * size <= MaxLinks * size
    BY <1>0, <1>7, <1>8 DEF WalkState, Spent
  <1>11. Len(s.rest) = 0
    <2>1. s.links \in Nat /\ Len(s.rest) \in Nat /\ Len(path) \in Nat
      BY <1>7 DEF WalkState
    <2>2. PICK x \in Nat, y \in Nat : x = s.links * size /\ y = MaxLinks * size
      BY <1>0, <2>1
    <2>3. QED
      BY SMTT(30), <1>0, <1>8, <1>9, <1>10, <2>1, <2>2 DEF Spent
  <1>12. QED
    BY <1>7, <1>9, <1>11 DEF WalkState

-----------------------------------------------------------------------------
(* Paths without links. *)

\* No component of the path is a symlink of the tree.
NoLinks(tree, p) ==
    \A i \in 1..Len(p) :
        SubSeq(p, 1, i) \in DOMAIN tree => tree[SubSeq(p, 1, i)].kind # "sym"

\* One component of a lookup as in a chroot keeps the path found free of links:
\* a link is never entered but replaced by its target.
LEMMA ScopedStepNoLink ==
    ASSUME NEW tree, IsTree(tree), NEW s \in WalkState, s.rest # << >>,
           NoLinks(tree, s.at), NEW next, next = WalkStep(tree, TRUE, TRUE, s)
    PROVE  NoLinks(tree, next.at)
  <1>0. PICK part, here : part = Head(s.rest) /\ here = Append(s.at, part)
    OBVIOUS
  <1>1. s.at \in Seq(Name) /\ s.rest \in Seq(Part) /\ part \in Part
    BY <1>0 DEF WalkState
  <1>2. NoLinks(tree, << >>)
    BY DEF NoLinks
  <1>3. s.at # << >> => NoLinks(tree, Front(s.at))
    <2>1. SUFFICES ASSUME s.at # << >>, NEW i \in 1..Len(Front(s.at))
                   PROVE  i \in 1..Len(s.at) /\ SubSeq(Front(s.at), 1, i) = SubSeq(s.at, 1, i)
      BY DEF NoLinks
    <2>2. i \in 1..Len(s.at)-1
      BY <1>1, <2>1, FrontProperties
    <2>3. SubSeq(Front(s.at), 1, i) = SubSeq(s.at, 1, i)
      BY <1>1, <2>1, <2>2, PrefixOfFront
    <2>4. i \in 1..Len(s.at)
      BY <1>1, <2>2
    <2>5. QED
      BY <2>3, <2>4
  <1>4. ASSUME part \in Name, here \in DOMAIN tree => tree[here].kind # "sym"
        PROVE  NoLinks(tree, here)
    <2>1. SUFFICES ASSUME NEW i \in 1..Len(here), SubSeq(here, 1, i) \in DOMAIN tree
                   PROVE  tree[SubSeq(here, 1, i)].kind # "sym"
      BY DEF NoLinks
    <2>2. i \in 1..Len(s.at)+1
      BY <1>0, <1>1, <1>4
    <2>3. SubSeq(here, 1, i) = IF i = Len(s.at) + 1 THEN here ELSE SubSeq(s.at, 1, i)
      BY <1>0, <1>1, <1>4, <2>2, PrefixOfAppend
    <2>4. i # Len(s.at) + 1 => i \in 1..Len(s.at)
      BY <1>1, <2>2
    <2>5. QED
      BY <1>4, <2>1, <2>3, <2>4 DEF NoLinks
  <1>5. Stepped(tree, TRUE, TRUE, s, part, here, next)
    BY <1>0, WalkStepFields
  <1>6. \/ next.at \in {s.at, << >>}
        \/ s.at # << >> /\ next.at = Front(s.at)
        \/ /\ part \in Name /\ next.at = here
           /\ here \in DOMAIN tree => tree[here].kind # "sym"
    BY <1>1, <1>5 DEF Stepped, StepsOn, StopsWith, Follows, StateIs, Part, Exists
  <1>7. QED
    BY <1>2, <1>3, <1>4, <1>6

\* What resolveFSRootPath returns goes through no symlink of the tree.
LEMMA ScopedWalkNoLink ==
    ASSUME NEW tree, IsTree(tree), NEW path \in Seq(Part)
    PROVE  NoLinks(tree, Walk(tree, path, TRUE, TRUE).at)
  <1>. DEFINE I == {s \in WalkState : NoLinks(tree, s.at)}
  <1>1. WalkStart(path) \in I
    <2>1. WalkStart(path).at = << >>
      BY DEF WalkStart
    <2>2. QED
      BY <2>1, WalkStartType DEF NoLinks
  <1>2. ASSUME NEW s \in I, s.rest # << >> PROVE WalkStep(tree, TRUE, TRUE, s) \in I
    <2>1. OnTree(tree, TRUE, WalkStep(tree, TRUE, TRUE, s))
      BY <1>2, WalkStepType DEF OnTree
    <2>2. QED
      BY <1>2, <2>1, ScopedStepNoLink DEF OnTree
  <1>3. ASSUME NEW s \in I PROVE [s EXCEPT !.err = "loop"] \in I
    <2>1. [s EXCEPT !.err = "loop"] \in WalkState
      BY WalkStateExcept DEF WalkError
    <2>2. [s EXCEPT !.err = "loop"].at = s.at
      BY DEF WalkState
    <2>3. QED
      BY <2>1, <2>2
  <1>. HIDE DEF I
  <1>4. Walk(tree, path, TRUE, TRUE) \in I
    BY <1>1, <1>2, <1>3, WalkInduction
  <1>5. QED
    BY <1>4 DEF I

\* A lookup that has only moved along the path it was given.
Along(path, s) == s.at \o s.rest = path

\* A lookup of a path of names without links only moves along it.
LEMMA NoLinkStep ==
    ASSUME NEW tree, NEW path \in Seq(Name), NoLinks(tree, path),
           NEW scoped \in BOOLEAN,
           NEW s \in WalkState, Along(path, s), s.rest # << >>,
           NEW next, next = WalkStep(tree, scoped, TRUE, s)
    PROVE  Along(path, next)
  <1>0. PICK part, here : part = Head(s.rest) /\ here = Append(s.at, part)
    OBVIOUS
  <1>1. s.at \in Seq(Part) /\ s.rest \in Seq(Part)
    BY DEF WalkState, Part
  <1>2. /\ here \o Tail(s.rest) = path
        /\ here = SubSeq(path, 1, Len(s.at) + 1)
        /\ part = path[Len(s.at) + 1]
        /\ Len(s.at) + 1 \in 1..Len(path)
    BY <1>0, <1>1, MovePart DEF Along
  <1>3. part \in Name
    <2>1. path[Len(s.at) + 1] \in Name
      BY <1>2, ElementOfSeq
    <2>2. QED
      BY <1>2, <2>1
  <1>4. Exists(tree, here) => tree[here].kind # "sym"
    BY <1>2 DEF NoLinks, Exists
  <1>5. Stepped(tree, scoped, TRUE, s, part, here, next)
    BY <1>0, WalkStepFields
  <1>6. \/ next.at = here /\ next.rest = Tail(s.rest)
        \/ next.at = s.at /\ next.rest = s.rest
    BY <1>3, <1>4, <1>5 DEF Stepped, StepsOn, StopsWith, StateIs
  <1>7. QED
    <2>1. s.at \o s.rest = path
      BY DEF Along
    <2>2. QED
      BY <1>2, <1>6, <2>1 DEF Along

\* A lookup of a path of names without links ends at that path.
LEMMA NoLinkWalk ==
    ASSUME NEW tree, IsTree(tree), NEW path \in Seq(Name), NoLinks(tree, path),
           NEW scoped \in BOOLEAN,
           Walk(tree, path, scoped, TRUE).err = "ok"
    PROVE  Walk(tree, path, scoped, TRUE).at = path
  <1>. DEFINE I == {s \in WalkState : OnTree(tree, scoped, s) /\ Along(path, s)}
              w == Walk(tree, path, scoped, TRUE)
  <1>0. path \in Seq(Part)
    BY DEF Part
  <1>1. WalkStart(path) \in I
    <2>1. WalkStart(path).at = << >> /\ WalkStart(path).rest = path
      BY DEF WalkStart
    <2>2. << >> \o path = path
      OBVIOUS
    <2>3. << >> \in DOMAIN tree
      BY DEF IsTree, WellFormed
    <2>4. QED
      BY <1>0, <2>1, <2>2, <2>3, WalkStartType DEF OnTree, Along
  <1>2. ASSUME NEW s \in I, s.rest # << >> PROVE WalkStep(tree, scoped, TRUE, s) \in I
    <2>0. PICK next : next = WalkStep(tree, scoped, TRUE, s)
      OBVIOUS
    <2>1. Along(path, next)
      BY <1>2, <2>0, NoLinkStep
    <2>2. OnTree(tree, scoped, next)
      BY <1>2, <2>0, WalkStepType DEF OnTree
    <2>3. QED
      BY <2>0, <2>1, <2>2 DEF OnTree
  <1>3. ASSUME NEW s \in I PROVE [s EXCEPT !.err = "loop"] \in I
    <2>1. [s EXCEPT !.err = "loop"] \in WalkState
      BY WalkStateExcept DEF WalkError
    <2>2. [s EXCEPT !.err = "loop"].at = s.at /\ [s EXCEPT !.err = "loop"].rest = s.rest
      BY DEF WalkState
    <2>3. QED
      BY <2>1, <2>2 DEF OnTree, Along
  <1>. HIDE DEF I
  <1>4. w \in I
    BY <1>1, <1>2, <1>3, WalkInduction
  <1>5. w.rest = << >>
    BY <1>0, WalkDone
  <1>6. w.at \in Seq(Name) /\ w.at \o w.rest = path
    BY <1>4 DEF I, WalkState, Along
  <1>. HIDE DEF w
  <1>7. w.at \o << >> = w.at
    BY <1>6
  <1>8. QED
    BY <1>5, <1>6, <1>7 DEF w

\* The tree is closed under prefixes: what a node lies below is a directory.
LEMMA PrefixThere ==
    ASSUME NEW tree, IsTree(tree), NEW at \in Seq(Name),
           NEW p \in DOMAIN tree, Under(at, p)
    PROVE  at \in DOMAIN tree /\ (at # p => IsDir(tree, at))
  <1>. DEFINE Good(q) == at \in DOMAIN tree /\ (at # q => IsDir(tree, at))
              T == {n \in Nat : \A q \in DOMAIN tree :
                       Under(at, q) /\ Len(q) = Len(at) + n => Good(q)}
  <1>0. \A q \in DOMAIN tree : q \in Seq(Name)
    BY TreePaths
  <1>1. 0 \in T
    <2>1. SUFFICES ASSUME NEW q \in DOMAIN tree, Under(at, q), Len(q) = Len(at) PROVE q = at
      BY <1>0 DEF Exists
    <2>2. QED
      BY <1>0, <2>1 DEF Under
  <1>2. ASSUME NEW n \in T PROVE n + 1 \in T
    <2>1. SUFFICES ASSUME NEW q \in DOMAIN tree, Under(at, q), Len(q) = Len(at) + (n + 1)
                   PROVE  Good(q)
      OBVIOUS
    <2>2. n \in Nat /\ q \in Seq(Name) /\ Len(q) \in Nat /\ Len(at) \in Nat
      BY <1>0
    <2>3. q # << >>
      BY <2>1, <2>2
    <2>. DEFINE up == Front(q)
    <2>4. /\ up \in DOMAIN tree /\ IsDir(tree, up)
          /\ Len(up) = Len(at) + n
          /\ \A i \in 1..Len(q)-1 : up[i] = q[i]
      <3>1. /\ Len(up) = Len(q) - 1
            /\ \A i \in 1..Len(q)-1 : up[i] = q[i]
        BY <2>2, <2>3, FrontProperties
      <3>2. up \in DOMAIN tree /\ tree[up].kind = "dir"
        BY <2>3, TreePaths
      <3>. HIDE DEF up
      <3>3. QED
        BY <2>1, <2>2, <3>1, <3>2 DEF IsDir, Exists
    <2>. HIDE DEF up
    <2>5. Under(at, up)
      BY <2>1, <2>2, <2>4 DEF Under
    <2>6. Good(up)
      BY <2>4, <2>5
    <2>7. QED
      BY <2>4, <2>6
  <1>3. T = Nat
    <2>1. T \in SUBSET Nat
      OBVIOUS
    <2>. HIDE DEF T
    <2>2. QED
      BY <1>1, <1>2, <2>1, SetInduction
  <1>4. PICK n \in Nat : Len(p) = Len(at) + n
    <2>1. Len(p) \in Nat /\ Len(at) \in Nat /\ Len(at) <= Len(p)
      BY <1>0 DEF Under
    <2>2. Len(p) - Len(at) \in Nat /\ Len(p) = Len(at) + (Len(p) - Len(at))
      BY <2>1
    <2>3. QED
      BY <2>2
  <1>5. QED
    BY <1>3, <1>4

-----------------------------------------------------------------------------
(* Where os.Root's operations act. *)

\* A directory found is a directory of the tree, and a directory's own path
\* finds itself.
LEMMA DirOfType ==
    ASSUME NEW tree, IsTree(tree), NEW p \in Seq(Part)
    PROVE  /\ DirOf(tree, p).err = "ok" => IsDir(tree, DirOf(tree, p).at)
           /\ IsDir(tree, p) => DirOf(tree, p) = At("ok", p)
  BY DEF DirOf, EndsAtDir, At

\* A directory reached by a path of names without links is at that path.
LEMMA DirOfNoLink ==
    ASSUME NEW tree, IsTree(tree), NEW p \in Seq(Name), NoLinks(tree, p),
           DirOf(tree, p).err = "ok"
    PROVE  IsDir(tree, p)
  <1>1. SUFFICES ASSUME ~IsDir(tree, p) PROVE FALSE
    OBVIOUS
  <1>. DEFINE w == Walk(tree, p, FALSE, TRUE)
  <1>2. EndsAtDir(tree, w).err = "ok"
    BY <1>1 DEF DirOf
  <1>3. w.err = "ok" => w.at = p
    BY NoLinkWalk
  <1>. HIDE DEF w
  <1>4. QED
    BY <1>1, <1>2, <1>3 DEF EndsAtDir, At

\* An operation acts on a name in a directory of the tree, and on a path that
\* exists it acts on that path.
LEMMA LocateType ==
    ASSUME NEW tree, IsTree(tree), NEW p, Front(p) \in Seq(Part),
           NEW l, l = Locate(tree, p)
    PROVE  /\ l.err = "ok" => /\ l.at \in Seq(Name) /\ l.at # << >>
                              /\ IsDir(tree, Front(l.at))
           /\ p \in DOMAIN tree /\ p # << >> => l = At("ok", p)
  <1>. DEFINE d == DirOf(tree, Front(p))
  <1>1. l = Inside(d, Last(p))
    BY DEF Locate
  <1>2. d.err = "ok" => IsDir(tree, d.at)
    BY DirOfType
  <1>. HIDE DEF d
  <1>3. ASSUME l.err = "ok"
        PROVE  l.at \in Seq(Name) /\ l.at # << >> /\ IsDir(tree, Front(l.at))
    <2>1. d.err = "ok" /\ Last(p) \in Name /\ l.at = Append(d.at, Last(p))
      BY <1>1, <1>3 DEF Inside, At
    <2>2. IsDir(tree, d.at) /\ d.at \in Seq(Name)
      BY <1>2, <2>1, TreePaths DEF IsDir, Exists
    <2>3. QED
      BY <2>1, <2>2, FrontAppend
  <1>4. ASSUME p \in DOMAIN tree, p # << >>
        PROVE  l = At("ok", p)
    <2>1. p \in Seq(Name) /\ IsDir(tree, Front(p))
      BY <1>4, TreePaths DEF IsDir, Exists
    <2>2. d = At("ok", Front(p))
      BY <2>1, DirOfType DEF d
    <2>3. Last(p) \in Name
      BY <1>4, <2>1, ElementOfSeq, EmptySeq, LenProperties DEF Last
    <2>4. l = At("ok", Append(Front(p), Last(p)))
      BY <1>1, <2>2, <2>3 DEF Inside, At
    <2>5. Append(Front(p), Last(p)) = p
      BY <1>4, <2>1, FrontLast
    <2>6. QED
      BY <2>4, <2>5
  <1>5. QED
    BY <1>3, <1>4

\* Lstat finds a node of the tree, a path that exists finds itself, and what is
\* found for any other path is not that path.
LEMMA LstatType ==
    ASSUME NEW tree, IsTree(tree), NEW p, Front(p) \in Seq(Part),
           NEW l, l = Lstat(tree, p)
    PROVE  /\ l.err = "ok" => l.at \in DOMAIN tree
           /\ l.err = "ok" /\ p # << >> => l.at # << >>
           /\ p \in DOMAIN tree => l = At("ok", p)
  <1>. DEFINE found == Locate(tree, p)
  <1>1. << >> \in DOMAIN tree
    BY DEF IsTree, WellFormed
  <1>2. CASE p = << >>
    BY <1>1, <1>2 DEF Lstat, At
  <1>3. CASE p # << >>
    <2>1. l = IfThere(tree, found)
      BY <1>3 DEF Lstat
    <2>2. /\ found.err = "ok" => found.at # << >>
          /\ p \in DOMAIN tree => found = At("ok", p)
      BY <1>3, LocateType
    <2>. HIDE DEF found
    <2>3. QED
      BY <1>3, <2>1, <2>2 DEF IfThere, At, Exists
  <1>4. QED
    BY <1>2, <1>3

\* Stat finds a node of the tree.
LEMMA StatType ==
    ASSUME NEW tree, IsTree(tree), NEW p \in Seq(Part)
    PROVE  Stat(tree, p).at \in DOMAIN tree
  <1>1. OnTree(tree, FALSE, Walk(tree, p, FALSE, TRUE))
    BY WalkType
  <1>2. QED
    BY <1>1 DEF Stat, Ends, At, OnTree

-----------------------------------------------------------------------------
(* Changes keep a tree a tree. *)

\* Part of a tree that keeps the parents and the kinds of its nodes is a tree.
LEMMA TreeKept ==
    ASSUME NEW tree, IsTree(tree), NEW D \in SUBSET DOMAIN tree, << >> \in D,
           \A p \in D \ {<< >>} : Front(p) \in D,
           NEW f \in [D -> NodeType], \A p \in D : f[p].kind = tree[p].kind
    PROVE  IsTree(f)
  <1>1. << >> \in DOMAIN f /\ f[<< >>].kind = "dir"
    BY DEF IsTree, WellFormed
  <1>2. \A p \in DOMAIN f \ {<< >>} : p \in Seq(Name) /\ IsDir(f, Front(p))
    BY TreePaths DEF IsDir, Exists
  <1>3. QED
    BY <1>1, <1>2 DEF IsTree, WellFormed

\* Touching a directory changes no kind and no author.
LEMMA TouchType ==
    ASSUME NEW tree, IsTree(tree), NEW p, NEW clock \in Nat
    PROVE  /\ Touch(tree, p, clock) \in [DOMAIN tree -> NodeType]
           /\ \A q \in DOMAIN tree : /\ Touch(tree, p, clock)[q].kind = tree[q].kind
                                     /\ Touch(tree, p, clock)[q].by = tree[q].by
  <1>. DEFINE touched == Touch(tree, p, clock)
  <1>1. DOMAIN touched = DOMAIN tree
    BY DEF Touch
  <1>2. ASSUME NEW q \in DOMAIN tree
        PROVE  touched[q] \in {tree[q], [tree[q] EXCEPT !.time = clock]}
    BY <1>2 DEF Touch
  <1>3. touched = [q \in DOMAIN tree |-> touched[q]]
    BY DEF Touch
  <1>. HIDE DEF touched
  <1>4. ASSUME NEW q \in DOMAIN tree
        PROVE  touched[q] \in NodeType /\ touched[q].kind = tree[q].kind
                                       /\ touched[q].by = tree[q].by
    <2>1. tree[q] \in NodeType
      BY TreePaths
    <2>. DEFINE node == tree[q]
    <2>2. touched[q] \in {node, [node EXCEPT !.time = clock]}
      BY <1>2
    <2>3. node \in NodeType
      BY <2>1
    <2>. HIDE DEF node
    <2>4. /\ [node EXCEPT !.time = clock] \in NodeType
          /\ [node EXCEPT !.time = clock].kind = node.kind
          /\ [node EXCEPT !.time = clock].by = node.by
      BY <2>3 DEF NodeType
    <2>5. QED
      BY <2>2, <2>3, <2>4 DEF node
  <1>5. touched \in [DOMAIN tree -> NodeType]
    BY <1>3, <1>4
  <1>6. QED
    BY <1>4, <1>5 DEF touched

\* The tree with one more node.
PutAt(tree, at, node, put) ==
    /\ IsTree(put)
    /\ DOMAIN put = DOMAIN tree \union {at}
    /\ put[at] = node
    /\ \A p \in DOMAIN tree : put[p].kind = tree[p].kind /\ put[p].by = tree[p].by

\* A new name in a directory of the tree.
LEMMA PutNodeType ==
    ASSUME NEW tree, IsTree(tree), NEW at \in Seq(Name), at # << >>,
           at \notin DOMAIN tree, IsDir(tree, Front(at)),
           NEW node \in NodeType, NEW clock \in Nat,
           NEW put, put = PutNode(tree, at, node, clock)
    PROVE  PutAt(tree, at, node, put)
  <1>. DEFINE touched == Touch(tree, at, clock)
  <1>1. put = [p \in DOMAIN tree \union {at} |-> IF p = at THEN node ELSE touched[p]]
    BY DEF PutNode
  <1>2. /\ touched \in [DOMAIN tree -> NodeType]
        /\ \A q \in DOMAIN tree : touched[q].kind = tree[q].kind /\ touched[q].by = tree[q].by
    BY TouchType
  <1>. HIDE DEF touched
  <1>3. put \in [DOMAIN tree \union {at} -> NodeType]
    BY <1>1, <1>2
  <1>4. \A p \in DOMAIN tree : put[p].kind = tree[p].kind /\ put[p].by = tree[p].by
    BY <1>1, <1>2
  <1>5. << >> \in DOMAIN put /\ put[<< >>].kind = "dir"
    BY <1>3, <1>4 DEF IsTree, WellFormed
  <1>6. ASSUME NEW p \in DOMAIN put \ {<< >>}
        PROVE  p \in Seq(Name) /\ IsDir(put, Front(p))
    <2>1. p \in Seq(Name) /\ IsDir(tree, Front(p))
      BY <1>3, TreePaths DEF IsDir, Exists
    <2>2. QED
      BY <1>3, <1>4, <2>1 DEF IsDir, Exists
  <1>7. IsTree(put)
    BY <1>3, <1>5, <1>6 DEF IsTree, WellFormed
  <1>8. DOMAIN put = DOMAIN tree \union {at} /\ put[at] = node
    BY <1>1
  <1>9. QED
    BY <1>4, <1>7, <1>8 DEF PutAt

\* The tree without the subtree at a path.
CutAt(tree, at, left) ==
    /\ IsTree(left)
    /\ \A p : p \in DOMAIN left <=> p \in DOMAIN tree /\ ~Under(at, p)
    /\ at \notin DOMAIN left
    /\ \A p \in DOMAIN left : left[p].kind = tree[p].kind /\ left[p].by = tree[p].by

\* Removing a subtree.
LEMMA RemoveTreeType ==
    ASSUME NEW tree, IsTree(tree), NEW at \in DOMAIN tree, at # << >>, NEW clock \in Nat,
           NEW left, left = RemoveTree(tree, at, clock)
    PROVE  CutAt(tree, at, left)
  <1>. DEFINE D == {q \in DOMAIN tree : ~Under(at, q)}
              touched == Touch(tree, at, clock)
  <1>1. left = [p \in D |-> touched[p]]
    BY DEF RemoveTree
  <1>2. /\ touched \in [DOMAIN tree -> NodeType]
        /\ \A q \in DOMAIN tree : touched[q].kind = tree[q].kind /\ touched[q].by = tree[q].by
    BY TouchType
  <1>. HIDE DEF touched
  <1>3. at \in Seq(Name) /\ Len(at) > 0
    BY TreePaths, EmptySeq, LenProperties
  <1>4. << >> \in D
    <2>1. << >> \in DOMAIN tree /\ Len(<< >>) = 0
      BY DEF IsTree, WellFormed
    <2>2. QED
      BY <1>3, <2>1 DEF Under
  <1>5. ASSUME NEW p \in D \ {<< >>} PROVE Front(p) \in D
    <2>1. p \in Seq(Name) /\ Front(p) \in DOMAIN tree /\ ~Under(at, p)
      BY TreePaths
    <2>2. /\ Len(Front(p)) = Len(p) - 1
          /\ \A i \in 1..Len(p)-1 : Front(p)[i] = p[i]
      BY <2>1, FrontProperties
    <2>3. Under(at, Front(p)) => Under(at, p)
      <3>1. SUFFICES ASSUME Len(at) <= Len(p) - 1,
                            \A i \in 1..Len(at) : at[i] = Front(p)[i]
                     PROVE  Len(at) <= Len(p) /\ \A i \in 1..Len(at) : at[i] = p[i]
        BY <2>2 DEF Under
      <3>2. Len(at) \in Nat /\ Len(p) \in Nat
        BY <1>3, <2>1
      <3>3. \A i \in 1..Len(at) : i \in 1..Len(p)-1
        BY <3>1, <3>2
      <3>4. QED
        BY <2>2, <3>1, <3>2, <3>3
    <2>4. QED
      BY <2>1, <2>3
  <1>6. at \notin D
    BY <1>3 DEF Under
  <1>7. left \in [D -> NodeType] /\ \A p \in D : left[p].kind = tree[p].kind
    BY <1>1, <1>2
  <1>8. D \in SUBSET DOMAIN tree
    OBVIOUS
  <1>9. \A p \in D : left[p].by = tree[p].by
    BY <1>1, <1>2
  <1>10. \A p : p \in DOMAIN left <=> p \in DOMAIN tree /\ ~Under(at, p)
    BY <1>7
  <1>. HIDE DEF D
  <1>11. IsTree(left)
    BY <1>4, <1>5, <1>7, <1>8, TreeKept
  <1>12. QED
    BY <1>6, <1>7, <1>9, <1>10, <1>11 DEF CutAt

\* Setting owner and times.
LEMMA SetMetaType ==
    ASSUME NEW tree, IsTree(tree), NEW at, NEW owner \in Nat, NEW time \in Nat,
           NEW set, set = SetMeta(tree, at, owner, time)
    PROVE  /\ IsTree(set)
           /\ DOMAIN set = DOMAIN tree
           /\ \A p \in DOMAIN tree : set[p].kind = tree[p].kind /\ set[p].by = tree[p].by
  <1>1. set = [p \in DOMAIN tree |->
                 IF tree[p].ino = tree[at].ino
                 THEN [tree[p] EXCEPT !.owner = owner, !.time = time] ELSE tree[p]]
    BY DEF SetMeta
  <1>2. ASSUME NEW p \in DOMAIN tree
        PROVE  set[p] \in NodeType /\ set[p].kind = tree[p].kind /\ set[p].by = tree[p].by
    <2>. DEFINE node == tree[p]
                stamped == [node EXCEPT !.owner = owner, !.time = time]
    <2>1. set[p] \in {node, stamped}
      BY <1>1
    <2>2. node \in NodeType
      BY TreePaths
    <2>. HIDE DEF node
    <2>3. stamped \in NodeType /\ stamped.kind = node.kind /\ stamped.by = node.by
      BY <2>2 DEF NodeType
    <2>. HIDE DEF stamped
    <2>4. QED
      BY <2>1, <2>2, <2>3 DEF node
  <1>3. set \in [DOMAIN tree -> NodeType]
    BY <1>1, <1>2
  <1>4. << >> \in DOMAIN tree /\ \A p \in DOMAIN tree \ {<< >>} : Front(p) \in DOMAIN tree
    BY TreePaths DEF IsTree, WellFormed
  <1>5. IsTree(set)
    BY <1>2, <1>3, <1>4, TreeKept
  <1>6. QED
    BY <1>1, <1>2, <1>5

-----------------------------------------------------------------------------
(* The calls of Extract: what they do to a tree. *)

Marks(old, new) ==
    \A p \in DOMAIN new : new[p].by > 0 \/ (p \in DOMAIN old /\ new[p].by = old[p].by)

Extracted(old, new) == IsTree(new) /\ Marks(old, new)

\* Every node stays, with its kind, and new ones are of the given kinds.
Grown(old, new, kinds) ==
    /\ DOMAIN old \subseteq DOMAIN new
    /\ \A p \in DOMAIN old : new[p].kind = old[p].kind
    /\ \A p \in DOMAIN new \ DOMAIN old : new[p].kind \in kinds

NonDir == Kind \ {"dir"}

\* Where an operation acts, if it does.
Located(tree, l) ==
    l.err = "ok" => l.at \in Seq(Name) /\ l.at # << >> /\ IsDir(tree, Front(l.at))

\* The outcome of a call that has written the node it was to write.
Made(tree, l, out) ==
    /\ Extracted(tree, out.tree)
    /\ out.err = "ok" => l.at \in DOMAIN out.tree /\ out.tree[l.at].by > 0

\* Changing nothing is allowed.
LEMMA Unchanged ==
    ASSUME NEW tree, IsTree(tree)
    PROVE  Extracted(tree, tree) /\ \A kinds : Grown(tree, tree, kinds)
  BY DEF Extracted, Marks, Grown

\* A call that makes nodes of some kinds makes nodes of these and others.
LEMMA GrownMore ==
    ASSUME NEW old, NEW new, NEW kinds, NEW more, kinds \subseteq more,
           Grown(old, new, kinds)
    PROVE  Grown(old, new, more)
  BY DEF Grown

\* Changing an owner, a time, a type or an author keeps a header a header.
LEMMA HeaderExcept ==
    ASSUME NEW hdr \in Header
    PROVE  /\ \A t \in Nat : [hdr EXCEPT !.time = t] \in Header
           /\ \A o, t \in Nat : [hdr EXCEPT !.owner = o, !.time = t] \in Header
           /\ \A o \in Nat : [hdr EXCEPT !.owner = o] \in Header
           /\ \A type \in EntryType : [hdr EXCEPT !.type = type] \in Header
           /\ \A type \in EntryType, b \in Nat \ {0} :
                 [hdr EXCEPT !.type = type, !.by = b] \in Header
  BY DEF Header

\* An entry's name resolves to a path with the same last component whose other
\* components are plain names, unless it is the name itself.
LEMMA ResolvedType ==
    ASSUME NEW tree, IsTree(tree), NEW S, Name \subseteq S,
           NEW name \in Seq(S), name # << >>, Front(name) \in Seq(Part),
           NEW r, r = resolveArchivePath(tree, name), r.err = "ok"
    PROVE  /\ r.path \in Seq(S) /\ r.path # << >>
           /\ Front(r.path) \in Seq(Name) \union {Front(name)}
  <1>. DEFINE stat == Stat(tree, Front(name))
              w == Walk(tree, Front(name), TRUE, TRUE)
  <1>1. r = Fallback(name, stat, w)
    BY DEF resolveArchivePath
  <1>2. OnTree(tree, TRUE, w)
    BY WalkType
  <1>3. w.at \in Seq(Name)
    BY <1>2 DEF OnTree, WalkState
  <1>. HIDE DEF stat, w
  <1>4. r.path = name \/ r.path = Append(w.at, Last(name))
    BY <1>1 DEF Fallback, Resolved
  <1>5. Last(name) \in S
    BY ElementOfSeq, EmptySeq, LenProperties DEF Last
  <1>6. w.at \in Seq(S)
    BY <1>3
  <1>7. CASE r.path = name
    BY <1>7
  <1>8. CASE r.path = Append(w.at, Last(name))
    BY <1>3, <1>5, <1>6, <1>8, FrontAppend
  <1>9. QED
    BY <1>4, <1>7, <1>8

\* Where the parent was not there, the path resolved goes through no link.
LEMMA ResolvedNoLink ==
    ASSUME NEW tree, IsTree(tree), NEW S,
           NEW name \in Seq(S), name # << >>, Front(name) \in Seq(Part),
           NEW r, r = resolveArchivePath(tree, name), r.err = "ok", ~r.parentWasPresent
    PROVE  NoLinks(tree, Front(r.path))
  <1>. DEFINE stat == Stat(tree, Front(name))
              w == Walk(tree, Front(name), TRUE, TRUE)
  <1>1. r = Fallback(name, stat, w)
    BY DEF resolveArchivePath
  <1>2. w.at \in Seq(Name) /\ NoLinks(tree, w.at)
    BY WalkType, ScopedWalkNoLink DEF OnTree, WalkState
  <1>. HIDE DEF stat, w
  <1>3. r.path = Append(w.at, Last(name))
    BY <1>1 DEF Fallback, Resolved
  <1>4. Front(r.path) = w.at
    <2>1. Last(name) \in S
      BY ElementOfSeq, EmptySeq, LenProperties DEF Last
    <2>2. w.at \in Seq(S \union Name) /\ Last(name) \in S \union Name
      BY <1>2, <2>1
    <2>3. QED
      BY <1>3, <2>2, FrontAppend
  <1>5. QED
    BY <1>2, <1>4

-----------------------------------------------------------------------------
(* Writing nodes. *)

\* The node an entry makes: its author is the entry.
LEMMA NewType ==
    ASSUME NEW hdr \in Header, NEW at \in Seq(Name), NEW kind \in Kind, NEW link \in LinkType
    PROVE  /\ New(hdr, at, kind, link) \in NodeType
           /\ New(hdr, at, kind, link).by = hdr.by
           /\ New(hdr, at, kind, link).kind = kind
  <1>1. OwnerOf(hdr) \in Nat
    BY DEF OwnerOf, Process, Header
  <1>2. Inode(hdr, at) \in Nat \X Nat
    <2>1. hdr.by \in Nat /\ Len(at) \in Nat
      BY DEF Header
    <2>2. QED
      BY <2>1 DEF Inode
  <1>3. hdr.by \in Nat /\ hdr.time \in Nat
    BY DEF Header
  <1>4. QED
    BY <1>1, <1>2, <1>3 DEF New, Node, NodeType

\* Mkdir, Mknod and Symlink: the new name is the entry's.
LEMMA MakeNewType ==
    ASSUME NEW tree, IsTree(tree), NEW l, Located(tree, l), NEW hdr \in Header,
           NEW kind \in Kind, NEW link \in LinkType,
           NEW out, out = MakeNew(tree, l, hdr, kind, link)
    PROVE  Made(tree, l, out) /\ Grown(tree, out.tree, {kind})
  <1>1. CASE l.err = "ok" /\ ~Exists(tree, l.at)
    <2>. DEFINE node == New(hdr, l.at, kind, link)
                put == PutNode(tree, l.at, node, Clock)
    <2>1. l.at \in Seq(Name) /\ l.at # << >> /\ IsDir(tree, Front(l.at)) /\ l.at \notin DOMAIN tree
      BY <1>1 DEF Located, Exists
    <2>2. node \in NodeType /\ node.by = hdr.by /\ node.kind = kind
      BY <2>1, NewType
    <2>3. Clock \in Nat
      BY ExtractAssumption
    <2>. HIDE DEF node
    <2>4. /\ IsTree(put) /\ DOMAIN put = DOMAIN tree \union {l.at} /\ put[l.at] = node
          /\ \A p \in DOMAIN tree : put[p].kind = tree[p].kind /\ put[p].by = tree[p].by
      <3>1. PICK at : at = l.at
        OBVIOUS
      <3>2. put = PutNode(tree, at, node, Clock)
        BY <3>1
      <3>. HIDE DEF put
      <3>3. /\ at \in Seq(Name) /\ at # << >> /\ at \notin DOMAIN tree
            /\ IsDir(tree, Front(at)) /\ node \in NodeType /\ Clock \in Nat
        BY <2>1, <2>2, <2>3, <3>1
      <3>4. PutAt(tree, at, node, put)
        BY <3>2, <3>3, PutNodeType
      <3>5. QED
        BY <3>1, <3>4 DEF PutAt
    <2>5. hdr.by > 0
      BY DEF Header
    <2>6. out = Outcome("ok", put)
      BY <1>1 DEF MakeNew, node
    <2>. HIDE DEF put
    <2>7. out.tree = put
      BY <2>6 DEF Outcome
    <2>8. Made(tree, l, out)
      BY <2>2, <2>4, <2>5, <2>7 DEF Made, Extracted, Marks
    <2>9. Grown(tree, out.tree, {kind})
      BY <2>2, <2>4, <2>7 DEF Grown
    <2>10. QED
      BY <2>8, <2>9
  <1>2. CASE ~(l.err = "ok" /\ ~Exists(tree, l.at))
    <2>1. out.tree = tree /\ out.err # "ok"
      BY <1>2 DEF MakeNew, Outcome
    <2>2. QED
      BY <2>1, Unchanged DEF Made
  <1>3. QED
    BY <1>1, <1>2

\* The tree with the entry's author at one node.
StampedAt(tree, at, hdr, set) ==
    /\ IsTree(set) /\ DOMAIN set = DOMAIN tree
    /\ set[at].by = hdr.by
    /\ \A p \in DOMAIN tree \ {at} : set[p].by = tree[p].by
    /\ \A p \in DOMAIN tree : set[p].kind = tree[p].kind

\* Lchown and the times on an existing node, reached by every name of its inode.
LEMMA StampType ==
    ASSUME NEW tree, IsTree(tree), NEW at \in DOMAIN tree, NEW hdr \in Header,
           NEW set, set = Stamp(tree, at, hdr)
    PROVE  StampedAt(tree, at, hdr, set)
  <1>. DEFINE marked == [tree EXCEPT ![at].by = hdr.by]
              owned == IF NoLchown THEN tree[at].owner ELSE hdr.owner
  <1>1. set = SetMeta(marked, at, owned, hdr.time)
    BY DEF Stamp
  <1>2. hdr.by \in Nat /\ hdr.time \in Nat /\ owned \in Nat
    <2>1. tree[at] \in NodeType
      BY TreePaths
    <2>2. QED
      BY <2>1 DEF Header, NodeType
  <1>3. /\ DOMAIN marked = DOMAIN tree
        /\ marked[at] = [tree[at] EXCEPT !.by = hdr.by]
        /\ \A p \in DOMAIN tree \ {at} : marked[p] = tree[p]
        /\ marked = [p \in DOMAIN tree |-> marked[p]]
    OBVIOUS
  <1>. HIDE DEF marked, owned
  <1>4. marked[at] \in NodeType /\ marked[at].kind = tree[at].kind /\ marked[at].by = hdr.by
    <2>. DEFINE node == tree[at]
    <2>1. node \in NodeType
      BY TreePaths
    <2>. HIDE DEF node
    <2>2. /\ [node EXCEPT !.by = hdr.by] \in NodeType
          /\ [node EXCEPT !.by = hdr.by].kind = node.kind
          /\ [node EXCEPT !.by = hdr.by].by = hdr.by
      BY <1>2, <2>1 DEF NodeType
    <2>3. QED
      BY <1>3, <2>2 DEF node
  <1>5. \A p \in DOMAIN tree : marked[p] \in NodeType /\ marked[p].kind = tree[p].kind
    BY <1>3, <1>4, TreePaths
  <1>6. marked \in [DOMAIN tree -> NodeType]
    BY <1>3, <1>5
  <1>7. << >> \in DOMAIN tree /\ \A p \in DOMAIN tree \ {<< >>} : Front(p) \in DOMAIN tree
    BY TreePaths DEF IsTree, WellFormed
  <1>8. IsTree(marked)
    BY <1>5, <1>6, <1>7, TreeKept
  <1>9. /\ IsTree(set) /\ DOMAIN set = DOMAIN marked
        /\ \A p \in DOMAIN marked : set[p].kind = marked[p].kind /\ set[p].by = marked[p].by
    <2>1. PICK m : m = marked
      OBVIOUS
    <2>2. PICK owner, time : owner = owned /\ time = hdr.time
      OBVIOUS
    <2>3. IsTree(m) /\ at \in DOMAIN m /\ owner \in Nat /\ time \in Nat
      BY <1>2, <1>3, <1>8, <2>1, <2>2
    <2>4. set = SetMeta(m, at, owner, time)
      BY <1>1, <2>1, <2>2
    <2>5. /\ IsTree(set) /\ DOMAIN set = DOMAIN m
          /\ \A p \in DOMAIN m : set[p].kind = m[p].kind /\ set[p].by = m[p].by
      BY <2>3, <2>4, SetMetaType
    <2>6. QED
      BY <2>1, <2>5
  <1>10. QED
    BY <1>3, <1>4, <1>5, <1>9 DEF StampedAt

\* Stamping an existing node marks it as written by this entry.
LEMMA StampMarks ==
    ASSUME NEW tree, IsTree(tree), NEW at \in DOMAIN tree, NEW hdr \in Header,
           NEW set, set = Stamp(tree, at, hdr)
    PROVE  /\ Extracted(tree, set) /\ at \in DOMAIN set /\ set[at].by > 0
           /\ \A kinds : Grown(tree, set, kinds)
  <1>1. StampedAt(tree, at, hdr, set)
    BY StampType
  <1>2. hdr.by > 0
    BY DEF Header
  <1>3. QED
    BY <1>1, <1>2 DEF StampedAt, Extracted, Marks, Grown

\* A directory entry, merged with a directory that is there.
LEMMA MakeDirType ==
    ASSUME NEW tree, IsTree(tree), NEW l, Located(tree, l), NEW hdr \in Header,
           NEW out, out = MakeDir(tree, l, hdr)
    PROVE  Made(tree, l, out) /\ Grown(tree, out.tree, {"dir"})
  <1>1. CASE l.err = "ok" /\ IsDir(tree, l.at)
    <2>1. l.at \in DOMAIN tree
      BY <1>1 DEF IsDir, Exists
    <2>2. out.tree = Stamp(tree, l.at, hdr)
      BY <1>1 DEF MakeDir, Outcome
    <2>3. QED
      BY <2>1, <2>2, StampMarks DEF Made
  <1>2. CASE ~(l.err = "ok" /\ IsDir(tree, l.at))
    <2>1. out = MakeNew(tree, l, hdr, "dir", NoLink)
      BY <1>2 DEF MakeDir
    <2>2. "dir" \in Kind /\ NoLink \in LinkType
      BY DEF Kind, NoLink, LinkType
    <2>3. QED
      BY <2>1, <2>2, MakeNewType
  <1>3. QED
    BY <1>1, <1>2

\* A regular file, over one that is there or new.
LEMMA WriteFileType ==
    ASSUME NEW tree, IsTree(tree), NEW l, Located(tree, l), NEW hdr \in Header,
           NEW out, out = WriteFile(tree, l, hdr)
    PROVE  Made(tree, l, out) /\ Grown(tree, out.tree, {"reg"})
  <1>1. CASE l.err = "ok" /\ Exists(tree, l.at)
    <2>1. l.at \in DOMAIN tree
      BY <1>1 DEF Exists
    <2>2. CASE tree[l.at].kind = "reg"
      <3>1. out.tree = Stamp(tree, l.at, hdr)
        BY <1>1, <2>2 DEF WriteFile, Outcome
      <3>2. QED
        BY <2>1, <3>1, StampMarks DEF Made
    <2>3. CASE tree[l.at].kind # "reg"
      <3>1. out.tree = tree /\ out.err # "ok"
        BY <1>1, <2>3 DEF WriteFile, Outcome
      <3>2. QED
        BY <3>1, Unchanged DEF Made
    <2>4. QED
      BY <2>2, <2>3
  <1>2. CASE ~(l.err = "ok" /\ Exists(tree, l.at))
    <2>1. out = MakeNew(tree, l, hdr, "reg", NoLink)
      BY <1>2 DEF WriteFile
    <2>2. "reg" \in Kind /\ NoLink \in LinkType
      BY DEF Kind, NoLink, LinkType
    <2>3. QED
      BY <2>1, <2>2, MakeNewType
  <1>3. QED
    BY <1>1, <1>2

\* A hard link to a node that is there.
LEMMA LinkFromType ==
    ASSUME NEW tree, IsTree(tree), NEW l, Located(tree, l), NEW hdr \in Header,
           NEW from, from.err = "ok" => from.at \in DOMAIN tree,
           NEW out, out = LinkFrom(tree, l, hdr, from)
    PROVE  Extracted(tree, out.tree) /\ Grown(tree, out.tree, NonDir)
  <1>1. CASE /\ from.err = "ok" /\ ~IsDir(tree, from.at)
             /\ l.err = "ok" /\ ~Exists(tree, l.at)
    <2>. DEFINE linked == PutNode(tree, l.at, tree[from.at], Clock)
                header == IF tree[from.at].kind = "sym"
                          THEN [hdr EXCEPT !.time = tree[from.at].time] ELSE hdr
    <2>1. /\ l.at \in Seq(Name) /\ l.at # << >> /\ IsDir(tree, Front(l.at))
          /\ l.at \notin DOMAIN tree
      BY <1>1 DEF Located, Exists
    <2>2. tree[from.at] \in NodeType /\ tree[from.at].kind \in NonDir
      <3>1. tree[from.at] \in NodeType
        BY <1>1, TreePaths
      <3>2. tree[from.at].kind \in Kind
        BY <3>1 DEF NodeType
      <3>3. QED
        BY <1>1, <3>1, <3>2 DEF NonDir, IsDir, Exists
    <2>3. Clock \in Nat
      BY ExtractAssumption
    <2>4. /\ IsTree(linked) /\ DOMAIN linked = DOMAIN tree \union {l.at}
          /\ linked[l.at].kind \in NonDir
          /\ \A p \in DOMAIN tree : linked[p].kind = tree[p].kind /\ linked[p].by = tree[p].by
      <3>1. PICK at : at = l.at
        OBVIOUS
      <3>2. PICK node : node = tree[from.at]
        OBVIOUS
      <3>3. linked = PutNode(tree, at, node, Clock)
        BY <3>1, <3>2
      <3>. HIDE DEF linked
      <3>4. /\ at \in Seq(Name) /\ at # << >> /\ at \notin DOMAIN tree
            /\ IsDir(tree, Front(at)) /\ node \in NodeType /\ Clock \in Nat
        BY <2>1, <2>2, <2>3, <3>1, <3>2
      <3>5. PutAt(tree, at, node, linked)
        BY <3>3, <3>4, PutNodeType
      <3>6. QED
        BY <2>2, <3>1, <3>2, <3>5 DEF PutAt
    <2>5. header \in Header
      <3>1. tree[from.at].time \in Nat
        BY <2>2 DEF NodeType
      <3>2. QED
        BY <3>1, HeaderExcept
    <2>6. out.tree = Stamp(linked, l.at, header)
      BY <1>1 DEF LinkFrom, Outcome
    <2>. HIDE DEF linked, header
    <2>7. /\ IsTree(out.tree) /\ DOMAIN out.tree = DOMAIN linked
          /\ out.tree[l.at].by = header.by
          /\ \A p \in DOMAIN linked \ {l.at} : out.tree[p].by = linked[p].by
          /\ \A p \in DOMAIN linked : out.tree[p].kind = linked[p].kind
      <3>1. PICK at : at = l.at
        OBVIOUS
      <3>2. PICK set : set = out.tree
        OBVIOUS
      <3>3. at \in DOMAIN linked /\ set = Stamp(linked, at, header)
        BY <2>4, <2>6, <3>1, <3>2
      <3>4. StampedAt(linked, at, header, set)
        BY <2>4, <2>5, <3>3, StampType
      <3>5. QED
        BY <3>1, <3>2, <3>4 DEF StampedAt
    <2>8. header.by > 0
      BY <2>5 DEF Header
    <2>9. Extracted(tree, out.tree)
      BY <2>4, <2>7, <2>8 DEF Extracted, Marks
    <2>10. Grown(tree, out.tree, NonDir)
      BY <2>4, <2>7 DEF Grown
    <2>11. QED
      BY <2>9, <2>10
  <1>2. CASE ~(/\ from.err = "ok" /\ ~IsDir(tree, from.at)
               /\ l.err = "ok" /\ ~Exists(tree, l.at))
    <2>1. out.tree = tree
      BY <1>2 DEF LinkFrom, Outcome
    <2>2. QED
      BY <2>1, Unchanged
  <1>3. QED
    BY <1>1, <1>2

\* A hard link entry: the target resolves to a node or the entry fails.
LEMMA MakeLinkType ==
    ASSUME NEW tree, IsTree(tree), NEW l, Located(tree, l), NEW hdr \in Header,
           NEW out, out = MakeLink(tree, l, hdr)
    PROVE  Extracted(tree, out.tree) /\ Grown(tree, out.tree, NonDir)
  <1>. DEFINE to == hdr.link.to
              target == resolveHardlinkTarget(tree, to)
              from == TargetOf(tree, target)
  <1>1. out = LinkFrom(tree, l, hdr, from)
    BY DEF MakeLink
  <1>2. to \in Seq(Part)
    BY DEF Header, LinkType
  <1>. HIDE DEF to
  <1>3. ASSUME target.err = "ok" PROVE Front(target.path) \in Seq(Part)
    <2>1. to # << >> /\ target = resolveArchivePath(tree, to)
      BY <1>3 DEF resolveHardlinkTarget, Resolved
    <2>2. Name \subseteq Part /\ Front(to) \in Seq(Part)
      BY <1>2, <2>1, FrontProperties DEF Part
    <2>3. Front(target.path) \in Seq(Name) \union {Front(to)}
      BY <1>2, <1>3, <2>1, <2>2, ResolvedType
    <2>4. QED
      BY <2>2, <2>3
  <1>. HIDE DEF target
  <1>4. from.err = "ok" => from.at \in DOMAIN tree
    <2>1. CASE target.err = "ok"
      <3>1. from = Lstat(tree, target.path)
        BY <2>1 DEF TargetOf
      <3>2. QED
        BY <1>3, <2>1, <3>1, LstatType
    <2>2. CASE target.err # "ok"
      BY <2>2 DEF TargetOf, At
    <2>3. QED
      BY <2>1, <2>2
  <1>. HIDE DEF from
  <1>5. QED
    BY <1>1, <1>4, LinkFromType

-----------------------------------------------------------------------------
(* The calls. *)

\* createTarFile: an entry's path whose directory part is a path, whatever its
\* last component.  A directory entry that succeeds is marked where it lies.
LEMMA CreateType ==
    ASSUME NEW tree, IsTree(tree), NEW dstPath, Front(dstPath) \in Seq(Part),
           NEW hdr \in Header, hdr.type \in {"dir", "reg", "dev", "sym", "link"},
           NEW out, out = createTarFile(tree, dstPath, hdr)
    PROVE  /\ Extracted(tree, out.tree)
           /\ hdr.type = "dir" => Made(tree, Locate(tree, dstPath), out)
           /\ Grown(tree, out.tree, IF hdr.type = "dir" THEN {"dir"} ELSE NonDir)
  <1>. DEFINE l == Locate(tree, dstPath)
  <1>1. Located(tree, l)
    BY LocateType DEF Located
  <1>2. out = CreateAt(tree, l, hdr)
    BY DEF createTarFile
  <1>3. /\ {"dir", "reg", "sym", "dev"} \subseteq Kind
        /\ NoLink \in LinkType /\ hdr.link \in LinkType
    BY DEF Kind, NoLink, LinkType, Header
  <1>4. {"reg"} \subseteq NonDir /\ {"dev"} \subseteq NonDir /\ {"sym"} \subseteq NonDir
    BY DEF NonDir, Kind
  <1>. HIDE DEF l
  <1>5. CASE hdr.type = "dir"
    <2>1. out = MakeDir(tree, l, hdr)
      BY <1>2, <1>5 DEF CreateAt
    <2>2. Made(tree, l, out) /\ Grown(tree, out.tree, {"dir"})
      BY <1>1, <2>1, MakeDirType
    <2>3. QED
      BY <1>5, <2>2 DEF Made, l
  <1>6. CASE hdr.type = "reg"
    <2>1. out = WriteFile(tree, l, hdr)
      BY <1>2, <1>6 DEF CreateAt
    <2>2. Extracted(tree, out.tree) /\ Grown(tree, out.tree, {"reg"})
      BY <1>1, <2>1, WriteFileType DEF Made
    <2>3. QED
      BY <1>6, <2>2, <1>4, GrownMore
  <1>7. CASE hdr.type = "dev"
    <2>1. out.tree = tree \/ out = MakeNew(tree, l, hdr, "dev", NoLink)
      BY <1>2, <1>7 DEF CreateAt, Outcome
    <2>2. Extracted(tree, out.tree) /\ Grown(tree, out.tree, {"dev"})
      BY <1>1, <1>3, <2>1, MakeNewType, Unchanged DEF Made
    <2>3. QED
      BY <1>7, <2>2, <1>4, GrownMore
  <1>8. CASE hdr.type = "sym"
    <2>1. out = MakeNew(tree, l, hdr, "sym", hdr.link)
      BY <1>2, <1>8 DEF CreateAt
    <2>2. Extracted(tree, out.tree) /\ Grown(tree, out.tree, {"sym"})
      BY <1>1, <1>3, <2>1, MakeNewType DEF Made
    <2>3. QED
      BY <1>8, <2>2, <1>4, GrownMore
  <1>9. CASE hdr.type = "link"
    <2>1. out = MakeLink(tree, l, hdr)
      BY <1>2, <1>9 DEF CreateAt
    <2>2. QED
      BY <1>1, <1>9, <2>1, MakeLinkType
  <1>10. QED
    BY <1>5, <1>6, <1>7, <1>8, <1>9

\* One pass of createImpliedDirectories.
LEMMA ImpliedType ==
    ASSUME NEW tree, IsTree(tree), NEW cur, Front(cur) \in Seq(Part), NEW hdr, hdr.by \in Nat \ {0},
           NEW out, out = mkdirImplied(tree, cur, hdr)
    PROVE  Extracted(tree, out.tree) /\ Grown(tree, out.tree, {"dir"})
  <1>. DEFINE l == Locate(tree, cur)
              stat == Stat(tree, cur)
  <1>1. Located(tree, l)
    BY LocateType DEF Located
  <1>2. out = ImpliedAt(tree, l, stat, hdr)
    BY DEF mkdirImplied
  <1>. HIDE DEF l, stat
  <1>3. CASE l.err = "ok" /\ ~Exists(tree, l.at)
    <2>. DEFINE owner == IF NoLchown THEN Process ELSE RootID
                node == Node("dir", NoLink, Inode(hdr, l.at), hdr.by, Clock, owner)
                put == PutNode(tree, l.at, node, Clock)
    <2>1. l.at \in Seq(Name) /\ l.at # << >> /\ IsDir(tree, Front(l.at)) /\ l.at \notin DOMAIN tree
      BY <1>1, <1>3 DEF Located, Exists
    <2>2. Clock \in Nat /\ owner \in Nat
      BY ExtractAssumption DEF Process, RootID
    <2>3. hdr.by \in Nat /\ hdr.by > 0 /\ Inode(hdr, l.at) \in Nat \X Nat
      <3>1. hdr.by \in Nat /\ hdr.by > 0 /\ Len(l.at) \in Nat
        BY <2>1
      <3>2. QED
        BY <3>1 DEF Inode
    <2>. HIDE DEF owner
    <2>4. node \in NodeType /\ node.by = hdr.by /\ node.kind = "dir"
      BY <2>2, <2>3 DEF Node, NodeType, Kind, NoLink, LinkType
    <2>5. out.tree = put
      BY <1>2, <1>3 DEF ImpliedAt, Outcome, owner
    <2>. HIDE DEF node
    <2>6. /\ IsTree(put) /\ DOMAIN put = DOMAIN tree \union {l.at} /\ put[l.at] = node
          /\ \A p \in DOMAIN tree : put[p].kind = tree[p].kind /\ put[p].by = tree[p].by
      <3>1. PICK at : at = l.at
        OBVIOUS
      <3>2. put = PutNode(tree, at, node, Clock)
        BY <3>1
      <3>. HIDE DEF put
      <3>3. /\ at \in Seq(Name) /\ at # << >> /\ at \notin DOMAIN tree
            /\ IsDir(tree, Front(at)) /\ node \in NodeType /\ Clock \in Nat
        BY <2>1, <2>2, <2>4, <3>1
      <3>4. PutAt(tree, at, node, put)
        BY <3>2, <3>3, PutNodeType
      <3>5. QED
        BY <3>1, <3>4 DEF PutAt
    <2>. HIDE DEF put
    <2>7. Extracted(tree, out.tree)
      BY <2>3, <2>4, <2>5, <2>6 DEF Extracted, Marks
    <2>8. Grown(tree, out.tree, {"dir"})
      BY <2>4, <2>5, <2>6 DEF Grown
    <2>9. QED
      BY <2>7, <2>8
  <1>4. CASE ~(l.err = "ok" /\ ~Exists(tree, l.at))
    <2>1. out.tree = tree
      BY <1>2, <1>4 DEF ImpliedAt, Outcome
    <2>2. QED
      BY <2>1, Unchanged
  <1>5. QED
    BY <1>3, <1>4

\* Removing a path of a tree.
LEMMA RemovedType ==
    ASSUME NEW tree, IsTree(tree), NEW at \in DOMAIN tree, at # << >>,
           NEW left, left = RemoveTree(tree, at, Clock)
    PROVE  Extracted(tree, left) /\ CutAt(tree, at, left)
  <1>1. Clock \in Nat
    BY ExtractAssumption
  <1>2. CutAt(tree, at, left)
    BY <1>1, RemoveTreeType
  <1>3. QED
    BY <1>2 DEF CutAt, Extracted, Marks

\* RemoveAll of an entry's path changes nothing or removes the node it finds,
\* which is never the root.
LEMMA RemoveAllType ==
    ASSUME NEW tree, IsTree(tree), NEW p, Front(p) \in Seq(Part),
           NEW out, out = RemoveAll(tree, p), NEW l, l = Locate(tree, p)
    PROVE  /\ Extracted(tree, out.tree)
           /\ \/ out.tree = tree
              \/ /\ l.err = "ok" /\ l.at \in DOMAIN tree /\ l.at # << >>
                 /\ out.tree = RemoveTree(tree, l.at, Clock)
  <1>1. l.err = "ok" => l.at # << >>
    BY LocateType
  <1>2. out = RemoveLocated(tree, l)
    BY DEF RemoveAll
  <1>3. \/ out.tree = tree
        \/ l.err = "ok" /\ Exists(tree, l.at) /\ out.tree = RemoveTree(tree, l.at, Clock)
    BY <1>2 DEF RemoveLocated, Outcome
  <1>4. CASE out.tree = tree
    BY <1>4, Unchanged
  <1>5. CASE l.err = "ok" /\ Exists(tree, l.at) /\ out.tree = RemoveTree(tree, l.at, Clock)
    <2>1. PICK at, left : at = l.at /\ left = out.tree
      OBVIOUS
    <2>2. at \in DOMAIN tree /\ at # << >> /\ left = RemoveTree(tree, at, Clock)
      BY <1>1, <1>5, <2>1 DEF Exists
    <2>3. Extracted(tree, left)
      BY <2>2, RemovedType
    <2>4. QED
      BY <1>5, <2>1, <2>2, <2>3
  <1>6. QED
    BY <1>3, <1>4, <1>5

\* chtimes through whatever links the path meets.
LEMMA ChtimesType ==
    ASSUME NEW tree, IsTree(tree), NEW p \in Seq(Part), NEW time \in Nat,
           NEW out, out = chtimes(tree, p, time)
    PROVE  Extracted(tree, out.tree) /\ Grown(tree, out.tree, {})
  <1>. DEFINE stat == Stat(tree, p)
  <1>1. stat.at \in DOMAIN tree
    BY StatType
  <1>2. out = SetTime(tree, stat, time)
    BY DEF chtimes
  <1>. HIDE DEF stat
  <1>3. \/ out.tree = tree
        \/ out.tree = SetMeta(tree, stat.at, tree[stat.at].owner, time)
    BY <1>2 DEF SetTime, Outcome
  <1>4. tree[stat.at].owner \in Nat
    BY <1>1, TreePaths DEF NodeType
  <1>5. CASE out.tree = tree
    BY <1>5, Unchanged
  <1>6. CASE out.tree = SetMeta(tree, stat.at, tree[stat.at].owner, time)
    <2>1. /\ IsTree(out.tree) /\ DOMAIN out.tree = DOMAIN tree
          /\ \A q \in DOMAIN tree : /\ out.tree[q].kind = tree[q].kind
                                    /\ out.tree[q].by = tree[q].by
      BY <1>4, <1>6, SetMetaType
    <2>2. QED
      BY <2>1 DEF Extracted, Marks, Grown
  <1>7. QED
    BY <1>3, <1>5, <1>6

-----------------------------------------------------------------------------
(* Inodes.  No operation gives a node another kind, link or inode.          *)

Alike(old, new, p) ==
    new[p].kind = old[p].kind /\ new[p].link = old[p].link /\ new[p].ino = old[p].ino

\* Touching a directory.
LEMMA TouchAlike ==
    ASSUME NEW tree, IsTree(tree), NEW at, NEW clock
    PROVE  \A p \in DOMAIN tree : Alike(tree, Touch(tree, at, clock), p)
  <1>. DEFINE touched == Touch(tree, at, clock)
  <1>1. SUFFICES ASSUME NEW p \in DOMAIN tree PROVE Alike(tree, touched, p)
    OBVIOUS
  <1>2. touched[p] \in {tree[p], [tree[p] EXCEPT !.time = clock]}
    BY DEF Touch
  <1>. HIDE DEF touched
  <1>3. tree[p] \in NodeType
    BY TreePaths
  <1>4. PICK node, other : node = tree[p] /\ other = touched[p]
    OBVIOUS
  <1>5. other.kind = node.kind /\ other.link = node.link /\ other.ino = node.ino
    BY <1>2, <1>3, <1>4 DEF NodeType
  <1>6. QED
    BY <1>4, <1>5 DEF Alike

Added(tree, at, node, put) ==
    /\ DOMAIN put = DOMAIN tree \union {at} /\ put[at] = node
    /\ \A p \in DOMAIN tree \ {at} : Alike(tree, put, p)

\* A new name.
LEMMA PutNodeAlike ==
    ASSUME NEW tree, IsTree(tree), NEW at, NEW node, NEW clock,
           NEW put, put = PutNode(tree, at, node, clock)
    PROVE  Added(tree, at, node, put)
  <1>. DEFINE touched == Touch(tree, at, clock)
  <1>1. put = [p \in DOMAIN tree \union {at} |-> IF p = at THEN node ELSE touched[p]]
    BY DEF PutNode
  <1>2. \A p \in DOMAIN tree : Alike(tree, touched, p)
    BY TouchAlike
  <1>. HIDE DEF touched
  <1>3. QED
    BY <1>1, <1>2 DEF Alike, Added

\* A subtree removed.
LEMMA RemoveTreeAlike ==
    ASSUME NEW tree, IsTree(tree), NEW at, NEW clock,
           NEW left, left = RemoveTree(tree, at, clock)
    PROVE  \A p \in DOMAIN left : p \in DOMAIN tree /\ Alike(tree, left, p)
  <1>. DEFINE touched == Touch(tree, at, clock)
  <1>1. left = [p \in {q \in DOMAIN tree : ~Under(at, q)} |-> touched[p]]
    BY DEF RemoveTree
  <1>2. \A p \in DOMAIN tree : Alike(tree, touched, p)
    BY TouchAlike
  <1>. HIDE DEF touched
  <1>3. QED
    BY <1>1, <1>2 DEF Alike

\* Owners and times.
LEMMA SetMetaAlike ==
    ASSUME NEW tree, \A p \in DOMAIN tree : tree[p] \in NodeType,
           NEW at, NEW owner, NEW time, NEW set, set = SetMeta(tree, at, owner, time)
    PROVE  DOMAIN set = DOMAIN tree /\ \A p \in DOMAIN tree : Alike(tree, set, p)
  <1>1. DOMAIN set = DOMAIN tree
    BY DEF SetMeta
  <1>2. ASSUME NEW p \in DOMAIN tree PROVE Alike(tree, set, p)
    <2>1. set[p] \in {tree[p], [tree[p] EXCEPT !.owner = owner, !.time = time]}
      BY DEF SetMeta
    <2>2. PICK node, other : node = tree[p] /\ other = set[p]
      OBVIOUS
    <2>3. other.kind = node.kind /\ other.link = node.link /\ other.ino = node.ino
      <3>1. other \in {node, [node EXCEPT !.owner = owner, !.time = time]}
        BY <2>1, <2>2
      <3>2. node \in NodeType
        BY <2>2
      <3>3. QED
        BY <3>1, <3>2 DEF NodeType
    <2>4. QED
      BY <2>2, <2>3 DEF Alike
  <1>3. QED
    BY <1>1, <1>2

\* What an entry writes over.
LEMMA StampAlike ==
    ASSUME NEW tree, IsTree(tree), NEW at \in DOMAIN tree, NEW hdr \in Header,
           NEW set, set = Stamp(tree, at, hdr)
    PROVE  DOMAIN set = DOMAIN tree /\ \A p \in DOMAIN tree : Alike(tree, set, p)
  <1>. DEFINE marked == [tree EXCEPT ![at].by = hdr.by]
  <1>1. PICK owner : set = SetMeta(marked, at, owner, hdr.time)
    BY DEF Stamp
  <1>2. /\ DOMAIN marked = DOMAIN tree
        /\ \A p \in DOMAIN tree : marked[p] \in {tree[p], [tree[p] EXCEPT !.by = hdr.by]}
    OBVIOUS
  <1>. HIDE DEF marked
  <1>3. ASSUME NEW p \in DOMAIN tree PROVE Alike(tree, marked, p) /\ marked[p] \in NodeType
    <2>1. PICK node, other, by : node = tree[p] /\ other = marked[p] /\ by = hdr.by
      OBVIOUS
    <2>2. node \in NodeType /\ by \in Nat
      BY <2>1, TreePaths DEF Header
    <2>3. other \in {node, [node EXCEPT !.by = by]}
      BY <1>2, <2>1
    <2>4. other.kind = node.kind /\ other.link = node.link /\ other.ino = node.ino
      BY <2>2, <2>3 DEF NodeType
    <2>5. other \in NodeType
      BY <2>2, <2>3 DEF NodeType
    <2>6. QED
      BY <2>1, <2>4, <2>5 DEF Alike
  <1>4. PICK time : time = hdr.time
    OBVIOUS
  <1>5. DOMAIN set = DOMAIN marked /\ \A p \in DOMAIN marked : Alike(marked, set, p)
    BY <1>1, <1>2, <1>3, <1>4, SetMetaAlike
  <1>6. QED
    BY <1>2, <1>3, <1>5 DEF Alike

-----------------------------------------------------------------------------
(* What a call adds: at most one node, at a given path.  Its inode and link *)
(* are given ones or those of a node that is no directory.                  *)

Known(old, new, p) == p \in DOMAIN old /\ Alike(old, new, p)

Fresh(node, ino, link) == node.ino = ino /\ node.link \in {link, NoLink}

Linked(old, node) ==
    /\ node.kind # "dir"
    /\ \E q \in DOMAIN old : /\ ~IsDir(old, q)
                             /\ node.ino = old[q].ino /\ node.link = old[q].link

Joins(old, new, at, ino, link) ==
    \A p \in DOMAIN new :
        Known(old, new, p) \/ (p = at /\ (Fresh(new[p], ino, link) \/ Linked(old, new[p])))

JoinsInode(old, new, ino) == \E at, link : Joins(old, new, at, ino, link)

\* A directory has one name.
DirInodes(tree) ==
    \A p, q \in DOMAIN tree : IsDir(tree, p) /\ tree[p].ino = tree[q].ino => p = q

\* Every link leads by these names only.
LinksWithin(tree, S) == \A p \in DOMAIN tree : tree[p].link.to \in Seq(S)

\* If the inode is a new one, a directory still has one name, and the inodes are
\* those that were and the new one.
LEMMA JoinsKeeps ==
    ASSUME NEW old, NEW new, NEW ino, DirInodes(old), JoinsInode(old, new, ino),
           \A q \in DOMAIN old : old[q].ino # ino
    PROVE  /\ DirInodes(new)
           /\ \A p \in DOMAIN new : new[p].ino = ino \/ \E q \in DOMAIN old : new[p].ino = old[q].ino
  <1>1. PICK at : \A p \in DOMAIN new :
           Known(old, new, p) \/ (p = at /\ (new[p].ino = ino \/ Linked(old, new[p])))
    BY DEF JoinsInode, Joins, Fresh
  <1>2. ASSUME NEW p \in DOMAIN new, NEW q \in DOMAIN new, IsDir(new, p),
               new[p].ino = new[q].ino
        PROVE  p = q
    <2>1. ~Linked(old, new[p])
      BY <1>2 DEF Linked, IsDir
    <2>2. CASE Known(old, new, p) /\ Known(old, new, q)
      BY <1>2, <2>2 DEF Known, Alike, DirInodes, IsDir, Exists
    <2>3. CASE Known(old, new, p) /\ ~Known(old, new, q)
      <3>1. IsDir(old, p) /\ old[p].ino = new[q].ino
        BY <1>2, <2>3 DEF Known, Alike, IsDir, Exists
      <3>2. Linked(old, new[q])
        BY <1>1, <2>3, <3>1 DEF Known, Alike
      <3>3. PICK r \in DOMAIN old : ~IsDir(old, r) /\ new[q].ino = old[r].ino
        BY <3>2 DEF Linked
      <3>4. p = r
        BY <2>3, <3>1, <3>3 DEF DirInodes, Known, Alike
      <3>5. QED
        BY <3>1, <3>3, <3>4
    <2>4. CASE ~Known(old, new, p)
      <3>1. p = at /\ new[p].ino = ino
        BY <1>1, <2>1, <2>4
      <3>2. ~Known(old, new, q)
        BY <1>2, <3>1 DEF Known, Alike
      <3>3. QED
        BY <1>1, <3>1, <3>2
    <2>5. QED
      BY <2>2, <2>3, <2>4
  <1>3. DirInodes(new)
    BY <1>2 DEF DirInodes
  <1>4. QED
    BY <1>1, <1>3 DEF Known, Alike, Linked

\* Nothing is added.
LEMMA JoinsAlike ==
    ASSUME NEW old, NEW new, NEW at, NEW ino, NEW link,
           \A p \in DOMAIN new : p \in DOMAIN old /\ Alike(old, new, p)
    PROVE  Joins(old, new, at, ino, link)
  BY DEF Joins, Known

\* A tree that stays as it is.
LEMMA JoinsSame ==
    ASSUME NEW tree, NEW at, NEW ino, NEW link
    PROVE  Joins(tree, tree, at, ino, link)
  BY DEF Joins, Known, Alike

\* A node with the inode.
LEMMA JoinsPut ==
    ASSUME NEW tree, IsTree(tree), NEW at, NEW node, NEW clock,
           NEW put, put = PutNode(tree, at, node, clock),
           NEW ino, NEW link, Fresh(node, ino, link)
    PROVE  Joins(tree, put, at, ino, link)
  <1>1. Added(tree, at, node, put)
    BY PutNodeAlike
  <1>2. QED
    BY <1>1 DEF Added, Known, Joins

\* Mkdir, Mknod and Symlink.
LEMMA JoinsNew ==
    ASSUME NEW tree, IsTree(tree), NEW l, NEW hdr, NEW kind, NEW link,
           NEW out, out = MakeNew(tree, l, hdr, kind, link), link \in {hdr.link, NoLink}
    PROVE  Joins(tree, out.tree, l.at, Inode(hdr, l.at), hdr.link)
  <1>. DEFINE node == New(hdr, l.at, kind, link)
  <1>1. \/ out.tree = tree
        \/ out.tree = PutNode(tree, l.at, node, Clock)
    BY DEF MakeNew, Outcome
  <1>2. Fresh(node, Inode(hdr, l.at), hdr.link)
    BY DEF New, Node, Fresh
  <1>. HIDE DEF node
  <1>3. PICK put, at, ino, to :
            put = out.tree /\ at = l.at /\ ino = Inode(hdr, l.at) /\ to = hdr.link
    OBVIOUS
  <1>4. Joins(tree, put, at, ino, to)
    BY <1>1, <1>2, <1>3, JoinsPut, JoinsSame
  <1>5. QED
    BY <1>3, <1>4

\* A hard link.
LEMMA JoinsLink ==
    ASSUME NEW tree, IsTree(tree), NEW l, Located(tree, l), NEW hdr \in Header,
           NEW from, from.err = "ok" => from.at \in DOMAIN tree,
           NEW out, out = LinkFrom(tree, l, hdr, from), NEW ino, NEW link
    PROVE  Joins(tree, out.tree, l.at, ino, link)
  <1>. DEFINE node == tree[from.at]
              linked == PutNode(tree, l.at, node, Clock)
              header == IF node.kind = "sym" THEN [hdr EXCEPT !.time = node.time] ELSE hdr
  <1>1. CASE /\ from.err = "ok" /\ ~IsDir(tree, from.at)
             /\ l.err = "ok" /\ ~Exists(tree, l.at)
    <2>1. node \in NodeType /\ node.kind # "dir"
      BY <1>1, TreePaths DEF IsDir, Exists
    <2>2. out.tree = Stamp(linked, l.at, header)
      BY <1>1 DEF LinkFrom, Outcome
    <2>3. header \in Header
      <3>1. node.time \in Nat
        BY <2>1 DEF NodeType
      <3>2. QED
        BY <3>1, HeaderExcept
    <2>. HIDE DEF header
    <2>4. PICK at, put, set, file : /\ at = l.at /\ put = linked /\ set = out.tree
                                    /\ file = node
      OBVIOUS
    <2>5. /\ at \in Seq(Name) /\ at # << >> /\ IsDir(tree, Front(at))
          /\ at \notin DOMAIN tree
      BY <1>1, <2>4 DEF Located, Exists
    <2>6. put = PutNode(tree, at, file, Clock) /\ file \in NodeType /\ Clock \in Nat
      BY <2>1, <2>4, ExtractAssumption
    <2>7. \E q \in DOMAIN tree : ~IsDir(tree, q) /\ file = tree[q]
      BY <1>1, <2>4
    <2>. HIDE DEF linked, node
    <2>8. PutAt(tree, at, file, put)
      BY <2>5, <2>6, PutNodeType
    <2>9. Added(tree, at, file, put)
      BY <2>6, PutNodeAlike
    <2>10. DOMAIN set = DOMAIN put /\ \A p \in DOMAIN put : Alike(put, set, p)
      <3>1. set = Stamp(put, at, header) /\ at \in DOMAIN put /\ IsTree(put)
        BY <2>2, <2>4, <2>8, <2>9 DEF PutAt, Added
      <3>2. QED
        BY <2>3, <3>1, StampAlike
    <2>11. \A p \in DOMAIN set : Known(tree, set, p) \/ (p = at /\ Linked(tree, set[p]))
      <3>1. \A p \in DOMAIN tree \ {at} : Known(tree, set, p)
        BY <2>9, <2>10 DEF Added, Known, Alike
      <3>2. set[at].kind = file.kind /\ set[at].ino = file.ino /\ set[at].link = file.link
        BY <2>9, <2>10 DEF Added, Alike
      <3>3. Linked(tree, set[at])
        BY <2>1, <2>4, <2>7, <3>2 DEF Linked
      <3>4. QED
        BY <2>9, <2>10, <3>1, <3>3 DEF Added
    <2>12. QED
      BY <2>4, <2>11 DEF Joins
  <1>2. CASE ~(/\ from.err = "ok" /\ ~IsDir(tree, from.at)
               /\ l.err = "ok" /\ ~Exists(tree, l.at))
    <2>1. out.tree = tree
      BY <1>2 DEF LinkFrom, Outcome
    <2>2. QED
      BY <2>1, JoinsSame
  <1>3. QED
    BY <1>1, <1>2

\* Links lead by the names they led by, if the new one does.
LEMMA JoinsWithin ==
    ASSUME NEW old, NEW new, NEW at, NEW ino, NEW link, Joins(old, new, at, ino, link),
           NEW S, LinksWithin(old, S), link.to \in Seq(S)
    PROVE  LinksWithin(new, S)
  <1>1. NoLink.to \in Seq(S)
    BY DEF NoLink
  <1>2. QED
    BY <1>1 DEF LinksWithin, Joins, Known, Alike, Fresh, Linked

\* The target of a hard link is a node of the tree.
LEMMA TargetThere ==
    ASSUME NEW tree, IsTree(tree), NEW to \in Seq(Part),
           NEW from, from = TargetOf(tree, resolveHardlinkTarget(tree, to))
    PROVE  from.err = "ok" => from.at \in DOMAIN tree
  <1>. DEFINE target == resolveHardlinkTarget(tree, to)
  <1>1. ASSUME target.err = "ok" PROVE Front(target.path) \in Seq(Part)
    <2>1. to # << >> /\ target = resolveArchivePath(tree, to)
      BY <1>1 DEF resolveHardlinkTarget, Resolved
    <2>2. Name \subseteq Part /\ Front(to) \in Seq(Part)
      BY <2>1, FrontProperties DEF Part
    <2>3. Front(target.path) \in Seq(Name) \union {Front(to)}
      BY <1>1, <2>1, <2>2, ResolvedType
    <2>4. QED
      BY <2>2, <2>3
  <1>. HIDE DEF target
  <1>2. from = TargetOf(tree, target)
    BY DEF target
  <1>3. CASE target.err = "ok"
    <2>1. from = Lstat(tree, target.path)
      BY <1>2, <1>3 DEF TargetOf
    <2>2. QED
      BY <1>1, <1>3, <2>1, LstatType
  <1>4. CASE target.err # "ok"
    BY <1>2, <1>4 DEF TargetOf, At
  <1>5. QED
    BY <1>3, <1>4

\* createTarFile: the inode is of the entry and of where it lies.
LEMMA CreateJoins ==
    ASSUME NEW tree, IsTree(tree), NEW dstPath, Front(dstPath) \in Seq(Part),
           NEW hdr \in Header, hdr.type \in {"dir", "reg", "dev", "sym", "link"},
           NEW out, out = createTarFile(tree, dstPath, hdr)
    PROVE  LET at == Locate(tree, dstPath).at
           IN  Joins(tree, out.tree, at, Inode(hdr, at), hdr.link)
  <1>. DEFINE l == Locate(tree, dstPath)
  <1>1. Located(tree, l)
    BY LocateType DEF Located
  <1>2. out = CreateAt(tree, l, hdr)
    BY DEF createTarFile
  <1>. HIDE DEF l
  <1>3. CASE \/ hdr.type \in {"dev", "sym"}
             \/ hdr.type = "dir" /\ ~(l.err = "ok" /\ IsDir(tree, l.at))
             \/ hdr.type = "reg" /\ ~(l.err = "ok" /\ Exists(tree, l.at))
    <2>1. \/ out.tree = tree
          \/ \E kind : \E link \in {hdr.link, NoLink} : out = MakeNew(tree, l, hdr, kind, link)
      BY <1>2, <1>3 DEF CreateAt, MakeDir, WriteFile, Outcome
    <2>2. QED
      BY <2>1, JoinsNew, JoinsSame DEF l
  <1>4. CASE \/ hdr.type = "dir" /\ l.err = "ok" /\ IsDir(tree, l.at)
             \/ hdr.type = "reg" /\ l.err = "ok" /\ Exists(tree, l.at)
    <2>1. \/ out.tree = tree
          \/ out.tree = Stamp(tree, l.at, hdr)
      BY <1>2, <1>4 DEF CreateAt, MakeDir, WriteFile, Outcome
    <2>2. PICK at, set, link : at = l.at /\ set = out.tree /\ link = hdr.link
      OBVIOUS
    <2>3. at \in DOMAIN tree
      BY <1>4, <2>2 DEF IsDir, Exists
    <2>4. set = Stamp(tree, at, hdr) => Joins(tree, set, at, Inode(hdr, at), link)
      BY <2>3, StampAlike, JoinsAlike
    <2>5. QED
      BY <2>1, <2>2, <2>4, JoinsSame DEF l
  <1>5. CASE hdr.type = "link"
    <2>. DEFINE from == TargetOf(tree, resolveHardlinkTarget(tree, hdr.link.to))
    <2>1. out = LinkFrom(tree, l, hdr, from)
      BY <1>2, <1>5 DEF CreateAt, MakeLink
    <2>2. hdr.link.to \in Seq(Part)
      BY DEF Header, LinkType
    <2>3. from.err = "ok" => from.at \in DOMAIN tree
      BY <2>2, TargetThere
    <2>. HIDE DEF from
    <2>4. PICK ino, link : ino = Inode(hdr, l.at) /\ link = hdr.link
      OBVIOUS
    <2>5. Joins(tree, out.tree, l.at, ino, link)
      BY <1>1, <2>1, <2>3, JoinsLink
    <2>6. QED
      BY <2>4, <2>5 DEF l
  <1>6. QED
    BY <1>3, <1>4, <1>5

\* One pass of createImpliedDirectories.
LEMMA ImpliedJoins ==
    ASSUME NEW tree, IsTree(tree), NEW cur, NEW hdr, NEW out, out = mkdirImplied(tree, cur, hdr)
    PROVE  LET at == Locate(tree, cur).at
           IN  Joins(tree, out.tree, at, Inode(hdr, at), NoLink)
  <1>. DEFINE l == Locate(tree, cur)
              ino == Inode(hdr, l.at)
              owner == IF NoLchown THEN Process ELSE RootID
              node == Node("dir", NoLink, ino, hdr.by, Clock, owner)
  <1>1. out = ImpliedAt(tree, l, Stat(tree, cur), hdr)
    BY DEF mkdirImplied
  <1>2. Fresh(node, ino, NoLink)
    BY DEF Node, Fresh
  <1>3. \/ out.tree = tree
        \/ out.tree = PutNode(tree, l.at, node, Clock)
    BY <1>1 DEF ImpliedAt, Outcome
  <1>. HIDE DEF node, l
  <1>4. PICK put, at, i, link : put = out.tree /\ at = l.at /\ i = ino /\ link = NoLink
    OBVIOUS
  <1>5. Joins(tree, put, at, i, link)
    BY <1>2, <1>3, <1>4, JoinsPut, JoinsSame
  <1>6. QED
    BY <1>4, <1>5 DEF l

\* A call on a directory that is not found makes nothing.
LEMMA NothingMade ==
    ASSUME NEW tree, NEW path, Locate(tree, path).err # "ok", NEW h
    PROVE  /\ mkdirImplied(tree, path, h) = Outcome(Locate(tree, path).err, tree)
           /\ h.type \in {"dir", "reg", "dev", "sym", "link"} =>
                 createTarFile(tree, path, h).tree = tree
  <1>. DEFINE l == Locate(tree, path)
  <1>1. mkdirImplied(tree, path, h) = Outcome(l.err, tree)
    BY DEF mkdirImplied, ImpliedAt
  <1>2. \A kind, link : MakeNew(tree, l, h, kind, link).tree = tree
    BY DEF MakeNew, Outcome
  <1>. HIDE DEF l
  <1>3. h.type \in {"dir", "reg", "dev", "sym"} => CreateAt(tree, l, h).tree = tree
    <2>1. l.err # "ok"
      BY DEF l
    <2>2. QED
      BY <1>2, <2>1 DEF CreateAt, MakeDir, WriteFile, Outcome
  <1>4. h.type = "link" => CreateAt(tree, l, h).tree = tree
    <2>. DEFINE from == TargetOf(tree, resolveHardlinkTarget(tree, h.link.to))
    <2>1. h.type = "link" => CreateAt(tree, l, h) = LinkFrom(tree, l, h, from)
      BY DEF CreateAt, MakeLink
    <2>2. l.err # "ok"
      BY DEF l
    <2>. HIDE DEF from
    <2>3. LinkFrom(tree, l, h, from).tree = tree
      BY <2>2 DEF LinkFrom, Outcome
    <2>4. QED
      BY <2>1, <2>3
  <1>5. QED
    BY <1>1, <1>3, <1>4 DEF createTarFile, l

-----------------------------------------------------------------------------
(* The inodes an archive's entries make: an entry's position in the archive *)
(* and how deep the node lies.                                              *)

\* Every inode is one of the first n entries, or was there before them.
Numbers(tree, n) == DirInodes(tree) /\ \A p \in DOMAIN tree : tree[p].ino[1] <= n

\* What entry n has made lies less than k deep.
Shallow(tree, n, k) == \A p \in DOMAIN tree : tree[p].ino[1] = n => tree[p].ino[2] < k

\* The numbers of an inode.
LEMMA InodeType ==
    ASSUME NEW tree, IsTree(tree), NEW p \in DOMAIN tree
    PROVE  tree[p].ino[1] \in Nat /\ tree[p].ino[2] \in Nat
  <1>1. tree[p].ino \in Nat \X Nat
    BY TreePaths DEF NodeType
  <1>2. QED
    BY <1>1

\* Nodes that stay what they are keep their inodes.
LEMMA NumbersAlike ==
    ASSUME NEW old, IsTree(old), NEW new,
           \A p \in DOMAIN new : p \in DOMAIN old /\ Alike(old, new, p),
           NEW n \in Nat, NEW k \in Nat, Numbers(old, n)
    PROVE  /\ Numbers(new, n)
           /\ Numbers(new, n + 1) /\ \A i : Shallow(new, n + 1, i)
           /\ Shallow(old, n, k) => \A i \in Nat : i >= k => Shallow(new, n, i)
  <1>1. DirInodes(new)
    BY DEF Numbers, DirInodes, Alike, IsDir, Exists
  <1>2. ASSUME NEW p \in DOMAIN new
        PROVE  /\ p \in DOMAIN old /\ new[p].ino = old[p].ino
               /\ new[p].ino[1] \in Nat /\ new[p].ino[2] \in Nat /\ new[p].ino[1] <= n
    <2>1. p \in DOMAIN old /\ new[p].ino = old[p].ino
      BY DEF Alike
    <2>2. QED
      BY <2>1, InodeType DEF Numbers
  <1>3. \A p \in DOMAIN new : new[p].ino[1] <= n + 1 /\ new[p].ino[1] # n + 1
    BY <1>2
  <1>4. ASSUME Shallow(old, n, k), NEW i \in Nat, i >= k, NEW p \in DOMAIN new,
               new[p].ino[1] = n
        PROVE  new[p].ino[2] < i
    <2>1. old[p].ino[2] < k
      BY <1>2, <1>4 DEF Shallow
    <2>2. QED
      BY <1>2, <1>4, <2>1
  <1>5. QED
    BY <1>1, <1>2, <1>3, <1>4 DEF Numbers, Shallow

\* A node the entry makes deeper than those it has made before.
LEMMA NumbersJoins ==
    ASSUME NEW old, IsTree(old), NEW new, NEW n \in Nat, NEW k \in Nat,
           Numbers(old, n), Shallow(old, n, k), NEW ino, JoinsInode(old, new, ino),
           ino[1] = n, ino[2] \in Nat, ino[2] >= k
    PROVE  Numbers(new, n) /\ Shallow(new, n, ino[2] + 1)
  <1>1. ASSUME NEW q \in DOMAIN old
        PROVE  /\ old[q].ino # ino /\ old[q].ino[1] <= n
               /\ old[q].ino[1] = n => old[q].ino[2] < ino[2] + 1
    <2>1. PICK i, j \in Nat : i = old[q].ino[1] /\ j = old[q].ino[2]
      BY InodeType
    <2>2. i <= n /\ (i = n => j < k)
      BY <2>1 DEF Numbers, Shallow
    <2>3. PICK m \in Nat : m = ino[2]
      OBVIOUS
    <2>4. i = n => j < m + 1 /\ j # m
      BY <2>2, <2>3
    <2>5. QED
      BY <2>1, <2>2, <2>3, <2>4
  <1>2. /\ DirInodes(new)
        /\ \A p \in DOMAIN new : new[p].ino = ino \/ \E q \in DOMAIN old : new[p].ino = old[q].ino
    BY <1>1, JoinsKeeps DEF Numbers
  <1>3. ASSUME NEW p \in DOMAIN new
        PROVE  new[p].ino[1] <= n /\ (new[p].ino[1] = n => new[p].ino[2] < ino[2] + 1)
    BY <1>1, <1>2
  <1>4. QED
    BY <1>2, <1>3 DEF Numbers, Shallow

-----------------------------------------------------------------------------
(* A lookup sees kinds and links only: owners and times do not lead it      *)
(* elsewhere.                                                               *)

\* Every step of one lookup is the step of the other.
LEMMA WalkAlike ==
    ASSUME NEW old, NEW new, DOMAIN new = DOMAIN old,
           \A p \in DOMAIN old : Alike(old, new, p),
           NEW path, NEW scoped \in BOOLEAN, NEW follow \in BOOLEAN
    PROVE  Walk(new, path, scoped, follow) = Walk(old, path, scoped, follow)
  <1>. DEFINE v == WalkFcn(old, path, scoped, follow, MaxSteps)
              w == WalkFcn(new, path, scoped, follow, MaxSteps)
              T == {i \in Nat : i \in 0..MaxSteps => w[i] = v[i]}
  <1>1. ASSUME NEW s PROVE WalkNext(new, scoped, follow, s) = WalkNext(old, scoped, follow, s)
    <2>1. WalkStep(new, scoped, follow, s) = WalkStep(old, scoped, follow, s)
      BY DEF WalkStep, Alike, Exists
    <2>2. QED
      BY <2>1 DEF WalkNext
  <1>2. MaxSteps \in Nat
    BY RootFsAssumption
  <1>3. /\ v = [i \in 0..MaxSteps |-> IF i = 0 THEN WalkStart(path)
                                      ELSE WalkNext(old, scoped, follow, v[i-1])]
        /\ w = [i \in 0..MaxSteps |-> IF i = 0 THEN WalkStart(path)
                                      ELSE WalkNext(new, scoped, follow, w[i-1])]
    BY <1>2, WalkDefined
  <1>. HIDE DEF v, w
  <1>4. 0 \in T
    BY <1>2, <1>3
  <1>5. ASSUME NEW i \in T PROVE i + 1 \in T
    <2>1. SUFFICES ASSUME i + 1 \in 0..MaxSteps PROVE w[i+1] = v[i+1]
      OBVIOUS
    <2>2. i \in 0..MaxSteps /\ i + 1 # 0 /\ (i + 1) - 1 = i
      BY <1>2, <2>1
    <2>3. w[i] = v[i]
      BY <2>2
    <2>4. /\ v[i+1] = WalkNext(old, scoped, follow, v[i])
          /\ w[i+1] = WalkNext(new, scoped, follow, w[i])
      BY <1>3, <2>1, <2>2
    <2>5. QED
      BY <1>1, <2>3, <2>4
  <1>6. T = Nat
    <2>1. T \in SUBSET Nat
      OBVIOUS
    <2>. HIDE DEF T
    <2>2. QED
      BY <1>4, <1>5, <2>1, SetInduction
  <1>7. w[MaxSteps] = v[MaxSteps]
    BY <1>2, <1>6
  <1>8. QED
    BY <1>7, WalkFunction DEF v, w

\* So Stat finds the same.
LEMMA StatAlike ==
    ASSUME NEW old, NEW new, DOMAIN new = DOMAIN old,
           \A p \in DOMAIN old : Alike(old, new, p), NEW path
    PROVE  Stat(new, path) = Stat(old, path)
  <1>1. PICK scoped \in BOOLEAN, follow \in BOOLEAN : scoped = FALSE /\ follow = TRUE
    OBVIOUS
  <1>2. Walk(new, path, scoped, follow) = Walk(old, path, scoped, follow)
    BY WalkAlike
  <1>3. QED
    BY <1>1, <1>2 DEF Stat

\* A path free of links stays free of them.
LEMMA NoLinksAlike ==
    ASSUME NEW old, NEW new, NEW path, NoLinks(old, path),
           \A p \in DOMAIN new : p \in DOMAIN old /\ Alike(old, new, p)
    PROVE  NoLinks(new, path)
  BY DEF NoLinks, Alike

\* Also when directories are made.
LEMMA NoLinksGrown ==
    ASSUME NEW old, NEW new, NEW path, NoLinks(old, path), Grown(old, new, {"dir"})
    PROVE  NoLinks(new, path)
  BY DEF NoLinks, Grown

\* The parents on a path free of links are such paths.
LEMMA NoLinksPart ==
    ASSUME NEW tree, NEW path \in Seq(Name), NoLinks(tree, path), NEW k \in 0..Len(path)
    PROVE  SubSeq(path, 1, k) \in Seq(Name) /\ NoLinks(tree, SubSeq(path, 1, k))
  <1>1. SubSeq(path, 1, k) \in Seq(Name) /\ Len(SubSeq(path, 1, k)) = k
    OBVIOUS
  <1>2. ASSUME NEW i \in 1..k
        PROVE  i \in 1..Len(path) /\ SubSeq(SubSeq(path, 1, k), 1, i) = SubSeq(path, 1, i)
    OBVIOUS
  <1>3. QED
    BY <1>1, <1>2 DEF NoLinks

\* What is made on a path free of links lies at that path.
LEMMA LocateNoLink ==
    ASSUME NEW tree, IsTree(tree), NEW p \in Seq(Name), p # << >>, NoLinks(tree, Front(p)),
           Locate(tree, p).err = "ok"
    PROVE  Locate(tree, p).at = p
  <1>1. Front(p) \in Seq(Name) /\ Append(Front(p), Last(p)) = p
    BY FrontLast, FrontProperties
  <1>2. DirOf(tree, Front(p)).err = "ok" /\ Locate(tree, p).at = Append(DirOf(tree, Front(p)).at, Last(p))
    BY DEF Locate, Inside, At
  <1>3. IsDir(tree, Front(p))
    BY <1>1, <1>2, DirOfNoLink
  <1>4. Front(p) \in Seq(Part)
    BY <1>1 DEF Part
  <1>5. DirOf(tree, Front(p)) = At("ok", Front(p))
    BY <1>3, <1>4, DirOfType
  <1>6. QED
    BY <1>1, <1>2, <1>5 DEF At
-----------------------------------------------------------------------------
(* Names a lookup does not meet.  When neither a path nor a link uses a     *)
(* name, no lookup of the path comes to a file of that name.                *)

\* A lookup that has met these names only.
Within(s, S) == s.at \in Seq(S) /\ s.rest \in Seq(S)

\* One component of a lookup keeps to the names.
LEMMA WithinStep ==
    ASSUME NEW tree, NEW S, LinksWithin(tree, S),
           NEW scoped \in BOOLEAN, NEW follow \in BOOLEAN,
           NEW s \in WalkState, Within(s, S), s.rest # << >>,
           NEW next, next = WalkStep(tree, scoped, follow, s)
    PROVE  Within(next, S)
  <1>0. PICK part, here : part = Head(s.rest) /\ here = Append(s.at, part)
    OBVIOUS
  <1>1. s.at \in Seq(S) /\ s.rest \in Seq(S) /\ << >> \in Seq(S)
    BY DEF Within
  <1>2. part \in S /\ Tail(s.rest) \in Seq(S)
    BY <1>0, <1>1
  <1>3. here \in Seq(S)
    BY <1>0, <1>1, <1>2
  <1>4. s.at # << >> => Front(s.at) \in Seq(S)
    BY <1>1, FrontProperties
  <1>5. part \in Part
    BY <1>0 DEF WalkState
  <1>6. Stepped(tree, scoped, follow, s, part, here, next)
    BY <1>0, WalkStepFields
  <1>7. CASE \/ next.at \in {s.at, here, << >>} /\ next.rest \in {s.rest, Tail(s.rest)}
             \/ s.at # << >> /\ next.at = Front(s.at) /\ next.rest = Tail(s.rest)
    BY <1>1, <1>2, <1>3, <1>4, <1>7 DEF Within
  <1>8. CASE here \in DOMAIN tree /\ Follows(s, next, tree[here].link)
    <2>1. PICK to : to = tree[here].link.to
      OBVIOUS
    <2>2. to \in Seq(S)
      BY <1>8, <2>1 DEF LinksWithin
    <2>3. next.rest = to \o Tail(s.rest) /\ next.at \in {s.at, << >>}
      BY <1>8, <2>1 DEF Follows, StateIs
    <2>4. to \o Tail(s.rest) \in Seq(S)
      BY <1>2, <2>2, ConcatProperties
    <2>5. QED
      BY <1>1, <2>3, <2>4 DEF Within
  <1>9. QED
    BY <1>5, <1>6, <1>7, <1>8 DEF Stepped, StepsOn, StopsWith, StateIs, Part, Exists

\* So a lookup ends at a path of such names.
LEMMA WalkWithin ==
    ASSUME NEW tree, IsTree(tree), NEW S, LinksWithin(tree, S),
           NEW path \in Seq(Part), path \in Seq(S),
           NEW scoped \in BOOLEAN, NEW follow \in BOOLEAN
    PROVE  Walk(tree, path, scoped, follow).at \in Seq(S)
  <1>. DEFINE I == {s \in WalkState : OnTree(tree, scoped, s) /\ Within(s, S)}
  <1>1. WalkStart(path) \in I
    <2>1. /\ WalkStart(path).at = << >> /\ WalkStart(path).rest = path
          /\ << >> \in DOMAIN tree /\ << >> \in Seq(S)
      BY DEF WalkStart, IsTree, WellFormed
    <2>2. QED
      BY <2>1, WalkStartType DEF OnTree, Within
  <1>2. ASSUME NEW s \in I, s.rest # << >> PROVE WalkStep(tree, scoped, follow, s) \in I
    <2>0. PICK next : next = WalkStep(tree, scoped, follow, s)
      OBVIOUS
    <2>1. Within(next, S)
      BY <1>2, <2>0, WithinStep
    <2>2. OnTree(tree, scoped, next)
      BY <1>2, <2>0, WalkStepType
    <2>3. QED
      BY <2>0, <2>1, <2>2 DEF OnTree
  <1>3. ASSUME NEW s \in I PROVE [s EXCEPT !.err = "loop"] \in I
    <2>1. [s EXCEPT !.err = "loop"] \in WalkState
      BY WalkStateExcept DEF WalkError
    <2>2. [s EXCEPT !.err = "loop"].at = s.at /\ [s EXCEPT !.err = "loop"].rest = s.rest
      BY DEF WalkState
    <2>3. QED
      BY <2>1, <2>2 DEF OnTree, Within
  <1>. HIDE DEF I
  <1>4. Walk(tree, path, scoped, follow) \in I
    BY <1>1, <1>2, <1>3, WalkInduction
  <1>5. QED
    BY <1>4 DEF I, Within

\* A node that leads a lookup on as it did.
SameWay(old, new, p) ==
    new[p].kind = old[p].kind /\ (old[p].kind = "sym" => new[p].link = old[p].link)

\* Two trees that differ elsewhere only are the same to it.
LEMMA WalkElsewhere ==
    ASSUME NEW old, IsTree(old), NEW new, NEW S, LinksWithin(old, S),
           \A p \in Seq(S) : /\ p \in DOMAIN new <=> p \in DOMAIN old
                             /\ p \in DOMAIN old => SameWay(old, new, p),
           NEW path \in Seq(Part), path \in Seq(S),
           NEW scoped \in BOOLEAN, NEW follow \in BOOLEAN
    PROVE  Walk(new, path, scoped, follow) = Walk(old, path, scoped, follow)
  <1>. DEFINE v == WalkFcn(old, path, scoped, follow, MaxSteps)
              w == WalkFcn(new, path, scoped, follow, MaxSteps)
              I == {s \in WalkState : OnTree(old, scoped, s) /\ Within(s, S)}
              T == {i \in Nat : i \in 0..MaxSteps => w[i] = v[i] /\ v[i] \in I}
  <1>1. ASSUME NEW s \in I
        PROVE  /\ WalkNext(new, scoped, follow, s) = WalkNext(old, scoped, follow, s)
               /\ WalkNext(old, scoped, follow, s) \in I
    <2>1. CASE s.rest = << >> \/ s.err # "ok"
      BY <2>1 DEF WalkNext
    <2>2. CASE s.rest # << >> /\ s.err = "ok"
      <3>1. PICK here : here = Append(s.at, Head(s.rest))
        OBVIOUS
      <3>2. here \in Seq(S)
        BY <2>2, <3>1 DEF Within
      <3>3. /\ here \in DOMAIN new <=> here \in DOMAIN old
            /\ here \in DOMAIN old => SameWay(old, new, here)
        BY <3>2
      <3>4. WalkStep(new, scoped, follow, s) = WalkStep(old, scoped, follow, s)
        BY <3>1, <3>3 DEF WalkStep, Exists, SameWay
      <3>5. PICK next : next = WalkStep(old, scoped, follow, s)
        OBVIOUS
      <3>6. OnTree(old, scoped, next)
        BY <2>2, <3>5, WalkStepType
      <3>7. Within(next, S)
        BY <2>2, <3>5, WithinStep
      <3>8. QED
        BY <2>2, <3>4, <3>5, <3>6, <3>7 DEF WalkNext, OnTree
    <2>3. QED
      BY <2>1, <2>2
  <1>2. MaxSteps \in Nat
    BY RootFsAssumption
  <1>3. /\ v = [i \in 0..MaxSteps |-> IF i = 0 THEN WalkStart(path)
                                      ELSE WalkNext(old, scoped, follow, v[i-1])]
        /\ w = [i \in 0..MaxSteps |-> IF i = 0 THEN WalkStart(path)
                                      ELSE WalkNext(new, scoped, follow, w[i-1])]
    BY <1>2, WalkDefined
  <1>4. WalkStart(path) \in I
    <2>1. /\ WalkStart(path).at = << >> /\ WalkStart(path).rest = path
          /\ << >> \in DOMAIN old /\ << >> \in Seq(S)
      BY DEF WalkStart, IsTree, WellFormed
    <2>2. QED
      BY <2>1, WalkStartType DEF OnTree, Within
  <1>. HIDE DEF v, w, I
  <1>5. 0 \in T
    BY <1>2, <1>3, <1>4
  <1>6. ASSUME NEW i \in T PROVE i + 1 \in T
    <2>1. SUFFICES ASSUME i + 1 \in 0..MaxSteps PROVE w[i+1] = v[i+1] /\ v[i+1] \in I
      OBVIOUS
    <2>2. i \in 0..MaxSteps /\ i + 1 # 0 /\ (i + 1) - 1 = i
      BY <1>2, <2>1
    <2>3. w[i] = v[i] /\ v[i] \in I
      BY <2>2
    <2>4. /\ v[i+1] = WalkNext(old, scoped, follow, v[i])
          /\ w[i+1] = WalkNext(new, scoped, follow, w[i])
      BY <1>3, <2>1, <2>2
    <2>5. QED
      BY <1>1, <2>3, <2>4
  <1>7. T = Nat
    <2>1. T \in SUBSET Nat
      OBVIOUS
    <2>. HIDE DEF T
    <2>2. QED
      BY <1>5, <1>6, <2>1, SetInduction
  <1>8. w[MaxSteps] = v[MaxSteps]
    BY <1>2, <1>7
  <1>9. QED
    BY <1>8, WalkFunction DEF v, w

\* Where os.Root acts when it is given such a path.
LEMMA LocateWithin ==
    ASSUME NEW tree, IsTree(tree), NEW S, LinksWithin(tree, S),
           NEW p \in Seq(S), p # << >>, Front(p) \in Seq(Part),
           Locate(tree, p).err = "ok"
    PROVE  Locate(tree, p).at \in Seq(S)
  <1>. DEFINE d == DirOf(tree, Front(p))
              w == Walk(tree, Front(p), FALSE, TRUE)
  <1>1. PICK dir \in Seq(S) : dir = Front(p)
    BY FrontProperties
  <1>2. PICK last \in S : last = Last(p)
    BY ElementOfSeq, EmptySeq, LenProperties DEF Last
  <1>3. w.at \in Seq(S)
    BY <1>1, WalkWithin
  <1>. HIDE DEF w
  <1>4. d.err = "ok" => d.at \in Seq(S)
    BY <1>1, <1>3 DEF DirOf, EndsAtDir, At, w
  <1>. HIDE DEF d
  <1>5. d.err = "ok" /\ Locate(tree, p).at = Append(d.at, last)
    BY <1>2 DEF Locate, Inside, At, d
  <1>6. QED
    BY <1>2, <1>4, <1>5, AppendProperties

\* What such a name resolves to.
LEMMA ResolvedWithin ==
    ASSUME NEW tree, IsTree(tree), NEW S, LinksWithin(tree, S),
           NEW name \in Seq(S), name # << >>, Front(name) \in Seq(Part),
           NEW r, r = resolveArchivePath(tree, name), r.err = "ok"
    PROVE  r.path \in Seq(S)
  <1>. DEFINE stat == Stat(tree, Front(name))
              w == Walk(tree, Front(name), TRUE, TRUE)
  <1>1. r = Fallback(name, stat, w)
    BY DEF resolveArchivePath
  <1>2. PICK dir \in Seq(S) : dir = Front(name)
    BY FrontProperties
  <1>3. PICK last \in S : last = Last(name)
    BY ElementOfSeq, EmptySeq, LenProperties DEF Last
  <1>4. w.at \in Seq(S)
    BY <1>2, WalkWithin
  <1>. HIDE DEF stat, w
  <1>5. r.path = name \/ r.path = Append(w.at, last)
    BY <1>1, <1>3 DEF Fallback, Resolved
  <1>6. QED
    BY <1>3, <1>4, <1>5, AppendProperties

-----------------------------------------------------------------------------
(* The two ways to look a path up agree as far as os.Root goes.             *)

\* What os.Root's step tells of the step in a chroot.
TellsOf(next, kept) ==
    /\ next.err = "ok" => kept = next /\ ~next.followedAbsoluteLink
    /\ next.err = "escapes" /\ Head(next.rest) = Up => kept.relativeEscapeBeforeAbsolute

\* One step of both, from a state both are in.
LEMMA StepBoth ==
    ASSUME NEW tree, NEW s \in WalkState, s.rest # << >>, s.err = "ok",
           ~s.followedAbsoluteLink,
           NEW no \in BOOLEAN, no = FALSE, NEW yes \in BOOLEAN, yes = TRUE,
           NEW next, next = WalkStep(tree, no, yes, s),
           NEW kept, kept = WalkStep(tree, yes, yes, s)
    PROVE  TellsOf(next, kept)
  <1>1. PICK part, here : part = Head(s.rest) /\ here = Append(s.at, part)
    OBVIOUS
  <1>2. ~no /\ yes
    OBVIOUS
  <1>4. Stepped(tree, no, yes, s, part, here, next) /\ Stepped(tree, yes, yes, s, part, here, kept)
    BY <1>1, WalkStepFields
  <1>. USE DEF TellsOf, Stepped, StepsOn, StopsWith, StateIs
  <1>5. CASE part = Dot
    <2>1. kept = next
      BY <1>1, <1>5 DEF WalkStep
    <2>2. QED
      BY <1>4, <1>5, <2>1
  <1>6. CASE part = Up /\ s.at # << >>
    <2>1. kept = next
      BY <1>1, <1>6, PartKinds DEF WalkStep, WalkUp
    <2>2. QED
      BY <1>4, <1>6, <2>1
  <1>7. CASE part = Up /\ s.at = << >>
    BY <1>2, <1>4, <1>7
  <1>8. CASE part \in Name /\ ~Exists(tree, here)
    BY <1>2, <1>4, <1>8
  <1>9. CASE part \in Name /\ Exists(tree, here) /\ tree[here].kind # "sym"
    <2>1. kept = next
      BY <1>1, <1>9, PartKinds DEF WalkStep
    <2>2. QED
      BY <1>4, <1>9, <2>1
  <1>10. CASE part \in Name /\ Exists(tree, here) /\ tree[here].kind = "sym"
    <2>1. next = WalkLink(no, s, tree[here].link) /\ kept = WalkLink(yes, s, tree[here].link)
      BY <1>1, <1>10, PartKinds DEF WalkStep
    <2>2. CASE s.links = MaxLinks
      BY <1>2, <1>4, <1>10, <2>2
    <2>3. CASE s.links # MaxLinks /\ tree[here].link.abs
      BY <1>1, <1>2, <1>4, <1>10, <2>3, PartKinds
    <2>4. CASE s.links # MaxLinks /\ ~tree[here].link.abs
      <3>1. kept = next
        BY <2>1, <2>4 DEF WalkLink
      <3>2. ~next.followedAbsoluteLink
        BY <1>2, <1>4, <1>10, <2>4 DEF Follows
      <3>3. QED
        BY <1>2, <1>4, <1>10, <2>4, <3>1, <3>2 DEF Follows
    <2>5. QED
      BY <2>2, <2>3, <2>4
  <1>11. CASE part \notin Name /\ part # Dot /\ part # Up
    <2>1. part \in Part
      BY <1>1 DEF WalkState
    <2>2. QED
      BY <1>11, <2>1 DEF Part
  <1>12. QED
    BY <1>5, <1>6, <1>7, <1>8, <1>9, <1>10, <1>11

\* A ".." that left the root stays remembered.
LEMMA EscapeRemembered ==
    ASSUME NEW tree, NEW scoped \in BOOLEAN, NEW follow \in BOOLEAN,
           NEW s \in WalkState, s.rest # << >>, s.relativeEscapeBeforeAbsolute,
           NEW next, next = WalkStep(tree, scoped, follow, s)
    PROVE  next.relativeEscapeBeforeAbsolute
  <1>1. PICK part, here : part = Head(s.rest) /\ here = Append(s.at, part)
    OBVIOUS
  <1>2. Stepped(tree, scoped, follow, s, part, here, next)
    BY <1>1, WalkStepFields
  <1>3. part \in Name \/ part = Dot \/ part = Up
    BY <1>1 DEF WalkState, Part
  <1>4. QED
    BY <1>2, <1>3 DEF Stepped, StepsOn, StopsWith, Follows, StateIs

\* A path that os.Root can reach is the same place in a chroot, and one that
\* os.Root refuses because of a ".." leaves the root there, too.
LEMMA WalkBoth ==
    ASSUME NEW tree, IsTree(tree), NEW path \in Seq(Part),
           NEW w, w = Walk(tree, path, FALSE, TRUE),
           NEW x, x = Walk(tree, path, TRUE, TRUE)
    PROVE  TellsOf(w, x)
  <1>n. PICK no \in BOOLEAN, yes \in BOOLEAN : no = FALSE /\ yes = TRUE
    OBVIOUS
  <1>. DEFINE A(i) == Stage(tree, path, no, yes, i)
              B(i) == Stage(tree, path, yes, yes, i)
              T == {i \in Nat : i \in 0..MaxSteps => TellsOf(A(i), B(i))}
  <1>0. MaxSteps \in Nat
    BY RootFsAssumption
  <1>1. \A i \in 0..MaxSteps : A(i) \in WalkState /\ B(i) \in WalkState
    BY StageType DEF OnTree
  <1>2. A(0) = WalkStart(path) /\ B(0) = WalkStart(path)
    BY StageFirst
  <1>3. ASSUME NEW i \in 0..MaxSteps, i # MaxSteps
        PROVE  /\ A(i + 1) = WalkNext(tree, no, yes, A(i))
               /\ B(i + 1) = WalkNext(tree, yes, yes, B(i))
    BY <1>3, StageNext
  <1>. HIDE DEF A, B
  <1>4. 0 \in T
    <2>1. WalkStart(path).err = "ok" /\ ~WalkStart(path).followedAbsoluteLink
      BY DEF WalkStart
    <2>2. QED
      BY <1>2, <2>1 DEF TellsOf
  <1>5. ASSUME NEW a \in WalkState, NEW b \in WalkState, TellsOf(a, b),
               NEW c, c = WalkNext(tree, no, yes, a),
               NEW d, d = WalkNext(tree, yes, yes, b)
        PROVE  TellsOf(c, d)
    <2>1. CASE a.err = "ok" /\ a.rest # << >>
      <3>1. b = a /\ ~a.followedAbsoluteLink
        BY <1>5, <2>1 DEF TellsOf
      <3>2. c = WalkStep(tree, no, yes, a) /\ d = WalkStep(tree, yes, yes, a)
        BY <1>n, <1>5, <2>1, <3>1 DEF WalkNext
      <3>3. TellsOf(c, d)
        BY <1>n, <2>1, <3>1, <3>2, StepBoth
      <3>4. QED
        BY <3>3
    <2>2. CASE a.err = "ok" /\ a.rest = << >>
      BY <1>5, <2>2 DEF WalkNext, TellsOf
    <2>3. CASE a.err # "ok"
      <3>1. c = a
        BY <1>5, <2>3 DEF WalkNext
      <3>2. ASSUME b.relativeEscapeBeforeAbsolute PROVE d.relativeEscapeBeforeAbsolute
        <4>1. d = b \/ (b.rest # << >> /\ d = WalkStep(tree, yes, yes, b))
          BY <1>5 DEF WalkNext
        <4>2. QED
          BY <3>2, <4>1, EscapeRemembered
      <3>3. QED
        BY <1>5, <2>3, <3>1, <3>2 DEF TellsOf
    <2>4. QED
      BY <2>1, <2>2, <2>3
  <1>6. ASSUME NEW i \in T PROVE i + 1 \in T
    <2>1. SUFFICES ASSUME i + 1 \in 0..MaxSteps
                   PROVE  TellsOf(A(i + 1), B(i + 1))
      OBVIOUS
    <2>2. i \in 0..MaxSteps /\ i # MaxSteps
      BY <1>0, <2>1
    <2>3. TellsOf(A(i), B(i))
      BY <2>2
        <2>4. QED
      BY <1>1, <1>3, <1>5, <2>2, <2>3
  <1>7. T = Nat
    <2>1. T \in SUBSET Nat
      OBVIOUS
    <2>. HIDE DEF T
    <2>2. QED
      BY <1>4, <1>6, <2>1, SetInduction
  <1>8. PICK a \in WalkState, b \in WalkState : a = A(MaxSteps) /\ b = B(MaxSteps)
    BY <1>0, <1>1
  <1>9. TellsOf(a, b)
    BY <1>0, <1>7, <1>8
  <1>10. w = WalkEnd(a) /\ x = WalkEnd(b)
    BY <1>n, <1>8, WalkFunction DEF A, B, Stage
  <1>11. QED
    BY <1>9, <1>10 DEF WalkEnd, WalkState, TellsOf

\* Where os.Root's ".." leaves the root.
LeavesBelow(tree, dir) ==
    LET w == Walk(tree, dir, FALSE, TRUE)
    IN  w.err = "escapes" /\ Head(w.rest) = Up

\* What resolveArchivePath accepts: a path that reaches its parent, which is the
\* parent a chroot finds, or else the place a chroot finds for it.
ResolvedAs(tree, name, r, w) ==
    /\ w.err = "ok" /\ ~LeavesBelow(tree, Front(name))
    /\ r.parentWasPresent \in BOOLEAN
    /\ r.parentWasPresent => r.path = name /\ Walk(tree, Front(name), FALSE, TRUE) = w
    /\ ~r.parentWasPresent => r.path = Append(w.at, Last(name))

\* A name that resolves has its place where the walk of its parent as it was asked stops.
LEMMA ResolvedWay ==
    ASSUME NEW tree, IsTree(tree), NEW name, Front(name) \in Seq(Part),
           NEW r, r = resolveArchivePath(tree, name), r.err = "ok",
           NEW w, w = Walk(tree, Front(name), TRUE, TRUE)
    PROVE  ResolvedAs(tree, name, r, w)
  <1>1. PICK dir \in Seq(Part) : dir = Front(name)
    OBVIOUS
  <1>2. PICK far : far = Walk(tree, dir, FALSE, TRUE)
    OBVIOUS
  <1>3. TellsOf(far, w)
    BY <1>1, <1>2, WalkBoth
  <1>4. r = Fallback(name, Ends(far), w)
    BY <1>1, <1>2 DEF resolveArchivePath, Stat
  <1>5. Ends(far).err = far.err
    BY DEF Ends, At
  <1>6. LeavesBelow(tree, Front(name)) <=> far.err = "escapes" /\ Head(far.rest) = Up
    BY <1>1, <1>2 DEF LeavesBelow
  <1>7. CASE far.err = "ok"
    <2>1. r = Resolved("ok", name, TRUE)
      BY <1>4, <1>5, <1>7 DEF Fallback
    <2>2. r.path = name /\ r.parentWasPresent = TRUE
      BY <2>1 DEF Resolved
    <2>3. QED
      BY <1>1, <1>2, <1>3, <1>6, <1>7, <2>2 DEF ResolvedAs, TellsOf
  <1>8. CASE far.err # "ok"
    <2>1. PICK e, place : e = Ends(far).err /\ place = Append(w.at, Last(name))
      OBVIOUS
    <2>2. e \in {"notexist", "escapes"}
      <3>1. SUFFICES ASSUME e \notin {"notexist", "escapes"} PROVE FALSE
        OBVIOUS
      <3>2. r = Resolved(e, << >>, FALSE)
        BY <1>4, <1>5, <1>8, <2>1, <3>1 DEF Fallback
      <3>3. QED
        BY <1>5, <1>8, <2>1, <3>2 DEF Resolved
    <2>3. /\ r = Resolved("ok", place, FALSE)
          /\ w.err = "ok" /\ (far.err = "escapes" => EscapeIsAbsoluteLink(w))
      <3>1. r = IF w.err # "ok" THEN Resolved(w.err, << >>, FALSE)
                ELSE IF e = "escapes" /\ ~EscapeIsAbsoluteLink(w)
                THEN Resolved("escapes", << >>, FALSE)
                ELSE Resolved("ok", place, FALSE)
        BY <1>4, <2>1, <2>2 DEF Fallback
      <3>2. Resolved(w.err, << >>, FALSE).err = w.err /\ Resolved("escapes", << >>, FALSE).err = "escapes"
        BY DEF Resolved
      <3>3. QED
        BY <1>5, <2>1, <3>1, <3>2
    <2>4. r.path = place /\ r.parentWasPresent = FALSE
      BY <2>3 DEF Resolved
    <2>5. ~(far.err = "escapes" /\ Head(far.rest) = Up)
      BY <1>3, <2>3 DEF TellsOf, EscapeIsAbsoluteLink
    <2>6. QED
      BY <1>6, <2>1, <2>3, <2>4, <2>5 DEF ResolvedAs
  <1>9. QED
    BY <1>7, <1>8

\* The path of a directory goes through no link.
LEMMA ThereNoLinks ==
    ASSUME NEW tree, IsTree(tree), NEW p, IsDir(tree, p)
    PROVE  p \in Seq(Name) /\ NoLinks(tree, p)
  <1>1. p \in DOMAIN tree /\ p \in Seq(Name)
    BY TreePaths DEF IsDir, Exists
  <1>2. ASSUME NEW i \in 1..Len(p), SubSeq(p, 1, i) \in DOMAIN tree
        PROVE  tree[SubSeq(p, 1, i)].kind # "sym"
    <2>1. PICK q : q = SubSeq(p, 1, i)
      OBVIOUS
    <2>2. q \in Seq(Name) /\ Len(q) = i /\ \A j \in 1..i : q[j] = p[j]
      BY <1>1, <2>1
    <2>3. Under(q, p)
      BY <1>1, <2>2 DEF Under
    <2>4. IsDir(tree, q)
      BY <1>1, <2>2, <2>3, PrefixThere
    <2>5. QED
      BY <2>1, <2>4 DEF IsDir
  <1>3. QED
    BY <1>1, <1>2 DEF NoLinks

\* Where os.Root acts on a path whose parent it can reach: in that parent, if it
\* is a directory.
LocatesIn(tree, dir, last, l) ==
    /\ l.err = "ok" => l.at = Append(dir, last) /\ IsDir(tree, dir)
    /\ IsDir(tree, dir) /\ last \in Name => l = At("ok", Append(dir, last))

\* What Locate gives for a path is decided by the directory its parent walks to.
LEMMA Acts ==
    ASSUME NEW tree, NEW p, NEW dir, NEW d, d = DirOf(tree, Front(p)),
           \/ IsDir(tree, dir) /\ d = At("ok", dir)
           \/ ~IsDir(tree, dir) /\ d.err # "ok"
    PROVE  LocatesIn(tree, dir, Last(p), Locate(tree, p))
  <1>1. PICK last, l : last = Last(p) /\ l = Locate(tree, p)
    OBVIOUS
  <1>2. l = Inside(d, last)
    BY <1>1 DEF Locate
  <1>3. CASE IsDir(tree, dir) /\ d = At("ok", dir)
    <2>1. d.err = "ok" /\ d.at = dir
      BY <1>3 DEF At
    <2>2. l = IF last \in Name THEN At("ok", Append(dir, last)) ELSE At("invalid", << >>)
      BY <1>2, <2>1 DEF Inside
    <2>3. QED
      BY <1>1, <1>3, <2>2 DEF LocatesIn, At
  <1>4. CASE ~IsDir(tree, dir) /\ d.err # "ok"
    BY <1>1, <1>2, <1>4 DEF LocatesIn, Inside
  <1>5. QED
    BY <1>3, <1>4

\* A path whose parent the walk reaches is located in the directory reached.
LEMMA LocateReached ==
    ASSUME NEW tree, IsTree(tree), NEW p, Front(p) \in Seq(Part),
           NEW w, w = Walk(tree, Front(p), FALSE, TRUE), w.err = "ok"
    PROVE  LocatesIn(tree, w.at, Last(p), Locate(tree, p))
  <1>1. PICK dir, last : dir \in Seq(Part) /\ dir = Front(p) /\ last = Last(p)
    OBVIOUS
  <1>2. PICK d : d = DirOf(tree, dir)
    OBVIOUS
  <1>3. CASE IsDir(tree, dir)
    <2>1. d = At("ok", dir)
      BY <1>1, <1>2, <1>3, DirOfType
    <2>2. w.at = dir
      BY <1>1, <1>3, ThereNoLinks, NoLinkWalk
    <2>3. QED
      BY <1>1, <1>2, <1>3, <2>1, <2>2, Acts
  <1>4. CASE ~IsDir(tree, dir)
    <2>1. d = IF IsDir(tree, w.at) THEN At("ok", w.at) ELSE At("notdir", << >>)
      BY <1>1, <1>2, <1>4 DEF DirOf, EndsAtDir
    <2>2. ~IsDir(tree, w.at) => d.err # "ok"
      BY <2>1 DEF At
    <2>3. IsDir(tree, w.at) => d = At("ok", w.at)
      BY <2>1
    <2>4. QED
      BY <1>1, <1>2, <2>2, <2>3, Acts
  <1>5. QED
    BY <1>3, <1>4

\* And on a path whose parent goes through no link: at that path.
LEMMA LocateFree ==
    ASSUME NEW tree, IsTree(tree), NEW dir \in Seq(Name), NoLinks(tree, dir),
           NEW p, dir = Front(p), NEW last, last = Last(p)
    PROVE  LocatesIn(tree, dir, last, Locate(tree, p))
  <1>1. PICK d : d = DirOf(tree, dir)
    OBVIOUS
  <1>2. dir \in Seq(Part)
    BY DEF Part
  <1>3. CASE IsDir(tree, dir)
    <2>1. d = At("ok", dir)
      BY <1>1, <1>2, <1>3, DirOfType
    <2>2. QED
      BY <1>1, <1>3, <2>1, Acts
  <1>4. CASE ~IsDir(tree, dir)
    <2>1. d.err # "ok"
      BY <1>1, <1>4, DirOfNoLink
    <2>2. QED
      BY <1>1, <1>4, <2>1, Acts
  <1>5. QED
    BY <1>3, <1>4

\* The target of a hard link is the node in the place a chroot finds for it.
TargetAt(tree, to, from) ==
    /\ from.at \in DOMAIN tree /\ ~LeavesBelow(tree, Front(to))
    /\ from.at = Append(Walk(tree, Front(to), TRUE, TRUE).at, Last(to))

\* A hard link's target that resolves is found where its name says, and it names something.
LEMMA TargetPlace ==
    ASSUME NEW tree, IsTree(tree), NEW to \in Seq(Part),
           NEW from, from = TargetOf(tree, resolveHardlinkTarget(tree, to)), from.err = "ok"
    PROVE  to # << >> /\ TargetAt(tree, to, from)
  <1>1. PICK target : target = resolveHardlinkTarget(tree, to)
    OBVIOUS
  <1>2. target.err = "ok" /\ from = Lstat(tree, target.path)
    BY <1>1 DEF TargetOf, At
  <1>3. to # << >> /\ target = resolveArchivePath(tree, to)
    BY <1>1, <1>2 DEF resolveHardlinkTarget, Resolved
  <1>4. PICK dir, last, w :
           /\ dir \in Seq(Part) /\ dir = Front(to) /\ last = Last(to)
           /\ w = Walk(tree, dir, TRUE, TRUE)
    BY <1>3, FrontProperties
  <1>5. ResolvedAs(tree, to, target, w)
    BY <1>2, <1>3, <1>4, ResolvedWay
  <1>6. w.at \in Seq(Name)
    BY <1>4, WalkType DEF OnTree, WalkState
  <1>p. \A place : place = Append(w.at, last) =>
            place # << >> /\ Front(place) = w.at /\ Last(place) = last
    <2>1. PICK at \in Seq({last} \union Name) : at = w.at
      BY <1>6
    <2>2. QED
      BY <2>1, FrontAppend
  <1>7. PICK l : l = Locate(tree, target.path)
    OBVIOUS
  <1>8. target.path # << >>
    BY <1>3, <1>4, <1>5, <1>p DEF ResolvedAs
  <1>9. from = IfThere(tree, l)
    BY <1>2, <1>7, <1>8 DEF Lstat
  <1>10. from = l /\ l.at \in DOMAIN tree /\ l.err = "ok"
    BY <1>9 DEF IfThere, At, Exists
  <1>11. LocatesIn(tree, w.at, last, l)
    <2>1. CASE target.parentWasPresent
      <3>1. target.path = to /\ w = Walk(tree, dir, FALSE, TRUE) /\ w.err = "ok"
        BY <1>4, <1>5, <2>1 DEF ResolvedAs
      <3>2. QED
        BY <1>4, <1>7, <3>1, LocateReached
    <2>2. CASE ~target.parentWasPresent
      <3>1. target.path = Append(w.at, last)
        BY <1>4, <1>5, <2>2 DEF ResolvedAs
      <3>2. Front(target.path) = w.at /\ Last(target.path) = last
        BY <3>1, <1>p
      <3>3. NoLinks(tree, w.at)
        BY <1>4, ScopedWalkNoLink
      <3>4. QED
        BY <1>6, <1>7, <3>2, <3>3, LocateFree
    <2>3. QED
      BY <2>1, <2>2
  <1>12. QED
    BY <1>3, <1>4, <1>5, <1>10, <1>11 DEF TargetAt, LocatesIn, ResolvedAs

\* Nodes have gone, and the rest leads where it led.
Shrunk(old, new) == \A p \in DOMAIN new : p \in DOMAIN old /\ SameWay(old, new, p)

\* When nodes have gone, what os.Root still finds is what it found.
LEMMA WalkShrunk ==
    ASSUME NEW old, IsTree(old), NEW new, Shrunk(old, new),
           NEW path \in Seq(Part),
           NEW w, w = Walk(new, path, FALSE, TRUE), w.err = "ok"
    PROVE  w = Walk(old, path, FALSE, TRUE)
  <1>n. PICK no \in BOOLEAN, yes \in BOOLEAN : no = FALSE /\ yes = TRUE
    OBVIOUS
  <1>. DEFINE A(i) == Stage(old, path, no, yes, i)
              B(i) == Stage(new, path, no, yes, i)
              T == {i \in Nat : i \in 0..MaxSteps => (B(i).err = "ok" => B(i) = A(i))}
  <1>0. MaxSteps \in Nat
    BY RootFsAssumption
  <1>1. \A i \in 0..MaxSteps : A(i) \in WalkState
    BY StageType DEF OnTree
  <1>2. A(0) = WalkStart(path) /\ B(0) = WalkStart(path)
    BY StageFirst
  <1>3. ASSUME NEW i \in 0..MaxSteps, i # MaxSteps
        PROVE  /\ A(i + 1) = WalkNext(old, no, yes, A(i))
               /\ B(i + 1) = WalkNext(new, no, yes, B(i))
    BY <1>3, StageNext
  <1>. HIDE DEF A, B
  <1>4. 0 \in T
    BY <1>2
  <1>5. ASSUME NEW s \in WalkState, NEW c, c = WalkNext(new, no, yes, s), c.err = "ok"
        PROVE  c = WalkNext(old, no, yes, s)
    <2>1. CASE s.rest = << >> \/ s.err # "ok"
      BY <1>5, <2>1 DEF WalkNext
    <2>2. CASE s.rest # << >> /\ s.err = "ok"
      <3>1. PICK part, here : part = Head(s.rest) /\ here = Append(s.at, part)
        OBVIOUS
      <3>2. c = WalkStep(new, no, yes, s)
        BY <1>5, <2>2 DEF WalkNext
      <3>3. Stepped(new, no, yes, s, part, here, c)
        BY <2>2, <3>1, <3>2, WalkStepFields
      <3>4. CASE part \notin Name
        <4>1. part = Dot \/ part = Up
          BY <2>2, <3>1, <3>4 DEF WalkState, Part
        <4>2. WalkStep(new, no, yes, s) = WalkStep(old, no, yes, s)
          BY <3>1, <4>1, PartKinds DEF WalkStep
        <4>3. QED
          BY <2>2, <3>2, <4>2 DEF WalkNext
      <3>5. CASE part \in Name
        <4>1. here \in DOMAIN new
          BY <1>n, <1>5, <3>3, <3>5 DEF Stepped, StopsWith, StateIs, Exists
        <4>2. here \in DOMAIN old /\ SameWay(old, new, here)
          BY <4>1 DEF Shrunk
        <4>3. WalkStep(new, no, yes, s) = WalkStep(old, no, yes, s)
          BY <3>1, <3>5, <4>1, <4>2, PartKinds DEF WalkStep, Exists, SameWay
        <4>4. QED
          BY <2>2, <3>2, <4>3 DEF WalkNext
      <3>6. QED
        BY <3>4, <3>5
    <2>3. QED
      BY <2>1, <2>2
  <1>6. ASSUME NEW i \in T PROVE i + 1 \in T
    <2>1. SUFFICES ASSUME i + 1 \in 0..MaxSteps, B(i + 1).err = "ok"
                   PROVE  B(i + 1) = A(i + 1)
      OBVIOUS
    <2>2. i \in 0..MaxSteps /\ i # MaxSteps
      BY <1>0, <2>1
    <2>3. PICK c, s, b : c = B(i + 1) /\ s = A(i) /\ b = B(i) /\ c = WalkNext(new, no, yes, b)
      BY <1>3, <2>2
    <2>4. b.err = "ok"
      BY <2>1, <2>3 DEF WalkNext
    <2>5. b = s /\ s \in WalkState
      BY <1>1, <2>2, <2>3, <2>4
    <2>6. c = WalkNext(old, no, yes, s)
      BY <1>5, <2>1, <2>3, <2>5
    <2>7. QED
      BY <1>3, <2>2, <2>3, <2>6
  <1>7. T = Nat
    <2>1. T \in SUBSET Nat
      OBVIOUS
    <2>. HIDE DEF T
    <2>2. QED
      BY <1>4, <1>6, <2>1, SetInduction
  <1>8. PICK a, b : a = A(MaxSteps) /\ b = B(MaxSteps)
    OBVIOUS
  <1>9. b.err = "ok" => b = a
    BY <1>0, <1>7, <1>8
  <1>10. w = WalkEnd(b) /\ Walk(old, path, FALSE, TRUE) = WalkEnd(a)
    BY <1>n, <1>8, WalkFunction DEF A, B, Stage
  <1>11. b.err = "ok"
    BY <1>10 DEF WalkEnd
  <1>12. QED
    BY <1>9, <1>10, <1>11

\* And an operation acts where it would have.
ActsIn(tree, dir, last, l) == l.at = Append(dir, last) /\ IsDir(tree, dir)

\* Removing files moves no path elsewhere: a path still located is in the same directory.
LEMMA LocateShrunk ==
    ASSUME NEW old, IsTree(old), NEW new, IsTree(new),
           Shrunk(old, new),
           NEW p, Front(p) \in Seq(Part),
           NEW w, w = Walk(old, Front(p), FALSE, TRUE), w.err = "ok",
           NEW l, l = Locate(new, p), l.err = "ok"
    PROVE  ActsIn(new, w.at, Last(p), l)
  <1>1. PICK dir, d : dir \in Seq(Part) /\ dir = Front(p) /\ d = DirOf(new, dir)
    OBVIOUS
  <1>2. d.err = "ok" /\ l.at = Append(d.at, Last(p))
    <2>1. l = Inside(d, Last(p))
      BY <1>1 DEF Locate
    <2>2. QED
      BY <2>1 DEF Inside, At
  <1>3. IsDir(new, d.at)
    BY <1>1, <1>2, DirOfType
  <1>4. d.at = w.at
    <2>1. CASE IsDir(new, dir)
      <3>1. d.at = dir
        BY <1>1, <2>1, DirOfType DEF At
      <3>2. IsDir(old, dir)
        BY <2>1 DEF IsDir, Exists, Shrunk, SameWay
      <3>3. w.at = dir
        BY <1>1, <3>2, ThereNoLinks, NoLinkWalk
      <3>4. QED
        BY <3>1, <3>3
    <2>2. CASE ~IsDir(new, dir)
      <3>1. PICK x : x = Walk(new, dir, FALSE, TRUE)
        OBVIOUS
      <3>2. d = EndsAtDir(new, x)
        BY <1>1, <2>2, <3>1 DEF DirOf
      <3>3. x.err = "ok" /\ d.at = x.at
        BY <1>2, <3>2 DEF EndsAtDir, At
      <3>4. x = Walk(old, dir, FALSE, TRUE)
        BY <1>1, <3>1, <3>3, WalkShrunk
      <3>5. QED
        BY <1>1, <3>3, <3>4
    <2>3. QED
      BY <2>1, <2>2
  <1>5. QED
    BY <1>2, <1>3, <1>4 DEF ActsIn

-----------------------------------------------------------------------------
(* What is seen of a change: a node put, or a subtree removed, and nothing  *)
(* else, as times, owners and the author of a directory are not seen.       *)

\* Times and owners are not seen.
LEMMA MetaHidden ==
    ASSUME NEW node \in NodeType, NEW other,
           \/ other = node
           \/ \E time : other = [node EXCEPT !.time = time]
           \/ \E owner, time : other = [node EXCEPT !.owner = owner, !.time = time]
    PROVE  Shown(other) = Shown(node)
  BY DEF Shown, NodeType

SeenSame(old, new) ==
    DOMAIN new = DOMAIN old /\ \A q \in DOMAIN old : Shown(new[q]) = Shown(old[q])

\* Touching a directory is not seen.
LEMMA TouchSeen ==
    ASSUME NEW tr, IsTree(tr), NEW at, NEW clock
    PROVE  SeenSame(tr, Touch(tr, at, clock))
  <1>. DEFINE touched == Touch(tr, at, clock)
  <1>1. DOMAIN touched = DOMAIN tr
    BY DEF Touch
  <1>2. ASSUME NEW q \in DOMAIN tr PROVE Shown(touched[q]) = Shown(tr[q])
    <2>1. touched[q] \in {tr[q], [tr[q] EXCEPT !.time = clock]}
      BY DEF Touch
    <2>2. tr[q] \in NodeType
      BY TreePaths
    <2>. HIDE DEF touched
    <2>3. QED
      BY <2>1, <2>2, MetaHidden
  <1>3. QED
    BY <1>1, <1>2 DEF SeenSame

\* Nor are times and owners that are set.
LEMMA SetMetaSeen ==
    ASSUME NEW tr, IsTree(tr), NEW at, NEW owner, NEW time
    PROVE  SeenSame(tr, SetMeta(tr, at, owner, time))
  <1>. DEFINE set == SetMeta(tr, at, owner, time)
  <1>1. DOMAIN set = DOMAIN tr
    BY DEF SetMeta
  <1>2. ASSUME NEW q \in DOMAIN tr PROVE Shown(set[q]) = Shown(tr[q])
    <2>1. set[q] = tr[q] \/ set[q] = [tr[q] EXCEPT !.owner = owner, !.time = time]
      BY DEF SetMeta
    <2>2. tr[q] \in NodeType
      BY TreePaths
    <2>. HIDE DEF set
    <2>3. QED
      BY <2>1, <2>2, MetaHidden
  <1>3. QED
    BY <1>1, <1>2 DEF SeenSame

\* A node is put, or a subtree removed, and all else looks as it did.
SeenPut(old, new, at, node) ==
    /\ DOMAIN new = DOMAIN old \union {at} /\ new[at] = node
    /\ \A q \in DOMAIN old \ {at} : Shown(new[q]) = Shown(old[q])

SeenCut(old, new, at) ==
    /\ DOMAIN new = {q \in DOMAIN old : ~Under(at, q)}
    /\ \A q \in DOMAIN new : Shown(new[q]) = Shown(old[q])

\* PutNode shows as its node put there, and nothing else changed.
LEMMA PutSeen ==
    ASSUME NEW tr, IsTree(tr), NEW at, NEW node, NEW clock
    PROVE  SeenPut(tr, PutNode(tr, at, node, clock), at, node)
  <1>1. PICK touched : touched = Touch(tr, at, clock)
    OBVIOUS
  <1>2. SeenSame(tr, touched)
    BY <1>1, TouchSeen
  <1>3. PutNode(tr, at, node, clock) =
            [p \in DOMAIN tr \union {at} |-> IF p = at THEN node ELSE touched[p]]
    BY <1>1 DEF PutNode
  <1>4. QED
    BY <1>2, <1>3 DEF SeenSame, SeenPut

\* RemoveTree shows as the path and what is below it cut off, nothing else changed.
LEMMA CutSeen ==
    ASSUME NEW tr, IsTree(tr), NEW at, NEW clock
    PROVE  SeenCut(tr, RemoveTree(tr, at, clock), at)
  <1>1. PICK touched : touched = Touch(tr, at, clock)
    OBVIOUS
  <1>2. SeenSame(tr, touched)
    BY <1>1, TouchSeen
  <1>3. RemoveTree(tr, at, clock) =
            [p \in {q \in DOMAIN tr : ~Under(at, q)} |-> touched[p]]
    BY <1>1 DEF RemoveTree
  <1>4. QED
    BY <1>2, <1>3 DEF SeenSame, SeenCut

\* What is written over has a new author, which is not seen of a directory.
SeenStamp(old, new, at, by) ==
    /\ DOMAIN new = DOMAIN old
    /\ \A q \in DOMAIN old \ {at} : Shown(new[q]) = Shown(old[q])
    /\ Shown(new[at]) = Shown([old[at] EXCEPT !.by = by])

\* Stamp shows as the mark of its entry on one node.
LEMMA StampSeen ==
    ASSUME NEW tr, IsTree(tr), NEW at \in DOMAIN tr, NEW hdr1 \in Header
    PROVE  SeenStamp(tr, Stamp(tr, at, hdr1), at, hdr1.by)
  <1>1. PICK marked, by : by = hdr1.by /\ marked = [tr EXCEPT ![at].by = by]
    OBVIOUS
  <1>2. /\ DOMAIN marked = DOMAIN tr /\ marked[at] = [tr[at] EXCEPT !.by = by]
        /\ \A q \in DOMAIN tr \ {at} : marked[q] = tr[q]
    BY <1>1
  <1>3. IsTree(marked)
    <2>1. by \in Nat
      BY <1>1 DEF Header
    <2>2. \A q \in DOMAIN tr : tr[q] \in NodeType
      BY TreePaths
    <2>3. marked[at] \in NodeType /\ marked[at].kind = tr[at].kind
      BY <1>2, <2>1, <2>2 DEF NodeType
    <2>4. \A q \in DOMAIN tr : marked[q] \in NodeType /\ marked[q].kind = tr[q].kind
      BY <1>2, <2>2, <2>3
    <2>5. marked \in [DOMAIN marked -> NodeType]
      BY <1>1, <1>2, <2>4
    <2>6. QED
      BY <1>2, <2>4, <2>5 DEF IsTree, WellFormed, IsDir, Exists
  <1>4. \E owner, time : Stamp(tr, at, hdr1) = SetMeta(marked, at, owner, time)
    BY <1>1 DEF Stamp
  <1>5. SeenSame(marked, Stamp(tr, at, hdr1))
    BY <1>3, <1>4, SetMetaSeen
  <1>6. QED
    BY <1>1, <1>2, <1>5 DEF SeenSame, SeenStamp

\* A name that was free and now looks so, and all else looks as it did.
MadeAt(old, new, at, look) ==
    /\ at \notin DOMAIN old
    /\ DOMAIN new = DOMAIN old \union {at} /\ Shown(new[at]) = look
    /\ \A q \in DOMAIN old : Shown(new[q]) = Shown(old[q])

\* What is seen of a createTarFile that succeeds.
NewKind(old, new, l, h, kind, link) ==
    MadeAt(old, new, l.at, Shown(New(h, l.at, kind, link)))

CreatedSeen(old, new, l, h) ==
    \/ h.type = "dev" /\ InUserNS /\ new = old
    \/ /\ h.type = "dir" /\ l.err = "ok" /\ IsDir(old, l.at)
       /\ SeenStamp(old, new, l.at, h.by)
    \/ /\ h.type = "reg" /\ l.err = "ok" /\ Exists(old, l.at)
       /\ old[l.at].kind = "reg" /\ SeenStamp(old, new, l.at, h.by)
    \/ h.type = "dir" /\ l.err = "ok" /\ NewKind(old, new, l, h, "dir", NoLink)
    \/ h.type = "reg" /\ l.err = "ok" /\ NewKind(old, new, l, h, "reg", NoLink)
    \/ h.type = "dev" /\ ~InUserNS /\ l.err = "ok" /\ NewKind(old, new, l, h, "dev", NoLink)
    \/ h.type = "sym" /\ l.err = "ok" /\ NewKind(old, new, l, h, "sym", h.link)
    \/ /\ h.type = "link" /\ l.err = "ok"
       /\ \E from : /\ from = TargetOf(old, resolveHardlinkTarget(old, h.link.to))
                    /\ from.err = "ok" /\ from.at \in DOMAIN old /\ ~IsDir(old, from.at)
                    /\ MadeAt(old, new, l.at, Shown([old[from.at] EXCEPT !.by = h.by]))

\* Mkdir, Mknod and Symlink.
LEMMA NewSeen ==
    ASSUME NEW tr, IsTree(tr), NEW l, NEW h, NEW kind, NEW link,
           NEW out, out = MakeNew(tr, l, h, kind, link)
    PROVE  /\ out.err # "ok" => out.tree = tr
           /\ out.err = "ok" => l.err = "ok" /\ NewKind(tr, out.tree, l, h, kind, link)
  <1>1. CASE l.err = "ok" /\ ~Exists(tr, l.at)
    <2>1. PICK at, node : at = l.at /\ node = New(h, l.at, kind, link)
      OBVIOUS
    <2>2. out = Outcome("ok", PutNode(tr, at, node, Clock))
      BY <1>1, <2>1 DEF MakeNew
    <2>3. out.err = "ok" /\ out.tree = PutNode(tr, at, node, Clock)
      BY <2>2 DEF Outcome
    <2>4. SeenPut(tr, out.tree, at, node)
      BY <2>3, PutSeen
    <2>5. QED
      BY <1>1, <2>1, <2>3, <2>4 DEF SeenPut, MadeAt, NewKind, Exists
  <1>2. CASE ~(l.err = "ok" /\ ~Exists(tr, l.at))
    <2>1. (out = Outcome(l.err, tr) /\ l.err # "ok") \/ out = Outcome("exist", tr)
      BY <1>2 DEF MakeNew
    <2>2. out.err # "ok" /\ out.tree = tr
      BY <2>1 DEF Outcome
    <2>3. QED
      BY <2>2
  <1>3. QED
    BY <1>1, <1>2

\* A hard link: it looks like its target, but for the author.
LEMMA LinkSeen ==
    ASSUME NEW tr, IsTree(tr), NEW l, Located(tr, l), NEW h \in Header,
           NEW from, from.err = "ok" => from.at \in DOMAIN tr,
           NEW out, out = LinkFrom(tr, l, h, from)
    PROVE  /\ out.err # "ok" => out.tree = tr
           /\ out.err = "ok" =>
                 /\ l.err = "ok" /\ from.err = "ok" /\ ~IsDir(tr, from.at)
                 /\ MadeAt(tr, out.tree, l.at, Shown([tr[from.at] EXCEPT !.by = h.by]))
  <1>1. CASE /\ from.err = "ok" /\ ~IsDir(tr, from.at)
             /\ l.err = "ok" /\ ~Exists(tr, l.at)
    <2>1. PICK at, node : at = l.at /\ node = tr[from.at]
      OBVIOUS
    <2>2. PICK linked, header : /\ linked = PutNode(tr, at, node, Clock)
                                /\ header = IF node.kind = "sym"
                                            THEN [h EXCEPT !.time = node.time] ELSE h
      OBVIOUS
    <2>3. node \in NodeType
      BY <1>1, <2>1, TreePaths
    <2>13. node.time \in Nat
      BY <2>3 DEF NodeType
    <2>4. header \in Header /\ header.by = h.by
      <3>1. CASE node.kind = "sym"
        <4>1. [h EXCEPT !.time = node.time].by = h.by
          BY DEF Header
        <4>2. QED
          BY <2>2, <2>13, <3>1, <4>1, HeaderExcept
      <3>2. CASE node.kind # "sym"
        BY <2>2, <3>2
      <3>3. QED
        BY <3>1, <3>2
    <2>5. /\ at \in Seq(Name) /\ at # << >> /\ IsDir(tr, Front(at))
          /\ at \notin DOMAIN tr /\ Clock \in Nat
      BY <1>1, <2>1, ExtractAssumption DEF Located, Exists
    <2>6. IsTree(linked)
      BY <2>2, <2>3, <2>5, PutNodeType DEF PutAt
    <2>7. SeenPut(tr, linked, at, node)
      BY <2>2, PutSeen
    <2>8. out = Outcome("ok", Stamp(linked, at, header))
      BY <1>1, <2>1, <2>2 DEF LinkFrom
    <2>9. out.err = "ok" /\ out.tree = Stamp(linked, at, header)
      BY <2>8 DEF Outcome
    <2>10. SeenStamp(linked, out.tree, at, h.by)
      <3>1. at \in DOMAIN linked
        BY <2>7 DEF SeenPut
      <3>2. QED
        BY <2>4, <2>6, <2>9, <3>1, StampSeen
    <2>11. MadeAt(tr, out.tree, at, Shown([node EXCEPT !.by = h.by]))
      BY <2>5, <2>7, <2>10 DEF SeenPut, SeenStamp, MadeAt
    <2>12. QED
      BY <1>1, <2>1, <2>9, <2>11
  <1>2. CASE ~(/\ from.err = "ok" /\ ~IsDir(tr, from.at)
               /\ l.err = "ok" /\ ~Exists(tr, l.at))
    <2>1. \E e : e # "ok" /\ out = Outcome(e, tr)
      BY <1>2 DEF LinkFrom
    <2>2. out.err # "ok" /\ out.tree = tr
      BY <2>1 DEF Outcome
    <2>3. QED
      BY <2>2
  <1>3. QED
    BY <1>1, <1>2

\* createTarFile: one that fails is not seen, and one that succeeds as above.
LEMMA CreateSeen ==
    ASSUME NEW tr, IsTree(tr), NEW path, Front(path) \in Seq(Part),
           NEW h \in Header, h.type \in {"dir", "reg", "dev", "sym", "link"},
           NEW l, l = Locate(tr, path),
           NEW out, out = createTarFile(tr, path, h)
    PROVE  /\ out.err # "ok" => out.tree = tr
           /\ out.err = "ok" => CreatedSeen(tr, out.tree, l, h)
  <1>1. Located(tr, l)
    BY LocateType DEF Located
  <1>2. out = CreateAt(tr, l, h)
    BY DEF createTarFile
  <1>3. CASE \/ h.type = "sym"
             \/ h.type = "dev" /\ ~InUserNS
             \/ h.type = "dir" /\ ~(l.err = "ok" /\ IsDir(tr, l.at))
             \/ h.type = "reg" /\ ~(l.err = "ok" /\ Exists(tr, l.at))
    <2>1. PICK link : link = IF h.type = "sym" THEN h.link ELSE NoLink
      OBVIOUS
    <2>2. out = MakeNew(tr, l, h, h.type, link)
      BY <1>2, <1>3, <2>1 DEF CreateAt, MakeDir, WriteFile
    <2>3. /\ out.err # "ok" => out.tree = tr
          /\ out.err = "ok" => l.err = "ok" /\ NewKind(tr, out.tree, l, h, h.type, link)
      BY <2>2, NewSeen
    <2>4. QED
      BY <1>3, <2>1, <2>3 DEF CreatedSeen
  <1>4. CASE h.type = "dev" /\ InUserNS
    <2>1. out = Outcome("ok", tr)
      BY <1>2, <1>4 DEF CreateAt
    <2>2. out.err = "ok" /\ out.tree = tr
      BY <2>1 DEF Outcome
    <2>3. QED
      BY <1>4, <2>2 DEF CreatedSeen
  <1>5. CASE h.type = "dir" /\ l.err = "ok" /\ IsDir(tr, l.at)
    <2>1. PICK at : at = l.at /\ at \in DOMAIN tr
      BY <1>5 DEF IsDir, Exists
    <2>2. out = Outcome("ok", Stamp(tr, at, h))
      BY <1>2, <1>5, <2>1 DEF CreateAt, MakeDir
    <2>3. out.err = "ok" /\ out.tree = Stamp(tr, at, h)
      BY <2>2 DEF Outcome
    <2>4. SeenStamp(tr, out.tree, at, h.by)
      BY <2>1, <2>3, StampSeen
    <2>5. QED
      BY <1>5, <2>1, <2>3, <2>4 DEF CreatedSeen
  <1>6. CASE h.type = "reg" /\ l.err = "ok" /\ Exists(tr, l.at)
    <2>1. PICK at : at = l.at /\ at \in DOMAIN tr
      BY <1>6 DEF Exists
    <2>2. CASE tr[at].kind = "reg"
      <3>1. out = Outcome("ok", Stamp(tr, at, h))
        BY <1>2, <1>6, <2>1, <2>2 DEF CreateAt, WriteFile
      <3>2. out.err = "ok" /\ out.tree = Stamp(tr, at, h)
        BY <3>1 DEF Outcome
      <3>3. SeenStamp(tr, out.tree, at, h.by)
        BY <2>1, <3>2, StampSeen
      <3>4. QED
        BY <1>6, <2>1, <2>2, <3>2, <3>3 DEF CreatedSeen
    <2>3. CASE tr[at].kind # "reg"
      <3>1. out = Outcome("exist", tr)
        BY <1>2, <1>6, <2>1, <2>3 DEF CreateAt, WriteFile
      <3>2. QED
        BY <3>1 DEF Outcome
    <2>4. QED
      BY <2>2, <2>3
  <1>7. CASE h.type = "link"
    <2>1. PICK from : from = TargetOf(tr, resolveHardlinkTarget(tr, h.link.to))
      OBVIOUS
    <2>2. out = LinkFrom(tr, l, h, from)
      BY <1>2, <1>7, <2>1 DEF CreateAt, MakeLink
    <2>3. from.err = "ok" => from.at \in DOMAIN tr
      BY <2>1, TargetThere DEF Header, LinkType
    <2>4. /\ out.err # "ok" => out.tree = tr
          /\ out.err = "ok" =>
                /\ l.err = "ok" /\ from.err = "ok" /\ ~IsDir(tr, from.at)
                /\ MadeAt(tr, out.tree, l.at, Shown([tr[from.at] EXCEPT !.by = h.by]))
      BY <1>1, <2>2, <2>3, LinkSeen
    <2>5. QED
      BY <1>7, <2>1, <2>3, <2>4 DEF CreatedSeen
  <1>8. QED
    BY <1>3, <1>4, <1>5, <1>6, <1>7

\* The Mkdir of a parent directory: it makes one, or finds one.
ImpliedSeenAs(old, new, cur, l) ==
    /\ l.err = "ok"
    /\ \/ MadeAt(old, new, l.at, ADir)
       \/ /\ l.at \in DOMAIN old /\ new = old
          /\ Stat(old, cur).err = "ok" /\ IsDir(old, Stat(old, cur).at)

\* mkdirImplied that succeeds leaves a directory where the path is located.
LEMMA ImpliedSeen ==
    ASSUME NEW tr, IsTree(tr), NEW cur, NEW h, NEW l, l = Locate(tr, cur),
           NEW out, out = mkdirImplied(tr, cur, h)
    PROVE  /\ out.err # "ok" => out.tree = tr
           /\ out.err = "ok" => ImpliedSeenAs(tr, out.tree, cur, l)
  <1>1. PICK stat : stat = Stat(tr, cur)
    OBVIOUS
  <1>2. out = ImpliedAt(tr, l, stat, h)
    BY <1>1 DEF mkdirImplied
  <1>3. CASE l.err = "ok" /\ ~Exists(tr, l.at)
    <2>1. PICK at, node :
              /\ at = l.at
              /\ node = Node("dir", NoLink, Inode(h, l.at), h.by, Clock,
                             IF NoLchown THEN Process ELSE RootID)
      OBVIOUS
    <2>2. out = Outcome("ok", PutNode(tr, at, node, Clock))
      BY <1>2, <1>3, <2>1 DEF ImpliedAt
    <2>3. out.err = "ok" /\ out.tree = PutNode(tr, at, node, Clock)
      BY <2>2 DEF Outcome
    <2>4. SeenPut(tr, out.tree, at, node)
      BY <2>3, PutSeen
    <2>5. Shown(node) = ADir
      BY <2>1 DEF Node, Shown
    <2>6. QED
      BY <1>3, <2>1, <2>3, <2>4, <2>5 DEF SeenPut, MadeAt, ImpliedSeenAs, Exists
  <1>4. CASE l.err = "ok" /\ Exists(tr, l.at)
    <2>1. \/ stat.err # "ok" /\ out = Outcome(stat.err, tr)
          \/ out = Outcome("notdir", tr)
          \/ stat.err = "ok" /\ IsDir(tr, stat.at) /\ out = Outcome("ok", tr)
      BY <1>2, <1>4 DEF ImpliedAt
    <2>2. QED
      BY <1>1, <1>4, <2>1 DEF Outcome, ImpliedSeenAs, Exists
  <1>5. CASE l.err # "ok"
    <2>1. out = Outcome(l.err, tr)
      BY <1>2, <1>5 DEF ImpliedAt
    <2>2. QED
      BY <1>5, <2>1 DEF Outcome
  <1>6. QED
    BY <1>3, <1>4, <1>5

-----------------------------------------------------------------------------
(* The directories on the way to a path, and the rest of the tree around    *)
(* it.                                                                      *)

\* The directories on the way to a path.
Ancestors(p) == {SubSeq(p, 1, i) : i \in 1..Len(p)-1}

\* They are its parent and those above it.
StartOf(dir, q) == \E i \in 1..Len(dir) : q = SubSeq(dir, 1, i)

\* The proper ancestors of an entry are its directory and that directory's ancestors.
LEMMA AncestorsOf ==
    ASSUME NEW dir \in Seq(Name), NEW last, NEW p, p = Append(dir, last)
    PROVE  /\ Len(p) = Len(dir) + 1
           /\ \A q \in Ancestors(p) : StartOf(dir, q)
           /\ \A i \in 1..Len(dir) : SubSeq(dir, 1, i) \in Ancestors(p)
           /\ Ancestors(p) \subseteq Ancestors(dir) \union {dir}
  <1>1. PICK s \in Seq({last} \union Name), e \in {last} \union Name : s = dir /\ e = last
    OBVIOUS
  <1>2. p = Append(s, e) /\ Len(p) = Len(dir) + 1
    BY <1>1, FrontAppend
  <1>3. \A i \in 1..Len(dir) : SubSeq(p, 1, i) = SubSeq(dir, 1, i)
    <2>1. \A i \in 1..Len(s)+1 : SubSeq(Append(s, e), 1, i) =
                                     IF i = Len(s) + 1 THEN Append(s, e) ELSE SubSeq(s, 1, i)
      BY PrefixOfAppend
    <2>2. QED
      BY <1>1, <1>2, <2>1
  <1>4. Len(p) - 1 = Len(dir)
    BY <1>2
  <1>5. \A q : q \in Ancestors(p) <=> \E i \in 1..Len(dir) : q = SubSeq(dir, 1, i)
    BY <1>3, <1>4 DEF Ancestors
  <1>6. SubSeq(dir, 1, Len(dir)) = dir
    OBVIOUS
  <1>7. QED
    BY <1>2, <1>5, <1>6 DEF Ancestors, StartOf

\* What starts the parent is one of them.
LEMMA AncestorIs ==
    ASSUME NEW dir \in Seq(Name), NEW last, NEW p, p = Append(dir, last), NEW i \in 1..Len(dir)
    PROVE  SubSeq(dir, 1, i) \in Ancestors(p)
  <1>1. \A j \in 1..Len(dir) : SubSeq(dir, 1, j) \in Ancestors(p)
    BY AncestorsOf
  <1>2. QED
    BY <1>1

\* A directory on the way is a path of names, above the path and not below it.
LEMMA AncestorType ==
    ASSUME NEW dir \in Seq(Name), NEW last, NEW p, p = Append(dir, last), NEW q \in Ancestors(p)
    PROVE  /\ q \in Seq(Name) /\ q # << >> /\ Under(q, dir)
           /\ ~Under(p, q) /\ ~Below(dir, q) /\ q # p
  <1>0. StartOf(dir, q)
    BY AncestorsOf
  <1>1. PICK i \in 1..Len(dir) : q = SubSeq(dir, 1, i)
    BY <1>0 DEF StartOf
  <1>2. q \in Seq(Name) /\ Len(q) = i /\ \A j \in 1..i : q[j] = dir[j]
    BY <1>1
  <1>3. Len(p) = Len(dir) + 1
    BY AncestorsOf
  <1>4. QED
    BY <1>2, <1>3 DEF Under, Below

\* A path of a tree has all of them.
LEMMA AncestorsThere ==
    ASSUME NEW tr, IsTree(tr), NEW dir \in DOMAIN tr, NEW last, NEW p, p = Append(dir, last)
    PROVE  /\ \A q \in Ancestors(p) : q \in DOMAIN tr /\ (q # dir => IsDir(tr, q))
           /\ IsDir(tr, dir) => \A q \in Ancestors(p) : IsDir(tr, q)
  <1>1. dir \in Seq(Name)
    BY TreePaths
  <1>2. ASSUME NEW q \in Ancestors(p)
        PROVE  q \in DOMAIN tr /\ (q # dir => IsDir(tr, q))
    <2>1. q \in Seq(Name) /\ Under(q, dir)
      BY <1>1, AncestorType
    <2>2. QED
      BY <2>1, PrefixThere
  <1>3. QED
    BY <1>2

\* Nothing lies in a place that is free, or whose parent is no directory.
LEMMA NothingUnder ==
    ASSUME NEW tr, IsTree(tr), NEW dir \in Seq(Name), NEW last,
           NEW at, at = Append(dir, last),
           last \notin Name \/ ~IsDir(tr, dir) \/ at \notin DOMAIN tr
    PROVE  \A q \in DOMAIN tr : ~Under(at, q)
  <1>1. SUFFICES ASSUME NEW q \in DOMAIN tr, Under(at, q) PROVE FALSE
    OBVIOUS
  <1>2. q \in Seq(Name)
    BY TreePaths
  <1>3. at \in Seq({last} \union Name) /\ Len(at) = Len(dir) + 1 /\ at[Len(at)] = last
    OBVIOUS
  <1>4. last \in Name
    <2>1. Len(at) \in 1..Len(q) /\ q[Len(at)] = last
      BY <1>1, <1>2, <1>3 DEF Under
    <2>2. QED
      BY <1>2, <2>1
  <1>5. at \in Seq(Name) /\ at # << >> /\ Front(at) = dir
    BY <1>4, FrontAppend
  <1>6. at \in DOMAIN tr
    BY <1>1, <1>5, PrefixThere
  <1>7. IsDir(tr, dir)
    BY <1>5, <1>6, TreePaths DEF IsDir, Exists
  <1>8. QED
    BY <1>4, <1>6, <1>7

\* A subtree that is not there need not be cut.
LEMMA NothingCut ==
    ASSUME NEW tr, NEW at, \A q \in DOMAIN tr : ~Under(at, q)
    PROVE  SeenCut(tr, tr, at)
  BY DEF SeenCut

\* RemoveAll: when it succeeds nothing is left in the place, and the rest looks
\* as it did.
LEMMA RemoveAllSeen ==
    ASSUME NEW tr, IsTree(tr), NEW path, NEW dir \in Seq(Name), NEW last \in Name,
           LocatesIn(tr, dir, last, Locate(tr, path)),
           NEW out, out = RemoveAll(tr, path)
    PROVE  /\ out.err # "ok" => out.tree = tr
           /\ out.err = "ok" => SeenCut(tr, out.tree, Append(dir, last))
  <1>1. PICK l, at : l = Locate(tr, path) /\ at = Append(dir, last)
    OBVIOUS
  <1>2. out = RemoveLocated(tr, l)
    BY <1>1 DEF RemoveAll
  <1>3. CASE l.err = "ok" /\ Exists(tr, l.at)
    <2>1. out = Outcome("ok", RemoveTree(tr, l.at, Clock)) /\ l.at = at
      BY <1>1, <1>2, <1>3 DEF RemoveLocated, LocatesIn
    <2>2. out.err = "ok" /\ out.tree = RemoveTree(tr, at, Clock)
      BY <2>1 DEF Outcome
    <2>3. QED
      BY <1>1, <2>2, CutSeen
  <1>4. CASE ~(l.err = "ok" /\ Exists(tr, l.at))
    <2>1. \E e : out = Outcome(e, tr)
      BY <1>2, <1>4 DEF RemoveLocated
    <2>2. out.tree = tr
      BY <2>1 DEF Outcome
    <2>3. ~IsDir(tr, dir) \/ at \notin DOMAIN tr
      <3>1. SUFFICES ASSUME IsDir(tr, dir) PROVE at \notin DOMAIN tr
        OBVIOUS
      <3>2. l = At("ok", at)
        BY <1>1, <3>1 DEF LocatesIn
      <3>3. l.err = "ok" /\ l.at = at
        BY <3>2 DEF At
      <3>4. QED
        BY <1>4, <3>3 DEF Exists
    <2>4. SeenCut(tr, tr, at)
      BY <1>1, <2>3, NothingUnder, NothingCut
    <2>5. QED
      BY <1>1, <2>2, <2>4
  <1>5. QED
    BY <1>3, <1>4

\* Lstat: what it finds is in the place, and when it fails nothing is.
SeesAt(tr, at, there) ==
    /\ there.err = "ok" => there.at = at /\ at \in DOMAIN tr
    /\ there.err # "ok" => \A q \in DOMAIN tr : ~Under(at, q)

\* Lstat of a located path says what the tree has at its place.
LEMMA LstatSeen ==
    ASSUME NEW tr, IsTree(tr), NEW path, path # << >>, NEW dir \in Seq(Name), NEW last \in Name,
           LocatesIn(tr, dir, last, Locate(tr, path)),
           NEW at, at = Append(dir, last), NEW there, there = Lstat(tr, path)
    PROVE  SeesAt(tr, at, there)
  <1>1. PICK l : l = Locate(tr, path)
    OBVIOUS
  <1>2. there = IfThere(tr, l)
    BY <1>1 DEF Lstat
  <1>3. there.err = "ok" => there = l /\ l.at \in DOMAIN tr
    BY <1>2 DEF IfThere, At, Exists
  <1>4. there.err # "ok" => ~IsDir(tr, dir) \/ at \notin DOMAIN tr
    <2>1. SUFFICES ASSUME IsDir(tr, dir), at \in DOMAIN tr PROVE there.err = "ok"
      OBVIOUS
    <2>2. l = At("ok", at)
      BY <1>1, <2>1 DEF LocatesIn
    <2>3. l.err = "ok" /\ l.at = at
      BY <2>2 DEF At
    <2>4. QED
      BY <1>2, <2>1, <2>3 DEF IfThere, Exists
  <1>5. QED
    BY <1>1, <1>3, <1>4, NothingUnder DEF LocatesIn, SeesAt

\* Nothing but directories on the way were made.
OnlyWay(old, new, p) ==
    /\ \A q \in DOMAIN old : q \in DOMAIN new /\ Shown(new[q]) = Shown(old[q])
    /\ \A q \in DOMAIN new \ DOMAIN old : q \in Ancestors(p) /\ Shown(new[q]) = ADir

\* Outside of its place, only they were.
Around(old, new, p) ==
    /\ \A q \in DOMAIN old : ~Under(p, q) => q \in DOMAIN new /\ Shown(new[q]) = Shown(old[q])
    /\ \A q \in DOMAIN new \ DOMAIN old : q \in Ancestors(p) \union {p}

\* And the place is free.
MadeRoom(old, new, p) ==
    /\ Around(old, new, p)
    /\ p \notin DOMAIN new
    /\ \A q \in DOMAIN new \ DOMAIN old : Shown(new[q]) = ADir

\* A tree differs from itself by no directory made on the way.
LEMMA OnlyWaySame ==
    ASSUME NEW tr, NEW p
    PROVE  OnlyWay(tr, tr, p)
  BY DEF OnlyWay

\* Directories made on the way are changes around the entry's place.
LEMMA OnlyWayAround ==
    ASSUME NEW old, NEW new, NEW p, OnlyWay(old, new, p)
    PROVE  Around(old, new, p)
  BY DEF OnlyWay, Around

\* One more directory on the way.
LEMMA OnlyWayMade ==
    ASSUME NEW old, NEW now, NEW new, NEW p, OnlyWay(old, now, p),
           NEW at \in Ancestors(p), MadeAt(now, new, at, ADir)
    PROVE  OnlyWay(old, new, p)
  BY DEF OnlyWay, MadeAt

\* The place is cleared.
LEMMA RoomCut ==
    ASSUME NEW old, NEW now, NEW new, NEW dir \in Seq(Name), NEW last,
           NEW p, p = Append(dir, last), OnlyWay(old, now, p), SeenCut(now, new, p)
    PROVE  MadeRoom(old, new, p)
  <1>1. Under(p, p)
    BY AncestorsOf DEF Under
  <1>2. QED
    BY <1>1 DEF OnlyWay, SeenCut, MadeRoom, Around

-----------------------------------------------------------------------------
(* What an entry does to a view, as LayerView has it.                       *)

KeepIn(v, paths, p) ==
    [q \in paths \union Ancestors(p) |-> IF q \in DOMAIN v THEN v[q] ELSE ADir]
OutsideIn(v, p) == {q \in DOMAIN v : ~Under(p, q)}
ClearedIn(v, p) == KeepIn(v, OutsideIn(v, p), p)
DirWith(v, p) == Walk(v, p, TRUE, TRUE).at
PlaceWith(v, name) == Append(DirWith(v, Front(name)), Last(name))

-----------------------------------------------------------------------------
(* The view of a tree, and what the changes of the tree do to it.           *)

\* What is seen of a tree where everything below one path is hidden; and a tree
\* that has nothing there among the paths of these names.
ViewLess(tr, hidden) == [p \in {q \in DOMAIN tr : ~Under(hidden, q)} |-> Shown(tr[p])]
Spares(tr, S, hidden) == \A p \in DOMAIN tr : p \in Seq(S) => ~Under(hidden, p)

\* What the view has.
LEMMA ViewIs ==
    ASSUME NEW hidden, NEW tr
    PROVE  /\ \A q : q \in DOMAIN ViewLess(tr, hidden) <=> q \in DOMAIN tr /\ ~Under(hidden, q)
           /\ \A q \in DOMAIN ViewLess(tr, hidden) : ViewLess(tr, hidden)[q] = Shown(tr[q])
           /\ ViewLess(tr, hidden) =
                 [q \in DOMAIN ViewLess(tr, hidden) |-> ViewLess(tr, hidden)[q]]
  BY DEF ViewLess

\* Trees that look alike but for what is hidden.
SeenAlike(old, new, hidden) ==
    \A q : ~Under(hidden, q) =>
              /\ q \in DOMAIN new <=> q \in DOMAIN old
              /\ q \in DOMAIN old => Shown(new[q]) = Shown(old[q])

\* Trees that differ in nothing but what is hidden and times have the same view.
LEMMA ViewAlike ==
    ASSUME NEW hidden, NEW old, NEW new, SeenAlike(old, new, hidden)
    PROVE  ViewLess(new, hidden) = ViewLess(old, hidden)
  BY ViewIs DEF SeenAlike

\* A lookup by the other names sees no more than what is visible.
LEMMA ViewWalk ==
    ASSUME NEW hidden, NEW S, NEW tr, IsTree(tr), LinksWithin(tr, S), Spares(tr, S, hidden),
           NEW path \in Seq(Part), path \in Seq(S)
    PROVE  /\ Walk(ViewLess(tr, hidden), path, TRUE, TRUE) = Walk(tr, path, TRUE, TRUE)
           /\ Walk(ViewLess(tr, hidden), path, FALSE, TRUE) = Walk(tr, path, FALSE, TRUE)
  <1>1. PICK v : v = ViewLess(tr, hidden)
    OBVIOUS
  <1>2. ASSUME NEW p \in Seq(S)
        PROVE  /\ p \in DOMAIN v <=> p \in DOMAIN tr
               /\ p \in DOMAIN tr => SameWay(tr, v, p)
    <2>1. p \in DOMAIN v <=> p \in DOMAIN tr
      BY <1>1, ViewIs DEF Spares
    <2>2. ASSUME p \in DOMAIN tr PROVE SameWay(tr, v, p)
      <3>1. PICK node, look : node = tr[p] /\ look = v[p] /\ look = Shown(node)
        BY <1>1, <2>1, <2>2, ViewIs
      <3>2. look.kind = node.kind /\ (node.kind = "sym" => look.link = node.link)
        BY <3>1 DEF Shown, ADir
      <3>3. QED
        BY <3>1, <3>2 DEF SameWay
    <2>3. QED
      BY <2>1, <2>2
  <1>3. PICK no \in BOOLEAN, yes \in BOOLEAN : no = FALSE /\ yes = TRUE
    OBVIOUS
  <1>4. /\ Walk(v, path, no, yes) = Walk(tr, path, no, yes)
        /\ Walk(v, path, yes, yes) = Walk(tr, path, yes, yes)
    BY <1>2, WalkElsewhere
  <1>5. QED
    BY <1>1, <1>3, <1>4

\* So it finds the same directory, and leaves the root where it did.
LEMMA ViewPlaces ==
    ASSUME NEW hidden, NEW S, NEW tr, IsTree(tr), LinksWithin(tr, S), Spares(tr, S, hidden),
           NEW name, name \in Seq(S), name # << >>, Front(name) \in Seq(Part)
    PROVE  /\ DirWith(ViewLess(tr, hidden), Front(name)) = Walk(tr, Front(name), TRUE, TRUE).at
           /\ LeavesBelow(ViewLess(tr, hidden), Front(name)) <=> LeavesBelow(tr, Front(name))
  <1>1. PICK dir : dir = Front(name) /\ dir \in Seq(Part) /\ dir \in Seq(S)
    BY FrontProperties
  <1>2. dir \in Seq(Part) /\ dir \in Seq(S)
    BY <1>1
  <1>3. Walk(ViewLess(tr, hidden), dir, TRUE, TRUE) = Walk(tr, dir, TRUE, TRUE)
    BY <1>2, ViewWalk, ZenonT(30)
  <1>4. Walk(ViewLess(tr, hidden), dir, FALSE, TRUE) = Walk(tr, dir, FALSE, TRUE)
    BY <1>2, ViewWalk, ZenonT(30)
  <1>5. QED
    BY <1>1, <1>3, <1>4 DEF DirWith, LeavesBelow

\* The root lies on every way.
LEMMA RootThere == ASSUME NEW tr, IsTree(tr) PROVE << >> \in DOMAIN tr
  BY DEF IsTree, WellFormed

\* What one entry does to the view.
Reaches(v, p) == \A q \in Ancestors(p) : q \in DOMAIN v => IsDir(v, q)
FreshIn(kind, link, p, number) ==
    [kind |-> kind, link |-> link, ino |-> <<number, Len(p)>>, by |-> number]
ReplacedIn(v, p, look) ==
    [q \in DOMAIN ClearedIn(v, p) \union {p} |-> IF q = p THEN look ELSE ClearedIn(v, p)[q]]
LinkIn(v, w, p, to, number) ==
    \E t : /\ t = PlaceWith(ClearedIn(v, p), to)
           /\ ~LeavesBelow(ClearedIn(v, p), Front(to))
           /\ t \in DOMAIN ClearedIn(v, p) /\ ~IsDir(ClearedIn(v, p), t)
           /\ w = ReplacedIn(v, p, [v[t] EXCEPT !.by = number])
PutAs(v, w, h, p, number) ==
    \/ h.type = "dir" /\ Reaches(v, p) /\ IsDir(v, p) /\ w = v
    \/ h.type = "dir" /\ Reaches(v, p) /\ ~IsDir(v, p) /\ w = ReplacedIn(v, p, ADir)
    \/ /\ h.type \in {"reg", "plink"} /\ Reaches(v, p)
       /\ w = ReplacedIn(v, p, FreshIn("reg", NoLink, p, number))
    \/ /\ h.type = "sym" /\ Reaches(v, p)
       /\ w = ReplacedIn(v, p, FreshIn("sym", h.link, p, number))
    \/ h.type = "dev" /\ InUserNS /\ Reaches(v, p) /\ w = ClearedIn(v, p)
    \/ h.type = "dev" /\ InUserNS /\ ~Reaches(v, p) /\ w = v
    \/ /\ h.type = "dev" /\ ~InUserNS /\ Reaches(v, p)
       /\ w = ReplacedIn(v, p, FreshIn("dev", NoLink, p, number))
    \/ h.type = "link" /\ Reaches(v, p) /\ LinkIn(v, w, p, h.link.to, number)

\* A place that nothing hidden has to do with.
Unhidden(dir, last, p, hidden) ==
    /\ dir \in Seq(Name) /\ p = Append(dir, last)
    /\ \A q \in Ancestors(p) \union {p} : ~Under(hidden, q)

\* A directory of the tree is one of the view.
LEMMA DirSeen ==
    ASSUME NEW hidden, NEW tr, NEW q
    PROVE  IsDir(ViewLess(tr, hidden), q) <=> IsDir(tr, q) /\ ~Under(hidden, q)
  <1>1. PICK v : v = ViewLess(tr, hidden)
    OBVIOUS
  <1>2. q \in DOMAIN v <=> q \in DOMAIN tr /\ ~Under(hidden, q)
    BY <1>1, ViewIs
  <1>3. q \in DOMAIN v => v[q] = Shown(tr[q])
    BY <1>1, ViewIs
  <1>4. \A node : Shown(node).kind = "dir" <=> node.kind = "dir"
    BY DEF Shown, ADir
  <1>5. QED
    BY <1>1, <1>2, <1>3, <1>4 DEF IsDir, Exists

\* What looks the same is a directory or not.
LEMMA SameDir ==
    ASSUME NEW a, NEW b, Shown(a) = Shown(b)
    PROVE  a.kind = "dir" <=> b.kind = "dir"
  BY DEF Shown, ADir

\* The directory is there when the entry is made: nothing on the way was in the
\* way.
LEMMA ReachesSeen ==
    ASSUME NEW hidden, NEW old, NEW new, IsTree(new),
           NEW dir, NEW last, NEW p, Unhidden(dir, last, p, hidden),
           Around(old, new, p), IsDir(new, dir)
    PROVE  Reaches(ViewLess(old, hidden), p)
  <1>1. SUFFICES ASSUME NEW q \in Ancestors(p), q \in DOMAIN ViewLess(old, hidden)
                 PROVE  IsDir(ViewLess(old, hidden), q)
    BY DEF Reaches
  <1>2. dir \in Seq(Name) /\ p = Append(dir, last) /\ dir \in DOMAIN new
    BY DEF Unhidden, IsDir, Exists
  <1>3. IsDir(new, q)
    <2>1. \A s \in Ancestors(p) : IsDir(new, s)
      BY <1>2, AncestorsThere
    <2>2. QED
      BY <2>1
  <1>4. ~Under(p, q)
    BY <1>2, AncestorType
  <1>5. q \in DOMAIN old /\ ~Under(hidden, q)
    BY <1>1, ViewIs
  <1>6. Shown(new[q]) = Shown(old[q])
    BY <1>4, <1>5 DEF Around
  <1>7. IsDir(old, q)
    BY <1>3, <1>5, <1>6, SameDir DEF IsDir, Exists
  <1>8. QED
    BY <1>5, <1>7, DirSeen

\* The place is cleared: so the view is.
LEMMA RoomSeen ==
    ASSUME NEW hidden, NEW old, NEW new, IsTree(new),
           NEW dir, NEW last, NEW p, Unhidden(dir, last, p, hidden),
           MadeRoom(old, new, p), dir \in DOMAIN new
    PROVE  ViewLess(new, hidden) = ClearedIn(ViewLess(old, hidden), p)
  <1>1. PICK v, w, c : /\ v = ViewLess(old, hidden) /\ w = ViewLess(new, hidden)
                       /\ c = ClearedIn(v, p)
    OBVIOUS
  <1>2. dir \in Seq(Name) /\ p = Append(dir, last)
    BY DEF Unhidden
  <1>3. p \notin DOMAIN new /\ Around(old, new, p)
    BY DEF MadeRoom
  <1>4. ASSUME NEW q \in DOMAIN new PROVE ~Under(p, q)
    BY <1>2, <1>3, NothingUnder
  <1>5. ASSUME NEW q \in Ancestors(p)
        PROVE  q \in DOMAIN new /\ ~Under(hidden, q) /\ ~Under(p, q)
    <2>1. \A s \in Ancestors(p) : s \in DOMAIN new
      BY <1>2, AncestorsThere
    <2>2. ~Under(p, q)
      BY <1>2, AncestorType
    <2>3. QED
      BY <2>1, <2>2 DEF Unhidden
  <1>6. \A q : q \in DOMAIN v <=> q \in DOMAIN old /\ ~Under(hidden, q)
    BY <1>1, ViewIs
  <1>7. \A q : q \in DOMAIN w <=> q \in DOMAIN new /\ ~Under(hidden, q)
    BY <1>1, ViewIs
  <1>8. \A q : q \in DOMAIN c <=> (q \in DOMAIN v /\ ~Under(p, q)) \/ q \in Ancestors(p)
    BY <1>1 DEF ClearedIn, KeepIn, OutsideIn
  <1>9. \A q : q \in DOMAIN w <=> q \in DOMAIN c
    <2>1. ASSUME NEW q \in DOMAIN w PROVE q \in DOMAIN c
      <3>1. q \in DOMAIN new /\ ~Under(hidden, q) /\ ~Under(p, q)
        BY <1>4, <1>7
      <3>2. CASE q \in DOMAIN old
        BY <1>6, <1>8, <3>1, <3>2
      <3>3. CASE q \notin DOMAIN old
        BY <1>3, <1>8, <3>1, <3>3 DEF Around
      <3>4. QED
        BY <3>2, <3>3
    <2>2. ASSUME NEW q \in DOMAIN c PROVE q \in DOMAIN w
      <3>1. CASE q \in Ancestors(p)
        BY <1>5, <1>7, <3>1
      <3>2. CASE q \in DOMAIN v /\ ~Under(p, q)
        BY <1>3, <1>6, <1>7, <3>2 DEF Around
      <3>3. QED
        BY <1>8, <2>2, <3>1, <3>2
    <2>3. QED
      BY <2>1, <2>2
  <1>10. ASSUME NEW q \in DOMAIN w PROVE w[q] = c[q]
    <2>1. /\ q \in DOMAIN new /\ ~Under(hidden, q) /\ ~Under(p, q)
          /\ w[q] = Shown(new[q]) /\ q \in DOMAIN c
      BY <1>1, <1>4, <1>7, <1>9, <1>10, ViewIs
    <2>2. c[q] = IF q \in DOMAIN v THEN v[q] ELSE ADir
      BY <1>1, <2>1 DEF ClearedIn, KeepIn, OutsideIn
    <2>3. CASE q \in DOMAIN old
      <3>1. Shown(new[q]) = Shown(old[q])
        BY <1>3, <2>1, <2>3 DEF Around
      <3>2. q \in DOMAIN v /\ v[q] = Shown(old[q])
        BY <1>1, <1>6, <2>1, <2>3, ViewIs
      <3>3. QED
        BY <2>1, <2>2, <3>1, <3>2
    <2>4. CASE q \notin DOMAIN old
      <3>1. Shown(new[q]) = ADir /\ q \notin DOMAIN v
        BY <1>6, <2>1, <2>4 DEF MadeRoom
      <3>2. QED
        BY <2>1, <2>2, <3>1
    <2>5. QED
      BY <2>3, <2>4
  <1>11. w = [q \in DOMAIN w |-> w[q]] /\ c = [q \in DOMAIN c |-> c[q]]
    BY <1>1, ViewIs DEF ClearedIn, KeepIn
  <1>12. w = c
    BY <1>9, <1>10, <1>11
  <1>13. QED
    BY <1>1, <1>12

\* And what is made there is what the view has in the place.
LEMMA ReplacedSeen ==
    ASSUME NEW hidden, NEW old, NEW now, IsTree(now), NEW new,
           NEW dir, NEW last, NEW p, Unhidden(dir, last, p, hidden),
           MadeRoom(old, now, p), dir \in DOMAIN now, NEW look, MadeAt(now, new, p, look)
    PROVE  ViewLess(new, hidden) = ReplacedIn(ViewLess(old, hidden), p, look)
  <1>1. PICK c, w, r : /\ c = ClearedIn(ViewLess(old, hidden), p) /\ w = ViewLess(new, hidden)
                       /\ r = ReplacedIn(ViewLess(old, hidden), p, look)
    OBVIOUS
  <1>2. c = ViewLess(now, hidden)
    BY <1>1, RoomSeen
  <1>3. ~Under(hidden, p)
    BY DEF Unhidden
  <1>4. \A q : q \in DOMAIN c <=> q \in DOMAIN now /\ ~Under(hidden, q)
    BY <1>2, ViewIs
  <1>5. \A q : q \in DOMAIN w <=> q \in DOMAIN new /\ ~Under(hidden, q)
    BY <1>1, ViewIs
  <1>6. DOMAIN r = DOMAIN c \union {p}
    BY <1>1 DEF ReplacedIn
  <1>7. DOMAIN new = DOMAIN now \union {p} /\ Shown(new[p]) = look
    BY DEF MadeAt
  <1>8. DOMAIN w = DOMAIN r
    BY <1>3, <1>4, <1>5, <1>6, <1>7
  <1>9. ASSUME NEW q \in DOMAIN w PROVE w[q] = r[q]
    <2>1. w[q] = Shown(new[q]) /\ q \in DOMAIN new /\ q \in DOMAIN r
      BY <1>1, <1>5, <1>8, <1>9, ViewIs
    <2>2. CASE q = p
      BY <1>1, <1>7, <2>1, <2>2 DEF ReplacedIn
    <2>3. CASE q # p
      <3>1. q \in DOMAIN c /\ q \in DOMAIN now
        BY <1>4, <1>6, <2>1, <2>3
      <3>2. r[q] = c[q]
        BY <1>1, <1>6, <2>1, <2>3 DEF ReplacedIn
      <3>3. c[q] = Shown(now[q])
        BY <1>2, <3>1, ViewIs
      <3>4. Shown(new[q]) = Shown(now[q])
        BY <3>1 DEF MadeAt
      <3>5. QED
        BY <2>1, <3>2, <3>3, <3>4
    <2>4. QED
      BY <2>2, <2>3
  <1>10. w = [q \in DOMAIN w |-> w[q]] /\ r = [q \in DOMAIN r |-> r[q]]
    BY <1>1, ViewIs DEF ReplacedIn
  <1>11. w = r
    BY <1>8, <1>9, <1>10
  <1>12. QED
    BY <1>1, <1>11

\* Outside of the place the view is what it was, and only parents were made.
AroundIn(v, w, p) ==
    /\ \A q \in OutsideIn(v, p) : q \in DOMAIN w /\ w[q] = v[q]
    /\ \A q \in DOMAIN w \ DOMAIN v : q \in Ancestors(p) \union {p}

\* Changes around a place in the tree show as changes around it in the view.
LEMMA AroundSeen ==
    ASSUME NEW hidden, NEW old, NEW new, NEW p, Around(old, new, p)
    PROVE  AroundIn(ViewLess(old, hidden), ViewLess(new, hidden), p)
  <1>1. PICK v, w : v = ViewLess(old, hidden) /\ w = ViewLess(new, hidden)
    OBVIOUS
  <1>2. /\ \A q : q \in DOMAIN v <=> q \in DOMAIN old /\ ~Under(hidden, q)
        /\ \A q \in DOMAIN v : v[q] = Shown(old[q])
    BY <1>1, ViewIs
  <1>3. /\ \A q : q \in DOMAIN w <=> q \in DOMAIN new /\ ~Under(hidden, q)
        /\ \A q \in DOMAIN w : w[q] = Shown(new[q])
    BY <1>1, ViewIs
  <1>4. \A q \in OutsideIn(v, p) : q \in DOMAIN w /\ w[q] = v[q]
    BY <1>2, <1>3 DEF Around, OutsideIn
  <1>5. \A q \in DOMAIN w \ DOMAIN v : q \in Ancestors(p) \union {p}
    BY <1>2, <1>3 DEF Around
  <1>6. QED
    BY <1>1, <1>4, <1>5 DEF AroundIn

\* What is the same below the root is so to the view.
LEMMA SameAlikeSeen ==
    ASSUME NEW hidden, NEW old, NEW new, SeenSame(old, new)
    PROVE  ViewLess(new, hidden) = ViewLess(old, hidden)
  <1>1. SeenAlike(old, new, hidden)
    BY DEF SeenSame, SeenAlike
  <1>2. QED
    BY <1>1, ViewAlike

\* A subtree that goes, or that nobody saw.
LEMMA ViewCut ==
    ASSUME NEW hidden, NEW old, NEW new, NEW at, SeenCut(old, new, at)
    PROVE  /\ Under(hidden, at) /\ (\A q : Under(at, q) => Under(hidden, q))
                 => ViewLess(new, hidden) = ViewLess(old, hidden)
           /\ ViewLess(new, hidden) =
                 KeepIn(ViewLess(old, hidden), OutsideIn(ViewLess(old, hidden), at), << >>)
  <1>1. PICK v, w, c : /\ v = ViewLess(old, hidden) /\ w = ViewLess(new, hidden)
                       /\ c = KeepIn(v, OutsideIn(v, at), << >>)
    OBVIOUS
  <1>2. \A q : q \in DOMAIN v <=> q \in DOMAIN old /\ ~Under(hidden, q)
    BY <1>1, ViewIs
  <1>3. \A q : q \in DOMAIN w <=> q \in DOMAIN new /\ ~Under(hidden, q)
    BY <1>1, ViewIs
  <1>4. Ancestors(<< >>) = {}
    BY DEF Ancestors
  <1>5. \A q : q \in DOMAIN c <=> q \in DOMAIN v /\ ~Under(at, q)
    BY <1>1, <1>4 DEF KeepIn, OutsideIn
  <1>6. \A q : q \in DOMAIN new <=> q \in DOMAIN old /\ ~Under(at, q)
    BY DEF SeenCut
  <1>7. DOMAIN w = DOMAIN c
    BY <1>2, <1>3, <1>5, <1>6
  <1>8. ASSUME NEW q \in DOMAIN w PROVE w[q] = c[q]
    <2>1. q \in DOMAIN new /\ q \in DOMAIN v /\ q \in DOMAIN c
      BY <1>2, <1>3, <1>6, <1>7, <1>8
    <2>2. w[q] = Shown(new[q]) /\ v[q] = Shown(old[q])
      BY <1>1, <1>8, <2>1, ViewIs
    <2>3. c[q] = v[q]
      BY <1>1, <2>1 DEF KeepIn
    <2>4. Shown(new[q]) = Shown(old[q])
      BY <2>1 DEF SeenCut
    <2>5. QED
      BY <2>2, <2>3, <2>4
  <1>9. w = [q \in DOMAIN w |-> w[q]] /\ c = [q \in DOMAIN c |-> c[q]]
    BY <1>1, ViewIs DEF KeepIn
  <1>10. w = c
    BY <1>7, <1>8, <1>9
  <1>11. ASSUME \A q : Under(at, q) => Under(hidden, q)
         PROVE  w = v
    <2>1. SeenAlike(old, new, hidden)
      BY <1>6, <1>11 DEF SeenAlike, SeenCut
    <2>2. QED
      BY <1>1, <2>1, ViewAlike
  <1>12. QED
    BY <1>1, <1>10, <1>11

\* What looks the same leads the same way.
LEMMA ShownWay ==
    ASSUME NEW a, NEW b, Shown(a) = Shown(b)
    PROVE  a.kind = b.kind /\ (b.kind = "sym" => a.link = b.link)
  <1>1. Shown(a).kind = a.kind /\ Shown(b).kind = b.kind
    BY DEF Shown, ADir
  <1>2. b.kind = "sym" /\ a.kind = "sym" => Shown(a).link = a.link /\ Shown(b).link = b.link
    BY DEF Shown
  <1>3. QED
    BY <1>1, <1>2

\* When the parent was there, nothing had to be made on the way to it.
LEMMA NothingMadeOnWay ==
    ASSUME NEW old, IsTree(old), NEW new, IsTree(new), NEW dir \in DOMAIN old, NEW last,
           NEW p, p = Append(dir, last),
           MadeRoom(old, new, p) \/ OnlyWay(old, new, p)
    PROVE  Shrunk(old, new)
  <1>1. SUFFICES ASSUME NEW q \in DOMAIN new PROVE q \in DOMAIN old /\ SameWay(old, new, q)
    BY DEF Shrunk
  <1>2. dir \in Seq(Name)
    BY TreePaths
  <1>3. q \in DOMAIN old
    <2>1. SUFFICES ASSUME q \notin DOMAIN old PROVE FALSE
      OBVIOUS
    <2>2. q \in Ancestors(p)
      <3>1. CASE MadeRoom(old, new, p)
        <4>1. q \in Ancestors(p) \union {p}
          BY <1>1, <2>1, <3>1 DEF MadeRoom, Around
        <4>2. p \notin DOMAIN new
          BY <3>1 DEF MadeRoom
        <4>3. QED
          BY <1>1, <4>1, <4>2
      <3>2. CASE OnlyWay(old, new, p)
        BY <1>1, <2>1, <3>2 DEF OnlyWay
      <3>3. QED
        BY <3>1, <3>2
    <2>3. \A s \in Ancestors(p) : s \in DOMAIN old
      BY AncestorsThere
    <2>4. QED
      BY <2>1, <2>2, <2>3
  <1>4. Shown(new[q]) = Shown(old[q])
    <2>1. CASE MadeRoom(old, new, p)
      <3>1. p \notin DOMAIN new
        BY <2>1 DEF MadeRoom
      <3>2. \A s \in DOMAIN new : ~Under(p, s)
        BY <1>2, <3>1, NothingUnder
      <3>3. QED
        BY <1>1, <1>3, <2>1, <3>2 DEF MadeRoom, Around
    <2>2. CASE OnlyWay(old, new, p)
      BY <1>3, <2>2 DEF OnlyWay
    <2>3. QED
      BY <2>1, <2>2
  <1>5. SameWay(old, new, q)
    BY <1>4, ShownWay DEF SameWay
  <1>6. QED
    BY <1>3, <1>5

\* So what acted in the parent then acts there now.
LEMMA LocatePresent ==
    ASSUME NEW old, IsTree(old), NEW new, IsTree(new), NEW dir \in DOMAIN old, NEW last,
           NEW spot, spot = Append(dir, last),
           MadeRoom(old, new, spot) \/ OnlyWay(old, new, spot),
           NEW path, Front(path) \in Seq(Part), Last(path) = last,
           NEW w, w = Walk(old, Front(path), FALSE, TRUE), w.err = "ok", w.at = dir,
           NEW l, l = Locate(new, path), l.err = "ok"
    PROVE  ActsIn(new, dir, last, l)
  <1>1. Shrunk(old, new)
    BY NothingMadeOnWay
  <1>2. ActsIn(new, w.at, Last(path), l)
    BY <1>1, LocateShrunk
  <1>3. QED
    BY <1>2

\* What goes from the place, or is made in it, leaves what is around.
LEMMA AroundCut ==
    ASSUME NEW old, NEW now, NEW new, NEW p, NEW at,
           \A q \in DOMAIN old : Under(at, q) => Under(p, q),
           Around(old, now, p), SeenCut(now, new, at)
    PROVE  Around(old, new, p)
  BY DEF Around, SeenCut

\* A node made or stamped at the place is a change around it.
LEMMA AroundMade ==
    ASSUME NEW old, NEW now, NEW new, NEW p, Under(p, p), Around(old, now, p),
           \/ \E look : MadeAt(now, new, p, look)
           \/ \E by : SeenStamp(now, new, p, by)
    PROVE  Around(old, new, p)
  BY DEF Around, MadeAt, SeenStamp

\* What createTarFile makes, whole or in part, is a change around the entry's place.
LEMMA CreatedAround ==
    ASSUME NEW old, NEW now, NEW new, NEW p, Under(p, p), Around(old, now, p),
           NEW l, l.err = "ok" => l.at = p, NEW h, CreatedSeen(now, new, l, h)
    PROVE  Around(old, new, p)
  <1>1. CASE new = now
    BY <1>1
  <1>2. CASE /\ l.err = "ok"
             /\ \/ \E look : MadeAt(now, new, p, look)
                \/ \E by : SeenStamp(now, new, p, by)
    BY <1>2, AroundMade
  <1>3. QED
    BY <1>1, <1>2 DEF CreatedSeen, NewKind

\* An entry's place is not above its directory, and what is below it stays below it.
LEMMA SpotUnder ==
    ASSUME NEW dir \in Seq(Name), NEW last, NEW p, p = Append(dir, last)
    PROVE  /\ Len(p) \in Nat /\ Under(p, p) /\ ~Under(p, dir)
           /\ \A q : Len(q) \in Nat /\ Under(p, q) =>
                 \A s : Len(s) \in Nat /\ Under(q, s) => Under(p, s)
  <1>1. Len(p) = Len(dir) + 1
    BY AncestorsOf
  <1>2. QED
    BY <1>1 DEF Under

\* A file, a symlink, a device or a directory in a place that is free.
LEMMA NewLooks ==
    ASSUME NEW h, NEW p, NEW kind, NEW link
    PROVE  Shown(New(h, p, kind, link)) =
              IF kind = "dir" THEN ADir ELSE FreshIn(kind, link, p, h.by)
  BY DEF Shown, New, Node, Inode, FreshIn

\* An entry that names a directory that is there merges with it, and nothing is
\* seen.
LEMMA MergedSeen ==
    ASSUME NEW hidden, NEW old, IsTree(old), NEW now, IsTree(now), NEW new,
           NEW dir, NEW last, NEW p,
           Unhidden(dir, last, p, hidden), OnlyWay(old, now, p), IsDir(now, p),
           NEW by, SeenStamp(now, new, p, by)
    PROVE  /\ ViewLess(new, hidden) = ViewLess(old, hidden) /\ IsDir(ViewLess(old, hidden), p)
           /\ Reaches(ViewLess(old, hidden), p)
  <1>1. dir \in Seq(Name) /\ p = Append(dir, last) /\ ~Under(hidden, p)
    BY DEF Unhidden
  <1>2. p \in DOMAIN now /\ p \in Seq(Name) /\ Len(p) = Len(dir) + 1
    BY <1>1, TreePaths, AncestorsOf DEF IsDir, Exists
  <1>3. Front(p) = dir
    <2>1. PICK S : S = Name \union {last}
      OBVIOUS
    <2>2. dir \in Seq(S) /\ last \in S
      BY <1>1, <2>1
    <2>3. QED
      BY <1>1, <2>2, FrontAppend
  <1>4. p # << >> /\ IsDir(now, dir)
    BY <1>2, <1>3, TreePaths DEF IsDir, Exists
  <1>5. p \in DOMAIN old
    <2>1. \A q \in Ancestors(p) : q # p
      BY <1>1, AncestorType
    <2>2. QED
      BY <1>2, <2>1 DEF OnlyWay
  <1>6. dir \in DOMAIN old
    BY <1>3, <1>4, <1>5, TreePaths
  <1>7. \A q \in Ancestors(p) : q \in DOMAIN old
    BY <1>1, <1>6, AncestorsThere
  <1>8. \A q : q \in DOMAIN now <=> q \in DOMAIN old
    BY <1>7 DEF OnlyWay
  <1>9. ASSUME NEW q \in DOMAIN old PROVE Shown(new[q]) = Shown(old[q])
    <2>1. Shown(now[q]) = Shown(old[q])
      BY <1>9 DEF OnlyWay
    <2>2. CASE q = p
      <3>1. PICK node : node = [now[p] EXCEPT !.by = by]
        OBVIOUS
      <3>2. node.kind = "dir" /\ now[p].kind = "dir"
        <4>1. now[p] \in NodeType /\ now[p].kind = "dir"
          BY <1>2, TreePaths DEF IsDir
        <4>2. QED
          BY <3>1, <4>1 DEF NodeType
      <3>3. Shown(node) = ADir /\ Shown(now[p]) = ADir
        BY <3>2 DEF Shown
      <3>4. Shown(new[p]) = Shown(node)
        BY <3>1 DEF SeenStamp
      <3>5. QED
        BY <2>1, <2>2, <3>3, <3>4
    <2>3. CASE q # p
      <3>1. Shown(new[q]) = Shown(now[q])
        BY <1>8, <1>9, <2>3 DEF SeenStamp
      <3>2. QED
        BY <2>1, <3>1
    <2>4. QED
      BY <2>2, <2>3
  <1>10. SeenAlike(old, new, hidden)
    <2>1. \A q : q \in DOMAIN new <=> q \in DOMAIN old
      BY <1>8 DEF SeenStamp
    <2>2. QED
      BY <1>9, <2>1 DEF SeenAlike
  <1>11. ViewLess(new, hidden) = ViewLess(old, hidden)
    BY <1>10, ViewAlike
  <1>12. IsDir(old, p)
    <2>1. Shown(now[p]) = Shown(old[p]) /\ now[p].kind = "dir"
      BY <1>5 DEF OnlyWay, IsDir
    <2>2. QED
      BY <1>5, <2>1, SameDir DEF IsDir, Exists
  <1>13. IsDir(ViewLess(old, hidden), p)
    BY <1>1, <1>12, DirSeen
  <1>14. Reaches(ViewLess(old, hidden), p)
    BY <1>4, OnlyWayAround, ReachesSeen
  <1>15. QED
    BY <1>11, <1>13, <1>14

\* A place that cannot be reached: nothing has changed there.
LEMMA UnreachedSeen ==
    ASSUME NEW hidden, NEW old, IsTree(old), NEW now, IsTree(now), NEW dir, NEW last, NEW p,
           Unhidden(dir, last, p, hidden), MadeRoom(old, now, p),
           dir \in DOMAIN now, ~IsDir(now, dir)
    PROVE  ViewLess(now, hidden) = ViewLess(old, hidden) /\ ~Reaches(ViewLess(old, hidden), p)
  <1>1. /\ dir \in Seq(Name) /\ p = Append(dir, last)
        /\ \A q \in Ancestors(p) : ~Under(hidden, q)
    BY DEF Unhidden
  <1>2. Around(old, now, p) /\ p \notin DOMAIN now
        /\ \A q \in DOMAIN now \ DOMAIN old : Shown(now[q]) = ADir
    BY DEF MadeRoom
  <1>3. dir # << >> /\ now[dir].kind # "dir"
    BY TreePaths DEF IsDir, Exists
  <1>4. dir \in Ancestors(p)
    <2>1. Len(dir) \in 1..Len(dir) /\ SubSeq(dir, 1, Len(dir)) = dir
      BY <1>1, <1>3
    <2>2. PICK i \in 1..Len(dir) : SubSeq(dir, 1, i) = dir
      BY <2>1
    <2>3. QED
      BY <1>1, <2>2, AncestorIs
  <1>5. ~Under(p, dir)
    BY <1>1, SpotUnder
  <1>6. Shown(now[dir]) # ADir
    BY <1>3 DEF Shown, ADir
  <1>7. dir \in DOMAIN old
    BY <1>2, <1>6
  <1>8. ~IsDir(old, dir)
    <2>1. Shown(now[dir]) = Shown(old[dir])
      BY <1>2, <1>5, <1>7 DEF Around
    <2>2. QED
      BY <1>3, <2>1, SameDir DEF IsDir
  <1>9. ~Reaches(ViewLess(old, hidden), p)
    <2>1. dir \in DOMAIN ViewLess(old, hidden)
      BY <1>1, <1>4, <1>7, ViewIs
    <2>2. ~IsDir(ViewLess(old, hidden), dir)
      BY <1>8, DirSeen
    <2>3. QED
      BY <1>4, <2>1, <2>2 DEF Reaches
  <1>10. \A q \in DOMAIN old : ~Under(p, q)
    BY <1>1, <1>8, NothingUnder
  <1>11. \A q \in Ancestors(p) : q \in DOMAIN old
    BY <1>1, <1>7, AncestorsThere
  <1>12. \A q : q \in DOMAIN now <=> q \in DOMAIN old
    BY <1>2, <1>10, <1>11 DEF Around
  <1>13. \A q \in DOMAIN old : Shown(now[q]) = Shown(old[q])
    BY <1>2, <1>10 DEF Around
  <1>14. SeenAlike(old, now, hidden)
    BY <1>12, <1>13 DEF SeenAlike
  <1>15. QED
    BY <1>9, <1>14, ViewAlike

\* What is linked looks like its target.
LEMMA LinkedSeen ==
    ASSUME NEW hidden, NEW S, NEW old, NEW now, IsTree(now), LinksWithin(now, S),
           Spares(now, S, hidden), NEW new,
           NEW dir, NEW last, NEW p, Unhidden(dir, last, p, hidden), MadeRoom(old, now, p),
           dir \in DOMAIN now,
           NEW to \in Seq(Part), to \in Seq(S),
           NEW from, from = TargetOf(now, resolveHardlinkTarget(now, to)), from.err = "ok",
           ~IsDir(now, from.at),
           NEW by, MadeAt(now, new, p, Shown([now[from.at] EXCEPT !.by = by]))
    PROVE  LinkIn(ViewLess(old, hidden), ViewLess(new, hidden), p, to, by)
  <1>1. to # << >> /\ TargetAt(now, to, from)
    BY TargetPlace
  <1>2. PICK front, t, c, v, x, node :
           /\ front = Front(to) /\ t = from.at
           /\ c = ViewLess(now, hidden) /\ v = ViewLess(old, hidden)
           /\ x = Walk(now, Front(to), TRUE, TRUE) /\ node = now[from.at]
    OBVIOUS
  <1>3. t \in DOMAIN now /\ ~LeavesBelow(now, front) /\ t = Append(x.at, Last(to))
    BY <1>1, <1>2 DEF TargetAt
  <1>4. front \in Seq(Part) /\ front \in Seq(S) /\ Last(to) \in S
    BY <1>1, <1>2, FrontProperties DEF Last
  <1>5. /\ DirWith(c, front) = x.at
        /\ LeavesBelow(c, front) <=> LeavesBelow(now, front)
    BY <1>1, <1>2, <1>4, ViewPlaces
  <1>6. c = ClearedIn(v, p)
    BY <1>2, RoomSeen
  <1>7. t = PlaceWith(c, to) /\ ~LeavesBelow(c, front)
    BY <1>2, <1>3, <1>5 DEF PlaceWith
  <1>8. t \in Seq(S)
    <2>1. PICK yes \in BOOLEAN : yes = TRUE
      OBVIOUS
    <2>2. Walk(now, front, yes, yes).at \in Seq(S)
      BY <1>4, WalkWithin
    <2>3. x.at \in Seq(S)
      BY <1>2, <2>1, <2>2
    <2>4. QED
      BY <1>3, <1>4, <2>3
  <1>9. ~Under(hidden, t)
    BY <1>3, <1>8 DEF Spares
  <1>10. t \in DOMAIN c /\ ~IsDir(c, t) /\ c[t] = Shown(node)
    <2>1. t \in DOMAIN c /\ c[t] = Shown(node)
      <3>1. t \in DOMAIN ViewLess(now, hidden)
        BY <1>3, <1>9, ViewIs
      <3>2. ViewLess(now, hidden)[t] = Shown(now[t])
        BY <3>1, ViewIs
      <3>3. QED
        BY <1>2, <3>1, <3>2
    <2>2. ~IsDir(c, t)
      BY <1>2, DirSeen
    <2>3. QED
      BY <2>1, <2>2
  <1>11. t \in DOMAIN v /\ v[t] = c[t]
    <2>1. c[t] = IF t \in DOMAIN v THEN v[t] ELSE ADir
      BY <1>6, <1>10 DEF ClearedIn, KeepIn
    <2>2. c[t] # ADir
      BY <1>10 DEF IsDir, Exists, ADir
    <2>3. t \in DOMAIN v
      BY <2>1, <2>2
    <2>4. QED
      BY <2>1, <2>3
  <1>12. Shown([node EXCEPT !.by = by]) = [Shown(node) EXCEPT !.by = by]
    <2>1. node \in NodeType /\ node.kind # "dir"
      BY <1>2, <1>3, TreePaths DEF IsDir, Exists
    <2>2. PICK new1 : new1 = [node EXCEPT !.by = by]
      OBVIOUS
    <2>3. /\ new1.kind = node.kind /\ new1.link = node.link /\ new1.ino = node.ino
          /\ new1.by = by
      BY <2>1, <2>2 DEF NodeType
    <2>4. QED
      BY <2>1, <2>2, <2>3 DEF Shown
  <1>13. PICK look : look = [v[t] EXCEPT !.by = by]
    OBVIOUS
  <1>14. look = Shown([now[from.at] EXCEPT !.by = by])
    BY <1>2, <1>10, <1>11, <1>12, <1>13
  <1>15. ViewLess(new, hidden) = ReplacedIn(v, p, look)
    BY <1>2, <1>14, ReplacedSeen
  <1>16. /\ t = PlaceWith(ClearedIn(v, p), to) /\ ~LeavesBelow(ClearedIn(v, p), Front(to))
         /\ t \in DOMAIN ClearedIn(v, p) /\ ~IsDir(ClearedIn(v, p), t)
    BY <1>2, <1>6, <1>7, <1>10
  <1>17. QED
    BY <1>2, <1>13, <1>15, <1>16 DEF LinkIn

\* The header an entry is made with.
HeaderOf(e, h, S) ==
    /\ h.type = IF e.type = "plink" THEN "reg" ELSE e.type
    /\ h.type \in {"sym", "link"} => h.link = e.link
    /\ h.link.to \in Seq(Part) /\ h.link.to \in Seq(S)
\* Room has been made for it, or a directory is to be merged with.
ReadyFor(old, now, p, type) ==
    \/ MadeRoom(old, now, p) /\ (type = "dir" => ~IsDir(old, p))
    \/ type = "dir" /\ OnlyWay(old, now, p) /\ IsDir(now, p)

\* createTarFile puts into the view what LayerView has there.
LEMMA CreatedPut ==
    ASSUME NEW hidden, NEW S, NEW old, IsTree(old), NEW now, IsTree(now), LinksWithin(now, S),
           Spares(now, S, hidden), NEW new,
           NEW dir, NEW last, NEW p, Unhidden(dir, last, p, hidden), dir \in DOMAIN now,
           NEW e, NEW h, HeaderOf(e, h, S), ReadyFor(old, now, p, h.type),
           NEW l, l.err = "ok" => l.at = p /\ IsDir(now, dir), CreatedSeen(now, new, l, h)
    PROVE  PutAs(ViewLess(old, hidden), ViewLess(new, hidden), e, p, h.by)
  <1>1. /\ p \in DOMAIN now => h.type = "dir" /\ OnlyWay(old, now, p) /\ IsDir(now, p)
        /\ p \notin DOMAIN now => MadeRoom(old, now, p) /\ (h.type = "dir" => ~IsDir(old, p))
    BY DEF ReadyFor, MadeRoom, IsDir, Exists
  <1>2. ASSUME MadeRoom(old, now, p), IsDir(now, dir)
        PROVE  Reaches(ViewLess(old, hidden), p)
    BY <1>2, ReachesSeen DEF MadeRoom
  <1>3. ASSUME NEW kind, NEW link, l.err = "ok", NewKind(now, new, l, h, kind, link)
        PROVE  /\ MadeRoom(old, now, p) /\ (h.type = "dir" => ~IsDir(old, p))
               /\ Reaches(ViewLess(old, hidden), p)
               /\ ViewLess(new, hidden) =
                     ReplacedIn(ViewLess(old, hidden), p, Shown(New(h, p, kind, link)))
    <2>1. MadeAt(now, new, p, Shown(New(h, p, kind, link)))
      BY <1>3 DEF NewKind
    <2>2. p \notin DOMAIN now
      BY <2>1 DEF MadeAt
    <2>3. MadeRoom(old, now, p) /\ (h.type = "dir" => ~IsDir(old, p))
      BY <1>1, <2>2
    <2>4. Reaches(ViewLess(old, hidden), p)
      BY <1>2, <1>3, <2>3
    <2>5. PICK look : look = Shown(New(h, p, kind, link))
      OBVIOUS
    <2>6. ViewLess(new, hidden) = ReplacedIn(ViewLess(old, hidden), p, look)
      BY <2>1, <2>3, <2>5, ReplacedSeen
    <2>7. QED
      BY <2>3, <2>4, <2>5, <2>6
  <1>4. PICK v, w : v = ViewLess(old, hidden) /\ w = ViewLess(new, hidden)
    OBVIOUS
  <1>5. CASE h.type = "dev" /\ InUserNS /\ new = now
    <2>1. MadeRoom(old, now, p) /\ e.type = "dev"
      BY <1>1, <1>5 DEF HeaderOf
    <2>2. CASE IsDir(now, dir)
      <3>1. Reaches(v, p) /\ w = ClearedIn(v, p)
        BY <1>2, <1>4, <1>5, <2>1, <2>2, RoomSeen
      <3>2. QED
        BY <1>4, <1>5, <2>1, <3>1 DEF PutAs
    <2>3. CASE ~IsDir(now, dir)
      <3>1. ~Reaches(v, p) /\ w = v
        BY <1>4, <1>5, <2>1, <2>3, UnreachedSeen
      <3>2. QED
        BY <1>4, <1>5, <2>1, <3>1 DEF PutAs
    <2>4. QED
      BY <2>2, <2>3
  <1>6. CASE /\ h.type = "dir" /\ l.err = "ok"
             /\ IsDir(now, l.at) /\ SeenStamp(now, new, l.at, h.by)
    <2>1. PICK by : by = h.by /\ SeenStamp(now, new, p, by)
      BY <1>6
    <2>2. IsDir(now, p) /\ OnlyWay(old, now, p)
      BY <1>1, <1>6 DEF IsDir, Exists
    <2>3. w = v /\ IsDir(v, p) /\ Reaches(v, p)
      BY <1>4, <2>1, <2>2, MergedSeen
    <2>4. e.type = "dir"
      BY <1>6 DEF HeaderOf
    <2>5. QED
      BY <1>4, <2>3, <2>4 DEF PutAs
  <1>7. CASE h.type = "reg" /\ l.err = "ok" /\ Exists(now, l.at)
    BY <1>1, <1>7 DEF Exists
  <1>8. CASE h.type = "dir" /\ l.err = "ok" /\ NewKind(now, new, l, h, "dir", NoLink)
    <2>1. /\ ~IsDir(old, p) /\ Reaches(v, p)
          /\ w = ReplacedIn(v, p, Shown(New(h, p, "dir", NoLink)))
      BY <1>3, <1>4, <1>8
    <2>2. Shown(New(h, p, "dir", NoLink)) = ADir
      BY NewLooks
    <2>3. ~IsDir(v, p) /\ w = ReplacedIn(v, p, ADir)
      BY <1>4, <2>1, <2>2, DirSeen
    <2>4. e.type = "dir"
      BY <1>8 DEF HeaderOf
    <2>5. QED
      BY <1>4, <2>1, <2>3, <2>4 DEF PutAs
  <1>9. CASE h.type = "reg" /\ l.err = "ok" /\ NewKind(now, new, l, h, "reg", NoLink)
    <2>1. Reaches(v, p) /\ w = ReplacedIn(v, p, Shown(New(h, p, "reg", NoLink)))
      BY <1>3, <1>4, <1>9
    <2>2. Shown(New(h, p, "reg", NoLink)) = FreshIn("reg", NoLink, p, h.by)
      BY NewLooks
    <2>3. e.type \in {"reg", "plink"}
      BY <1>9 DEF HeaderOf
    <2>4. QED
      BY <1>4, <2>1, <2>2, <2>3 DEF PutAs
  <1>10. CASE /\ h.type = "dev" /\ ~InUserNS /\ l.err = "ok"
              /\ NewKind(now, new, l, h, "dev", NoLink)
    <2>1. Reaches(v, p) /\ w = ReplacedIn(v, p, Shown(New(h, p, "dev", NoLink)))
      BY <1>3, <1>4, <1>10
    <2>2. Shown(New(h, p, "dev", NoLink)) = FreshIn("dev", NoLink, p, h.by)
      BY NewLooks
    <2>3. e.type = "dev"
      BY <1>10 DEF HeaderOf
    <2>4. QED
      BY <1>4, <1>10, <2>1, <2>2, <2>3 DEF PutAs
  <1>11. CASE h.type = "sym" /\ l.err = "ok" /\ NewKind(now, new, l, h, "sym", h.link)
    <2>1. Reaches(v, p) /\ w = ReplacedIn(v, p, Shown(New(h, p, "sym", h.link)))
      BY <1>3, <1>4, <1>11
    <2>2. Shown(New(h, p, "sym", h.link)) = FreshIn("sym", h.link, p, h.by)
      BY NewLooks
    <2>3. e.type = "sym" /\ h.link = e.link
      BY <1>11 DEF HeaderOf
    <2>4. QED
      BY <1>4, <2>1, <2>2, <2>3 DEF PutAs
  <1>12. ASSUME h.type = "link", l.err = "ok", NEW from,
                from = TargetOf(now, resolveHardlinkTarget(now, h.link.to)),
                from.err = "ok", ~IsDir(now, from.at),
                MadeAt(now, new, l.at, Shown([now[from.at] EXCEPT !.by = h.by]))
         PROVE  PutAs(ViewLess(old, hidden), ViewLess(new, hidden), e, p, h.by)
    <2>1. PICK to, by : to = h.link.to /\ by = h.by
      OBVIOUS
    <2>2. MadeAt(now, new, p, Shown([now[from.at] EXCEPT !.by = by]))
      BY <1>12, <2>1
    <2>3. p \notin DOMAIN now
      BY <2>2 DEF MadeAt
    <2>4. MadeRoom(old, now, p) /\ Reaches(v, p)
      BY <1>1, <1>2, <1>4, <1>12, <2>3
    <2>5. to \in Seq(Part) /\ to \in Seq(S) /\ e.type = "link" /\ to = e.link.to
      BY <1>12, <2>1 DEF HeaderOf
    <2>6. from = TargetOf(now, resolveHardlinkTarget(now, to))
      BY <1>12, <2>1
    <2>7. LinkIn(ViewLess(old, hidden), ViewLess(new, hidden), p, to, by)
      BY <1>12, <2>2, <2>4, <2>5, <2>6, LinkedSeen
    <2>8. QED
      BY <1>4, <2>1, <2>4, <2>5, <2>7 DEF PutAs
  <1>13. QED
    BY <1>5, <1>6, <1>7, <1>8, <1>9, <1>10, <1>11, <1>12 DEF CreatedSeen

\* What is below something below a path is below the path.
LEMMA UnderTrans ==
    ASSUME NEW p \in Seq(Name), NEW q \in Seq(Name), NEW s \in Seq(Name),
           Under(p, q), Under(q, s)
    PROVE  Under(p, s)
  BY DEF Under
=============================================================================
