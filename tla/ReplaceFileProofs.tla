-------------------------- MODULE ReplaceFileProofs --------------------------
(***************************************************************************)
(* For archives of any length, any names and any modifiers, and pipes of   *)
(* any size: the rewriter ends behind the command it has started, and that *)
(* command behind its child and the goroutines of os/exec; and a reader    *)
(* that meets the end of the result has what the archive becomes, whole.   *)
(***************************************************************************)
EXTENDS ReplaceFile, SequenceTheorems, FiniteSetTheorems, WellFoundedInduction, TLAPS

\* A command that was not started has nothing that runs; one that was waited for
\* has nothing that runs any more.
NotStarted == waiter = "none" => child = "none" /\ stdin = "none" /\ stdout = "none"
WaitedFor  == waiter = "done" => WaitReturns

\* The rewriter has started the command, if the format needs one, as soon as it
\* reads, and is only behind "closing" once the command is waited for.
Behind ==
    /\ waiter \in {"none", "waits", "done"}
    /\ InPlace => waiter = "none"
    /\ at \in {"start", "ended"} => waiter # "waits"

IInv == NotStarted /\ WaitedFor /\ Behind

\* The invariant holds at the start.
LEMMA InitKeeps == Init => IInv
  BY DEF Init, StreamInit, IInv, NotStarted, WaitedFor, Behind

\* The command and what is around it.
LEMMA GoroutinesKeep == ASSUME IInv, Goroutines, UNCHANGED rewriter PROVE IInv'
  <1> USE DEF IInv, NotStarted, WaitedFor, WaitReturns, FeedEnded, Exited, Behind, InPlace,
              rewriter
  <1>1. CASE /\ Feed
             /\ UNCHANGED <<inputEnd, mode, child, outPipe, stdout, wire, closed, rclosed,
                            waiter, cancelled>>
    BY <1>1 DEF Feed
  <1>2. CASE /\ Child
             /\ UNCHANGED <<inputEnd, mode, stdout, wire, closed, rclosed, waiter, cancelled>>
    BY <1>2 DEF Child
  <1>3. CASE /\ CopyOut
             /\ UNCHANGED <<input, inputEnd, mode, stdin, fed, inPipe, child, closed,
                            rclosed, waiter, cancelled>>
    BY <1>3 DEF CopyOut
  <1>4. CASE Wait /\ UNCHANGED <<input, inputEnd, mode, exec, wire, rclosed, cancelled>>
    BY <1>4 DEF Wait, exec
  <1> QED
    BY <1>1, <1>2, <1>3, <1>4 DEF Goroutines

\* A failure of the copying child keeps the invariant.
LEMMA ChildFailsKeeps == ASSUME IInv, ChildFails, UNCHANGED rewriter PROVE IInv'
  BY DEF ChildFails, rewriter, IInv, NotStarted, WaitedFor, WaitReturns, FeedEnded, Exited,
         Behind, InPlace

\* The rewriter starts the command, and ends when it is done.
LEMMA BeginKeeps == ASSUME IInv, Begin PROVE IInv'
  BY DEF Begin, Start, Goes, stream, exec, IInv, NotStarted, WaitedFor, WaitReturns, FeedEnded,
         Exited, Behind, InPlace

\* Closing the input keeps the invariant.
LEMMA InputClosedKeeps == ASSUME IInv, InputClosed PROVE IInv'
  BY DEF InputClosed, CommandDone, Goes, stream, exec, IInv, NotStarted, WaitedFor, WaitReturns,
         FeedEnded, Exited, Behind, InPlace

\* Whatever it does between leaves the command and its goroutines alone.
Between == /\ at \in {"next", "write", "add", "rest", "close"} /\ at' # "start" /\ at' # "ended"
           /\ UNCHANGED <<mode, exec, waiter>>

\* A modification neither restarts nor ends the rewriter.
LEMMA ModifyStays ==
    ASSUME NEW name, Modify(name), at \in {"next", "rest"}
    PROVE  at' # "start" /\ at' # "ended"
  BY DEF Modify, CloseWithError, Goes

\* The rewriter's own steps are between its start and its end.
LEMMA BetweenSteps ==
    ASSUME ReadNext \/ ReadEnd \/ Written \/ Rest \/ Deferred PROVE Between
  <1>1. CASE ReadNext
    <2>1. at' # "start" /\ at' # "ended"
      BY <1>1, ModifyStays DEF ReadNext, Goes
    <2> QED
      BY <1>1, <2>1 DEF ReadNext, Between, exec
  <1>2. CASE ReadEnd
    BY <1>2 DEF ReadEnd, Goes, stream, exec, Between
  <1>3. CASE Written
    BY <1>3 DEF Written, CloseWithError, Goes, stream, exec, Between
  <1>4. CASE Rest
    <2>1. at' # "start" /\ at' # "ended"
      BY <1>4, ModifyStays DEF Rest, Goes
    <2> QED
      BY <1>4, <2>1 DEF Rest, stream, exec, Between
  <1>5. CASE Deferred
    BY <1>5 DEF Deferred, Goes, Between, exec
  <1> QED
    BY <1>1, <1>2, <1>3, <1>4, <1>5

\* A step between start and end keeps the invariant.
LEMMA BetweenKeeps == ASSUME IInv, Between PROVE IInv'
  BY DEF Between, exec, IInv, NotStarted, WaitedFor, WaitReturns, FeedEnded, Exited, Behind,
         InPlace

\* The reader of the result only moves what it reads.
LEMMA ReaderKeeps == ASSUME IInv, Reads \/ ClosesEarly PROVE IInv'
  BY DEF Reads, ClosesEarly, stream, exec, IInv, NotStarted, WaitedFor, WaitReturns, FeedEnded,
         Exited, Behind, InPlace

\* Every step keeps the invariant.
LEMMA NextKeeps == ASSUME IInv, [Next]_vars PROVE IInv'
  <1>1. CASE UNCHANGED vars
    BY <1>1 DEF vars, stream, rewriter, exec, IInv, NotStarted, WaitedFor, WaitReturns,
                FeedEnded, Exited, Behind, InPlace
  <1>2. CASE Rewriter
    BY <1>2, BeginKeeps, InputClosedKeeps, BetweenSteps, BetweenKeeps DEF Rewriter
  <1>3. CASE Ended
    BY <1>1, <1>3 DEF Ended
  <1> QED
    BY <1>1, <1>2, <1>3, GoroutinesKeep, ChildFailsKeeps, ReaderKeeps DEF Next

\* The strengthened invariant holds in every state.
THEOREM Inductive == Spec => []IInv
  BY InitKeeps, NextKeeps, PTL DEF Spec

\* Once the rewriter has ended no child runs and no goroutine is left, for every
\* archive, every choice of modifiers, every end of the compressed stream and
\* whenever the reader closes the result.  (cmdStream's Close, which waits for
\* cmd.Wait.)
THEOREM NothingIsLeft == Spec => []NothingLeft
  <1>1. IInv => NothingLeft
    BY DEF IInv, NotStarted, WaitedFor, WaitReturns, FeedEnded, Exited, Behind, NothingLeft
  <1> QED
    BY <1>1, Inductive, PTL

-----------------------------------------------------------------------------
(* Pieces of the archive.                                                  *)

\* The entries that can be on the way: those of the archive, changed ones, the trailer.
Units == [name : EntryName \union {""}, content : {"original", "modified", "trailer"}]

\* The sequence s is what follows the first i of the archive f, up to the first j.
Span(f, s, i, j) ==
    /\ i \in Nat /\ j \in Nat /\ i <= j
    /\ s \in Seq(Units) /\ Len(s) = j - i
    /\ \A m \in 1..j-i : s[m] = f[i+m]

\* An empty run spans nothing.
LEMMA SpanEmpty ==
    ASSUME NEW f, NEW i \in Nat
    PROVE  /\ Span(f, << >>, i, i)
           /\ \A j : Span(f, << >>, i, j) => j = i
  <1>1. << >> \in Seq(Units) /\ Len(<< >>) = 0
    OBVIOUS
  <1>2. ASSUME NEW j, Span(f, << >>, i, j) PROVE j = i
    BY <1>1, <1>2 DEF Span
  <1>3. QED
    BY <1>1, <1>2 DEF Span

\* Taking the first entry of a piece.
LEMMA SpanHead ==
    ASSUME NEW f, NEW s, NEW i, NEW j, Span(f, s, i, j), s # << >>
    PROVE  /\ Head(s) = f[i+1] /\ Head(s) \in Units /\ i < j
           /\ Span(f, <<Head(s)>>, i, i + 1) /\ Span(f, Tail(s), i + 1, j)
  <1>1. /\ i \in Nat /\ j \in Nat /\ s \in Seq(Units) /\ Len(s) = j - i
        /\ \A m \in 1..j-i : s[m] = f[i+m]
    BY DEF Span
  <1>2. /\ Head(s) \in Units /\ Tail(s) \in Seq(Units) /\ Len(Tail(s)) = Len(s) - 1
        /\ \A m \in 1..Len(Tail(s)) : Tail(s)[m] = s[m+1]
        /\ Len(s) > 0 /\ Len(s) \in Nat
    BY <1>1, HeadTailProperties, EmptySeq
  <1>3. 1 \in 1..j-i /\ i < j
    BY <1>1, <1>2
  <1>4. Head(s) = s[1]
    BY <1>1, <1>2
  <1>5. Head(s) = f[i+1]
    BY <1>1, <1>3, <1>4
  <1>6. Span(f, <<Head(s)>>, i, i + 1)
    <2>1. <<Head(s)>> \in Seq(Units) /\ Len(<<Head(s)>>) = 1 /\ <<Head(s)>>[1] = Head(s)
      BY <1>2
    <2>2. \A m \in 1..(i+1)-i : m = 1
      BY <1>1
    <2>3. QED
      BY <1>1, <1>5, <2>1, <2>2 DEF Span
  <1>7. Span(f, Tail(s), i + 1, j)
    <2>1. PICK t : t = Tail(s)
      OBVIOUS
    <2>2. t \in Seq(Units) /\ Len(t) = j - (i + 1)
      BY <1>1, <1>2, <2>1
    <2>3. ASSUME NEW m \in 1..j-(i+1) PROVE t[m] = f[(i+1)+m]
      <3>1. m + 1 \in 1..j-i /\ m \in 1..Len(t) /\ i + (m + 1) = (i + 1) + m
        BY <1>1, <2>2
      <3>2. t[m] = s[m+1]
        BY <1>2, <2>1, <3>1
      <3>3. s[m+1] = f[i+(m+1)]
        BY <1>1, <3>1
      <3>4. QED
        BY <3>1, <3>2, <3>3
    <2>4. i + 1 \in Nat /\ i + 1 <= j
      BY <1>1, <1>3
    <2>5. Span(f, t, i + 1, j)
      BY <1>1, <2>2, <2>3, <2>4 DEF Span
    <2>6. QED
      BY <2>1, <2>5
  <1>8. QED
    BY <1>2, <1>3, <1>5, <1>6, <1>7

\* Runs one after another lie in order.
LEMMA InOrder ==
    ASSUME NEW f, NEW r, NEW s, NEW t, NEW i, NEW j, NEW k, NEW l,
           Span(f, r, i, j), Span(f, s, j, k), Span(f, t, k, l)
    PROVE  i <= l /\ l \in Nat
  BY DEF Span

\* Two pieces, one behind the other.
LEMMA SpanConcat ==
    ASSUME NEW f, NEW s, NEW t, NEW i, NEW j, NEW k, Span(f, s, i, j), Span(f, t, j, k)
    PROVE  Span(f, s \o t, i, k)
  <1>1. /\ i \in Nat /\ j \in Nat /\ k \in Nat /\ i <= j /\ j <= k
        /\ s \in Seq(Units) /\ Len(s) = j - i /\ \A m \in 1..j-i : s[m] = f[i+m]
        /\ t \in Seq(Units) /\ Len(t) = k - j /\ \A m \in 1..k-j : t[m] = f[j+m]
    BY DEF Span
  <1>2. PICK u : u = s \o t
    OBVIOUS
  <1>3. /\ u \in Seq(Units) /\ Len(u) = Len(s) + Len(t)
        /\ \A m \in 1..Len(s) + Len(t) : u[m] = IF m <= Len(s) THEN s[m] ELSE t[m - Len(s)]
    BY <1>1, <1>2, ConcatProperties
  <1>4. Len(u) = k - i
    BY <1>1, <1>3
  <1>5. ASSUME NEW m \in 1..k-i PROVE u[m] = f[i+m]
    <2>1. m \in 1..Len(s) + Len(t)
      BY <1>1
    <2>2. CASE m <= j - i
      <3>1. m \in 1..j-i
        BY <1>1, <2>2
      <3>2. QED
        BY <1>1, <1>3, <2>1, <2>2, <3>1
    <2>3. CASE ~(m <= j - i)
      <3>1. m - (j - i) \in 1..k-j /\ j + (m - (j - i)) = i + m
        BY <1>1, <2>3
      <3>2. u[m] = t[m - (j - i)]
        BY <1>1, <1>3, <2>1, <2>3
      <3>3. QED
        BY <1>1, <3>1, <3>2
    <2>4. QED
      BY <2>2, <2>3
  <1>6. QED
    BY <1>1, <1>2, <1>3, <1>4, <1>5 DEF Span

-----------------------------------------------------------------------------
(* What the archive becomes, entry by entry.                               *)

\* A set of numbers with zero and every successor is all of them.
LEMMA SetInduction ==
    ASSUME NEW T \in SUBSET Nat, 0 \in T, \A n \in T : n + 1 \in T
    PROVE  T = Nat
  <1>. DEFINE R == OpToRel(<, Nat)
  <1>1. IsWellFoundedOn(R, Nat) /\ \A x, y \in Nat : x < y => <<x, y>> \in R
    BY NatLessThanWellFounded DEF OpToRel
  <1>. HIDE DEF R
  <1>2. SUFFICES ASSUME Nat \ T # {} PROVE FALSE
    OBVIOUS
  <1>3. PICK x \in Nat \ T : \A y \in Nat \ T : <<y, x>> \notin R
    BY <1>1, <1>2, WFMin
  <1>4. x # 0
    BY <1>3
  <1>5. x - 1 \in Nat /\ x - 1 < x /\ x = (x - 1) + 1
    BY <1>3, <1>4
  <1>6. x - 1 \in T
    BY <1>1, <1>3, <1>5
  <1>7. QED
    BY <1>3, <1>5, <1>6

\* The function FlattenSeq builds its result with, for the first k of s.
Flattens(f, s, k) ==
    f = [i \in 1..k |-> IF i = 1 THEN s[i] ELSE f[i-1] \o s[i]]

\* Sequences of units have exactly one concatenation, of units.
LEMMA FlattensOnce ==
    ASSUME NEW n \in Nat, NEW s, \A i \in 1..n : s[i] \in Seq(Units), NEW k \in 0..n
    PROVE  \E f : /\ Flattens(f, s, k)
                  /\ \A e : Flattens(e, s, k) => e = f
                  /\ \A i \in 1..k : f[i] \in Seq(Units)
  <1>. DEFINE Is(f, m) == /\ Flattens(f, s, m) /\ \A e : Flattens(e, s, m) => e = f
                          /\ \A i \in 1..m : f[i] \in Seq(Units)
              T == {m \in Nat : m <= n => \E f : Is(f, m)}
  <1>1. 0 \in T
    <2>1. PICK f : f = [i \in 1..0 |-> IF i = 1 THEN s[i] ELSE << >> \o s[i]]
      OBVIOUS
    <2>2. 1..0 = {}
      OBVIOUS
    <2>3. Flattens(f, s, 0)
      BY <2>1, <2>2 DEF Flattens
    <2>4. ASSUME NEW e, Flattens(e, s, 0) PROVE e = f
      BY <2>1, <2>2, <2>4 DEF Flattens
    <2>5. QED
      BY <2>2, <2>3, <2>4
  <1>2. ASSUME NEW m \in T PROVE m + 1 \in T
    <2>1. SUFFICES ASSUME m + 1 <= n PROVE \E f : Is(f, m + 1)
      OBVIOUS
    <2>2. PICK f : Is(f, m)
      BY <2>1
    <2>. DEFINE last == IF m = 0 THEN s[m+1] ELSE f[m] \o s[m+1]
    <2>3. PICK h : h = [i \in 1..m+1 |-> IF i = m + 1 THEN last ELSE f[i]]
      OBVIOUS
    <2>4. \A i \in 1..m : f[i] = IF i = 1 THEN s[i] ELSE f[i-1] \o s[i]
      BY <2>2 DEF Flattens
    <2>5. Flattens(h, s, m + 1)
      <3>1. ASSUME NEW i \in 1..m+1
            PROVE  h[i] = IF i = 1 THEN s[i] ELSE h[i-1] \o s[i]
        <4>1. CASE i = m + 1
          BY <2>3, <4>1
        <4>2. CASE i # m + 1
          <5>1. i \in 1..m /\ (i # 1 => i - 1 \in 1..m /\ i - 1 # m + 1)
            BY <4>2
          <5>2. h[i] = f[i] /\ (i # 1 => h[i-1] = f[i-1])
            BY <2>3, <5>1
          <5>3. QED
            BY <2>4, <5>1, <5>2
        <4>3. QED
          BY <4>1, <4>2
      <3>2. h = [i \in 1..m+1 |-> h[i]]
        BY <2>3
      <3>3. QED
        BY <3>1, <3>2 DEF Flattens
    <2>6. ASSUME NEW e, Flattens(e, s, m + 1) PROVE e = h
      <3>1. /\ e = [i \in 1..m+1 |-> e[i]]
            /\ \A i \in 1..m+1 : e[i] = IF i = 1 THEN s[i] ELSE e[i-1] \o s[i]
        BY <2>6 DEF Flattens
      <3>2. PICK e0 : e0 = [i \in 1..m |-> e[i]]
        OBVIOUS
      <3>3. ASSUME NEW i \in 1..m
            PROVE  e0[i] = IF i = 1 THEN s[i] ELSE e0[i-1] \o s[i]
        <4>1. i \in 1..m+1 /\ (i # 1 => i - 1 \in 1..m)
          OBVIOUS
        <4>2. QED
          BY <3>1, <3>2, <4>1
      <3>4. Flattens(e0, s, m)
        BY <3>2, <3>3 DEF Flattens
      <3>5. e0 = f
        BY <2>2, <3>4
      <3>6. ASSUME NEW i \in 1..m+1 PROVE e[i] = h[i]
        <4>1. CASE i = m + 1
          <5>1. m # 0 => m \in 1..m /\ m = i - 1
            BY <4>1
          <5>2. m # 0 => e[m] = f[m]
            BY <3>2, <3>5, <5>1
          <5>3. m + 1 = 1 <=> m = 0
            OBVIOUS
          <5>4. e[m+1] = IF m = 0 THEN s[m+1] ELSE e[(m+1)-1] \o s[m+1]
            BY <3>1, <4>1, <5>3
          <5>5. (m + 1) - 1 = m
            OBVIOUS
          <5>6. e[i] = last
            BY <4>1, <5>2, <5>4, <5>5
          <5>7. QED
            BY <2>3, <4>1, <5>6
        <4>2. CASE i # m + 1
          <5>1. i \in 1..m
            BY <4>2
          <5>2. QED
            BY <2>3, <3>2, <3>5, <4>2, <5>1
        <4>3. QED
          BY <4>1, <4>2
      <3>7. QED
        BY <2>3, <3>1, <3>6
    <2>7. ASSUME NEW i \in 1..m+1 PROVE h[i] \in Seq(Units)
      <3>1. m + 1 \in 1..n
        BY <2>1
      <3>2. last \in Seq(Units)
        <4>1. CASE m = 0
          BY <3>1, <4>1
        <4>2. CASE m # 0
          <5>1. m \in 1..m
            BY <4>2
          <5>2. QED
            BY <2>2, <3>1, <4>2, <5>1, ConcatProperties
        <4>3. QED
          BY <4>1, <4>2
      <3>3. i = m + 1 \/ i \in 1..m
        OBVIOUS
      <3>4. QED
        BY <2>2, <2>3, <3>2, <3>3
    <2>8. QED
      BY <2>5, <2>6, <2>7
  <1>3. T \in SUBSET Nat
    OBVIOUS
  <1>. HIDE DEF T
  <1>4. T = Nat
    BY <1>1, <1>2, <1>3, SetInduction
  <1>5. k \in T /\ k <= n
    BY <1>4
  <1>6. QED
    BY <1>5 DEF T

\* What the first k of a sequence of sequences flatten to.
FlatOf(s, k) == FlattenSeq([i \in 1..k |-> s[i]])

\* The concatenation grows by one sequence at a time.
LEMMA FlatSteps ==
    ASSUME NEW n \in Nat, NEW s, \A i \in 1..n : s[i] \in Seq(Units)
    PROVE  /\ FlatOf(s, 0) = << >>
           /\ \A k \in 0..n : FlatOf(s, k) \in Seq(Units)
           /\ \A k \in 0..n : k < n => FlatOf(s, k + 1) = FlatOf(s, k) \o s[k+1]
  <1>1. FlatOf(s, 0) = << >>
    <2>1. PICK z : z = [i \in 1..0 |-> s[i]]
      OBVIOUS
    <2>2. z = << >> /\ Len(z) = 0
      BY <2>1
    <2>3. QED
      BY <2>1, <2>2 DEF FlatOf, FlattenSeq
  <1>2. ASSUME NEW k \in 1..n
        PROVE  \E f : Flattens(f, s, k) /\ FlatOf(s, k) = f[k] /\ f[k] \in Seq(Units)
                      /\ \A e : Flattens(e, s, k) => e = f
    <2>1. PICK z : z = [i \in 1..k |-> s[i]]
      OBVIOUS
    <2>2. z \in Seq(Seq(Units)) /\ Len(z) = k /\ k # 0 /\ k \in 0..n /\ k \in 1..k
      BY <2>1
    <2>3. PICK f : /\ Flattens(f, s, k) /\ \A e : Flattens(e, s, k) => e = f
                   /\ \A i \in 1..k : f[i] \in Seq(Units)
      BY <2>2, FlattensOnce
    <2>. DEFINE C == CHOOSE e : e = [i \in 1..Len(z) |->
                                        IF i = 1 THEN z[i] ELSE e[i-1] \o z[i]]
    <2>4. \A e : [i \in 1..Len(z) |-> IF i = 1 THEN z[i] ELSE e[i-1] \o z[i]]
                 = [i \in 1..k |-> IF i = 1 THEN s[i] ELSE e[i-1] \o s[i]]
      BY <2>1, <2>2
    <2>5. Flattens(C, s, k)
      <3>1. f = [i \in 1..Len(z) |-> IF i = 1 THEN z[i] ELSE f[i-1] \o z[i]]
        BY <2>3, <2>4 DEF Flattens
      <3>2. C = [i \in 1..Len(z) |-> IF i = 1 THEN z[i] ELSE C[i-1] \o z[i]]
        BY <3>1, Zenon
      <3>. HIDE DEF C
      <3>3. QED
        BY <2>4, <3>2 DEF Flattens
    <2>6. FlattenSeq(z) = C[k]
      BY <2>2 DEF FlattenSeq
    <2>7. QED
      BY <2>1, <2>2, <2>3, <2>5, <2>6 DEF FlatOf
  <1>3. ASSUME NEW k \in 0..n, k < n PROVE FlatOf(s, k + 1) = FlatOf(s, k) \o s[k+1]
    <2>1. k + 1 \in 1..n
      BY <1>3
    <2>2. PICK f : Flattens(f, s, k + 1) /\ FlatOf(s, k + 1) = f[k+1]
      BY <1>2, <2>1
    <2>3. CASE k = 0
      <3>1. f[1] = s[1] /\ s[1] \in Seq(Units)
        BY <2>1, <2>2, <2>3 DEF Flattens
      <3>2. QED
        BY <1>1, <2>2, <2>3, <3>1
    <2>4. CASE k # 0
      <3>1. k \in 1..n
        BY <2>4
      <3>2. PICK g : /\ Flattens(g, s, k) /\ FlatOf(s, k) = g[k]
                     /\ \A e : Flattens(e, s, k) => e = g
        BY <1>2, <3>1
      <3>3. \A i \in 1..k+1 : f[i] = IF i = 1 THEN s[i] ELSE f[i-1] \o s[i]
        BY <2>2 DEF Flattens
      <3>4. PICK e : e = [i \in 1..k |-> f[i]]
        OBVIOUS
      <3>5. ASSUME NEW i \in 1..k PROVE e[i] = IF i = 1 THEN s[i] ELSE e[i-1] \o s[i]
        <4>1. i \in 1..k+1 /\ (i # 1 => i - 1 \in 1..k)
          OBVIOUS
        <4>2. QED
          BY <3>3, <3>4, <4>1
      <3>6. Flattens(e, s, k)
        BY <3>4, <3>5 DEF Flattens
      <3>7. f[k] = g[k]
        BY <3>1, <3>2, <3>4, <3>6
      <3>8. f[k+1] = f[k] \o s[k+1]
        <4>1. k + 1 \in 1..k+1 /\ k + 1 # 1 /\ (k + 1) - 1 = k
          BY <2>4
        <4>2. QED
          BY <3>3, <4>1
      <3>9. QED
        BY <2>2, <3>2, <3>7, <3>8
    <2>5. QED
      BY <2>3, <2>4
  <1>4. ASSUME NEW k \in 0..n PROVE FlatOf(s, k) \in Seq(Units)
    <2>1. CASE k = 0
      <3>1. << >> \in Seq(Units)
        OBVIOUS
      <3>2. QED
        BY <1>1, <2>1, <3>1
    <2>2. CASE k # 0
      <3>1. k \in 1..n
        BY <2>2
      <3>2. PICK f : FlatOf(s, k) = f[k] /\ f[k] \in Seq(Units)
        BY <1>2, <3>1
      <3>3. QED
        BY <3>2
    <2>3. QED
      BY <2>1, <2>2
  <1>5. QED
    BY <1>1, <1>3, <1>4

-----------------------------------------------------------------------------
(* The stream: what is still to come of the archive is, in its order, on   *)
(* the wire, in the pipes and in what has not been read.                   *)

Full(arch) == Append(arch, Trailer)
Held == IF whole THEN Len(archive) + 1 ELSE Len(archive)

\* The places in which the rewriter still reads or adds.
Active == at \in {"start", "next", "write", "add", "rest"}

PipeInv ==
    /\ stdin # "writes" => fed = << >>
    /\ FeedEnded /\ child # "failed" => input = << >> /\ stdin = inputEnd
    /\ child = "ok" => inPipe = << >> /\ FeedEnded
    /\ stdout # "writes" => wire = << >>
    /\ stdout = "ended" /\ ~rclosed => outPipe = << >> /\ Exited
    /\ rclosed => ~Active
    /\ at = "start" => waiter = "none"
    /\ closed = "eof" => WaitReturns /\ child = "ok" /\ stdin = "eof"

\* A child that is still there hands on all of it.
Chain(b) ==
    \E c, d : /\ Span(Full(archive), inPipe, b, c) /\ Span(Full(archive), fed, c, d)
              /\ Span(Full(archive), input, d, Held)

\* The reader has taken the first k of the archive with its trailer.
StreamInv(k) ==
    IF InPlace THEN Span(Full(archive), input, k, Held)
    ELSE \E a, b : /\ Span(Full(archive), wire, k, a) /\ Span(Full(archive), outPipe, a, b)
                   /\ Len(wire) <= 1 /\ b <= Held
                   /\ child # "failed" => Chain(b)

\* The goroutines' steps keep what the pipe holds.
LEMMA GoroutinesPipe == ASSUME IInv, PipeInv, Goroutines, UNCHANGED rewriter PROVE PipeInv'
  <1> USE DEF PipeInv, Active, WaitReturns, FeedEnded, Exited, rewriter
  <1>1. CASE /\ Feed
             /\ UNCHANGED <<inputEnd, mode, child, outPipe, stdout, wire, closed, rclosed,
                            waiter, cancelled>>
    BY <1>1 DEF Feed
  <1>2. CASE /\ Child
             /\ UNCHANGED <<inputEnd, mode, stdout, wire, closed, rclosed, waiter, cancelled>>
    BY <1>2 DEF Child
  <1>3. CASE /\ CopyOut
             /\ UNCHANGED <<input, inputEnd, mode, stdin, fed, inPipe, child, closed,
                            rclosed, waiter, cancelled>>
    BY <1>3 DEF CopyOut
  <1>4. CASE Wait /\ UNCHANGED <<input, inputEnd, mode, exec, wire, rclosed, cancelled>>
    BY <1>4 DEF Wait, WaitError, exec
  <1> QED
    BY <1>1, <1>2, <1>3, <1>4 DEF Goroutines

\* A failure of the copying child keeps what the pipe holds.
LEMMA ChildFailsPipe == ASSUME PipeInv, ChildFails, UNCHANGED rewriter PROVE PipeInv'
  BY DEF ChildFails, rewriter, PipeInv, Active, WaitReturns, FeedEnded, Exited

\* The goroutine of os/exec reads and writes.
LEMMA FeedChain ==
    ASSUME PipeInv, Feed, child # "failed", UNCHANGED <<archive, whole>>, NEW b, Chain(b)
    PROVE  Chain(b)'
  <1>1. PICK F : F = Full(archive)
    OBVIOUS
  <1>2. F = Full(archive)' /\ Held' = Held
    BY <1>1 DEF Full, Held
  <1>3. PICK c, d : Span(F, inPipe, b, c) /\ Span(F, fed, c, d) /\ Span(F, input, d, Held)
    BY <1>1 DEF Chain
  <1>4. SUFFICES \E cc, dd : /\ Span(F, inPipe', b, cc) /\ Span(F, fed', cc, dd)
                             /\ Span(F, input', dd, Held)
    BY <1>2 DEF Chain
  <1>5. CASE stdin = "reads" /\ input # << >> /\ fed' = <<Head(input)>>
                /\ input' = Tail(input) /\ UNCHANGED inPipe
    <2>1. c = d
      BY <1>3, <1>5, SpanEmpty DEF PipeInv, Span
    <2>2. Span(F, <<Head(input)>>, d, d + 1) /\ Span(F, Tail(input), d + 1, Held)
      BY <1>3, <1>5, SpanHead
    <2>3. QED
      BY <1>3, <1>5, <2>1, <2>2
  <1>6. CASE UNCHANGED <<fed, input, inPipe>>
    BY <1>3, <1>6
  <1>7. CASE stdin = "writes" /\ Exited
    BY <1>7 DEF PipeInv, Exited, FeedEnded
  <1>8. CASE inPipe' = inPipe \o fed /\ fed' = << >> /\ UNCHANGED input
    <2>1. Span(F, inPipe \o fed, b, d)
      BY <1>3, SpanConcat
    <2>2. Span(F, << >>, d, d)
      BY <1>3, SpanEmpty DEF Span
    <2>3. QED
      BY <1>3, <1>8, <2>1, <2>2
  <1>9. QED
    BY <1>5, <1>6, <1>7, <1>8 DEF Feed


\* The child takes one from its input to its output.
LEMMA ChildMoves ==
    ASSUME child = "runs", Child, child' # "failed", NEW F, NEW a, NEW b, NEW c,
           Span(F, outPipe, a, b), Span(F, inPipe, b, c)
    PROVE  \E bb : Span(F, outPipe', a, bb) /\ Span(F, inPipe', bb, c)
  <1>1. CASE UNCHANGED <<inPipe, outPipe>>
    BY <1>1
  <1>2. CASE inPipe # << >> /\ outPipe' = Append(outPipe, Head(inPipe))
                /\ inPipe' = Tail(inPipe)
    <2>1. /\ Span(F, <<Head(inPipe)>>, b, b + 1) /\ Span(F, Tail(inPipe), b + 1, c)
          /\ Head(inPipe) \in Units
      BY <1>2, SpanHead
    <2>2. Span(F, outPipe \o <<Head(inPipe)>>, a, b + 1)
      BY <2>1, SpanConcat
    <2>3. outPipe \o <<Head(inPipe)>> = Append(outPipe, Head(inPipe))
      BY <2>1, AppendIsConcat DEF Span
    <2>4. QED
      BY <1>2, <2>1, <2>2, <2>3
  <1>3. QED
    BY <1>1, <1>2 DEF Child

\* What the command's goroutines move stays where it is in the archive.
LEMMA GoroutinesStream ==
    ASSUME IInv, PipeInv, Active, Goroutines, UNCHANGED rewriter, NEW k, StreamInv(k)
    PROVE  StreamInv(k)'
  <1>1. PICK F : F = Full(archive)
    OBVIOUS
  <1>2. F = Full(archive)' /\ Held' = Held /\ UNCHANGED <<archive, whole>>
    BY <1>1 DEF Full, Held, rewriter
  <1>3. UNCHANGED mode
    BY DEF Goroutines
  <1>4. CASE InPlace
    <2>1. stdin = "none" /\ child = "none" /\ stdout = "none" /\ waiter = "none"
      BY <1>4 DEF IInv, Behind, NotStarted
    <2>2. UNCHANGED input
      BY <2>1 DEF Goroutines, Feed, Child, CopyOut, Wait
    <2>3. QED
      BY <1>2, <1>1, <1>3, <1>4, <2>2 DEF StreamInv, InPlace
  <1>5. CASE ~InPlace
    <2>1. PICK a, b : /\ Span(F, wire, k, a) /\ Span(F, outPipe, a, b) /\ Len(wire) <= 1
                      /\ b <= Held /\ (child # "failed" => Chain(b))
      BY <1>1, <1>5 DEF StreamInv
    <2>2. SUFFICES \E aa, bb : /\ Span(F, wire', k, aa) /\ Span(F, outPipe', aa, bb)
                               /\ Len(wire') <= 1 /\ bb <= Held
                               /\ child' # "failed" => Chain(bb)'
      BY <1>2, <1>3, <1>5 DEF StreamInv, InPlace
    <2>3. CASE Feed /\ UNCHANGED <<child, outPipe, wire>>
      <3>1. child # "failed" => Chain(b)'
        BY <1>2, <2>1, <2>3, FeedChain
      <3>2. QED
        BY <2>1, <2>3, <3>1
    <2>4. CASE Child /\ UNCHANGED wire
      <3>1. CASE child' = "failed"
        BY <2>1, <2>4, <3>1 DEF Child
      <3>2. CASE child' # "failed"
        <4>1. PICK c, d : /\ Span(F, inPipe, b, c) /\ Span(F, fed, c, d)
                          /\ Span(F, input, d, Held)
          BY <1>1, <2>1, <2>4 DEF Child, Chain
        <4>2. PICK bb : Span(F, outPipe', a, bb) /\ Span(F, inPipe', bb, c)
          BY <2>1, <2>4, <3>2, <4>1, ChildMoves DEF Child
        <4>3. Chain(bb)' /\ bb <= Held
          <5>1. Chain(bb)'
            BY <1>2, <2>4, <4>1, <4>2 DEF Child, Chain
          <5>2. bb <= Held
            BY <4>1, <4>2, InOrder
          <5>3. QED
            BY <5>1, <5>2
        <4>4. QED
          BY <2>1, <2>4, <4>2, <4>3
      <3>3. QED
        BY <3>1, <3>2
    <2>5. CASE CopyOut /\ UNCHANGED <<input, fed, inPipe, child>>
      <3>1. child' # "failed" => Chain(b)'
        BY <1>1, <1>2, <2>1, <2>5 DEF Chain
      <3>2. CASE UNCHANGED <<outPipe, wire>>
        BY <2>1, <3>1, <3>2
      <3>3. CASE /\ stdout = "copies" /\ outPipe # << >>
                 /\ wire' = <<Head(outPipe)>> /\ outPipe' = Tail(outPipe)
        <4>1. wire = << >>
          BY <3>3 DEF PipeInv
        <4>2. a = k
          BY <2>1, <4>1, SpanEmpty DEF Span
        <4>3. Span(F, <<Head(outPipe)>>, a, a + 1) /\ Span(F, Tail(outPipe), a + 1, b)
          BY <2>1, <3>3, SpanHead
        <4>4. Len(<<Head(outPipe)>>) = 1
          OBVIOUS
        <4>5. QED
          BY <2>1, <3>1, <3>3, <4>2, <4>3, <4>4
      <3>4. CASE rclosed
        BY <3>4 DEF PipeInv
      <3>5. QED
        BY <2>5, <3>2, <3>3, <3>4 DEF CopyOut
    <2>6. CASE Wait /\ UNCHANGED <<input, exec, wire>>
      <3>1. Chain(b) => Chain(b)'
        BY <1>2, <2>6, <1>1 DEF Chain, exec
      <3>2. QED
        BY <2>1, <2>6, <3>1 DEF exec
    <2>7. QED
      BY <2>3, <2>4, <2>5, <2>6 DEF Goroutines
  <1>6. QED
    BY <1>4, <1>5

\* A failure of the copying child keeps the place in the stream.
LEMMA ChildFailsStream ==
    ASSUME ChildFails, UNCHANGED rewriter, NEW k, StreamInv(k)
    PROVE  StreamInv(k)'
  <1>1. Full(archive)' = Full(archive) /\ Held' = Held
    BY DEF rewriter, Full, Held
  <1>2. QED
    BY <1>1 DEF ChildFails, rewriter, StreamInv, InPlace

\* Steps that leave the stream alone.
LEMMA SameStream ==
    ASSUME UNCHANGED <<stream, archive, whole>>, NEW k, StreamInv(k)
    PROVE  StreamInv(k)'
  <1>1. Full(archive)' = Full(archive) /\ Held' = Held
    BY DEF Full, Held
  <1>2. QED
    BY <1>1 DEF stream, exec, StreamInv, Chain, InPlace

\* The reader takes what comes next in the archive.
LEMMA TakesNext ==
    ASSUME NEW k, StreamInv(k), Available # << >>, Take,
           UNCHANGED <<mode, exec, archive, whole>>, Held \in Nat
    PROVE  /\ Head(Available) = Full(archive)[k+1] /\ Head(Available) \in Units
           /\ k \in Nat /\ k + 1 <= Held /\ StreamInv(k + 1)'
  <1>1. PICK F : F = Full(archive)
    OBVIOUS
  <1>2. F = Full(archive)' /\ Held' = Held
    BY <1>1 DEF Full, Held
  <1>3. CASE InPlace
    <2>1. Span(F, input, k, Held) /\ input # << >> /\ input' = Tail(input)
      BY <1>1, <1>3 DEF StreamInv, Available, Take
    <2>2. /\ Head(input) = F[k+1] /\ Head(input) \in Units /\ k < Held
          /\ Span(F, Tail(input), k + 1, Held)
      BY <2>1, SpanHead
    <2>3. StreamInv(k + 1)'
      BY <1>2, <1>3, <2>1, <2>2 DEF StreamInv, InPlace
    <2>4. k \in Nat /\ k + 1 <= Held
      BY <2>1, <2>2 DEF Span
    <2>5. QED
      BY <1>1, <1>3, <2>2, <2>3, <2>4 DEF Available
  <1>4. CASE ~InPlace
    <2>1. wire # << >> /\ wire' = << >> /\ UNCHANGED input
      BY <1>4 DEF Available, Take
    <2>2. PICK a, b : /\ Span(F, wire, k, a) /\ Span(F, outPipe, a, b) /\ Len(wire) <= 1
                      /\ b <= Held /\ (child # "failed" => Chain(b))
      BY <1>1, <1>4 DEF StreamInv
    <2>3. /\ Head(wire) = F[k+1] /\ Head(wire) \in Units /\ k < a
      BY <2>1, <2>2, SpanHead
    <2>4. a = k + 1 /\ k \in Nat /\ k + 1 <= Held
      BY <2>2, <2>3 DEF Span
    <2>5. Span(F, << >>, k + 1, k + 1) /\ Len(<< >>) <= 1
      BY <2>4, SpanEmpty
    <2>6. Chain(b) => Chain(b)'
      BY <1>1, <1>2, <2>1 DEF Chain, exec
    <2>7. StreamInv(k + 1)'
      BY <1>2, <1>4, <2>1, <2>2, <2>4, <2>5, <2>6 DEF StreamInv, InPlace, exec
    <2>8. QED
      BY <1>1, <1>4, <2>3, <2>4, <2>7 DEF Available
  <1>5. QED
    BY <1>3, <1>4

-----------------------------------------------------------------------------
(* What has been sent on.                                                  *)

NamesTo(k) == {archive[i].name : i \in 1..k}
Steps == [i \in 1..Len(archive) |-> Becomes(i)]

TypeInv ==
    /\ archive \in Seq({Entry(name, "original") : name \in EntryName})
    /\ whole \in BOOLEAN
    /\ \A name \in DOMAIN given : name \in EntryName /\ given[name] \in Modifier
    /\ DOMAIN mods \subseteq DOMAIN given
    /\ received \in Seq(Units) /\ out \in Seq(Units)

\* While it copies, the rewriter has sent what the first k entries become, and keeps
\* the modifiers whose names it has not met.
Copying(k) ==
    /\ k <= Len(archive) /\ received \o out = FlatOf(Steps, k)
    /\ mods = [name \in DOMAIN given \ NamesTo(k) |-> given[name]]
    /\ \A name \in DOMAIN given \ DOMAIN mods : given[name] # "fails"

\* The sequence s is r and an entry for each of the names D.
WithAdded(r, s, D) ==
    /\ IsFiniteSet(D) /\ Len(s) = Len(r) + Cardinality(D)
    /\ \A i \in 1..Len(r) : s[i] = r[i]
    /\ {s[i] : i \in Len(r)+1..Len(s)} = {Entry(name, "modified") : name \in D}

AddedYet == {name \in DOMAIN given \ (Names \union DOMAIN mods) : given[name] = "replaces"}

\* Behind the trailer it has sent all of the archive, and adds what was missing.
Adding ==
    /\ DOMAIN mods \subseteq DOMAIN given \ Names
    /\ \A name \in DOMAIN mods : mods[name] = given[name]
    /\ \A name \in DOMAIN given \ DOMAIN mods : given[name] # "fails"
    /\ WithAdded(Rewritten, received \o out, AddedYet)

Progress(k) ==
    /\ at \in {"start", "next", "write"} => Copying(k)
    /\ at \in {"rest", "add"} => Adding

Complete ==
    /\ \A name \in DOMAIN given : given[name] # "fails"
    /\ WithAdded(Rewritten, received, Added)

\* It closes the result without an error, and the reader meets the end, only then.
FinalInv ==
    /\ outClosed \in {"open", "eof", "err"}
    /\ outRclosed => reader # "reads"
    /\ at \in {"start", "next", "rest"} => out = << >>
    /\ outClosed = "eof" => ~Active /\ (reader = "reads" => out = << >> /\ Complete)
    /\ reader = "eof" => Complete

\* It takes for the end only the trailer, or the stream's own end.
EndInv == at \in {"rest", "add"} \/ outClosed = "eof" \/ reader = "eof"
              => whole \/ inputEnd = "eof"

OnTheWay == \E k : StreamInv(k) /\ (reader = "reads" => Progress(k))

WholeInv == TypeInv /\ PipeInv /\ FinalInv /\ EndInv /\ (Active => OnTheWay)

\* An entry is a unit of the stream.
LEMMA EntryIsUnit ==
    ASSUME NEW name \in EntryName \union {""},
           NEW content \in {"original", "modified", "trailer"}
    PROVE  Entry(name, content) \in Units
  BY DEF Entry, Units

\* The entries of the archive, and what they become.
LEMMA ArchiveEntries ==
    ASSUME TypeInv
    PROVE  /\ Len(archive) \in Nat
           /\ \A i \in 1..Len(archive) :
                 /\ archive[i] \in Units /\ archive[i] # Trailer
                 /\ archive[i].name \in EntryName
                 /\ Full(archive)[i] = archive[i]
                 /\ Steps[i] = Becomes(i) /\ Steps[i] \in Seq(Units)
           /\ Full(archive) \in Seq(Units) /\ Len(Full(archive)) = Len(archive) + 1
           /\ Full(archive)[Len(archive)+1] = Trailer
  <1>1. Len(archive) \in Nat
    BY DEF TypeInv
  <1>2. ASSUME NEW i \in 1..Len(archive)
        PROVE  /\ archive[i] \in Units /\ archive[i] # Trailer
               /\ archive[i].name \in EntryName
    <2>1. PICK name \in EntryName : archive[i] = Entry(name, "original")
      BY DEF TypeInv
    <2>2. archive[i].name = name /\ archive[i].content = "original"
      BY <2>1 DEF Entry
    <2>3. Trailer.content = "trailer" /\ "original" # "trailer"
      BY DEF Trailer, Entry
    <2>4. Entry(name, "original") \in Units
      BY EntryIsUnit
    <2>5. QED
      BY <2>1, <2>2, <2>3, <2>4
  <1>3. archive \in Seq(Units) /\ Trailer \in Units
    <2>1. Trailer \in Units
      BY EntryIsUnit DEF Trailer
    <2>2. PICK n \in Nat : Len(archive) = n /\ archive \in [1..n -> {Entry(name, "original") : name \in EntryName}]
      BY DEF TypeInv
    <2>3. archive \in [1..n -> Units]
      BY <1>2, <2>2
    <2>4. QED
      BY <2>1, <2>3
  <1>4. /\ Full(archive) \in Seq(Units) /\ Len(Full(archive)) = Len(archive) + 1
        /\ \A i \in 1..Len(archive) : Full(archive)[i] = archive[i]
        /\ Full(archive)[Len(archive)+1] = Trailer
    BY <1>3, AppendProperties DEF Full
  <1>5. ASSUME NEW i \in 1..Len(archive) PROVE Steps[i] = Becomes(i) /\ Becomes(i) \in Seq(Units)
    <2>1. Entry(archive[i].name, "modified") \in Units
      BY <1>2, EntryIsUnit
    <2>2. << >> \in Seq(Units) /\ <<archive[i]>> \in Seq(Units)
          /\ <<Entry(archive[i].name, "modified")>> \in Seq(Units)
      BY <1>2, <2>1
    <2>3. Becomes(i) \in Seq(Units)
      BY <2>2 DEF Becomes
    <2>4. QED
      BY <2>3 DEF Steps
  <1>6. QED
    BY <1>1, <1>2, <1>4, <1>5

\* The rewritten archive is the concatenation of what each entry becomes.
LEMMA RewrittenIsFlat ==
    ASSUME TypeInv
    PROVE  /\ Rewritten = FlatOf(Steps, Len(archive)) /\ Rewritten \in Seq(Units)
           /\ FlatOf(Steps, 0) = << >>
           /\ \A k \in 0..Len(archive) : FlatOf(Steps, k) \in Seq(Units)
           /\ \A k \in 0..Len(archive) : k < Len(archive) =>
                 FlatOf(Steps, k + 1) = FlatOf(Steps, k) \o Becomes(k + 1)
  <1>1. PICK n \in Nat : n = Len(archive)
    BY ArchiveEntries
  <1>2. PICK s : s = Steps
    OBVIOUS
  <1>3. \A i \in 1..n : s[i] \in Seq(Units) /\ s[i] = Becomes(i)
    BY <1>1, <1>2, ArchiveEntries
  <1>4. /\ FlatOf(s, 0) = << >> /\ \A k \in 0..n : FlatOf(s, k) \in Seq(Units)
        /\ \A k \in 0..n : k < n => FlatOf(s, k + 1) = FlatOf(s, k) \o s[k+1]
    BY <1>3, FlatSteps
  <1>5. [i \in 1..n |-> s[i]] = [i \in 1..n |-> Becomes(i)]
    BY <1>3
  <1>6. Rewritten = FlatOf(s, n)
    BY <1>1, <1>5 DEF Rewritten, FlatOf
  <1>7. ASSUME NEW k \in 0..n, k < n PROVE FlatOf(s, k + 1) = FlatOf(s, k) \o Becomes(k + 1)
    <2>1. k + 1 \in 1..n
      BY <1>7
    <2>2. QED
      BY <1>3, <1>4, <1>7, <2>1
  <1>8. QED
    BY <1>1, <1>2, <1>4, <1>6, <1>7


\* One entry copied, changed or dropped, as the modifiers still there say, is what
\* it becomes.
LEMMA CopiesNext ==
    ASSUME TypeInv, UNCHANGED <<archive, given, received>>, out = << >>,
           NEW k \in Nat, k < Len(archive), Copying(k), NEW name, name = archive[k+1].name,
           \/ /\ name \notin DOMAIN mods /\ out' = <<archive[k+1]>> /\ UNCHANGED mods
           \/ /\ name \in DOMAIN mods /\ mods[name] # "fails" /\ mods' = Used(name)
              /\ out' = IF mods[name] = "drops" THEN << >> ELSE <<Entry(name, "modified")>>
    PROVE  Copying(k + 1)'
  <1>1. Len(archive) \in Nat /\ k + 1 \in 1..Len(archive)
    BY ArchiveEntries
  <1>2. /\ \A n \in DOMAIN mods : mods[n] = given[n]
        /\ DOMAIN mods = DOMAIN given \ NamesTo(k)
    BY DEF Copying
  <1>3. NamesTo(k + 1) = NamesTo(k) \union {name}
    <2>1. \A i : i \in 1..k+1 <=> i \in 1..k \/ i = k + 1
      OBVIOUS
    <2>2. QED
      BY <2>1 DEF NamesTo
  <1>4. FirstOfName(k + 1) <=> name \notin NamesTo(k)
    <2>1. (k + 1) - 1 = k
      OBVIOUS
    <2>2. QED
      BY <2>1 DEF FirstOfName, NamesTo
  <1>5. out' = Becomes(k + 1)
    BY <1>2, <1>4 DEF Becomes
  <1>6. received \o << >> = received /\ received \o out = FlatOf(Steps, k)
    BY DEF TypeInv, Copying
  <1>7. FlatOf(Steps, k + 1) = FlatOf(Steps, k) \o Becomes(k + 1)
    <2>1. k \in 0..Len(archive)
      BY <1>1
    <2>2. QED
      BY <2>1, RewrittenIsFlat
  <1>8. received' \o out' = FlatOf(Steps, k + 1)
    BY <1>5, <1>6, <1>7
  <1>9. FlatOf(Steps, k + 1)' = FlatOf(Steps, k + 1) /\ NamesTo(k + 1)' = NamesTo(k + 1)
    BY DEF FlatOf, Steps, Becomes, FirstOfName, NamesTo
  <1>10. mods' = [n \in DOMAIN given \ NamesTo(k + 1) |-> given[n]]
    <2>1. CASE name \notin DOMAIN mods /\ UNCHANGED mods
      <3>1. DOMAIN given \ NamesTo(k + 1) = DOMAIN given \ NamesTo(k)
        BY <1>2, <1>3, <2>1
      <3>2. QED
        BY <2>1, <3>1 DEF Copying
    <2>2. CASE mods' = Used(name)
      <3>1. DOMAIN given \ NamesTo(k + 1) = DOMAIN mods \ {name}
        BY <1>2, <1>3
      <3>2. QED
        BY <1>2, <2>2, <3>1 DEF Used
    <2>3. QED
      BY <2>1, <2>2
  <1>11. \A n \in DOMAIN given \ DOMAIN mods' : given[n] # "fails"
    <2>1. CASE UNCHANGED mods
      BY <2>1 DEF Copying
    <2>2. CASE mods[name] # "fails" /\ mods' = Used(name) /\ name \in DOMAIN mods
      <3>1. DOMAIN mods' = DOMAIN mods \ {name}
        BY <2>2 DEF Used
      <3>2. QED
        BY <1>2, <2>2, <3>1 DEF Copying
    <2>3. QED
      BY <2>1, <2>2
  <1>12. QED
    BY <1>1, <1>8, <1>9, <1>10, <1>11 DEF Copying

\* One more entry behind the others.
LEMMA AddsOne ==
    ASSUME NEW r \in Seq(Units), NEW s \in Seq(Units), NEW D, WithAdded(r, s, D),
           NEW name \in EntryName, name \notin D
    PROVE  WithAdded(r, s \o <<Entry(name, "modified")>>, D \union {name})
  <1>1. PICK e : e = Entry(name, "modified") /\ e \in Units
    BY EntryIsUnit
  <1>2. PICK t : t = s \o <<e>>
    OBVIOUS
  <1>3. PICK n \in Nat, m \in Nat : n = Len(r) /\ m = Len(s)
    OBVIOUS
  <1>4. Cardinality(D) \in Nat /\ IsFiniteSet(D) /\ m = n + Cardinality(D) /\ n <= m
    BY <1>3, FS_CardinalityType DEF WithAdded
  <1>5. /\ IsFiniteSet(D \union {name})
        /\ Cardinality(D \union {name}) = Cardinality(D) + 1
    BY <1>4, FS_AddElement
  <1>6. /\ t \in Seq(Units) /\ Len(t) = m + 1 /\ t[m+1] = e
        /\ \A i \in 1..m : t[i] = s[i]
    BY <1>1, <1>2, <1>3
  <1>7. \A i \in 1..n : t[i] = r[i]
    <2>1. \A i \in 1..n : i \in 1..m
      BY <1>4
    <2>2. QED
      BY <1>3, <1>6, <2>1 DEF WithAdded
  <1>8. {t[i] : i \in n+1..m+1} = {s[i] : i \in n+1..m} \union {e}
    <2>1. \A i : i \in n+1..m+1 <=> i \in n+1..m \/ i = m + 1
      BY <1>4
    <2>2. \A i \in n+1..m : i \in 1..m
      BY <1>4
    <2>3. QED
      BY <1>6, <2>1, <2>2
  <1>9. {s[i] : i \in n+1..m} = {Entry(nm, "modified") : nm \in D}
    BY <1>3 DEF WithAdded
  <1>10. {Entry(nm, "modified") : nm \in D \union {name}}
             = {Entry(nm, "modified") : nm \in D} \union {e}
    BY <1>1
  <1>11. Len(t) = n + Cardinality(D \union {name})
    BY <1>4, <1>5, <1>6
  <1>12. {t[i] : i \in Len(r)+1..Len(t)} = {Entry(nm, "modified") : nm \in D \union {name}}
    BY <1>3, <1>6, <1>8, <1>9, <1>10
  <1>13. WithAdded(r, t, D \union {name})
    BY <1>3, <1>5, <1>7, <1>11, <1>12 DEF WithAdded
  <1>14. QED
    BY <1>1, <1>2, <1>13

\* Nothing is added yet when the trailer has been met.
LEMMA StartsAdding ==
    ASSUME TypeInv, out = << >>, Copying(Len(archive))
    PROVE  Adding
  <1>1. received \o out = Rewritten /\ Rewritten \in Seq(Units)
    BY RewrittenIsFlat DEF Copying
  <1>2. NamesTo(Len(archive)) = Names
    BY DEF NamesTo, Names
  <1>3. /\ DOMAIN mods = DOMAIN given \ Names
        /\ \A name \in DOMAIN mods : mods[name] = given[name]
    BY <1>2 DEF Copying
  <1>4. AddedYet = {}
    BY <1>3 DEF AddedYet
  <1>5. PICK r \in Seq(Units) : r = Rewritten
    BY <1>1
  <1>6. IsFiniteSet({}) /\ Cardinality({}) = 0 /\ Len(r) \in Nat
    BY FS_EmptySet
  <1>7. Len(r)+1..Len(r) = {} /\ Len(r) = Len(r) + 0
    BY <1>6
  <1>8. WithAdded(r, r, {})
    BY <1>6, <1>7 DEF WithAdded
  <1>9. QED
    BY <1>1, <1>3, <1>4, <1>5, <1>8 DEF Adding, Copying

\* A modifier left over is used: its entry is added, or there is none.
LEMMA AddsNext ==
    ASSUME TypeInv, UNCHANGED <<archive, whole, given, received>>, out = << >>, Adding,
           NEW name \in DOMAIN mods, mods' = Used(name), mods[name] # "fails",
           out' = IF mods[name] = "drops" THEN << >> ELSE <<Entry(name, "modified")>>
    PROVE  Adding'
  <1>1. /\ \A n \in DOMAIN mods : mods[n] = given[n] /\ n \in DOMAIN given
        /\ DOMAIN mods \subseteq DOMAIN given \ Names
    BY DEF Adding
  <1>2. /\ DOMAIN mods' = DOMAIN mods \ {name}
        /\ \A n \in DOMAIN mods' : mods'[n] = mods[n]
    BY DEF Used
  <1>3. UNCHANGED <<Rewritten, Names>>
    BY DEF Rewritten, Becomes, FirstOfName, Names
  <1>4. \A n \in DOMAIN given \ DOMAIN mods' : given[n] # "fails"
    BY <1>1, <1>2 DEF Adding
  <1>5. WithAdded(Rewritten, received, AddedYet)
    <2>1. received \o << >> = received
      BY DEF TypeInv
    <2>2. QED
      BY <2>1 DEF Adding
  <1>6. WithAdded(Rewritten, received \o out', AddedYet')
    <2>1. CASE mods[name] = "drops"
      <3>1. AddedYet' = AddedYet
        <4>1. given[name] # "replaces"
          BY <1>1, <2>1
        <4>2. QED
          BY <1>2, <1>3, <4>1 DEF AddedYet
      <3>2. received \o << >> = received
        BY DEF TypeInv
      <3>3. QED
        BY <1>5, <2>1, <3>1, <3>2
    <2>2. CASE mods[name] # "drops"
      <3>1. given[name] = "replaces" /\ name \in EntryName /\ name \in DOMAIN given
            /\ name \notin Names
        BY <1>1, <2>2 DEF TypeInv, Modifier
      <3>2. AddedYet' = AddedYet \union {name}
        BY <1>2, <1>3, <3>1 DEF AddedYet
      <3>3. name \notin AddedYet
        BY DEF AddedYet
      <3>4. PICK D, r : D = AddedYet /\ r = Rewritten
        OBVIOUS
      <3>5. r \in Seq(Units) /\ received \in Seq(Units)
        BY <3>4, RewrittenIsFlat DEF TypeInv
      <3>6. WithAdded(r, received \o <<Entry(name, "modified")>>, D \union {name})
        BY <1>5, <3>1, <3>3, <3>4, <3>5, AddsOne
      <3>7. QED
        BY <2>2, <3>2, <3>4, <3>6
    <2>3. QED
      BY <2>1, <2>2
  <1>7. WithAdded(Rewritten, received \o out, AddedYet)'
    BY <1>3, <1>6 DEF WithAdded
  <1>8. QED
    BY <1>1, <1>2, <1>3, <1>4, <1>7 DEF Adding

-----------------------------------------------------------------------------
(* The steps.                                                              *)

\* A step that changes none of its variables keeps a complete copy complete.
LEMMA SameComplete ==
    ASSUME UNCHANGED <<archive, whole, given, received>>, Complete PROVE Complete'
  <1>1. UNCHANGED <<Rewritten, Added>>
    BY DEF Rewritten, Becomes, FirstOfName, Added, Names
  <1>2. WithAdded(Rewritten, received, Added)'
    BY <1>1 DEF Complete, WithAdded
  <1>3. QED
    BY <1>2 DEF Complete

\* Passing bytes on keeps the place in the copying.
LEMMA SameCopying ==
    ASSUME UNCHANGED <<archive, given, mods>>, received' \o out' = received \o out,
           NEW k, Copying(k)
    PROVE  Copying(k)'
  BY DEF Copying, NamesTo, FlatOf, Steps, Becomes, FirstOfName

\* Passing bytes on keeps the additions' invariant.
LEMMA SameAdding ==
    ASSUME UNCHANGED <<archive, whole, given, mods>>, received' \o out' = received \o out, Adding
    PROVE  Adding'
  <1>1. UNCHANGED <<Rewritten, AddedYet, Names>>
    BY DEF Rewritten, Becomes, FirstOfName, AddedYet, Names
  <1>2. WithAdded(Rewritten, received \o out, AddedYet)'
    BY <1>1 DEF Adding, WithAdded
  <1>3. QED
    BY <1>1, <1>2 DEF Adding

\* Passing bytes on keeps the progress.
LEMMA SameProgress ==
    ASSUME UNCHANGED <<archive, whole, given, mods>>, received' \o out' = received \o out,
           NEW k, Progress(k),
           at' = at \/ (at \in {"start", "write"} /\ at' = "next") \/ (at = "add" /\ at' = "rest")
    PROVE  Progress(k)'
  BY SameCopying, SameAdding DEF Progress

\* At first all of what can be read has still to be read.
LEMMA InitWhole == Init => WholeInv
  <1>1. SUFFICES ASSUME Init PROVE WholeInv
    OBVIOUS
  <1>2. TypeInv
    <2>1. PICK n \in 0..MaxEntries :
              archive \in [1..n -> {Entry(name, "original") : name \in EntryName}]
      BY <1>1 DEF Init, Archives
    <2>2. archive \in Seq({Entry(name, "original") : name \in EntryName}) /\ Len(archive) = n
      BY <2>1, ReplaceFileAssumption
    <2>3. whole \in BOOLEAN
      BY <1>1 DEF Init
    <2>4. \A name \in DOMAIN given : name \in EntryName /\ given[name] \in Modifier
      BY <1>1 DEF Init, Mods
    <2>5. << >> \in Seq(Units)
      OBVIOUS
    <2>6. QED
      BY <1>1, <2>2, <2>3, <2>4, <2>5 DEF Init, TypeInv
  <1>3. PipeInv
    BY <1>1 DEF Init, StreamInit, PipeInv, Active, FeedEnded, WaitReturns, Exited
  <1>4. FinalInv
    BY <1>1 DEF Init, FinalInv
  <1>5. StreamInv(0)
    <2>1. PICK F, h : F = Full(archive) /\ h = Held
      OBVIOUS
    <2>2. F \in Seq(Units) /\ Len(F) = Len(archive) + 1 /\ Len(archive) \in Nat
      BY <1>2, <2>1, ArchiveEntries
    <2>3. h \in Nat /\ h <= Len(F)
      BY <2>1, <2>2 DEF Held
    <2>4. /\ input \in Seq(Units) /\ Len(input) = h
          /\ \A m \in 1..h : input[m] = F[m]
      <3>1. CASE whole
        BY <1>1, <2>1, <2>2, <3>1 DEF Init, Full, Held
      <3>2. CASE ~whole
        <4>1. input = archive /\ h = Len(archive)
          BY <1>1, <2>1, <3>2 DEF Init, Held
        <4>2. \A m \in 1..h : archive[m] = F[m] /\ archive[m] \in Units
          BY <1>2, <2>1, <4>1, ArchiveEntries
        <4>3. archive \in [1..h -> Units]
          BY <1>2, <4>1, <4>2 DEF TypeInv
        <4>4. QED
          BY <2>3, <4>1, <4>2, <4>3
      <3>3. QED
        BY <3>1, <3>2
    <2>5. Span(F, input, 0, h) /\ Span(F, << >>, 0, 0)
      BY <2>2, <2>3, <2>4, SpanEmpty DEF Span
    <2>6. wire = << >> /\ outPipe = << >> /\ inPipe = << >> /\ fed = << >>
      BY <1>1 DEF Init, StreamInit
    <2>7. Len(<< >>) <= 1 /\ 0 <= h
      BY <2>3
    <2>8. Chain(0)
      BY <2>1, <2>5, <2>6 DEF Chain
    <2>9. QED
      BY <2>1, <2>5, <2>6, <2>7, <2>8 DEF StreamInv
  <1>6. Progress(0)
    <2>1. received \o out = FlatOf(Steps, 0)
      <3>1. << >> \o << >> = << >>
        OBVIOUS
      <3>2. QED
        BY <1>1, <1>2, <3>1, RewrittenIsFlat DEF Init
    <2>2. NamesTo(0) = {}
      BY DEF NamesTo
    <2>3. given = [name \in DOMAIN given |-> given[name]]
      BY <1>1 DEF Init, Mods
    <2>4. 0 <= Len(archive)
      BY <1>2, ArchiveEntries
    <2>5. Copying(0)
      BY <1>1, <2>1, <2>2, <2>3, <2>4 DEF Init, Copying
    <2>6. QED
      BY <1>1, <2>5 DEF Init, Progress
  <1>7. QED
    BY <1>1, <1>2, <1>3, <1>4, <1>5, <1>6 DEF Init, WholeInv, EndInv, OnTheWay

\* The command, its child and the goroutines.
LEMMA StreamWhole ==
    ASSUME IInv, WholeInv, Goroutines \/ ChildFails, UNCHANGED rewriter
    PROVE  WholeInv'
  <1>1. TypeInv'
    BY DEF WholeInv, TypeInv, rewriter
  <1>2. PipeInv'
    BY GoroutinesPipe, ChildFailsPipe DEF WholeInv
  <1>3. FinalInv'
    <2>1. Complete => Complete'
      BY SameComplete DEF rewriter
    <2>2. QED
      BY <2>1 DEF WholeInv, FinalInv, Active, rewriter
  <1>4. ASSUME Active PROVE OnTheWay'
    <2>1. PICK k : StreamInv(k) /\ (reader = "reads" => Progress(k))
      BY <1>4 DEF WholeInv, OnTheWay
    <2>2. StreamInv(k)'
      BY <1>4, <2>1, GoroutinesStream, ChildFailsStream DEF WholeInv
    <2>3. reader' = "reads" => Progress(k)'
      BY <2>1, SameProgress DEF rewriter
    <2>4. QED
      BY <2>2, <2>3 DEF OnTheWay
  <1>5. EndInv'
    BY DEF WholeInv, EndInv, rewriter, Goroutines, ChildFails
  <1>6. QED
    BY <1>1, <1>2, <1>3, <1>4, <1>5 DEF WholeInv, Active, rewriter

\* What the reader of the result does.
LEMMA ReaderWhole == ASSUME WholeInv, Reads \/ ClosesEarly PROVE WholeInv'
  <1>1. UNCHANGED <<stream, archive, whole, given, mods, at, outClosed>>
    BY DEF Reads, ClosesEarly
  <1>2. received' \o out' = received \o out /\ received' \in Seq(Units) /\ out' \in Seq(Units)
    <2>1. CASE received' = received \o out /\ out' = << >>
      <3>1. received \o out \in Seq(Units) /\ << >> \in Seq(Units)
        BY ConcatProperties DEF WholeInv, TypeInv
      <3>2. (received \o out) \o << >> = received \o out
        BY <3>1
      <3>3. QED
        BY <2>1, <3>1, <3>2
    <2>2. CASE UNCHANGED <<received, out>>
      BY <2>2 DEF WholeInv, TypeInv
    <2>3. QED
      BY <2>1, <2>2 DEF Reads, ClosesEarly
  <1>3. TypeInv'
    BY <1>1, <1>2 DEF WholeInv, TypeInv
  <1>4. PipeInv'
    BY <1>1 DEF WholeInv, PipeInv, stream, exec, Active, FeedEnded, WaitReturns, Exited
  <1>5. FinalInv'
    <2>1. UNCHANGED received /\ Complete => Complete'
      BY <1>1, SameComplete
    <2>2. CASE out # << >> /\ received' = received \o out /\ out' = << >>
                  /\ UNCHANGED <<reader, outRclosed>> /\ reader = "reads"
      BY <1>1, <2>2 DEF WholeInv, FinalInv, Active
    <2>3. CASE out = << >> /\ outClosed # "open" /\ reader' = outClosed
                  /\ outRclosed' = TRUE /\ UNCHANGED <<received, out>> /\ reader = "reads"
      BY <1>1, <2>1, <2>3 DEF WholeInv, FinalInv, Active
    <2>4. CASE ClosesEarly
      BY <1>1, <2>4 DEF WholeInv, FinalInv, Active, ClosesEarly
    <2>5. QED
      BY <2>2, <2>3, <2>4 DEF Reads
  <1>6. ASSUME Active PROVE OnTheWay'
    <2>1. PICK k : StreamInv(k) /\ (reader = "reads" => Progress(k))
      BY <1>6 DEF WholeInv, OnTheWay
    <2>2. StreamInv(k)'
      BY <1>1, <2>1, SameStream
    <2>3. reader' = "reads" => Progress(k)'
      BY <1>1, <1>2, <2>1, SameProgress DEF Reads, ClosesEarly, WholeInv, FinalInv
    <2>4. QED
      BY <2>2, <2>3 DEF OnTheWay
  <1>7. EndInv'
    BY <1>1 DEF WholeInv, EndInv, Reads, ClosesEarly, stream
  <1>8. QED
    BY <1>1, <1>3, <1>4, <1>5, <1>6, <1>7 DEF WholeInv, Active


\* What the steps of the rewriter leave alone.
LEMMA SameResult ==
    ASSUME WholeInv, UNCHANGED <<archive, whole, given, received, outRclosed, reader>>,
           outClosed' = outClosed \/ outClosed' = "err",
           Active \/ (~Active' /\ UNCHANGED out),
           at' \in {"start", "next", "rest"} => out' = << >>
    PROVE  FinalInv'
  <1>1. Complete => Complete'
    BY SameComplete
  <1>2. Active => outClosed # "eof"
    BY DEF WholeInv, FinalInv
  <1>3. QED
    BY <1>1, <1>2 DEF WholeInv, FinalInv

\* A step that leaves the stream alone keeps what the pipe holds.
LEMMA SamePipe ==
    ASSUME PipeInv, UNCHANGED <<stream, archive, whole>>, at' # "start",
           Active' => Active
    PROVE  PipeInv'
  BY DEF PipeInv, stream, exec, FeedEnded, WaitReturns, Exited

\* Starting the command leaves all of the stream to be read.
LEMMA BeginWhole == ASSUME IInv, WholeInv, Begin PROVE WholeInv'
  <1>1. /\ UNCHANGED <<archive, whole, given, mods, out, outClosed, outRclosed, received, mode>>
        /\ at = "start" /\ at' \in {"next", "ended"}
        /\ UNCHANGED <<input, inputEnd, fed, inPipe, outPipe, wire, closed, rclosed>>
        /\ child' = child \/ child' = "runs"
    BY DEF Begin, Goes, Start, stream, exec
  <1>2. TypeInv'
    BY <1>1 DEF WholeInv, TypeInv
  <1>3. PipeInv'
    <2>1. waiter = "none" /\ child = "none" /\ stdin = "none" /\ stdout = "none"
      BY <1>1 DEF WholeInv, PipeInv, IInv, NotStarted
    <2>2. CASE UNCHANGED stream
      BY <1>1, <2>2, SamePipe DEF WholeInv, Active
    <2>3. CASE Start
      BY <1>1, <2>1, <2>3 DEF Start, WholeInv, PipeInv, Active, FeedEnded, WaitReturns, Exited
    <2>4. QED
      BY <2>2, <2>3 DEF Begin
  <1>4. Complete => Complete'
    BY <1>1, SameComplete
  <1>5. FinalInv'
    <2>1. reader' = reader \/ (reader' = "err" /\ ~Active')
      BY DEF Begin, Goes, Active
    <2>2. QED
      BY <1>1, <1>4, <2>1 DEF WholeInv, FinalInv, Active
  <1>6. ASSUME Active' PROVE OnTheWay'
    <2>1. at' = "next" /\ UNCHANGED reader
      BY <1>6 DEF Begin, Goes, Active
    <2>2. PICK k : StreamInv(k) /\ (reader = "reads" => Progress(k))
      BY <1>1 DEF WholeInv, OnTheWay, Active
    <2>3. StreamInv(k)'
      <3>1. Full(archive)' = Full(archive) /\ Held' = Held
        BY <1>1 DEF Full, Held
      <3>2. \A b : Chain(b)' = Chain(b)
        BY <1>1, <3>1 DEF Chain
      <3>3. child' # "failed" => child # "failed"
        BY <1>1 DEF WholeInv, PipeInv, IInv, NotStarted
      <3>4. QED
        BY <1>1, <2>2, <3>1, <3>2, <3>3 DEF StreamInv, InPlace
    <2>4. reader' = "reads" => Progress(k)'
      BY <1>1, <2>1, <2>2, SameProgress
    <2>5. QED
      BY <2>3, <2>4 DEF OnTheWay
  <1>7. EndInv'
    BY <1>1 DEF WholeInv, EndInv, Begin
  <1>8. QED
    BY <1>2, <1>3, <1>5, <1>6, <1>7 DEF WholeInv

\* The pipe to the reader has taken an entry, or is closed.
LEMMA WrittenWhole == ASSUME WholeInv, Written PROVE WholeInv'
  <1>1. /\ UNCHANGED <<stream, archive, whole, given, mods, outRclosed, received, reader>>
        /\ at \in {"write", "add"}
    BY DEF Written
  <1>2. PipeInv'
    BY <1>1, SamePipe DEF WholeInv, Written, Goes, CloseWithError, Active
  <1>3. CASE out = << >> /\ at' = (IF at = "write" THEN "next" ELSE "rest")
                /\ UNCHANGED <<out, outClosed>>
    <2>1. TypeInv' /\ FinalInv' /\ EndInv'
      BY <1>1, <1>3, SameResult DEF WholeInv, TypeInv, EndInv, Active, stream
    <2>2. PICK k : StreamInv(k) /\ (reader = "reads" => Progress(k))
      BY <1>1 DEF WholeInv, OnTheWay, Active
    <2>3. StreamInv(k)'
      BY <1>1, <2>2, SameStream
    <2>4. reader' = "reads" => Progress(k)'
      BY <1>1, <1>3, <2>2, SameProgress
    <2>5. QED
      BY <1>2, <2>1, <2>3, <2>4 DEF WholeInv, OnTheWay
  <1>4. CASE CloseWithError /\ out' = << >>
    <2>1. << >> \in Seq(Units)
      OBVIOUS
    <2>2. TypeInv'
      BY <1>1, <1>4, <2>1 DEF WholeInv, TypeInv
    <2>3. FinalInv'
      BY <1>1, <1>4, SameResult DEF CloseWithError, Goes, Active
    <2>4. ~Active' /\ EndInv'
      BY <1>1, <1>4 DEF CloseWithError, Goes, Active, WholeInv, EndInv, stream
    <2>5. QED
      BY <1>2, <2>2, <2>3, <2>4 DEF WholeInv
  <1>5. QED
    BY <1>3, <1>4 DEF Written, Goes

\* The deferred function closes the input, and ends with it.
LEMMA DeferredWhole == ASSUME WholeInv, Deferred \/ InputClosed PROVE WholeInv'
  <1>1. /\ UNCHANGED <<archive, whole, given, mods, out, outClosed, outRclosed, received, reader>>
        /\ UNCHANGED <<input, inputEnd, mode, exec, wire, closed, waiter>>
        /\ ~Active' /\ ~Active /\ (rclosed' = rclosed \/ rclosed') /\ at' # "start"
    BY DEF Deferred, InputClosed, CloseInput, Close, Goes, Active, stream
  <1>2. TypeInv' /\ FinalInv'
    BY <1>1, SameResult DEF WholeInv, TypeInv, Active
  <1>3. PipeInv'
    BY <1>1 DEF WholeInv, PipeInv, exec, FeedEnded, WaitReturns, Exited
  <1>4. EndInv'
    BY <1>1 DEF WholeInv, EndInv, Active
  <1>5. QED
    BY <1>1, <1>2, <1>3, <1>4 DEF WholeInv

\* What a modifier does with the entry, or with none.
Uses(name) ==
    \/ mods[name] = "fails" /\ at' = "close" /\ outClosed' = "err" /\ UNCHANGED out
    \/ /\ mods[name] # "fails" /\ UNCHANGED outClosed
       /\ out' = IF mods[name] = "drops" THEN << >> ELSE <<Entry(name, "modified")>>
       /\ \/ UNCHANGED at
          \/ at = "next" /\ at' = "write"
          \/ at = "rest" /\ at' = "add"
       /\ out' = << >> \/ at' # at

\* A modification uses up its modifier.
LEMMA ModifyUses ==
    ASSUME NEW name, Modify(name), at \in {"next", "rest"}, out = << >>
    PROVE  Uses(name)
  BY DEF Modify, CloseWithError, Goes, Uses

\* Using up a modifier keeps the types.
LEMMA UsedType ==
    ASSUME TypeInv, UNCHANGED <<archive, whole, given, received>>, NEW name \in DOMAIN mods,
           mods' = Used(name), Uses(name)
    PROVE  TypeInv'
  <1>1. Entry(name, "modified") \in Units
    BY EntryIsUnit DEF TypeInv
  <1>2. << >> \in Seq(Units) /\ <<Entry(name, "modified")>> \in Seq(Units)
    BY <1>1
  <1>3. out' \in Seq(Units)
    BY <1>2 DEF Uses, TypeInv
  <1>4. DOMAIN mods' \subseteq DOMAIN given
    BY DEF Used, TypeInv
  <1>5. QED
    BY <1>3, <1>4 DEF TypeInv

\* The modifiers left over are used, and the result is closed when none is.
LEMMA RestWhole == ASSUME WholeInv, Rest PROVE WholeInv'
  <1>1. /\ at = "rest" /\ out = << >> /\ Active
        /\ UNCHANGED <<stream, archive, whole, given, outRclosed, received, reader>>
    BY DEF Rest, WholeInv, FinalInv, Active
  <1>2. PICK k : StreamInv(k) /\ (reader = "reads" => Adding)
    BY <1>1 DEF WholeInv, OnTheWay, Progress
  <1>3. StreamInv(k)'
    BY <1>1, <1>2, SameStream
  <1>4. CASE \E name \in DOMAIN mods : Modify(name) /\ mods' = Used(name)
    <2>1. PICK name \in DOMAIN mods : Uses(name) /\ mods' = Used(name)
      BY <1>1, <1>4, ModifyUses
    <2>2. TypeInv'
      BY <1>1, <2>1, UsedType DEF WholeInv
    <2>3. at' \in {"rest", "add", "close"}
      BY <1>1, <2>1 DEF Uses
    <2>4. PipeInv' /\ FinalInv'
      BY <1>1, <2>1, <2>3, SamePipe, SameResult DEF WholeInv, Uses
    <2>5. ASSUME Active', reader' = "reads" PROVE Progress(k)'
      <3>1. Adding'
        BY <1>1, <1>2, <2>1, <2>5, AddsNext DEF WholeInv, Uses, Active
      <3>2. QED
        BY <2>3, <3>1 DEF Progress
    <2>6. EndInv'
      BY <1>1, <2>1, <2>3 DEF WholeInv, EndInv, stream
    <2>7. QED
      BY <1>3, <2>2, <2>4, <2>5, <2>6 DEF WholeInv, OnTheWay
  <1>5. CASE mods = << >> /\ outClosed' = "eof" /\ at' = "close" /\ UNCHANGED <<mods, out>>
    <2>1. TypeInv'
      BY <1>1, <1>5 DEF WholeInv, TypeInv
    <2>2. PipeInv'
      BY <1>1, <1>5, SamePipe DEF WholeInv, Active
    <2>3. ASSUME reader = "reads" PROVE Complete
      <3>1. DOMAIN mods = {}
        BY <1>5
      <3>2. AddedYet = Added
        BY <3>1 DEF AddedYet, Added
      <3>3. received \o << >> = received
        BY DEF WholeInv, TypeInv
      <3>4. QED
        BY <1>1, <1>2, <2>3, <3>1, <3>2, <3>3 DEF Adding, Complete
    <2>4. Complete => Complete'
      BY <1>1, SameComplete
    <2>5. FinalInv'
      BY <1>1, <1>5, <2>3, <2>4 DEF WholeInv, FinalInv, Active
    <2>6. EndInv'
      BY <1>1, <1>5 DEF WholeInv, EndInv, stream
    <2>7. QED
      BY <1>5, <2>1, <2>2, <2>5, <2>6 DEF WholeInv, Active
  <1>6. QED
    BY <1>4, <1>5 DEF Rest, Goes

\* An end without an error is behind all that the stream held.
LEMMA EndIsEnd ==
    ASSUME IInv, PipeInv, Active, TypeInv, End = "eof", NEW k, StreamInv(k)
    PROVE  k >= Len(archive) /\ inputEnd = "eof"
  <1>1. PICK F : F = Full(archive)
    OBVIOUS
  <1>2. Len(archive) \in Nat
    BY ArchiveEntries
  <1>3. CASE InPlace
    <2>1. input = << >> /\ inputEnd = "eof" /\ Span(F, input, k, Held)
      BY <1>1, <1>3 DEF End, StreamInv
    <2>2. k = Held
      BY <2>1, SpanEmpty DEF Span
    <2>3. QED
      BY <1>2, <2>1, <2>2 DEF Held
  <1>4. CASE ~InPlace
    <2>1. wire = << >> /\ closed = "eof"
      BY <1>4 DEF End
    <2>2. /\ inPipe = << >> /\ fed = << >> /\ input = << >> /\ outPipe = << >>
          /\ child = "ok" /\ inputEnd = "eof"
      BY <2>1 DEF PipeInv, WaitReturns, FeedEnded
    <2>3. PICK a, b : Span(F, << >>, k, a) /\ Span(F, << >>, a, b) /\ Chain(b)
      BY <1>1, <1>4, <2>1, <2>2 DEF StreamInv
    <2>4. PICK c, d : Span(F, << >>, b, c) /\ Span(F, << >>, c, d) /\ Span(F, << >>, d, Held)
      BY <1>1, <2>2, <2>3 DEF Chain
    <2>5. \A i, j : Span(F, << >>, i, j) => i = j
      BY SpanEmpty DEF Span
    <2>6. k = Held
      BY <2>3, <2>4, <2>5
    <2>7. QED
      BY <1>2, <2>2, <2>6 DEF Held
  <1>5. QED
    BY <1>3, <1>4

\* So the rewriter takes it for the end of the archive behind the last entry.
LEMMA ReadEndWhole == ASSUME IInv, WholeInv, ReadEnd PROVE WholeInv'
  <1>1. /\ UNCHANGED <<stream, archive, whole, given, mods, out, outRclosed, received, reader>>
        /\ at = "next" /\ Active /\ out = << >>
        /\ \/ End = "eof" /\ at' = "rest" /\ UNCHANGED outClosed
           \/ at' = "close" /\ outClosed' = "err"
    BY DEF ReadEnd, Goes, WholeInv, FinalInv, Active
  <1>2. TypeInv'
    BY <1>1 DEF WholeInv, TypeInv
  <1>3. PipeInv' /\ FinalInv'
    BY <1>1, SamePipe, SameResult DEF WholeInv
  <1>4. ASSUME Active' PROVE OnTheWay'
    <2>1. End = "eof"
      BY <1>1, <1>4 DEF Active
    <2>2. PICK k : StreamInv(k) /\ (reader = "reads" => Copying(k))
      BY <1>1 DEF WholeInv, OnTheWay, Progress
    <2>3. k >= Len(archive) /\ k \in Nat /\ Len(archive) \in Nat
      BY <1>1, <2>1, <2>2, EndIsEnd, ArchiveEntries DEF WholeInv, StreamInv, Span
    <2>4. ASSUME reader = "reads" PROVE Adding'
      <3>1. k = Len(archive) /\ Copying(k)
        BY <2>2, <2>3, <2>4 DEF Copying
      <3>2. Adding
        BY <1>1, <3>1, StartsAdding DEF WholeInv
      <3>3. QED
        BY <1>1, <3>2, SameAdding
    <2>5. reader' = "reads" => Progress(k)'
      BY <1>1, <1>4, <2>4 DEF Progress, Active
    <2>6. StreamInv(k)'
      BY <1>1, <2>2, SameStream
    <2>7. QED
      BY <2>5, <2>6 DEF OnTheWay
  <1>5. EndInv'
    <2>1. CASE End = "eof"
      <3>1. PICK k : StreamInv(k)
        BY <1>1 DEF WholeInv, OnTheWay
      <3>2. inputEnd = "eof"
        BY <1>1, <2>1, <3>1, EndIsEnd DEF WholeInv
      <3>3. QED
        BY <1>1, <3>2 DEF EndInv, stream
    <2>2. CASE at' = "close" /\ outClosed' = "err"
      BY <1>1, <2>2 DEF WholeInv, EndInv, stream
    <2>3. QED
      BY <1>1, <2>1, <2>2
  <1>6. QED
    BY <1>2, <1>3, <1>4, <1>5 DEF WholeInv

\* Reading the next entry does not restart the rewriter.
LEMMA ReadNextGoes ==
    ASSUME ReadNext, at = "next" PROVE at' # "start"
  <1>1. ASSUME NEW name, Modify(name) PROVE at' # "start"
    BY <1>1, ModifyStays
  <1>2. QED
    BY <1>1 DEF ReadNext, Goes

\* The rewriter takes the next entry, or the trailer behind the last one.
LEMMA ReadNextWhole == ASSUME IInv, WholeInv, ReadNext PROVE WholeInv'
  <1>1. /\ UNCHANGED <<inputEnd, mode, exec, closed, rclosed, waiter, cancelled, archive, whole,
                       given, outRclosed, received, reader>>
        /\ at = "next" /\ Active /\ out = << >> /\ Available # << >> /\ Take
    BY DEF ReadNext, WholeInv, FinalInv, Active
  <1>2. PICK k : StreamInv(k) /\ (reader = "reads" => Copying(k))
    BY <1>1 DEF WholeInv, OnTheWay, Progress
  <1>3. PICK entry : entry = Head(Available)
    OBVIOUS
  <1>4. Held \in Nat
    BY ArchiveEntries DEF WholeInv, Held
  <1>5. /\ entry = Full(archive)[k+1] /\ entry \in Units
        /\ k \in Nat /\ k + 1 <= Held /\ StreamInv(k + 1)'
    BY <1>1, <1>2, <1>3, <1>4, TakesNext
  <1>6. PipeInv'
    <2>1. CASE InPlace
      <3>1. stdin = "none" /\ UNCHANGED wire
        BY <1>1, <2>1 DEF IInv, Behind, NotStarted, Take
      <3>2. QED
        BY <1>1, <3>1, ReadNextGoes DEF WholeInv, PipeInv, exec, Active, FeedEnded, WaitReturns, Exited
    <2>2. CASE ~InPlace
      <3>1. wire' = << >> /\ UNCHANGED input
        BY <1>1, <2>2 DEF Take
      <3>2. QED
        BY <1>1, <3>1, ReadNextGoes DEF WholeInv, PipeInv, exec, Active, FeedEnded, WaitReturns, Exited
    <2>3. QED
      BY <2>1, <2>2
  <1>7. CASE entry = Trailer /\ at' = "rest" /\ UNCHANGED <<out, mods, outClosed>>
    <2>1. TypeInv' /\ FinalInv'
      BY <1>1, <1>7, SameResult DEF WholeInv, TypeInv
    <2>2. EndInv'
      <3>1. ASSUME ~whole PROVE FALSE
        <4>1. k + 1 \in 1..Len(archive)
          BY <1>5, <3>1, ArchiveEntries DEF WholeInv, Held
        <4>2. QED
          BY <1>5, <1>7, <4>1, ArchiveEntries DEF WholeInv
      <3>2. QED
        BY <1>1, <3>1 DEF WholeInv, TypeInv, EndInv
    <2>3. ASSUME reader = "reads" PROVE Adding'
      <3>1. k = Len(archive)
        <4>1. k <= Len(archive)
          BY <1>2, <2>3 DEF Copying
        <4>2. k < Len(archive) => k + 1 \in 1..Len(archive)
          BY <1>5, ArchiveEntries DEF WholeInv
        <4>3. ~(k < Len(archive))
          BY <1>5, <1>7, <4>2, ArchiveEntries DEF WholeInv
        <4>4. QED
          BY <1>5, <4>1, <4>3, ArchiveEntries DEF WholeInv
      <3>2. Adding
        BY <1>1, <1>2, <2>3, <3>1, StartsAdding DEF WholeInv
      <3>3. QED
        BY <1>1, <1>7, <3>2, SameAdding
    <2>4. reader' = "reads" => Progress(k + 1)'
      BY <1>1, <1>7, <2>3 DEF Progress
    <2>5. QED
      BY <1>5, <1>6, <2>1, <2>4, <2>2 DEF WholeInv, OnTheWay
  <1>8. CASE entry # Trailer
    <2>1. \/ /\ entry.name \notin DOMAIN mods /\ out' = <<entry>> /\ at' = "write"
             /\ UNCHANGED <<mods, outClosed>>
          \/ entry.name \in DOMAIN mods /\ Uses(entry.name) /\ mods' = Used(entry.name)
      BY <1>1, <1>3, <1>8, ModifyUses DEF ReadNext, Goes
    <2>2. TypeInv'
      <3>1. CASE entry.name \in DOMAIN mods /\ Uses(entry.name) /\ mods' = Used(entry.name)
        BY <1>1, <3>1, UsedType DEF WholeInv
      <3>2. CASE out' = <<entry>> /\ UNCHANGED mods
        <4>1. <<entry>> \in Seq(Units)
          BY <1>5
        <4>2. QED
          BY <1>1, <3>2, <4>1 DEF WholeInv, TypeInv
      <3>3. QED
        BY <2>1, <3>1, <3>2
    <2>3. at' \in {"next", "write", "close"}
      BY <1>1, <2>1 DEF Uses
    <2>4. FinalInv'
      BY <1>1, <2>1, <2>3, SameResult DEF Uses
    <2>5. ASSUME Active', reader = "reads" PROVE Copying(k + 1)'
      <3>1. k < Len(archive) /\ k + 1 \in 1..Len(archive)
        <4>1. k <= Len(archive) /\ Len(archive) \in Nat
          BY <1>2, <2>5, ArchiveEntries DEF Copying, WholeInv
        <4>2. k # Len(archive)
          BY <1>5, <1>8, ArchiveEntries DEF WholeInv
        <4>3. QED
          BY <1>5, <4>1, <4>2
      <3>2. entry = archive[k+1]
        BY <1>5, <3>1, ArchiveEntries DEF WholeInv
      <3>3. at' # "close"
        BY <2>5 DEF Active
      <3>4. QED
        BY <1>1, <1>2, <1>5, <2>1, <2>5, <3>1, <3>2, <3>3, CopiesNext DEF WholeInv, Uses
    <2>6. Active' /\ reader' = "reads" => Progress(k + 1)'
      BY <1>1, <2>3, <2>5 DEF Progress
    <2>7. EndInv'
      BY <1>1, <2>1, <2>3 DEF WholeInv, EndInv, Uses
    <2>8. QED
      BY <1>5, <1>6, <2>2, <2>4, <2>6, <2>7 DEF WholeInv, OnTheWay
  <1>9. QED
    BY <1>3, <1>7, <1>8 DEF ReadNext, Goes

\* Every step keeps the invariant of the whole rewriting.
LEMMA NextWhole == ASSUME IInv, WholeInv, [Next]_vars PROVE WholeInv'
  <1>1. CASE UNCHANGED vars
    <2>1. UNCHANGED <<stream, rewriter>>
      BY <1>1 DEF vars
    <2>2. Complete => Complete'
      BY <2>1, SameComplete DEF rewriter
    <2>3. TypeInv' /\ PipeInv' /\ FinalInv' /\ EndInv'
      BY <2>1, <2>2 DEF WholeInv, TypeInv, PipeInv, FinalInv, EndInv, Active, FeedEnded, WaitReturns,
                        Exited, stream, exec, rewriter
    <2>4. ASSUME Active PROVE OnTheWay'
      <3>1. PICK k : StreamInv(k) /\ (reader = "reads" => Progress(k))
        BY <2>4 DEF WholeInv, OnTheWay
      <3>2. StreamInv(k)'
        BY <2>1, <3>1, SameStream DEF rewriter
      <3>3. reader' = "reads" => Progress(k)'
        BY <2>1, <3>1, SameProgress DEF rewriter
      <3>4. QED
        BY <3>2, <3>3 DEF OnTheWay
    <2>5. QED
      BY <2>1, <2>3, <2>4 DEF WholeInv, Active, rewriter
  <1>2. CASE Rewriter
    BY <1>2, BeginWhole, ReadNextWhole, ReadEndWhole, WrittenWhole, RestWhole, DeferredWhole
    DEF Rewriter
  <1>3. CASE Ended
    BY <1>1, <1>3 DEF Ended
  <1>4. QED
    BY <1>1, <1>2, <1>3, StreamWhole, ReaderWhole DEF Next

\* A reader that meets the end of the result has all that the stream held, changed as
\* the modifiers say and with what they add; an error of the stream before its trailer,
\* of the child or of a modifier is an error at the end.  A stream without a trailer
\* counts as whole only if it ends with io.EOF between two entries.  For archives of any
\* length, any names and modifiers, and pipes of any size.  (ReplaceFileTarWrapper,
\* cmdStream.)
THEOREM RewritesWhole == Spec => []WholeOrError
  <1>1. Complete /\ TypeInv /\ EndInv => WholeOrError
    <2>1. SUFFICES ASSUME Complete, TypeInv, EndInv PROVE WholeOrError
      OBVIOUS
    <2>2. PICK r : r = Rewritten
      OBVIOUS
    <2>3. r \in Seq(Units) /\ received \in Seq(Units)
      BY <2>1, <2>2, RewrittenIsFlat DEF TypeInv
    <2>4. WithAdded(r, received, Added)
      BY <2>1, <2>2 DEF Complete
    <2>5. Len(r) <= Len(received)
      BY <2>3, <2>4, FS_CardinalityType DEF WithAdded
    <2>6. SubSeq(received, 1, Len(r)) = r
      BY <2>3, <2>4, <2>5 DEF WithAdded
    <2>7. IsPrefix(r, received)
      BY <2>3, <2>5, <2>6 DEF IsPrefix
    <2>8. QED
      BY <2>1, <2>2, <2>4, <2>7 DEF Complete, WithAdded, EndInv, WholeOrError
  <1>2. WholeInv => WholeOrError
    BY <1>1 DEF WholeInv, FinalInv, WholeOrError
  <1>3. IInv /\ WholeInv /\ [Next]_vars => WholeInv'
    BY NextWhole
  <1>4. QED
    BY <1>2, <1>3, InitWhole, Inductive, PTL DEF Spec
=============================================================================
