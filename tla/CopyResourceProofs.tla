------------------------- MODULE CopyResourceProofs -------------------------
(***************************************************************************)
(* For every tree, every pair of paths and any number of failures: a copy  *)
(* that CopyResource reports as done has received all that the Tarballer   *)
(* announced.  Each pipe has a writer that owes contents for the last      *)
(* header it wrote, or does not, and a reader that awaits them, or does    *)
(* not; what lies in the pipe is the difference between the two.  The      *)
(* goroutine of RebaseArchiveEntries is the reader of the one pipe and the *)
(* writer of the other.                                                    *)
(***************************************************************************)
EXTENDS CopyResource, TreeProofs
-----------------------------------------------------------------------------
\* Headers are records; what has been received is some set's.
IsHeader(hdr) ==
    hdr = [type |-> hdr.type, name |-> hdr.name, link |-> hdr.link, owner |-> hdr.owner,
           time |-> hdr.time]

TypeInv == \E S, T : written \in Seq(S) /\ received \in Seq([hdr : T, whole : BOOLEAN])

\* Where the three can be together, and what each has returned there.
PlaceInv ==
    /\ at \in {"idle", "start", "walk", "add", "header", "body", "contents", "close",
               "closing", "ended"}
    /\ caller \in {"source", "archive", "dest", "next", "place", "body", "returned", "close",
                   "done"}
    /\ rebaser \in {"none", "next", "header", "body", "contents", "end", "ended"}
    /\ rebasedEnd \in {"open", "eof", "err"}
    /\ caller \notin {"returned", "close", "done"} => untar = "none"
    /\ caller \in {"returned", "close"} => untar \in {"nil", "err"}
    /\ caller # "done" => result = "none"
    /\ rclosed => caller = "done"
    /\ rebasedClosed => caller \in {"close", "done"}
    /\ wclosed => at = "ended"
    /\ at \in {"header", "body", "contents"} => ~owed
    /\ caller \in {"source", "archive"} => at = "idle"
    /\ caller \in {"source", "archive", "dest"} => received = << >> /\ rebase = NoRebase
    /\ rebase = NoRebase => rebaser = "none"
    /\ rebaser = "ended" <=> rebasedEnd # "open"

Holds(inlet, what) == inlet # << >> /\ Head(inlet).what = what

\* A message lies in a pipe only while its writer waits for it to be read.
WireInv ==
    /\ wire # << >> => Holds(wire, "header") \/ Holds(wire, "body") \/ Holds(wire, "end")
    /\ Holds(wire, "header") => /\ at = "header" /\ IsHeader(Head(wire).hdr)
                                /\ Head(wire).hdr = Last(written)
    /\ Holds(wire, "body") => at = "contents"
    /\ Holds(wire, "end") => at = "closing"

RebasedInv ==
    /\ rebased # << >> =>
           Holds(rebased, "header") \/ Holds(rebased, "body") \/ Holds(rebased, "end")
    /\ Holds(rebased, "header") => rebaser \in {"header", "contents"}
    /\ Holds(rebased, "body") => rebaser = "contents"
    /\ Holds(rebased, "end") => rebaser = "end"

\* Contents that a writer has announced and not written, and that a reader waits for.
WriterOwes   == owed \/ at = "body" \/ (at = "header" /\ Last(written).type = "reg")
RebaserOwes  == rebaser \in {"header", "body"}
CallerAwaits == caller = "body" \/ (caller = "place" /\ Last(received).hdr.type = "reg")

InStep(inlet, owes, awaits) ==
    /\ inlet = << >> => (owes <=> awaits)
    /\ Holds(inlet, "header") => ~awaits /\ (owes <=> Head(inlet).hdr.type = "reg")
    /\ Holds(inlet, "body") => awaits /\ ~owes
    /\ Holds(inlet, "end") => ~awaits /\ ~owes

FirstPipe  == InStep(wire, WriterOwes, IF rebase = NoRebase THEN CallerAwaits ELSE RebaserOwes)
SecondPipe == rebase # NoRebase => InStep(rebased, RebaserOwes, CallerAwaits)

Headers(inlet) == IF Holds(inlet, "header") THEN 1 ELSE 0
Counted == Len(written) = Len(received) + Headers(wire) + Headers(rebased)

\* Once the goroutine has come to the end of the archive the Tarballer writes no more.
AtEnd == rebaser = "end" \/ rebasedEnd = "eof" =>
             at \in {"closing", "ended"} /\ wire = << >> /\ ~owed

\* All this while the caller reads, unless the second pipe is broken.
Reading   == untar = "none" /\ caller # "done"
StreamInv == Reading /\ rebasedEnd # "err" => FirstPipe /\ SecondPipe /\ Counted /\ AtEnd

\* Contents are missing of no entry but the last, and that one is being read.
WholeInv ==
    Reading => /\ caller \in {"place", "body"} => received # << >>
               /\ \A i \in 1..Len(received) :
                     received[i].whole \/ (i = Len(received) /\ CallerAwaits)

\* What an archive that was read to its end has met.
Complete == /\ at \in {"closing", "ended"} /\ ~owed /\ Len(received) = Len(written)
            /\ \A i \in 1..Len(received) : received[i].whole
ResultInv == (untar = "nil" => Complete) /\ (result = "nil" => untar = "nil")

IInv == TypeInv /\ PlaceInv /\ WireInv /\ RebasedInv /\ StreamInv /\ WholeInv /\ ResultInv
-----------------------------------------------------------------------------
\* The variables the invariant reads.
control  == <<at, wire, wclosed, rclosed, owed, written, rebase, caller, rebaser, second, outcome>>
besideAt == <<wire, wclosed, rclosed, owed, written, rebase, caller, rebaser, second, outcome>>
notTarballer == <<rebase, caller, rebaser, second, outcome>>
besideWire   == <<wclosed, rclosed, owed, written, rebase, caller, rebaser, second, outcome>>

\* A step that leaves these variables alone keeps the invariant.
LEMMA Idle == ASSUME IInv, UNCHANGED control PROVE IInv'
  <1> USE DEF control, second, outcome
  <1>1. TypeInv' /\ PlaceInv'
    <2>1. UNCHANGED <<written, received>>
      OBVIOUS
    <2>2. TypeInv'
      BY <2>1 DEF IInv, TypeInv
    <2> QED
      BY <2>2 DEF IInv, PlaceInv
  <1>2. WireInv' /\ RebasedInv'
    BY DEF IInv, WireInv, RebasedInv, Holds
  <1>3. StreamInv'
    BY DEF IInv, StreamInv, Reading, FirstPipe, SecondPipe, Counted, AtEnd, InStep, Headers, Holds,
           WriterOwes, RebaserOwes, CallerAwaits
  <1>4. WholeInv' /\ ResultInv'
    BY DEF IInv, WholeInv, ResultInv, Reading, Complete, CallerAwaits
  <1> QED
    BY <1>1, <1>2, <1>3, <1>4 DEF IInv

\* What is in the two pipes, as the lengths and the places have it.
LEMMA Lengths ==
    ASSUME TypeInv
    PROVE  /\ Len(written) \in Nat /\ Len(received) \in Nat
           /\ received = << >> <=> Len(received) = 0
  <1>1. PICK S, T : written \in Seq(S) /\ received \in Seq([hdr : T, whole : BOOLEAN])
    BY DEF TypeInv
  <1> QED
    BY <1>1, EmptySeq, LenProperties
-----------------------------------------------------------------------------
(***************************************************************************)
(* The Tarballer.                                                          *)
(***************************************************************************)
\* It moves from place to place and writes nothing.
LEMMA Quiet ==
    ASSUME IInv, UNCHANGED besideAt,
           at \in {"start", "walk", "add"}, at' \in {"walk", "add", "close"}
    PROVE  IInv'
  <1> USE DEF besideAt, second, outcome
  <1>1. TypeInv' /\ PlaceInv'
    BY DEF IInv, TypeInv, PlaceInv
  <1>2. WireInv' /\ RebasedInv'
    BY DEF IInv, WireInv, RebasedInv, Holds
  <1>3. StreamInv'
    BY DEF IInv, StreamInv, Reading, FirstPipe, SecondPipe, Counted, AtEnd, InStep, Headers, Holds,
           WriterOwes, RebaserOwes, CallerAwaits
  <1>4. WholeInv' /\ ResultInv'
    BY DEF IInv, WholeInv, ResultInv, Reading, Complete, CallerAwaits
  <1> QED
    BY <1>1, <1>2, <1>3, <1>4 DEF IInv

\* It puts a header on the wire.
LEMMA HeaderWritten ==
    ASSUME IInv, NEW hdr, IsHeader(hdr), at = "add", at' = "header", ~owed,
           UNCHANGED <<notTarballer, wclosed, rclosed, owed>>,
           wire' = <<[what |-> "header", hdr |-> hdr]>>, written' = Append(written, hdr)
    PROVE  IInv'
  <1> USE DEF notTarballer, second, outcome
  <1>1. PICK S, T : written \in Seq(S) /\ received \in Seq([hdr : T, whole : BOOLEAN])
    BY DEF IInv, TypeInv
  <1>2. /\ Len(written') = Len(written) + 1 /\ Last(written') = hdr
        /\ written' \in Seq(S \union {hdr}) /\ Len(written) \in Nat
    <2>0. written \in Seq(S)
      BY <1>1
    <2>1. /\ Len(Append(written, hdr)) = Len(written) + 1 /\ Last(Append(written, hdr)) = hdr
          /\ Append(written, hdr) \in Seq(S \union {hdr}) /\ Len(written) \in Nat
      BY ONLY <2>0, AppendFacts, SMT
    <2> QED
      BY <2>1
  <1>3. TypeInv'
    BY <1>1, <1>2 DEF TypeInv
  <1>4. /\ Holds(wire', "header") /\ Head(wire').hdr = hdr /\ wire = << >>
        /\ ~Holds(wire', "body") /\ ~Holds(wire', "end") /\ wire' # << >>
    BY DEF Holds, IInv, WireInv
  <1>5. PlaceInv'
    BY DEF IInv, PlaceInv
  <1>6. WireInv' /\ RebasedInv'
    BY <1>2, <1>4 DEF IInv, WireInv, RebasedInv, Holds
  <1>7. ASSUME Reading', rebasedEnd' # "err" PROVE FirstPipe' /\ SecondPipe' /\ Counted' /\ AtEnd'
    <2>1. Reading /\ FirstPipe /\ SecondPipe /\ Counted /\ AtEnd
      BY <1>7 DEF IInv, StreamInv, Reading
    <2>2. FirstPipe'
      BY <2>1, <1>2, <1>4 DEF FirstPipe, InStep, WriterOwes, RebaserOwes, CallerAwaits
    <2>3. SecondPipe'
      BY <2>1 DEF SecondPipe, InStep, RebaserOwes, CallerAwaits, Holds
    <2>4. Headers(wire) = 0 /\ Headers(wire') = 1 /\ Headers(rebased) \in {0, 1}
      BY <1>4 DEF Headers, Holds
    <2>5. Headers(rebased') = Headers(rebased) /\ Len(received') = Len(received)
      BY DEF Headers, Holds
    <2>6. Len(received) \in Nat
      BY Lengths DEF IInv
    <2>7. Counted'
      BY <2>1, <2>4, <2>5, <2>6, <1>2 DEF Counted
    <2>8. AtEnd'
      BY <2>1 DEF AtEnd
    <2> QED
      BY <2>2, <2>3, <2>7, <2>8
  <1>8. WholeInv' /\ ResultInv'
    BY DEF IInv, WholeInv, ResultInv, Reading, Complete, CallerAwaits
  <1> QED
    BY <1>3, <1>5, <1>6, <1>7, <1>8 DEF IInv, StreamInv

\* The header has been read, or nobody will read it.
LEMMA HeaderTaken ==
    ASSUME IInv, at = "header", UNCHANGED <<notTarballer, wclosed, rclosed, owed, written>>,
           \/ WriteBroken /\ wire' = << >> /\ at' = "walk"
           \/ /\ WriteDone /\ UNCHANGED wire
              /\ at' = IF Last(written).type = "reg" THEN "body" ELSE "walk"
    PROVE  IInv'
  <1> USE DEF notTarballer, second, outcome
  <1>1. TypeInv' /\ PlaceInv'
    BY DEF IInv, TypeInv, PlaceInv
  <1>2. wire' = << >> /\ (Reading => wire = << >>)
    BY DEF WriteBroken, WriteDone, IInv, PlaceInv, Reading
  <1>3. WireInv' /\ RebasedInv'
    BY <1>2 DEF IInv, WireInv, RebasedInv, Holds
  <1>4. StreamInv'
    BY <1>2 DEF WriteBroken, IInv, PlaceInv, StreamInv, Reading, FirstPipe, SecondPipe, Counted,
           AtEnd, InStep, Headers, Holds, WriterOwes, RebaserOwes, CallerAwaits
  <1>5. WholeInv' /\ ResultInv'
    BY DEF IInv, WholeInv, ResultInv, Reading, Complete, CallerAwaits
  <1> QED
    BY <1>1, <1>3, <1>4, <1>5 DEF IInv

\* The contents are not there, or too short, and are owed from now on; or nobody wants them.
LEMMA ContentsMissing ==
    ASSUME IInv, at = "body", at' = "walk",
           UNCHANGED <<notTarballer, wire, wclosed, rclosed, written>>,
           owed' = TRUE \/ (rclosed /\ UNCHANGED owed)
    PROVE  IInv'
  <1> USE DEF notTarballer, second, outcome
  <1>1. TypeInv' /\ PlaceInv'
    BY DEF IInv, TypeInv, PlaceInv
  <1>2. WireInv' /\ RebasedInv'
    BY DEF IInv, WireInv, RebasedInv, Holds
  <1>3. StreamInv'
    BY DEF IInv, PlaceInv, StreamInv, Reading, FirstPipe, SecondPipe, Counted,
           AtEnd, InStep, Headers, Holds, WriterOwes, RebaserOwes, CallerAwaits
  <1>4. WholeInv' /\ ResultInv'
    BY DEF IInv, WholeInv, ResultInv, Reading, Complete, CallerAwaits
  <1> QED
    BY <1>1, <1>2, <1>3, <1>4 DEF IInv

\* The contents are on the wire.
LEMMA ContentsWritten ==
    ASSUME IInv, at = "body", at' = "contents",
           UNCHANGED <<notTarballer, wclosed, rclosed, owed, written>>,
           wire' = <<[what |-> "body"]>>
    PROVE  IInv'
  <1> USE DEF notTarballer, second, outcome
  <1>1. TypeInv' /\ PlaceInv'
    BY DEF IInv, TypeInv, PlaceInv
  <1>2. /\ Holds(wire', "body") /\ ~Holds(wire', "header") /\ ~Holds(wire', "end")
        /\ wire = << >> /\ wire' # << >>
    BY DEF Holds, IInv, WireInv
  <1>3. WireInv' /\ RebasedInv'
    BY <1>2 DEF IInv, WireInv, RebasedInv, Holds
  <1>4. StreamInv'
    BY <1>2 DEF IInv, PlaceInv, StreamInv, Reading, FirstPipe, SecondPipe, Counted,
           AtEnd, InStep, Headers, Holds, WriterOwes, RebaserOwes, CallerAwaits
  <1>5. WholeInv' /\ ResultInv'
    BY DEF IInv, WholeInv, ResultInv, Reading, Complete, CallerAwaits
  <1> QED
    BY <1>1, <1>3, <1>4, <1>5 DEF IInv

\* They have been read, or nobody will read them.
LEMMA ContentsTaken ==
    ASSUME IInv, at = "contents", at' = "walk", wire' = << >>, WriteBroken \/ WriteDone,
           UNCHANGED <<notTarballer, wclosed, rclosed, owed, written>>
    PROVE  IInv'
  <1> USE DEF notTarballer, second, outcome
  <1>1. TypeInv' /\ PlaceInv'
    BY DEF IInv, TypeInv, PlaceInv
  <1>2. Reading => wire = << >>
    BY DEF WriteBroken, WriteDone, IInv, PlaceInv, Reading
  <1>3. WireInv' /\ RebasedInv'
    BY DEF IInv, WireInv, RebasedInv, Holds
  <1>4. StreamInv'
    BY <1>2 DEF IInv, PlaceInv, StreamInv, Reading, FirstPipe, SecondPipe, Counted,
           AtEnd, InStep, Headers, Holds, WriterOwes, RebaserOwes, CallerAwaits
  <1>5. WholeInv' /\ ResultInv'
    BY DEF IInv, WholeInv, ResultInv, Reading, Complete, CallerAwaits
  <1> QED
    BY <1>1, <1>3, <1>4, <1>5 DEF IInv

\* The end of the archive is written if nothing is owed.
LEMMA Closing == ASSUME IInv, CloseArchive, UNCHANGED notTarballer PROVE IInv'
  <1> USE DEF notTarballer, second, outcome, pipe, walk, entry
  <1>0. /\ at = "close" /\ at' = "closing" /\ UNCHANGED <<wclosed, rclosed, owed, written>>
        /\ IF owed \/ rclosed THEN UNCHANGED wire ELSE wire' = <<[what |-> "end"]>>
    BY DEF CloseArchive, Writes
  <1>1. TypeInv' /\ PlaceInv'
    BY <1>0 DEF IInv, TypeInv, PlaceInv
  <1>2. wire = << >>
    BY <1>0 DEF IInv, WireInv, Holds
  <1>3. \/ ~owed /\ ~rclosed /\ Holds(wire', "end") /\ ~Holds(wire', "header")
              /\ ~Holds(wire', "body") /\ wire' # << >>
        \/ (owed \/ rclosed) /\ wire' = << >>
    BY <1>0, <1>2 DEF Holds
  <1>4. WireInv' /\ RebasedInv'
    BY <1>0, <1>3 DEF IInv, WireInv, RebasedInv, Holds
  <1>5. StreamInv'
    BY <1>0, <1>2, <1>3 DEF IInv, PlaceInv, StreamInv, Reading, FirstPipe, SecondPipe, Counted,
           AtEnd, InStep, Headers, Holds, WriterOwes, RebaserOwes, CallerAwaits
  <1>6. WholeInv' /\ ResultInv'
    BY <1>0 DEF IInv, WholeInv, ResultInv, Reading, Complete, CallerAwaits
  <1> QED
    BY <1>1, <1>4, <1>5, <1>6 DEF IInv

\* The pipe is closed once the end was read, or nobody will read it.
LEMMA PipeClosed == ASSUME IInv, ClosePipe, UNCHANGED notTarballer PROVE IInv'
  <1> USE DEF notTarballer, second, outcome, walk, entry
  <1>0. /\ at = "closing" /\ at' = "ended" /\ wire' = << >> /\ wclosed' = TRUE
        /\ UNCHANGED <<rclosed, owed, written>> /\ (wire = << >> \/ rclosed)
    BY DEF ClosePipe, WriteDone, WriteBroken
  <1>1. TypeInv' /\ PlaceInv'
    BY <1>0 DEF IInv, TypeInv, PlaceInv
  <1>2. WireInv' /\ RebasedInv'
    BY <1>0 DEF IInv, WireInv, RebasedInv, Holds
  <1>3. StreamInv'
    BY <1>0 DEF IInv, PlaceInv, StreamInv, Reading, FirstPipe, SecondPipe, Counted,
           AtEnd, InStep, Headers, Holds, WriterOwes, RebaserOwes, CallerAwaits
  <1>4. WholeInv' /\ ResultInv'
    BY <1>0 DEF IInv, WholeInv, ResultInv, Reading, Complete, CallerAwaits
  <1> QED
    BY <1>1, <1>2, <1>3, <1>4 DEF IInv

\* A header is a record, with or without a link.
LEMMA PackedHeader ==
    ASSUME NEW p, NEW name, NEW files, Packed(src, p, name, files).err = "ok"
    PROVE  IsHeader(Packed(src, p, name, files).hdr)
  <1>1. Packed(src, p, name, files).hdr = HeaderFor(src, p, name, files)
    BY DEF Packed
  <1>2. IsHeader(HeaderFor(src, p, name, files))
    BY DEF IsHeader, HeaderFor
  <1> QED
    BY <1>1, <1>2

\* Every step of the Tarballer.
LEMMA TarballerKeeps == ASSUME IInv, TarballerDo PROVE IInv'
  <1>0. UNCHANGED notTarballer
    BY DEF TarballerDo, notTarballer, goal, asked, second, outcome
  <1> USE DEF walk, entry, pipe
  <1>1. CASE Start
    <2>1. at = "start" /\ at' \in {"walk", "close"} /\ UNCHANGED besideAt
      BY <1>0, <1>1 DEF Start, besideAt, notTarballer, second, outcome
    <2> QED
      BY <2>1, Quiet
  <1>2. CASE NextInclude
    <2>1. UNCHANGED control
      BY <1>0, <1>2 DEF NextInclude, control, notTarballer, second, outcome
    <2> QED
      BY <2>1, Idle
  <1>3. CASE Visit
    <2>1. at = "walk" /\ at' \in {"walk", "add"} /\ UNCHANGED besideAt
      BY <1>0, <1>3 DEF Visit, besideAt, notTarballer, second, outcome
    <2> QED
      BY <2>1, Quiet
  <1>4. CASE ReadNames
    <2>1. UNCHANGED control
      BY <1>0, <1>4 DEF ReadNames, control, notTarballer, second, outcome
    <2> QED
      BY <2>1, Idle
  <1>5. CASE Walked
    <2>1. at = "walk" /\ at' = "close" /\ UNCHANGED besideAt
      BY <1>0, <1>5 DEF Walked, besideAt, notTarballer, second, outcome
    <2> QED
      BY <2>1, Quiet
  <1>6. CASE AddHeader
    <2> DEFINE packed == Packed(src, Source(adding.path), adding.name, SeenFiles)
    <2>1. \/ at = "add" /\ at' = "walk" /\ UNCHANGED besideAt
          \/ /\ packed.err = "ok" /\ ~owed /\ at = "add" /\ at' = "header"
             /\ UNCHANGED <<wclosed, rclosed, owed>>
             /\ wire' = <<[what |-> "header", hdr |-> packed.hdr]>>
             /\ written' = Append(written, packed.hdr)
      BY <1>0, <1>6 DEF AddHeader, StopsWalk, Writes, besideAt, notTarballer, second, outcome
    <2>2. packed.err = "ok" => IsHeader(packed.hdr)
      BY PackedHeader
    <2> HIDE DEF packed
    <2> QED
      BY <1>0, <2>1, <2>2, Quiet, HeaderWritten
  <1>7. CASE HeaderDone
    <2>1. /\ at = "header" /\ UNCHANGED <<wclosed, rclosed, owed, written>>
          /\ \/ WriteBroken /\ wire' = << >> /\ at' = "walk"
             \/ /\ WriteDone /\ UNCHANGED wire
                /\ at' = IF Last(written).type = "reg" THEN "body" ELSE "walk"
      BY <1>7 DEF HeaderDone, StopsWalk
    <2> QED
      BY <1>0, <2>1, HeaderTaken
  <1>8. CASE AddContents
    <2>1. /\ at = "body" /\ UNCHANGED <<wclosed, rclosed, written>>
          /\ \/ at' = "walk" /\ UNCHANGED wire /\ (owed' = TRUE \/ (rclosed /\ UNCHANGED owed))
             \/ at' = "contents" /\ UNCHANGED owed /\ wire' = <<[what |-> "body"]>>
      BY <1>8 DEF AddContents, StopsWalk, Writes
    <2> QED
      BY <1>0, <2>1, ContentsMissing, ContentsWritten
  <1>9. CASE ContentsDone
    <2>1. /\ at = "contents" /\ at' = "walk" /\ wire' = << >> /\ (WriteBroken \/ WriteDone)
          /\ UNCHANGED <<wclosed, rclosed, owed, written>>
      BY <1>9 DEF ContentsDone, StopsWalk, WriteDone
    <2> QED
      BY <1>0, <2>1, ContentsTaken
  <1>10. CASE CloseArchive
    BY <1>0, <1>10, Closing
  <1>11. CASE ClosePipe
    BY <1>0, <1>11, PipeClosed
  <1> QED
    BY <1>1, <1>2, <1>3, <1>4, <1>5, <1>6, <1>7, <1>8, <1>9, <1>10, <1>11 DEF TarballerDo, Do
-----------------------------------------------------------------------------
(***************************************************************************)
(* The goroutine of RebaseArchiveEntries.                                  *)
(***************************************************************************)
\* Once the caller has returned, what the goroutine does concerns nobody.
LEMMA GivesUp ==
    ASSUME IInv, rebaser # "none", caller \in {"close", "done"},
           wire' \in {wire, << >>}, rebased' = << >>, rebasedEnd' \in {"err", "eof"},
           rebaser' = "ended",
           UNCHANGED <<at, wclosed, rclosed, owed, written, rebase, caller, rebasedClosed, outcome>>
    PROVE  IInv'
  <1> USE DEF outcome
  <1>1. TypeInv'
    BY DEF IInv, TypeInv
  <1>2. PlaceInv'
    BY DEF IInv, PlaceInv
  <1>3. WireInv' /\ RebasedInv'
    BY DEF IInv, WireInv, RebasedInv, Holds
  <1>4. StreamInv' /\ WholeInv' /\ ResultInv'
    BY DEF IInv, PlaceInv, StreamInv, WholeInv, ResultInv, Reading, Complete
  <1> QED
    BY <1>1, <1>2, <1>3, <1>4 DEF IInv

\* The new name leaves the type of a header alone.
LEMMA RenamedType == ASSUME NEW hdr, IsHeader(hdr) PROVE Renamed(hdr).type = hdr.type
  BY DEF Renamed, IsHeader

\* Every step of the goroutine.
LEMMA RebaserKeeps == ASSUME IInv, Rebaser PROVE IInv'
  <1>0. /\ UNCHANGED <<at, wclosed, rclosed, owed, written, rebase, caller, rebasedClosed>>
        /\ UNCHANGED <<received, untar, result>>
    BY DEF Rebaser, tarballer, goal, outcome, walk, entry
  <1>a. TypeInv'
    BY <1>0 DEF IInv, TypeInv
  <1>b. /\ rebasedClosed => caller \in {"close", "done"}
        /\ rebaser = "ended" <=> rebasedEnd # "open"
    BY DEF IInv, PlaceInv
  <1>c. ASSUME rebaser # "none"
        PROVE  /\ rebase # NoRebase /\ caller \notin {"source", "archive", "dest"}
    BY <1>c DEF IInv, PlaceInv
  <1>d. WholeInv' /\ ResultInv'
    BY <1>0 DEF IInv, WholeInv, ResultInv, Reading, Complete, CallerAwaits
  <1>e. ASSUME rebasedClosed, rebaser # "none", rebased' = << >>, wire' \in {wire, << >>},
               rebasedEnd' \in {"err", "eof"}, rebaser' = "ended"
        PROVE  IInv'
    BY <1>0, <1>b, <1>e, GivesUp DEF outcome
  <1>1. CASE RebaseHeader
    <2> DEFINE hdr == Head(wire).hdr
               to == IF hdr.type = "reg" THEN "header" ELSE "contents"
    <2>1. rebaser = "next" /\ Holds(wire, "header") /\ wire' = << >>
      BY <1>1 DEF RebaseHeader, Gives, Holds
    <2>2. IsHeader(hdr) /\ rebased = << >> /\ Renamed(hdr).type = hdr.type
      BY <2>1, RenamedType DEF IInv, WireInv, RebasedInv, Holds
    <2>3. CASE rebasedClosed
      <3>1. rebased' = << >> /\ rebasedEnd' = "err" /\ rebaser' = "ended"
        BY <1>1, <2>3 DEF RebaseHeader, Sends, ClosesWith
      <3> QED
        BY <2>1, <2>3, <3>1, <1>e
    <2>4. CASE ~rebasedClosed
      <3>1. /\ rebased' = <<[what |-> "header", hdr |-> Renamed(hdr)]>>
            /\ rebaser' = to /\ UNCHANGED rebasedEnd
        BY <1>1, <2>4 DEF RebaseHeader, Sends, Passes
      <3>2. /\ Holds(rebased', "header") /\ Head(rebased').hdr = Renamed(hdr)
            /\ ~Holds(rebased', "body") /\ ~Holds(rebased', "end") /\ rebased' # << >>
        BY <3>1 DEF Holds
      <3> HIDE DEF hdr
      <3>3. rebaser' \in {"header", "contents"} /\ (RebaserOwes' <=> hdr.type = "reg")
        BY <3>1 DEF RebaserOwes
      <3>4. PlaceInv'
        BY <1>0, <1>c, <2>1, <3>1, <3>3 DEF IInv, PlaceInv
      <3>5. WireInv' /\ RebasedInv'
        BY <1>0, <2>1, <3>2, <3>3 DEF IInv, WireInv, RebasedInv, Holds
      <3>6. ASSUME Reading', rebasedEnd' # "err"
            PROVE  FirstPipe' /\ SecondPipe' /\ Counted' /\ AtEnd'
        <4>1. FirstPipe /\ SecondPipe /\ Counted /\ AtEnd /\ rebasedEnd = "open"
          BY <1>0, <1>b, <2>1, <3>1, <3>6 DEF IInv, StreamInv, Reading
        <4>2. WriterOwes' = WriterOwes /\ CallerAwaits' = CallerAwaits
          BY <1>0 DEF WriterOwes, CallerAwaits
        <4>3. (WriterOwes <=> hdr.type = "reg") /\ ~CallerAwaits
          BY <4>1, <1>c, <2>1, <2>2 DEF FirstPipe, SecondPipe, InStep, RebaserOwes, hdr
        <4>4. FirstPipe'
          BY <1>0, <1>c, <2>1, <3>3, <4>2, <4>3 DEF FirstPipe, InStep, Holds
        <4>5. SecondPipe'
          BY <2>2, <3>2, <3>3, <4>2, <4>3 DEF SecondPipe, InStep
        <4>6. Counted'
          BY <1>0, <2>1, <2>2, <3>2, <4>1 DEF Counted, Headers, Holds
        <4>7. AtEnd'
          BY <3>1, <3>3, <4>1 DEF AtEnd
        <4> QED
          BY <4>4, <4>5, <4>6, <4>7
      <3> QED
        BY <1>a, <1>d, <3>4, <3>5, <3>6 DEF IInv, StreamInv
    <2> QED
      BY <2>3, <2>4
  <1>2. CASE RebaseEnd
    <2>1. /\ rebaser = "next" /\ wire' = << >>
          /\ Holds(wire, "end") \/ (wire = << >> /\ wclosed)
      BY <1>2 DEF RebaseEnd, Gives, Holds
    <2>2. rebased = << >> /\ at \in {"closing", "ended"}
      BY <2>1 DEF IInv, PlaceInv, WireInv, RebasedInv, Holds
    <2>3. CASE rebasedClosed
      <3>1. rebased' = << >> /\ rebasedEnd' = "eof" /\ rebaser' = "ended"
        BY <1>2, <2>3 DEF RebaseEnd, ClosesWith
      <3> QED
        BY <2>1, <2>3, <3>1, <1>e
    <2>4. CASE ~rebasedClosed
      <3>1. rebased' = <<[what |-> "end"]>> /\ rebaser' = "end" /\ UNCHANGED rebasedEnd
        BY <1>2, <2>4 DEF RebaseEnd, Passes
      <3>2. /\ Holds(rebased', "end") /\ ~Holds(rebased', "header")
            /\ ~Holds(rebased', "body") /\ rebased' # << >>
        BY <3>1 DEF Holds
      <3>4. PlaceInv'
        BY <1>0, <1>c, <2>1, <3>1 DEF IInv, PlaceInv
      <3>5. WireInv' /\ RebasedInv'
        BY <1>0, <2>1, <3>1, <3>2 DEF IInv, WireInv, RebasedInv, Holds
      <3>6. ASSUME Reading', rebasedEnd' # "err"
            PROVE  FirstPipe' /\ SecondPipe' /\ Counted' /\ AtEnd'
        <4>1. FirstPipe /\ SecondPipe /\ Counted /\ rebasedEnd = "open"
          BY <1>0, <1>b, <2>1, <3>1, <3>6 DEF IInv, StreamInv, Reading
        <4>2. WriterOwes' = WriterOwes /\ CallerAwaits' = CallerAwaits /\ ~RebaserOwes'
          BY <1>0, <3>1 DEF WriterOwes, CallerAwaits, RebaserOwes
        <4>3. ~WriterOwes /\ ~CallerAwaits
          BY <4>1, <1>c, <2>1, <2>2 DEF FirstPipe, SecondPipe, InStep, RebaserOwes
        <4>4. FirstPipe'
          BY <1>0, <1>c, <2>1, <4>2, <4>3 DEF FirstPipe, InStep, Holds
        <4>5. SecondPipe'
          BY <3>2, <4>2, <4>3 DEF SecondPipe, InStep
        <4>6. Counted'
          BY <1>0, <2>1, <2>2, <3>2, <4>1 DEF Counted, Headers, Holds
        <4>7. AtEnd'
          BY <1>0, <2>1, <2>2, <4>3 DEF AtEnd, WriterOwes
        <4> QED
          BY <4>4, <4>5, <4>6, <4>7
      <3> QED
        BY <1>a, <1>d, <3>4, <3>5, <3>6 DEF IInv, StreamInv
    <2> QED
      BY <2>3, <2>4
  <1>3. CASE HeaderSent \/ ContentsSent
    <2>1. /\ rebased = << >> /\ UNCHANGED <<wire, rebased, rebasedEnd>>
          /\ \/ rebaser = "header" /\ rebaser' = "body"
             \/ rebaser = "contents" /\ rebaser' = "next"
      BY <1>3 DEF HeaderSent, ContentsSent
    <2>2. PlaceInv'
      BY <1>0, <1>c, <2>1 DEF IInv, PlaceInv
    <2>3. WireInv' /\ RebasedInv'
      BY <1>0, <2>1 DEF IInv, WireInv, RebasedInv, Holds
    <2>4. RebaserOwes' = RebaserOwes /\ CallerAwaits' = CallerAwaits /\ WriterOwes' = WriterOwes
      BY <1>0, <2>1 DEF RebaserOwes, CallerAwaits, WriterOwes
    <2>5. StreamInv'
      BY <1>0, <2>1, <2>4 DEF IInv, StreamInv, Reading, FirstPipe, SecondPipe, Counted, AtEnd,
             InStep, Headers, Holds
    <2> QED
      BY <1>a, <1>d, <2>2, <2>3, <2>5 DEF IInv
  <1>4. CASE RebaseContents
    <2>1. /\ rebaser = "body"
          /\ \/ Holds(wire, "body") /\ wire' = << >> /\ Sends([what |-> "body"], "contents")
             \/ wire = << >> /\ wclosed /\ ClosesWith("err") /\ wire' = wire
      BY <1>4 DEF RebaseContents, Gives, Holds
    <2>2. rebased = << >> /\ RebaserOwes
      BY <2>1 DEF IInv, RebasedInv, Holds, RebaserOwes
    <2>3. CASE ClosesWith("err")
      <3>1. rebased' = << >> /\ rebasedEnd' = "err" /\ rebaser' = "ended" /\ wire' \in {wire, << >>}
        BY <2>1, <2>3 DEF ClosesWith
      <3>2. PlaceInv'
        BY <1>0, <1>c, <2>1, <3>1 DEF IInv, PlaceInv
      <3>3. WireInv' /\ RebasedInv'
        BY <1>0, <3>1 DEF IInv, WireInv, RebasedInv, Holds
      <3>4. StreamInv'
        BY <3>1 DEF StreamInv
      <3> QED
        BY <1>a, <1>d, <3>2, <3>3, <3>4 DEF IInv
    <2>4. CASE ~ClosesWith("err")
      <3>1. /\ rebased' = <<[what |-> "body"]>> /\ rebaser' = "contents" /\ UNCHANGED rebasedEnd
            /\ Holds(wire, "body") /\ wire' = << >>
        BY <2>1, <2>4 DEF Sends, Passes
      <3>2. /\ Holds(rebased', "body") /\ ~Holds(rebased', "header")
            /\ ~Holds(rebased', "end") /\ rebased' # << >>
        BY <3>1 DEF Holds
      <3>3. PlaceInv'
        BY <1>0, <1>c, <2>1, <3>1 DEF IInv, PlaceInv
      <3>4. WireInv' /\ RebasedInv'
        BY <1>0, <3>1, <3>2 DEF IInv, WireInv, RebasedInv, Holds
      <3>5. ASSUME Reading', rebasedEnd' # "err"
            PROVE  FirstPipe' /\ SecondPipe' /\ Counted' /\ AtEnd'
        <4>1. FirstPipe /\ SecondPipe /\ Counted /\ rebasedEnd = "open"
          BY <1>0, <1>b, <2>1, <3>1, <3>5 DEF IInv, StreamInv, Reading
        <4>2. WriterOwes' = WriterOwes /\ CallerAwaits' = CallerAwaits /\ ~RebaserOwes'
          BY <1>0, <3>1 DEF WriterOwes, CallerAwaits, RebaserOwes
        <4>3. ~WriterOwes /\ CallerAwaits
          BY <4>1, <1>c, <2>1, <2>2, <3>1 DEF FirstPipe, SecondPipe, InStep
        <4>4. FirstPipe'
          BY <1>0, <1>c, <2>1, <3>1, <4>2, <4>3 DEF FirstPipe, InStep, Holds
        <4>5. SecondPipe'
          BY <3>2, <4>2, <4>3 DEF SecondPipe, InStep
        <4>6. Counted'
          BY <1>0, <2>2, <3>1, <3>2, <4>1 DEF Counted, Headers, Holds
        <4>7. AtEnd'
          BY <3>1, <4>1 DEF AtEnd
        <4> QED
          BY <4>4, <4>5, <4>6, <4>7
      <3> QED
        BY <1>a, <1>d, <3>3, <3>4, <3>5 DEF IInv, StreamInv
    <2> QED
      BY <2>3, <2>4
  <1>5. CASE SendBroken
    <2>1. /\ rebasedClosed /\ rebaser # "none" /\ rebased' = << >> /\ wire' = wire
          /\ rebasedEnd' = "err" /\ rebaser' = "ended"
      BY <1>5 DEF SendBroken, ClosesWith
    <2> QED
      BY <2>1, <1>e
  <1>6. CASE EndSent
    <2>1. /\ rebaser = "end" /\ rebased' = << >> /\ wire' = wire /\ rebasedEnd' = "eof"
          /\ rebaser' = "ended" /\ (rebased = << >> \/ rebasedClosed)
      BY <1>6 DEF EndSent, ClosesWith
    <2>2. CASE rebasedClosed
      BY <2>1, <2>2, <1>e
    <2>3. CASE rebased = << >>
      <3>1. PlaceInv'
        BY <1>0, <1>c, <2>1 DEF IInv, PlaceInv
      <3>2. WireInv' /\ RebasedInv'
        BY <1>0, <2>1 DEF IInv, WireInv, RebasedInv, Holds
      <3>3. /\ ~RebaserOwes' /\ ~RebaserOwes
            /\ CallerAwaits' = CallerAwaits /\ WriterOwes' = WriterOwes
        BY <1>0, <2>1 DEF RebaserOwes, CallerAwaits, WriterOwes
      <3>4. StreamInv'
        BY <1>0, <1>b, <2>1, <2>3, <3>3 DEF IInv, StreamInv, Reading, FirstPipe, SecondPipe,
               Counted, AtEnd, InStep, Headers, Holds
      <3> QED
        BY <1>a, <1>d, <3>1, <3>2, <3>4 DEF IInv
    <2> QED
      BY <2>1, <2>2, <2>3
  <1> QED
    BY <1>1, <1>2, <1>3, <1>4, <1>5, <1>6 DEF Rebaser
-----------------------------------------------------------------------------
(***************************************************************************)
(* The caller.                                                             *)
(***************************************************************************)
\* It returns without having read the archive to its end.
LEMMA Refusal ==
    ASSUME IInv, caller \notin {"source", "archive"},
           caller \notin {"returned", "close", "done"},
           caller' \in {"returned", "close"}, untar' = "err",
           UNCHANGED <<at, pipe, owed, written, rebase, rebaser, second, received, result>>
    PROVE  IInv'
  <1> USE DEF pipe, second
  <1>1. TypeInv' /\ PlaceInv'
    BY DEF IInv, TypeInv, PlaceInv
  <1>2. WireInv' /\ RebasedInv'
    BY DEF IInv, WireInv, RebasedInv, Holds
  <1>3. StreamInv' /\ WholeInv' /\ ResultInv'
    BY DEF IInv, PlaceInv, StreamInv, WholeInv, ResultInv, Reading
  <1> QED
    BY <1>1, <1>2, <1>3 DEF IInv

\* Before the Tarballer runs the call can fail.
LEMMA Failing ==
    ASSUME IInv, caller \in {"source", "archive"}, caller' = "done", at' = "ended",
           result' = "err",
           UNCHANGED <<pipe, owed, written, rebase, rebaser, second, received, untar>>
    PROVE  IInv'
  <1> USE DEF pipe, second
  <1>1. TypeInv' /\ PlaceInv'
    BY DEF IInv, TypeInv, PlaceInv
  <1>2. WireInv' /\ RebasedInv'
    BY DEF IInv, PlaceInv, WireInv, RebasedInv, Holds
  <1>3. StreamInv' /\ WholeInv' /\ ResultInv'
    BY DEF IInv, PlaceInv, StreamInv, WholeInv, ResultInv, Reading
  <1> QED
    BY <1>1, <1>2, <1>3 DEF IInv

\* The source is looked at, and its archive begun.
LEMMA SourceKeeps == ASSUME IInv, CopySource \/ TarResource PROVE IInv'
  <1> USE DEF tarballer, walk, entry, goal, outcome
  <1>1. CASE Fails
    <2>1. /\ caller \in {"source", "archive"} /\ caller' = "done" /\ at' = "ended"
          /\ result' = "err"
          /\ UNCHANGED <<pipe, owed, written, rebase, rebaser, second, received, untar>>
      BY <1>1 DEF CopySource, TarResource, Fails, pipe
    <2> QED
      BY <2>1, Failing
  <1>2. CASE ~Fails
    <2> USE DEF pipe, second
    <2>1. /\ \/ caller = "source" /\ caller' = "archive" /\ UNCHANGED at
             \/ caller = "archive" /\ caller' = "dest" /\ at' = "start"
          /\ UNCHANGED <<wire, wclosed, rclosed, owed, written, rebase, rebaser>>
          /\ UNCHANGED <<rebased, rebasedEnd, rebasedClosed, received, untar, result>>
      BY <1>2 DEF CopySource, TarResource
    <2>2. TypeInv' /\ PlaceInv'
      BY <2>1 DEF IInv, TypeInv, PlaceInv
    <2>3. at = "idle" /\ received = << >>
      BY <2>1 DEF IInv, PlaceInv
    <2>4. WireInv' /\ RebasedInv'
      BY <2>1, <2>3 DEF IInv, WireInv, RebasedInv, Holds
    <2>5. /\ WriterOwes' = WriterOwes /\ CallerAwaits' = CallerAwaits
          /\ RebaserOwes' = RebaserOwes
      BY <2>1, <2>3 DEF WriterOwes, CallerAwaits, RebaserOwes
    <2>6. StreamInv'
      BY <2>1, <2>3, <2>5 DEF IInv, PlaceInv, StreamInv, Reading, FirstPipe, SecondPipe, Counted,
             AtEnd, InStep, Headers, Holds
    <2>7. WholeInv' /\ ResultInv'
      BY <2>1, <2>5 DEF IInv, PlaceInv, WholeInv, ResultInv, Reading, Complete
    <2> QED
      BY <2>2, <2>4, <2>6, <2>7 DEF IInv
  <1> QED
    BY <1>1, <1>2

\* The destination is followed and looked at; it decides which pipe is read.
LEMMA DestinationKeeps == ASSUME IInv, FollowLink \/ CopyTo PROVE IInv'
  <1> USE DEF tarballer, walk, entry
  <1>1. CASE Refused
    <2>1. /\ caller = "dest" /\ caller' = "close" /\ untar' = "err"
          /\ UNCHANGED <<at, pipe, owed, written, rebaser, second, received, result>>
          /\ rebase' = rebase
      BY <1>1, Zenon DEF FollowLink, CopyTo, Refused, pipe, second
    <2> QED
      BY <2>1, Refusal
  <1>2. CASE FollowLink /\ ~Refused
    <2>1. UNCHANGED control
      BY <1>2 DEF FollowLink, control, pipe, outcome
    <2> QED
      BY <2>1, Idle
  <1>3. CASE CopyTo /\ ~Refused
    <2> USE DEF pipe, second
    <2>1. /\ caller = "dest" /\ caller' = "next"
          /\ rebaser' = IF rebase' = NoRebase THEN "none" ELSE "next"
          /\ UNCHANGED <<at, wire, wclosed, rclosed, owed, written>>
          /\ UNCHANGED <<rebased, rebasedEnd, rebasedClosed, received, untar, result>>
      BY <1>3 DEF CopyTo
    <2>2. /\ received = << >> /\ rebase = NoRebase /\ rebaser = "none" /\ rebased = << >>
          /\ rebasedEnd = "open"
      BY <2>1 DEF IInv, PlaceInv, RebasedInv, Holds
    <2>3. TypeInv' /\ PlaceInv'
      BY <2>1, <2>2 DEF IInv, TypeInv, PlaceInv
    <2>4. WireInv' /\ RebasedInv'
      BY <2>1, <2>2 DEF IInv, WireInv, RebasedInv, Holds
    <2>5. /\ WriterOwes' = WriterOwes /\ ~CallerAwaits /\ ~CallerAwaits' /\ ~RebaserOwes'
      BY <2>1 DEF WriterOwes, CallerAwaits, RebaserOwes
    <2>6. StreamInv'
      BY <2>1, <2>2, <2>5 DEF IInv, StreamInv, Reading, FirstPipe, SecondPipe, Counted,
             AtEnd, InStep, Headers, Holds
    <2>7. WholeInv' /\ ResultInv'
      BY <2>1, <2>5 DEF IInv, PlaceInv, WholeInv, ResultInv, Reading, Complete
    <2> QED
      BY <2>3, <2>4, <2>6, <2>7 DEF IInv
  <1> QED
    BY <1>1, <1>2, <1>3

\* An entry is refused or put in its place; its contents are awaited as before.
LEMMA ExtractsKeeps == ASSUME IInv, Extracts PROVE IInv'
  <1> DEFINE hdr == Last(received).hdr
  <1>0. caller = "place" /\ UNCHANGED <<at, pipe, rebase, rebaser, second, received, result>>
        /\ UNCHANGED <<owed, written>>
    BY DEF Extracts, tarballer, walk, entry, goal
  <1>1. CASE Refuses(hdr)
    <2>1. caller' = "returned" /\ untar' = "err"
      BY <1>1 DEF Extracts, Returns
    <2> QED
      BY <1>0, <2>1, Refusal
  <1>2. CASE ~Refuses(hdr)
    <2> USE DEF pipe, second
    <2>1. caller' = (IF hdr.type = "reg" THEN "body" ELSE "next") /\ UNCHANGED untar
      BY <1>2 DEF Extracts
    <2> HIDE DEF hdr
    <2>2. caller' \in {"body", "next"} /\ (caller' = "body" <=> hdr.type = "reg")
      BY <2>1
    <2>3. /\ WriterOwes' = WriterOwes /\ CallerAwaits' = CallerAwaits
          /\ RebaserOwes' = RebaserOwes
      BY <1>0, <2>2 DEF WriterOwes, CallerAwaits, RebaserOwes, hdr
    <2>4. TypeInv' /\ PlaceInv'
      BY <1>0, <2>1, <2>2 DEF IInv, TypeInv, PlaceInv
    <2>5. WireInv' /\ RebasedInv'
      BY <1>0 DEF IInv, WireInv, RebasedInv, Holds
    <2>6. StreamInv'
      BY <1>0, <2>1, <2>3 DEF IInv, StreamInv, Reading, FirstPipe, SecondPipe, Counted,
             AtEnd, InStep, Headers, Holds
    <2>7. WholeInv' /\ ResultInv'
      BY <1>0, <2>1, <2>3 DEF IInv, PlaceInv, WholeInv, ResultInv, Reading, Complete
    <2> QED
      BY <2>4, <2>5, <2>6, <2>7 DEF IInv
  <1> QED
    BY <1>1, <1>2

\* What is taken lies in the pipe the caller reads, and leaves it.
LEMMA Taken ==
    ASSUME IInv, NEW what, Takes(what)
    PROVE  /\ Holds(Inlet, what)
           /\ \/ rebase = NoRebase /\ Inlet = wire /\ wire' = << >> /\ UNCHANGED rebased
                 /\ rebased = << >>
              \/ rebase # NoRebase /\ Inlet = rebased /\ rebased' = << >> /\ UNCHANGED wire
  BY DEF Takes, Holds, Inlet, IInv, PlaceInv, RebasedInv

\* While the caller reads and the second pipe is whole, this is what holds of the pipes.
LEMMA AtInlet ==
    ASSUME IInv, caller \in {"next", "body"}, Inlet # << >> \/ rebasedEnd # "err"
    PROVE  /\ Reading /\ rebasedEnd # "err" /\ FirstPipe /\ SecondPipe /\ Counted /\ AtEnd
           /\ ~rclosed /\ ~rebasedClosed
  <1>1. Inlet # << >> => rebasedEnd # "err"
    BY DEF Inlet, IInv, PlaceInv, RebasedInv, Holds
  <1> QED
    BY <1>1 DEF IInv, PlaceInv, Reading, StreamInv
-----------------------------------------------------------------------------
\* The next header: its entry is the last one, and contents are awaited if it has any.
LEMMA ReadHeaderKeeps ==
    ASSUME IInv, ReadHeader,
           UNCHANGED <<at, wclosed, rclosed, owed, written, rebase, rebaser, rebasedEnd,
                       rebasedClosed, result>>
    PROVE  IInv'
  <1> DEFINE hdr == Head(Inlet).hdr
             item == [hdr |-> hdr, whole |-> hdr.type # "reg"]
  <1>1. /\ caller = "next" /\ Takes("header") /\ received' = Append(received, item)
        /\ caller' = "place" /\ UNCHANGED untar
    BY DEF ReadHeader
  <1>2. Holds(Inlet, "header") /\ Inlet # << >>
    BY <1>1, Taken DEF Holds
  <1>3. /\ Reading /\ rebasedEnd # "err" /\ FirstPipe /\ SecondPipe /\ Counted /\ AtEnd
        /\ ~rclosed /\ ~rebasedClosed
    BY <1>1, <1>2, AtInlet
  <1>4. \/ rebase = NoRebase /\ Inlet = wire /\ wire' = << >> /\ UNCHANGED rebased
           /\ rebased = << >>
        \/ rebase # NoRebase /\ Inlet = rebased /\ rebased' = << >> /\ UNCHANGED wire
    BY <1>1, Taken
  <1> HIDE DEF hdr
  <1>5. PICK S, T : written \in Seq(S) /\ received \in Seq([hdr : T, whole : BOOLEAN])
    BY DEF IInv, TypeInv
  <1>6. received \in Seq([hdr : T \union {hdr}, whole : BOOLEAN])
        /\ item \in [hdr : T \union {hdr}, whole : BOOLEAN]
    <2> DEFINE R == [hdr : T, whole : BOOLEAN]
               W == [hdr : T \union {hdr}, whole : BOOLEAN]
    <2>1. R \subseteq W /\ item \in W
      OBVIOUS
    <2>2. received \in Seq(R)
      BY <1>5
    <2> HIDE DEF R, W, item
    <2>3. received \in Seq(W)
      BY <2>1, <2>2, WiderSeq
    <2> QED
      BY <2>1, <2>3 DEF W
  <1>7. /\ received' \in Seq([hdr : T \union {hdr}, whole : BOOLEAN])
        /\ Len(received) \in Nat /\ Len(received') = Len(received) + 1
        /\ \A i \in 1..Len(received) : received'[i] = received[i]
        /\ received'[Len(received) + 1] = item /\ received' # << >> /\ Last(received') = item
    BY <1>1, <1>6, AppendProperties DEF Last
  <1>8. TypeInv'
    BY <1>5, <1>7 DEF TypeInv
  <1>9. PlaceInv'
    BY <1>1 DEF IInv, PlaceInv
  <1>10. WireInv' /\ RebasedInv'
    BY <1>4 DEF IInv, WireInv, RebasedInv, Holds
  <1>11. /\ WriterOwes' = WriterOwes /\ RebaserOwes' = RebaserOwes
         /\ ~CallerAwaits /\ (CallerAwaits' <=> hdr.type = "reg")
    BY <1>1, <1>7 DEF WriterOwes, RebaserOwes, CallerAwaits
  <1>12. FirstPipe' /\ SecondPipe'
    BY <1>2, <1>3, <1>4, <1>11 DEF FirstPipe, SecondPipe, InStep, Holds, hdr
  <1>13. Counted'
    <2>1. /\ Headers(wire') + Headers(rebased') = Headers(wire) + Headers(rebased) - 1
          /\ Headers(wire) \in {0, 1} /\ Headers(rebased) \in {0, 1}
          /\ Headers(wire') \in {0, 1} /\ Headers(rebased') \in {0, 1}
      BY <1>2, <1>4 DEF Headers, Holds
    <2>2. Len(written') = Len(written) /\ Len(written) \in Nat
      BY Lengths DEF IInv
    <2> QED
      BY <2>1, <2>2, <1>3, <1>7 DEF Counted
  <1>14. AtEnd'
    BY <1>3, <1>4 DEF AtEnd
  <1>15. WholeInv'
    <2>1. \A i \in 1..Len(received) : received[i].whole
      BY <1>3, <1>11 DEF IInv, WholeInv
    <2>2. ASSUME NEW i \in 1..Len(received')
          PROVE  received'[i].whole \/ (i = Len(received') /\ CallerAwaits')
      <3>1. CASE i \in 1..Len(received)
        BY <3>1, <2>1, <1>7
      <3>2. CASE i = Len(received) + 1
        BY <3>2, <1>7, <1>11
      <3> QED
        BY <3>1, <3>2, <1>7
    <2> QED
      BY <2>2, <1>7 DEF WholeInv
  <1>16. ResultInv'
    BY <1>1, <1>3 DEF ResultInv, Reading, IInv, PlaceInv
  <1> QED
    BY <1>8, <1>9, <1>10, <1>12, <1>13, <1>14, <1>15, <1>16 DEF IInv, StreamInv

\* The contents of the last entry: it is whole.
LEMMA ReadContentsKeeps ==
    ASSUME IInv, ReadContents,
           UNCHANGED <<at, wclosed, rclosed, owed, written, rebase, rebaser, rebasedEnd,
                       rebasedClosed, result>>
    PROVE  IInv'
  <1> DEFINE n == Len(received)
  <1>1. /\ caller = "body" /\ Takes("body") /\ received' = [received EXCEPT ![n].whole = TRUE]
        /\ caller' = "next" /\ UNCHANGED untar
    BY DEF ReadContents
  <1>2. Holds(Inlet, "body") /\ Inlet # << >>
    BY <1>1, Taken DEF Holds
  <1>3. /\ Reading /\ rebasedEnd # "err" /\ FirstPipe /\ SecondPipe /\ Counted /\ AtEnd
        /\ ~rclosed /\ ~rebasedClosed
    BY <1>1, <1>2, AtInlet
  <1>4. \/ rebase = NoRebase /\ Inlet = wire /\ wire' = << >> /\ UNCHANGED rebased
           /\ rebased = << >>
        \/ rebase # NoRebase /\ Inlet = rebased /\ rebased' = << >> /\ UNCHANGED wire
    BY <1>1, Taken
  <1>5. PICK S, T : written \in Seq(S) /\ received \in Seq([hdr : T, whole : BOOLEAN])
    BY DEF IInv, TypeInv
  <1>6. n \in Nat /\ n > 0
    BY <1>1, <1>3, Lengths DEF IInv, WholeInv
  <1>7. /\ received' \in Seq([hdr : T, whole : BOOLEAN]) /\ Len(received') = n
        /\ \A i \in 1..n : i # n => received'[i] = received[i]
        /\ received'[n].whole = TRUE
    <2> HIDE DEF n
    <2> DEFINE R == [hdr : T, whole : BOOLEAN]
               item == [received[n] EXCEPT !.whole = TRUE]
    <2>1. n \in 1..n
      BY <1>6
    <2>2. received \in [1..n -> R]
      BY <1>5, LenProperties DEF n
    <2>3. received[n] \in R
      BY <2>1, <2>2
    <2>4. item \in R /\ item.whole = TRUE
      BY <2>3
    <2>5. received' = [received EXCEPT ![n] = item]
      BY <1>1
    <2> HIDE DEF R, item
    <2>6. received' \in [1..n -> R] /\ received'[n] = item
      BY <2>1, <2>2, <2>4, <2>5
    <2>7. received' \in Seq(R)
      BY <2>6, <1>6, SeqDef
    <2>8. Len(received') = n
      BY <2>6, <2>7, <1>6, LenProperties
    <2>9. \A i \in 1..n : i # n => received'[i] = received[i]
      BY <2>2, <2>5
    <2> QED
      BY <2>4, <2>6, <2>7, <2>8, <2>9 DEF R
  <1>8. TypeInv'
    BY <1>5, <1>7 DEF TypeInv
  <1>9. PlaceInv'
    BY <1>1 DEF IInv, PlaceInv
  <1>10. WireInv' /\ RebasedInv'
    BY <1>4 DEF IInv, WireInv, RebasedInv, Holds
  <1>11. /\ WriterOwes' = WriterOwes /\ RebaserOwes' = RebaserOwes
         /\ CallerAwaits /\ ~CallerAwaits'
    BY <1>1 DEF WriterOwes, RebaserOwes, CallerAwaits
  <1>12. FirstPipe' /\ SecondPipe'
    BY <1>2, <1>3, <1>4, <1>11 DEF FirstPipe, SecondPipe, InStep, Holds
  <1>13. Counted'
    <2>1. Headers(wire') = Headers(wire) /\ Headers(rebased') = Headers(rebased)
      BY <1>2, <1>4 DEF Headers, Holds
    <2> QED
      BY <2>1, <1>3, <1>7 DEF Counted
  <1>14. AtEnd'
    BY <1>3, <1>4 DEF AtEnd
  <1>15. WholeInv'
    BY <1>1, <1>3, <1>7 DEF IInv, WholeInv
  <1>16. ResultInv'
    BY <1>1, <1>3 DEF ResultInv, Reading, IInv, PlaceInv
  <1> QED
    BY <1>8, <1>9, <1>10, <1>12, <1>13, <1>14, <1>15, <1>16 DEF IInv, StreamInv

\* The caller returns as it meets the end of an archive.
LEMMA EndKeeps ==
    ASSUME IInv, ReadEnd \/ StreamEnds,
           UNCHANGED <<at, wclosed, rclosed, owed, written, rebase, rebaser, rebasedEnd,
                       rebasedClosed, result>>
    PROVE  IInv'
  <1>1. /\ caller \in {"next", "body"} /\ caller' = "returned" /\ untar' \in {"nil", "err"}
        /\ UNCHANGED received
    BY DEF ReadEnd, StreamEnds, Returns, AtStreamEnd
  <1>2. /\ wire' \in {wire, << >>} /\ rebased' \in {rebased, << >>}
    BY Taken DEF ReadEnd, StreamEnds
  <1>3. TypeInv'
    BY <1>1 DEF IInv, TypeInv
  <1>4. PlaceInv'
    BY <1>1 DEF IInv, PlaceInv
  <1>5. WireInv' /\ RebasedInv'
    BY <1>2 DEF IInv, WireInv, RebasedInv, Holds
  <1>6. StreamInv' /\ WholeInv'
    BY <1>1 DEF StreamInv, WholeInv, Reading
  <1>7. ASSUME untar' = "nil" PROVE Complete
    <2>1. caller = "next"
      BY <1>7 DEF ReadEnd, StreamEnds, Returns, AtStreamEnd
    <2>2. CASE ReadEnd
      <3>1. Takes("end")
        BY <2>2 DEF ReadEnd
      <3>2. Holds(Inlet, "end") /\ Inlet # << >>
        BY <3>1, Taken DEF Holds
      <3>3. Reading /\ FirstPipe /\ SecondPipe /\ Counted /\ AtEnd
        BY <2>1, <3>2, AtInlet
      <3>4. at \in {"closing", "ended"} /\ ~owed /\ Headers(wire) = 0 /\ Headers(rebased) = 0
        <4>1. CASE rebase = NoRebase
          <5>1. Holds(wire, "end") /\ rebased = << >>
            BY <4>1, <3>2 DEF Inlet, IInv, PlaceInv, RebasedInv, Holds
          <5> QED
            BY <5>1, <3>3 DEF IInv, WireInv, FirstPipe, InStep, WriterOwes, Headers, Holds
        <4>2. CASE rebase # NoRebase
          <5>1. Holds(rebased, "end")
            BY <4>2, <3>2 DEF Inlet
          <5>2. rebaser = "end"
            BY <5>1 DEF IInv, RebasedInv
          <5> QED
            BY <5>1, <5>2, <3>3 DEF AtEnd, Headers, Holds
        <4> QED
          BY <4>1, <4>2
      <3>5. Len(received) = Len(written)
        BY <3>3, <3>4, Lengths DEF IInv, Counted
      <3> QED
        BY <2>1, <3>3, <3>4, <3>5 DEF Complete, IInv, WholeInv, CallerAwaits
    <2>3. CASE StreamEnds
      <3>1. Inlet = << >> /\ InletEnd = "eof"
        BY <1>7, <2>3 DEF StreamEnds, Returns, AtStreamEnd
      <3>2. rebasedEnd # "err"
        BY <3>1 DEF InletEnd, IInv, PlaceInv
      <3>3. Reading /\ FirstPipe /\ SecondPipe /\ Counted /\ AtEnd
        BY <2>1, <3>2, AtInlet
      <3>4. at \in {"closing", "ended"} /\ ~owed /\ Headers(wire) = 0 /\ Headers(rebased) = 0
        <4>1. CASE rebase = NoRebase
          <5>1. wire = << >> /\ wclosed /\ rebased = << >>
            BY <4>1, <3>1 DEF Inlet, InletEnd, IInv, PlaceInv, RebasedInv, Holds
          <5> QED
            BY <4>1, <5>1, <3>3, <2>1 DEF IInv, PlaceInv, FirstPipe, InStep, WriterOwes,
                   CallerAwaits, Headers, Holds
        <4>2. CASE rebase # NoRebase
          <5>1. rebased = << >> /\ rebasedEnd = "eof"
            BY <4>2, <3>1 DEF Inlet, InletEnd
          <5> QED
            BY <5>1, <3>3 DEF AtEnd, Headers, Holds
        <4> QED
          BY <4>1, <4>2
      <3>5. Len(received) = Len(written)
        BY <3>3, <3>4, Lengths DEF IInv, Counted
      <3> QED
        BY <2>1, <3>3, <3>4, <3>5 DEF Complete, IInv, WholeInv, CallerAwaits
    <2> QED
      BY <2>2, <2>3
  <1>8. ResultInv'
    BY <1>1, <1>7 DEF IInv, PlaceInv, ResultInv, Complete
  <1> QED
    BY <1>3, <1>4, <1>5, <1>6, <1>8 DEF IInv

\* Every step of the extraction.
LEMMA UntarKeeps == ASSUME IInv, Untar PROVE IInv'
  <1>1. UNCHANGED <<at, wclosed, rclosed, owed, written, rebase, rebaser, rebasedEnd,
                    rebasedClosed, result>>
    BY DEF Untar, tarballer, walk, entry, goal
  <1> QED
    BY <1>1, ReadHeaderKeeps, ReadContentsKeeps, EndKeeps DEF Untar

\* The deferred functions close what the two writers write to.
LEMMA ClosesKeep == ASSUME IInv, CloseRebased \/ CloseContent PROVE IInv'
  <1> USE DEF tarballer, walk, entry, goal, second, outcome, pipe
  <1>1. /\ \/ /\ caller = "returned" /\ caller' = "close" /\ UNCHANGED <<rclosed, result>>
              /\ rebasedClosed' \in BOOLEAN
           \/ /\ caller = "close" /\ caller' = "done" /\ rclosed' = TRUE /\ result' = untar
              /\ UNCHANGED rebasedClosed
        /\ UNCHANGED <<at, wire, wclosed, owed, written, rebase, rebaser>>
        /\ UNCHANGED <<rebased, rebasedEnd, received, untar>>
    BY DEF CloseRebased, CloseContent, ClosesContent
  <1>a. TypeInv'
    BY <1>1 DEF IInv, TypeInv
  <1>b. PlaceInv'
    BY <1>1 DEF IInv, PlaceInv
  <1>2. TypeInv' /\ PlaceInv'
    BY <1>a, <1>b
  <1>3. WireInv' /\ RebasedInv'
    BY <1>1 DEF IInv, WireInv, RebasedInv, Holds
  <1>4. StreamInv' /\ WholeInv' /\ ResultInv'
    BY <1>1 DEF IInv, PlaceInv, StreamInv, WholeInv, ResultInv, Reading, Complete
  <1> QED
    BY <1>2, <1>3, <1>4 DEF IInv
-----------------------------------------------------------------------------
\* Nothing has been announced at the start.
LEMMA InitKeeps == Init => IInv
  <1> SUFFICES ASSUME Init PROVE IInv
    OBVIOUS
  <1>1. /\ at = "idle" /\ caller = "source" /\ rebaser = "none" /\ rebasedEnd = "open"
        /\ untar = "none" /\ result = "none" /\ rclosed = FALSE /\ rebasedClosed = FALSE
        /\ wclosed = FALSE /\ received = << >> /\ written = << >> /\ rebase = NoRebase
        /\ wire = << >> /\ rebased = << >> /\ owed = FALSE
    BY DEF Init, DoInit
  <1>2. TypeInv
    BY <1>1, EmptySeq DEF TypeInv
  <1>3. PlaceInv /\ WireInv /\ RebasedInv
    BY <1>1 DEF PlaceInv, WireInv, RebasedInv, Holds
  <1>4. StreamInv
    BY <1>1, EmptySeq DEF StreamInv, FirstPipe, SecondPipe, Counted, AtEnd, InStep, Headers, Holds,
           WriterOwes, RebaserOwes, CallerAwaits
  <1>5. WholeInv /\ ResultInv
    BY <1>1, EmptySeq DEF WholeInv, ResultInv
  <1> QED
    BY <1>2, <1>3, <1>4, <1>5 DEF IInv

\* Every step keeps the invariant.
LEMMA NextKeeps == ASSUME IInv, [Next]_vars PROVE IInv'
  <1>1. CASE Decides
    BY <1>1, SourceKeeps, DestinationKeeps, ExtractsKeeps DEF Decides
  <1>2. CASE Caller
    BY <1>2, UntarKeeps, ClosesKeep DEF Caller
  <1>3. CASE UntarFails
    <2>1. /\ caller \in {"next", "body"} /\ caller' = "returned" /\ untar' = "err"
          /\ UNCHANGED <<at, pipe, owed, written, rebase, rebaser, second, received, result>>
      BY <1>3 DEF UntarFails, Returns, tarballer, walk, entry, goal
    <2> QED
      BY <2>1, Refusal
  <1>4. CASE (\E p \in DOMAIN src : Disturb(p)) \/ Ended \/ UNCHANGED vars
    <2>1. UNCHANGED control
      BY <1>4 DEF Disturb, Ended, vars, control, tarballer, walk, entry, pipe, goal, second, outcome
    <2> QED
      BY <2>1, Idle
  <1> QED
    BY <1>1, <1>2, <1>3, <1>4, TarballerKeeps, RebaserKeeps DEF Next

\* The strengthened invariant holds in every state.
THEOREM Inductive == Spec => []IInv
  BY InitKeeps, NextKeeps, PTL DEF Spec

\* No success is a shortened copy, for every tree, pair of paths and number of failures:
\* without an error all that the Tarballer announced has arrived whole, through both
\* pipes.  (Tarballer.Do, which only logs; RebaseArchiveEntries; createTarFile.)
THEOREM CopiesAreWhole == Spec => []WholeOrError
  <1>1. IInv => WholeOrError
    BY DEF IInv, ResultInv, Complete, WholeOrError
  <1> QED
    BY <1>1, Inductive, PTL
=============================================================================
