--------------------------- MODULE CopyPipeProofs ---------------------------
(***************************************************************************)
(* What the two copies through a pipe promise, for every source tree,      *)
(* option and number of failures: an archive that is reported whole has    *)
(* arrived whole, a link that arrives names what has arrived, and TarUntar *)
(* archives what its includes and patterns ask for, and nothing else.      *)
(***************************************************************************)
EXTENDS CopyPipe, TreeProofs, FiniteSetTheorems

-----------------------------------------------------------------------------
(* The invariant.                                                          *)

CopiesFile == options.call = "CopyFileWithTar"

\* The headers are some set's, which grows as the source changes.
TypeInv ==
    \E S : written \in Seq(S) /\ received \in Seq([hdr : S, whole : BOOLEAN])

\* Names of one inode are names of one file.
SameFile ==
    \A p, q \in DOMAIN src :
        (src[p].ino = src[q].ino /\ src[p].kind # "dir" /\ src[q].kind # "dir") =>
            src[p].kind = src[q].kind /\ src[p].owner = src[q].owner

SourceInv ==
    /\ IsTree(src) /\ faults \in Nat /\ SameFile
    /\ CopiesFile => /\ \A p \in DOMAIN src : src[p].kind \in {"dir", "reg", "sym"}
                     /\ srcPath \in Seq(Name)
    /\ at = "open" => sent.kind = "reg"

\* The places of each writer, and what has not happened yet there.
AtInv ==
    /\ options.call \in {"TarUntar", "CopyFileWithTar"}
    /\ CopiesFile => at \in {"stat", "open", "send", "copy", "copied", "close",
                             "closing", "ended"}
    /\ ~CopiesFile => at \in {"start", "walk", "add", "header", "body", "contents",
                              "close", "closing", "ended"}
    /\ at = "stat" => reader = "idle"
    /\ at \in {"stat", "start", "open"} => written = << >>
    /\ at \in {"stat", "open", "header", "body", "contents", "send", "copy", "copied"} => ~owed
    /\ wclosed => at = "ended"
    /\ rclosed => reader \in {"wait", "done"}

OnWire(what) == wire # << >> /\ Head(wire).what = what

\* A message is on the wire only while its writer waits for it to be read.
WireInv ==
    /\ wire # << >> => OnWire("header") \/ OnWire("body") \/ OnWire("end")
    /\ OnWire("header") => /\ at \in {"header", "send"}
                           /\ Len(written) = Len(received) + 1
                           /\ Head(wire).hdr = Last(written)
    /\ OnWire("body") => at \in {"contents", "copied"}
    /\ OnWire("end") => at = "closing"

\* The reader has met what the writer wrote, except the header on the wire.
SyncInv ==
    /\ Len(received) <= Len(written)
    /\ \A i \in 1..Len(received) : received[i].hdr = written[i]
    /\ ~rclosed /\ ~OnWire("header") => Len(received) = Len(written)

\* Contents of the last file written have still to come, or never will.
Pending ==
    \/ owed
    \/ OnWire("body")
    \/ at \in {"body", "copy"}
    \/ at \in {"header", "send"} /\ Last(written).type = "reg"

\* While the reader waits for the next header nothing is pending.
PendingInv ==
    /\ at = "header" => written # << >>
    /\ owed \/ at \in {"body", "contents", "send", "copy", "copied"} =>
           written # << >> /\ Last(written).type = "reg"
    /\ reader = "next" /\ Len(received) = Len(written) => ~Pending

WholeInv ==
    /\ reader \in {"entry", "body"} => received # << >>
    /\ \A i \in 1..Len(received) :
          (i < Len(received) \/ reader = "next" \/ untar = "nil") => received[i].whole

\* What has been returned, and what it rests on.
ResultInv ==
    /\ untar = "nil" => /\ at \in {"closing", "ended"} /\ wire = << >> /\ ~owed
                        /\ Len(received) = Len(written)
    /\ reader \in {"idle", "next", "entry", "body"} => untar = "none"
    /\ result # "none" => reader = "done"
    /\ result = "nil" => /\ untar = "nil"
                         /\ CopiesFile => at = "ended" /\ ~writerErr
    /\ at \in {"send", "copy", "copied"} => Len(written) = 1
    /\ CopiesFile /\ at \notin {"stat", "open"} =>
           Len(written) = 1 \/ writerErr \/ result = "err"

\* The owner of a file with this inode has no number in the container.
Unmapped(ino) ==
    \A p \in DOMAIN src : (src[p].ino = ino /\ src[p].kind # "dir") =>
        ~IsOverlayWhiteout(src[p]) /\ ~InContainer(src[p].owner)

\* Of the first k headers, one is a file's of that name.
IsEntry(headers, name, k) ==
    \E j \in 1..k : headers[j].name = name /\ headers[j].type \notin {"link", "dir"}

\* A name in SeenFiles is that of an entry written, unless no link to it will be.
LinkInv ==
    /\ \A i \in 1..Len(written) :
          written[i].type = "link" => IsEntry(written, written[i].link.to, i - 1)
    /\ \A ino \in DOMAIN SeenFiles :
          owed \/ rclosed \/ Unmapped(ino) \/ IsEntry(written, SeenFiles[ino], Len(written))

ControlInv == TypeInv /\ AtInv /\ WireInv /\ SyncInv /\ PendingInv /\ WholeInv /\ ResultInv
IInv == SourceInv /\ ControlInv /\ LinkInv

-----------------------------------------------------------------------------
\* Both ends of the pipe hold sequences, empty exactly when of length zero.
LEMMA Lengths ==
    ASSUME TypeInv
    PROVE  /\ Len(written) \in Nat /\ Len(received) \in Nat
           /\ written = << >> <=> Len(written) = 0
           /\ received = << >> <=> Len(received) = 0
  <1>1. PICK S : written \in Seq(S) /\ received \in Seq([hdr : S, whole : BOOLEAN])
    BY DEF TypeInv
  <1>2. QED
    BY <1>1, LenProperties, EmptySeq

-----------------------------------------------------------------------------
(* What the steps of the two goroutines do to the pipe and to the result.  *)

\* The variables the control invariants read.
control == <<options, at, wire, wclosed, rclosed, owed, written, writerErr, copy>>
besideAt == <<options, wire, wclosed, rclosed, owed, written, writerErr, copy>>

\* A step that leaves the control variables alone keeps the control invariant.
LEMMA Idle ==
    ASSUME ControlInv, UNCHANGED control
    PROVE  ControlInv'
  <1>. USE DEF ControlInv, control, copy
  <1>1. TypeInv'
    BY DEF TypeInv
  <1>2. AtInv'
    BY DEF AtInv, CopiesFile
  <1>3. WireInv'
    BY DEF WireInv, OnWire
  <1>4. SyncInv'
    BY DEF SyncInv, OnWire
  <1>5. PendingInv'
    BY DEF PendingInv, Pending, OnWire
  <1>6. WholeInv'
    BY DEF WholeInv
  <1>7. ResultInv'
    BY DEF ResultInv, CopiesFile
  <1>8. QED
    BY <1>1, <1>2, <1>3, <1>4, <1>5, <1>6, <1>7

\* TarUntar's writer moves from place to place and writes nothing.
LEMMA Quiet ==
    ASSUME ControlInv, UNCHANGED besideAt,
           at \in {"start", "walk", "add"}, at' \in {"walk", "add", "close"}
    PROVE  ControlInv'
  <1>. USE DEF besideAt, copy
  <1>1. TypeInv'
    BY DEF ControlInv, TypeInv
  <1>2. AtInv'
    BY DEF ControlInv, AtInv, CopiesFile
  <1>3. wire = << >>
    BY DEF ControlInv, WireInv
  <1>4. WireInv'
    BY <1>3 DEF WireInv, OnWire
  <1>5. SyncInv'
    BY <1>3 DEF ControlInv, SyncInv, OnWire
  <1>6. PendingInv'
    BY <1>3 DEF ControlInv, PendingInv, Pending, OnWire
  <1>7. WholeInv'
    BY DEF ControlInv, WholeInv
  <1>8. ResultInv'
    BY DEF ControlInv, AtInv, ResultInv, CopiesFile
  <1>9. QED
    BY <1>1, <1>2, <1>4, <1>5, <1>6, <1>7, <1>8 DEF ControlInv

\* The writer puts a header on the wire.
LEMMA HeaderWritten ==
    ASSUME ControlInv, NEW hdr, ~owed, ~rclosed,
           UNCHANGED <<options, wclosed, rclosed, owed, writerErr, copy>>,
           wire' = <<[what |-> "header", hdr |-> hdr]>>,
           written' = Append(written, hdr),
           \/ at = "add" /\ at' = "header"
           \/ at = "open" /\ at' = "send" /\ hdr.type = "reg"
    PROVE  ControlInv'
  <1>. USE DEF copy
  <1>1. PICK S : written \in Seq(S) /\ received \in Seq([hdr : S, whole : BOOLEAN])
    BY DEF ControlInv, TypeInv
  <1>2. /\ written' \in Seq(S \union {hdr})
        /\ Len(written) \in Nat /\ Len(written') = Len(written) + 1
        /\ \A i \in 1..Len(written) : written'[i] = written[i]
        /\ written' # << >> /\ Last(written') = hdr
    <2>1. written \in Seq(S)
      BY <1>1
    <2>2. /\ Append(written, hdr) \in Seq(S \union {hdr})
          /\ Len(written) \in Nat /\ Len(Append(written, hdr)) = Len(written) + 1
          /\ \A i \in 1..Len(written) : Append(written, hdr)[i] = written[i]
          /\ Append(written, hdr) # << >> /\ Last(Append(written, hdr)) = hdr
      BY ONLY <2>1, AppendFacts, SMT
    <2>3. QED
      BY <2>2
  <1>3. TypeInv'
    <2>1. [hdr : S, whole : BOOLEAN] \subseteq [hdr : S \union {hdr}, whole : BOOLEAN]
      OBVIOUS
    <2>2. received \in Seq([hdr : S \union {hdr}, whole : BOOLEAN])
      BY <1>1, <2>1, WiderSeq
    <2>3. QED
      BY <1>2, <2>2 DEF TypeInv
  <1>4. wire = << >>
    BY DEF ControlInv, WireInv
  <1>5. /\ OnWire("header")' /\ Head(wire') = [what |-> "header", hdr |-> hdr]
        /\ ~OnWire("body")' /\ ~OnWire("end")'
    BY DEF OnWire
  <1>6. AtInv'
    BY DEF ControlInv, AtInv, CopiesFile
  <1>7. Len(received) \in Nat /\ Len(received) = Len(written)
    BY <1>4, Lengths DEF ControlInv, SyncInv, OnWire
  <1>8. WireInv'
    BY <1>2, <1>5, <1>7 DEF WireInv
  <1>9. SyncInv'
    BY <1>2, <1>5, <1>7 DEF ControlInv, SyncInv
  <1>10. PendingInv'
    BY <1>2, <1>7 DEF ControlInv, PendingInv
  <1>11. WholeInv'
    BY DEF ControlInv, WholeInv
  <1>12. ResultInv'
    <2>1. at = "open" => Len(written') = 1
      BY <1>2 DEF ControlInv, AtInv
    <2>2. QED
      BY <2>1 DEF ControlInv, AtInv, ResultInv, CopiesFile
  <1>13. QED
    BY <1>3, <1>6, <1>8, <1>9, <1>10, <1>11, <1>12 DEF ControlInv

\* The header has been read, or nobody will read it.
LEMMA HeaderTaken ==
    ASSUME ControlInv, UNCHANGED <<options, wclosed, rclosed, owed, written, copy>>,
           \/ /\ WriteBroken /\ wire' = << >>
              /\ \/ at = "header" /\ at' = "walk" /\ UNCHANGED writerErr
                 \/ at = "send" /\ at' = "closing" /\ writerErr' = TRUE
           \/ /\ WriteDone /\ UNCHANGED <<wire, writerErr>>
              /\ \/ at = "header" /\ at' = IF Last(written).type = "reg" THEN "body" ELSE "walk"
                 \/ at = "send" /\ at' = "copy"
    PROVE  ControlInv'
  <1>. USE DEF copy
  <1>1. TypeInv'
    BY DEF ControlInv, TypeInv
  <1>2. wire' = << >>
    BY DEF WriteDone
  <1>3. AtInv'
    BY DEF ControlInv, AtInv, CopiesFile
  <1>4. WireInv'
    BY <1>2 DEF WireInv, OnWire
  <1>5. SyncInv'
    BY <1>2 DEF ControlInv, SyncInv, OnWire, WriteDone, WriteBroken
  <1>6. ~owed
    BY DEF ControlInv, AtInv
  <1>7. PendingInv'
    <2>1. WriteBroken => reader # "next"
      BY DEF ControlInv, AtInv, WriteBroken
    <2>2. reader = "next" /\ Len(received) = Len(written) => at = "header" /\ Last(written).type # "reg"
      BY <2>1 DEF ControlInv, PendingInv, Pending
    <2>3. reader = "next" /\ Len(received) = Len(written) => at' = "walk"
      BY <2>1, <2>2
    <2>4. (reader = "next" /\ Len(received) = Len(written) => ~Pending)'
      BY <1>2, <1>6, <2>3 DEF Pending, OnWire
    <2>5. QED
      BY <1>6, <2>4 DEF ControlInv, PendingInv
  <1>8. WholeInv'
    BY DEF ControlInv, WholeInv
  <1>9. ResultInv'
    BY DEF ControlInv, AtInv, ResultInv, CopiesFile
  <1>10. QED
    BY <1>1, <1>3, <1>4, <1>5, <1>7, <1>8, <1>9 DEF ControlInv

\* The contents are written; only then can the writer have made an error of them.
LEMMA ContentsWritten ==
    ASSUME ControlInv, ~rclosed,
           UNCHANGED <<options, wclosed, rclosed, owed, written, copy>>,
           wire' = <<[what |-> "body"]>>,
           \/ at = "body" /\ at' = "contents"
           \/ at = "copy" /\ at' = "copied"
    PROVE  ControlInv'
  <1>. USE DEF copy
  <1>1. TypeInv'
    BY DEF ControlInv, TypeInv
  <1>2. AtInv'
    BY DEF ControlInv, AtInv, CopiesFile
  <1>3. wire = << >> /\ OnWire("body")' /\ ~OnWire("header")' /\ ~OnWire("end")'
    BY DEF ControlInv, WireInv, OnWire
  <1>4. WireInv'
    BY <1>3 DEF WireInv
  <1>5. SyncInv'
    BY <1>3 DEF ControlInv, SyncInv, OnWire
  <1>6. PendingInv'
    BY <1>3 DEF ControlInv, PendingInv, Pending, SyncInv, OnWire
  <1>7. WholeInv'
    BY DEF ControlInv, WholeInv
  <1>8. ResultInv'
    BY DEF ControlInv, AtInv, ResultInv, CopiesFile
  <1>9. QED
    BY <1>1, <1>2, <1>4, <1>5, <1>6, <1>7, <1>8 DEF ControlInv

\* The writer gives up the contents, which stay owed, or not.
LEMMA ContentsMissed ==
    ASSUME ControlInv,
           UNCHANGED <<options, wire, wclosed, rclosed, written, copy>>,
           \/ at = "body" /\ at' = "walk"
           \/ at = "copy" /\ at' = "close"
    PROVE  ControlInv'
  <1>. USE DEF copy
  <1>1. TypeInv'
    BY DEF ControlInv, TypeInv
  <1>2. AtInv'
    BY DEF ControlInv, AtInv, CopiesFile
  <1>3. wire = << >> /\ wire' = << >>
    BY DEF ControlInv, WireInv
  <1>4. WireInv'
    BY <1>3 DEF WireInv, OnWire
  <1>5. SyncInv'
    BY <1>3 DEF ControlInv, SyncInv, OnWire
  <1>6. PendingInv'
    BY <1>3 DEF ControlInv, PendingInv, Pending
  <1>7. WholeInv'
    BY DEF ControlInv, WholeInv
  <1>8. ResultInv'
    BY DEF ControlInv, AtInv, ResultInv, CopiesFile
  <1>9. QED
    BY <1>1, <1>2, <1>4, <1>5, <1>6, <1>7, <1>8 DEF ControlInv

\* The contents have been read, or nobody will read them.
LEMMA ContentsTaken ==
    ASSUME ControlInv,
           UNCHANGED <<options, wclosed, rclosed, owed, written, copy>>,
           wire' = << >>,
           \/ at = "contents" /\ at' = "walk"
           \/ at = "copied" /\ at' = "close",
           wire # << >> => rclosed
    PROVE  ControlInv'
  <1>. USE DEF copy
  <1>1. TypeInv'
    BY DEF ControlInv, TypeInv
  <1>2. AtInv'
    BY DEF ControlInv, AtInv, CopiesFile
  <1>3. WireInv'
    BY DEF WireInv, OnWire
  <1>4. SyncInv'
    BY DEF ControlInv, SyncInv, OnWire
  <1>5. PendingInv'
    BY DEF ControlInv, AtInv, PendingInv, Pending, OnWire
  <1>6. WholeInv'
    BY DEF ControlInv, WholeInv
  <1>7. ResultInv'
    BY DEF ControlInv, AtInv, ResultInv, CopiesFile
  <1>8. QED
    BY <1>1, <1>2, <1>3, <1>4, <1>5, <1>6, <1>7 DEF ControlInv

\* The tar writer is closed, then the pipe.
LEMMA Closes ==
    ASSUME ControlInv,
           UNCHANGED <<options, rclosed, owed, written, writerErr, copy>>,
           \/ /\ at = "close" /\ at' = "closing" /\ UNCHANGED wclosed
              /\ IF owed \/ rclosed THEN wire' = wire ELSE wire' = <<[what |-> "end"]>>
           \/ at = "closing" /\ at' = "ended" /\ wire' = << >> /\ wclosed'
    PROVE  ControlInv'
  <1>. USE DEF copy
  <1>1. TypeInv'
    BY DEF ControlInv, TypeInv
  <1>2. AtInv'
    BY DEF ControlInv, AtInv, CopiesFile
  <1>3. /\ at = "close" => wire = << >>
        /\ ~OnWire("header") /\ ~OnWire("body") /\ ~OnWire("header")' /\ ~OnWire("body")'
        /\ wire' # << >> => OnWire("end")' /\ at' = "closing"
    BY DEF ControlInv, WireInv, OnWire
  <1>4. WireInv'
    BY <1>3 DEF WireInv, OnWire
  <1>5. SyncInv'
    BY <1>3 DEF ControlInv, SyncInv
  <1>6. PendingInv'
    BY <1>3 DEF ControlInv, PendingInv, Pending
  <1>7. WholeInv'
    BY DEF ControlInv, WholeInv
  <1>8. ResultInv'
    BY <1>3 DEF ControlInv, AtInv, ResultInv, CopiesFile
  <1>9. QED
    BY <1>1, <1>2, <1>4, <1>5, <1>6, <1>7, <1>8 DEF ControlInv

\* CopyFileWithTar before its writer has written anything.
LEMMA NothingWritten ==
    ASSUME ControlInv,
           UNCHANGED <<options, wire, wclosed, rclosed, owed, written, received, untar>>,
           \/ /\ at = "stat" /\ at' = "ended" /\ reader' = "done" /\ result' = "err"
              /\ UNCHANGED writerErr
           \/ /\ at = "stat" /\ at' = "open" /\ reader' = "next" /\ UNCHANGED result
              /\ UNCHANGED writerErr
           \/ at = "open" /\ at' = "closing" /\ writerErr' = TRUE /\ UNCHANGED <<reader, result>>
    PROVE  ControlInv'
  <1>1. TypeInv'
    BY DEF ControlInv, TypeInv
  <1>2. AtInv'
    BY DEF ControlInv, AtInv, CopiesFile
  <1>3. wire = << >> /\ wire' = << >>
    BY DEF ControlInv, WireInv
  <1>4. WireInv'
    BY <1>3 DEF WireInv, OnWire
  <1>5. SyncInv'
    BY <1>3 DEF ControlInv, SyncInv, OnWire
  <1>6. ~owed
    BY DEF ControlInv, AtInv
  <1>7. PendingInv'
    BY <1>3, <1>6 DEF ControlInv, PendingInv, Pending, OnWire
  <1>8. received = << >> /\ Len(received) = 0
    BY Lengths DEF ControlInv, AtInv, SyncInv
  <1>9. WholeInv'
    BY <1>8 DEF ControlInv, WholeInv, AtInv
  <1>10. ResultInv'
    BY <1>3 DEF ControlInv, AtInv, ResultInv, CopiesFile
  <1>11. QED
    BY <1>1, <1>2, <1>4, <1>5, <1>7, <1>9, <1>10 DEF ControlInv

writing == <<options, at, wclosed, owed, written, writerErr>>

\* Untar reads a header and has nothing of its contents yet.
LEMMA HeaderRead ==
    ASSUME ControlInv, ReadHeader
    PROVE  ControlInv'
  <1>1. /\ reader = "next" /\ wire' = << >> /\ reader' = "entry"
        /\ received' = Append(received, [hdr |-> Head(wire).hdr, whole |-> FALSE])
        /\ UNCHANGED <<writing, rclosed, untar, result>>
    BY DEF ReadHeader, Takes, writer, entry, goroutine, writing
  <1>. USE DEF writing
  <1>2. OnWire("header")
    BY DEF ReadHeader, Takes, OnWire
  <1>3. /\ at \in {"header", "send"} /\ Len(written) = Len(received) + 1
        /\ Head(wire).hdr = Last(written)
    BY <1>2 DEF ControlInv, WireInv
  <1>4. PICK S : written \in Seq(S) /\ received \in Seq([hdr : S, whole : BOOLEAN])
    BY DEF ControlInv, TypeInv
  <1>5. Len(written) \in Nat /\ Len(received) \in Nat
    BY Lengths DEF ControlInv
  <1>6. Last(written) = written[Len(received) + 1] /\ Last(written) \in S
    <2>1. Len(written) \in 1..Len(written)
      BY <1>3, <1>5
    <2>2. QED
      BY <1>3, <1>4, <2>1, ElementOfSeq DEF Last
  <1>. DEFINE new == [hdr |-> Last(written), whole |-> FALSE]
  <1>7. received' = Append(received, new) /\ new \in [hdr : S, whole : BOOLEAN]
    BY <1>1, <1>3, <1>6
  <1>8. new.hdr = written[Len(received) + 1]
    BY <1>6
  <1>. HIDE DEF new
  <1>9. /\ received' \in Seq([hdr : S, whole : BOOLEAN])
        /\ Len(received') = Len(received) + 1
        /\ \A i \in 1..Len(received) : received'[i] = received[i]
        /\ received'[Len(received) + 1] = new
        /\ received' # << >>
    BY ONLY <1>4, <1>7, AppendProperties, EmptySeq, LenProperties, SMT
  <1>10. TypeInv'
    BY <1>1, <1>4, <1>9 DEF TypeInv
  <1>11. AtInv'
    BY <1>1 DEF ControlInv, AtInv, CopiesFile
  <1>12. WireInv'
    BY <1>1 DEF WireInv, OnWire
  <1>13. SyncInv'
    <2>1. \A i \in 1..Len(received)+1 : i \in 1..Len(received) \/ i = Len(received) + 1
      BY <1>5
    <2>2. \A i \in 1..Len(received') : received'[i].hdr = written[i]
      BY <1>8, <1>9, <2>1 DEF ControlInv, SyncInv
    <2>3. QED
      BY <1>1, <1>3, <1>9, <2>2 DEF SyncInv
  <1>14. PendingInv'
    BY <1>1 DEF ControlInv, PendingInv
  <1>15. WholeInv'
    <2>1. untar' # "nil"
      BY <1>1 DEF ControlInv, ResultInv
    <2>2. \A i \in 1..Len(received) + 1 : i < Len(received) + 1 => i \in 1..Len(received)
      BY <1>5
    <2>3. \A i \in 1..Len(received) : received[i].whole
      BY <1>1 DEF ControlInv, WholeInv
    <2>4. QED
      BY <1>1, <1>9, <2>1, <2>2, <2>3 DEF WholeInv
  <1>16. ResultInv'
    BY <1>1 DEF ControlInv, ResultInv, CopiesFile
  <1>17. QED
    BY <1>10, <1>11, <1>12, <1>13, <1>14, <1>15, <1>16 DEF ControlInv

\* Untar has all of the entry it met last.
LEMMA EntryWhole ==
    ASSUME ControlInv, received # << >>
    PROVE  /\ Len(Whole) = Len(received) /\ Whole # << >>
           /\ \A i \in 1..Len(received) :
                 /\ Whole[i].hdr = received[i].hdr
                 /\ i < Len(received) => Whole[i] = received[i]
           /\ Whole[Len(received)].whole
           /\ \A S : received \in Seq([hdr : S, whole : BOOLEAN]) =>
                         Whole \in Seq([hdr : S, whole : BOOLEAN])
  <1>1. Len(received) \in Nat /\ Len(received) > 0
    BY Lengths DEF ControlInv
  <1>2. PICK last : last = Len(received) /\ last \in 1..Len(received)
    BY <1>1
  <1>3. ASSUME NEW S, received \in Seq([hdr : S, whole : BOOLEAN])
        PROVE  /\ Whole \in Seq([hdr : S, whole : BOOLEAN])
               /\ Len(Whole) = Len(received)
               /\ \A i \in 1..Len(received) : i < Len(received) => Whole[i] = received[i]
               /\ Whole[last].whole /\ Whole[last].hdr = received[last].hdr
    <2>1. received[last] \in [hdr : S, whole : BOOLEAN]
      BY <1>2, <1>3, ElementOfSeq
    <2>. DEFINE new == [received[last] EXCEPT !.whole = TRUE]
    <2>2. new \in [hdr : S, whole : BOOLEAN] /\ new.whole /\ new.hdr = received[last].hdr
      BY <2>1
    <2>3. Whole = [received EXCEPT ![last] = new]
      BY <1>2 DEF Whole
    <2>. HIDE DEF new
    <2>4. /\ Whole \in Seq([hdr : S, whole : BOOLEAN])
          /\ Len(Whole) = Len(received)
          /\ \A i \in 1..Len(received) : Whole[i] = IF i = last THEN new ELSE received[i]
      BY ONLY <1>2, <1>3, <2>2, <2>3, ExceptSeq
    <2>5. QED
      BY <1>1, <1>2, <2>2, <2>4
  <1>4. PICK S : received \in Seq([hdr : S, whole : BOOLEAN])
    BY DEF ControlInv, TypeInv
  <1>5. Whole \in Seq([hdr : S, whole : BOOLEAN]) /\ Len(Whole) = Len(received)
    BY <1>3, <1>4
  <1>6. Whole # << >>
    BY <1>1, <1>5, EmptySeq
  <1>7. \A i \in 1..Len(received) : i < Len(received) \/ i = last
    BY <1>1, <1>2
  <1>8. QED
    BY <1>2, <1>3, <1>4, <1>6, <1>7

\* Untar has extracted an entry, and goes on to the next.
LEMMA EntryDone ==
    ASSUME ControlInv, reader \in {"entry", "body"}, reader' = "next", received' = Whole,
           UNCHANGED <<writing, rclosed, untar, result>>,
           \/ wire' = wire /\ Last(received).hdr.type # "reg"
           \/ wire' = << >> /\ OnWire("body")
    PROVE  ControlInv'
  <1>. USE DEF writing
  <1>1. received # << >> /\ Len(received) \in Nat /\ Len(received) > 0
    BY Lengths DEF ControlInv, WholeInv
  <1>2. /\ Len(received') = Len(received) /\ received' # << >>
        /\ \A i \in 1..Len(received) :
              /\ received'[i].hdr = received[i].hdr
              /\ i < Len(received) => received'[i] = received[i]
        /\ received'[Len(received)].whole
    BY <1>1, EntryWhole
  <1>3. TypeInv'
    <2>1. PICK S : written \in Seq(S) /\ received \in Seq([hdr : S, whole : BOOLEAN])
      BY DEF ControlInv, TypeInv
    <2>2. Whole \in Seq([hdr : S, whole : BOOLEAN])
      BY <1>1, <2>1, EntryWhole
    <2>3. QED
      BY <2>1, <2>2 DEF TypeInv
  <1>4. AtInv'
    BY DEF ControlInv, AtInv, CopiesFile
  <1>5. WireInv'
    BY <1>2 DEF ControlInv, WireInv, OnWire
  <1>6. SyncInv'
    BY <1>2 DEF ControlInv, SyncInv, OnWire
  <1>7. PendingInv'
    <2>1. ASSUME Len(received) = Len(written), wire' = wire, Last(received).hdr.type # "reg"
          PROVE  ~Pending
      <3>1. Last(received).hdr = Last(written)
        BY <1>1, <2>1 DEF ControlInv, SyncInv, Last
      <3>2. Last(written).type # "reg"
        BY <2>1, <3>1
      <3>3. QED
        BY <3>2 DEF ControlInv, WireInv, PendingInv, Pending
    <2>2. OnWire("body") => at \in {"contents", "copied"} /\ ~owed
      BY DEF ControlInv, WireInv, AtInv
    <2>3. Len(received) = Len(written) => ~Pending'
      <3>1. CASE wire' = wire /\ Last(received).hdr.type # "reg"
        BY <2>1, <3>1 DEF Pending, OnWire
      <3>2. CASE wire' = << >> /\ OnWire("body")
        BY <2>2, <3>2 DEF Pending, OnWire
      <3>3. QED
        BY <3>1, <3>2
    <2>4. QED
      BY <1>2, <2>3 DEF ControlInv, PendingInv
  <1>8. WholeInv'
    <2>1. \A i \in 1..Len(received) : i < Len(received) => received[i].whole
      BY DEF ControlInv, WholeInv
    <2>2. \A i \in 1..Len(received) : i < Len(received) \/ i = Len(received)
      BY <1>1
    <2>3. \A i \in 1..Len(received) : received'[i].whole
      BY <1>2, <2>1, <2>2
    <2>4. QED
      BY <1>2, <2>3 DEF WholeInv
  <1>9. ResultInv'
    <2>1. untar = "none"
      BY DEF ControlInv, ResultInv
    <2>2. QED
      BY <1>2, <2>1 DEF ControlInv, ResultInv, CopiesFile
  <1>10. QED
    BY <1>3, <1>4, <1>5, <1>6, <1>7, <1>8, <1>9 DEF ControlInv

\* Untar returns; without an error only at the end of the archive.
LEMMA UntarReturns ==
    ASSUME ControlInv, Reading, UNCHANGED <<writing, rclosed, received, result>>,
           \/ Returns("err") /\ UNCHANGED wire
           \/ reader = "next" /\ Returns("nil") /\ UNCHANGED wire /\ wclosed
           \/ reader = "next" /\ Returns("nil") /\ wire' = << >> /\ OnWire("end")
    PROVE  ControlInv'
  <1>. USE DEF writing, Returns, Reading
  <1>1. TypeInv'
    BY DEF ControlInv, TypeInv
  <1>2. AtInv'
    BY DEF ControlInv, AtInv, CopiesFile
  <1>3. WireInv'
    BY DEF ControlInv, WireInv, OnWire
  <1>4. SyncInv'
    <2>1. OnWire("end") => ~OnWire("header")
      BY DEF OnWire
    <2>2. QED
      BY <2>1 DEF ControlInv, SyncInv, OnWire
  <1>5. PendingInv'
    BY DEF ControlInv, PendingInv
  <1>6. WholeInv'
    BY DEF ControlInv, WholeInv
  <1>7. ResultInv'
    <2>1. ~rclosed
      BY DEF ControlInv, AtInv
    <2>2. ASSUME untar' = "nil"
          PROVE  /\ reader = "next" /\ wire' = << >> /\ ~OnWire("header")
                 /\ at \in {"closing", "ended"}
      BY <2>2 DEF ControlInv, AtInv, WireInv, OnWire
    <2>3. ASSUME untar' = "nil" PROVE Len(received) = Len(written) /\ ~owed
      BY <2>1, <2>2, <2>3 DEF ControlInv, SyncInv, PendingInv, Pending
    <2>4. result # "nil"
      BY DEF ControlInv, ResultInv
    <2>5. QED
      BY <2>2, <2>3, <2>4 DEF ControlInv, ResultInv, CopiesFile
  <1>8. QED
    BY <1>1, <1>2, <1>3, <1>4, <1>5, <1>6, <1>7 DEF ControlInv

\* The copy's own steps after Untar: it closes its end of the pipe, waits, returns.
LEMMA CopyReturns ==
    ASSUME ControlInv, UNCHANGED <<writing, wire, received, untar>>,
           \/ reader = "returned" /\ reader' = "done" /\ result' = untar /\ rclosed'
              /\ ~CopiesFile
           \/ reader = "returned" /\ reader' = "wait" /\ UNCHANGED result
              /\ rclosed' \in BOOLEAN
           \/ reader = "wait" /\ reader' = "done" /\ UNCHANGED rclosed
              /\ result' = CopyResult(untar, writerErr)
              /\ at = "ended"
    PROVE  ControlInv'
  <1>. USE DEF writing
  <1>1. TypeInv'
    BY DEF ControlInv, TypeInv
  <1>2. AtInv'
    BY DEF ControlInv, AtInv, CopiesFile
  <1>3. WireInv'
    BY DEF ControlInv, WireInv, OnWire
  <1>4. SyncInv'
    BY DEF ControlInv, AtInv, SyncInv, OnWire
  <1>5. PendingInv'
    BY DEF ControlInv, PendingInv
  <1>6. WholeInv'
    BY DEF ControlInv, WholeInv
  <1>7. ResultInv'
    BY DEF ControlInv, AtInv, ResultInv, CopiesFile, CopyResult
  <1>8. QED
    BY <1>1, <1>2, <1>3, <1>4, <1>5, <1>6, <1>7 DEF ControlInv

\* A step of the packer keeps the control invariant.
LEMMA DoControl ==
    ASSUME ControlInv, Do, UNCHANGED <<goroutine, copy>>
    PROVE  ControlInv'
  <1>. USE DEF writer, walk, entry, pipe, goroutine
  <1>1. CASE Start \/ NextInclude \/ Visit \/ ReadNames \/ Walked
    <2>1. /\ UNCHANGED besideAt /\ at \in {"start", "walk"}
          /\ at' \in {"walk", "add", "close"}
      <3>1. CASE Start
        BY <3>1 DEF Start, besideAt
      <3>2. CASE NextInclude
        BY <3>2 DEF NextInclude, besideAt
      <3>3. CASE Visit
        BY <3>3 DEF Visit, besideAt
      <3>4. CASE ReadNames
        BY <3>4 DEF ReadNames, besideAt
      <3>5. CASE Walked
        BY <3>5 DEF Walked, besideAt
      <3>6. QED
        BY <1>1, <3>1, <3>2, <3>3, <3>4, <3>5
    <2>2. QED
      BY <2>1, Quiet
  <1>2. CASE AddHeader
    <2>. DEFINE packed == Packed(src, Source(adding.path), adding.name, SeenFiles)
    <2>1. /\ at = "add" /\ UNCHANGED <<options, wclosed, rclosed, owed, writerErr, copy>>
          /\ \/ UNCHANGED <<wire, written>> /\ at' = "walk"
             \/ /\ ~owed /\ ~rclosed /\ at' = "header"
                /\ wire' = <<[what |-> "header", hdr |-> packed.hdr]>>
                /\ written' = Append(written, packed.hdr)
      BY <1>2 DEF AddHeader, Writes, StopsWalk
    <2>2. PICK hdr : hdr = packed.hdr
      OBVIOUS
    <2>. HIDE DEF packed
    <2>3. CASE UNCHANGED <<wire, written>> /\ at' = "walk"
      BY <2>1, <2>3, Quiet DEF besideAt
    <2>4. CASE /\ ~owed /\ ~rclosed /\ at' = "header"
               /\ wire' = <<[what |-> "header", hdr |-> hdr]>>
               /\ written' = Append(written, hdr)
      BY <2>1, <2>4, HeaderWritten
    <2>5. QED
      BY <2>1, <2>2, <2>3, <2>4
  <1>3. CASE HeaderDone
    BY <1>3, HeaderTaken DEF HeaderDone, StopsWalk, WriteDone, WriteBroken
  <1>4. CASE AddContents
    <2>1. /\ at = "body" /\ UNCHANGED <<options, wclosed, rclosed, written, writerErr, copy>>
          /\ \/ UNCHANGED wire /\ at' = "walk"
             \/ ~rclosed /\ UNCHANGED owed /\ wire' = <<[what |-> "body"]>> /\ at' = "contents"
      BY <1>4 DEF AddContents, Writes, StopsWalk
    <2>2. QED
      BY <2>1, ContentsMissed, ContentsWritten
  <1>5. CASE ContentsDone
    BY <1>5, ContentsTaken DEF ContentsDone, StopsWalk, WriteDone, WriteBroken
  <1>6. CASE CloseArchive
    BY <1>6, Closes DEF CloseArchive, Writes
  <1>7. CASE ClosePipe
    BY <1>7, Closes DEF ClosePipe
  <1>8. QED
    BY <1>1, <1>2, <1>3, <1>4, <1>5, <1>6, <1>7 DEF Do

\* A step of the writing goroutine keeps the control invariant.
LEMMA WriterControl ==
    ASSUME SourceInv, ControlInv, Writer
    PROVE  ControlInv'
  <1>. USE DEF writer, walk, entry, pipe, goroutine, copy
  <1>1. CASE Do /\ UNCHANGED <<goroutine, copy, faults, touched>>
    BY <1>1, DoControl
  <1>2. CASE StatFile
    BY <1>2, NothingWritten DEF StatFile
  <1>3. CASE OpenFile
    <2>1. /\ at = "open"
          /\ UNCHANGED <<options, wclosed, rclosed, owed, copy>>
          /\ \/ UNCHANGED <<wire, written>> /\ writerErr' = TRUE /\ at' = "closing"
             \/ /\ ~rclosed /\ UNCHANGED writerErr /\ at' = "send"
                /\ wire' = <<[what |-> "header", hdr |-> FileHeader]>>
                /\ written' = <<FileHeader>>
      BY <1>3 DEF OpenFile, Writes
    <2>2. PICK hdr : hdr = FileHeader
      OBVIOUS
    <2>3. hdr.type = "reg"
      BY <2>1, <2>2 DEF FileHeader, SourceInv
    <2>4. written = << >> /\ ~owed /\ Append(<< >>, hdr) = <<hdr>>
      BY <2>1 DEF ControlInv, AtInv
    <2>5. CASE UNCHANGED <<wire, written>> /\ writerErr' = TRUE /\ at' = "closing"
      BY <2>1, <2>5, NothingWritten
    <2>6. CASE /\ ~rclosed /\ UNCHANGED writerErr /\ at' = "send"
               /\ wire' = <<[what |-> "header", hdr |-> hdr]>> /\ written' = <<hdr>>
      BY <2>1, <2>3, <2>4, <2>6, HeaderWritten
    <2>7. QED
      BY <2>1, <2>2, <2>5, <2>6
  <1>4. CASE SendDone
    BY <1>4, HeaderTaken DEF SendDone, WriteDone, WriteBroken
  <1>5. CASE CopyFile
    <2>1. /\ at = "copy" /\ UNCHANGED <<options, wclosed, rclosed, written, copy>>
          /\ \/ UNCHANGED wire /\ at' = "close"
             \/ ~rclosed /\ UNCHANGED owed /\ wire' = <<[what |-> "body"]>> /\ at' = "copied"
      BY <1>5 DEF CopyFile, Writes
    <2>2. QED
      BY <2>1, ContentsMissed, ContentsWritten
  <1>6. CASE CopyDone
    BY <1>6, ContentsTaken DEF CopyDone, WriteDone, WriteBroken
  <1>7. QED
    BY <1>1, <1>2, <1>3, <1>4, <1>5, <1>6 DEF Writer

\* A step of the reading side keeps the control invariant.
LEMMA ReaderControl ==
    ASSUME ControlInv, Reader
    PROVE  ControlInv'
  <1>. USE DEF writer, walk, entry, pipe, goroutine, writing
  <1>1. CASE ReadHeader
    BY <1>1, HeaderRead
  <1>2. CASE Extracts
    <2>1. CASE Last(received).hdr.type = "reg"
      <3>1. /\ reader = "entry" /\ reader' = "body"
            /\ UNCHANGED <<writing, wire, rclosed, received, untar, result>>
        BY <1>2, <2>1 DEF Extracts
      <3>2. TypeInv'
        BY <3>1 DEF ControlInv, TypeInv
      <3>3. AtInv'
        BY <3>1 DEF ControlInv, AtInv, CopiesFile
      <3>4. WireInv'
        BY <3>1 DEF ControlInv, WireInv, OnWire
      <3>5. SyncInv'
        BY <3>1 DEF ControlInv, SyncInv, OnWire
      <3>6. PendingInv'
        BY <3>1 DEF ControlInv, PendingInv
      <3>7. WholeInv'
        BY <3>1 DEF ControlInv, WholeInv
      <3>8. ResultInv'
        BY <3>1 DEF ControlInv, ResultInv, CopiesFile
      <3>9. QED
        BY <3>2, <3>3, <3>4, <3>5, <3>6, <3>7, <3>8 DEF ControlInv
    <2>2. CASE Last(received).hdr.type # "reg"
      BY <1>2, <2>2, EntryDone DEF Extracts
    <2>3. QED
      BY <2>1, <2>2
  <1>3. CASE ReadContents
    BY <1>3, EntryDone DEF ReadContents, Takes, OnWire
  <1>4. CASE ReadEnd
    BY <1>4, UntarReturns DEF ReadEnd, Takes, OnWire, Reading
  <1>5. CASE StreamEnds
    BY <1>5, UntarReturns DEF StreamEnds, Reading, Returns
  <1>6. CASE EndTarUntar
    BY <1>6, CopyReturns DEF EndTarUntar, CopiesFile
  <1>7. CASE CloseWithError
    BY <1>7, CopyReturns DEF CloseWithError, ClosesWithError
  <1>8. CASE EndCopyFile
    BY <1>8, CopyReturns DEF EndCopyFile
  <1>9. QED
    BY <1>1, <1>2, <1>3, <1>4, <1>5, <1>6, <1>7, <1>8 DEF Reader

\* Every step keeps the control invariant.
LEMMA ControlStep ==
    ASSUME SourceInv, ControlInv, [Next]_vars
    PROVE  ControlInv'
  <1>. USE DEF writer, walk, entry, pipe, goroutine, copy
  <1>1. CASE Writer
    BY <1>1, WriterControl
  <1>2. CASE Reader
    BY <1>2, ReaderControl
  <1>3. CASE UntarFails
    BY <1>3, UntarReturns DEF UntarFails, writing
  <1>4. ASSUME NEW p \in DOMAIN src, Delete(p) \/ Rewrite(p) \/ Replace(p)
        PROVE  UNCHANGED control
    BY <1>4 DEF Delete, Rewrite, Replace, Moving, control
  <1>5. CASE Ended \/ UNCHANGED vars
    <2>1. UNCHANGED control
      BY <1>5 DEF Ended, vars, control
    <2>2. QED
      BY <2>1, Idle
  <1>6. CASE Disturb
    <2>1. UNCHANGED control => ControlInv'
      BY Idle
    <2>2. QED
      BY <1>3, <1>4, <1>6, <2>1 DEF Disturb
  <1>7. QED
    BY <1>1, <1>2, <1>5, <1>6 DEF Next

-----------------------------------------------------------------------------
(* The source, which other processes change.                               *)

SameNode(new, old) ==
    new.kind = old.kind /\ new.ino = old.ino /\ new.owner = old.owner

\* Files go or become directories; what else there is keeps its kind, inode and owner.
Disturbed(old, new) ==
    /\ IsTree(new)
    /\ \A p \in DOMAIN new :
          new[p].kind = "dir" \/ (p \in DOMAIN old /\ SameNode(new[p], old[p]))

\* A node with another time is the same node otherwise.
LEMMA NewTime ==
    ASSUME NEW node \in NodeType, NEW time \in Nat,
           NEW new, new = [node EXCEPT !.time = time] \/ new = node
    PROVE  new \in NodeType /\ SameNode(new, node)
  BY DEF NodeType, SameNode

\* Touching a path changes times only.
LEMMA TouchSame ==
    ASSUME NEW tree, IsTree(tree), NEW p, NEW clock \in Nat, NEW q \in DOMAIN tree
    PROVE  SameNode(Touch(tree, p, clock)[q], tree[q])
  <1>1. tree[q] \in NodeType
    BY TreePaths
  <1>2. \/ Touch(tree, p, clock)[q] = [tree[q] EXCEPT !.time = clock]
        \/ Touch(tree, p, clock)[q] = tree[q]
    BY DEF Touch
  <1>3. QED
    BY <1>1, <1>2, NewTime

\* Deleting a file only takes nodes away.
LEMMA DeleteSource ==
    ASSUME IsTree(src), NEW p \in DOMAIN src, Delete(p)
    PROVE  Disturbed(src, src')
  <1>1. p # << >> /\ src' = RemoveTree(src, p, Clock) /\ Clock \in Nat
    BY ExtractAssumption DEF Delete
  <1>2. PICK left : left = RemoveTree(src, p, Clock)
    OBVIOUS
  <1>3. CutAt(src, p, left)
    BY <1>1, <1>2, RemoveTreeType
  <1>4. \A q \in DOMAIN left : q \in DOMAIN src /\ left[q] = Touch(src, p, Clock)[q]
    BY <1>2 DEF RemoveTree
  <1>5. Disturbed(src, left)
    BY <1>1, <1>3, <1>4, TouchSame DEF Disturbed, CutAt
  <1>6. QED
    BY <1>1, <1>2, <1>5

\* Rewriting a file changes its time only.
LEMMA RewriteSource ==
    ASSUME IsTree(src), NEW p \in DOMAIN src, Rewrite(p)
    PROVE  Disturbed(src, src')
  <1>1. /\ DOMAIN src' = DOMAIN src /\ Clock \in Nat
        /\ src' = [q \in DOMAIN src |-> src'[q]]
        /\ \A q \in DOMAIN src : src'[q] = [src[q] EXCEPT !.time = Clock] \/ src'[q] = src[q]
    BY ExtractAssumption DEF Rewrite
  <1>2. \A q \in DOMAIN src : src'[q] \in NodeType /\ SameNode(src'[q], src[q])
    BY <1>1, TreePaths, NewTime
  <1>3. src' \in [DOMAIN src -> NodeType]
    BY <1>1, <1>2
  <1>4. << >> \in DOMAIN src /\ \A q \in DOMAIN src \ {<< >>} : Front(q) \in DOMAIN src
    BY TreePaths DEF IsTree, WellFormed
  <1>5. IsTree(src')
    BY <1>2, <1>3, <1>4, TreeKept DEF SameNode
  <1>6. QED
    BY <1>1, <1>2, <1>5 DEF Disturbed

\* A replaced file becomes a directory.
LEMMA ReplaceSource ==
    ASSUME IsTree(src), faults \in Nat, NEW p \in DOMAIN src, Replace(p)
    PROVE  Disturbed(src, src')
  <1>. DEFINE new == Node("dir", NoLink, <<2, faults>>, 0, Clock, src[p].owner)
              fresh == Touch(src, p, Clock)
  <1>1. src[p] \in NodeType /\ src[p].kind # "dir" /\ Clock \in Nat
    BY ExtractAssumption, TreePaths DEF Replace
  <1>2. new \in NodeType /\ new.kind = "dir"
    BY <1>1 DEF Node, NodeType, Kind, NoLink, LinkType
  <1>3. src' = [q \in DOMAIN src |-> IF q = p THEN new ELSE fresh[q]]
    BY DEF Replace, PutNode
  <1>4. /\ fresh \in [DOMAIN src -> NodeType]
        /\ \A q \in DOMAIN src : SameNode(fresh[q], src[q])
    BY <1>1, TouchType, TouchSame
  <1>. HIDE DEF new, fresh
  <1>5. src' \in [DOMAIN src -> NodeType]
    BY <1>2, <1>3, <1>4
  <1>6. \A q \in DOMAIN src :
           src'[q].kind = "dir" \/ (q # p /\ SameNode(src'[q], src[q]))
    BY <1>2, <1>3, <1>4
  <1>7. \A q \in DOMAIN src : src[q].kind = "dir" => src'[q].kind = "dir"
    BY <1>6 DEF SameNode
  <1>8. WellFormed(src')
    BY <1>5, <1>7 DEF IsTree, WellFormed, IsDir, Exists
  <1>9. QED
    BY <1>5, <1>6, <1>8 DEF Disturbed, IsTree

\* What a disturbance leaves of SourceInv, and of the files without a mapped owner.
LEMMA DisturbedSource ==
    ASSUME SourceInv, Disturbed(src, src') \/ UNCHANGED src
    PROVE  /\ IsTree(src') /\ SameFile'
           /\ CopiesFile => \A p \in DOMAIN src' : src'[p].kind \in {"dir", "reg", "sym"}
           /\ \A ino : Unmapped(ino) => Unmapped(ino)'
  <1>1. IsTree(src')
    BY DEF SourceInv, Disturbed
  <1>2. \A p \in DOMAIN src' :
           src'[p].kind = "dir" \/ (p \in DOMAIN src /\ SameNode(src'[p], src[p]))
    BY DEF Disturbed, SameNode
  <1>3. SameFile'
    BY <1>2 DEF SourceInv, SameFile, SameNode
  <1>4. CopiesFile => \A p \in DOMAIN src' : src'[p].kind \in {"dir", "reg", "sym"}
    BY <1>2 DEF SourceInv, SameNode
  <1>5. \A ino : Unmapped(ino) => Unmapped(ino)'
    BY <1>2 DEF Unmapped, SameNode, IsOverlayWhiteout
  <1>6. QED
    BY <1>1, <1>3, <1>4, <1>5

\* Whatever another process does to the source disturbs it that way.
LEMMA DisturbSource ==
    ASSUME SourceInv, NEW p \in DOMAIN src, Delete(p) \/ Rewrite(p) \/ Replace(p)
    PROVE  Disturbed(src, src')
  BY DeleteSource, RewriteSource, ReplaceSource DEF SourceInv

\* The file CopyFileWithTar finds is a regular one.
LEMMA StatSource ==
    ASSUME SourceInv, AtInv, StatFile
    PROVE  at' = "open" => sent'.kind = "reg"
  <1>1. SUFFICES ASSUME NEW p \in Leads, ~IsDir(src, p), sent' = src[p]
                 PROVE  sent'.kind = "reg"
    BY DEF StatFile
  <1>2. IsTree(src) /\ srcPath \in Seq(Part) /\ CopiesFile
    <2>1. CopiesFile
      BY DEF StatFile, AtInv
    <2>2. srcPath \in Seq(Name) /\ Name \subseteq Part
      BY <2>1 DEF SourceInv, Part
    <2>3. srcPath \in Seq(Part)
      BY <2>2, WiderSeq
    <2>4. QED
      BY <2>1, <2>3 DEF SourceInv
  <1>3. p \in DOMAIN src /\ p = Walk(src, srcPath, TRUE, TRUE).at
    BY <1>1 DEF Leads, Exists
  <1>4. NoLinks(src, p)
    BY <1>2, <1>3, ScopedWalkNoLink
  <1>5. src[p].kind # "dir"
    BY <1>1, <1>3 DEF IsDir, Exists
  <1>6. p # << >> /\ p \in Seq(Name)
    BY <1>2, <1>3, <1>5, TreePaths DEF IsTree, WellFormed
  <1>7. Len(p) \in 1..Len(p) /\ SubSeq(p, 1, Len(p)) = p
    BY <1>6, LenProperties, EmptySeq
  <1>8. src[p].kind # "sym"
    BY <1>3, <1>4, <1>7 DEF NoLinks
  <1>9. QED
    BY <1>1, <1>2, <1>3, <1>5, <1>8 DEF SourceInv

\* The packer changes nothing of the source.
LEMMA DoSource ==
    ASSUME AtInv, Do
    PROVE  /\ UNCHANGED <<src, options>> /\ at' # "open"
           /\ CopiesFile => srcPath' = srcPath
  <1>. USE DEF walk, entry
  <1>1. CASE Start
    BY <1>1 DEF Start, AtInv
  <1>2. CASE NextInclude \/ Visit \/ ReadNames \/ Walked
    BY <1>2 DEF NextInclude, Visit, ReadNames, Walked
  <1>3. CASE AddHeader \/ HeaderDone
    BY <1>3 DEF AddHeader, HeaderDone, StopsWalk
  <1>4. CASE AddContents \/ ContentsDone
    BY <1>4 DEF AddContents, ContentsDone, StopsWalk
  <1>5. CASE CloseArchive \/ ClosePipe
    BY <1>5 DEF CloseArchive, ClosePipe
  <1>6. QED
    BY <1>1, <1>2, <1>3, <1>4, <1>5 DEF Do

\* Every step keeps the source's invariant.
LEMMA SourceStep ==
    ASSUME SourceInv, AtInv, [Next]_vars
    PROVE  SourceInv'
  <1>. DEFINE Kept == /\ options' = options /\ faults' \in Nat
                      /\ Disturbed(src, src') \/ UNCHANGED src
                      /\ CopiesFile => srcPath' = srcPath
                      /\ at' = "open" => (at = "open" /\ sent' = sent) \/ sent'.kind = "reg"
  <1>. USE DEF writer, walk, entry, SourceInv
  <1>1. SUFFICES Kept
    BY DisturbedSource DEF CopiesFile
  <1>2. CASE Do /\ UNCHANGED <<goroutine, copy, faults, touched>>
    BY <1>2, DoSource
  <1>3. CASE StatFile
    BY <1>3, StatSource DEF StatFile
  <1>4. CASE OpenFile \/ SendDone \/ CopyFile \/ CopyDone
    BY <1>4 DEF OpenFile, SendDone, CopyFile, CopyDone
  <1>5. CASE Reader
    BY <1>5 DEF Reader, ReadHeader, Extracts, ReadContents, ReadEnd, StreamEnds, EndTarUntar,
                CloseWithError, EndCopyFile
  <1>6. ASSUME Fault PROVE faults' \in Nat
    BY <1>6 DEF Fault
  <1>7. CASE UntarFails
    BY <1>6, <1>7 DEF UntarFails
  <1>8. ASSUME NEW p \in DOMAIN src, Delete(p) \/ Rewrite(p) \/ Replace(p)
        PROVE  Kept
    <2>1. UNCHANGED writer /\ Fault
      BY <1>8 DEF Delete, Rewrite, Replace, Moving
    <2>2. QED
      BY <1>6, <1>8, <2>1, DisturbSource
  <1>9. CASE Ended \/ UNCHANGED vars
    BY <1>9 DEF Ended, vars
  <1>10. QED
    BY <1>2, <1>3, <1>4, <1>5, <1>7, <1>8, <1>9 DEF Next, Writer, Disturb

-----------------------------------------------------------------------------
(* The names that hard links go to.                                        *)

\* A step that sends nothing and forgets no inode keeps the link invariant.
LEMMA LinkKept ==
    ASSUME LinkInv, UNCHANGED <<written, SeenFiles>>, owed => owed', rclosed => rclosed',
           \A ino : Unmapped(ino) => Unmapped(ino)'
    PROVE  LinkInv'
  BY DEF LinkInv, IsEntry

\* What is unmapped stays so, and nothing else changes.
LEMMA LinkDisturbed ==
    ASSUME SourceInv, LinkInv, Disturbed(src, src') \/ UNCHANGED src,
           UNCHANGED <<written, SeenFiles, owed, rclosed>>
    PROVE  LinkInv'
  BY DisturbedSource, LinkKept

\* With the source unchanged an unmapped inode stays unmapped.
LEMMA SameSource ==
    ASSUME SourceInv, UNCHANGED src
    PROVE  \A ino : Unmapped(ino) => Unmapped(ino)'
  BY DEF Unmapped

\* addTarFile: a name is remembered before the header is written, or is not.
LEMMA LinkAdded ==
    ASSUME SourceInv, ControlInv, LinkInv, AddHeader
    PROVE  LinkInv'
  <1>. DEFINE p == Source(adding.path)
              name == adding.name
              packed == Packed(src, p, name, SeenFiles)
              ino == src[p].ino
              first == IsLinked(src, p) /\ ino \notin DOMAIN SeenFiles
  <1>1. /\ SeenFiles' = packed.seen /\ UNCHANGED <<src, owed, rclosed>>
        /\ \/ UNCHANGED written /\ (packed.err # "ok" \/ owed \/ rclosed)
           \/ /\ packed.err = "ok" /\ ~owed /\ ~rclosed
              /\ written' = Append(written, packed.hdr)
    BY DEF AddHeader, Writes, pipe
  <1>2. \A i : Unmapped(i) <=> Unmapped(i)'
    BY <1>1 DEF Unmapped
  <1>3. CASE ~Exists(src, p)
    <2>1. packed.err = "notexist" /\ packed.seen = SeenFiles
      BY <1>3 DEF Packed
    <2>2. QED
      BY <1>1, <1>2, <2>1, LinkKept
  <1>4. CASE Exists(src, p)
    <2>1. src[p] \in NodeType /\ p \in DOMAIN src
      BY <1>4, TreePaths DEF SourceInv, Exists
    <2>2. packed.seen = SeeFile(src, p, name, SeenFiles)
      BY <1>4 DEF Packed
    <2>3. /\ ~first => SeenFiles' = SeenFiles
          /\ first => /\ DOMAIN SeenFiles' = DOMAIN SeenFiles \union {ino}
                      /\ SeenFiles'[ino] = name
                      /\ \A i \in DOMAIN SeenFiles : SeenFiles'[i] = SeenFiles[i]
      BY <1>1, <2>2 DEF SeeFile
    <2>4. first => src[p].kind # "dir"
      BY DEF IsLinked
    <2>5. CASE UNCHANGED written /\ (owed \/ rclosed)
      BY <1>1, <1>2, <2>3, <2>5 DEF LinkInv, IsEntry
    <2>6. CASE UNCHANGED written /\ packed.err # "ok"
      <3>1. ~IsOverlayWhiteout(src[p]) /\ ~InContainer(src[p].owner)
        BY <1>4, <2>6 DEF Packed
      <3>2. first => Unmapped(ino)
        BY <2>1, <2>4, <3>1 DEF SourceInv, SameFile, Unmapped, IsOverlayWhiteout
      <3>3. QED
        BY <1>1, <1>2, <2>3, <2>6, <3>2 DEF LinkInv, IsEntry
    <2>7. CASE /\ packed.err = "ok" /\ ~owed /\ ~rclosed
               /\ written' = Append(written, packed.hdr)
      <3>1. packed.hdr = HeaderFor(src, p, name, SeenFiles)
        BY <1>4, <2>7 DEF Packed
      <3>2. PICK hdr, n : hdr = packed.hdr /\ n = Len(written)
        OBVIOUS
      <3>3. /\ hdr.type = "link" => LinksTo(src, p, SeenFiles) /\ hdr.link.to = SeenFiles[ino]
            /\ first => hdr.name = name /\ hdr.type \notin {"link", "dir"}
        BY <2>1, <2>4, <3>1, <3>2 DEF HeaderFor, LinksTo, NodeType, Kind
      <3>4. /\ n \in Nat /\ Len(written') = n + 1 /\ written'[n + 1] = hdr
            /\ \A i \in 1..n : written'[i] = written[i]
        <4>1. PICK S : written \in Seq(S)
          BY DEF ControlInv, TypeInv
        <4>2. /\ Len(written) \in Nat /\ Len(Append(written, hdr)) = Len(written) + 1
              /\ \A i \in 1..Len(written) : Append(written, hdr)[i] = written[i]
              /\ Append(written, hdr)[Len(written) + 1] = hdr
          BY ONLY <4>1, AppendFacts, SMT
        <4>3. QED
          BY <2>7, <3>2, <4>2
      <3>5. ASSUME NEW x, NEW k \in Nat, NEW m \in Nat, k <= m, k <= n,
                   IsEntry(written, x, k)
            PROVE  IsEntry(written', x, m)
        BY <3>4, <3>5 DEF IsEntry
      <3>6. hdr.type = "link" => IsEntry(written', hdr.link.to, n)
        <4>1. SUFFICES ASSUME hdr.type = "link" PROVE IsEntry(written', SeenFiles[ino], n)
          BY <3>3
        <4>2. ino \in DOMAIN SeenFiles /\ src[p].kind # "dir"
          BY <3>3, <4>1 DEF LinksTo, IsLinked
        <4>3. IsOverlayWhiteout(src[p]) \/ InContainer(src[p].owner)
          BY <1>4, <2>7 DEF Packed
        <4>4. ~Unmapped(ino)
          BY <2>1, <4>2, <4>3 DEF Unmapped
        <4>5. IsEntry(written, SeenFiles[ino], n)
          BY <2>7, <3>2, <4>2, <4>4 DEF LinkInv
        <4>6. QED
          BY <3>4, <3>5, <4>5
      <3>7. first => IsEntry(written', name, n + 1)
        BY <3>3, <3>4 DEF IsEntry
      <3>8. ASSUME NEW i \in 1..n+1, written'[i].type = "link"
            PROVE  IsEntry(written', written'[i].link.to, i - 1)
        <4>1. CASE i = n + 1
          BY <3>4, <3>6, <3>8, <4>1
        <4>2. CASE i \in 1..n
          <5>1. written[i].type = "link" /\ written'[i] = written[i]
            BY <3>4, <3>8, <4>2
          <5>2. IsEntry(written, written[i].link.to, i - 1)
            BY <3>2, <4>2, <5>1 DEF LinkInv
          <5>3. i - 1 \in Nat /\ i - 1 <= n
            BY <3>4, <4>2
          <5>4. QED
            BY <3>4, <3>5, <5>1, <5>2, <5>3
        <4>3. QED
          BY <3>4, <4>1, <4>2
      <3>9. ASSUME NEW i \in DOMAIN SeenFiles
            PROVE  Unmapped(i)' \/ IsEntry(written', SeenFiles[i], n + 1)
        <4>1. Unmapped(i) \/ IsEntry(written, SeenFiles[i], n)
          BY <2>7, <3>2 DEF LinkInv
        <4>2. QED
          BY <1>2, <3>4, <3>5, <4>1
      <3>10. \A i \in DOMAIN SeenFiles' :
                Unmapped(i)' \/ IsEntry(written', SeenFiles'[i], n + 1)
        BY <2>3, <3>7, <3>9
      <3>11. QED
        BY <3>4, <3>8, <3>10 DEF LinkInv
    <2>8. QED
      BY <1>1, <2>5, <2>6, <2>7
  <1>5. QED
    BY <1>3, <1>4

\* Opening the one file of CopyFileWithTar: its header is no link.
LEMMA LinkOpened ==
    ASSUME SourceInv, ControlInv, LinkInv, OpenFile
    PROVE  LinkInv'
  <1>1. /\ at = "open" /\ UNCHANGED <<src, SeenFiles, owed, rclosed>>
        /\ UNCHANGED written \/ written' = <<FileHeader>>
    BY DEF OpenFile, Writes, pipe
  <1>2. written = << >> /\ FileHeader.type # "link"
    BY <1>1 DEF ControlInv, AtInv, SourceInv, FileHeader
  <1>3. \A i : Unmapped(i) => Unmapped(i)'
    BY <1>1, SameSource
  <1>4. CASE UNCHANGED written
    BY <1>1, <1>3, <1>4, LinkKept
  <1>5. CASE written' = <<FileHeader>>
    <2>1. PICK hdr : hdr = FileHeader
      OBVIOUS
    <2>2. \A i \in 1..Len(written') : written'[i].type # "link"
      BY <1>2, <1>5, <2>1
    <2>3. \A x : ~IsEntry(written, x, Len(written))
      BY <1>2 DEF IsEntry
    <2>4. QED
      BY <1>1, <1>3, <2>2, <2>3 DEF LinkInv
  <1>6. QED
    BY <1>1, <1>4, <1>5

\* Every step keeps the link invariant.
LEMMA LinkStep ==
    ASSUME SourceInv, ControlInv, LinkInv, [Next]_vars
    PROVE  LinkInv'
  <1>. DEFINE Kept == /\ Disturbed(src, src') \/ UNCHANGED src
                      /\ UNCHANGED <<written, SeenFiles>>
                      /\ owed => owed'
                      /\ rclosed => rclosed'
  <1>. USE DEF writer, walk, entry, pipe
  <1>1. ASSUME Kept PROVE LinkInv'
    BY <1>1, DisturbedSource, LinkKept
  <1>2. CASE AddHeader
    BY <1>2, LinkAdded
  <1>3. CASE OpenFile
    BY <1>3, LinkOpened
  <1>4. CASE Start \/ NextInclude \/ Visit \/ ReadNames \/ Walked
    BY <1>1, <1>4 DEF Start, NextInclude, Visit, ReadNames, Walked
  <1>5. CASE HeaderDone \/ AddContents \/ ContentsDone
    BY <1>1, <1>5 DEF HeaderDone, AddContents, ContentsDone, StopsWalk, Writes
  <1>6. CASE CloseArchive \/ ClosePipe
    BY <1>1, <1>6 DEF CloseArchive, ClosePipe, Writes
  <1>7. CASE StatFile \/ SendDone \/ CopyDone
    BY <1>1, <1>7 DEF StatFile, SendDone, CopyDone
  <1>8. CASE CopyFile
    <2>1. ~owed
      BY <1>8 DEF CopyFile, ControlInv, AtInv
    <2>2. QED
      BY <1>1, <1>8, <2>1 DEF CopyFile, Writes
  <1>9. CASE Reader
    <2>1. reader = "returned" => ~rclosed
      BY DEF ControlInv, AtInv
    <2>2. QED
      BY <1>1, <1>9, <2>1 DEF Reader, ReadHeader, Extracts, ReadContents, ReadEnd, StreamEnds,
                              EndTarUntar, CloseWithError, EndCopyFile
  <1>10. CASE UntarFails \/ Ended \/ UNCHANGED vars
    BY <1>1, <1>10 DEF UntarFails, Ended, vars
  <1>11. ASSUME NEW p \in DOMAIN src, Delete(p) \/ Rewrite(p) \/ Replace(p)
         PROVE  LinkInv'
    <2>1. Disturbed(src, src')
      BY <1>11, DisturbSource
    <2>2. UNCHANGED writer /\ UNCHANGED pipe
      BY <1>11 DEF Delete, Rewrite, Replace, Moving
    <2>3. QED
      BY <1>1, <2>1, <2>2
  <1>12. QED
    BY <1>2, <1>3, <1>4, <1>5, <1>6, <1>7, <1>8, <1>9, <1>10, <1>11
       DEF Next, Writer, Do, Disturb

-----------------------------------------------------------------------------
(* The theorems.                                                           *)

\* The invariant holds at the start.
LEMMA InitInv == Init => IInv
  <1>. SUFFICES ASSUME Init PROVE IInv
    OBVIOUS
  <1>1. PICK c \in Cases : /\ src = c.src /\ srcPath = c.srcPath /\ options = c
                           /\ faults = c.faults
                           /\ reader = IF c.call = "TarUntar" THEN "next" ELSE "idle"
                           /\ at = IF c.call = "TarUntar" THEN "start" ELSE "stat"
    BY DEF Init
  <1>2. /\ written = << >> /\ received = << >> /\ SeenFiles = << >> /\ owed = FALSE
        /\ wire = << >> /\ wclosed = FALSE /\ rclosed = FALSE
        /\ untar = "none" /\ result = "none"
    BY DEF Init, DoInit
  <1>3. SourceInv
    BY <1>1, CopyAssumption DEF SourceInv, SameFile, IsDir, Exists, CopiesFile
  <1>4. TypeInv
    <2>1. << >> \in Seq({}) /\ << >> \in Seq([hdr : {}, whole : BOOLEAN])
      OBVIOUS
    <2>2. QED
      BY <1>2, <2>1 DEF TypeInv
  <1>5. AtInv
    BY <1>1, <1>2, CopyAssumption DEF AtInv, CopiesFile
  <1>6. WireInv /\ PendingInv
    BY <1>1, <1>2 DEF WireInv, PendingInv, Pending, OnWire
  <1>7. Len(written) = 0 /\ Len(received) = 0
    BY <1>2
  <1>8. SyncInv /\ WholeInv
    BY <1>1, <1>2, <1>7 DEF SyncInv, WholeInv
  <1>9. ResultInv
    BY <1>1, <1>2 DEF ResultInv, CopiesFile
  <1>10. LinkInv
    BY <1>2, <1>7 DEF LinkInv
  <1>11. QED
    BY <1>3, <1>4, <1>5, <1>6, <1>8, <1>9, <1>10 DEF IInv, ControlInv

\* Every step keeps the invariant.
LEMMA StepInv == IInv /\ [Next]_vars => IInv'
  BY ControlStep, SourceStep, LinkStep DEF IInv, ControlInv

\* WholeOrError for every source, case and number of failures: TarUntar and
\* CopyFileWithTar return no error only if what the writer announced has arrived
\* whole, however the steps of the two goroutines and of other processes interleave.
THEOREM CopiesAreWhole == Spec => []WholeOrError
  <1>1. ASSUME IInv PROVE WholeOrError
    <2>1. SUFFICES ASSUME result = "nil"
                   PROVE  /\ Len(received) = Len(written) /\ ~owed
                          /\ \A i \in 1..Len(received) :
                                received[i].hdr = written[i] /\ received[i].whole
                          /\ CopiesFile => Len(received) = 1 /\ ~writerErr
      BY DEF WholeOrError, CopiesFile
    <2>2. untar = "nil" /\ (CopiesFile => at = "ended" /\ ~writerErr)
      BY <1>1, <2>1 DEF IInv, ControlInv, ResultInv
    <2>3. Len(received) = Len(written) /\ ~owed
      BY <1>1, <2>2 DEF IInv, ControlInv, ResultInv
    <2>4. CopiesFile => Len(written) = 1
      BY <1>1, <2>1, <2>2 DEF IInv, ControlInv, ResultInv
    <2>5. \A i \in 1..Len(received) : received[i].hdr = written[i] /\ received[i].whole
      BY <1>1, <2>2 DEF IInv, ControlInv, SyncInv, WholeInv
    <2>6. QED
      BY <2>2, <2>3, <2>4, <2>5
  <1>2. QED
    BY <1>1, InitInv, StepInv, PTL DEF Spec

\* LinksToReceived for every source, case and number of failures: a link that Untar
\* meets goes to an earlier entry that is a file.
THEOREM LinksGoToReceived == Spec => []LinksToReceived
  <1>1. ASSUME IInv PROVE LinksToReceived
    <2>1. SUFFICES ASSUME NEW i \in 1..Len(received), received[i].hdr.type = "link"
                   PROVE  \E j \in 1..i-1 : /\ received[j].hdr.name = received[i].hdr.link.to
                                            /\ received[j].hdr.type \notin {"link", "dir"}
      BY DEF LinksToReceived
    <2>2. Len(received) \in Nat /\ Len(written) \in Nat
      BY <1>1, Lengths DEF IInv, ControlInv
    <2>3. /\ Len(received) <= Len(written)
          /\ \A j \in 1..Len(received) : received[j].hdr = written[j]
      BY <1>1 DEF IInv, ControlInv, SyncInv
    <2>4. i \in 1..Len(written) /\ written[i].type = "link"
      BY <2>1, <2>2, <2>3
    <2>5. IsEntry(written, written[i].link.to, i - 1)
      BY <1>1, <2>4 DEF IInv, LinkInv
    <2>6. \A j \in 1..i-1 : j \in 1..Len(received)
      BY <2>2
    <2>7. QED
      BY <2>3, <2>5, <2>6 DEF IsEntry
  <1>2. QED
    BY <1>1, InitInv, StepInv, PTL DEF Spec

-----------------------------------------------------------------------------
(* Paths: which lie above which.                                           *)

\* Strictly below is below and longer.
LEMMA BelowIsLonger ==
    ASSUME NEW S, NEW p \in Seq(S), NEW q \in Seq(S)
    PROVE  /\ Below(p, q) <=> Under(p, q) /\ Len(p) < Len(q)
           /\ Under(p, q) => p = q \/ Below(p, q)
           /\ Under(p, p) /\ ~Below(p, p)
  <1>1. Len(p) \in Nat /\ Len(q) \in Nat /\ p \in [1..Len(p) -> S] /\ q \in [1..Len(q) -> S]
    BY LenProperties
  <1>2. Under(p, q) /\ Len(p) = Len(q) => p = q
    BY <1>1 DEF Under
  <1>3. Below(p, q) <=> Under(p, q) /\ Len(p) < Len(q)
    BY <1>1 DEF Under, Below
  <1>4. Under(p, q) => Len(p) = Len(q) \/ Len(p) < Len(q)
    <2>1. PICK m, n : m = Len(p) /\ n = Len(q)
      OBVIOUS
    <2>2. m \in Nat /\ n \in Nat
      BY <1>1, <2>1
    <2>3. Under(p, q) => m <= n
      BY <2>1 DEF Under
    <2>4. m <= n => m = n \/ m < n
      BY <2>2
    <2>5. QED
      BY <2>1, <2>3, <2>4
  <1>5. Under(p, p) /\ ~Below(p, p)
    BY <1>1 DEF Under, Below
  <1>6. QED
    BY <1>2, <1>3, <1>4, <1>5

\* What lies below a path lies below what that path lies below.
LEMMA UnderTransitive ==
    ASSUME NEW S, NEW p \in Seq(S), NEW q \in Seq(S), NEW r \in Seq(S),
           Under(p, q), Under(q, r)
    PROVE  /\ Under(p, r)
           /\ Below(p, q) \/ Below(q, r) => Below(p, r)
  <1>1. Len(p) \in Nat /\ Len(q) \in Nat /\ Len(r) \in Nat
    BY LenProperties
  <1>2. QED
    BY <1>1 DEF Under, Below

\* Of two paths above a third the shorter is above the longer.
LEMMA AboveSame ==
    ASSUME NEW S, NEW p \in Seq(S), NEW q \in Seq(S), NEW r \in Seq(S),
           Under(p, r), Under(q, r)
    PROVE  /\ Len(p) <= Len(q) => Under(p, q)
           /\ Len(p) < Len(q) => Below(p, q)
           /\ Len(p) = Len(q) => p = q
  <1>1. /\ Len(p) \in Nat /\ Len(q) \in Nat /\ Len(r) \in Nat
        /\ p \in [1..Len(p) -> S] /\ q \in [1..Len(q) -> S]
    BY LenProperties
  <1>2. Len(p) <= Len(q) => Under(p, q)
    BY <1>1 DEF Under
  <1>3. Len(p) < Len(q) => Below(p, q)
    BY <1>1 DEF Under, Below
  <1>4. Len(p) = Len(q) => p = q
    BY <1>1 DEF Under
  <1>5. QED
    BY <1>2, <1>3, <1>4

\* The first parts of a path are the paths above it.
LEMMA FirstParts ==
    ASSUME NEW S, NEW p \in Seq(S), NEW n \in 0..Len(p)
    PROVE  /\ SubSeq(p, 1, n) \in Seq(S) /\ Len(SubSeq(p, 1, n)) = n
           /\ Under(SubSeq(p, 1, n), p)
           /\ n < Len(p) => Below(SubSeq(p, 1, n), p)
           /\ \A q \in Seq(S) : Under(q, p) /\ Len(q) = n => SubSeq(p, 1, n) = q
  <1>1. Len(p) \in Nat /\ n \in Nat
    BY LenProperties
  <1>2. /\ SubSeq(p, 1, n) \in Seq(S) /\ Len(SubSeq(p, 1, n)) = n
        /\ \A i \in 1..n : SubSeq(p, 1, n)[i] = p[i]
    BY <1>1, SubSeqProperties
  <1>3. Under(SubSeq(p, 1, n), p) /\ (n < Len(p) => Below(SubSeq(p, 1, n), p))
    BY <1>1, <1>2 DEF Under, Below
  <1>4. QED
    BY <1>2, <1>3, AboveSame

\* The parent is directly above.
LEMMA FrontAbove ==
    ASSUME NEW S, NEW p \in Seq(S), p # << >>
    PROVE  /\ Front(p) \in Seq(S) /\ Len(Front(p)) = Len(p) - 1 /\ Len(p) > 0
           /\ Below(Front(p), p)
           /\ \A q \in Seq(S) : Below(q, p) => Under(q, Front(p))
  <1>1. /\ Front(p) \in Seq(S) /\ Len(Front(p)) = Len(p) - 1 /\ Len(p) > 0
        /\ \A i \in 1..Len(p)-1 : Front(p)[i] = p[i]
    BY FrontProperties
  <1>2. Len(p) \in Nat
    BY LenProperties
  <1>3. Below(Front(p), p)
    BY <1>1, <1>2 DEF Below
  <1>4. ASSUME NEW q \in Seq(S), Below(q, p)
        PROVE  Under(q, Front(p))
    <2>1. Len(q) \in Nat
      BY LenProperties
    <2>2. QED
      BY <1>1, <1>2, <1>4, <2>1 DEF Below, Under
  <1>5. QED
    BY <1>1, <1>3, <1>4

\* Behind a common beginning the order is the same.
LEMMA UnderBehind ==
    ASSUME NEW S, NEW b \in Seq(S), NEW p \in Seq(S), NEW q \in Seq(S)
    PROVE  /\ b \o p \in Seq(S) /\ Len(b \o p) = Len(b) + Len(p)
           /\ Under(b \o p, b \o q) <=> Under(p, q)
           /\ Below(b \o p, b \o q) <=> Below(p, q)
           /\ Under(b, b \o p)
           /\ SubSeq(b \o p, Len(b) + 1, Len(b \o p)) = p
           /\ b \o p = b \o q => p = q
  <1>1. /\ Len(b) \in Nat /\ Len(p) \in Nat /\ Len(q) \in Nat
        /\ p \in [1..Len(p) -> S] /\ q \in [1..Len(q) -> S]
    BY LenProperties
  <1>2. /\ b \o p \in Seq(S) /\ Len(b \o p) = Len(b) + Len(p)
        /\ b \o q \in Seq(S) /\ Len(b \o q) = Len(b) + Len(q)
        /\ \A i \in 1..Len(b) : (b \o p)[i] = b[i] /\ (b \o q)[i] = b[i]
        /\ \A i \in 1..Len(p) : (b \o p)[i + Len(b)] = p[i]
        /\ \A i \in 1..Len(q) : (b \o q)[i + Len(b)] = q[i]
    BY <1>1, ConcatProperties
  <1>3. PICK bp, bq, m : bp = b \o p /\ bq = b \o q /\ m = Len(b) /\ m \in Nat
    BY <1>1
  <1>4. ASSUME Len(p) <= Len(q), \A i \in 1..Len(p) : p[i] = q[i], NEW j \in 1..Len(bp)
        PROVE  bp[j] = bq[j]
    <2>1. CASE j <= m
      BY <1>1, <1>2, <1>3, <2>1
    <2>2. CASE j > m
      <3>1. PICK i \in 1..Len(p) : j = i + m
        <4>1. j - m \in 1..Len(p) /\ j = (j - m) + m
          BY <1>1, <1>2, <1>3, <2>2
        <4>2. QED
          BY <4>1
      <3>2. QED
        BY <1>1, <1>2, <1>3, <1>4, <3>1
    <2>3. j \in Nat /\ m \in Nat
      BY <1>1, <1>2, <1>3
    <2>4. j <= m \/ j > m
      BY <2>3
    <2>5. QED
      BY <2>1, <2>2, <2>4
  <1>5. ASSUME Len(bp) <= Len(bq), \A j \in 1..Len(bp) : bp[j] = bq[j], NEW i \in 1..Len(p)
        PROVE  p[i] = q[i]
    <2>1. i + m \in 1..Len(bp) /\ i \in 1..Len(q)
      BY <1>1, <1>2, <1>3, <1>5
    <2>2. QED
      BY <1>2, <1>3, <1>5, <2>1
  <1>6. Len(bp) <= Len(bq) <=> Len(p) <= Len(q)
    BY <1>1, <1>2, <1>3
  <1>7. Len(bp) < Len(bq) <=> Len(p) < Len(q)
    BY <1>1, <1>2, <1>3
  <1>8. Under(bp, bq) <=> Under(p, q)
    BY <1>4, <1>5, <1>6 DEF Under
  <1>9. Below(bp, bq) <=> Below(p, q)
    <2>1. Below(bp, bq) => Below(p, q)
      BY <1>1, <1>2, <1>3, <1>5, <1>6, <1>7 DEF Below
    <2>2. Below(p, q) => Below(bp, bq)
      BY <1>1, <1>2, <1>3, <1>4, <1>6, <1>7 DEF Below
    <2>3. QED
      BY <2>1, <2>2
  <1>10. Under(b, bp)
    BY <1>1, <1>2, <1>3 DEF Under
  <1>11. SubSeq(bp, m + 1, Len(bp)) = p
    <2>1. /\ SubSeq(bp, m + 1, Len(bp)) \in Seq(S)
          /\ Len(SubSeq(bp, m + 1, Len(bp))) = Len(p)
          /\ \A i \in 1..Len(p) : SubSeq(bp, m + 1, Len(bp))[i] = bp[m + 1 + i - 1]
      BY <1>1, <1>2, <1>3, SubSeqProperties
    <2>2. PICK s \in Seq(S) : s = SubSeq(bp, m + 1, Len(bp))
      BY <2>1
    <2>3. s \in [1..Len(p) -> S]
      BY <2>1, <2>2, LenProperties
    <2>4. \A i \in 1..Len(p) : s[i] = p[i]
      <3>1. ASSUME NEW i \in 1..Len(p) PROVE s[i] = p[i]
        <4>1. m + 1 + i - 1 = i + m
          BY <1>3
        <4>2. QED
          BY <1>2, <1>3, <2>1, <2>2, <3>1, <4>1
      <3>2. QED
        BY <3>1
    <2>5. QED
      BY <1>1, <2>2, <2>3, <2>4
  <1>12. bp = bq => p = q
    <2>1. SUFFICES ASSUME bp = bq PROVE p = q
      OBVIOUS
    <2>2. Under(p, q) /\ Len(p) = Len(q)
      <3>1. Len(bp) = Len(bq) /\ Len(bp) \in Nat
        BY <1>1, <1>2, <1>3, <2>1
      <3>2. Under(bp, bq)
        BY <2>1, <3>1 DEF Under
      <3>3. m + Len(p) = m + Len(q)
        BY <1>2, <1>3, <3>1
      <3>. PICK k \in Nat, l \in Nat : k = Len(p) /\ l = Len(q)
        BY <1>1
      <3>. k = l
        BY <1>3, <3>3
      <3>4. QED
        BY <1>8, <3>2, <3>3
    <2>3. QED
      BY <1>1, <2>2 DEF Under
  <1>13. QED
    BY <1>2, <1>3, <1>8, <1>9, <1>10, <1>11, <1>12

-----------------------------------------------------------------------------
(* The least and the greatest of some numbers.                             *)

\* Some numbers have a least.
LEMMA LeastNumber ==
    ASSUME NEW T \in SUBSET Nat, T # {}
    PROVE  \E x \in T : \A y \in T : x <= y
  <1>. DEFINE R == OpToRel(<, Nat)
  <1>1. IsWellFoundedOn(R, Nat)
    BY NatLessThanWellFounded
  <1>2. \A x, y \in Nat : x < y => <<x, y>> \in R
    BY DEF OpToRel
  <1>. HIDE DEF R
  <1>3. PICK x \in T : \A y \in T : <<y, x>> \notin R
    BY <1>1, WFMin
  <1>4. ASSUME NEW y \in T PROVE x <= y
    <2>1. x \in Nat /\ y \in Nat
      OBVIOUS
    <2>2. ~(y < x)
      BY <1>2, <1>3, <2>1
    <2>3. QED
      BY <2>1, <2>2
  <1>5. QED
    BY <1>4

\* Min finds it.
LEMMA MinLeast ==
    ASSUME NEW T \in SUBSET Nat, T # {}
    PROVE  Min(T) \in T /\ \A y \in T : Min(T) <= y
  BY LeastNumber DEF Min

\* Max finds the greatest of some numbers up to n.
LEMMA MaxGreatest ==
    ASSUME NEW n \in Nat, NEW T \in SUBSET (0..n), T # {}
    PROVE  Max(T) \in T /\ \A y \in T : Max(T) >= y
  <1>. DEFINE U == {i \in Nat : \E x \in T : i + x = n}
  <1>1. U # {}
    <2>1. PICK x : x \in T
      OBVIOUS
    <2>2. x \in 0..n
      BY <2>1
    <2>3. n - x \in Nat /\ (n - x) + x = n
      BY <2>2
    <2>4. n - x \in U
      BY <2>1, <2>3
    <2>5. QED
      BY <2>4
  <1>2. PICK i \in U : \A j \in U : i <= j
    <2>1. U \in SUBSET Nat
      OBVIOUS
    <2>. HIDE DEF U
    <2>2. QED
      BY <1>1, <2>1, LeastNumber
  <1>3. PICK x \in T : i + x = n
    BY <1>2
  <1>4. ASSUME NEW y \in T PROVE x >= y
    <2>1. y \in 0..n /\ x \in 0..n /\ i \in Nat
      BY <1>2
    <2>2. n - y \in Nat /\ (n - y) + y = n
      BY <2>1
    <2>3. n - y \in U
      BY <2>2
    <2>4. i <= n - y
      BY <1>2, <2>3
    <2>5. QED
      BY <1>3, <2>1, <2>4
  <1>5. \E z \in T : \A y \in T : z >= y
    BY <1>4
  <1>6. QED
    BY <1>5 DEF Max

-----------------------------------------------------------------------------
(* The names of a directory in their order.                                *)

Siblings(S) ==
    /\ IsFiniteSet(S) /\ S \subseteq Seq(Name)
    /\ \E d \in Seq(Name) : \A p \in S : p # << >> /\ Front(p) = d

\* Of two names in a directory, one comes first.
LEMMA SiblingOrder ==
    ASSUME NEW S, Siblings(S)
    PROVE  /\ \A p \in S : ~Before(p, p)
           /\ \A p, q \in S : p # q => Before(p, q) \/ Before(q, p)
           /\ \A p, q, r \in S : Before(p, q) /\ Before(q, r) => Before(p, r)
  <1>. DEFINE rank(p) == Rank[Last(p)]
  <1>1. PICK d \in Seq(Name) : \A p \in S : p # << >> /\ Front(p) = d
    BY DEF Siblings
  <1>2. ASSUME NEW p \in S
        PROVE  /\ Len(p) = Len(d) + 1 /\ p \in Seq(Name) /\ Len(d) \in Nat
               /\ \A i \in 1..Len(d) : p[i] = d[i]
               /\ p[Len(d) + 1] = Last(p) /\ Last(p) \in Name
               /\ p = Append(d, Last(p))
    <2>1. p \in Seq(Name) /\ p # << >> /\ Front(p) = d
      BY <1>1 DEF Siblings
    <2>2. /\ Len(d) = Len(p) - 1 /\ Len(p) > 0
          /\ \A i \in 1..Len(p)-1 : d[i] = p[i]
      BY <2>1, FrontProperties
    <2>3. Append(Front(p), Last(p)) = p
      BY <2>1, FrontLast
    <2>4. Len(p) \in Nat /\ Len(d) \in Nat /\ Last(p) = p[Len(p)] /\ p[Len(p)] \in Name
      BY <2>1, <2>2, LenProperties, ElementOfSeq DEF Last
    <2>5. Len(p) = Len(d) + 1 /\ Len(p)-1 = Len(d)
      BY <2>2, <2>4
    <2>6. QED
      BY <2>1, <2>2, <2>3, <2>4, <2>5
  <1>3. ASSUME NEW p \in S, NEW q \in S
        PROVE  Before(p, q) <=> rank(p) < rank(q)
    <2>1. ~Below(p, q)
      BY <1>2 DEF Below
    <2>2. PICK m \in Nat : m = Len(d)
      BY <1>2
    <2>3. \A i \in 1..m : p[i] = q[i] /\ Rank[p[i]] = Rank[q[i]]
      BY <1>2, <2>2
    <2>4. \A i \in 1..m : p[i] \in Name
      BY <1>2, <2>2, ElementOfSeq
    <2>5. \A x \in Name : ~(Rank[x] < Rank[x])
      BY PackAssumption
    <2>6. \A i \in 1..m : ~(Rank[p[i]] < Rank[q[i]])
      BY <2>3, <2>4, <2>5
    <2>7. /\ p[m + 1] = Last(p) /\ q[m + 1] = Last(q)
          /\ Len(p) = m + 1 /\ Len(q) = m + 1
      BY <1>2, <2>2
    <2>8. ASSUME Before(p, q) PROVE rank(p) < rank(q)
      <3>1. PICK i \in 1..Len(p) : Rank[p[i]] < Rank[q[i]]
        BY <2>1, <2>8 DEF Before
      <3>2. i = m + 1
        BY <2>6, <2>7, <3>1
      <3>3. QED
        BY <2>7, <3>1, <3>2
    <2>9. ASSUME rank(p) < rank(q) PROVE Before(p, q)
      <3>1. m + 1 \in 1..Len(p) /\ m + 1 <= Len(q) /\ (m + 1) - 1 = m
        BY <2>7
      <3>2. \A j \in 1..(m + 1)-1 : p[j] = q[j]
        BY <2>3, <3>1
      <3>3. Rank[p[m + 1]] < Rank[q[m + 1]]
        BY <2>7, <2>9
      <3>4. QED
        BY <3>1, <3>2, <3>3 DEF Before
    <2>10. QED
      BY <2>8, <2>9
  <1>4. \A p \in S : rank(p) \in Nat
    BY <1>2, PackAssumption
  <1>5. \A p, q \in S : rank(p) = rank(q) => p = q
    <2>1. ASSUME NEW p \in S, NEW q \in S, rank(p) = rank(q) PROVE p = q
      <3>1. Last(p) = Last(q)
        BY <1>2, <2>1, PackAssumption
      <3>2. QED
        BY <1>2, <3>1
    <2>2. QED
      BY <2>1
  <1>. HIDE DEF rank
  <1>6. QED
    BY <1>3, <1>4, <1>5

\* The order is a sequence of all of them.
LEMMA SortedAll ==
    ASSUME NEW S, Siblings(S)
    PROVE  /\ Sorted(S) \in Seq(S)
           /\ \A p \in S : \E i \in 1..Len(Sorted(S)) : Sorted(S)[i] = p
  <1>. DEFINE earlier(p) == {q \in S : Before(q, p)}
              place(p) == Cardinality(earlier(p)) + 1
              n == Cardinality(S)
              f == [p \in S |-> place(p)]
  <1>1. IsFiniteSet(S) /\ n \in Nat
    BY FS_CardinalityType DEF Siblings
  <1>2. ASSUME NEW p \in S
        PROVE  /\ IsFiniteSet(earlier(p)) /\ Cardinality(earlier(p)) \in Nat
               /\ Cardinality(earlier(p)) <= n - 1
    <2>1. earlier(p) \in SUBSET (S \ {p})
      BY SiblingOrder
    <2>2. IsFiniteSet(S \ {p}) /\ Cardinality(S \ {p}) = n - 1
      BY <1>1, FS_RemoveElement
    <2>3. IsFiniteSet(earlier(p)) /\ Cardinality(earlier(p)) <= n - 1
      BY <2>1, <2>2, FS_Subset
    <2>4. QED
      BY <2>3, FS_CardinalityType
  <1>3. ASSUME NEW p \in S PROVE place(p) \in 1..n
    <2>. HIDE DEF earlier, n
    <2>1. PICK k : k = Cardinality(earlier(p))
      OBVIOUS
    <2>2. k \in Nat /\ k <= n - 1
      BY <1>2, <2>1
    <2>3. k + 1 \in 1..n
      BY <1>1, <2>2
    <2>4. QED
      BY <2>1, <2>3
  <1>4. ASSUME NEW p \in S, NEW q \in S, Before(p, q)
        PROVE  place(p) # place(q)
    <2>1. earlier(p) \in SUBSET earlier(q) /\ earlier(p) # earlier(q)
      BY <1>4, SiblingOrder
    <2>2. Cardinality(earlier(p)) # Cardinality(earlier(q))
      BY <1>2, <2>1, FS_Subset
    <2>. HIDE DEF earlier
    <2>3. PICK k, l : k = Cardinality(earlier(p)) /\ l = Cardinality(earlier(q))
      OBVIOUS
    <2>4. k \in Nat /\ l \in Nat /\ k # l
      BY <1>2, <2>2, <2>3
    <2>5. k + 1 # l + 1
      BY <2>4
    <2>6. QED
      BY <2>3, <2>5
  <1>5. \A p, q \in S : place(p) = place(q) => p = q
    BY <1>4, SiblingOrder
  <1>6. \A i \in 1..n : \E p \in S : place(p) = i
    <2>. HIDE DEF place
    <2>1. f \in [S -> 1..n] /\ \A p \in S : f[p] = place(p)
      BY <1>3
    <2>2. f \in Injection(S, 1..n)
      BY <1>5, <2>1 DEF Injection, IsInjective
    <2>3. IsFiniteSet(1..n) /\ Cardinality(1..n) = n
      <3>1. /\ IsFiniteSet(1..n) /\ Cardinality(1..n) = IF 1 > n THEN 0 ELSE n - 1 + 1
        BY <1>1, FS_Interval
      <3>2. QED
        BY <1>1, <3>1
    <2>4. f \in Surjection(S, 1..n)
      BY <2>2, <2>3, FS_Injection
    <2>5. QED
      BY <2>1, <2>4 DEF Surjection
  <1>7. Sorted(S) = [i \in 1..n |-> CHOOSE p \in S : place(p) = i]
    BY DEF Sorted
  <1>. HIDE DEF place, n
  <1>8. \A i \in 1..n : Sorted(S)[i] \in S /\ place(Sorted(S)[i]) = i
    BY <1>6, <1>7
  <1>9. Sorted(S) \in [1..n -> S]
    BY <1>6, <1>7
  <1>10. Sorted(S) \in Seq(S) /\ Len(Sorted(S)) = n
    BY <1>1, <1>9, SeqDef, LenProperties
  <1>11. ASSUME NEW p \in S
         PROVE  place(p) \in 1..Len(Sorted(S)) /\ Sorted(S)[place(p)] = p
    BY <1>3, <1>5, <1>8, <1>10
  <1>12. QED
    BY <1>10, <1>11

-----------------------------------------------------------------------------
(* Which patterns match a path.                                            *)

Hit(i, p) == Fits(Patterns[i], p) \/ FitsAbove(Patterns[i], p)
AllHits(p) == [i \in 1..Len(Patterns) |-> Hit(i, p)]

\* A pattern that matches a path matches one of its beginnings.
LEMMA HitSomewhere ==
    ASSUME NEW p \in Seq(Name), p # << >>, NEW i
    PROVE  Hit(i, p) <=> \E k \in 1..Len(p) : Fits(Patterns[i], SubSeq(p, 1, k))
  <1>1. Len(p) \in Nat /\ Len(p) > 0 /\ SubSeq(p, 1, Len(p)) = p
    BY LenProperties, EmptySeq
  <1>2. PICK n \in Nat : n = Len(p)
    BY <1>1
  <1>. n > 0 /\ n \in 1..n
    BY <1>1, <1>2
  <1>3. ASSUME NEW k \in 1..n, k # n PROVE k \in 1..n-1
    BY <1>2, <1>3
  <1>4. \A k \in 1..n-1 : k \in 1..n
    BY <1>2
  <1>5. QED
    BY <1>1, <1>2, <1>3, <1>4 DEF Hit, FitsAbove

\* What matches a path matches everything below it, and a longer beginning of
\* what is below it decides the others.
LEMMA HitBelow ==
    ASSUME NEW p \in Seq(Name), NEW q \in Seq(Name), p # << >>, Below(p, q), NEW i
    PROVE  /\ Hit(i, p) => Hit(i, q)
           /\ Hit(i, q) =>
                 \/ Hit(i, p)
                 \/ \E k \in Len(p)+1..Len(q) : Fits(Patterns[i], SubSeq(q, 1, k))
  <1>1. /\ Len(p) \in Nat /\ Len(q) \in Nat /\ Len(p) < Len(q) /\ Len(p) > 0
        /\ \A j \in 1..Len(p) : p[j] = q[j]
    BY LenProperties, EmptySeq DEF Below
  <1>2. q # << >>
    BY <1>1, EmptySeq
  <1>3. ASSUME NEW k \in 1..Len(p)
        PROVE  SubSeq(p, 1, k) = SubSeq(q, 1, k)
    BY <1>1, <1>3
  <1>4. \A k \in 1..Len(p) : k \in 1..Len(q)
    BY <1>1
  <1>5. \A k \in 1..Len(q) : k \in 1..Len(p) \/ k \in Len(p)+1..Len(q)
    BY <1>1
  <1>6. QED
    BY <1>2, <1>3, <1>4, <1>5, HitSomewhere

\* The results kept for the parent save looking at the paths above.
LEMMA ParentResults ==
    ASSUME NEW p \in Seq(Name), p # << >>, Front(p) # << >>
    PROVE  MatchesUsingParentResults(p, AllHits(Front(p))) = AllHits(p)
  <1>1. /\ Front(p) \in Seq(Name) /\ Len(Front(p)) = Len(p) - 1 /\ Len(p) > 0
        /\ Len(p) \in Nat /\ Below(Front(p), p)
    BY FrontAbove, LenProperties
  <1>2. ASSUME NEW i \in 1..Len(Patterns)
        PROVE  FitsAbove(Patterns[i], p) <=> Hit(i, Front(p))
    <2>1. \A k \in 1..Len(p)-1 : SubSeq(Front(p), 1, k) = SubSeq(p, 1, k)
      BY PrefixOfFront
    <2>2. Hit(i, Front(p)) <=> \E k \in 1..Len(p)-1 : Fits(Patterns[i], SubSeq(Front(p), 1, k))
      BY <1>1, HitSomewhere
    <2>3. QED
      BY <2>1, <2>2 DEF FitsAbove
  <1>3. \A i \in 1..Len(Patterns) : AllHits(Front(p))[i] = Hit(i, Front(p))
    BY DEF AllHits
  <1>4. ASSUME NEW i \in 1..Len(Patterns) PROVE AllHits(Front(p)) # << >>
    <2>1. i \in DOMAIN AllHits(Front(p))
      BY DEF AllHits
    <2>2. DOMAIN << >> = {}
      OBVIOUS
    <2>3. QED
      BY <2>1, <2>2
  <1>5. ASSUME NEW i \in 1..Len(Patterns)
        PROVE  (Fits(Patterns[i], p) \/ (IF AllHits(Front(p)) = << >>
                                         THEN FitsAbove(Patterns[i], p)
                                         ELSE AllHits(Front(p))[i])) = Hit(i, p)
    BY <1>2, <1>3, <1>4 DEF Hit
  <1>6. QED
    BY <1>5 DEF MatchesUsingParentResults, AllHits

\* Without them the paths above are looked at.
LEMMA NoParentResults ==
    ASSUME NEW p
    PROVE  MatchesUsingParentResults(p, << >>) = AllHits(p)
  BY DEF MatchesUsingParentResults, AllHits, Hit

\* The results for a path say whether it is excluded.
LEMMA MatchedAll ==
    ASSUME options \in Cases, NEW p
    PROVE  Matched(AllHits(p)) <=> MatchesOrParentMatches(p)
  <1>1. Len(Patterns) \in Nat
    BY CopyAssumption, LenProperties DEF Patterns
  <1>2. PICK n \in Nat : n = Len(Patterns)
    BY <1>1
  <1>3. Len(AllHits(p)) = n
    BY <1>2 DEF AllHits
  <1>4. \A i \in 1..n : AllHits(p)[i] = Hit(i, p)
    BY <1>2 DEF AllHits
  <1>5. \A i \in 1..n : \A j \in i+1..n : j \in 1..n
    BY <1>2
  <1>6. QED
    BY <1>2, <1>3, <1>4, <1>5 DEF Matched, MatchesOrParentMatches, Hit

\* An excluded directory that no exclusion lies below holds nothing that is asked for.
LEMMA PrunedIsExcluded ==
    ASSUME options \in Cases, ExclusionsArePlain, NEW p \in Seq(Name), NEW q \in Seq(Name),
           p # << >>, Below(p, q), Matched(AllHits(p)), ~MayReinclude(p)
    PROVE  Matched(AllHits(q))
  <1>1. Len(Patterns) \in Nat
    BY CopyAssumption, LenProperties DEF Patterns
  <1>2. PICK n \in Nat : n = Len(Patterns)
    BY <1>1
  <1>3. /\ \A x : Len(AllHits(x)) = n
        /\ \A x : \A i \in 1..n : AllHits(x)[i] = Hit(i, x)
    BY <1>2 DEF AllHits
  <1>4. PICK i \in 1..n : /\ Hit(i, p) /\ ~Patterns[i].exclusion
                          /\ \A j \in i+1..n : ~Hit(j, p)
    <2>1. PICK i \in 1..n : /\ AllHits(p)[i] /\ ~Patterns[i].exclusion
                            /\ \A j \in i+1..n : ~AllHits(p)[j]
      BY <1>3 DEF Matched
    <2>2. \A j \in i+1..n : j \in 1..n
      OBVIOUS
    <2>3. QED
      BY <1>3, <2>1, <2>2
  <1>. DEFINE T == {j \in 1..n : Hit(j, q)}
  <1>5. i \in T
    BY <1>4, HitBelow
  <1>6. T \in SUBSET (0..n) /\ T # {}
    BY <1>5
  <1>7. PICK m : m = Max(T)
    OBVIOUS
  <1>8. m \in T /\ \A j \in T : m >= j
    <2>. HIDE DEF T
    <2>1. QED
      BY <1>6, <1>7, MaxGreatest
  <1>9. m \in 1..n /\ Hit(m, q) /\ m >= i
    BY <1>5, <1>8
  <1>10. \A j \in m+1..n : ~Hit(j, q)
    <2>1. \A j \in m+1..n : j \in 1..n /\ ~(m >= j)
      BY <1>9
    <2>2. QED
      BY <1>8, <2>1
  <1>11. ~Patterns[m].exclusion
    <2>1. SUFFICES ASSUME Patterns[m].exclusion PROVE FALSE
      OBVIOUS
    <2>2. m # i /\ m \in i+1..n
      BY <1>4, <1>9, <2>1
    <2>3. ~Hit(m, p)
      BY <1>4, <2>2
    <2>4. PICK k \in Len(p)+1..Len(q) : Fits(Patterns[m], SubSeq(q, 1, k))
      BY <1>9, <2>3, HitBelow
    <2>5. PICK path : path = Patterns[m].path
      OBVIOUS
    <2>6. \A j \in 1..Len(path) : path[j] # "*"
      BY <1>2, <1>9, <2>1, <2>5 DEF ExclusionsArePlain
    <2>7. /\ Len(p) \in Nat /\ Len(q) \in Nat /\ k \in 0..Len(q) /\ Len(p) < k
          /\ \A j \in 1..Len(p) : p[j] = q[j]
      BY LenProperties DEF Below
    <2>8. /\ Len(SubSeq(q, 1, k)) = k
          /\ \A j \in 1..k : SubSeq(q, 1, k)[j] = q[j]
      BY <2>7, FirstParts DEF Under
    <2>9. Len(path) = k /\ \A j \in 1..k : path[j] = q[j]
      BY <2>4, <2>5, <2>6, <2>8 DEF Fits
    <2>10. Under(p, path)
      BY <2>7, <2>9 DEF Under
    <2>11. QED
      BY <1>2, <1>9, <2>1, <2>5, <2>10 DEF MayReinclude
  <1>12. \A j \in m+1..n : j \in 1..n
    BY <1>9
  <1>13. QED
    BY <1>3, <1>9, <1>10, <1>11, <1>12 DEF Matched

-----------------------------------------------------------------------------
(* The source, against what it was when the copy began.                    *)

Touched(q) == \E p \in touched : Under(p, q)

\* Nothing appears, and what no change has come near is what it was.
SourceKept ==
    /\ options \in Cases
    /\ touched \subseteq Seq(Name)
    /\ DOMAIN src \subseteq DOMAIN options.src
    /\ Disturbed(options.src, src)
    /\ \A q \in DOMAIN options.src : Touched(q) \/ (q \in DOMAIN src /\ SameNode(src[q], options.src[q]))

\* Nodes are the same through a third.
LEMMA SameTransitive ==
    ASSUME NEW x, NEW y, NEW z, SameNode(x, y), SameNode(y, z)
    PROVE  SameNode(x, z)
  BY DEF SameNode

\* One disturbance after another is one.
LEMMA DisturbedTwice ==
    ASSUME NEW s, NEW t, NEW u, Disturbed(s, t), Disturbed(t, u)
    PROVE  Disturbed(s, u)
  BY DEF Disturbed, SameNode

\* A disturbance touches what it changes.
LEMMA TouchesWhatChanges ==
    ASSUME IsTree(src), NEW p \in DOMAIN src, Delete(p) \/ Rewrite(p) \/ Replace(p)
    PROVE  /\ DOMAIN src' \subseteq DOMAIN src /\ UNCHANGED options
           /\ \E new \in SUBSET DOMAIN src :
                 /\ touched' = touched \union new
                 /\ \A q \in DOMAIN src :
                       \/ \E t \in new : Under(t, q)
                       \/ q \in DOMAIN src' /\ SameNode(src'[q], src[q])
  <1>1. Clock \in Nat /\ p \in Seq(Name)
    BY ExtractAssumption, TreePaths
  <1>2. UNCHANGED options
    BY DEF Delete, Rewrite, Replace, Moving, writer
  <1>3. CASE Delete(p)
    <2>1. src' = RemoveTree(src, p, Clock) /\ touched' = touched \union {p}
      BY <1>3 DEF Delete, Moving
    <2>2. /\ DOMAIN src' = {q \in DOMAIN src : ~Under(p, q)}
          /\ \A q \in DOMAIN src' : src'[q] = Touch(src, p, Clock)[q]
      BY <2>1 DEF RemoveTree
    <2>3. \A q \in DOMAIN src : Under(p, q) \/ (q \in DOMAIN src' /\ SameNode(src'[q], src[q]))
      BY <1>1, <2>2, TouchSame
    <2>4. {p} \in SUBSET DOMAIN src
      OBVIOUS
    <2>5. QED
      BY <1>2, <2>1, <2>2, <2>3, <2>4
  <1>4. CASE Rewrite(p)
    <2>1. PICK names : names = {q \in DOMAIN src : src[q].ino = src[p].ino}
      OBVIOUS
    <2>2. /\ src' = [q \in DOMAIN src |-> IF q \in names THEN [src[q] EXCEPT !.time = Clock]
                                          ELSE src[q]]
          /\ touched' = touched \union names
      BY <1>4, <2>1 DEF Rewrite, Moving
    <2>3. \A q \in DOMAIN src : q \in DOMAIN src' /\ SameNode(src'[q], src[q])
      BY <1>1, <2>2, TreePaths, NewTime
    <2>4. names \in SUBSET DOMAIN src
      BY <2>1
    <2>5. QED
      BY <1>2, <2>2, <2>3, <2>4
  <1>5. CASE Replace(p)
    <2>1. touched' = touched \union {p}
      BY <1>5 DEF Replace, Moving
    <2>2. /\ DOMAIN src' = DOMAIN src \union {p}
          /\ \A q \in DOMAIN src : q # p => src'[q] = Touch(src, p, Clock)[q]
      BY <1>5 DEF Replace, PutNode
    <2>3. Under(p, p)
      BY <1>1, BelowIsLonger
    <2>4. \A q \in DOMAIN src : Under(p, q) \/ (q \in DOMAIN src' /\ SameNode(src'[q], src[q]))
      BY <1>1, <2>2, <2>3, TouchSame
    <2>5. {p} \in SUBSET DOMAIN src
      OBVIOUS
    <2>6. QED
      BY <1>2, <2>1, <2>2, <2>4, <2>5
  <1>6. QED
    BY <1>3, <1>4, <1>5

\* Whatever is done to the source, the invariant holds after it.
LEMMA KeptDisturbed ==
    ASSUME SourceInv, SourceKept, NEW p \in DOMAIN src, Delete(p) \/ Rewrite(p) \/ Replace(p)
    PROVE  SourceKept'
  <1>1. IsTree(src) /\ Disturbed(src, src')
    BY DisturbSource DEF SourceInv
  <1>2. DOMAIN src' \subseteq DOMAIN src /\ UNCHANGED options
    BY <1>1, TouchesWhatChanges
  <1>3. PICK new \in SUBSET DOMAIN src :
           /\ touched' = touched \union new
           /\ \A q \in DOMAIN src :
                 \/ \E t \in new : Under(t, q)
                 \/ q \in DOMAIN src' /\ SameNode(src'[q], src[q])
    BY <1>1, TouchesWhatChanges
  <1>4. touched' \subseteq Seq(Name)
    BY <1>1, <1>3, TreePaths DEF SourceKept
  <1>5. Disturbed(options.src, src')
    BY <1>1, DisturbedTwice DEF SourceKept
  <1>6. ASSUME NEW q \in DOMAIN options.src, ~(\E t \in touched' : Under(t, q))
        PROVE  q \in DOMAIN src' /\ SameNode(src'[q], options.src[q])
    <2>1. q \in DOMAIN src /\ SameNode(src[q], options.src[q])
      BY <1>3, <1>6 DEF SourceKept, Touched
    <2>2. q \in DOMAIN src' /\ SameNode(src'[q], src[q])
      BY <1>3, <1>6, <2>1
    <2>3. QED
      BY <2>1, <2>2, SameTransitive
  <1>7. QED
    BY <1>2, <1>4, <1>5, <1>6 DEF SourceKept, Touched

\* Every step keeps the source's account.
LEMMA KeptStep ==
    ASSUME SourceInv, AtInv, SourceKept, [Next]_vars
    PROVE  SourceKept'
  <1>. USE DEF writer, walk, entry
  <1>1. ASSUME UNCHANGED <<src, options, touched>> PROVE SourceKept'
    BY <1>1 DEF SourceKept, Touched
  <1>2. CASE Do /\ UNCHANGED <<goroutine, copy, faults, touched>>
    BY <1>1, <1>2, DoSource
  <1>3. CASE StatFile \/ OpenFile \/ SendDone \/ CopyFile \/ CopyDone
    BY <1>1, <1>3 DEF StatFile, OpenFile, SendDone, CopyFile, CopyDone
  <1>4. CASE Reader
    BY <1>1, <1>4 DEF Reader, ReadHeader, Extracts, ReadContents, ReadEnd, StreamEnds,
                      EndTarUntar, CloseWithError, EndCopyFile
  <1>5. CASE UntarFails
    BY <1>1, <1>5 DEF UntarFails
  <1>6. ASSUME NEW p \in DOMAIN src, Delete(p) \/ Rewrite(p) \/ Replace(p)
        PROVE  SourceKept'
    BY <1>6, KeptDisturbed
  <1>7. CASE Ended \/ UNCHANGED vars
    BY <1>1, <1>7 DEF Ended, vars
  <1>8. QED
    BY <1>2, <1>3, <1>4, <1>5, <1>6, <1>7 DEF Next, Writer, Disturb

\* It holds at the start.
LEMMA KeptInit ==
    ASSUME Init
    PROVE  SourceKept
  <1>1. options \in Cases /\ src = options.src /\ touched = {}
    BY DEF Init
  <1>2. IsTree(options.src)
    BY <1>1, CopyAssumption
  <1>3. QED
    BY <1>1, <1>2 DEF SourceKept, Disturbed, SameNode

-----------------------------------------------------------------------------
(* What is there now was there, with the directories above it.             *)

\* A path that is there lies in directories, then as now, and the source has
\* finitely many paths.
LEMMA ThereNow ==
    ASSUME SourceKept, SourceInv
    PROVE  /\ IsTree(src) /\ IsTree(options.src) /\ IsFiniteSet(DOMAIN src)
           /\ \A q \in DOMAIN src : IsDir(options.src, q) => IsDir(src, q)
           /\ \A p \in Seq(Name), q \in DOMAIN src : Below(p, q) => IsDir(src, p)
           /\ \A p \in Seq(Name), q \in DOMAIN options.src : Below(p, q) => IsDir(options.src, p)
  <1>1. IsTree(src) /\ IsTree(options.src) /\ IsFiniteSet(DOMAIN options.src)
    BY CopyAssumption DEF SourceInv, SourceKept
  <1>2. IsFiniteSet(DOMAIN src)
    BY <1>1, FS_Subset DEF SourceKept
  <1>3. \A q \in DOMAIN src : IsDir(options.src, q) => IsDir(src, q)
    BY DEF SourceKept, Disturbed, IsDir, Exists, SameNode
  <1>4. ASSUME NEW t, IsTree(t), NEW p \in Seq(Name), NEW q \in DOMAIN t, Below(p, q)
        PROVE  IsDir(t, p)
    <2>1. q \in Seq(Name)
      BY <1>4, TreePaths
    <2>2. Under(p, q) /\ p # q
      BY <1>4, <2>1, BelowIsLonger
    <2>3. QED
      BY <1>4, <2>2, PrefixThere
  <1>5. QED
    BY <1>1, <1>2, <1>3, <1>4

-----------------------------------------------------------------------------
(* The parents remembered and what there is to visit.                      *)

ItemType  == [path : Seq(Name), dir : BOOLEAN, read : BOOLEAN]
StackType == [dir : Seq(Name), info : [1..Len(Patterns) -> BOOLEAN]]

InStack(stack, d) == \E k \in 1..Len(stack) : stack[k].dir = d

\* Each parent lies below the one before and below the include, with its results.
Stacked(inc, stack) ==
    /\ stack \in Seq(StackType)
    /\ \A i \in 1..Len(stack) : Below(inc, stack[i].dir) /\ stack[i].info = AllHits(stack[i].dir)
    /\ \A i, j \in 1..Len(stack) : i < j => Below(stack[i].dir, stack[j].dir)

\* The directory of an item is remembered, unless it is the include or above it.
Based(inc, stack, item) ==
    IF item.read THEN item.path = inc \/ InStack(stack, item.path)
    ELSE Len(item.path) <= Len(inc) + 1 \/ InStack(stack, Front(item.path))

\* The items lie below the include, in the order of a walk; only the first can be
\* a directory to read.
Queued(inc, stack, items) ==
    /\ items \in Seq(ItemType)
    /\ \A i \in 1..Len(items) : /\ Under(inc, items[i].path)
                                /\ items[i].read => i = 1 /\ items[i].dir
                                /\ Based(inc, stack, items[i])
    /\ \A i, j \in 1..Len(items) :
          i < j => Below(inc, items[j].path) /\ Below(Front(items[j].path), items[i].path)

\* Popped keeps the parents that lie above the path, and all of those.
PoppedAt(stack, rel, m) ==
    /\ m \in 0..Len(stack) /\ Popped(stack, rel) = SubSeq(stack, 1, m)
    /\ Len(Popped(stack, rel)) = m
    /\ \A i \in 1..m : Popped(stack, rel)[i] = stack[i] /\ Below(stack[i].dir, rel)
    /\ \A i \in 1..Len(stack) : Below(stack[i].dir, rel) => i <= m

\* There is such a place in every stack of parents.
LEMMA PoppedFacts ==
    ASSUME NEW inc, NEW stack, Stacked(inc, stack), NEW rel \in Seq(Name)
    PROVE  \E m : PoppedAt(stack, rel, m)
  <1>. DEFINE above == {i \in 1..Len(stack) : Below(stack[i].dir, rel)}
  <1>1. /\ stack \in Seq(StackType) /\ Len(stack) \in Nat
        /\ \A i \in 1..Len(stack) : stack[i].dir \in Seq(Name)
    <2>1. stack \in Seq(StackType) /\ Len(stack) \in Nat
      BY LenProperties DEF Stacked
    <2>2. \A i \in 1..Len(stack) : stack[i] \in StackType
      BY <2>1, ElementOfSeq
    <2>3. QED
      BY <2>1, <2>2 DEF StackType
  <1>2. PICK n, m : n \in Nat /\ n = Len(stack) /\ m = Max(above \union {0})
    BY <1>1
  <1>3. m \in above \union {0} /\ \A i \in above \union {0} : m >= i
    <2>1. above \union {0} \in SUBSET (0..n)
      BY <1>2
    <2>2. QED
      BY <1>2, <2>1, MaxGreatest
  <1>4. m \in 0..n /\ Popped(stack, rel) = SubSeq(stack, 1, m)
    BY <1>2, <1>3 DEF Popped
  <1>5. /\ Len(SubSeq(stack, 1, m)) = m
        /\ \A i \in 1..m : SubSeq(stack, 1, m)[i] = stack[i]
    <2>1. m \in 0..Len(stack)
      BY <1>2, <1>4
    <2>2. Len(SubSeq(stack, 1, m)) = m
      BY <1>1, <2>1, FirstParts
    <2>3. \A i \in 1..m : SubSeq(stack, 1, m)[i] = stack[i]
      BY <1>1, <2>1, <2>2, SubSeqProperties
    <2>4. QED
      BY <2>2, <2>3
  <1>6. ASSUME NEW i \in 1..m PROVE Below(stack[i].dir, rel)
    <2>1. m \in 1..n /\ Below(stack[m].dir, rel) /\ i \in 1..n
      BY <1>2, <1>3, <1>4
    <2>2. CASE i = m
      BY <2>1, <2>2
    <2>3. CASE i # m
      <3>1. i < m
        BY <2>1, <2>3
      <3>2. Below(stack[i].dir, stack[m].dir)
        BY <1>2, <2>1, <3>1 DEF Stacked
      <3>3. QED
        BY <1>1, <1>2, <2>1, <3>2, BelowIsLonger, UnderTransitive
    <2>4. QED
      BY <2>2, <2>3
  <1>7. \A i \in 1..Len(stack) : Below(stack[i].dir, rel) => i <= m
    BY <1>2, <1>3, <1>4
  <1>8. QED
    BY <1>2, <1>4, <1>5, <1>6, <1>7 DEF PoppedAt

\* What is left after popping is such a stack, and keeps every parent above the path.
LEMMA PoppedStack ==
    ASSUME NEW inc, NEW stack, Stacked(inc, stack), NEW rel \in Seq(Name),
           NEW new, new = Popped(stack, rel)
    PROVE  /\ Stacked(inc, new)
           /\ \A i \in 1..Len(new) : Below(new[i].dir, rel)
           /\ \A d : InStack(stack, d) /\ Below(d, rel) => InStack(new, d)
  <1>1. PICK m : PoppedAt(stack, rel, m)
    BY PoppedFacts
  <1>2. stack \in Seq(StackType) /\ Len(stack) \in Nat
    BY LenProperties DEF Stacked
  <1>3. /\ m \in 0..Len(stack) /\ m \in Nat /\ new = SubSeq(stack, 1, m) /\ Len(new) = m
        /\ \A i \in 1..m : new[i] = stack[i] /\ Below(stack[i].dir, rel) /\ i \in 1..Len(stack)
        /\ \A i \in 1..Len(stack) : Below(stack[i].dir, rel) => i \in 1..m
    BY <1>1, <1>2 DEF PoppedAt
  <1>4. new \in Seq(StackType)
    BY <1>2, <1>3, FirstParts
  <1>5. Stacked(inc, new)
    BY <1>3, <1>4 DEF Stacked
  <1>6. ASSUME NEW d, InStack(stack, d), Below(d, rel)
        PROVE  InStack(new, d)
    BY <1>3, <1>6 DEF InStack
  <1>7. QED
    BY <1>3, <1>5, <1>6

\* A path behind all parents can be one itself.
LEMMA PushedStack ==
    ASSUME NEW inc \in Seq(Name), NEW stack, Stacked(inc, stack), NEW rel \in Seq(Name),
           options \in Cases, Below(inc, rel), \A i \in 1..Len(stack) : Below(stack[i].dir, rel),
           NEW new, new = stack \o <<[dir |-> rel, info |-> AllHits(rel)]>>
    PROVE  /\ Stacked(inc, new) /\ InStack(new, rel)
           /\ \A d : InStack(stack, d) => InStack(new, d)
  <1>1. PICK top : top = [dir |-> rel, info |-> AllHits(rel)]
    OBVIOUS
  <1>2. top \in StackType /\ top.dir = rel /\ top.info = AllHits(rel)
    <2>1. AllHits(rel) \in [1..Len(Patterns) -> BOOLEAN]
      BY DEF AllHits, Hit, Fits, FitsAbove
    <2>2. QED
      BY <1>1, <2>1 DEF StackType
  <1>3. new = Append(stack, top)
    BY <1>1, <1>2, AppendIsConcat DEF Stacked
  <1>4. PICK n \in Nat : n = Len(stack)
    BY LenProperties DEF Stacked
  <1>5. /\ new \in Seq(StackType) /\ Len(new) = n + 1 /\ new[n + 1] = top
        /\ \A i \in 1..n : new[i] = stack[i]
    BY <1>2, <1>3, <1>4, AppendProperties DEF Stacked
  <1>6. \A i \in 1..n+1 : i = n + 1 \/ i \in 1..n
    OBVIOUS
  <1>7. \A i \in 1..n : i \in 1..n+1 /\ i # n + 1
    OBVIOUS
  <1>8. \A i \in 1..n+1 : Below(inc, new[i].dir) /\ new[i].info = AllHits(new[i].dir)
    BY <1>2, <1>4, <1>5, <1>6 DEF Stacked
  <1>9. ASSUME NEW i \in 1..n+1, NEW j \in 1..n+1, i < j
        PROVE  Below(new[i].dir, new[j].dir)
    <2>1. i \in 1..n
      BY <1>9
    <2>2. CASE j = n + 1
      BY <1>2, <1>4, <1>5, <2>1, <2>2
    <2>3. CASE j \in 1..n
      BY <1>4, <1>5, <1>9, <2>1, <2>3 DEF Stacked
    <2>4. QED
      BY <1>6, <2>2, <2>3
  <1>10. Stacked(inc, new)
    BY <1>5, <1>8, <1>9 DEF Stacked
  <1>11. n + 1 \in 1..n+1
    BY <1>4
  <1>12. QED
    BY <1>2, <1>4, <1>5, <1>7, <1>10, <1>11 DEF InStack

\* The results computed for a path are those of every pattern.
LEMMA InfoIsRight ==
    ASSUME NEW inc \in Seq(Name), Stacked(inc, parents), NEW rel \in Seq(Name), Below(inc, rel),
           Len(rel) <= Len(inc) + 1 \/ InStack(parents, Front(rel))
    PROVE  InfoFor(rel) = AllHits(rel)
  <1>1. PICK new : new = Popped(parents, rel)
    OBVIOUS
  <1>2. /\ Stacked(inc, new)
        /\ \A i \in 1..Len(new) : Below(new[i].dir, rel)
        /\ \A d : InStack(parents, d) /\ Below(d, rel) => InStack(new, d)
    BY <1>1, PoppedStack
  <1>3. /\ new \in Seq(StackType) /\ Len(new) \in Nat
        /\ \A i \in 1..Len(new) : new[i].dir \in Seq(Name)
    <2>1. new \in Seq(StackType) /\ Len(new) \in Nat
      BY <1>2, LenProperties DEF Stacked
    <2>2. \A i \in 1..Len(new) : new[i] \in StackType
      BY <2>1, ElementOfSeq
    <2>3. QED
      BY <2>1, <2>2 DEF StackType
  <1>4. /\ Len(inc) \in Nat /\ Len(rel) \in Nat /\ Len(inc) < Len(rel) /\ rel # << >>
    <2>1. Len(inc) \in Nat /\ Len(rel) \in Nat /\ Len(inc) < Len(rel)
      BY LenProperties DEF Below
    <2>2. QED
      BY <2>1, EmptySeq
  <1>5. CASE new = << >>
    <2>1. ~InStack(parents, Front(rel))
      <3>1. Below(Front(rel), rel)
        BY <1>4, FrontAbove
      <3>2. ~InStack(new, Front(rel))
        BY <1>5, EmptySeq DEF InStack
      <3>3. QED
        BY <1>2, <3>1, <3>2
    <2>2. QED
      BY <1>1, <1>5, NoParentResults DEF InfoFor
  <1>6. CASE new # << >>
    <2>1. PICK m \in Nat : m = Len(new) /\ m > 0
      BY <1>3, <1>6, EmptySeq
    <2>2. m \in 1..m /\ Last(new) = new[m]
      BY <2>1 DEF Last
    <2>3. /\ Below(inc, new[m].dir) /\ Below(new[m].dir, rel) /\ new[m].dir \in Seq(Name)
          /\ new[m].info = AllHits(new[m].dir)
      BY <1>2, <1>3, <2>1, <2>2 DEF Stacked
    <2>4. /\ Len(new[m].dir) \in Nat /\ Len(inc) < Len(new[m].dir) /\ Len(new[m].dir) < Len(rel)
      BY <2>3, LenProperties DEF Below
    <2>5. InStack(parents, Front(rel))
      BY <1>4, <2>4
    <2>6. /\ Front(rel) \in Seq(Name) /\ Len(Front(rel)) = Len(rel) - 1 /\ Below(Front(rel), rel)
          /\ \A q \in Seq(Name) : Below(q, rel) => Under(q, Front(rel))
      BY <1>4, FrontAbove
    <2>7. PICK k \in 1..m : new[k].dir = Front(rel)
      BY <1>2, <2>1, <2>5, <2>6 DEF InStack
    <2>8. new[m].dir = Front(rel)
      <3>1. SUFFICES ASSUME k # m PROVE FALSE
        BY <2>7
      <3>2. k < m
        BY <2>1, <2>7, <3>1
      <3>3. Below(Front(rel), new[m].dir)
        BY <1>2, <2>1, <2>2, <2>7, <3>2 DEF Stacked
      <3>4. Under(new[m].dir, Front(rel))
        BY <2>3, <2>6
      <3>5. Len(Front(rel)) < Len(new[m].dir) /\ Len(new[m].dir) <= Len(Front(rel))
        BY <3>3, <3>4 DEF Below, Under
      <3>6. QED
        BY <1>4, <2>4, <2>6, <3>5
    <2>9. Front(rel) # << >>
      BY <1>4, <2>4, <2>8, EmptySeq
    <2>10. MatchesUsingParentResults(rel, Last(new).info) = AllHits(rel)
      BY <1>4, <2>2, <2>3, <2>8, <2>9, ParentResults
    <2>11. QED
      BY <1>1, <1>6, <2>10 DEF InfoFor
  <1>7. QED
    BY <1>5, <1>6

-----------------------------------------------------------------------------
(* Taking the first item and putting others in its place.                  *)

\* The elements of two sequences, one behind the other.
Joined(st, s, m, t, n) ==
    /\ m \in Nat /\ n \in Nat /\ Len(st) = m + n
    /\ \A i \in 1..m : i \in 1..m+n /\ st[i] = s[i]
    /\ \A i \in 1..n : m + i \in 1..m+n /\ st[m + i] = t[i]
    /\ \A i \in 1..m+n : i \in 1..m \/ \E k \in 1..n : i = m + k

\* Two sequences, one behind the other, are joined that way.
LEMMA ConcatParts ==
    ASSUME NEW S, NEW s \in Seq(S), NEW t \in Seq(S), NEW m, m = Len(s), NEW n, n = Len(t),
           NEW st, st = s \o t
    PROVE  st \in Seq(S) /\ Joined(st, s, m, t, n)
  <1>1. /\ m \in Nat /\ n \in Nat /\ st \in Seq(S) /\ Len(st) = m + n
        /\ \A i \in 1..m+n : st[i] = IF i <= m THEN s[i] ELSE t[i - m]
    BY ConcatProperties, LenProperties
  <1>2. \A i \in 1..m : i \in 1..m+n /\ st[i] = s[i]
    BY <1>1
  <1>3. ASSUME NEW i \in 1..n
        PROVE  m + i \in 1..m+n /\ st[m + i] = t[i]
    <2>1. m + i \in 1..m+n /\ ~(m + i <= m) /\ (m + i) - m = i
      BY <1>1
    <2>2. QED
      BY <1>1, <2>1
  <1>4. ASSUME NEW i \in 1..m+n, i \notin 1..m
        PROVE  \E k \in 1..n : i = m + k
    <2>1. i - m \in 1..n /\ i = m + (i - m)
      BY <1>1, <1>4
    <2>2. QED
      BY <2>1
  <1>5. QED
    BY <1>1, <1>2, <1>3, <1>4 DEF Joined

\* The first element of a sequence and the others.
LEMMA HeadAndTail ==
    ASSUME NEW S, NEW s \in Seq(S), s # << >>, NEW n, n = Len(Tail(s))
    PROVE  /\ Tail(s) \in Seq(S) /\ n \in Nat /\ Len(s) = n + 1
           /\ Head(s) = s[1] /\ Head(s) \in S /\ 1 \in 1..n+1
           /\ \A k \in 1..n : /\ k + 1 \in 1..n+1 /\ 1 < k + 1 /\ Tail(s)[k] = s[k + 1]
                              /\ s[k + 1] \in S
           /\ \A i \in 1..n+1 : i = 1 \/ \E k \in 1..n : i = k + 1
  <1>1. /\ Head(s) \in S /\ Tail(s) \in Seq(S) /\ n = Len(s) - 1 /\ Head(s) = s[1]
        /\ \A i \in 1..n : Tail(s)[i] = s[i + 1]
    BY HeadTailProperties
  <1>2. Len(s) \in Nat /\ n \in Nat
    BY <1>1, LenProperties
  <1>3. Len(s) = n + 1 /\ 1 \in 1..n+1
    BY <1>1, <1>2
  <1>4. \A k \in 1..n : k + 1 \in 1..n+1 /\ 1 < k + 1
    BY <1>2
  <1>5. \A i \in 1..n+1 : s[i] \in S
    BY <1>3, ElementOfSeq
  <1>6. ASSUME NEW i \in 1..n+1, i # 1
        PROVE  \E k \in 1..n : i = k + 1
    <2>1. i - 1 \in 1..n /\ i = (i - 1) + 1
      BY <1>2, <1>6
    <2>2. QED
      BY <2>1
  <1>7. QED
    BY <1>1, <1>2, <1>3, <1>4, <1>5, <1>6

\* The first item, and those behind it.
FirstItem(inc, stack, head) ==
    /\ head \in ItemType /\ Under(inc, head.path) /\ (head.read => head.dir)
    /\ Based(inc, stack, head)
LaterItem(inc, stack, head, item) ==
    /\ item \in ItemType /\ ~item.read /\ Based(inc, stack, item)
    /\ Below(inc, item.path) /\ item.path # << >> /\ Below(Front(item.path), head.path)

\* What is queued consists of a first item and later ones.
LEMMA QueueParts ==
    ASSUME NEW inc \in Seq(Name), NEW stack, NEW items, Queued(inc, stack, items), items # << >>,
           NEW n, n = Len(Tail(items))
    PROVE  /\ items \in Seq(ItemType) /\ Tail(items) \in Seq(ItemType)
           /\ FirstItem(inc, stack, Head(items))
           /\ \A k \in 1..n : LaterItem(inc, stack, Head(items), Tail(items)[k])
           /\ \A k, l \in 1..n : k < l =>
                 Below(Front(Tail(items)[l].path), Tail(items)[k].path)
  <1>1. items \in Seq(ItemType)
    BY DEF Queued
  <1>2. /\ Tail(items) \in Seq(ItemType) /\ n \in Nat /\ Len(items) = n + 1
        /\ Head(items) = items[1] /\ Head(items) \in ItemType /\ 1 \in 1..n+1
        /\ \A k \in 1..n : /\ k + 1 \in 1..n+1 /\ 1 < k + 1 /\ Tail(items)[k] = items[k + 1]
                           /\ items[k + 1] \in ItemType
    BY <1>1, HeadAndTail
  <1>3. FirstItem(inc, stack, Head(items))
    BY <1>2 DEF Queued, FirstItem
  <1>4. ASSUME NEW k \in 1..n
        PROVE  LaterItem(inc, stack, Head(items), Tail(items)[k])
    <2>1. PICK item : item = items[k + 1]
      OBVIOUS
    <2>2. /\ item \in ItemType /\ Based(inc, stack, item) /\ Below(inc, item.path)
          /\ Below(Front(item.path), Head(items).path)
      BY <1>2, <2>1 DEF Queued
    <2>3. ~item.read
      <3>1. k + 1 # 1
        BY <1>2
      <3>2. QED
        BY <1>2, <2>1, <3>1 DEF Queued
    <2>4. item.path # << >>
      <3>1. item.path \in Seq(Name)
        BY <2>2 DEF ItemType
      <3>2. Len(inc) \in Nat /\ Len(inc) < Len(item.path)
        BY <2>2, LenProperties DEF Below
      <3>3. QED
        BY <3>1, <3>2, EmptySeq
    <2>5. QED
      BY <1>2, <2>1, <2>2, <2>3, <2>4 DEF LaterItem
  <1>5. ASSUME NEW k \in 1..n, NEW l \in 1..n, k < l
        PROVE  Below(Front(Tail(items)[l].path), Tail(items)[k].path)
    <2>1. k + 1 < l + 1
      BY <1>2, <1>5
    <2>2. QED
      BY <1>2, <2>1 DEF Queued
  <1>6. QED
    BY <1>1, <1>2, <1>3, <1>4, <1>5

\* A stack keeps the parents above a path.
KeepsAbove(stack, new, rel) == \A d : InStack(stack, d) /\ Below(d, rel) => InStack(new, d)
\* Items lie below a path.
AllUnder(p, s) == \A i \in 1..Len(s) : Under(p, s[i].path)

\* Items that lie below the first one can take its place, if the parents that the
\* others need are still remembered.
LEMMA QueueReplace ==
    ASSUME NEW inc \in Seq(Name), NEW stack, NEW items, Queued(inc, stack, items), items # << >>,
           NEW new, NEW s, Queued(inc, new, s),
           AllUnder(Head(items).path, s),
           KeepsAbove(stack, new, Head(items).path)
    PROVE  Queued(inc, new, s \o Tail(items))
  <1>1. PICK m, n, t, st : m = Len(s) /\ n = Len(t) /\ t = Tail(items) /\ st = s \o t
    OBVIOUS
  <1>2. PICK head : head = Head(items)
    OBVIOUS
  <1>3. /\ t \in Seq(ItemType) /\ FirstItem(inc, stack, head)
        /\ \A k \in 1..n : LaterItem(inc, stack, head, t[k])
        /\ \A k, l \in 1..n : k < l => Below(Front(t[l].path), t[k].path)
    BY <1>1, <1>2, QueueParts
  <1>4. s \in Seq(ItemType)
    BY DEF Queued
  <1>5. /\ m \in Nat /\ n \in Nat /\ st \in Seq(ItemType) /\ Len(st) = m + n
        /\ \A i \in 1..m : i \in 1..m+n /\ st[i] = s[i]
        /\ \A i \in 1..n : m + i \in 1..m+n /\ st[m + i] = t[i]
        /\ \A i \in 1..m+n : i \in 1..m \/ \E k \in 1..n : i = m + k
    <2>1. st \in Seq(ItemType) /\ Joined(st, s, m, t, n)
      BY <1>1, <1>3, <1>4, ConcatParts
    <2>2. QED
      BY <2>1 DEF Joined
  <1>6. /\ head.path \in Seq(Name)
        /\ \A i \in 1..m : s[i] \in ItemType /\ s[i].path \in Seq(Name)
    <2>1. \A i \in 1..m : s[i] \in ItemType
      BY <1>1, <1>4, <1>5, ElementOfSeq
    <2>2. QED
      BY <1>3, <2>1 DEF FirstItem, ItemType
  <1>7. ASSUME NEW k \in 1..n
        PROVE  /\ Below(inc, t[k].path) /\ Under(inc, t[k].path) /\ ~t[k].read
               /\ Based(inc, new, t[k])
    <2>1. LaterItem(inc, stack, head, t[k])
      BY <1>3
    <2>2. t[k].path \in Seq(Name) /\ Under(inc, t[k].path)
      BY <2>1, BelowIsLonger DEF LaterItem, ItemType
    <2>3. Based(inc, new, t[k])
      BY <1>2, <2>1 DEF LaterItem, Based, KeepsAbove
    <2>4. QED
      BY <2>1, <2>2, <2>3 DEF LaterItem
  <1>8. ASSUME NEW i \in 1..m+n
        PROVE  /\ Under(inc, st[i].path)
               /\ st[i].read => i = 1 /\ st[i].dir
               /\ Based(inc, new, st[i])
    <2>1. CASE i \in 1..m
      BY <1>1, <1>5, <2>1 DEF Queued
    <2>2. CASE i \notin 1..m
      <3>1. PICK k \in 1..n : i = m + k
        BY <1>5, <2>2
      <3>2. QED
        BY <1>5, <1>7, <3>1
    <2>3. QED
      BY <2>1, <2>2
  <1>9. ASSUME NEW i \in 1..m+n, NEW j \in 1..m+n, i < j
        PROVE  Below(inc, st[j].path) /\ Below(Front(st[j].path), st[i].path)
    <2>1. CASE j \in 1..m
      <3>1. i \in 1..m
        BY <1>5, <1>9, <2>1
      <3>2. QED
        BY <1>1, <1>5, <1>9, <2>1, <3>1 DEF Queued
    <2>2. CASE j \notin 1..m
      <3>1. PICK l \in 1..n : j = m + l
        BY <1>5, <2>2
      <3>2. /\ LaterItem(inc, stack, head, t[l]) /\ st[j] = t[l]
            /\ t[l].path \in Seq(Name) /\ t[l].path # << >>
        BY <1>3, <1>5, <3>1 DEF LaterItem, ItemType
      <3>3. Front(t[l].path) \in Seq(Name) /\ Below(Front(t[l].path), head.path)
        BY <3>2, FrontProperties DEF LaterItem
      <3>4. CASE i \in 1..m
        <4>1. Under(head.path, s[i].path)
          BY <1>1, <1>2, <3>4 DEF AllUnder
        <4>2. Under(Front(t[l].path), head.path)
          BY <1>6, <3>3, BelowIsLonger
        <4>3. Below(Front(t[l].path), s[i].path)
          BY <1>6, <3>3, <3>4, <4>1, <4>2, UnderTransitive
        <4>4. QED
          BY <1>5, <1>7, <3>2, <3>4, <4>3
      <3>5. CASE i \notin 1..m
        <4>1. PICK k \in 1..n : i = m + k
          BY <1>5, <3>5
        <4>2. k < l
          BY <1>5, <1>9, <3>1, <4>1
        <4>3. QED
          BY <1>3, <1>5, <1>7, <3>2, <4>1, <4>2
      <3>6. QED
        BY <3>4, <3>5
    <2>3. QED
      BY <2>1, <2>2
  <1>10. QED
    BY <1>1, <1>5, <1>8, <1>9 DEF Queued

\* Without anything in its place.
LEMMA QueueTail ==
    ASSUME NEW inc \in Seq(Name), NEW stack, NEW items, Queued(inc, stack, items), items # << >>,
           NEW new, KeepsAbove(stack, new, Head(items).path)
    PROVE  Queued(inc, new, Tail(items))
  <1>1. PICK none : none = << >> /\ none \in Seq(ItemType) /\ Len(none) = 0
    BY EmptySeq
  <1>2. Queued(inc, new, none)
    BY <1>1 DEF Queued
  <1>3. AllUnder(Head(items).path, none)
    BY <1>1 DEF AllUnder
  <1>4. Queued(inc, new, none \o Tail(items))
    BY <1>2, <1>3, QueueReplace
  <1>5. Tail(items) \in Seq(ItemType)
    BY QueueParts
  <1>6. QED
    BY <1>1, <1>4, <1>5, ConcatEmptySeq

\* One item, with its parent remembered if it is to be read.
LEMMA QueueOne ==
    ASSUME NEW inc, NEW stack, NEW item, FirstItem(inc, stack, item)
    PROVE  Queued(inc, stack, <<item>>)
  <1>1. <<item>> \in Seq(ItemType) /\ Len(<<item>>) = 1 /\ <<item>>[1] = item
    BY DEF FirstItem
  <1>2. QED
    BY <1>1 DEF Queued, FirstItem

-----------------------------------------------------------------------------
(* The names in a directory, as items.                                     *)

\* Below the source directory a name is one more component.
LEMMA SourceAppend ==
    ASSUME srcPath \in Seq(Name), NEW rel \in Seq(Name), NEW x \in Name
    PROVE  Source(Append(rel, x)) = Append(Source(rel), x)
  <1>1. /\ Append(rel, x) = rel \o <<x>> /\ <<x>> \in Seq(Name)
        /\ Source(rel) \in Seq(Name) /\ Append(Source(rel), x) = Source(rel) \o <<x>>
    BY AppendIsConcat, ConcatProperties DEF Source
  <1>2. srcPath \o (rel \o <<x>>) = (srcPath \o rel) \o <<x>>
    BY <1>1, ConcatAssociative
  <1>3. QED
    BY <1>1, <1>2 DEF Source

\* Different paths are different below it too.
LEMMA SourceSame ==
    ASSUME srcPath \in Seq(Name), NEW p \in Seq(Name), NEW q \in Seq(Name), Source(p) = Source(q)
    PROVE  p = q
  <1>1. PICK b \in Seq(Name) : b = srcPath
    OBVIOUS
  <1>2. b \o p = b \o q
    BY <1>1 DEF Source
  <1>3. SubSeq(b \o p, Len(b) + 1, Len(b \o p)) = p
    BY UnderBehind
  <1>4. SubSeq(b \o q, Len(b) + 1, Len(b \o q)) = q
    BY UnderBehind
  <1>5. QED
    BY <1>2, <1>3, <1>4

\* An item for a name that is there, in the directory rel.
KidOf(rel, item) ==
    /\ item.path \in Seq(Name) /\ item.path # << >> /\ Front(item.path) = rel
    /\ Below(rel, item.path)
    /\ item = Item(item.path) /\ Source(item.path) \in DOMAIN src

\* A name that is read in a directory is such an item.
LEMMA KidFacts ==
    ASSUME IsTree(src), srcPath \in Seq(Name), NEW rel \in Seq(Name),
           NEW q \in NamesIn(src, Source(rel))
    PROVE  /\ KidOf(rel, Item(Append(rel, Last(q))))
           /\ Source(Append(rel, Last(q))) = q
  <1>1. q \in Seq(Name) /\ q # << >> /\ q \in DOMAIN src /\ Front(q) = Source(rel)
    BY TreePaths DEF NamesIn
  <1>2. Append(Source(rel), Last(q)) = q
    BY <1>1, FrontLast
  <1>3. Last(q) \in Name
    BY <1>1, FrontProperties, ElementOfSeq DEF Last
  <1>4. PICK p : p = Append(rel, Last(q))
    OBVIOUS
  <1>5. p \in Seq(Name) /\ p # << >> /\ Front(p) = rel
    BY <1>3, <1>4, FrontAppend
  <1>6. Below(rel, p)
    BY <1>5, FrontAbove
  <1>7. Source(p) = q
    BY <1>2, <1>3, <1>4, SourceAppend
  <1>8. Item(p).path = p
    BY DEF Item
  <1>9. QED
    BY <1>1, <1>4, <1>5, <1>6, <1>7, <1>8 DEF KidOf

\* The items made of what is read in the directory rel.
ReadIn(rel) ==
    LET dir == Source(rel)
        names == IF IsDir(src, dir) THEN Sorted(NamesIn(src, dir)) ELSE << >>
    IN  [i \in 1..Len(names) |-> Item(Append(rel, Last(names[i])))]

\* Each is for a name that is there, and each name that is there has one.
Kids(rel, kids) ==
    /\ kids \in Seq(ItemType)
    /\ \A i \in 1..Len(kids) : KidOf(rel, kids[i])
    /\ \A p \in Seq(Name) : Below(rel, p) /\ Source(p) \in DOMAIN src =>
          \E i \in 1..Len(kids) : Under(kids[i].path, p)

\* ReadNames reads all the names of a directory.
LEMMA ReadAll ==
    ASSUME SourceKept, SourceInv, srcPath \in Seq(Name), NEW rel \in Seq(Name)
    PROVE  Kids(rel, ReadIn(rel))
  <1>1. IsTree(src) /\ IsFiniteSet(DOMAIN src) /\ Source(rel) \in Seq(Name)
    BY ThereNow, ConcatProperties DEF Source
  <1>2. PICK S : S = NamesIn(src, Source(rel))
    OBVIOUS
  <1>3. Siblings(S)
    <2>1. IsFiniteSet(S)
      BY <1>1, <1>2, FS_Subset DEF NamesIn
    <2>2. S \subseteq Seq(Name) /\ \A p \in S : p # << >> /\ Front(p) = Source(rel)
      BY <1>1, <1>2, TreePaths DEF NamesIn
    <2>3. QED
      BY <1>1, <2>1, <2>2 DEF Siblings
  <1>4. PICK names : names = IF IsDir(src, Source(rel)) THEN Sorted(S) ELSE << >>
    OBVIOUS
  <1>5. names \in Seq(S)
    <2>1. Sorted(S) \in Seq(S)
      BY <1>3, SortedAll
    <2>2. QED
      BY <1>4, <2>1, EmptySeq
  <1>6. PICK n, kids : n \in Nat /\ n = Len(names) /\ kids = ReadIn(rel)
    BY <1>5, LenProperties
  <1>7. kids = [i \in 1..n |-> Item(Append(rel, Last(names[i])))]
    BY <1>2, <1>4, <1>6 DEF ReadIn
  <1>8. \A i \in 1..n : names[i] \in S /\ KidOf(rel, kids[i]) /\ Source(kids[i].path) = names[i]
    <2>1. TAKE i \in 1..n
    <2>2. names[i] \in S
      BY <1>5, <1>6, ElementOfSeq
    <2>3. kids[i] = Item(Append(rel, Last(names[i])))
      BY <1>7
    <2>4. /\ KidOf(rel, Item(Append(rel, Last(names[i]))))
          /\ Source(Append(rel, Last(names[i]))) = names[i]
      BY <1>1, <1>2, <2>2, KidFacts
    <2>5. kids[i].path = Append(rel, Last(names[i]))
      BY <2>3 DEF Item
    <2>6. QED
      BY <2>2, <2>3, <2>4, <2>5
  <1>9. \A i \in 1..n : kids[i] \in ItemType
    <2>1. TAKE i \in 1..n
    <2>2. kids[i].path \in Seq(Name) /\ kids[i] = Item(kids[i].path)
      BY <1>8 DEF KidOf
    <2>3. IsDir(src, Source(kids[i].path)) \in BOOLEAN
      BY DEF IsDir
    <2>4. PICK p \in Seq(Name), d \in BOOLEAN :
              p = kids[i].path /\ d = IsDir(src, Source(kids[i].path))
      BY <2>2, <2>3
    <2>5. kids[i] = [path |-> p, dir |-> d, read |-> FALSE]
      BY <2>2, <2>4 DEF Item
    <2>6. QED
      BY <2>5 DEF ItemType
  <1>10. kids \in Seq(ItemType) /\ Len(kids) = n
    BY <1>6, <1>7, <1>9, IsASeq
  <1>11. ASSUME NEW p \in Seq(Name), Below(rel, p), Source(p) \in DOMAIN src
         PROVE  \E i \in 1..n : Under(kids[i].path, p)
    <2>1. PICK m, x : m = Len(rel) /\ x = p[m + 1]
      OBVIOUS
    <2>2. m \in Nat /\ Len(p) \in Nat /\ m < Len(p)
      BY <1>11, <2>1, LenProperties DEF Below
    <2>3. m + 1 \in 0..Len(p) /\ m + 1 \in 1..Len(p) /\ x \in Name
      BY <2>1, <2>2, ElementOfSeq
    <2>4. PICK c : c = Append(rel, x)
      OBVIOUS
    <2>5. c \in Seq(Name) /\ Len(c) = m + 1 /\ c # << >> /\ Front(c) = rel /\ Last(c) = x
      BY <2>1, <2>3, <2>4, FrontAppend
    <2>6. Under(c, p)
      <3>1. \A i \in 1..m : c[i] = p[i]
        BY <1>11, <2>1, <2>2, <2>4, AppendProperties DEF Below
      <3>2. c[m + 1] = p[m + 1]
        BY <2>1, <2>2, <2>3, <2>4, AppendProperties
      <3>3. \A i \in 1..m+1 : i = m + 1 \/ i \in 1..m
        BY <2>2
      <3>4. QED
        BY <2>2, <2>3, <2>5, <3>1, <3>2, <3>3 DEF Under
    <2>7. Source(c) = Append(Source(rel), x) /\ Source(c) # << >> /\ Front(Source(c)) = Source(rel)
      <3>1. Source(c) = Append(Source(rel), x)
        BY <2>3, <2>4, SourceAppend
      <3>2. QED
        BY <1>1, <2>3, <3>1, FrontAppend
    <2>8. Source(p) \in Seq(Name) /\ Under(Source(c), Source(p)) /\ Below(Source(rel), Source(p))
      BY <1>11, <2>5, <2>6, UnderBehind DEF Source
    <2>9. Source(c) \in DOMAIN src
      <3>1. Source(c) \in Seq(Name)
        BY <2>5, ConcatProperties DEF Source
      <3>2. CASE Source(c) = Source(p)
        BY <1>11, <3>2
      <3>3. CASE Source(c) # Source(p)
        BY <1>11, <2>8, <3>1, <3>3, BelowIsLonger, ThereNow DEF IsDir, Exists
      <3>4. QED
        BY <3>2, <3>3
    <2>10. IsDir(src, Source(rel))
      BY <1>1, <1>11, <2>8, ThereNow
    <2>11. Source(c) \in S
      BY <1>2, <2>7, <2>9 DEF NamesIn
    <2>12. PICK i \in 1..n : names[i] = Source(c)
      BY <1>3, <1>4, <1>6, <2>10, <2>11, SortedAll
    <2>13. kids[i].path = c
      <3>1. kids[i].path \in Seq(Name) /\ Source(kids[i].path) = Source(c)
        BY <1>8, <2>12 DEF KidOf
      <3>2. QED
        BY <2>5, <3>1, SourceSame
    <2>14. QED
      BY <2>6, <2>13
  <1>12. QED
    BY <1>6, <1>8, <1>10, <1>11 DEF Kids

\* They can take the place of the directory.
LEMMA KidsQueue ==
    ASSUME NEW inc \in Seq(Name), NEW stack, NEW item, FirstItem(inc, stack, item), item.read,
           NEW kids, Kids(item.path, kids), NEW n, n = Len(kids)
    PROVE  Queued(inc, stack, kids) /\ AllUnder(item.path, kids)
  <1>1. item.path \in Seq(Name) /\ Under(inc, item.path)
    BY DEF FirstItem, ItemType
  <1>2. ASSUME NEW i \in 1..n
        PROVE  /\ Under(item.path, kids[i].path) /\ Below(inc, kids[i].path) /\ Under(inc, kids[i].path)
               /\ ~kids[i].read /\ Based(inc, stack, kids[i])
               /\ Front(kids[i].path) = item.path /\ Below(item.path, kids[i].path)
    <2>1. KidOf(item.path, kids[i])
      BY <1>2 DEF Kids
    <2>2. /\ kids[i].path \in Seq(Name) /\ kids[i].path # << >> /\ Front(kids[i].path) = item.path
          /\ Below(item.path, kids[i].path) /\ ~kids[i].read
      BY <2>1 DEF KidOf, Item
    <2>3. Under(item.path, kids[i].path) /\ Below(inc, kids[i].path) /\ Under(inc, kids[i].path)
      BY <1>1, <2>2, BelowIsLonger, UnderTransitive
    <2>4. Based(inc, stack, kids[i])
      <3>1. CASE item.path = inc
        <4>1. Len(inc) = Len(kids[i].path) - 1 /\ Len(inc) \in Nat /\ Len(kids[i].path) \in Nat
          BY <2>2, <3>1, FrontAbove, LenProperties
        <4>2. QED
          BY <2>2, <4>1 DEF Based
      <3>2. CASE InStack(stack, item.path)
        BY <2>2, <3>2 DEF Based
      <3>3. QED
        BY <3>1, <3>2 DEF FirstItem, Based
    <2>5. QED
      BY <2>2, <2>3, <2>4
  <1>3. Queued(inc, stack, kids)
    BY <1>2 DEF Kids, Queued
  <1>4. QED
    BY <1>2, <1>3 DEF AllUnder

-----------------------------------------------------------------------------
(* The walk.                                                               *)

\* The walk has a stack of parents and what it has still to visit.
WalkInv ==
    /\ srcPath \in Seq(Name) /\ unwalked \in Seq(Seq(Name)) /\ include \in Seq(Name)
    /\ Stacked(include, parents) /\ Queued(include, parents, todo)
    /\ CopiesFile \/ at \in {"start", "close", "closing", "ended"} =>
           todo = << >> /\ unwalked = << >>

\* Nothing remembered and nothing to visit.
LEMMA NothingToVisit ==
    ASSUME NEW inc, NEW stack
    PROVE  Stacked(inc, << >>) /\ Queued(inc, stack, << >>)
  <1>1. << >> \in Seq(StackType) /\ << >> \in Seq(ItemType) /\ Len(<< >>) = 0
    BY EmptySeq
  <1>2. QED
    BY <1>1 DEF Stacked, Queued

\* The invariant of the walk after a step that leaves the options alone.
LEMMA WalkAfter ==
    ASSUME UNCHANGED options, srcPath' \in Seq(Name), unwalked' \in Seq(Seq(Name)),
           include' \in Seq(Name), Stacked(include', parents'), Queued(include', parents', todo'),
           CopiesFile \/ at' \in {"start", "close", "closing", "ended"} =>
               todo' = << >> /\ unwalked' = << >>
    PROVE  WalkInv'
  <1>1. Stacked(include, parents)'
    <2>1. StackType' = StackType
      BY DEF StackType, Patterns
    <2>2. \A q : AllHits(q)' = AllHits(q)
      BY DEF AllHits, Hit, Fits, FitsAbove, Patterns
    <2>3. \A i \in 1..Len(parents') : parents'[i].info = AllHits(parents'[i].dir)
      BY DEF Stacked
    <2>4. \A i \in 1..Len(parents') : parents'[i].info = AllHits(parents[i].dir)'
      BY <2>2, <2>3
    <2>5. /\ (parents \in Seq(StackType))'
          /\ \A i \in 1..Len(parents') : Below(include', parents'[i].dir)
          /\ \A i, j \in 1..Len(parents') : i < j => Below(parents'[i].dir, parents'[j].dir)
      BY <2>1 DEF Stacked
    <2>6. QED
      BY <2>4, <2>5 DEF Stacked
  <1>2. Queued(include, parents, todo)'
    BY DEF Queued, Based, InStack
  <1>3. QED
    BY <1>1, <1>2 DEF WalkInv, CopiesFile

\* The source turns out to be missing, a directory, or a file.
LEMMA StartWalk ==
    ASSUME SourceInv, SourceKept, AtInv, WalkInv, Start
    PROVE  WalkInv'
  <1>1. /\ UNCHANGED <<options, include, todo, parents>> /\ at = "start" /\ ~CopiesFile
        /\ todo = << >> /\ unwalked = << >> /\ srcPath \in Seq(Name) /\ include \in Seq(Name)
        /\ Stacked(include, parents) /\ Queued(include, parents, todo)
    BY DEF Start, AtInv, WalkInv
  <1>2. CASE ~Exists(src, srcPath)
    BY <1>1, <1>2, WalkAfter DEF Start
  <1>3. CASE IsDir(src, srcPath)
    <2>1. /\ srcPath' = srcPath /\ at' = "walk"
          /\ unwalked' = IF options.IncludeFiles = << >> THEN << << >> >> ELSE options.IncludeFiles
      BY <1>3 DEF Start, IsDir
    <2>2. << << >> >> \in Seq(Seq(Name)) /\ options.IncludeFiles \in Seq(Seq(Name))
      BY EmptySeq, CopyAssumption DEF SourceKept
    <2>3. unwalked' \in Seq(Seq(Name))
      BY <2>1, <2>2
    <2>4. QED
      BY <1>1, <2>1, <2>3, WalkAfter
  <1>4. CASE Exists(src, srcPath) /\ ~IsDir(src, srcPath)
    <2>1. srcPath # << >>
      BY <1>4 DEF SourceInv, IsTree, WellFormed, IsDir, Exists
    <2>2. Front(srcPath) \in Seq(Name) /\ Len(srcPath) \in 1..Len(srcPath)
      BY <1>1, <2>1, FrontProperties
    <2>3. Last(srcPath) \in Name
      BY <1>1, <2>2, ElementOfSeq DEF Last
    <2>4. srcPath' = Front(srcPath) /\ at' = "walk" /\ unwalked' = << <<Last(srcPath)>> >>
      BY <1>4 DEF Start
    <2>5. unwalked' \in Seq(Seq(Name))
      BY <2>3, <2>4
    <2>6. QED
      BY <1>1, <2>2, <2>4, <2>5, WalkAfter
  <1>5. QED
    BY <1>2, <1>3, <1>4

\* The first item of an include is the include itself.
LEMMA FirstOfInclude ==
    ASSUME NEW inc \in Seq(Name), NEW stack
    PROVE  FirstItem(inc, stack, Item(inc))
  <1>1. PICK d \in BOOLEAN : d = IsDir(src, Source(inc))
    BY DEF IsDir
  <1>2. Item(inc) = [path |-> inc, dir |-> d, read |-> FALSE]
    BY <1>1 DEF Item
  <1>3. Item(inc) \in ItemType /\ Item(inc).path = inc /\ ~Item(inc).read
    BY <1>2 DEF ItemType
  <1>4. Under(inc, inc) /\ Len(inc) <= Len(inc) + 1
    BY LenProperties DEF Under
  <1>5. QED
    BY <1>3, <1>4 DEF FirstItem, Based

\* The next include, if it is there.
LEMMA NextWalk ==
    ASSUME AtInv, WalkInv, NextInclude
    PROVE  WalkInv'
  <1>1. /\ UNCHANGED <<options, srcPath, at>> /\ at = "walk" /\ ~CopiesFile /\ unwalked # << >>
        /\ unwalked \in Seq(Seq(Name)) /\ srcPath \in Seq(Name)
        /\ include' = Head(unwalked) /\ unwalked' = Tail(unwalked) /\ parents' = << >>
        /\ todo' = IF Exists(src, Source(include')) THEN <<Item(include')>> ELSE << >>
    BY DEF NextInclude, AtInv, WalkInv
  <1>2. include' \in Seq(Name) /\ unwalked' \in Seq(Seq(Name))
    BY <1>1, HeadTailProperties
  <1>3. Stacked(include', parents')
    BY <1>1, NothingToVisit
  <1>4. Queued(include', parents', << >>) /\ Queued(include', parents', <<Item(include')>>)
    BY <1>2, NothingToVisit, FirstOfInclude, QueueOne
  <1>5. Queued(include', parents', todo')
    BY <1>1, <1>4
  <1>6. QED
    BY <1>1, <1>2, <1>3, <1>5, WalkAfter

\* What visiting an item finds: it is not the include's own path and has the
\* results of every pattern.
Visited(item) ==
    /\ FirstItem(include, parents, item) /\ item.path \in Seq(Name)
    /\ ~item.read
    /\ item.path # include => /\ Below(include, item.path) /\ item.path # << >>
                              /\ InfoFor(item.path) = AllHits(item.path)

\* The invariant of the walk tells what a visit finds.
LEMMA VisitFacts ==
    ASSUME WalkInv, todo # << >>, ~Here.read
    PROVE  Visited(Here)
  <1>1. /\ Queued(include, parents, todo) /\ include \in Seq(Name)
        /\ Stacked(include, parents)
    BY DEF WalkInv
  <1>2. FirstItem(include, parents, Here)
    BY <1>1, QueueParts DEF Here
  <1>3. /\ Here.path \in Seq(Name) /\ Under(include, Here.path)
        /\ Len(Here.path) <= Len(include) + 1 \/ InStack(parents, Front(Here.path))
    BY <1>2 DEF FirstItem, ItemType, Based
  <1>4. Here.path # include => Below(include, Here.path)
    BY <1>1, <1>3, BelowIsLonger
  <1>5. Here.path # include => Here.path # << >>
    <2>1. SUFFICES ASSUME Here.path # include PROVE Here.path # << >>
      OBVIOUS
    <2>2. Len(include) \in Nat /\ Len(include) < Len(Here.path)
      BY <1>1, <1>4, <2>1, LenProperties DEF Below
    <2>3. QED
      BY <1>3, <2>2, EmptySeq
  <1>6. Here.path # include => InfoFor(Here.path) = AllHits(Here.path)
    BY <1>1, <1>3, <1>4, InfoIsRight
  <1>7. QED
    BY <1>2, <1>3, <1>4, <1>5, <1>6 DEF Visited

\* The parents after a visit: still such a stack, with those of the other items,
\* and with the item itself if it is a directory.
LEMMA ParentsVisited ==
    ASSUME SourceKept, WalkInv, todo # << >>, ~Here.read, NEW new, new = ParentsAfter(Here)
    PROVE  /\ Stacked(include, new)
           /\ KeepsAbove(parents, new, Here.path)
           /\ Here.path # include /\ Here.dir => InStack(new, Here.path)
  <1>1. /\ include \in Seq(Name) /\ Stacked(include, parents) /\ Visited(Here)
        /\ options \in Cases
    BY VisitFacts DEF WalkInv, SourceKept
  <1>2. CASE Here.path = include
    BY <1>1, <1>2 DEF ParentsAfter, KeepsAbove
  <1>3. CASE Here.path # include
    <2>1. PICK popped, top : /\ popped = Popped(parents, Here.path)
                             /\ top = [dir |-> Here.path, info |-> AllHits(Here.path)]
      OBVIOUS
    <2>2. /\ Here.path \in Seq(Name) /\ Below(include, Here.path)
          /\ InfoFor(Here.path) = AllHits(Here.path)
      BY <1>1, <1>3 DEF Visited
    <2>3. /\ Stacked(include, popped)
          /\ \A i \in 1..Len(popped) : Below(popped[i].dir, Here.path)
          /\ \A d : InStack(parents, d) /\ Below(d, Here.path) => InStack(popped, d)
      BY <1>1, <2>1, <2>2, PoppedStack
    <2>4. new = popped \o (IF Here.dir THEN <<top>> ELSE << >>)
      BY <1>3, <2>1, <2>2 DEF ParentsAfter
    <2>5. CASE Here.dir
      <3>1. new = popped \o <<[dir |-> Here.path, info |-> AllHits(Here.path)]>>
        BY <2>1, <2>4, <2>5
      <3>2. /\ Stacked(include, new) /\ InStack(new, Here.path)
            /\ \A d : InStack(popped, d) => InStack(new, d)
        BY <1>1, <2>2, <2>3, <3>1, PushedStack
      <3>3. QED
        BY <2>3, <3>2 DEF KeepsAbove
    <2>6. CASE ~Here.dir
      <3>1. popped \in Seq(StackType)
        BY <2>3 DEF Stacked
      <3>2. new = popped
        BY <2>4, <2>6, <3>1, ConcatEmptySeq
      <3>3. QED
        BY <2>3, <2>6, <3>2 DEF KeepsAbove
    <2>7. QED
      BY <2>5, <2>6
  <1>4. QED
    BY <1>2, <1>3

\* A visit leaves the item's own reading, if it is a directory, and the others.
LEMMA VisitWalk ==
    ASSUME SourceKept, AtInv, WalkInv, Visit
    PROVE  WalkInv'
  <1>1. /\ UNCHANGED <<options, srcPath, unwalked, include>> /\ at = "walk" /\ ~CopiesFile
        /\ todo # << >> /\ ~Here.read /\ at' \in {"walk", "add"}
        /\ unwalked \in Seq(Seq(Name)) /\ srcPath \in Seq(Name) /\ include \in Seq(Name)
        /\ Queued(include, parents, todo) /\ (todo' = Tail(todo) \/ todo' = Entered)
    BY DEF Visit, AtInv, WalkInv
  <1>2. FirstItem(include, parents, Here) /\ Visited(Here) /\ Here = Head(todo)
    BY <1>1, VisitFacts DEF Visited, Here
  <1>3. parents' = ParentsAfter(Here)
    <2>1. CASE ~SkipsSourceDir
      BY <2>1 DEF Visit
    <2>2. CASE SkipsSourceDir
      <3>1. Here.path = << >> /\ parents' = parents
        BY <2>2 DEF SkipsSourceDir, Visit
      <3>2. Here.path = include
        BY <1>2, <3>1 DEF Visited
      <3>3. QED
        BY <3>1, <3>2 DEF ParentsAfter
    <2>3. QED
      BY <2>1, <2>2
  <1>4. /\ Stacked(include, parents')
        /\ KeepsAbove(parents, parents', Head(todo).path)
        /\ Here.path # include /\ Here.dir => InStack(parents', Here.path)
    BY <1>1, <1>2, <1>3, ParentsVisited
  <1>5. Queued(include, parents', Tail(todo))
    BY <1>1, <1>4, QueueTail
  <1>6. CASE ~Here.dir
    <2>1. todo' = Tail(todo)
      BY <1>1, <1>6 DEF Entered
    <2>2. QED
      BY <1>1, <1>4, <1>5, <2>1, WalkAfter
  <1>7. CASE Here.dir
    <2>1. PICK item : item = [Here EXCEPT !.read = TRUE]
      OBVIOUS
    <2>2. item \in ItemType /\ item.path = Here.path /\ item.dir /\ item.read
      BY <1>2, <1>7, <2>1 DEF FirstItem, ItemType
    <2>3. FirstItem(include, parents', item)
      BY <1>2, <1>4, <1>7, <2>2 DEF FirstItem, Based
    <2>4. Queued(include, parents', <<item>>)
      BY <2>3, QueueOne
    <2>5. AllUnder(Head(todo).path, <<item>>)
      <3>1. Under(item.path, item.path)
        BY <2>2, BelowIsLonger DEF ItemType
      <3>2. QED
        BY <1>2, <2>2, <3>1 DEF AllUnder
    <2>6. Queued(include, parents', <<item>> \o Tail(todo))
      BY <1>1, <1>4, <2>4, <2>5, QueueReplace
    <2>7. todo' = Tail(todo) \/ todo' = <<item>> \o Tail(todo)
      BY <1>1, <1>7, <2>1 DEF Entered
    <2>8. Queued(include, parents', todo')
      BY <1>5, <2>6, <2>7
    <2>9. QED
      BY <1>1, <1>4, <2>8, WalkAfter
  <1>8. QED
    BY <1>6, <1>7

\* The names in a directory take its place.
LEMMA ReadWalk ==
    ASSUME SourceKept, SourceInv, AtInv, WalkInv, ReadNames
    PROVE  WalkInv'
  <1>1. /\ UNCHANGED <<options, srcPath, at, unwalked, include, parents>> /\ at = "walk"
        /\ ~CopiesFile /\ todo # << >> /\ Here.read
        /\ unwalked \in Seq(Seq(Name)) /\ srcPath \in Seq(Name) /\ include \in Seq(Name)
        /\ Queued(include, parents, todo) /\ Stacked(include, parents)
    BY DEF ReadNames, AtInv, WalkInv
  <1>2. todo' = ReadIn(Here.path) \o Tail(todo)
    BY DEF ReadNames, ReadIn
  <1>3. FirstItem(include, parents, Here) /\ Here = Head(todo)
    BY <1>1, QueueParts DEF Here
  <1>4. PICK kids : kids = ReadIn(Here.path)
    OBVIOUS
  <1>5. Kids(Here.path, kids)
    BY <1>1, <1>3, <1>4, ReadAll DEF FirstItem, ItemType
  <1>6. Queued(include, parents, kids) /\ AllUnder(Head(todo).path, kids)
    BY <1>1, <1>3, <1>5, KidsQueue
  <1>7. Queued(include, parents, kids \o Tail(todo))
    <2>1. KeepsAbove(parents, parents, Head(todo).path)
      BY DEF KeepsAbove
    <2>2. QED
      BY <1>1, <1>6, <2>1, QueueReplace
  <1>8. QED
    BY <1>1, <1>2, <1>4, <1>7, WalkAfter

\* A step that at most ends the walk of this include.
WalkStill ==
    /\ UNCHANGED <<options, srcPath, unwalked, include, parents>>
    /\ todo' = todo \/ todo' = << >>
    /\ at' \in {"start", "close", "closing", "ended"} =>
           \/ CopiesFile \/ at \in {"start", "close", "closing", "ended"}
           \/ todo = << >> /\ unwalked = << >>

\* Every step keeps the invariant of the walk.
LEMMA WalkInvStep ==
    ASSUME SourceKept, SourceInv, AtInv, WalkInv, [Next]_vars
    PROVE  WalkInv'
  <1>. USE DEF writer, walk, entry
  <1>1. ASSUME WalkStill PROVE WalkInv'
    <2>1. /\ srcPath \in Seq(Name) /\ unwalked \in Seq(Seq(Name)) /\ include \in Seq(Name)
          /\ Stacked(include, parents) /\ Queued(include, parents, todo)
          /\ Queued(include, parents, << >>)
      BY <1>1, NothingToVisit DEF WalkInv, WalkStill
    <2>2. CopiesFile \/ at' \in {"start", "close", "closing", "ended"} =>
              todo' = << >> /\ unwalked' = << >>
      BY <1>1 DEF WalkInv, WalkStill
    <2>3. Queued(include, parents, todo')
      BY <1>1, <2>1 DEF WalkStill
    <2>4. QED
      BY <1>1, <2>1, <2>2, <2>3, WalkAfter DEF WalkStill
  <1>2. CASE Start \/ NextInclude \/ Visit \/ ReadNames
    BY <1>2, StartWalk, NextWalk, VisitWalk, ReadWalk
  <1>3. CASE Walked \/ CloseArchive \/ ClosePipe
    BY <1>1, <1>3 DEF WalkStill, Walked, CloseArchive, ClosePipe
  <1>4. CASE AddHeader \/ HeaderDone
    BY <1>1, <1>4 DEF WalkStill, AddHeader, HeaderDone, StopsWalk
  <1>5. CASE AddContents \/ ContentsDone
    BY <1>1, <1>5 DEF WalkStill, AddContents, ContentsDone, StopsWalk
  <1>6. CASE StatFile \/ OpenFile \/ SendDone \/ CopyFile \/ CopyDone
    <2>1. CopiesFile
      BY <1>6 DEF StatFile, OpenFile, SendDone, CopyFile, CopyDone, AtInv
    <2>2. UNCHANGED <<options, srcPath, walk>>
      BY <1>6 DEF StatFile, OpenFile, SendDone, CopyFile, CopyDone
    <2>3. QED
      BY <1>1, <2>1, <2>2 DEF WalkStill
  <1>7. CASE Reader
    BY <1>1, <1>7 DEF WalkStill, Reader, ReadHeader, Extracts, ReadContents, ReadEnd, StreamEnds,
                      EndTarUntar, CloseWithError, EndCopyFile
  <1>8. CASE Disturb
    BY <1>1, <1>8 DEF WalkStill, Disturb, UntarFails, Delete, Rewrite, Replace, Moving
  <1>9. CASE Ended \/ UNCHANGED vars
    BY <1>1, <1>9 DEF WalkStill, Ended, vars
  <1>10. QED
    BY <1>2, <1>3, <1>4, <1>5, <1>6, <1>7, <1>8, <1>9 DEF Next, Writer, Do

\* It holds at the start.
LEMMA WalkInvInit ==
    ASSUME Init
    PROVE  WalkInv
  <1>1. /\ options \in Cases /\ srcPath = options.srcPath /\ unwalked = << >> /\ include = << >>
        /\ todo = << >> /\ parents = << >>
    BY DEF Init, DoInit
  <1>2. srcPath \in Seq(Name) /\ << >> \in Seq(Seq(Name)) /\ << >> \in Seq(Name)
    BY <1>1, CopyAssumption, EmptySeq
  <1>3. QED
    BY <1>1, <1>2, NothingToVisit DEF WalkInv

-----------------------------------------------------------------------------
(* What is added to the archive.                                           *)

\* Whole seconds are not negative.
LEMMA TruncateType ==
    ASSUME NEW t \in Nat
    PROVE  Truncate(t) \in Nat
  <1>1. PICK s, q, r : s = Second /\ q = t \div Second /\ r = t % Second
    OBVIOUS
  <1>2. s \in Nat /\ s > 0 /\ q \in Int /\ r \in 0..s-1 /\ t = s * q + r
    BY <1>1, PackAssumption
  <1>3. q >= 0
    BY <1>1, <1>2
  <1>4. s * q >= 0
    BY <1>2, <1>3
  <1>5. QED
    BY <1>1, <1>2, <1>4 DEF Truncate

\* The names remembered for inodes are names.
NamesAre(names) == \A ino \in DOMAIN names : names[ino] \in Seq(Name)

\* A header made of a node that is there, in the container's numbers, is one.
LEMMA HeaderIsTyped ==
    ASSUME NEW tree, IsTree(tree), NEW p \in DOMAIN tree, NEW name \in Seq(Name), NEW names,
           NamesAre(names),
           IsOverlayWhiteout(tree[p]) \/ InContainer(tree[p].owner)
    PROVE  HeaderFor(tree, p, name, names) \in HeaderType
  <1>1. tree[p] \in NodeType
    BY TreePaths
  <1>2. PICK kind, link, owner, time, ino :
            /\ kind = tree[p].kind /\ link = tree[p].link /\ owner = tree[p].owner
            /\ time = tree[p].time /\ ino = tree[p].ino
    OBVIOUS
  <1>3. kind \in Kind /\ link \in LinkType /\ owner \in Nat /\ time \in Nat
    BY <1>1, <1>2 DEF NodeType
  <1>4. PICK h : h = HeaderFor(tree, p, name, names)
    OBVIOUS
  <1>5. PICK linked : linked = LinksTo(tree, p, names)
    OBVIOUS
  <1>6. PICK t, l, o, m :
            /\ t = IF linked THEN "link" ELSE IF IsOverlayWhiteout(tree[p]) THEN "dev" ELSE kind
            /\ l = IF linked THEN [abs |-> FALSE, to |-> names[ino]] ELSE link
            /\ o = IF IsOverlayWhiteout(tree[p]) THEN owner ELSE ToContainer(owner)
            /\ m = Truncate(time)
    OBVIOUS
  <1>7. h = [type |-> t, name |-> name, link |-> l, owner |-> o, time |-> m]
    BY <1>2, <1>4, <1>5, <1>6 DEF HeaderFor
  <1>8. t \in Kind \union {"link"}
    BY <1>3, <1>6 DEF Kind
  <1>9. l \in LinkType
    <2>1. CASE linked
      <3>1. names[ino] \in Seq(Name)
        BY <1>2, <1>5, <2>1 DEF LinksTo, NamesAre
      <3>2. names[ino] \in Seq(Part)
        BY <3>1, WiderSeq DEF Part
      <3>3. QED
        BY <1>6, <2>1, <3>2 DEF LinkType
    <2>2. QED
      BY <1>3, <1>6, <2>1
  <1>10. o \in Nat
    <2>1. MapSize \in Nat /\ MapOffset \in Nat
      BY ExtractAssumption
    <2>2. ASSUME InContainer(owner) PROVE ToContainer(owner) \in Nat
      BY <1>3, <2>1, <2>2 DEF InContainer, ToContainer
    <2>3. QED
      BY <1>2, <1>3, <1>6, <2>2
  <1>11. m \in Nat
    BY <1>3, <1>6, TruncateType
  <1>12. QED
    BY <1>4, <1>7, <1>8, <1>9, <1>10, <1>11 DEF HeaderType

\* A name remembered is the one that is given.
LEMMA SeenAreNames ==
    ASSUME NEW tree, NEW p, NEW name \in Seq(Name), NEW names,
           NamesAre(names),
           NEW new, new = SeeFile(tree, p, name, names)
    PROVE  NamesAre(new)
  <1>1. PICK ino : ino = tree[p].ino
    OBVIOUS
  <1>2. CASE new = names
    BY <1>2
  <1>3. CASE new = [i \in DOMAIN names \union {ino} |-> IF i = ino THEN name ELSE names[i]]
    BY <1>3 DEF NamesAre
  <1>4. QED
    BY <1>1, <1>2, <1>3 DEF SeeFile

\* What addTarFile makes of a path.
PackedAs(tree, p, name, packed) ==
    /\ NamesAre(packed.seen)
    /\ packed.err = "ok" => /\ p \in DOMAIN tree /\ packed.hdr \in HeaderType
                            /\ packed.hdr.name = name
    /\ packed.err # "ok" => \/ p \notin DOMAIN tree
                            \/ ~IsOverlayWhiteout(tree[p]) /\ ~InContainer(tree[p].owner)

\* Packed makes a header of the path it is given, or tells what is wrong with it.
LEMMA PackedIsTyped ==
    ASSUME NEW tree, IsTree(tree), NEW p, NEW name \in Seq(Name), NEW names,
           NamesAre(names),
           NEW packed, packed = Packed(tree, p, name, names)
    PROVE  PackedAs(tree, p, name, packed)
  <1>1. CASE p \notin DOMAIN tree
    BY <1>1 DEF Packed, PackedAs, Exists
  <1>2. CASE p \in DOMAIN tree
    <2>1. PICK new : new = SeeFile(tree, p, name, names)
      OBVIOUS
    <2>2. NamesAre(new)
      BY <2>1, SeenAreNames
    <2>3. CASE ~IsOverlayWhiteout(tree[p]) /\ ~InContainer(tree[p].owner)
      BY <1>2, <2>1, <2>2, <2>3 DEF Packed, PackedAs, Exists
    <2>4. CASE IsOverlayWhiteout(tree[p]) \/ InContainer(tree[p].owner)
      <3>1. PICK h : h = HeaderFor(tree, p, name, names)
        OBVIOUS
      <3>2. h \in HeaderType /\ h.name = name
        BY <1>2, <2>4, <3>1, HeaderIsTyped DEF HeaderFor
      <3>3. packed.err = "ok" /\ packed.seen = new /\ packed.hdr = h
        BY <1>2, <2>1, <2>4, <3>1 DEF Packed, Exists
      <3>4. QED
        BY <1>2, <2>2, <3>2, <3>3 DEF PackedAs
    <2>5. QED
      BY <2>3, <2>4
  <1>3. QED
    BY <1>1, <1>2

\* No link leads the root away from itself.
LEMMA RootLeads ==
    ASSUME IsTree(src), srcPath = << >>
    PROVE  \A p \in Leads : IsDir(src, p)
  <1>. DEFINE I == {s \in WalkState : s.at = << >> /\ s.rest = << >>}
  <1>1. WalkStart(srcPath) \in I
    BY EmptySeq DEF WalkStart, WalkState, WalkError
  <1>2. \A s \in I : [s EXCEPT !.err = "loop"] \in I
    <2>1. TAKE s \in I
    <2>2. PICK t : t = [s EXCEPT !.err = "loop"]
      OBVIOUS
    <2>3. t \in WalkState
      BY <2>2, WalkStateExcept DEF WalkError
    <2>4. t.at = << >> /\ t.rest = << >>
      BY <2>2 DEF WalkState
    <2>5. QED
      BY <2>2, <2>3, <2>4
  <1>3. \A s \in I : s.rest # << >> /\ s.err = "ok" => WalkStep(src, TRUE, TRUE, s) \in I
    OBVIOUS
  <1>4. Walk(src, srcPath, TRUE, TRUE) \in I
    <2>. HIDE DEF I
    <2>1. QED
      BY <1>1, <1>2, <1>3, WalkInduction
  <1>5. \A p \in Leads : p = << >> /\ p \in DOMAIN src
    BY <1>4 DEF Leads, Exists
  <1>6. QED
    BY <1>5, TreePaths DEF IsDir, Exists

\* What is added is typed, and the path being added has been seen.
EntryInv ==
    /\ seen \subseteq Seq(Name) /\ logged \subseteq seen
    /\ adding \in [path : Seq(Name), name : Seq(Name)]
    /\ at \in {"add", "header", "body", "contents"} => adding.path \in seen
    /\ NamesAre(SeenFiles)
    /\ sent \in NodeType /\ opened \in NodeType
    /\ written \in Seq(HeaderType)
    /\ at = "open" => srcPath # << >>

\* The name given to a path is one.
LEMMA RebasedType ==
    ASSUME options \in Cases, NEW from \in Seq(Name), NEW rel \in Seq(Name), Under(from, rel)
    PROVE  Rebased(from, rel) \in Seq(Name)
  <1>1. CASE from \notin DOMAIN options.RebaseNames
    BY <1>1 DEF Rebased
  <1>2. CASE from \in DOMAIN options.RebaseNames
    <2>1. options.RebaseNames[from] \in Seq(Name)
      BY <1>2, CopyAssumption
    <2>2. SubSeq(rel, Len(from) + 1, Len(rel)) \in Seq(Name)
      <3>1. PICK m, n : m = Len(from) + 1 /\ n = Len(rel)
        OBVIOUS
      <3>2. m \in Nat /\ n \in Nat /\ m >= 1 /\ Len(rel) = n
        BY <3>1, LenProperties
      <3>3. \A i \in m..n : i \in 1..n
        BY <3>2
      <3>4. \A i \in m..n : rel[i] \in Name
        BY <3>2, <3>3, ElementOfSeq
      <3>5. SubSeq(rel, m, n) \in Seq(Name)
        BY <3>2, <3>4, SubSeqProperties
      <3>6. QED
        BY <3>1, <3>5
    <2>3. QED
      BY <1>2, <2>1, <2>2, ConcatProperties DEF Rebased
  <1>3. QED
    BY <1>1, <1>2

\* A visit may take up a path.
LEMMA VisitEntry ==
    ASSUME SourceKept, WalkInv, EntryInv, Visit, UNCHANGED opened
    PROVE  EntryInv'
  <1>1. Visited(Here) /\ options \in Cases /\ include \in Seq(Name)
    BY VisitFacts DEF Visit, SourceKept, WalkInv
  <1>2. Here.path \in Seq(Name) /\ Under(include, Here.path)
    BY <1>1 DEF Visited, FirstItem
  <1>3. Rebased(include, Here.path) \in Seq(Name)
    BY <1>1, <1>2, RebasedType
  <1>4. /\ UNCHANGED <<SeenFiles, sent, written, logged, srcPath>> /\ at' \in {"walk", "add"}
        /\ \/ UNCHANGED <<seen, adding, at>> /\ at = "walk"
           \/ /\ seen' = seen \union {Here.path} /\ at' = "add"
              /\ adding' = [path |-> Here.path, name |-> Rebased(include, Here.path)]
    BY DEF Visit
  <1>5. CASE UNCHANGED <<seen, adding, at>> /\ at = "walk"
    BY <1>4, <1>5 DEF EntryInv
  <1>6. CASE /\ seen' = seen \union {Here.path} /\ at' = "add"
             /\ adding' = [path |-> Here.path, name |-> Rebased(include, Here.path)]
    BY <1>2, <1>3, <1>4, <1>6 DEF EntryInv
  <1>7. QED
    BY <1>4, <1>5, <1>6

\* Nothing is added; at most an error is logged for the path being added.
EntryStill ==
    /\ UNCHANGED <<seen, adding, SeenFiles, sent, opened, written>>
    /\ \/ logged' = logged
       \/ logged' = logged \union {adding.path} /\ adding.path \in seen
    /\ at' \in {"add", "header", "body", "contents"} =>
           at \in {"add", "header", "body", "contents"}
    /\ at' = "open" => at = "open" /\ srcPath' = srcPath

\* Such a step keeps the types of what is added.
LEMMA EntryKept ==
    ASSUME EntryInv, EntryStill
    PROVE  EntryInv'
  BY DEF EntryInv, EntryStill

\* addTarFile writes a header, or logs an error.
LEMMA AddEntry ==
    ASSUME SourceInv, EntryInv, AddHeader, UNCHANGED opened
    PROVE  EntryInv'
  <1>1. PICK p, packed : /\ p = Source(adding.path)
                         /\ packed = Packed(src, p, adding.name, SeenFiles)
    OBVIOUS
  <1>2. /\ IsTree(src) /\ adding.path \in seen /\ adding.name \in Seq(Name)
        /\ NamesAre(SeenFiles)
    BY DEF SourceInv, EntryInv, AddHeader
  <1>3. PackedAs(src, p, adding.name, packed)
    BY <1>1, <1>2, PackedIsTyped
  <1>4. /\ SeenFiles' = packed.seen /\ UNCHANGED <<seen, adding, srcPath>>
        /\ at' \in {"walk", "header"}
        /\ \/ UNCHANGED <<sent, written>> /\ logged' = logged \union {adding.path}
           \/ /\ packed.err = "ok" /\ written' = Append(written, packed.hdr)
              /\ sent' = src[p] /\ UNCHANGED logged
    BY <1>1 DEF AddHeader, Log, StopsWalk
  <1>5. sent' \in NodeType /\ written' \in Seq(HeaderType)
    <2>1. CASE UNCHANGED <<sent, written>>
      BY <2>1 DEF EntryInv
    <2>2. CASE packed.err = "ok" /\ written' = Append(written, packed.hdr) /\ sent' = src[p]
      <3>1. sent' \in NodeType
        BY <1>2, <1>3, <2>2, TreePaths DEF PackedAs
      <3>2. written' \in Seq(HeaderType)
        BY <1>3, <2>2, AppendProperties DEF EntryInv, PackedAs
      <3>3. QED
        BY <3>1, <3>2
    <2>3. QED
      BY <1>4, <2>1, <2>2
  <1>6. logged' \subseteq seen
    BY <1>2, <1>4 DEF EntryInv
  <1>7. QED
    BY <1>2, <1>3, <1>4, <1>5, <1>6 DEF EntryInv, PackedAs

\* What CopyFileWithTar finds is a node, and not the root.
LEMMA StatEntry ==
    ASSUME SourceInv, EntryInv, StatFile
    PROVE  EntryInv'
  <1>1. IsTree(src)
    BY DEF SourceInv
  <1>2. /\ UNCHANGED <<seen, adding, SeenFiles, opened, written, logged, srcPath>>
        /\ \/ at' = "ended" /\ UNCHANGED sent
           \/ \E p \in Leads : ~IsDir(src, p) /\ at' = "open" /\ sent' = src[p]
    BY DEF StatFile, walk, goroutine
  <1>3. CASE at' = "ended" /\ UNCHANGED sent
    BY <1>2, <1>3 DEF EntryInv
  <1>4. ASSUME NEW p \in Leads, ~IsDir(src, p), at' = "open", sent' = src[p]
        PROVE  EntryInv'
    <2>1. sent' \in NodeType
      BY <1>1, <1>4, TreePaths DEF Leads, Exists
    <2>2. srcPath # << >>
      BY <1>1, <1>4, RootLeads
    <2>3. QED
      BY <1>2, <1>4, <2>1, <2>2 DEF EntryInv
  <1>5. QED
    BY <1>2, <1>3, <1>4

\* The header of the one file of CopyFileWithTar.
LEMMA OpenEntry ==
    ASSUME SourceInv, WalkInv, EntryInv, OpenFile
    PROVE  EntryInv'
  <1>1. IsTree(src) /\ sent \in NodeType /\ srcPath \in Seq(Name) /\ srcPath # << >>
    BY DEF SourceInv, WalkInv, EntryInv, OpenFile
  <1>2. FileHeader \in HeaderType
    <2>1. PICK kind, link, owner, time :
              /\ kind = sent.kind /\ link = sent.link /\ owner = ToHost(sent.owner)
              /\ time = Truncate(sent.time)
      OBVIOUS
    <2>2. kind \in Kind \union {"link"} /\ link \in LinkType
      BY <1>1, <2>1 DEF NodeType
    <2>3. owner \in Nat
      BY <1>1, <2>1, ExtractAssumption DEF NodeType, ToHost
    <2>4. time \in Nat
      BY <1>1, <2>1, TruncateType DEF NodeType
    <2>5. <<Last(srcPath)>> \in Seq(Name)
      <3>1. Len(srcPath) \in 1..Len(srcPath)
        BY <1>1, FrontProperties
      <3>2. Last(srcPath) \in Name
        BY <1>1, <3>1, ElementOfSeq DEF Last
      <3>3. QED
        BY <3>2
    <2>6. QED
      BY <2>1, <2>2, <2>3, <2>4, <2>5 DEF FileHeader, HeaderType
  <1>3. /\ UNCHANGED <<seen, adding, SeenFiles, sent, logged, srcPath>>
        /\ \/ at' = "closing" /\ UNCHANGED <<opened, written>>
           \/ /\ at' = "send" /\ written' = <<FileHeader>>
              /\ \E p \in Leads : opened' = src[p]
    BY DEF OpenFile, walk
  <1>4. CASE at' = "closing" /\ UNCHANGED <<opened, written>>
    BY <1>3, <1>4 DEF EntryInv
  <1>5. ASSUME NEW p \in Leads, opened' = src[p], at' = "send", written' = <<FileHeader>>
        PROVE  EntryInv'
    <2>1. opened' \in NodeType
      BY <1>1, <1>5, TreePaths DEF Leads, Exists
    <2>2. written' \in Seq(HeaderType)
      BY <1>2, <1>5
    <2>3. QED
      BY <1>3, <1>5, <2>1, <2>2 DEF EntryInv
  <1>6. QED
    BY <1>3, <1>4, <1>5

\* Every step keeps the types of what is added.
LEMMA EntryStep ==
    ASSUME SourceInv, SourceKept, WalkInv, EntryInv, [Next]_vars
    PROVE  EntryInv'
  <1>. USE DEF writer, walk, entry, goroutine
  <1>1. EntryStill => EntryInv'
    BY EntryKept
  <1>2. CASE Do /\ UNCHANGED goroutine
    <2>1. CASE Visit \/ AddHeader
      BY <1>2, <2>1, VisitEntry, AddEntry
    <2>2. CASE Start \/ NextInclude \/ ReadNames \/ Walked \/ CloseArchive \/ ClosePipe
      BY <1>1, <1>2, <2>2 DEF EntryStill, Start, NextInclude, ReadNames, Walked, CloseArchive,
                              ClosePipe
    <2>3. CASE HeaderDone \/ AddContents \/ ContentsDone
      <3>1. at \in {"header", "body", "contents"} /\ adding.path \in seen
        BY <2>3 DEF HeaderDone, AddContents, ContentsDone, EntryInv
      <3>2. QED
        BY <1>1, <1>2, <2>3, <3>1
        DEF EntryStill, HeaderDone, AddContents, ContentsDone, StopsWalk, Log
    <2>4. QED
      BY <1>2, <2>1, <2>2, <2>3 DEF Do
  <1>3. CASE StatFile \/ OpenFile
    BY <1>3, StatEntry, OpenEntry
  <1>4. CASE SendDone \/ CopyFile \/ CopyDone
    BY <1>1, <1>4 DEF EntryStill, SendDone, CopyFile, CopyDone
  <1>5. CASE Reader
    BY <1>1, <1>5 DEF EntryStill, Reader, ReadHeader, Extracts, ReadContents, ReadEnd,
                      StreamEnds, EndTarUntar, CloseWithError, EndCopyFile
  <1>6. CASE Disturb
    BY <1>1, <1>6 DEF EntryStill, Disturb, UntarFails, Delete, Rewrite, Replace, Moving
  <1>7. CASE Ended \/ UNCHANGED vars
    BY <1>1, <1>7 DEF EntryStill, Ended, vars
  <1>8. QED
    BY <1>2, <1>3, <1>4, <1>5, <1>6, <1>7 DEF Next, Writer

\* They hold at the start.
LEMMA EntryInit ==
    ASSUME Init
    PROVE  EntryInv
  <1>1. /\ seen = {} /\ logged = {} /\ adding = [path |-> << >>, name |-> << >>]
        /\ SeenFiles = << >> /\ sent = NoNode /\ opened = NoNode /\ written = << >>
        /\ at \in {"start", "stat"}
    BY DEF Init, DoInit
  <1>2. NoNode \in NodeType
    <2>1. << >> \in Seq(Part)
      BY EmptySeq
    <2>2. QED
      BY <2>1 DEF NoNode, Node, NoLink, NodeType, LinkType, Kind
  <1>3. << >> \in Seq(Name) /\ << >> \in Seq(HeaderType) /\ DOMAIN << >> = {}
    BY EmptySeq
  <1>4. QED
    BY <1>1, <1>2, <1>3 DEF EntryInv, NamesAre

-----------------------------------------------------------------------------
(* Every variable has its type.                                            *)

FlagInv ==
    /\ owed \in BOOLEAN /\ wclosed \in BOOLEAN /\ rclosed \in BOOLEAN /\ writerErr \in BOOLEAN
    /\ wire = << >> \/ \E m : wire = <<m>>
    /\ reader \in {"idle", "next", "entry", "body", "returned", "wait", "done"}
    /\ untar \in {"none", "nil", "err"} /\ result \in {"none", "nil", "err"}

\* The steps of the packer keep the flags what they are.
LEMMA DoFlags ==
    ASSUME FlagInv, Do, UNCHANGED <<goroutine, copy>>
    PROVE  FlagInv'
  <1>. USE DEF FlagInv, goroutine, copy, pipe, entry
  <1>1. CASE Start \/ NextInclude \/ Visit \/ ReadNames \/ Walked
    BY <1>1 DEF Start, NextInclude, Visit, ReadNames, Walked
  <1>2. CASE AddHeader
    BY <1>2 DEF AddHeader, StopsWalk, Writes
  <1>3. CASE HeaderDone \/ ContentsDone
    BY <1>3 DEF HeaderDone, ContentsDone, StopsWalk
  <1>4. CASE AddContents
    BY <1>4 DEF AddContents, StopsWalk, Writes
  <1>5. CASE CloseArchive \/ ClosePipe
    BY <1>5 DEF CloseArchive, ClosePipe, Writes
  <1>6. QED
    BY <1>1, <1>2, <1>3, <1>4, <1>5 DEF Do

\* So do those of CopyFileWithTar's writer.
LEMMA FileFlags ==
    ASSUME FlagInv, StatFile \/ OpenFile \/ SendDone \/ CopyFile \/ CopyDone
    PROVE  FlagInv'
  <1>. USE DEF FlagInv, goroutine, copy, pipe, entry
  <1>1. CASE StatFile
    BY <1>1 DEF StatFile
  <1>2. CASE OpenFile
    BY <1>2 DEF OpenFile, Writes
  <1>3. CASE SendDone \/ CopyDone
    BY <1>3 DEF SendDone, CopyDone
  <1>4. CASE CopyFile
    BY <1>4 DEF CopyFile, Writes
  <1>5. QED
    BY <1>1, <1>2, <1>3, <1>4

\* And those of the reading side.
LEMMA ReaderFlags ==
    ASSUME FlagInv, Reader
    PROVE  FlagInv'
  <1>. USE DEF FlagInv, goroutine, copy, pipe, entry, writer
  <1>1. CASE ReadHeader \/ Extracts \/ ReadContents
    BY <1>1 DEF ReadHeader, Extracts, ReadContents, Takes
  <1>2. CASE ReadEnd \/ StreamEnds
    BY <1>2 DEF ReadEnd, StreamEnds, Returns, Takes
  <1>3. CASE EndTarUntar \/ CloseWithError \/ EndCopyFile
    BY <1>3 DEF EndTarUntar, CloseWithError, EndCopyFile, ClosesWithError, CopyResult
  <1>4. QED
    BY <1>1, <1>2, <1>3 DEF Reader

\* And every step.
LEMMA FlagStep ==
    ASSUME FlagInv, [Next]_vars
    PROVE  FlagInv'
  <1>. USE DEF goroutine, copy, pipe, entry, writer
  <1>1. CASE Writer
    BY <1>1, DoFlags, FileFlags DEF Writer
  <1>2. CASE Reader
    BY <1>2, ReaderFlags
  <1>3. CASE Disturb
    BY <1>3 DEF FlagInv, Disturb, UntarFails, Delete, Rewrite, Replace, Moving, Returns
  <1>4. CASE Ended \/ UNCHANGED vars
    BY <1>4 DEF FlagInv, Ended, vars
  <1>5. QED
    BY <1>1, <1>2, <1>3, <1>4 DEF Next

\* The whole invariant behind TypeOK.
TypedInv == IInv /\ SourceKept /\ WalkInv /\ EntryInv /\ FlagInv

\* It holds at the start.
LEMMA InitTyped == Init => TypedInv
  <1>1. ASSUME Init PROVE FlagInv
    BY <1>1 DEF Init, DoInit, FlagInv
  <1>2. QED
    BY <1>1, InitInv, KeptInit, WalkInvInit, EntryInit DEF TypedInv

\* Every step keeps it.
LEMMA StepTyped == TypedInv /\ [Next]_vars => TypedInv'
  BY StepInv, KeptStep, WalkInvStep, EntryStep, FlagStep DEF TypedInv, IInv, ControlInv

\* What has been received is as typed as what was written.
LEMMA ReceivedType ==
    ASSUME TypeInv, SyncInv, EntryInv
    PROVE  received \in Seq([hdr : HeaderType, whole : BOOLEAN])
  <1>1. PICK S, m, n : /\ written \in Seq(S) /\ received \in Seq([hdr : S, whole : BOOLEAN])
                       /\ m = Len(received) /\ n = Len(written)
    BY DEF TypeInv
  <1>2. m \in Nat /\ n \in Nat /\ m <= n /\ written \in Seq(HeaderType)
    BY <1>1, LenProperties DEF SyncInv, EntryInv
  <1>3. \A i \in 1..m : i \in 1..n
    BY <1>2
  <1>4. ASSUME NEW i \in 1..m
        PROVE  received[i] \in [hdr : HeaderType, whole : BOOLEAN]
    <2>1. received[i] \in [hdr : S, whole : BOOLEAN]
      BY <1>1, <1>4, ElementOfSeq
    <2>2. received[i].hdr = written[i]
      BY <1>1, <1>4 DEF SyncInv
    <2>3. written[i] \in HeaderType
      BY <1>1, <1>2, <1>3, <1>4, ElementOfSeq
    <2>4. PICK h, w : received[i] = [hdr |-> h, whole |-> w] /\ w \in BOOLEAN
      BY <2>1
    <2>5. h \in HeaderType
      BY <2>2, <2>3, <2>4
    <2>6. QED
      BY <2>4, <2>5
  <1>5. received = [i \in 1..m |-> received[i]]
    BY <1>1, LenProperties
  <1>6. PICK T : T = [hdr : HeaderType, whole : BOOLEAN]
    OBVIOUS
  <1>7. \A i \in 1..m : received[i] \in T
    BY <1>4, <1>6
  <1>8. [i \in 1..m |-> received[i]] \in Seq(T)
    BY <1>2, <1>7, IsASeq
  <1>9. QED
    BY <1>5, <1>6, <1>8

\* TypeOK follows.
LEMMA TypedOK == TypedInv => TypeOK
  <1>. SUFFICES ASSUME TypedInv PROVE TypeOK
    OBVIOUS
  <1>1. /\ SourceInv /\ AtInv /\ PendingInv /\ WalkInv /\ EntryInv /\ FlagInv
        /\ TypeInv /\ SyncInv
    BY DEF TypedInv, IInv, ControlInv
  <1>2. IsTree(src) /\ faults \in Nat
    BY <1>1 DEF SourceInv
  <1>3. at \in {"start", "stat", "walk", "add", "header", "body", "contents", "open", "send", "copy",
                "copied", "close", "closing", "ended"}
    BY <1>1 DEF AtInv
  <1>4. /\ srcPath \in Seq(Name) /\ unwalked \in Seq(Seq(Name)) /\ include \in Seq(Name)
        /\ todo \in Seq([path : Seq(Name), dir : BOOLEAN, read : BOOLEAN])
        /\ Stacked(include, parents)
    BY <1>1 DEF WalkInv, Queued, ItemType
  <1>5. PICK n : n = Len(parents)
    OBVIOUS
  <1>6. n \in Nat /\ \A i \in 1..n : parents[i].dir \in Seq(Name)
    <2>1. parents \in Seq(StackType)
      BY <1>4 DEF Stacked
    <2>2. n \in Nat /\ \A i \in 1..n : parents[i] \in StackType
      BY <1>5, <2>1, LenProperties, ElementOfSeq
    <2>3. QED
      BY <2>2 DEF StackType
  <1>7. \A i \in 1..n : Under(include, parents[i].dir)
    BY <1>4, <1>5, <1>6, BelowIsLonger DEF Stacked
  <1>8. \A i \in 1..n-1 : Below(parents[i].dir, parents[i+1].dir)
    <2>1. TAKE i \in 1..n-1
    <2>2. i \in 1..n /\ i + 1 \in 1..n /\ i < i + 1
      BY <1>6
    <2>3. QED
      BY <1>4, <1>5, <2>2 DEF Stacked
  <1>9. /\ seen \subseteq Seq(Name) /\ logged \subseteq seen
        /\ adding \in [path : Seq(Name), name : Seq(Name)]
        /\ sent \in NodeType /\ opened \in NodeType /\ written \in Seq(HeaderType)
    BY <1>1 DEF EntryInv
  <1>10. /\ owed \in BOOLEAN /\ wclosed \in BOOLEAN /\ rclosed \in BOOLEAN
         /\ writerErr \in BOOLEAN
         /\ reader \in {"idle", "next", "entry", "body", "returned", "wait", "done"}
         /\ untar \in {"none", "nil", "err"} /\ result \in {"none", "nil", "err"}
    BY <1>1 DEF FlagInv
  <1>11. Len(wire) <= 1
    <2>1. CASE wire = << >>
      BY <2>1
    <2>2. CASE wire # << >>
      <3>1. PICK m : wire = <<m>>
        BY <1>1, <2>2 DEF FlagInv
      <3>2. QED
        BY <3>1
    <2>3. QED
      BY <2>1, <2>2
  <1>12. owed => written # << >> /\ Last(written).type # "link"
    BY <1>1 DEF PendingInv
  <1>13. received \in Seq([hdr : HeaderType, whole : BOOLEAN])
    BY <1>1, ReceivedType
  <1>14. QED
    BY <1>2, <1>3, <1>4, <1>5, <1>7, <1>8, <1>9, <1>10, <1>11, <1>12, <1>13 DEF TypeOK

\* TypeOK for every source, case and number of failures: the parents whose match
\* results Tarballer.Do keeps lie each below the one before and below the include,
\* whatever it visits and whatever goes meanwhile, and what is announced and owed
\* is a file.
THEOREM TypeCorrect == Spec => []TypeOK
  BY InitTyped, StepTyped, TypedOK, PTL DEF Spec

-----------------------------------------------------------------------------
(* What is asked for depends on the options alone.                         *)

\* A path is left out only if it is the source directory itself.
Wanted(p) == p # << >> \/ options.IncludeSourceDir

\* The includes, and the directory they are in, are those of the options.
LEMMA SameIncludes ==
    ASSUME UNCHANGED options
    PROVE  Includes' = Includes /\ Base' = Base /\ FromDir' = FromDir
  BY DEF Includes, Base, FromDir, IsDir, Exists

\* So is what an include asks for.
LEMMA SameAskedBy ==
    ASSUME UNCHANGED options
    PROVE  \A inc, p : AskedBy(inc, p)' = AskedBy(inc, p)
  BY DEF AskedBy, MatchesOrParentMatches, Fits, FitsAbove, Patterns

\* So are the names.
LEMMA SameName ==
    ASSUME UNCHANGED options
    PROVE  \A p : AskedName(p)' = AskedName(p)
  <1>1. \A inc, p : AskedBy(inc, p)' = AskedBy(inc, p)
    BY SameAskedBy
  <1>2. Includes' = Includes
    BY SameIncludes
  <1>3. TAKE p
  <1>4. {i \in 1..Len(Includes) : AskedBy(Includes[i], p)}' = {i \in 1..Len(Includes) : AskedBy(Includes[i], p)}
    BY <1>1, <1>2
  <1>5. QED
    BY <1>2, <1>4 DEF AskedName, Rebased

\* So is all that is asked for.
LEMMA SameAsked ==
    ASSUME UNCHANGED options
    PROVE  Asked' = Asked
  <1>1. \A inc, p : AskedBy(inc, p)' = AskedBy(inc, p)
    BY SameAskedBy
  <1>2. Includes' = Includes /\ Base' = Base
    BY SameIncludes
  <1>3. QED
    BY <1>1, <1>2 DEF Asked

\* So are the rules about owners, exclusions and names.
LEMMA SameRules ==
    ASSUME UNCHANGED options
    PROVE  /\ NamesDiffer' = NamesDiffer
           /\ \A p : Ownable(p)' = Ownable(p)
           /\ ExclusionsArePlain' = ExclusionsArePlain
           /\ \A p : Wanted(p)' = Wanted(p)
  <1>1. Asked' = Asked /\ \A p : AskedName(p)' = AskedName(p)
    BY SameAsked, SameName
  <1>2. NamesDiffer' = NamesDiffer
    BY <1>1 DEF NamesDiffer
  <1>3. \A p : Ownable(p)' = Ownable(p)
    BY SameIncludes DEF Ownable
  <1>4. ExclusionsArePlain' = ExclusionsArePlain
    BY DEF ExclusionsArePlain, Patterns
  <1>5. \A p : Wanted(p)' = Wanted(p)
    BY DEF Wanted
  <1>6. QED
    BY <1>2, <1>3, <1>4, <1>5

\* The includes are paths, in the directory that the walk is of.
LEMMA IncludesType ==
    ASSUME options \in Cases
    PROVE  /\ Includes \in Seq(Seq(Name)) /\ Base \in Seq(Name)
           /\ ~FromDir => /\ options.srcPath # << >> /\ ~options.IncludeSourceDir
                          /\ Len(Includes) = 1 /\ Includes[1] # << >>
                          /\ Base \o Includes[1] = options.srcPath
  <1>1. /\ IsTree(options.src) /\ options.srcPath \in Seq(Name)
        /\ options.IncludeFiles \in Seq(Seq(Name))
        /\ options.IncludeSourceDir => IsDir(options.src, options.srcPath)
    BY CopyAssumption
  <1>2. CASE FromDir
    <2>1. << << >> >> \in Seq(Seq(Name))
      BY EmptySeq
    <2>2. QED
      BY <1>1, <1>2, <2>1 DEF Includes, Base
  <1>3. CASE ~FromDir
    <2>1. options.srcPath # << >>
      BY <1>1, <1>3 DEF FromDir, IsTree, WellFormed, IsDir, Exists
    <2>2. PICK p, x : p = options.srcPath /\ x = Last(p)
      OBVIOUS
    <2>3. Front(p) \in Seq(Name) /\ Len(p) \in 1..Len(p)
      BY <1>1, <2>1, <2>2, FrontProperties
    <2>4. x \in Name
      BY <1>1, <2>2, <2>3, ElementOfSeq DEF Last
    <2>5. Includes = << <<x>> >> /\ Base = Front(p)
      BY <1>3, <2>2 DEF Includes, Base
    <2>6. Front(p) \o <<x>> = p
      <3>1. Append(Front(p), x) = p
        BY <1>1, <2>1, <2>2, FrontLast
      <3>2. QED
        BY <2>3, <2>4, <3>1, AppendIsConcat
    <2>7. Includes \in Seq(Seq(Name)) /\ Len(Includes) = 1 /\ Includes[1] = <<x>>
      BY <2>4, <2>5
    <2>8. <<x>> # << >>
      OBVIOUS
    <2>9. QED
      BY <1>1, <1>3, <2>1, <2>2, <2>3, <2>5, <2>6, <2>7, <2>8 DEF FromDir
  <1>4. QED
    BY <1>2, <1>3

\* What is asked for, in one piece.
LEMMA AskedIs ==
    ASSUME options \in Cases, NEW p
    PROVE  p \in Asked <=>
               /\ p \in Seq(Name) /\ Base \o p \in DOMAIN options.src /\ Wanted(p)
               /\ \E i \in 1..Len(Includes) : AskedBy(Includes[i], p)
  <1>1. Base \in Seq(Name) /\ IsTree(options.src)
    BY IncludesType, CopyAssumption
  <1>2. PICK rest : rest = {SubSeq(q, Len(Base) + 1, Len(q)) :
                               q \in {r \in DOMAIN options.src : Under(Base, r)}}
    OBVIOUS
  <1>3. p \in rest <=> p \in Seq(Name) /\ Base \o p \in DOMAIN options.src
    <2>1. ASSUME p \in rest
          PROVE  p \in Seq(Name) /\ Base \o p \in DOMAIN options.src
      <3>1. PICK q \in DOMAIN options.src : Under(Base, q) /\ p = SubSeq(q, Len(Base) + 1, Len(q))
        BY <1>2, <2>1
      <3>2. q \in Seq(Name)
        BY <1>1, TreePaths
      <3>3. PICK b, n : b = Len(Base) /\ n = Len(q)
        OBVIOUS
      <3>4. b \in Nat /\ n \in Nat /\ b <= n /\ b + 1 >= 1
        BY <1>1, <3>1, <3>2, <3>3, LenProperties DEF Under
      <3>5. \A i \in b+1..n : i \in 1..n
        BY <3>4
      <3>6. p = SubSeq(q, b + 1, n) /\ \A i \in b+1..n : q[i] \in Name
        BY <3>1, <3>2, <3>3, <3>5, ElementOfSeq
      <3>7. p \in Seq(Name)
        BY <3>3, <3>4, <3>6, SubSeqProperties
      <3>8. Base = SubSeq(q, 1, b)
        <4>1. b \in 0..Len(q)
          BY <3>3, <3>4
        <4>2. QED
          BY <1>1, <3>1, <3>2, <3>3, <4>1, FirstParts
      <3>9. Base \o p = q
        <4>1. 1 \in 1..Len(q)+1 /\ b \in 1-1..Len(q) /\ n \in b..Len(q)
          BY <3>3, <3>4
        <4>2. SubSeq(q, 1, b) \o SubSeq(q, b + 1, n) = SubSeq(q, 1, n)
          BY <3>2, <4>1, ConcatAdjacentSubSeq
        <4>3. SubSeq(q, 1, n) = q
          BY <3>2, <3>3, SubSeqFull
        <4>4. QED
          BY <3>6, <3>8, <4>2, <4>3
      <3>10. QED
        BY <3>1, <3>7, <3>9
    <2>2. ASSUME p \in Seq(Name), Base \o p \in DOMAIN options.src
          PROVE  p \in rest
      <3>1. /\ Under(Base, Base \o p)
            /\ SubSeq(Base \o p, Len(Base) + 1, Len(Base \o p)) = p
        BY <1>1, <2>2, UnderBehind
      <3>2. QED
        BY <1>2, <2>2, <3>1
    <2>3. QED
      BY <2>1, <2>2
  <1>4. QED
    BY <1>2, <1>3 DEF Asked, Wanted

-----------------------------------------------------------------------------
(* How far the walk has come.                                              *)

Holds(items, x) == \E i \in 1..Len(items) : items[i] = x

\* The other items stay when the first one is replaced.
Replaced(items, s, new) ==
    /\ \A x : Holds(new, x) => Holds(s, x) \/ Holds(items, x)
    /\ \A x : Holds(s, x) => Holds(new, x)
    /\ \A x : Holds(items, x) => x = Head(items) \/ Holds(new, x)

\* A sequence in the place of the first item replaces it that way.
LEMMA ReplaceFirst ==
    ASSUME NEW S, NEW items \in Seq(S), items # << >>, NEW s \in Seq(S),
           NEW new, new = s \o Tail(items)
    PROVE  Replaced(items, s, new)
  <1>1. PICK m, n, t : m = Len(s) /\ n = Len(t) /\ t = Tail(items)
    OBVIOUS
  <1>2. /\ t \in Seq(S) /\ n \in Nat /\ Len(items) = n + 1
        /\ Head(items) = items[1]
        /\ \A k \in 1..n : k + 1 \in 1..n+1 /\ t[k] = items[k + 1]
        /\ \A i \in 1..n+1 : i = 1 \/ \E k \in 1..n : i = k + 1
    BY <1>1, HeadAndTail
  <1>3. Joined(new, s, m, t, n)
    BY <1>1, <1>2, ConcatParts
  <1>4. ASSUME NEW x, Holds(new, x)
        PROVE  Holds(s, x) \/ Holds(items, x)
    <2>1. PICK i \in 1..m+n : new[i] = x
      BY <1>3, <1>4 DEF Holds, Joined
    <2>2. CASE i \in 1..m
      BY <1>1, <1>3, <2>1, <2>2 DEF Holds, Joined
    <2>3. CASE i \notin 1..m
      <3>1. PICK k \in 1..n : i = m + k
        BY <1>3, <2>3 DEF Joined
      <3>2. x = items[k + 1] /\ k + 1 \in 1..Len(items)
        BY <1>2, <1>3, <2>1, <3>1 DEF Joined
      <3>3. QED
        BY <3>2 DEF Holds
    <2>4. QED
      BY <2>2, <2>3
  <1>5. ASSUME NEW x, Holds(s, x)
        PROVE  Holds(new, x)
    BY <1>1, <1>3, <1>5 DEF Holds, Joined
  <1>6. ASSUME NEW x, Holds(items, x), x # Head(items)
        PROVE  Holds(new, x)
    <2>1. PICK i \in 1..n+1 : items[i] = x
      BY <1>2, <1>6 DEF Holds
    <2>2. PICK k \in 1..n : i = k + 1
      BY <1>2, <1>6, <2>1
    <2>3. x = new[m + k] /\ m + k \in 1..Len(new)
      BY <1>2, <1>3, <2>1, <2>2 DEF Joined
    <2>4. QED
      BY <2>3 DEF Holds
  <1>7. QED
    BY <1>4, <1>5, <1>6 DEF Replaced

\* Without anything in its place, and with one thing.
LEMMA DropFirst ==
    ASSUME NEW S, NEW items \in Seq(S), items # << >>
    PROVE  /\ Holds(items, Head(items))
           /\ \A x : Holds(Tail(items), x) => Holds(items, x)
           /\ \A x : Holds(items, x) => x = Head(items) \/ Holds(Tail(items), x)
  <1>1. PICK none : none = << >> /\ none \in Seq(S) /\ Len(none) = 0
    BY EmptySeq
  <1>2. Tail(items) \in Seq(S) /\ Tail(items) = none \o Tail(items)
    BY <1>1, HeadTailProperties, ConcatEmptySeq
  <1>3. Replaced(items, none, Tail(items))
    BY <1>1, <1>2, ReplaceFirst
  <1>4. \A x : ~Holds(none, x)
    BY <1>1 DEF Holds
  <1>5. Holds(items, Head(items))
    <2>1. Head(items) = items[1] /\ 1 \in 1..Len(items)
      <3>1. PICK n : n = Len(Tail(items))
        OBVIOUS
      <3>2. QED
        BY <3>1, HeadAndTail
    <2>2. QED
      BY <2>1 DEF Holds
  <1>6. \A x : Holds(Tail(items), x) => Holds(items, x)
    BY <1>3, <1>4 DEF Replaced
  <1>7. \A x : Holds(items, x) => x = Head(items) \/ Holds(Tail(items), x)
    BY <1>3 DEF Replaced
  <1>8. QED
    BY <1>5, <1>6, <1>7

ItemCovers(item, p) == IF item.read THEN Below(item.path, p) ELSE Under(item.path, p)
Covers(items, p) == \E x : Holds(items, x) /\ ItemCovers(x, p)

\* The include the walk has come to.
Come == Len(Includes) - Len(unwalked)

\* Nothing so far keeps the copy from ending without an error.
Clean == ExclusionsArePlain /\ ~owed /\ (~rclosed \/ untar = "nil")

\* The walk takes one include after the other.
RouteInv ==
    /\ srcPath = Base /\ Len(unwalked) <= Len(Includes)
    /\ \A i \in 1..Len(unwalked) : unwalked[i] = Includes[Come + i]
    /\ todo # << >> => Come \in 1..Len(Includes) /\ include = Includes[Come]

\* An item is of the source; below one that is no directory there is nothing.
ItemInv ==
    \A x : Holds(todo, x) =>
        /\ Source(x.path) \in DOMAIN options.src
        /\ ~x.dir => \A q \in DOMAIN src : ~Below(Source(x.path), q)
        /\ x.path = << >> => x.dir

\* What an earlier include asks for has been seen.
EarlierInv ==
    \A x : Holds(todo, x) /\ Wanted(x.path) =>
        \A j \in 1..Come-1 : AskedBy(Includes[j], x.path) => x.path \in seen

\* What is there and has been asked for so far is seen or still to come.
CoverInv ==
    \A j \in 1..Come, p \in Seq(Name) :
        Source(p) \in DOMAIN src /\ Wanted(p) /\ AskedBy(Includes[j], p) =>
            p \in seen \/ (j = Come /\ Covers(todo, p))

\* What is seen was asked for; it is added under its name.
SeenInv ==
    /\ seen \subseteq Asked
    /\ at = "add" => adding.name = AskedName(adding.path)

Beside(p) == at = "add" => p # adding.path
HasName(p) == \E i \in 1..Len(written) : written[i].name = AskedName(p)

\* What is seen is added, has been, or could not be.
NameInv ==
    /\ \A i \in 1..Len(written) :
          \E p \in seen : Beside(p) /\ written[i].name = AskedName(p)
    /\ NamesDiffer => \A i, j \in 1..Len(written) : written[i].name = written[j].name => i = j
    /\ \A p \in seen : \/ at = "add" /\ p = adding.path
                       \/ HasName(p)
                       \/ p \in logged /\ (Touched(Base \o p) \/ ~Ownable(p))

ArchInv == RouteInv /\ ItemInv /\ EarlierInv /\ CoverInv /\ SeenInv /\ NameInv

\* A file to copy that went, or became a directory, before the walk began.
Lost ==
    /\ srcPath = options.srcPath /\ ~FromDir
    /\ seen = {} /\ written = << >> /\ at \notin {"add", "header", "body", "contents"}
    /\ options.srcPath \in DOMAIN options.src => Touched(options.srcPath)
    /\ \A q \in DOMAIN src : Under(srcPath, q) => q = srcPath /\ IsDir(src, q)
    /\ \A x : Holds(todo, x) => x.path = << >> /\ x.dir

AskInv ==
    ~CopiesFile =>
        /\ at = "start" => srcPath = options.srcPath /\ seen = {}
        /\ at # "start" => Lost \/ (Clean => ArchInv)

-----------------------------------------------------------------------------
(* A step that leaves the walk alone.                                      *)

\* The walk stands, and the source may lose files meanwhile.
WalkStands ==
    /\ UNCHANGED <<options, srcPath, unwalked, include, todo, seen, adding>>
    /\ touched \subseteq touched'
    /\ DOMAIN src' \subseteq DOMAIN src
    /\ \A q \in DOMAIN src' : IsDir(src, q) => IsDir(src', q)

\* Nor is anything written; errors may be logged.
AskStill == WalkStands /\ UNCHANGED written /\ logged \subseteq logged'

\* What is touched stays so.
LEMMA TouchedStill ==
    ASSUME touched \subseteq touched'
    PROVE  \A q : Touched(q) => Touched(q)'
  BY DEF Touched

\* How far the walk has come, without what is written.
ComeInv == RouteInv /\ ItemInv /\ EarlierInv /\ CoverInv /\ SeenInv

\* It stays so while the walk stands.
LEMMA ComeStill ==
    ASSUME WalkStands, ComeInv, at' = "add" => at = "add"
    PROVE  ComeInv'
  <1>. USE DEF WalkStands
  <1>1. /\ Includes' = Includes /\ Base' = Base /\ Asked' = Asked
        /\ \A inc, p : AskedBy(inc, p)' = AskedBy(inc, p)
        /\ \A p : AskedName(p)' = AskedName(p)
    BY SameIncludes, SameAsked, SameAskedBy, SameName
  <1>2. \A p : Wanted(p)' = Wanted(p)
    BY SameRules
  <1>3. Come' = Come /\ \A p : Source(p)' = Source(p)
    BY <1>1 DEF Come, Source
  <1>4. RouteInv'
    BY <1>1, <1>3 DEF ComeInv, RouteInv
  <1>5. ItemInv'
    <2>1. SUFFICES ASSUME NEW x, Holds(todo, x)
                   PROVE  /\ Source(x.path)' \in DOMAIN options'.src
                          /\ ~x.dir => \A q \in DOMAIN src' : ~Below(Source(x.path)', q)
                          /\ x.path = << >> => x.dir
      BY DEF ItemInv, Holds
    <2>2. QED
      BY <1>3, <2>1 DEF ComeInv, ItemInv
  <1>6. EarlierInv'
    <2>1. SUFFICES ASSUME NEW x, Holds(todo, x), Wanted(x.path), NEW j \in 1..Come-1,
                          AskedBy(Includes[j], x.path)
                   PROVE  x.path \in seen
      BY <1>1, <1>2, <1>3 DEF EarlierInv, Holds
    <2>2. QED
      BY <2>1 DEF ComeInv, EarlierInv
  <1>7. CoverInv'
    <2>1. SUFFICES ASSUME NEW j \in 1..Come, NEW p \in Seq(Name),
                          Source(p) \in DOMAIN src, Wanted(p), AskedBy(Includes[j], p)
                   PROVE  p \in seen \/ (j = Come /\ Covers(todo, p))
      BY <1>1, <1>2, <1>3 DEF CoverInv, Covers, Holds
    <2>2. QED
      BY <2>1 DEF ComeInv, CoverInv
  <1>8. SeenInv'
    BY <1>1 DEF ComeInv, SeenInv
  <1>9. QED
    BY <1>4, <1>5, <1>6, <1>7, <1>8 DEF ComeInv

\* The whole of it stays while nothing is written either.
LEMMA ArchStill ==
    ASSUME AskStill, ArchInv, at' = "add" <=> at = "add"
    PROVE  ArchInv'
  <1>. USE DEF AskStill, WalkStands
  <1>1. ComeInv'
    BY ComeStill DEF ArchInv, ComeInv
  <1>2. /\ Base' = Base /\ \A p : AskedName(p)' = AskedName(p)
        /\ NamesDiffer' = NamesDiffer /\ \A p : Ownable(p)' = Ownable(p)
    BY SameIncludes, SameName, SameRules
  <1>3. NameInv'
    <2>1. \A p : Beside(p)' = Beside(p)
      BY DEF Beside
    <2>2. \A p : HasName(p)' = HasName(p)
      BY <1>2 DEF HasName
    <2>3. \A p : Touched(Base \o p) => Touched(Base \o p)'
      BY <1>2, TouchedStill
    <2>4. \A i \in 1..Len(written) : \E p \in seen : Beside(p) /\ written[i].name = AskedName(p)
      BY DEF ArchInv, NameInv
    <2>5. NamesDiffer => \A i, j \in 1..Len(written) : written[i].name = written[j].name => i = j
      BY DEF ArchInv, NameInv
    <2>6. \A p \in seen : \/ at = "add" /\ p = adding.path
                          \/ HasName(p)
                          \/ p \in logged /\ (Touched(Base \o p) \/ ~Ownable(p))
      BY DEF ArchInv, NameInv
    <2>7. \A p \in seen : \/ at' = "add" /\ p = adding'.path
                          \/ HasName(p)'
                          \/ p \in logged' /\ (Touched(Base \o p)' \/ ~Ownable(p)')
      BY <1>2, <2>2, <2>3, <2>6
    <2>8. QED
      BY <1>2, <2>1, <2>4, <2>5, <2>7 DEF NameInv
  <1>4. QED
    BY <1>1, <1>3 DEF ArchInv, ComeInv

\* A file that is lost stays lost.
LEMMA LostStill ==
    ASSUME AskStill, Lost, at' \notin {"add", "header", "body", "contents"}
    PROVE  Lost'
  <1>. USE DEF AskStill, WalkStands
  <1>1. FromDir' = FromDir
    BY SameIncludes
  <1>2. \A q : Touched(q) => Touched(q)'
    BY TouchedStill
  <1>3. options.srcPath \in DOMAIN options.src => Touched(options.srcPath)'
    BY <1>2 DEF Lost
  <1>4. \A q \in DOMAIN src' : Under(srcPath, q) => q = srcPath /\ IsDir(src', q)
    BY DEF Lost
  <1>5. \A x : Holds(todo, x) => x.path = << >> /\ x.dir
    BY DEF Lost
  <1>6. /\ srcPath = options.srcPath /\ ~FromDir /\ seen = {} /\ written = << >>
    BY DEF Lost
  <1>7. QED
    BY <1>1, <1>3, <1>4, <1>5, <1>6 DEF Lost, Holds

-----------------------------------------------------------------------------
(* What keeps a copy from ending without an error is not undone.           *)

\* No step changes the options.
LEMMA SameOptions ==
    ASSUME AtInv, [Next]_vars
    PROVE  UNCHANGED options
  <1>1. CASE Do
    BY <1>1, DoSource
  <1>2. CASE Writer /\ ~Do
    BY <1>2 DEF Writer, StatFile, OpenFile, SendDone, CopyFile, CopyDone
  <1>3. CASE Reader
    BY <1>3 DEF Reader, ReadHeader, Extracts, ReadContents, ReadEnd, StreamEnds, EndTarUntar,
       CloseWithError, EndCopyFile, writer
  <1>4. CASE Disturb
    BY <1>4 DEF Disturb, UntarFails, Delete, Rewrite, Replace, Moving, writer
  <1>5. CASE UNCHANGED vars
    BY <1>5 DEF vars, writer
  <1>6. QED
    BY <1>1, <1>2, <1>3, <1>4, <1>5 DEF Next, Ended

\* Contents that are owed stay owed, and so does the reader's closed end.
ClosedEnd == rclosed => rclosed' /\ UNCHANGED untar
OwedStays == owed => owed'

\* No step of TarUntar pays what is owed or opens a closed end again.
LEMMA NeverUndone ==
    ASSUME AtInv, ~CopiesFile, [Next]_vars
    PROVE  OwedStays /\ ClosedEnd
  <1>. USE DEF OwedStays, ClosedEnd
  <1>1. CASE Do /\ UNCHANGED <<goroutine, copy, faults, touched>>
    <2>1. UNCHANGED <<untar, rclosed>>
      BY <1>1 DEF Do, Start, NextInclude, Visit, ReadNames, Walked, AddHeader, HeaderDone,
         AddContents, ContentsDone, CloseArchive, ClosePipe, StopsWalk, Writes, copy, pipe
    <2>2. owed => owed'
      BY <1>1 DEF Do, Start, NextInclude, Visit, ReadNames, Walked, AddHeader, HeaderDone,
         AddContents, ContentsDone, CloseArchive, ClosePipe, StopsWalk, Writes, copy, entry
    <2>3. QED
      BY <2>1, <2>2
  <1>2. CASE StatFile \/ OpenFile \/ SendDone \/ CopyFile \/ CopyDone
    BY <1>2 DEF AtInv, StatFile, OpenFile, SendDone, CopyFile, CopyDone
  <1>3. CASE Reader
    <2>1. owed' = owed
      BY <1>3 DEF Reader, ReadHeader, Extracts, ReadContents, ReadEnd, StreamEnds, EndTarUntar,
         CloseWithError, EndCopyFile, writer, entry
    <2>2. CASE reader \in {"wait", "done"}
      BY <1>3, <2>1, <2>2 DEF Reader, ReadHeader, Extracts, ReadContents, ReadEnd, StreamEnds,
         EndTarUntar, CloseWithError, EndCopyFile, pipe
    <2>3. CASE ~rclosed
      BY <2>1, <2>3
    <2>4. QED
      BY <2>2, <2>3 DEF AtInv
  <1>4. CASE Disturb
    <2>1. UNCHANGED <<owed, rclosed>>
      BY <1>4 DEF Disturb, UntarFails, Delete, Rewrite, Replace, Moving, writer, entry, pipe
    <2>2. rclosed => UNCHANGED untar
      BY <1>4 DEF AtInv, Disturb, UntarFails, Reading, Delete, Rewrite, Replace, Moving, copy
    <2>3. QED
      BY <2>1, <2>2
  <1>5. CASE UNCHANGED vars
    BY <1>5 DEF vars, writer, entry, pipe, copy
  <1>6. QED
    BY <1>1, <1>2, <1>3, <1>4, <1>5 DEF Next, Ended, Writer

\* If nothing keeps the copy from it after a step, nothing did before.
LEMMA CleanBefore ==
    ASSUME TypedInv, ~CopiesFile, [Next]_vars, Clean'
    PROVE  Clean
  <1>1. AtInv
    BY DEF TypedInv, IInv, ControlInv
  <1>2. ExclusionsArePlain' = ExclusionsArePlain
    BY <1>1, SameOptions, SameRules
  <1>3. OwedStays /\ ClosedEnd
    BY <1>1, NeverUndone
  <1>4. ExclusionsArePlain /\ ~owed
    BY <1>2, <1>3 DEF Clean, OwedStays
  <1>5. ~rclosed \/ untar = "nil"
    BY <1>3 DEF Clean, ClosedEnd
  <1>6. QED
    BY <1>4, <1>5 DEF Clean

\* While the walk goes on, nothing is owed and the pipe is open.
LEMMA CleanWalk ==
    ASSUME TypedInv, Clean, at \notin {"closing", "ended"}
    PROVE  ~rclosed /\ ~owed
  BY DEF TypedInv, IInv, ControlInv, ResultInv, Clean

-----------------------------------------------------------------------------
(* The walk begins, and comes to an include.                               *)

\* Nothing is seen or written yet, and what there is to walk is all to come.
Begun ==
    /\ UNCHANGED <<options, src, seen, written>> /\ seen = {} /\ written = << >>
    /\ todo' = << >> /\ srcPath' = Base /\ at' # "add"
    /\ \/ unwalked' = Includes
       \/ unwalked' = << >> /\ \A q \in DOMAIN src : ~Under(Base, q)

\* From there on the account of the walk is right.
LEMMA ArchBegun ==
    ASSUME options \in Cases, Begun
    PROVE  ArchInv'
  <1>. USE DEF Begun
  <1>1. /\ Includes' = Includes /\ Base' = Base /\ Asked' = Asked
        /\ \A inc, p : AskedBy(inc, p)' = AskedBy(inc, p)
    BY SameIncludes, SameAsked, SameAskedBy
  <1>2. PICK n : n = Len(Includes) /\ n \in Nat
    BY IncludesType
  <1>3. Come' = 0 \/ (Come' = n /\ \A q \in DOMAIN src : ~Under(Base, q))
    <2>1. Come' = n - Len(unwalked')
      BY <1>1, <1>2 DEF Come
    <2>2. unwalked' = << >> => Len(unwalked') = 0
      BY EmptySeq
    <2>3. QED
      BY <1>2, <2>1, <2>2
  <1>4. RouteInv'
    <2>1. CASE unwalked' = Includes
      <3>1. Come' = 0
        BY <1>1, <1>2, <2>1 DEF Come
      <3>2. \A i \in 1..Len(unwalked') : unwalked'[i] = Includes[0 + i]
        BY <2>1, <1>2
      <3>3. QED
        BY <1>1, <1>2, <2>1, <3>1, <3>2 DEF RouteInv
    <2>2. CASE unwalked' = << >>
      <3>1. Len(unwalked') = 0
        BY <2>2, EmptySeq
      <3>2. \A i \in 1..Len(unwalked') : FALSE
        BY <3>1
      <3>3. Len(unwalked') <= n
        BY <3>1, <1>2
      <3>4. QED
        BY <1>1, <1>2, <3>2, <3>3 DEF RouteInv
    <2>3. QED
      BY <2>1, <2>2
  <1>5. \A x : ~Holds(todo', x)
    <2>1. Len(todo') = 0
      BY EmptySeq
    <2>2. QED
      BY <2>1 DEF Holds
  <1>6. \A x : ~Holds(todo, x)'
    BY <1>5 DEF Holds
  <1>7. ItemInv' /\ EarlierInv'
    BY <1>6 DEF ItemInv, EarlierInv
  <1>8. CoverInv'
    <2>1. ASSUME NEW j \in 1..Come', NEW p \in Seq(Name), Source(p)' \in DOMAIN src
          PROVE  FALSE
      <3>1. Source(p)' = Base \o p /\ Under(Base, Base \o p)
        BY <2>1, IncludesType, UnderBehind DEF Source
      <3>2. Come' = 0
        BY <1>3, <2>1, <3>1
      <3>3. QED
        BY <2>1, <3>2
    <2>2. QED
      BY <2>1 DEF CoverInv
  <1>9. SeenInv'
    BY <1>1 DEF SeenInv
  <1>10. NameInv'
    <2>1. Len(written') = 0
      BY EmptySeq
    <2>2. \A i \in 1..Len(written') : FALSE
      BY <2>1
    <2>3. seen' = {}
      OBVIOUS
    <2>4. \A i \in 1..Len(written') :
              \E p \in seen' : Beside(p)' /\ written'[i].name = AskedName(p)'
      BY <2>2
    <2>5. \A i, j \in 1..Len(written') : written'[i].name = written'[j].name => i = j
      BY <2>2
    <2>6. \A p \in seen' : \/ at' = "add" /\ p = adding'.path
                           \/ HasName(p)'
                           \/ p \in logged' /\ (Touched(Base \o p)' \/ ~Ownable(p)')
      BY <2>3
    <2>7. QED
      BY <2>4, <2>5, <2>6, <1>1 DEF NameInv
  <1>11. QED
    BY <1>4, <1>7, <1>8, <1>9, <1>10 DEF ArchInv

\* Or a file to copy was lost before.
NothingBegun ==
    /\ UNCHANGED <<options, src, seen, written, todo, srcPath, touched>>
    /\ seen = {} /\ written = << >> /\ todo = << >> /\ srcPath = options.srcPath /\ ~FromDir
    /\ at' \notin {"add", "header", "body", "contents"}
    /\ srcPath \in DOMAIN options.src => Touched(srcPath)
    /\ \A q \in DOMAIN src : Under(srcPath, q) => q = srcPath /\ IsDir(src, q)

\* Such a file is lost.
LEMMA LostBegun ==
    ASSUME NothingBegun
    PROVE  Lost'
  <1>. USE DEF NothingBegun
  <1>1. FromDir' = FromDir /\ (Touched(srcPath) => Touched(srcPath)')
    BY SameIncludes, TouchedStill
  <1>2. \A x : ~Holds(todo, x)'
    <2>1. Len(todo') = 0
      BY EmptySeq
    <2>2. QED
      BY <2>1 DEF Holds
  <1>3. \A q \in DOMAIN src' : Under(srcPath', q) => q = srcPath' /\ IsDir(src', q)
    BY DEF IsDir, Exists
  <1>4. QED
    BY <1>1, <1>2, <1>3 DEF Lost

\* The source is a directory, a file, or missing; what it was tells whether a file
\* to copy was lost.
LEMMA StartAsk ==
    ASSUME TypedInv, AskInv, ~CopiesFile, Start, UNCHANGED touched
    PROVE  AskInv'
  <1>. USE DEF Start
  <1>1. /\ SourceKept /\ SourceInv /\ WalkInv /\ AtInv /\ EntryInv
        /\ options \in Cases /\ srcPath \in Seq(Name)
    BY DEF TypedInv, IInv, ControlInv, SourceKept, WalkInv
  <1>2. /\ srcPath = options.srcPath /\ seen = {} /\ written = << >>
        /\ todo = << >> /\ unwalked = << >>
    BY <1>1 DEF AskInv, AtInv, WalkInv
  <1>3. UNCHANGED <<options, src, seen, written, todo>>
    BY DEF entry
  <1>4. /\ \A q \in DOMAIN src : IsDir(options.src, q) => IsDir(src, q)
        /\ \A q \in DOMAIN src : Below(srcPath, q) => IsDir(src, srcPath)
        /\ \A q \in DOMAIN src : Below(srcPath, q) => IsDir(options.src, srcPath)
        /\ IsTree(src) /\ DOMAIN src \subseteq DOMAIN options.src
    BY <1>1, ThereNow DEF SourceKept
  <1>5. \A q \in DOMAIN src : q \in Seq(Name) /\ (Under(srcPath, q) => q = srcPath \/ Below(srcPath, q))
    <2>1. DOMAIN src \subseteq Seq(Name)
      BY <1>4, TreePaths
    <2>2. QED
      BY <1>1, <2>1, BelowIsLonger
  <1>6. CASE ~Exists(src, srcPath)
    <2>1. at' = "close" /\ UNCHANGED <<srcPath, unwalked>>
      BY <1>6
    <2>2. \A q \in DOMAIN src : ~Under(srcPath, q)
      BY <1>4, <1>5, <1>6 DEF Exists, IsDir
    <2>3. CASE FromDir
      <3>1. Begun
        BY <1>2, <1>3, <2>1, <2>2, <2>3 DEF Begun, Base
      <3>2. QED
        BY <1>1, <2>1, <3>1, ArchBegun DEF AskInv
    <2>4. CASE ~FromDir
      <3>1. srcPath \in DOMAIN options.src => Touched(srcPath)
        BY <1>1, <1>6 DEF SourceKept, Exists
      <3>2. Lost'
        BY <1>2, <1>3, <2>1, <2>2, <2>4, <3>1, LostBegun DEF NothingBegun
      <3>3. QED
        BY <2>1, <3>2 DEF AskInv
    <2>5. QED
      BY <2>3, <2>4
  <1>7. CASE IsDir(src, srcPath)
    <2>1. CASE FromDir
      <3>1. Begun
        BY <1>2, <1>3, <1>7, <2>1 DEF Begun, Base, Includes, Exists, IsDir
      <3>2. QED
        BY <1>1, <1>7, <3>1, ArchBegun DEF AskInv, IsDir
    <2>2. CASE ~FromDir
      <3>1. \A q \in DOMAIN src : Under(srcPath, q) => q = srcPath
        BY <1>2, <1>4, <1>5, <2>2 DEF FromDir
      <3>2. srcPath \in DOMAIN options.src => Touched(srcPath)
        BY <1>1, <1>2, <1>7, <2>2 DEF SourceKept, SameNode, FromDir, IsDir, Exists
      <3>3. Lost'
        BY <1>2, <1>3, <1>7, <2>2, <3>1, <3>2, LostBegun DEF NothingBegun, IsDir
      <3>4. QED
        BY <1>7, <3>3 DEF AskInv, IsDir
    <2>3. QED
      BY <2>1, <2>2
  <1>8. CASE Exists(src, srcPath) /\ ~IsDir(src, srcPath)
    <2>1. ~FromDir
      BY <1>2, <1>4, <1>8 DEF FromDir, Exists
    <2>2. Begun
      BY <1>2, <1>3, <1>8, <2>1 DEF Begun, Base, Includes
    <2>3. QED
      BY <1>1, <1>8, <2>2, ArchBegun DEF AskInv
  <1>9. QED
    BY <1>6, <1>7, <1>8

\* What the steps of the walk rest on.
WalkFacts ==
    /\ SourceKept /\ SourceInv /\ WalkInv /\ AtInv /\ EntryInv
    /\ options \in Cases /\ srcPath \in Seq(Name) /\ include \in Seq(Name)
    /\ unwalked \in Seq(Seq(Name)) /\ todo \in Seq(ItemType)
    /\ Includes \in Seq(Seq(Name)) /\ Base \in Seq(Name)
    /\ DOMAIN src \subseteq DOMAIN options.src /\ DOMAIN src \subseteq Seq(Name)

\* The invariant gives all of them.
LEMMA WalkFactsHold ==
    ASSUME TypedInv
    PROVE  WalkFacts
  <1>1. SourceKept /\ SourceInv /\ WalkInv /\ AtInv /\ EntryInv
    BY DEF TypedInv, IInv, ControlInv
  <1>2. DOMAIN src \subseteq Seq(Name)
    BY <1>1, ThereNow, TreePaths
  <1>3. QED
    BY <1>1, <1>2, IncludesType DEF WalkFacts, SourceKept, WalkInv, Queued

\* What is there lies in directories that are there, and have been all the time.
LEMMA AboveIsDir ==
    ASSUME WalkFacts, NEW rel \in Seq(Name), NEW p \in Seq(Name)
    PROVE  /\ Source(rel) \in Seq(Name) /\ Source(p) \in Seq(Name)
           /\ Source(p) \in DOMAIN src /\ Below(rel, p) => IsDir(src, Source(rel))
           /\ Source(p) \in DOMAIN src /\ Under(rel, p) => Source(rel) \in DOMAIN src
           /\ Below(rel, p) => Below(Source(rel), Source(p))
  <1>1. /\ Source(rel) \in Seq(Name) /\ Source(p) \in Seq(Name)
        /\ Below(rel, p) => Below(Source(rel), Source(p))
    BY UnderBehind DEF WalkFacts, Source
  <1>2. Source(p) \in DOMAIN src /\ Below(rel, p) => IsDir(src, Source(rel))
    BY <1>1, ThereNow DEF WalkFacts
  <1>3. Under(rel, p) => rel = p \/ Below(rel, p)
    BY BelowIsLonger
  <1>4. QED
    BY <1>1, <1>2, <1>3 DEF IsDir, Exists

\* Below what is no directory there is nothing.
LEMMA NothingBelow ==
    ASSUME WalkFacts, NEW q \in Seq(Name), ~IsDir(src, q)
    PROVE  \A r \in DOMAIN src : ~Below(q, r)
  BY ThereNow DEF WalkFacts

\* A step of the walk of TarUntar leaves the options, the source and what is written
\* alone; what it goes by does not change.
QuietStep == UNCHANGED <<options, src, srcPath, written, logged, touched>>

\* Includes, names and paths mean the same after such a step.
LEMMA WalkRules ==
    ASSUME QuietStep
    PROVE  /\ Includes' = Includes /\ Base' = Base /\ FromDir' = FromDir /\ Asked' = Asked
           /\ \A inc, p : AskedBy(inc, p)' = AskedBy(inc, p)
           /\ \A p : AskedName(p)' = AskedName(p)
           /\ NamesDiffer' = NamesDiffer /\ \A p : Ownable(p)' = Ownable(p)
           /\ \A p : Wanted(p)' = Wanted(p)
           /\ \A p : Source(p)' = Source(p)
           /\ \A p : Touched(p) <=> Touched(p)'
           /\ \A p : HasName(p)' = HasName(p)
  <1>1. /\ Includes' = Includes /\ Base' = Base /\ FromDir' = FromDir /\ Asked' = Asked
        /\ \A inc, p : AskedBy(inc, p)' = AskedBy(inc, p)
        /\ \A p : AskedName(p)' = AskedName(p)
    BY SameIncludes, SameAsked, SameAskedBy, SameName DEF QuietStep
  <1>2. /\ NamesDiffer' = NamesDiffer /\ \A p : Ownable(p)' = Ownable(p)
        /\ \A p : Wanted(p)' = Wanted(p)
    BY SameRules DEF QuietStep
  <1>3. \A p : Source(p)' = Source(p)
    BY DEF QuietStep, Source
  <1>4. \A p : Touched(p) <=> Touched(p)'
    BY DEF QuietStep, Touched
  <1>5. \A p : HasName(p)' = HasName(p)
    BY <1>1 DEF QuietStep, HasName
  <1>6. QED
    BY <1>1, <1>2, <1>3, <1>4, <1>5

\* What a sequence holds, or covers, then.
LEMMA HeldThen ==
    /\ \A x : Holds(todo, x)' <=> Holds(todo', x)
    /\ \A p : Covers(todo, p)' <=> Covers(todo', p)
  BY DEF Holds, Covers, ItemCovers

\* What has been added is added still, when nothing is added or logged.
LEMMA NamesStand ==
    ASSUME QuietStep, UNCHANGED seen, NameInv, at # "add", at' # "add"
    PROVE  NameInv'
  <1>. USE DEF QuietStep
  <1>1. \A p : Beside(p) /\ Beside(p)'
    BY DEF Beside
  <1>2. \A i \in 1..Len(written') :
            \E p \in seen' : Beside(p)' /\ written'[i].name = AskedName(p)'
    BY <1>1, WalkRules DEF NameInv
  <1>3. NamesDiffer' => \A i, j \in 1..Len(written') : written'[i].name = written'[j].name => i = j
    BY WalkRules DEF NameInv
  <1>4. \A p \in seen' : \/ at' = "add" /\ p = adding'.path
                         \/ HasName(p)'
                         \/ p \in logged' /\ (Touched(Base \o p)' \/ ~Ownable(p)')
    BY WalkRules DEF NameInv
  <1>5. QED
    BY <1>2, <1>3, <1>4, WalkRules DEF NameInv

-----------------------------------------------------------------------------
\* The item of the next include.
LEMMA NextAskItem ==
    ASSUME WalkFacts, NextInclude, QuietStep, RouteInv, Come' \in 1..Len(Includes),
           include' = Includes[Come'], NEW x, Holds(todo', x)
    PROVE  /\ x.path = include' /\ x.path \in Seq(Name) /\ Source(x.path) \in DOMAIN src
           /\ ~x.dir => \A q \in DOMAIN src : ~Below(Source(x.path), q)
           /\ x.path = << >> => x.dir
  <1>. USE DEF NextInclude, QuietStep
  <1>1. include' \in Seq(Name)
    BY DEF WalkFacts
  <1>2. todo' # << >>
    <2>1. SUFFICES ASSUME todo' = << >> PROVE FALSE
      OBVIOUS
    <2>2. Len(todo') = 0
      BY <2>1, EmptySeq
    <2>3. QED
      BY <2>2 DEF Holds
  <1>3. Exists(src, Source(include')) /\ todo' = <<Item(include')>>
    BY <1>2
  <1>4. x = Item(include')
    BY <1>3 DEF Holds, Source
  <1>5. x.path = include' /\ x.dir = IsDir(src, Source(include'))
    BY <1>4 DEF Item
  <1>6. Source(include') \in DOMAIN src
    BY <1>3, <1>4 DEF Exists
  <1>7. ~x.dir => \A q \in DOMAIN src : ~Below(Source(x.path), q)
    BY <1>1, <1>5, NothingBelow, AboveIsDir
  <1>8. x.path = << >> => x.dir
    <2>1. SUFFICES ASSUME include' = << >> PROVE IsDir(src, Source(include'))
      BY <1>5
    <2>2. FromDir
      <3>1. ~FromDir => Len(Includes) = 1 /\ Includes[1] # << >>
        BY IncludesType DEF WalkFacts
      <3>2. ASSUME Len(Includes) = 1 PROVE Come' = 1
        BY <3>2
      <3>3. QED
        BY <2>1, <3>1, <3>2
    <2>3. Source(include') = options.srcPath
      BY <2>1, <2>2, <1>1, ConcatEmptySeq DEF RouteInv, Base, Source, WalkFacts
    <2>4. QED
      BY <2>2, <2>3, <1>6, ThereNow DEF FromDir, WalkFacts
  <1>9. QED
    BY <1>1, <1>5, <1>6, <1>7, <1>8

\* The walk comes to the next include: the ones before are done.
LEMMA NextArch ==
    ASSUME WalkFacts, NextInclude, UNCHANGED touched, ArchInv
    PROVE  ArchInv'
  <1>. USE DEF NextInclude
  <1>1. QuietStep /\ UNCHANGED <<at, seen>> /\ at = "walk"
    BY DEF QuietStep, entry
  <1>2. PICK n, l : n = Len(unwalked') /\ l = Len(Includes)
    OBVIOUS
  <1>3. /\ n \in Nat /\ Len(unwalked) = n + 1 /\ l \in Nat
        /\ include' = unwalked[1] /\ 1 \in 1..n+1
        /\ \A k \in 1..n : k + 1 \in 1..n+1 /\ unwalked'[k] = unwalked[k + 1]
    BY <1>2, HeadAndTail DEF WalkFacts
  <1>4. RouteInv
    BY DEF ArchInv
  <1>5. PICK c : c = Come
    OBVIOUS
  <1>6. n + 1 <= l /\ c = l - (n + 1) /\ Come' = l - n
    BY <1>1, <1>2, <1>3, <1>4, <1>5, WalkRules DEF RouteInv, Come
  <1>7. /\ Come' = c + 1 /\ c \in Nat /\ c + 1 \in 1..l
        /\ include' = Includes[c + 1]
        /\ \A k \in 1..n : unwalked'[k] = Includes[(c + 1) + k]
    <2>1. Come' = c + 1 /\ c \in Nat /\ c + 1 \in 1..l
      BY <1>3, <1>6
    <2>2. \A k \in 1..n+1 : unwalked[k] = Includes[c + k]
      BY <1>3, <1>4, <1>5 DEF RouteInv
    <2>3. \A k \in 1..n : unwalked'[k] = Includes[(c + 1) + k]
      <3>1. TAKE k \in 1..n
      <3>2. unwalked'[k] = Includes[c + (k + 1)]
        BY <1>3, <2>2
      <3>3. c + (k + 1) = (c + 1) + k
        BY <2>1, <1>3
      <3>4. QED
        BY <3>2, <3>3
    <2>4. QED
      BY <1>3, <2>1, <2>2, <2>3
  <1>8. RouteInv'
    BY <1>1, <1>2, <1>3, <1>4, <1>6, <1>7, WalkRules DEF RouteInv, QuietStep
  <1>9. \A x : Holds(todo', x) =>
            /\ x.path = include' /\ x.path \in Seq(Name) /\ Source(x.path) \in DOMAIN src
            /\ ~x.dir => \A q \in DOMAIN src : ~Below(Source(x.path), q)
            /\ x.path = << >> => x.dir
    <2>1. Come' \in 1..Len(Includes) /\ include' = Includes[Come']
      BY <1>2, <1>7
    <2>2. QED
      BY <1>1, <1>4, <2>1, NextAskItem
  <1>10. ItemInv'
    BY <1>1, <1>9, WalkRules, HeldThen DEF ItemInv, QuietStep, WalkFacts
  <1>11. \A j \in 1..c, p \in Seq(Name) :
            Source(p) \in DOMAIN src /\ Wanted(p) /\ AskedBy(Includes[j], p) => p \in seen
    <2>1. \A p : ~Covers(todo, p)
      <3>1. Len(todo) = 0
        BY EmptySeq
      <3>2. QED
        BY <3>1 DEF Covers, Holds
    <2>2. QED
      BY <1>5, <2>1 DEF ArchInv, CoverInv
  <1>12. EarlierInv'
    <2>1. \A j \in 1..Come'-1 : j \in 1..c
      BY <1>7
    <2>2. QED
      BY <1>1, <1>9, <1>11, <2>1, WalkRules, HeldThen DEF EarlierInv
  <1>13. CoverInv'
    <2>1. SUFFICES ASSUME NEW j \in 1..Come', NEW p \in Seq(Name), Source(p) \in DOMAIN src,
                          Wanted(p), AskedBy(Includes[j], p), p \notin seen
                   PROVE  j = Come' /\ Covers(todo', p)
      BY <1>1, WalkRules, HeldThen DEF CoverInv, QuietStep
    <2>2. j = c + 1
      BY <1>7, <1>11, <2>1
    <2>3. Under(include', p) /\ include' \in Seq(Name)
      <3>1. include' \in Seq(Name)
        BY DEF WalkFacts
      <3>2. p = include' => Under(include', p)
        BY <3>1, BelowIsLonger
      <3>3. QED
        BY <1>7, <2>1, <2>2, <3>1, <3>2 DEF AskedBy
    <2>4. Source(include') \in DOMAIN src
      BY <2>1, <2>3, AboveIsDir
    <2>5. todo' = <<Item(include')>>
      BY <1>1, <2>4, WalkRules DEF Exists, QuietStep, Source
    <2>6. Holds(todo', Item(include'))
      <3>1. 1 \in 1..Len(todo') /\ todo'[1] = Item(include')
        <4>1. \A e : 1 \in 1..Len(<<e>>) /\ <<e>>[1] = e
          OBVIOUS
        <4>2. QED
          BY <2>5, <4>1
      <3>2. QED
        BY <3>1 DEF Holds
    <2>7. ItemCovers(Item(include'), p)
      BY <2>3 DEF ItemCovers, Item
    <2>8. QED
      BY <1>7, <2>2, <2>6, <2>7 DEF Covers
  <1>14. SeenInv' /\ NameInv'
    BY <1>1, WalkRules, NamesStand DEF ArchInv, SeenInv
  <1>15. QED
    BY <1>8, <1>10, <1>12, <1>13, <1>14 DEF ArchInv

\* A lost file has at most the directory in its place to visit.
LEMMA NextLost ==
    ASSUME WalkFacts, NextInclude, UNCHANGED touched, Lost
    PROVE  Lost'
  <1>. USE DEF NextInclude
  <1>1. QuietStep /\ UNCHANGED <<at, seen>> /\ at = "walk"
    BY DEF QuietStep, entry
  <1>2. \A x : Holds(todo', x) => x.path = << >> /\ x.dir
    <2>1. SUFFICES ASSUME NEW x, Holds(todo', x)
                   PROVE  x.path = << >> /\ x.dir
      OBVIOUS
    <2>2. todo' # << >>
      <3>1. todo' = << >> => Len(todo') = 0
        BY EmptySeq
      <3>2. QED
        BY <2>1, <3>1 DEF Holds
    <2>3. Exists(src, Source(include')) /\ todo' = <<Item(include')>>
      BY <2>2
    <2>4. x = Item(include')
      BY <1>1, <2>1, <2>3 DEF Holds, Source, QuietStep
    <2>5. x.path = include' /\ x.dir = IsDir(src, Source(include'))
      BY <1>1, <2>4 DEF Item, QuietStep
    <2>6. Source(include') \in DOMAIN src
      BY <1>1, <2>3, <2>4 DEF Exists, QuietStep
    <2>7. include' \in Seq(Name)
      BY DEF WalkFacts
    <2>8. Under(srcPath, Source(include'))
      BY <2>7, UnderBehind DEF WalkFacts, Source
    <2>9. Source(include') = srcPath /\ IsDir(src, srcPath)
      BY <2>6, <2>8 DEF Lost
    <2>10. include' = << >>
      <3>1. Source(<< >>) = srcPath /\ << >> \in Seq(Name)
        BY ConcatEmptySeq, EmptySeq DEF WalkFacts, Source
      <3>2. QED
        BY <2>7, <2>9, <3>1, SourceSame DEF WalkFacts
    <2>11. QED
      BY <2>5, <2>9, <2>10
  <1>3. QED
    BY <1>1, <1>2, WalkRules, HeldThen DEF Lost, QuietStep

-----------------------------------------------------------------------------
(* A visit: what is asked for is taken up, and a directory is entered      *)
(* unless nothing in it can be asked for.                                  *)

\* Whether the item is taken up, or not even entered.
Adds   == ~SkipsSourceDir /\ ~Skips(Here.path) /\ Here.path \notin seen
Prunes == ~SkipsSourceDir /\ Skips(Here.path) /\ Here.dir /\ ~MayReinclude(Here.path)
Open   == [Here EXCEPT !.read = TRUE]

\* What is left to visit.
Left ==
    /\ \A x : Holds(todo', x) => Holds(todo, x) \/ (Here.dir /\ x = Open)
    /\ \A x : Holds(todo, x) => x = Here \/ Holds(todo', x)
    /\ Here.dir /\ ~Prunes => Holds(todo', Open)
    /\ Holds(todo, Here) /\ Here \in ItemType
    /\ Open.path = Here.path /\ Open.dir = Here.dir /\ Open.read

\* A visit leaves that.
LEMMA VisitLeaves ==
    ASSUME WalkFacts, Visit
    PROVE  Left
  <1>1. todo \in Seq(ItemType) /\ todo # << >> /\ Here \in ItemType
    <2>1. todo \in Seq(ItemType) /\ todo # << >>
      BY DEF WalkFacts, Visit
    <2>2. QED
      BY <2>1, HeadTailProperties DEF Here
  <1>2. /\ Open \in ItemType /\ Open.path = Here.path /\ Open.dir = Here.dir /\ Open.read
    <2>1. PICK item : item = [Here EXCEPT !.read = TRUE]
      OBVIOUS
    <2>2. item \in ItemType /\ item.path = Here.path /\ item.dir = Here.dir /\ item.read
      BY <1>1, <2>1 DEF ItemType
    <2>3. QED
      BY <2>1, <2>2 DEF Open
  <1>3. /\ Holds(todo, Here)
        /\ \A x : Holds(Tail(todo), x) => Holds(todo, x)
        /\ \A x : Holds(todo, x) => x = Here \/ Holds(Tail(todo), x)
    BY <1>1, DropFirst DEF Here
  <1>4. todo' = IF Prunes THEN Tail(todo) ELSE Entered
    BY DEF Visit, Prunes
  <1>5. CASE Prunes \/ ~Here.dir
    <2>1. todo' = Tail(todo)
      BY <1>4, <1>5 DEF Entered
    <2>2. QED
      BY <1>1, <1>2, <1>3, <1>5, <2>1 DEF Left
  <1>6. CASE Here.dir /\ ~Prunes
    <2>1. todo' = <<Open>> \o Tail(todo)
      BY <1>4, <1>6 DEF Entered, Open
    <2>2. <<Open>> \in Seq(ItemType)
      BY <1>2
    <2>3. Replaced(todo, <<Open>>, todo')
      BY <1>1, <2>1, <2>2, ReplaceFirst
    <2>4. \A x : Holds(<<Open>>, x) <=> x = Open
      BY DEF Holds
    <2>5. QED
      BY <1>1, <1>2, <1>3, <1>6, <2>3, <2>4 DEF Left, Replaced, Here
  <1>7. QED
    BY <1>5, <1>6

\* The patterns decide for every path but the include's own.
LEMMA SkipsUnasked ==
    ASSUME WalkFacts, Visit
    PROVE  /\ Here.path \in Seq(Name) /\ Under(include, Here.path) /\ ~Here.read
           /\ Skips(Here.path) <=> ~AskedBy(include, Here.path)
           /\ Skips(Here.path) => /\ Below(include, Here.path) /\ Here.path # << >>
                                  /\ Matched(AllHits(Here.path))
  <1>1. Visited(Here)
    BY VisitFacts DEF WalkFacts, Visit
  <1>2. Here.path \in Seq(Name) /\ Under(include, Here.path) /\ ~Here.read
    BY <1>1 DEF Visited, FirstItem
  <1>3. CASE Here.path = include
    BY <1>2, <1>3 DEF Skips, AskedBy
  <1>4. CASE Here.path # include
    <2>1. /\ Below(include, Here.path) /\ Here.path # << >>
          /\ InfoFor(Here.path) = AllHits(Here.path)
      BY <1>1, <1>4 DEF Visited
    <2>2. Matched(AllHits(Here.path)) <=> MatchesOrParentMatches(Here.path)
      BY MatchedAll DEF WalkFacts
    <2>3. QED
      BY <1>2, <1>4, <2>1, <2>2 DEF Skips, AskedBy
  <1>5. QED
    BY <1>3, <1>4, <1>2

\* In a directory that is not entered nothing is asked for.
LEMMA PrunedUnasked ==
    ASSUME WalkFacts, Visit, Prunes, ExclusionsArePlain, NEW p \in Seq(Name), Below(Here.path, p)
    PROVE  ~AskedBy(include, p)
  <1>1. /\ Here.path \in Seq(Name) /\ Here.path # << >> /\ Below(include, Here.path)
        /\ Matched(AllHits(Here.path)) /\ ~MayReinclude(Here.path)
    BY SkipsUnasked DEF Prunes
  <1>2. Matched(AllHits(p))
    BY <1>1, PrunedIsExcluded DEF WalkFacts
  <1>3. MatchesOrParentMatches(p)
    BY <1>2, MatchedAll DEF WalkFacts
  <1>4. p # include
    <2>1. include \in Seq(Name)
      BY DEF WalkFacts
    <2>2. Len(include) < Len(Here.path) /\ Len(Here.path) < Len(p)
      BY <1>1 DEF Below
    <2>3. Len(include) # Len(p)
      BY <1>1, <2>1, <2>2
    <2>4. QED
      BY <2>3
  <1>5. QED
    BY <1>3, <1>4 DEF AskedBy

\* A path not seen yet gets the name that the first include to ask for it gives.
LEMMA FirstToAsk ==
    ASSUME WalkFacts, ArchInv, Visit, Adds, Wanted(Here.path)
    PROVE  Here.path \in Asked /\ Rebased(include, Here.path) = AskedName(Here.path)
  <1>. DEFINE p == Here.path
              S == {i \in 1..Len(Includes) : AskedBy(Includes[i], p)}
  <1>1. Come \in 1..Len(Includes) /\ include = Includes[Come] /\ srcPath = Base
    BY DEF ArchInv, RouteInv, Visit
  <1>2. p \in Seq(Name) /\ AskedBy(include, p)
    BY SkipsUnasked DEF Adds
  <1>3. Holds(todo, Here)
    BY VisitLeaves DEF Left
  <1>4. Base \o p \in DOMAIN options.src
    BY <1>1, <1>3 DEF ArchInv, ItemInv, Source
  <1>5. p \in Asked
    BY <1>1, <1>2, <1>4, AskedIs DEF WalkFacts
  <1>6. Come \in S
    BY <1>1, <1>2
  <1>7. \A i \in S : i >= Come
    <2>1. SUFFICES ASSUME NEW i \in S, ~(i >= Come) PROVE FALSE
      OBVIOUS
    <2>2. i \in 1..Come-1
      BY <1>1, <2>1
    <2>3. p \in seen
      BY <1>3, <2>1, <2>2 DEF ArchInv, EarlierInv
    <2>4. QED
      BY <2>3 DEF Adds
  <1>8. S \in SUBSET Nat
    BY DEF WalkFacts
  <1>9. Min(S) \in S /\ Min(S) <= Come
    BY <1>6, <1>8, MinLeast
  <1>10. Min(S) = Come
    BY <1>1, <1>7, <1>8, <1>9
  <1>11. QED
    BY <1>1, <1>5, <1>10 DEF AskedName

\* A path that is there and asked for, and that the item covers, is seen now or
\* covered by the open directory.
LEMMA VisitCovers ==
    ASSUME WalkFacts, ArchInv, Visit, ExclusionsArePlain, NEW p \in Seq(Name),
           ItemCovers(Here, p), Source(p) \in DOMAIN src, Wanted(p), AskedBy(include, p)
    PROVE  p \in seen' \/ Covers(todo', p)
  <1>1. /\ Here.path \in Seq(Name) /\ ~Here.read
        /\ Skips(Here.path) <=> ~AskedBy(include, Here.path)
    BY SkipsUnasked
  <1>2. Left
    BY VisitLeaves
  <1>3. p = Here.path \/ Below(Here.path, p)
    BY <1>1, BelowIsLonger DEF ItemCovers
  <1>4. CASE p = Here.path
    <2>1. ~SkipsSourceDir
      BY <1>4 DEF Wanted, SkipsSourceDir
    <2>2. p \in seen \/ Adds
      BY <1>1, <1>4, <2>1 DEF Adds
    <2>3. seen' = IF Adds THEN seen \union {p} ELSE seen
      BY <1>4 DEF Visit, Adds
    <2>4. QED
      BY <2>2, <2>3
  <1>5. CASE Below(Here.path, p)
    <2>1. Here.dir
      <3>1. Below(Source(Here.path), Source(p))
        BY <1>1, <1>5, AboveIsDir
      <3>2. QED
        BY <1>2, <3>1 DEF ArchInv, ItemInv, Left
    <2>2. ~Prunes
      BY <1>5, PrunedUnasked
    <2>3. Holds(todo', Open) /\ ItemCovers(Open, p)
      BY <1>2, <1>5, <2>1, <2>2 DEF Left, ItemCovers
    <2>4. QED
      BY <2>3 DEF Covers
  <1>6. QED
    BY <1>3, <1>4, <1>5

\* Nothing but the item's own path is seen by a visit.
LEMMA VisitSees ==
    ASSUME WalkFacts, ArchInv, Visit
    PROVE  /\ seen \subseteq seen'
           /\ Adds => /\ Wanted(Here.path) /\ seen' = seen \union {Here.path} /\ at' = "add"
                      /\ adding'.path = Here.path
                      /\ adding'.name = Rebased(include, Here.path)
           /\ ~Adds => UNCHANGED <<seen, at>>
  <1>1. IF Adds THEN /\ seen' = seen \union {Here.path} /\ at' = "add"
                     /\ adding' = [path |-> Here.path, name |-> Rebased(include, Here.path)]
        ELSE UNCHANGED <<seen, at>>
    BY DEF Visit, Adds
  <1>2. Adds => Wanted(Here.path)
    <2>1. Holds(todo, Here)
      BY VisitLeaves DEF Left
    <2>2. Here.path = << >> => Here.dir
      BY <2>1 DEF ArchInv, ItemInv
    <2>3. QED
      BY <2>2 DEF Adds, SkipsSourceDir, Wanted
  <1>3. QED
    BY <1>1, <1>2

\* A visit keeps the account of the walk.
LEMMA VisitArch ==
    ASSUME WalkFacts, Visit, UNCHANGED touched, ExclusionsArePlain, ArchInv
    PROVE  ArchInv'
  <1>1. QuietStep /\ UNCHANGED <<unwalked, include>> /\ at = "walk"
    BY DEF Visit, QuietStep, entry
  <1>2. Come' = Come
    BY <1>1, WalkRules DEF Come
  <1>3. Left /\ Here.path \in Seq(Name)
    BY VisitLeaves, SkipsUnasked
  <1>4. /\ seen \subseteq seen'
        /\ Adds => /\ Wanted(Here.path) /\ seen' = seen \union {Here.path} /\ at' = "add"
                   /\ adding'.path = Here.path /\ adding'.name = AskedName(Here.path)
                   /\ Here.path \in Asked
        /\ ~Adds => UNCHANGED <<seen, at>>
    BY VisitSees, FirstToAsk
  <1>5. /\ RouteInv /\ Come \in 1..Len(Includes) /\ include = Includes[Come]
    BY DEF ArchInv, RouteInv, Visit
  <1>6. RouteInv'
    BY <1>1, <1>2, <1>5, WalkRules DEF RouteInv, QuietStep
  <1>7. \A x : Holds(todo', x) => \E y : Holds(todo, y) /\ y.path = x.path /\ y.dir = x.dir
    BY <1>3 DEF Left
  <1>8. ItemInv'
    <2>1. SUFFICES ASSUME NEW x, Holds(todo', x)
                   PROVE  /\ Source(x.path) \in DOMAIN options.src
                          /\ ~x.dir => \A q \in DOMAIN src : ~Below(Source(x.path), q)
                          /\ x.path = << >> => x.dir
      BY <1>1, WalkRules, HeldThen DEF ItemInv, QuietStep
    <2>2. QED
      BY <1>7, <2>1 DEF ArchInv, ItemInv
  <1>9. EarlierInv'
    <2>1. SUFFICES ASSUME NEW x, Holds(todo', x), Wanted(x.path), NEW j \in 1..Come-1,
                          AskedBy(Includes[j], x.path)
                   PROVE  x.path \in seen
      BY <1>1, <1>2, <1>4, WalkRules, HeldThen DEF EarlierInv
    <2>2. QED
      BY <1>7, <2>1 DEF ArchInv, EarlierInv
  <1>10. CoverInv'
    <2>1. SUFFICES ASSUME NEW j \in 1..Come, NEW p \in Seq(Name), Source(p) \in DOMAIN src,
                          Wanted(p), AskedBy(Includes[j], p), p \notin seen'
                   PROVE  j = Come /\ Covers(todo', p)
      BY <1>1, <1>2, WalkRules, HeldThen DEF CoverInv, QuietStep
    <2>2. j = Come /\ Covers(todo, p)
      BY <1>4, <2>1 DEF ArchInv, CoverInv
    <2>3. PICK x : Holds(todo, x) /\ ItemCovers(x, p)
      BY <2>2 DEF Covers
    <2>4. CASE x = Here
      BY <1>5, <2>1, <2>2, <2>3, <2>4, VisitCovers
    <2>5. CASE x # Here
      BY <1>3, <2>2, <2>3, <2>5 DEF Covers, Left
    <2>6. QED
      BY <2>4, <2>5
  <1>11. SeenInv'
    <2>1. seen \subseteq Asked
      BY DEF ArchInv, SeenInv
    <2>2. QED
      BY <1>1, <1>4, <2>1, WalkRules DEF SeenInv
  <1>12. NameInv'
    <2>1. CASE ~Adds
      BY <1>1, <1>4, <2>1, NamesStand DEF ArchInv
    <2>2. CASE Adds
      <3>1. /\ written' = written /\ logged' = logged
            /\ Here.path \notin seen
        BY <1>1, <2>2 DEF QuietStep, Adds
      <3>2. \A p \in seen : Beside(p)'
        BY <1>4, <2>2, <3>1 DEF Beside
      <3>3. \A i \in 1..Len(written') :
                \E p \in seen' : Beside(p)' /\ written'[i].name = AskedName(p)'
        <4>1. \A i \in 1..Len(written) : \E p \in seen : written[i].name = AskedName(p)
          BY DEF ArchInv, NameInv
        <4>2. QED
          BY <1>1, <1>4, <3>1, <3>2, <4>1, WalkRules
      <3>4. NamesDiffer' =>
                \A i, j \in 1..Len(written') : written'[i].name = written'[j].name => i = j
        BY <1>1, <3>1, WalkRules DEF ArchInv, NameInv
      <3>5. \A p \in seen' : \/ at' = "add" /\ p = adding'.path
                             \/ HasName(p)'
                             \/ p \in logged' /\ (Touched(Base \o p)' \/ ~Ownable(p)')
        <4>1. \A p \in seen : \/ HasName(p)
                              \/ p \in logged /\ (Touched(Base \o p) \/ ~Ownable(p))
          BY <1>1 DEF ArchInv, NameInv
        <4>2. QED
          BY <1>1, <1>4, <2>2, <3>1, <4>1, WalkRules
      <3>6. QED
        BY <1>1, <3>3, <3>4, <3>5, WalkRules DEF NameInv
    <2>3. QED
      BY <2>1, <2>2
  <1>13. QED
    BY <1>6, <1>8, <1>9, <1>10, <1>11, <1>12 DEF ArchInv

\* The directory in the place of a lost file is not taken up.
LEMMA VisitLost ==
    ASSUME WalkFacts, Visit, UNCHANGED touched, Lost
    PROVE  Lost' /\ at' # "start"
  <1>1. QuietStep /\ at = "walk"
    BY DEF Visit, QuietStep, entry
  <1>2. Left
    BY VisitLeaves
  <1>3. Here.path = << >> /\ Here.dir
    BY <1>2 DEF Left, Lost
  <1>4. SkipsSourceDir
    <2>1. ~options.IncludeSourceDir
      BY IncludesType DEF WalkFacts, Lost
    <2>2. QED
      BY <1>3, <2>1 DEF SkipsSourceDir
  <1>5. UNCHANGED <<seen, at>>
    BY <1>4 DEF Visit
  <1>6. \A x : Holds(todo', x) => x.path = << >> /\ x.dir
    BY <1>2, <1>3 DEF Left, Lost
  <1>7. QED
    BY <1>1, <1>5, <1>6, WalkRules, HeldThen DEF Lost, QuietStep

-----------------------------------------------------------------------------
(* What is read in a directory takes its place.                            *)

\* What is left to visit when its names have been read.
KidsLeft(kids) ==
    /\ Kids(Here.path, kids)
    /\ \A x : Holds(todo', x) => Holds(todo, x) \/ Holds(kids, x)
    /\ \A x : Holds(kids, x) => Holds(todo', x)
    /\ \A x : Holds(todo, x) => x = Here \/ Holds(todo', x)
    /\ Holds(todo, Here) /\ Here.path \in Seq(Name) /\ Here.read

\* ReadNames leaves that, for some items.
LEMMA ReadLeaves ==
    ASSUME WalkFacts, ReadNames
    PROVE  \E kids : KidsLeft(kids)
  <1>1. todo \in Seq(ItemType) /\ todo # << >> /\ Here.read
    BY DEF WalkFacts, ReadNames
  <1>2. Here \in ItemType
    BY <1>1, HeadTailProperties DEF Here
  <1>3. Here.path \in Seq(Name)
    BY <1>2 DEF ItemType
  <1>4. PICK kids : kids = ReadIn(Here.path)
    OBVIOUS
  <1>5. Kids(Here.path, kids)
    BY <1>3, <1>4, ReadAll DEF WalkFacts
  <1>6. kids \in Seq(ItemType)
    BY <1>5 DEF Kids
  <1>7. todo' = kids \o Tail(todo)
    BY <1>4 DEF ReadNames, ReadIn
  <1>8. Replaced(todo, kids, todo')
    BY <1>1, <1>6, <1>7, ReplaceFirst
  <1>9. Holds(todo, Here)
    BY <1>1, DropFirst DEF Here
  <1>10. KidsLeft(kids)
    BY <1>1, <1>3, <1>5, <1>8, <1>9 DEF KidsLeft, Replaced, Here
  <1>11. QED
    BY <1>10

\* What is read lies below.
LEMMA KidHeld ==
    ASSUME NEW rel, NEW kids, Kids(rel, kids), NEW x, Holds(kids, x)
    PROVE  KidOf(rel, x)
  BY DEF Kids, Holds

\* Reading a directory keeps the account of the walk.
LEMMA ReadArch ==
    ASSUME WalkFacts, ReadNames, UNCHANGED touched, ArchInv
    PROVE  ArchInv'
  <1>1. QuietStep /\ UNCHANGED <<unwalked, include, seen, at, adding>> /\ at = "walk"
    BY DEF ReadNames, QuietStep, entry
  <1>2. Come' = Come
    BY <1>1, WalkRules DEF Come
  <1>3. PICK kids : KidsLeft(kids)
    BY ReadLeaves
  <1>4. /\ RouteInv /\ Come \in 1..Len(Includes) /\ include = Includes[Come]
    BY DEF ArchInv, RouteInv, ReadNames
  <1>5. RouteInv'
    BY <1>1, <1>2, <1>4, WalkRules DEF RouteInv, QuietStep
  <1>6. \A x : Holds(kids, x) =>
            /\ x.path \in Seq(Name) /\ x.path # << >> /\ Source(x.path) \in DOMAIN src
            /\ x.dir = IsDir(src, Source(x.path)) /\ x.read = FALSE
    <2>1. SUFFICES ASSUME NEW x, KidOf(Here.path, x)
                   PROVE  /\ x.path \in Seq(Name) /\ x.path # << >>
                          /\ Source(x.path) \in DOMAIN src
                          /\ x.dir = IsDir(src, Source(x.path)) /\ x.read = FALSE
      BY <1>3, KidHeld DEF KidsLeft
    <2>2. QED
      BY <2>1 DEF KidOf, Item
  <1>7. ItemInv'
    <2>1. SUFFICES ASSUME NEW x, Holds(todo', x)
                   PROVE  /\ Source(x.path) \in DOMAIN options.src
                          /\ ~x.dir => \A q \in DOMAIN src : ~Below(Source(x.path), q)
                          /\ x.path = << >> => x.dir
      BY <1>1, WalkRules, HeldThen DEF ItemInv, QuietStep
    <2>2. CASE Holds(todo, x)
      BY <2>2 DEF ArchInv, ItemInv
    <2>3. CASE Holds(kids, x)
      <3>1. Source(x.path) \in DOMAIN options.src /\ x.path # << >>
        BY <1>6, <2>3 DEF WalkFacts
      <3>2. ~x.dir => \A q \in DOMAIN src : ~Below(Source(x.path), q)
        BY <1>6, <2>3, NothingBelow, AboveIsDir
      <3>3. QED
        BY <3>1, <3>2
    <2>4. QED
      BY <1>3, <2>1, <2>2, <2>3 DEF KidsLeft
  <1>8. EarlierInv'
    <2>1. SUFFICES ASSUME NEW x, Holds(todo', x), Wanted(x.path), NEW j \in 1..Come-1,
                          AskedBy(Includes[j], x.path)
                   PROVE  x.path \in seen
      BY <1>1, <1>2, WalkRules, HeldThen DEF EarlierInv
    <2>2. CASE Holds(todo, x)
      BY <2>1, <2>2 DEF ArchInv, EarlierInv
    <2>3. CASE Holds(kids, x)
      <3>1. j \in 1..Come /\ j # Come
        BY <1>4, <2>1
      <3>2. QED
        BY <1>6, <2>1, <2>3, <3>1 DEF ArchInv, CoverInv
    <2>4. QED
      BY <1>3, <2>1, <2>2, <2>3 DEF KidsLeft
  <1>9. CoverInv'
    <2>1. SUFFICES ASSUME NEW j \in 1..Come, NEW p \in Seq(Name), Source(p) \in DOMAIN src,
                          Wanted(p), AskedBy(Includes[j], p), p \notin seen
                   PROVE  j = Come /\ Covers(todo', p)
      BY <1>1, <1>2, WalkRules, HeldThen DEF CoverInv, QuietStep
    <2>2. j = Come /\ Covers(todo, p)
      BY <2>1 DEF ArchInv, CoverInv
    <2>3. PICK x : Holds(todo, x) /\ ItemCovers(x, p)
      BY <2>2 DEF Covers
    <2>4. CASE x = Here
      <3>1. Below(Here.path, p)
        BY <1>3, <2>3, <2>4 DEF ItemCovers, KidsLeft
      <3>2. PICK i \in 1..Len(kids) : Under(kids[i].path, p)
        BY <1>3, <2>1, <3>1 DEF KidsLeft, Kids
      <3>3. Holds(kids, kids[i])
        BY DEF Holds
      <3>4. Holds(todo', kids[i]) /\ ItemCovers(kids[i], p)
        BY <1>3, <1>6, <3>2, <3>3 DEF KidsLeft, ItemCovers
      <3>5. QED
        BY <2>2, <3>4 DEF Covers
    <2>5. CASE x # Here
      BY <1>3, <2>2, <2>3, <2>5 DEF Covers, KidsLeft
    <2>6. QED
      BY <2>4, <2>5
  <1>10. SeenInv' /\ NameInv'
    BY <1>1, WalkRules, NamesStand DEF ArchInv, SeenInv
  <1>11. QED
    BY <1>5, <1>7, <1>8, <1>9, <1>10 DEF ArchInv

\* In the directory in the place of a lost file there is nothing.
LEMMA ReadLost ==
    ASSUME WalkFacts, ReadNames, UNCHANGED touched, Lost
    PROVE  Lost' /\ at' # "start"
  <1>1. QuietStep /\ at = "walk" /\ UNCHANGED <<seen, at>>
    BY DEF ReadNames, QuietStep, entry
  <1>2. PICK kids : KidsLeft(kids)
    BY ReadLeaves
  <1>3. \A x : ~Holds(kids, x)
    <2>1. SUFFICES ASSUME NEW x, KidOf(Here.path, x)
                   PROVE  FALSE
      BY <1>2, KidHeld DEF KidsLeft
    <2>2. /\ x.path \in Seq(Name) /\ x.path # << >> /\ Source(x.path) \in DOMAIN src
      BY <2>1 DEF KidOf
    <2>3. Under(srcPath, Source(x.path))
      BY <2>2, UnderBehind DEF WalkFacts, Source
    <2>4. Source(x.path) = srcPath
      BY <2>2, <2>3 DEF Lost
    <2>5. Source(<< >>) = srcPath /\ << >> \in Seq(Name)
      BY ConcatEmptySeq, EmptySeq DEF WalkFacts, Source
    <2>6. x.path = << >>
      BY <2>2, <2>4, <2>5, SourceSame DEF WalkFacts
    <2>7. QED
      BY <2>2, <2>6
  <1>4. \A x : Holds(todo', x) => x.path = << >> /\ x.dir
    BY <1>2, <1>3 DEF KidsLeft, Lost
  <1>5. QED
    BY <1>1, <1>4, WalkRules, HeldThen DEF Lost, QuietStep

-----------------------------------------------------------------------------
(* A path is added, or what hinders it is known.                           *)

\* What addTarFile could not add went, was changed, or has no owner to write.
LEMMA NotAdded ==
    ASSUME WalkFacts, srcPath = Base, NEW p \in Asked,
           \/ Source(p) \notin DOMAIN src
           \/ ~IsOverlayWhiteout(src[Source(p)]) /\ ~InContainer(src[Source(p)].owner)
    PROVE  Touched(Base \o p) \/ ~Ownable(p)
  <1>1. Source(p) = Base \o p
    BY DEF Source
  <1>2. Base \o p \in DOMAIN options.src
    BY AskedIs DEF WalkFacts
  <1>3. SUFFICES ASSUME ~Touched(Base \o p)
                 PROVE  ~Ownable(p)
    OBVIOUS
  <1>4. Base \o p \in DOMAIN src /\ SameNode(src[Base \o p], options.src[Base \o p])
    BY <1>2, <1>3 DEF WalkFacts, SourceKept
  <1>5. QED
    BY <1>1, <1>4 DEF Ownable, SameNode, IsOverlayWhiteout

\* Its header is written under its name, or an error is logged.
AddsOne ==
    /\ UNCHANGED src /\ WalkStands /\ at = "add" /\ at' # "add"
    /\ \/ /\ UNCHANGED written /\ logged' = logged \union {adding.path}
          /\ \/ Source(adding.path) \notin DOMAIN src
             \/ /\ ~IsOverlayWhiteout(src[Source(adding.path)])
                /\ ~InContainer(src[Source(adding.path)].owner)
       \/ /\ UNCHANGED logged
          /\ \E hdr \in HeaderType : hdr.name = adding.name /\ written' = Append(written, hdr)

\* While the pipe is open and nothing is owed, AddHeader does one or the other.
LEMMA AddHeaderAdds ==
    ASSUME WalkFacts, AddHeader, UNCHANGED touched, ~owed, ~rclosed
    PROVE  AddsOne /\ at' # "start"
  <1>. USE DEF AddHeader
  <1>1. PICK packed : packed = Packed(src, Source(adding.path), adding.name, SeenFiles)
    OBVIOUS
  <1>2. PackedAs(src, Source(adding.path), adding.name, packed)
    <2>1. IsTree(src) /\ adding.name \in Seq(Name) /\ NamesAre(SeenFiles)
      BY DEF WalkFacts, SourceInv, EntryInv
    <2>2. QED
      BY <1>1, <2>1, PackedIsTyped
  <1>3. UNCHANGED <<src, options, srcPath, unwalked, include, seen, adding>>
    OBVIOUS
  <1>4. CASE packed.err # "ok"
    <2>1. Log /\ at' = "walk" /\ UNCHANGED <<todo, sent, written, pipe>>
      BY <1>1, <1>4
    <2>2. \/ Source(adding.path) \notin DOMAIN src
          \/ /\ ~IsOverlayWhiteout(src[Source(adding.path)])
             /\ ~InContainer(src[Source(adding.path)].owner)
      BY <1>2, <1>4 DEF PackedAs
    <2>3. WalkStands
      BY <1>3, <2>1 DEF WalkStands
    <2>4. QED
      BY <1>3, <2>1, <2>2, <2>3 DEF AddsOne, Log
  <1>5. CASE packed.err = "ok"
    <2>1. /\ written' = Append(written, packed.hdr)
          /\ at' = "header" /\ UNCHANGED <<todo, logged>>
      BY <1>1, <1>5
    <2>2. packed.hdr \in HeaderType /\ packed.hdr.name = adding.name
      BY <1>2, <1>5 DEF PackedAs
    <2>3. WalkStands
      BY <1>3, <2>1 DEF WalkStands
    <2>4. QED
      BY <1>3, <2>1, <2>2, <2>3 DEF AddsOne
  <1>6. QED
    BY <1>4, <1>5

\* Either way the account of the names stays right.
LEMMA AddedNames ==
    ASSUME WalkFacts, ArchInv, AddsOne
    PROVE  NameInv'
  <1>. USE DEF AddsOne
  <1>1. UNCHANGED options /\ UNCHANGED <<seen, adding>> /\ touched \subseteq touched'
    BY DEF WalkStands
  <1>2. /\ Base' = Base /\ \A p : AskedName(p)' = AskedName(p)
        /\ NamesDiffer' = NamesDiffer /\ \A p : Ownable(p)' = Ownable(p)
    BY <1>1, SameIncludes, SameName, SameRules
  <1>3. \A p : Touched(Base \o p) => Touched(Base \o p)'
    BY <1>1, <1>2, TouchedStill
  <1>4. /\ adding.path \in seen /\ seen \subseteq Asked /\ adding.name = AskedName(adding.path)
        /\ srcPath = Base /\ written \in Seq(HeaderType)
    BY DEF WalkFacts, EntryInv, ArchInv, SeenInv, RouteInv
  <1>5. /\ \A i \in 1..Len(written) :
              \E p \in seen : p # adding.path /\ written[i].name = AskedName(p)
        /\ NamesDiffer => \A i, j \in 1..Len(written) : written[i].name = written[j].name => i = j
        /\ \A p \in seen : \/ p = adding.path
                           \/ HasName(p)
                           \/ p \in logged /\ (Touched(Base \o p) \/ ~Ownable(p))
    BY DEF ArchInv, NameInv, Beside
  <1>6. \A p : Beside(p)'
    BY DEF Beside
  <1>7. CASE UNCHANGED written
    <2>1. logged' = logged \union {adding.path} \/ (logged' = logged /\ FALSE)
      <3>1. ASSUME NEW hdr \in HeaderType, written' = Append(written, hdr)
            PROVE  FALSE
        <4>1. PICK n : n = Len(written) /\ n \in Nat
          BY <1>4
        <4>2. Len(Append(written, hdr)) = n + 1
          BY <1>4, <4>1, AppendFacts
        <4>3. n + 1 # n
          BY <4>1
        <4>4. QED
          BY <1>7, <3>1, <4>1, <4>2, <4>3
      <3>2. QED
        BY <3>1
    <2>2. Touched(Base \o adding.path) \/ ~Ownable(adding.path)
      <3>1. \/ Source(adding.path) \notin DOMAIN src
            \/ /\ ~IsOverlayWhiteout(src[Source(adding.path)])
               /\ ~InContainer(src[Source(adding.path)].owner)
        <4>1. ASSUME NEW hdr \in HeaderType, written' = Append(written, hdr)
              PROVE  FALSE
          <5>1. PICK n : n = Len(written) /\ n \in Nat
            BY <1>4
          <5>2. Len(Append(written, hdr)) = n + 1
            BY <1>4, <5>1, AppendFacts
          <5>3. n + 1 # n
            BY <5>1
          <5>4. QED
            BY <1>7, <4>1, <5>1, <5>2, <5>3
        <4>2. QED
          BY <4>1
      <3>2. QED
        BY <1>4, <3>1, NotAdded
    <2>3. \A p : HasName(p)' = HasName(p)
      BY <1>2, <1>7 DEF HasName
    <2>4. \A p \in seen' : \/ at' = "add" /\ p = adding'.path
                           \/ HasName(p)'
                           \/ p \in logged' /\ (Touched(Base \o p)' \/ ~Ownable(p)')
      BY <1>1, <1>2, <1>3, <1>5, <2>1, <2>2, <2>3
    <2>5. QED
      BY <1>1, <1>2, <1>5, <1>6, <1>7, <2>4 DEF NameInv
  <1>8. CASE \E hdr \in HeaderType :
                 logged' = logged /\ hdr.name = adding.name /\ written' = Append(written, hdr)
    <2>1. PICK hdr \in HeaderType :
              logged' = logged /\ hdr.name = adding.name /\ written' = Append(written, hdr)
      BY <1>8
    <2>2. PICK n : n = Len(written) /\ n \in Nat
      BY <1>4
    <2>3. /\ Len(written') = n + 1 /\ written'[n + 1] = hdr
          /\ \A i \in 1..n : written'[i] = written[i]
      BY <1>4, <2>1, <2>2, AppendFacts
    <2>4. \A i \in 1..n+1 : i \in 1..n \/ i = n + 1
      BY <2>2
    <2>5. n + 1 \in 1..n+1 /\ \A i \in 1..n : i \in 1..n+1
      BY <2>2
    <2>6. \A i \in 1..n+1 : \E p \in seen : written'[i].name = AskedName(p)
      <3>1. TAKE i \in 1..n+1
      <3>2. CASE i \in 1..n
        BY <1>5, <2>2, <2>3, <3>2
      <3>3. CASE i = n + 1
        BY <1>4, <2>1, <2>3, <3>3
      <3>4. QED
        BY <2>4, <3>2, <3>3
    <2>7. ASSUME NamesDiffer, NEW i \in 1..n
          PROVE  written[i].name # hdr.name
      <3>1. PICK p \in seen : p # adding.path /\ written[i].name = AskedName(p)
        BY <1>5, <2>2
      <3>2. AskedName(p) # AskedName(adding.path)
        BY <1>4, <2>7, <3>1 DEF NamesDiffer
      <3>3. QED
        BY <1>4, <2>1, <3>1, <3>2
    <2>8. ASSUME NamesDiffer, NEW i \in 1..n+1, NEW j \in 1..n+1,
                 written'[i].name = written'[j].name
          PROVE  i = j
      <3>1. CASE i \in 1..n /\ j \in 1..n
        BY <1>5, <2>2, <2>3, <2>8, <3>1
      <3>2. CASE i \in 1..n /\ j = n + 1
        BY <2>3, <2>7, <2>8, <3>2
      <3>3. CASE i = n + 1 /\ j \in 1..n
        BY <2>3, <2>7, <2>8, <3>3
      <3>4. QED
        BY <2>4, <2>8, <3>1, <3>2, <3>3
    <2>9. \A p : HasName(p) => HasName(p)'
      <3>1. SUFFICES ASSUME NEW p, NEW i \in 1..n, written[i].name = AskedName(p)
                     PROVE  \E k \in 1..n+1 : written'[k].name = AskedName(p)
        BY <1>2, <2>2, <2>3 DEF HasName
      <3>2. QED
        BY <2>3, <2>5, <3>1
    <2>10. HasName(adding.path)'
      <3>1. \E k \in 1..n+1 : written'[k].name = AskedName(adding.path)
        BY <1>4, <2>1, <2>3, <2>5
      <3>2. QED
        BY <1>1, <1>2, <2>3, <3>1 DEF HasName
    <2>11. \A p \in seen' : \/ at' = "add" /\ p = adding'.path
                            \/ HasName(p)'
                            \/ p \in logged' /\ (Touched(Base \o p)' \/ ~Ownable(p)')
      BY <1>1, <1>2, <1>3, <1>5, <2>1, <2>9, <2>10
    <2>12. QED
      BY <1>1, <1>2, <1>6, <2>3, <2>6, <2>8, <2>11 DEF NameInv
  <1>9. QED
    BY <1>7, <1>8

\* So adding keeps the account of the walk.
LEMMA AddArch ==
    ASSUME WalkFacts, AddHeader, UNCHANGED touched, ~owed, ~rclosed, ArchInv
    PROVE  ArchInv' /\ at' # "start"
  <1>1. AddsOne /\ at' # "start"
    BY AddHeaderAdds
  <1>2. ComeInv'
    BY <1>1, ComeStill DEF AddsOne, ArchInv, ComeInv
  <1>3. NameInv'
    BY <1>1, AddedNames
  <1>4. QED
    BY <1>1, <1>2, <1>3 DEF ArchInv, ComeInv

-----------------------------------------------------------------------------
(* Every step.                                                             *)

\* The place in the walk for every other step.
StaysSo ==
    /\ at' = "start" <=> at = "start"
    /\ at' = "add" <=> at = "add"
    /\ at' \in {"add", "header", "body", "contents"} =>
           at \in {"add", "header", "body", "contents"}

\* What other processes do to the source leaves the walk alone.
LEMMA DisturbStill ==
    ASSUME SourceInv, Disturb
    PROVE  AskStill /\ UNCHANGED at
  <1>1. CASE UntarFails
    BY <1>1 DEF UntarFails, writer, walk, entry, AskStill, WalkStands
  <1>2. ASSUME NEW p \in DOMAIN src, Delete(p) \/ Rewrite(p) \/ Replace(p)
        PROVE  AskStill /\ UNCHANGED at
    <2>1. UNCHANGED <<writer, pipe, goroutine, copy>> /\ touched \subseteq touched'
      BY <1>2 DEF Delete, Rewrite, Replace, Moving
    <2>2. DOMAIN src' \subseteq DOMAIN src
      BY <1>2, TouchesWhatChanges DEF SourceInv
    <2>3. \A q \in DOMAIN src' : IsDir(src, q) => IsDir(src', q)
      BY <1>2, DisturbSource DEF Disturbed, SameNode, IsDir, Exists
    <2>4. QED
      BY <2>1, <2>2, <2>3 DEF writer, walk, entry, AskStill, WalkStands
  <1>3. QED
    BY <1>1, <1>2 DEF Disturb

\* The steps in which the packer only waits for its reader, or ends.
Waits == Walked \/ HeaderDone \/ AddContents \/ ContentsDone \/ CloseArchive \/ ClosePipe

\* While the pipe is open and nothing comes to be owed, they leave the walk alone.
LEMMA WaitsStill ==
    ASSUME Waits, UNCHANGED touched, ~rclosed \/ at \in {"close", "closing"}, ~owed'
    PROVE  AskStill /\ StaysSo
  <1>1. CASE Walked
    BY <1>1 DEF Walked, entry, walk, AskStill, WalkStands, StaysSo
  <1>2. CASE HeaderDone
    BY <1>2 DEF HeaderDone, WriteBroken, AskStill, WalkStands, StaysSo
  <1>3. CASE AddContents
    BY <1>3 DEF AddContents, Log, AskStill, WalkStands, StaysSo
  <1>4. CASE ContentsDone
    BY <1>4 DEF ContentsDone, WriteBroken, AskStill, WalkStands, StaysSo
  <1>5. CASE CloseArchive
    BY <1>5 DEF CloseArchive, entry, walk, AskStill, WalkStands, StaysSo
  <1>6. CASE ClosePipe
    BY <1>6 DEF ClosePipe, entry, walk, AskStill, WalkStands, StaysSo
  <1>7. QED
    BY <1>1, <1>2, <1>3, <1>4, <1>5, <1>6 DEF Waits

\* A lost file ends the walk without anything more.
LEMMA WaitsLost ==
    ASSUME Waits, UNCHANGED touched, Lost
    PROVE  AskStill /\ StaysSo
  <1>1. CASE Walked
    BY <1>1 DEF Walked, entry, walk, AskStill, WalkStands, StaysSo
  <1>2. CASE CloseArchive
    BY <1>2 DEF CloseArchive, entry, walk, AskStill, WalkStands, StaysSo
  <1>3. CASE ClosePipe
    BY <1>3 DEF ClosePipe, entry, walk, AskStill, WalkStands, StaysSo
  <1>4. QED
    BY <1>1, <1>2, <1>3 DEF Waits, Lost, HeaderDone, AddContents, ContentsDone

\* A step that leaves the walk alone keeps the invariant.
LEMMA AskKept ==
    ASSUME AskInv, AskStill, StaysSo, Clean' => Clean
    PROVE  AskInv'
  <1>1. UNCHANGED options /\ UNCHANGED <<srcPath, seen>>
    BY DEF AskStill, WalkStands
  <1>2. CopiesFile' = CopiesFile
    BY <1>1 DEF CopiesFile
  <1>3. SUFFICES ASSUME ~CopiesFile
                 PROVE  /\ at' = "start" => srcPath' = options'.srcPath /\ seen' = {}
                        /\ at' # "start" => Lost' \/ (Clean' => ArchInv')
    BY <1>2 DEF AskInv
  <1>4. at' = "start" => srcPath' = options'.srcPath /\ seen' = {}
    BY <1>1, <1>3 DEF AskInv, StaysSo
  <1>5. CASE at = "start"
    BY <1>4, <1>5 DEF StaysSo
  <1>6. CASE at # "start" /\ Lost
    <2>1. at' \notin {"add", "header", "body", "contents"}
      BY <1>6 DEF Lost, StaysSo
    <2>2. Lost'
      BY <1>6, <2>1, LostStill
    <2>3. QED
      BY <1>4, <2>2
  <1>7. CASE at # "start" /\ (Clean => ArchInv)
    <2>1. Clean' => ArchInv'
      BY <1>7, ArchStill DEF StaysSo
    <2>2. QED
      BY <1>4, <2>1
  <1>8. QED
    BY <1>3, <1>5, <1>6, <1>7 DEF AskInv

\* Whatever the packer does, the account of its walk is right after it.
LEMMA DoAsk ==
    ASSUME TypedInv, AskInv, ~CopiesFile, Clean' => Clean,
           Do, UNCHANGED <<goroutine, copy, faults, touched>>
    PROVE  AskInv'
  <1>1. WalkFacts /\ UNCHANGED touched
    BY WalkFactsHold
  <1>2. Clean' => ExclusionsArePlain
    BY DEF Clean
  <1>3. Clean /\ at \notin {"closing", "ended"} => ~rclosed /\ ~owed
    BY CleanWalk
  <1>4. ASSUME at # "start", at' # "start", Lost => Lost', Clean' /\ ArchInv => ArchInv'
        PROVE  AskInv'
    BY <1>4 DEF AskInv
  <1>5. CASE Start
    BY <1>1, <1>5, StartAsk
  <1>6. CASE NextInclude
    <2>1. at # "start" /\ at' # "start"
      BY <1>6 DEF NextInclude
    <2>2. QED
      BY <1>1, <1>4, <1>6, <2>1, NextArch, NextLost
  <1>7. CASE Visit
    <2>1. at # "start" /\ at' # "start"
      BY <1>7 DEF Visit
    <2>2. QED
      BY <1>1, <1>2, <1>4, <1>7, <2>1, VisitArch, VisitLost
  <1>8. CASE ReadNames
    <2>1. at # "start" /\ at' # "start"
      BY <1>8 DEF ReadNames
    <2>2. QED
      BY <1>1, <1>4, <1>8, <2>1, ReadArch, ReadLost
  <1>9. CASE AddHeader
    <2>1. at = "add"
      BY <1>9 DEF AddHeader
    <2>2. at' # "start" /\ ~Lost
      BY <1>9, <2>1 DEF AddHeader, StopsWalk, Lost
    <2>3. QED
      BY <1>1, <1>3, <1>4, <1>9, <2>1, <2>2, AddArch
  <1>10. CASE Waits
    <2>1. at # "start" /\ at' # "start"
      BY <1>10 DEF Waits, Walked, HeaderDone, AddContents, ContentsDone, CloseArchive, ClosePipe,
         StopsWalk
    <2>2. Lost => Lost'
      <3>1. ASSUME Lost
            PROVE  AskStill /\ StaysSo
        BY <1>1, <1>10, <3>1, WaitsLost
      <3>2. QED
        BY <3>1, LostStill DEF StaysSo, Lost
    <2>3. ASSUME Clean', ArchInv
          PROVE  ArchInv'
      <3>1. ~owed'
        BY <2>3 DEF Clean
      <3>2. ~rclosed \/ at \in {"close", "closing"}
        <4>1. at # "ended"
          BY <1>10 DEF Waits, Walked, HeaderDone, AddContents, ContentsDone, CloseArchive, ClosePipe
        <4>2. QED
          BY <1>3, <2>3, <4>1
      <3>3. AskStill /\ StaysSo
        BY <1>1, <1>10, <3>1, <3>2, WaitsStill
      <3>4. QED
        BY <2>3, <3>3, ArchStill DEF StaysSo
    <2>4. QED
      BY <1>4, <2>1, <2>2, <2>3
  <1>11. QED
    BY <1>5, <1>6, <1>7, <1>8, <1>9, <1>10 DEF Do, Waits

\* Every step keeps the account of the walk.
LEMMA AskStep ==
    ASSUME TypedInv, AskInv, [Next]_vars
    PROVE  AskInv'
  <1>1. AtInv /\ SourceInv
    BY DEF TypedInv, IInv, ControlInv
  <1>2. UNCHANGED options
    BY <1>1, SameOptions
  <1>3. CASE CopiesFile
    BY <1>2, <1>3 DEF AskInv, CopiesFile
  <1>4. CASE ~CopiesFile
    <2>1. Clean' => Clean
      BY <1>4, CleanBefore
    <2>2. CASE Do /\ UNCHANGED <<goroutine, copy, faults, touched>>
      BY <1>4, <2>1, <2>2, DoAsk
    <2>3. CASE StatFile \/ OpenFile \/ SendDone \/ CopyFile \/ CopyDone
      BY <1>1, <1>4, <2>3 DEF AtInv, StatFile, OpenFile, SendDone, CopyFile, CopyDone
    <2>4. CASE Reader
      <3>1. UNCHANGED <<src, writer, touched>>
        BY <2>4 DEF Reader, ReadHeader, Extracts, ReadContents, ReadEnd, StreamEnds, EndTarUntar,
           CloseWithError, EndCopyFile
      <3>2. AskStill /\ StaysSo
        BY <3>1 DEF writer, walk, entry, AskStill, WalkStands, StaysSo
      <3>3. QED
        BY <2>1, <3>2, AskKept
    <2>5. CASE Disturb
      <3>1. AskStill /\ StaysSo
        BY <1>1, <2>5, DisturbStill DEF StaysSo
      <3>2. QED
        BY <2>1, <3>1, AskKept
    <2>6. CASE UNCHANGED vars
      <3>1. AskStill /\ StaysSo
        BY <2>6 DEF vars, writer, walk, entry, AskStill, WalkStands, StaysSo
      <3>2. QED
        BY <2>1, <3>1, AskKept
    <2>7. QED
      BY <2>2, <2>3, <2>4, <2>5, <2>6 DEF Next, Ended, Writer
  <1>5. QED
    BY <1>3, <1>4

\* It is right at the start.
LEMMA AskInit ==
    ASSUME Init
    PROVE  AskInv
  <1>1. PICK c \in Cases : /\ srcPath = c.srcPath /\ options = c
                           /\ at = IF c.call = "TarUntar" THEN "start" ELSE "stat"
    BY DEF Init
  <1>2. c.call \in {"TarUntar", "CopyFileWithTar"}
    BY CopyAssumption
  <1>3. seen = {}
    BY DEF Init, DoInit
  <1>4. QED
    BY <1>1, <1>2, <1>3 DEF AskInv, CopiesFile

-----------------------------------------------------------------------------
(* What a copy without an error has archived.                              *)

\* What such a copy rests on: the walk is at its end, and all is received.
AllDone ==
    /\ options \in Cases /\ seen \subseteq Seq(Name)
    /\ \A p : ~Covers(todo, p)
    /\ Come = Len(Includes) /\ at \in {"closing", "ended"} /\ at # "add"
    /\ Len(received) = Len(written) /\ Len(written) \in Nat
    /\ \A i \in 1..Len(written) : received[i].hdr = written[i]

\* A copy that returns no error is that far.
LEMMA DoneAtEnd ==
    ASSUME TypedInv, AskInv, ~CopiesFile, result = "nil", ExclusionsArePlain
    PROVE  AllDone /\ (Lost \/ ArchInv)
  <1>1. ControlInv /\ WalkInv /\ EntryInv /\ options \in Cases
    BY DEF TypedInv, IInv, SourceKept
  <1>2. /\ untar = "nil" /\ at \in {"closing", "ended"} /\ ~owed
        /\ Len(received) = Len(written)
    BY <1>1 DEF ControlInv, ResultInv
  <1>3. Clean
    BY <1>2 DEF Clean
  <1>4. Lost \/ ArchInv
    BY <1>2, <1>3 DEF AskInv
  <1>5. todo = << >> /\ unwalked = << >>
    BY <1>1, <1>2 DEF WalkInv
  <1>6. Len(todo) = 0 /\ Len(unwalked) = 0
    BY <1>5, EmptySeq
  <1>7. Come = Len(Includes)
    <2>1. PICK n : n = Len(Includes) /\ n \in Nat
      BY <1>1, IncludesType
    <2>2. QED
      BY <1>6, <2>1 DEF Come
  <1>8. \A p : ~Covers(todo, p)
    BY <1>6 DEF Covers, Holds
  <1>9. Len(written) \in Nat
    BY <1>1, Lengths DEF ControlInv
  <1>10. \A i \in 1..Len(written) : received[i].hdr = written[i]
    BY <1>1, <1>2 DEF ControlInv, SyncInv
  <1>11. QED
    BY <1>1, <1>2, <1>4, <1>7, <1>8, <1>9, <1>10 DEF AllDone, EntryInv

\* A path that a file to copy did not come to was touched with it.
LEMMA LostIsTouched ==
    ASSUME SourceKept, SourceInv, Lost, NEW p \in Asked
    PROVE  ~Undisturbed(p)
  <1>1. options \in Cases /\ touched \subseteq Seq(Name)
    BY DEF SourceKept
  <1>2. /\ Includes \in Seq(Seq(Name)) /\ Base \in Seq(Name)
        /\ Len(Includes) = 1 /\ Base \o Includes[1] = options.srcPath
    BY <1>1, IncludesType DEF Lost
  <1>3. p \in Seq(Name) /\ Base \o p \in DOMAIN options.src /\ AskedBy(Includes[1], p)
    BY <1>1, <1>2, AskedIs
  <1>4. Includes[1] \in Seq(Name)
    <2>1. 1 \in 1..Len(Includes)
      BY <1>2
    <2>2. QED
      BY <1>2, <2>1, ElementOfSeq
  <1>5. Under(Includes[1], p)
    <2>1. p = Includes[1] => Under(Includes[1], p)
      BY <1>4, BelowIsLonger
    <2>2. QED
      BY <1>3, <2>1 DEF AskedBy
  <1>6. /\ Under(options.srcPath, Base \o p) /\ Base \o p \in Seq(Name)
        /\ options.srcPath \in Seq(Name)
    <2>1. Base \in Seq(Name) /\ p \in Seq(Name) /\ Includes[1] \in Seq(Name)
      BY <1>2, <1>3, <1>4
    <2>2. /\ Under(Base \o Includes[1], Base \o p) /\ Base \o p \in Seq(Name)
          /\ Base \o Includes[1] \in Seq(Name)
      BY <1>5, <2>1, UnderBehind
    <2>3. QED
      BY <1>2, <2>2
  <1>7. options.srcPath \in DOMAIN options.src
    <2>1. options.srcPath = Base \o p \/ Below(options.srcPath, Base \o p)
      BY <1>6, BelowIsLonger
    <2>2. QED
      BY <1>3, <1>6, <2>1, ThereNow DEF IsDir, Exists
  <1>8. PICK q \in touched : Under(q, options.srcPath)
    BY <1>7 DEF Lost, Touched
  <1>9. Under(q, Base \o p)
    BY <1>1, <1>6, <1>8, UnderTransitive
  <1>10. QED
    BY <1>9 DEF Undisturbed

\* The names received are those of the headers written.
LEMMA NamesReceived ==
    ASSUME AllDone
    PROVE  /\ \A name : name \in ReceivedNames <=> \E i \in 1..Len(written) : written[i].name = name
           /\ \A p : HasName(p) => AskedName(p) \in ReceivedNames
  <1>1. \A i \in 1..Len(written) : received[i].hdr.name = written[i].name
    BY DEF AllDone
  <1>2. \A name : name \in ReceivedNames <=> \E i \in 1..Len(received) : received[i].hdr.name = name
    BY DEF ReceivedNames
  <1>3. \A name : name \in ReceivedNames <=> \E i \in 1..Len(written) : written[i].name = name
    BY <1>1, <1>2 DEF AllDone
  <1>4. QED
    BY <1>3 DEF HasName

\* With different names for all, they are as many.
LEMMA AsManyNames ==
    ASSUME AllDone, \A i, j \in 1..Len(written) : written[i].name = written[j].name => i = j
    PROVE  Len(received) = Cardinality(ReceivedNames)
  <1>1. PICK n : n = Len(written) /\ n \in Nat
    BY DEF AllDone
  <1>2. PICK f : f = [i \in 1..n |-> written[i].name]
    OBVIOUS
  <1>3. \A name : name \in ReceivedNames <=> \E i \in 1..n : f[i] = name
    BY <1>1, <1>2, NamesReceived
  <1>4. f \in [1..n -> ReceivedNames]
    BY <1>2, <1>3
  <1>5. \A i, j \in 1..n : f[i] = f[j] => i = j
    BY <1>1, <1>2
  <1>6. f \in Bijection(1..n, ReceivedNames)
    BY <1>3, <1>4, <1>5 DEF Bijection, Injection, Surjection, IsInjective
  <1>7. ExistsBijection(1..n, ReceivedNames)
    BY <1>6 DEF ExistsBijection
  <1>8. Cardinality(ReceivedNames) = n
    BY <1>1, <1>7, FS_CountingElements
  <1>9. QED
    BY <1>1, <1>8 DEF AllDone

\* What the account of the walk says when it is over.
LEMMA ArchivedAtEnd ==
    ASSUME TypedInv, AskInv
    PROVE  ArchivesWhatIsAsked
  <1>1. SUFFICES ASSUME options.call = "TarUntar", result = "nil", ExclusionsArePlain
                 PROVE  /\ ReceivedNames \subseteq {AskedName(p) : p \in Asked}
                        /\ {AskedName(p) : p \in {q \in Asked : Undisturbed(q) /\ Ownable(q)}}
                               \subseteq ReceivedNames
                        /\ {AskedName(p) : p \in (Asked \intersect seen) \ logged}
                               \subseteq ReceivedNames
                        /\ NamesDiffer => Len(received) = Cardinality(ReceivedNames)
    BY DEF ArchivesWhatIsAsked
  <1>2. AllDone /\ (Lost \/ ArchInv) /\ SourceKept /\ SourceInv
    <2>1. ~CopiesFile
      BY <1>1 DEF CopiesFile
    <2>2. QED
      BY <1>1, <2>1, DoneAtEnd DEF TypedInv, IInv
  <1>3. CASE Lost
    <2>1. Len(received) = 0 /\ Len(written) = 0
      BY <1>2, <1>3, EmptySeq DEF Lost, AllDone
    <2>2. ReceivedNames = {}
      BY <2>1 DEF ReceivedNames
    <2>3. Cardinality(ReceivedNames) = 0
      BY <2>2, FS_EmptySet
    <2>4. \A q \in Asked : ~Undisturbed(q)
      BY <1>2, <1>3, LostIsTouched
    <2>5. seen = {}
      BY <1>3 DEF Lost
    <2>6. QED
      BY <2>1, <2>2, <2>3, <2>4, <2>5
  <1>4. CASE ArchInv
    <2>1. seen \subseteq Asked /\ srcPath = Base
      BY <1>4 DEF ArchInv, SeenInv, RouteInv
    <2>2. \A p \in seen : \/ HasName(p)
                          \/ p \in logged /\ (Touched(Base \o p) \/ ~Ownable(p))
      BY <1>2, <1>4 DEF ArchInv, NameInv, AllDone
    <2>3. ReceivedNames \subseteq {AskedName(p) : p \in Asked}
      <3>1. \A i \in 1..Len(written) : \E p \in seen : written[i].name = AskedName(p)
        BY <1>4 DEF ArchInv, NameInv
      <3>2. QED
        BY <1>2, <2>1, <3>1, NamesReceived
    <2>4. ASSUME NEW p \in Asked, Undisturbed(p), Ownable(p)
          PROVE  AskedName(p) \in ReceivedNames
      <3>1. PICK j \in 1..Len(Includes) : AskedBy(Includes[j], p)
        BY <1>2, AskedIs DEF AllDone
      <3>2. p \in Seq(Name) /\ Base \o p \in DOMAIN options.src /\ Wanted(p)
        BY <1>2, AskedIs DEF AllDone
      <3>3. ~Touched(Base \o p)
        BY <2>4 DEF Undisturbed, Touched
      <3>4. Source(p) \in DOMAIN src
        BY <1>2, <2>1, <3>2, <3>3 DEF SourceKept, Source
      <3>5. p \in seen
        BY <1>2, <1>4, <3>1, <3>2, <3>4 DEF ArchInv, CoverInv, AllDone
      <3>6. HasName(p)
        BY <2>2, <2>4, <3>3, <3>5
      <3>7. QED
        BY <1>2, <3>6, NamesReceived
    <2>5. ASSUME NEW p \in seen, p \notin logged
          PROVE  AskedName(p) \in ReceivedNames
      BY <1>2, <2>2, <2>5, NamesReceived
    <2>6. ASSUME NamesDiffer
          PROVE  Len(received) = Cardinality(ReceivedNames)
      <3>1. \A i, j \in 1..Len(written) : written[i].name = written[j].name => i = j
        BY <1>4, <2>6 DEF ArchInv, NameInv
      <3>2. QED
        BY <1>2, <3>1, AsManyNames
    <2>7. QED
      BY <2>3, <2>4, <2>5, <2>6
  <1>5. QED
    BY <1>2, <1>3, <1>4

\* ArchivesWhatIsAsked for every source, include, pattern and rebasing, and however
\* many files go meanwhile: Tarballer.Do archives what is asked for and nothing else,
\* each under its name, though it prunes excluded directories, keeps the results of
\* the parents' patterns, and goes on after an error.
THEOREM AskedIsArchived == Spec => []ArchivesWhatIsAsked
  <1>1. Init => TypedInv /\ AskInv
    BY InitTyped, AskInit
  <1>2. TypedInv /\ AskInv /\ [Next]_vars => (TypedInv /\ AskInv)'
    BY StepTyped, AskStep
  <1>3. TypedInv /\ AskInv => ArchivesWhatIsAsked
    BY ArchivedAtEnd
  <1>4. QED
    BY <1>1, <1>2, <1>3, PTL DEF Spec

=============================================================================
