----------------------------- MODULE ReplaceFile -----------------------------
(***************************************************************************)
(* ReplaceFileTarWrapper (archive.go): a goroutine that copies an archive  *)
(* from a stream it closes at the end, here one DecompressStream returned, *)
(* to a pipe, and changes the entries some names of which are given.       *)
(***************************************************************************)
EXTENDS CmdStream, FiniteSets, SequencesExt

CONSTANTS EntryName, MaxEntries

ASSUME ReplaceFileAssumption == MaxEntries \in Nat

\* What a modifier does with an entry, and with none: it leaves another one, it
\* leaves none, or it fails.
Modifier == {"replaces", "drops", "fails"}

Entry(name, content) == [name |-> name, content |-> content]
Trailer == Entry("", "trailer")

VARIABLES archive,  \* the entries the stream holds
          whole,    \* their trailer follows
          given,    \* the modifiers given
          mods,     \* those not yet used
          at,       \* where the goroutine is
          out,      \* what it is writing
          outClosed, outRclosed,
          received, \* what the reader of the result has read
          reader    \* where that reader is

rewriter == <<archive, whole, given, mods, at, out, outClosed, outRclosed, received, reader>>
vars == <<stream, rewriter>>

Archives == UNION {[1..n -> {Entry(name, "original") : name \in EntryName}] : n \in 0..MaxEntries}
Mods == UNION {[names -> Modifier] : names \in SUBSET EntryName}

Init ==
    /\ archive \in Archives /\ whole \in BOOLEAN
    /\ input = IF whole THEN Append(archive, Trailer) ELSE archive
    /\ inputEnd \in {"eof", "err"}
    /\ mode \in {"place", "command"}
    /\ StreamInit
    /\ given \in Mods /\ mods = given
    /\ at = "start" /\ out = << >> /\ outClosed = "open" /\ outRclosed = FALSE
    /\ received = << >> /\ reader = "reads"

Goes(to) == at' = to

\* DecompressStream, which may fail, and the go statement.
Begin ==
    /\ at = "start"
    /\ \/ /\ Goes("next") /\ UNCHANGED <<mode, reader>>
          /\ IF InPlace THEN UNCHANGED stream ELSE Start
       \/ Goes("ended") /\ reader' = "err" /\ UNCHANGED stream
    /\ UNCHANGED <<archive, whole, given, mods, out, outClosed, outRclosed, received>>

CloseWithError == outClosed' = "err" /\ Goes("close")

\* The modifier of a name is used once, on the first entry of that name.
Used(name) == [n \in DOMAIN mods \ {name} |-> mods[n]]

Modify(name) ==
    CASE mods[name] = "fails" -> CloseWithError /\ UNCHANGED out
      [] mods[name] = "drops" -> UNCHANGED <<at, out, outClosed>>
      [] OTHER -> out' = <<Entry(name, "modified")>> /\ UNCHANGED outClosed
                  /\ Goes(IF at = "next" THEN "write" ELSE "add")

ReadNext ==
    /\ at = "next" /\ Available # << >>
    /\ Take
    /\ LET entry == Head(Available)
       IN  IF entry = Trailer THEN Goes("rest") /\ UNCHANGED <<out, mods, outClosed>>
           ELSE IF entry.name \in DOMAIN mods
           THEN Modify(entry.name) /\ mods' = Used(entry.name)
           ELSE out' = <<entry>> /\ Goes("write") /\ UNCHANGED <<mods, outClosed>>
    /\ UNCHANGED <<inputEnd, mode, exec, closed, rclosed, waiter, cancelled, archive, whole, given,
                   outRclosed, received, reader>>

\* The end of the stream between two entries is the end of the archive as well.
ReadEnd ==
    /\ at = "next" /\ End # "open"
    /\ Goes(IF End = "eof" THEN "rest" ELSE "close")
    /\ outClosed' = IF End = "eof" THEN outClosed ELSE "err"
    /\ UNCHANGED <<stream, archive, whole, given, mods, out, outRclosed, received, reader>>

Written ==
    /\ at \in {"write", "add"}
    /\ \/ out = << >> /\ Goes(IF at = "write" THEN "next" ELSE "rest")
          /\ UNCHANGED <<out, outClosed>>
       \/ out # << >> /\ outRclosed /\ CloseWithError /\ out' = << >>
    /\ UNCHANGED <<stream, archive, whole, given, mods, outRclosed, received, reader>>

\* The modifiers that matched no entry, in no particular order.
Rest ==
    /\ at = "rest"
    /\ \/ \E name \in DOMAIN mods : Modify(name) /\ mods' = Used(name)
       \/ /\ mods = << >> /\ outClosed' = "eof" /\ Goes("close")
          /\ UNCHANGED <<mods, out>>
    /\ UNCHANGED <<stream, archive, whole, given, outRclosed, received, reader>>

\* The deferred function: the trailer finds the pipe closed, the input is closed.
Abandon == UNCHANGED <<cancelled, rclosed>>
CloseInput == Close

Deferred ==
    /\ at = "close" /\ Goes("closing")
    /\ CloseInput
    /\ UNCHANGED <<input, inputEnd, mode, exec, wire, closed, waiter, archive, whole, given, mods,
                   out, outClosed, outRclosed, received, reader>>

InputClosed ==
    /\ at = "closing" /\ CommandDone
    /\ Goes("ended")
    /\ UNCHANGED <<stream, archive, whole, given, mods, out, outClosed, outRclosed, received,
                   reader>>

Rewriter == \/ Begin \/ ReadNext \/ ReadEnd \/ Written \/ Rest \/ Deferred \/ InputClosed

(***************************************************************************)
(* The reader of the result reads to the end, or closes it before.         *)
(***************************************************************************)
Reads ==
    /\ reader = "reads"
    /\ \/ /\ out # << >> /\ received' = received \o out /\ out' = << >>
          /\ UNCHANGED <<reader, outRclosed>>
       \/ /\ out = << >> /\ outClosed # "open" /\ reader' = outClosed /\ outRclosed' = TRUE
          /\ UNCHANGED <<received, out>>
    /\ UNCHANGED <<stream, archive, whole, given, mods, at, outClosed>>

ClosesEarly ==
    /\ reader = "reads" /\ reader' = "closed" /\ outRclosed' = TRUE
    /\ UNCHANGED <<stream, archive, whole, given, mods, at, out, outClosed, received>>

Ended == reader # "reads" /\ at = "ended" /\ UNCHANGED vars

Next == \/ Goroutines /\ UNCHANGED rewriter
        \/ ChildFails /\ UNCHANGED rewriter
        \/ Rewriter \/ Reads \/ ClosesEarly \/ Ended

\* The compressed stream goes on to its end, and so does every goroutine.
Spec == Init /\ [][Next]_vars /\ WF_vars(Goroutines /\ UNCHANGED rewriter)
             /\ WF_vars(Rewriter) /\ WF_vars(Reads)

(***************************************************************************)
(* Properties.                                                             *)
(***************************************************************************)
\* What the archive becomes: of each name with a modifier the first entry is
\* replaced or dropped, and a name that is not there is added at the end.
FirstOfName(i) == \A j \in 1..i-1 : archive[j].name # archive[i].name
Becomes(i) == IF archive[i].name \in DOMAIN given /\ FirstOfName(i)
              THEN IF given[archive[i].name] = "drops" THEN << >>
                   ELSE <<Entry(archive[i].name, "modified")>>
              ELSE <<archive[i]>>
Rewritten == FlattenSeq([i \in 1..Len(archive) |-> Becomes(i)])
Names == {archive[i].name : i \in 1..Len(archive)}
Added == {name \in DOMAIN given \ Names : given[name] = "replaces"}

\* A reader that meets the end of the result has all that the stream held: every
\* entry once, in its order, changed as the modifiers say, and those that were missing.
\* A stream that broke off with an error before its trailer, a child or a modifier that
\* failed is an error at the end, never a shorter archive.  (cmdStream waits for the
\* command and for its output before it closes the pipe, with the error of either;
\* every return of the rewriter closes the other one.)  Only a stream that ends between
\* two entries with io.EOF is taken for an archive that ends there: the loop asks for
\* no trailer.
WholeOrError ==
    reader = "eof" =>
        /\ whole \/ inputEnd = "eof"
        /\ \A name \in DOMAIN given : given[name] # "fails"
        /\ Len(received) = Len(Rewritten) + Cardinality(Added)
        /\ IsPrefix(Rewritten, received)
        /\ {received[i] : i \in Len(Rewritten)+1..Len(received)}
               = {Entry(name, "modified") : name \in Added}

\* Once the rewriter has ended nobody reads the compressed stream any more, no
\* child runs and no goroutine is left, wherever each of them was when the reader
\* closed its end.  (cmdStream's Close, which waits for the command.)
NothingLeft ==
    at = "ended" => /\ child # "runs" /\ stdin \notin {"reads", "writes"}
                    /\ stdout \notin {"copies", "writes"} /\ waiter # "waits"

\* Closing the result, or reading it to its end, ends them all.  (The deferred
\* Close of the input, and cmdStream's Close, which closes the pipe before it
\* waits.)
Finishes == <>(reader # "reads" /\ at = "ended")
=============================================================================
