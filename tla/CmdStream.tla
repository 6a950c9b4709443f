------------------------------ MODULE CmdStream ------------------------------
(***************************************************************************)
(* DecompressStream (compression.go).  Most formats are decompressed where *)
(* they are read; gzip and xz by a child process, if there is a program    *)
(* for it, which cmdStream joins to the reader by an io.Pipe.  The unit of *)
(* what is compressed, decompressed and read is an archive entry.          *)
(***************************************************************************)
EXTENDS Naturals, Sequences

CONSTANT Buffer   \* how many entries a pipe of the kernel holds

ASSUME CmdStreamAssumption == Buffer \in Nat \ {0}

VARIABLES input,    \* what has not been read of the compressed stream
          inputEnd, \* how that stream ends: eof, or an error
          mode,     \* decompressed in place or by a command
          stdin,    \* the goroutine of os/exec that feeds the child
          fed,      \* what it has read and not written
          inPipe,   \* the child's standard input
          child,
          outPipe,  \* the child's standard output
          stdout,   \* the goroutine of os/exec that writes it to the io.Pipe
          wire,     \* what that goroutine is writing
          closed,   \* how the writing end was closed
          rclosed,  \* the reading end is closed
          waiter,   \* the goroutine of cmdStream
          cancelled \* the command's context is

exec == <<stdin, fed, inPipe, child, outPipe, stdout>>
stream == <<input, inputEnd, mode, exec, wire, closed, rclosed, waiter, cancelled>>

StreamInit ==
    /\ stdin = "none" /\ fed = << >> /\ inPipe = << >> /\ child = "none"
    /\ outPipe = << >> /\ stdout = "none" /\ wire = << >> /\ closed = "open"
    /\ rclosed = FALSE /\ waiter = "none" /\ cancelled = FALSE

\* The command is started, with its two goroutines and that of cmdStream.
Start == /\ stdin' = "reads" /\ child' = "runs" /\ stdout' = "copies" /\ waiter' = "waits"
         /\ UNCHANGED <<fed, inPipe, outPipe, input, inputEnd, wire, closed, rclosed, cancelled>>

(***************************************************************************)
(* os/exec.  The goroutine that feeds the child takes a child that is gone *)
(* for no error; the one that copies its output ends if nobody reads, and  *)
(* the child is then ended by its next write.                              *)
(***************************************************************************)
Exited == child \in {"ok", "failed"}

Feed ==
    \/ /\ stdin = "reads" /\ input # << >>
       /\ fed' = <<Head(input)>> /\ input' = Tail(input) /\ stdin' = "writes"
       /\ UNCHANGED inPipe
    \/ /\ stdin = "reads" /\ input = << >>
       /\ stdin' = inputEnd /\ UNCHANGED <<fed, input, inPipe>>
    \/ /\ stdin = "writes" /\ Exited
       /\ stdin' = "eof" /\ fed' = << >> /\ UNCHANGED <<input, inPipe>>
    \/ /\ stdin = "writes" /\ ~Exited /\ Len(inPipe) < Buffer
       /\ inPipe' = inPipe \o fed /\ fed' = << >> /\ stdin' = "reads" /\ UNCHANGED input

FeedEnded == stdin \in {"eof", "err"}

Child ==
    /\ child = "runs" /\ UNCHANGED <<input, stdin, fed>>
    /\ \/ /\ inPipe # << >> /\ Len(outPipe) < Buffer /\ stdout # "ended"
          /\ outPipe' = Append(outPipe, Head(inPipe)) /\ inPipe' = Tail(inPipe)
          /\ UNCHANGED child
       \/ inPipe = << >> /\ FeedEnded /\ child' = "ok" /\ UNCHANGED <<inPipe, outPipe>>
       \/ /\ \/ inPipe = << >> /\ stdin = "err"
             \/ inPipe # << >> /\ stdout = "ended"
             \/ cancelled
          /\ child' = "failed" /\ UNCHANGED <<inPipe, outPipe>>

\* The child meets an error in what it reads, at its end too: it stops short.
ChildFails ==
    /\ child = "runs" /\ (inPipe # << >> \/ FeedEnded) /\ child' = "failed"
    /\ UNCHANGED <<input, inputEnd, mode, stdin, fed, inPipe, outPipe, stdout, wire, closed,
                   rclosed, waiter, cancelled>>

CopyOut ==
    \/ /\ stdout = "copies" /\ outPipe # << >>
       /\ IF rclosed THEN stdout' = "ended" /\ UNCHANGED <<outPipe, wire>>
          ELSE wire' = <<Head(outPipe)>> /\ outPipe' = Tail(outPipe) /\ stdout' = "writes"
    \/ /\ stdout = "copies" /\ outPipe = << >> /\ Exited
       /\ stdout' = "ended" /\ UNCHANGED <<outPipe, wire>>
    \/ /\ stdout = "writes" /\ wire = << >>
       /\ stdout' = "copies" /\ UNCHANGED <<outPipe, wire>>
    \/ /\ stdout = "writes" /\ wire # << >> /\ rclosed
       /\ stdout' = "ended" /\ wire' = << >> /\ UNCHANGED outPipe

(***************************************************************************)
(* cmdStream's goroutine.  Wait returns when the child has exited and both *)
(* goroutines of os/exec have ended; an error of the child or of reading   *)
(* its input is the error of the stream.                                   *)
(***************************************************************************)
WaitReturns == Exited /\ FeedEnded /\ stdout = "ended"

ChildError  == IF child = "failed" THEN "err" ELSE "eof"
WaitError == IF child = "failed" \/ stdin = "err" THEN "err" ELSE "eof"

Wait ==
    /\ waiter = "waits" /\ WaitReturns
    /\ closed' = WaitError /\ waiter' = "done"

Goroutines ==
    \/ Feed /\ UNCHANGED <<inputEnd, mode, child, outPipe, stdout, wire, closed, rclosed,
                           waiter, cancelled>>
    \/ Child /\ UNCHANGED <<inputEnd, mode, stdout, wire, closed, rclosed, waiter, cancelled>>
    \/ CopyOut /\ UNCHANGED <<input, inputEnd, mode, stdin, fed, inPipe, child, closed,
                              rclosed, waiter, cancelled>>
    \/ Wait /\ UNCHANGED <<input, inputEnd, mode, exec, wire, rclosed, cancelled>>

(***************************************************************************)
(* The reader that DecompressStream returns: Read takes the next entry or  *)
(* meets the end; Close cancels the context, closes the reading end, and   *)
(* waits for the command.                                                  *)
(***************************************************************************)
InPlace == mode = "place"

Available == IF InPlace THEN input ELSE wire
Take == IF InPlace THEN input' = Tail(input) /\ UNCHANGED wire
        ELSE wire' = << >> /\ UNCHANGED input
End == IF InPlace THEN IF input = << >> THEN inputEnd ELSE "open"
       ELSE IF wire = << >> THEN closed ELSE "open"

Close == IF InPlace THEN UNCHANGED <<cancelled, rclosed>>
         ELSE cancelled' = TRUE /\ rclosed' = TRUE
NeverWaits == TRUE
CommandDone == InPlace \/ waiter = "done"
=============================================================================
