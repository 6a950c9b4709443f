------------------------------- MODULE InChild -------------------------------
(***************************************************************************)
(* chrootarchive where threads cannot be unshared: the program runs itself *)
(* once more, the child receives the options over a pipe, changes its root *)
(* and packs to its standard output or unpacks from its standard input.    *)
(***************************************************************************)
EXTENDS Naturals

CONSTANTS Buffer,   \* what a pipe of the kernel holds
          Options,  \* the sizes the options may have
          Archive   \* the sizes the archive may have, in writes

ASSUME InChildAssumption ==
    Buffer \in Nat \ {0} /\ Options \subseteq Nat \ {0} /\ Archive \subseteq Nat

VARIABLES call,     \* doPack, doUnpack or doUnpackLayer
          parent,   \* where it is, or what it returned
          unsent,   \* what it has to send of the options
          options,  \* what the pipe of the options holds
          child,
          rest,     \* what the child has to write, or to be fed
          pipe,     \* what its output or its input holds
          copier,   \* the goroutine that copies to or from that pipe
          wire,     \* the io.Pipe of doPack holds a write
          rclosed,  \* its reading end is closed, and by whom
          taken,    \* what the reader of the archive has
          reader    \* and what it met

childVars ==
    <<call, parent, unsent, options, child, rest, pipe, copier, wire, rclosed, taken, reader>>

Packs == call = "doPack"

ChildInit ==
    /\ call \in {"doPack", "doUnpack", "doUnpackLayer"}
    /\ parent = "start" /\ unsent \in Options /\ options = 0
    /\ child = "none" /\ rest \in Archive /\ pipe = 0
    /\ copier = "none" /\ wire = FALSE /\ rclosed = "no" /\ taken = 0 /\ reader = "none"

Start ==
    /\ parent = "start"
    /\ \/ parent' = "err" /\ UNCHANGED <<child, copier>>
       \/ parent' = "options" /\ child' = "options" /\ copier' = "copies"
    /\ UNCHANGED <<call, unsent, options, rest, pipe, wire, rclosed, taken, reader>>

\* The parent holds the other end of this pipe as well: a child that is gone does
\* not break it.  doPack's goroutine shares the variable err, which it may set just
\* before doPack looks at it.
Encode ==
    /\ parent = "options"
    /\ \/ /\ unsent > 0 /\ options < Buffer
          /\ unsent' = unsent - 1 /\ options' = options + 1 /\ UNCHANGED <<parent, reader>>
       \/ /\ unsent = 0 /\ ~Packs /\ parent' = "wait" /\ UNCHANGED <<unsent, options, reader>>
       \/ /\ unsent = 0 /\ Packs /\ parent' = "nil" /\ reader' = "reads"
          /\ UNCHANGED <<unsent, options>>
       \/ /\ unsent = 0 /\ Packs /\ copier = "ended" /\ child = "failed" /\ parent' = "err"
          /\ UNCHANGED <<unsent, options, reader>>
    /\ UNCHANGED <<call, child, rest, pipe, copier, wire, rclosed, taken>>

Exited == child \in {"ok", "failed"}

FeedEnded == copier \in {"ended", "failed"}

ExitStatus == IF child = "ok" THEN "nil" ELSE "err"
WaitError  == IF copier = "failed" THEN "err" ELSE ExitStatus

\* doUnpack and doUnpackLayer wait for the child and for what feeds it; the size that
\* doUnpackLayer then decodes is in one buffer with whatever the child has logged.
WaitUnpack ==
    /\ parent = "wait" /\ Exited /\ FeedEnded
    /\ \/ parent' = WaitError
       \/ call = "doUnpackLayer" /\ parent' = "err"
    /\ UNCHANGED <<call, unsent, options, child, rest, pipe, copier, wire, rclosed, taken, reader>>

(***************************************************************************)
(* The child: recvOptions, chroot, and the work.                           *)
(***************************************************************************)
RecvOptions ==
    /\ child = "options" /\ UNCHANGED <<unsent, rest, pipe>>
    /\ \/ options > 0 /\ options' = options - 1 /\ UNCHANGED child
       \/ options = 0 /\ unsent = 0 /\ child' = "works" /\ UNCHANGED options

ChildFails == child \in {"options", "works"} /\ child' = "failed"
              /\ UNCHANGED <<unsent, options, rest, pipe>>

\* A write to a pipe that nobody reads ends the child; one to a full pipe waits.
PackInChroot ==
    /\ child = "works" /\ Packs /\ UNCHANGED <<unsent, options>>
    /\ \/ rest > 0 /\ pipe < Buffer
          /\ pipe' = pipe + 1 /\ rest' = rest - 1 /\ UNCHANGED child
       \/ rest = 0 /\ child' = "ok" /\ UNCHANGED <<rest, pipe>>

\* The end of its input is for the child the end of the archive.
UnpackInChroot ==
    /\ child = "works" /\ ~Packs /\ UNCHANGED <<unsent, options, rest>>
    /\ \/ pipe > 0 /\ pipe' = pipe - 1 /\ UNCHANGED child
       \/ pipe = 0 /\ FeedEnded /\ child' = "ok" /\ UNCHANGED pipe

Child == /\ RecvOptions \/ PackInChroot \/ UnpackInChroot
         /\ UNCHANGED <<call, parent, copier, wire, rclosed, taken, reader>>

(***************************************************************************)
(* The goroutine of doPack copies the child's output to the reader; once   *)
(* that ends, for whatever reason, it waits for the child, and closes the  *)
(* end that the reader holds.  That of os/exec feeds doUnpack's child, and *)
(* may meet an error in the archive it is given.                           *)
(***************************************************************************)
ChildEnds  == Exited
OutputEnds == pipe = 0 /\ Exited

KeptOpen == rclosed
ClosedBy == IF rclosed = "no" THEN "goroutine" ELSE rclosed

CopyOut ==
    /\ Packs /\ UNCHANGED <<rest, unsent, options>>
    /\ \/ /\ copier = "copies" /\ pipe > 0 /\ rclosed = "no"
          /\ pipe' = pipe - 1 /\ wire' = TRUE /\ copier' = "writes" /\ UNCHANGED rclosed
       \/ /\ copier = "copies" /\ pipe > 0 /\ rclosed # "no"
          /\ copier' = "waits" /\ UNCHANGED <<pipe, wire, rclosed>>
       \/ /\ copier = "copies" /\ OutputEnds
          /\ copier' = "waits" /\ UNCHANGED <<pipe, wire, rclosed>>
       \/ /\ copier = "writes" /\ ~wire
          /\ copier' = "copies" /\ UNCHANGED <<pipe, wire, rclosed>>
       \/ /\ copier = "writes" /\ wire /\ rclosed # "no"
          /\ copier' = "waits" /\ wire' = FALSE /\ UNCHANGED <<pipe, rclosed>>
       \/ /\ copier = "waits" /\ Exited
          /\ copier' = "ended" /\ rclosed' = ClosedBy /\ UNCHANGED <<pipe, wire>>

Feed ==
    /\ ~Packs /\ copier = "copies" /\ UNCHANGED <<wire, rclosed, unsent, options>>
    /\ \/ rest > 0 /\ ~Exited /\ pipe < Buffer
          /\ pipe' = pipe + 1 /\ rest' = rest - 1 /\ UNCHANGED copier
       \/ (rest = 0 \/ Exited) /\ copier' = "ended" /\ UNCHANGED <<pipe, rest>>
       \/ copier' = "failed" /\ UNCHANGED <<pipe, rest>>

Copier == (CopyOut \/ Feed) /\ UNCHANGED <<call, parent, child, taken, reader>>

(***************************************************************************)
(* Whoever reads the archive that doPack returned.                         *)
(***************************************************************************)
Reads ==
    /\ reader = "reads"
    /\ \/ wire /\ wire' = FALSE /\ taken' = taken + 1 /\ UNCHANGED reader
       \/ rclosed = "goroutine" /\ reader' = "ErrClosedPipe" /\ UNCHANGED <<wire, taken>>
    /\ UNCHANGED <<call, parent, unsent, options, child, rest, pipe, copier, rclosed>>

Closes ==
    /\ reader = "reads" /\ reader' = "closed" /\ rclosed' = "reader"
    /\ UNCHANGED <<call, parent, unsent, options, child, rest, pipe, copier, wire, taken>>

ChildNext == \/ Start \/ Encode \/ WaitUnpack \/ Child \/ Copier \/ Reads \/ Closes
             \/ ChildFails /\ UNCHANGED <<call, parent, copier, wire, rclosed, taken, reader>>

ChildSpec == ChildInit /\ [][ChildNext]_childVars /\ WF_childVars(Start \/ Encode \/ WaitUnpack)
             /\ WF_childVars(Child) /\ WF_childVars(Copier) /\ WF_childVars(Reads)

(***************************************************************************)
(* Properties.                                                             *)
(***************************************************************************)
\* An unpacking without an error was done by the child, from all of the archive, also
\* when the archive broke off and the child took that for its end; and a reader that
\* comes to the end of what a child packed, which ended well, has all of it.  (cmd.Wait's
\* error, which is that of reading the archive too; doPack's goroutine, which must not wait, and so close
\* the child's output, before it has copied all of it.)
WholeOrError ==
    /\ ~Packs /\ parent = "nil" => child = "ok" /\ rest = 0 /\ pipe = 0
    /\ reader = "ErrClosedPipe" /\ child = "ok" => rest = 0 /\ pipe = 0 /\ taken \in Archive

\* The call returns, unless the child is gone before it has taken the options; and
\* unless the reader closes the archive early, it comes to an end of it, and the child
\* and the goroutine end, with or without an error.  (The pipe of the options, whose
\* reading end the parent keeps open; the clean-up of doPack's goroutine.)
Settles ==
    \/ <>(/\ parent \in {"nil", "err"}
         /\ \/ reader = "closed"
            \/ /\ reader # "reads" /\ child \in {"none", "ok", "failed"}
               /\ copier = "none" \/ FeedEnded)
    \/ <>(child = "failed" /\ unsent > 0)
=============================================================================
