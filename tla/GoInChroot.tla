----------------------------- MODULE GoInChroot -----------------------------
(***************************************************************************)
(* Threads, mount namespaces and the umask.  On Linux the calls of         *)
(* chrootarchive run their work in a goroutine wired to a thread of its    *)
(* own, whose root directory, umask and mounts are unshared from those of  *)
(* the process (unshare.Go), after SwitchRoot has changed the root.  The   *)
(* calls of the archive package proper run where they are and change the   *)
(* umask of the whole process.  Every system call may fail.                *)
(***************************************************************************)
EXTENDS Naturals, FiniteSets

CONSTANTS Thread,    \* the threads of the process
          Startup,   \* the one it began with
          NoThread,
          Call,      \* calls of the two packages
          Together,  \* which of them are made together
          Op,        \* what each is
          Root,      \* the directory it is given
          Host,      \* the root directory of the process
          Mounted,   \* the directories that are mount points already
          Umask      \* of the process

Chrooted == {c \in Call : Op[c] \in {"Untar", "Tar", "ApplyLayer"}}
Plain    == Call \ Chrooted

ASSUME ThreadsAssumption ==
    /\ Startup \in Thread /\ NoThread \notin Thread
    /\ Op \in [Call -> {"Untar", "Tar", "ApplyLayer", "archive.ApplyLayer"}]
    /\ \A c \in Call : Root[c] # Host
    /\ Together \subseteq SUBSET Call
    /\ Umask \in Nat \ {0}

VARIABLES caller,   \* where each call is, or what it returned
          worker,   \* where its goroutine is
          thread,   \* the thread that goroutine is wired to
          started,  \* the channel on which unshare.Go waits: open, an error, or closed
          err,      \* what the set-up returns
          pivotDir, \* what SwitchRoot's deferred function has to undo
          left,     \* the directories made by MkdirTemp that lie in their roots
          fd,       \* the calls that hold /proc/self/fd open
          own,      \* the threads that were unshared
          process,  \* root directory, working directory and umask of the others
          fs,       \* and of each thread that was unshared
          mounts,   \* its mounts, see Host mounts below
          spread,   \* what was mounted in the namespace of the process as well
          oldMask,  \* the umask each plain call found
          overlapped

calls == <<caller, oldMask, overlapped, fd>>
kernel == <<own, process, fs, mounts, spread>>
goroutine == <<worker, thread, started, err>>
vars == <<calls, kernel, goroutine, pivotDir, left>>

HostFs == [root |-> Host, cwd |-> Host, umask |-> Umask]

\* The mounts of a namespace: whether they are slaves of the process's, and
\* where the old root is.
HostMounts == [slave |-> FALSE, old |-> "none"]

Init ==
    /\ \E made \in Together : caller = [c \in Call |-> IF c \in made THEN "start" ELSE "nil"]
    /\ worker = [c \in Call |-> "none"] /\ thread = [c \in Call |-> NoThread]
    /\ started = [c \in Call |-> "open"] /\ err = [c \in Call |-> FALSE]
    /\ pivotDir = [c \in Call |-> "none"] /\ left = {} /\ fd = {}
    /\ own = {} /\ process = HostFs /\ fs = [t \in Thread |-> HostFs]
    /\ mounts = [t \in Thread |-> HostMounts] /\ spread = {}
    /\ oldMask = [c \in Call |-> Umask] /\ overlapped = FALSE

\* The threads that run the goroutines which are wired to none.  The function
\* init wires the goroutine of main to the first thread.
Fungible == Thread \ ({Startup} \union {thread[c] : c \in Call})

View(t) == IF t \in own THEN fs[t] ELSE process

(***************************************************************************)
(* A call of chrootarchive: it prepares the destination, the decompressed  *)
(* stream and /proc/self/fd, starts the goroutine, and waits until the     *)
(* set-up has succeeded or failed.  Tar then returns its reader; the       *)
(* others wait for the result.                                             *)
(***************************************************************************)
Goes(c, to) == caller' = [caller EXCEPT ![c] = to]

Prepare(c) ==
    /\ c \in Chrooted /\ caller[c] = "start"
    /\ \/ Goes(c, "err") /\ UNCHANGED <<worker, fd>>
       \/ /\ Goes(c, "started")
          /\ worker' = [worker EXCEPT ![c] = "lock"]
          /\ fd' = IF Op[c] = "Tar" THEN fd ELSE fd \union {c}
    /\ UNCHANGED <<kernel, thread, started, err, pivotDir, left, oldMask, overlapped>>

NotClosed(c) == fd
Closed(c) == fd \ {c}

Started(c) ==
    /\ caller[c] = "started" /\ started[c] # "open"
    /\ IF started[c] = "err" THEN Goes(c, "err") /\ fd' = Closed(c)
       ELSE Goes(c, IF Op[c] = "Tar" THEN "nil" ELSE "done") /\ UNCHANGED fd
    /\ started' = [started EXCEPT ![c] = "open"]
    /\ UNCHANGED <<kernel, worker, thread, err, pivotDir, left, oldMask, overlapped>>

(***************************************************************************)
(* unshare.Go.  A goroutine that returns while it is wired to a thread     *)
(* ends the thread, and the Go runtime starts a fresh one in its place.    *)
(***************************************************************************)
At(c, from) == worker[c] = from
Then(c, to) == worker' = [worker EXCEPT ![c] = to]
LosesError(c, to) == Then(c, to) /\ UNCHANGED err
FailIn(c, to) == Then(c, to) /\ err' = [err EXCEPT ![c] = TRUE]

LockOSThread(c) ==
    /\ At(c, "lock")
    /\ \E t \in Fungible : thread' = [thread EXCEPT ![c] = t]
    /\ Then(c, "unshare")
    /\ UNCHANGED <<calls, kernel, started, err, pivotDir, left>>

NoCloneFs(t) == own
Unshared(t) == own \union {t}

Unshare(c) ==
    /\ At(c, "unshare")
    /\ \/ /\ FailIn(c, "report") /\ UNCHANGED kernel
       \/ /\ own' = Unshared(thread[c])
          /\ fs' = [fs EXCEPT ![thread[c]] = View(thread[c])]
          /\ mounts' = [mounts EXCEPT ![thread[c]] = HostMounts]
          /\ Then(c, "slave") /\ UNCHANGED <<process, spread, err>>
    /\ UNCHANGED <<calls, thread, started, pivotDir, left>>

DropsError(c) == UNCHANGED started
SendsError(c) == started' = [started EXCEPT ![c] = "err"]

\* An error is sent to the caller, who is there to receive it; success closes
\* the channel.
Report(c) ==
    /\ At(c, "report")
    /\ IF err[c] THEN /\ caller[c] = "started"
                      /\ SendsError(c) /\ Then(c, "exit")
       ELSE /\ started' = [started EXCEPT ![c] = "closed"] /\ Then(c, "umask")
    /\ UNCHANGED <<calls, kernel, thread, err, pivotDir, left>>

Reused(c) == /\ worker' = [worker EXCEPT ![c] = "gone"]
             /\ thread' = [thread EXCEPT ![c] = NoThread]
             /\ UNCHANGED kernel
Exits(c) == /\ worker' = [worker EXCEPT ![c] = "gone"]
            /\ thread' = [thread EXCEPT ![c] = NoThread]
            /\ own' = own \ {thread[c]}
            /\ fs' = [fs EXCEPT ![thread[c]] = HostFs]
            /\ mounts' = [mounts EXCEPT ![thread[c]] = HostMounts]
            /\ UNCHANGED <<process, spread>>

Exit(c) ==
    /\ At(c, "exit")
    /\ Exits(c)
    /\ err' = [err EXCEPT ![c] = FALSE] /\ pivotDir' = [pivotDir EXCEPT ![c] = "none"]
    /\ UNCHANGED <<calls, started, left>>

(***************************************************************************)
(* The set-up of goInChroot: MakeRSlave, then SwitchRoot.                  *)
(***************************************************************************)
On(t, field, value) ==
    /\ fs' = IF t \in own THEN [fs EXCEPT ![t][field] = value] ELSE fs
    /\ process' = IF t \in own THEN process ELSE [process EXCEPT ![field] = value]

InFs(c, field, value) == On(thread[c], field, value)

MadeSlave(c) == [mounts EXCEPT ![thread[c]].slave = TRUE]

MakeRSlave(c) ==
    /\ At(c, "slave")
    /\ \/ FailIn(c, "report") /\ UNCHANGED mounts
       \/ mounts' = MadeSlave(c) /\ Then(c, "bind") /\ UNCHANGED err
    /\ UNCHANGED <<calls, own, process, fs, spread, thread, started, pivotDir, left>>

\* Without a mount of its own the root is bound to itself, or SwitchRoot does
\* with a chroot.
Bind(c) ==
    /\ At(c, "bind")
    /\ \/ Root[c] \in Mounted /\ Then(c, "mkdir") /\ UNCHANGED spread
       \/ Root[c] \notin Mounted /\ Then(c, "chroot") /\ UNCHANGED spread
       \/ /\ Root[c] \notin Mounted /\ Then(c, "mkdir")
          /\ spread' = IF mounts[thread[c]].slave THEN spread ELSE spread \union {Root[c]}
    /\ UNCHANGED <<calls, own, process, fs, mounts, thread, started, err, pivotDir, left>>

MkdirTemp(c) ==
    /\ At(c, "mkdir")
    /\ \/ FailIn(c, "report") /\ UNCHANGED <<pivotDir, left>>
       \/ /\ pivotDir' = [pivotDir EXCEPT ![c] = "dir"] /\ left' = left \union {c}
          /\ Then(c, "pivot") /\ UNCHANGED err
    /\ UNCHANGED <<calls, kernel, thread, started>>

PivotRoot(c) ==
    /\ At(c, "pivot")
    /\ \/ Then(c, "remove") /\ UNCHANGED <<fs, process, mounts, pivotDir>>
       \/ /\ InFs(c, "root", Root[c])
          /\ mounts' = [mounts EXCEPT ![thread[c]].old = "attached"]
          /\ pivotDir' = [pivotDir EXCEPT ![c] = "mounted"]
          /\ Then(c, "chdir")
    /\ UNCHANGED <<calls, own, spread, thread, started, err, left>>

RemovePivotDir(c) ==
    /\ At(c, "remove")
    /\ \/ FailIn(c, "cleanup") /\ UNCHANGED left
       \/ left' = left \ {c} /\ Then(c, "chroot") /\ UNCHANGED err
    /\ UNCHANGED <<calls, kernel, thread, started, pivotDir>>

Chroot(c) ==
    /\ At(c, "chroot")
    /\ \/ FailIn(c, "cleanup") /\ UNCHANGED <<fs, process>>
       \/ InFs(c, "root", Root[c]) /\ Then(c, "chdir") /\ UNCHANGED err
    /\ UNCHANGED <<calls, own, mounts, spread, thread, started, pivotDir, left>>

\* Both after pivot_root and after chroot.
Chdir(c) ==
    /\ At(c, "chdir")
    /\ \/ FailIn(c, "cleanup") /\ UNCHANGED <<fs, process>>
       \/ /\ InFs(c, "cwd", Root[c])
          /\ Then(c, IF pivotDir[c] = "mounted" THEN "private" ELSE "cleanup")
          /\ UNCHANGED err
    /\ UNCHANGED <<calls, own, mounts, spread, thread, started, pivotDir, left>>

MakeRPrivate(c) ==
    /\ At(c, "private")
    /\ \/ FailIn(c, "cleanup") /\ UNCHANGED mounts
       \/ /\ mounts' = [mounts EXCEPT ![thread[c]].old = "private"]
          /\ Then(c, "unmount") /\ UNCHANGED err
    /\ UNCHANGED <<calls, own, process, fs, spread, thread, started, pivotDir, left>>

\* A mount that is neither a slave nor private is unmounted for the process too.
Unmounted(c) ==
    /\ mounts' = [mounts EXCEPT ![thread[c]].old = "none"]
    /\ pivotDir' = [pivotDir EXCEPT ![c] = "dir"]
    /\ spread' = IF mounts[thread[c]].slave \/ mounts[thread[c]].old = "private" THEN spread
                 ELSE spread \union {Host}

Unmount(c) ==
    /\ At(c, "unmount")
    /\ \/ FailIn(c, "cleanup") /\ UNCHANGED <<mounts, pivotDir, spread>>
       \/ Unmounted(c) /\ Then(c, "cleanup") /\ UNCHANGED err
    /\ UNCHANGED <<calls, own, process, fs, thread, started, left>>

\* The deferred function.  What it assigns to err is not what SwitchRoot returns.
\* After a chroot the path of the directory leads nowhere; it is gone by then.
UnmountDeferred(c) ==
    /\ At(c, "cleanup") /\ pivotDir[c] = "mounted"
    /\ \/ Unmounted(c) /\ UNCHANGED worker
       \/ Then(c, "report") /\ UNCHANGED <<mounts, pivotDir, spread>>
    /\ UNCHANGED <<calls, own, process, fs, thread, started, err, left>>

RemoveDeferred(c) ==
    /\ At(c, "cleanup") /\ pivotDir[c] # "mounted"
    /\ \/ pivotDir[c] = "dir" /\ left' = left \ {c}
       \/ UNCHANGED left
    /\ Then(c, "report")
    /\ UNCHANGED <<calls, kernel, thread, started, err, pivotDir>>

(***************************************************************************)
(* The work: Unpack, Tarballer.Do or UnpackLayer, which needs umask 0.     *)
(***************************************************************************)
SetUmask(c) ==
    /\ At(c, "umask")
    /\ IF Op[c] = "ApplyLayer" THEN InFs(c, "umask", 0) ELSE UNCHANGED <<fs, process>>
    /\ Then(c, "work")
    /\ UNCHANGED <<calls, own, mounts, spread, thread, started, err, pivotDir, left>>

\* The result is sent to the caller, who is there to receive it.
Work(c) ==
    /\ At(c, "work")
    /\ IF Op[c] = "Tar" THEN UNCHANGED <<caller, fd>>
       ELSE /\ caller[c] = "done" /\ fd' = Closed(c)
            /\ \E r \in {"nil", "err"} : Goes(c, r)
    /\ Then(c, "exit")
    /\ UNCHANGED <<kernel, thread, started, err, pivotDir, left, oldMask, overlapped>>

(***************************************************************************)
(* archive.ApplyLayer: overrideUmask(0), the layer, and restore, each on   *)
(* whatever thread the goroutine runs on by then.                          *)
(***************************************************************************)
Applying == {c \in Plain : caller[c] = "work"}

OverrideUmask(c) ==
    /\ c \in Plain /\ caller[c] = "start"
    /\ \E t \in Fungible : /\ oldMask' = [oldMask EXCEPT ![c] = View(t).umask]
                           /\ On(t, "umask", 0)
    /\ overlapped' = (overlapped \/ Applying # {})
    /\ Goes(c, "work")
    /\ UNCHANGED <<fd, own, mounts, spread, goroutine, pivotDir, left>>

RestoresMask(c) == \E t \in Fungible : On(t, "umask", oldMask[c])

Restore(c) ==
    /\ c \in Plain /\ caller[c] = "work"
    /\ RestoresMask(c)
    /\ \E r \in {"nil", "err"} : Goes(c, r)
    /\ oldMask' = [oldMask EXCEPT ![c] = Umask]
    /\ UNCHANGED <<fd, overlapped, own, mounts, spread, goroutine, pivotDir, left>>

Caller(c) == Prepare(c) \/ Started(c) \/ OverrideUmask(c) \/ Restore(c)

SwitchRoot(c) == \/ Bind(c) \/ MkdirTemp(c) \/ PivotRoot(c) \/ RemovePivotDir(c)
                 \/ Chroot(c) \/ Chdir(c) \/ MakeRPrivate(c) \/ Unmount(c)
                 \/ UnmountDeferred(c) \/ RemoveDeferred(c)

Worker(c) == \/ LockOSThread(c) \/ Unshare(c) \/ MakeRSlave(c) \/ SwitchRoot(c)
             \/ Report(c) \/ SetUmask(c) \/ Work(c) \/ Exit(c)

Returned(c) == caller[c] \in {"nil", "err"} /\ worker[c] \in {"none", "gone"}
AllReturned == (\A c \in Call : Returned(c)) /\ UNCHANGED vars

Next == (\E c \in Call : Caller(c) \/ Worker(c)) \/ AllReturned

\* Every goroutine that can go on does.
Spec == Init /\ [][Next]_vars /\ \A c \in Call : WF_vars(Caller(c)) /\ WF_vars(Worker(c))

(***************************************************************************)
(* Properties.                                                             *)
(***************************************************************************)
FsType == [root : {Host} \union {Root[c] : c \in Call},
           cwd : {Host} \union {Root[c] : c \in Call}, umask : {0, Umask}]

\* Every variable has its type; a goroutine has a thread from LockOSThread on, and
\* /proc/self/fd is open only while a call waits.
TypeOK ==
    /\ caller \in [Call -> {"start", "started", "done", "work", "nil", "err"}]
    /\ worker \in [Call -> {"none", "lock", "unshare", "slave", "bind", "mkdir", "pivot",
                            "remove", "chroot", "chdir", "private", "unmount", "cleanup",
                            "report", "umask", "work", "exit", "gone"}]
    /\ thread \in [Call -> Thread \union {NoThread}]
    /\ started \in [Call -> {"open", "err", "closed"}] /\ err \in [Call -> BOOLEAN]
    /\ pivotDir \in [Call -> {"none", "dir", "mounted"}]
    /\ left \subseteq Call /\ fd \subseteq Call /\ own \subseteq Thread
    /\ process \in FsType /\ fs \in [Thread -> FsType]
    /\ mounts \in [Thread -> [slave : BOOLEAN, old : {"none", "attached", "private"}]]
    /\ spread \subseteq {Host} \union {Root[c] : c \in Call}
    /\ oldMask \in [Call -> {0, Umask}] /\ overlapped \in BOOLEAN
    /\ \A c \in Call : /\ thread[c] = NoThread <=> worker[c] \in {"none", "lock", "gone"}
                       /\ c \in fd => caller[c] \in {"started", "done"}

\* Every goroutine but those of the calls runs with the root directory and the
\* mounts of the process, which stay what they were: a thread that was unshared
\* never comes back, whatever failed.  (unshare.Go's LockOSThread without an
\* UnlockOSThread, and MakeRSlave.)
Isolated ==
    /\ own \subseteq {thread[c] : c \in Call} \ {Startup, NoThread}
    /\ process.root = Host /\ process.cwd = Host
    /\ spread = {}

\* The work of a call is done below its root and nowhere else, with the old root
\* out of reach, on a thread no other call has, while /proc/self/fd is open for
\* it; a layer is applied with umask 0.  (unshare.Go calls fn only after the
\* set-up; SwitchRoot's way over pivot_root and that over chroot.)
WorksInRoot ==
    \A c \in Call : worker[c] = "work" =>
        /\ View(thread[c]).root = Root[c] /\ View(thread[c]).cwd = Root[c]
        /\ mounts[thread[c]].old = "none"
        /\ Op[c] # "Tar" => c \in fd
        /\ Op[c] = "ApplyLayer" => View(thread[c]).umask = 0
        /\ \A d \in Call \ {c} : thread[d] # thread[c]

\* As long as no two calls of archive.ApplyLayer overlap, each applies its layer
\* with umask 0 and the process has its own umask again afterwards, whatever
\* calls of chrootarchive do meanwhile.  (overrideUmask, and the Umask(0) of
\* doUnpackLayer, which must reach its own thread only.)
UmaskKept == ~overlapped => process.umask = IF Applying = {} THEN Umask ELSE 0

\* What the deferred function of SwitchRoot says: a clean-up that failed is the
\* error of a SwitchRoot that has no other.
CleanupReported ==
    \A c \in Call : worker[c] \in {"report", "umask", "work"} /\ ~err[c] => c \notin left

\* Every call returns and its goroutine ends.  (The channels of unshare.Go and of
\* doUnpack, each written once and read once.)
Returns == <>(\A c \in Call : Returned(c))
=============================================================================
