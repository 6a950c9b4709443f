---------------------------- MODULE ChrootProofs ----------------------------
(***************************************************************************)
(* The two ways chrootarchive has of working below another root.  On a     *)
(* thread: for any number of threads and calls the threads that were       *)
(* unshared are those of the calls, no two calls share one, and so neither *)
(* the process nor another call sees what a call does to its root, mounts  *)
(* and umask.  In a child: for pipes, options and archives of any size,    *)
(* what the child has not written, what lies in its pipe, what the         *)
(* goroutine is writing and what the reader has taken is the archive, and  *)
(* the goroutine comes to its end only behind the child and behind the end *)
(* of its output.                                                          *)
(***************************************************************************)
EXTENDS GoInChroot, InChild, TLAPS

(***************************************************************************)
(* On a thread (GoInChroot).                                               *)
(***************************************************************************)
\* The parts of TypeOK.
CallsOK ==
    /\ caller \in [Call -> {"start", "started", "done", "work", "nil", "err"}]
    /\ fd \subseteq Call /\ oldMask \in [Call -> {0, Umask}] /\ overlapped \in BOOLEAN

GoroutinesOK ==
    /\ worker \in [Call -> {"none", "lock", "unshare", "slave", "bind", "mkdir", "pivot",
                            "remove", "chroot", "chdir", "private", "unmount", "cleanup",
                            "report", "umask", "work", "exit", "gone"}]
    /\ thread \in [Call -> Thread \union {NoThread}]
    /\ started \in [Call -> {"open", "err", "closed"}] /\ err \in [Call -> BOOLEAN]
    /\ pivotDir \in [Call -> {"none", "dir", "mounted"}]
    /\ left \subseteq Call

KernelOK ==
    /\ own \subseteq Thread /\ process \in FsType /\ fs \in [Thread -> FsType]
    /\ mounts \in [Thread -> [slave : BOOLEAN, old : {"none", "attached", "private"}]]
    /\ spread \subseteq {Host} \union {Root[c] : c \in Call}

\* Where the thread of a goroutine has been unshared, whatever failed later.
OnOwn == {"slave", "bind", "mkdir", "pivot", "remove", "chroot", "chdir", "private",
          "unmount", "cleanup", "umask", "work"}

\* The goroutine of a call and what waits for it.
Protocol(c) ==
    /\ c \in fd => caller[c] \in {"started", "done"} /\ Op[c] # "Tar"
    /\ caller[c] = "start" => worker[c] = "none"
    /\ started[c] = "err" => worker[c] \in {"exit", "gone"}
    /\ worker[c] \notin {"none", "exit", "gone"} /\ Op[c] # "Tar" => c \in fd

\* The thread of a call is its own: not the first one, and no other call's.
Wired(c) ==
    /\ thread[c] = NoThread <=> worker[c] \in {"none", "lock", "gone"}
    /\ thread[c] # Startup
    /\ \A d \in Call \ {c} : thread[d] = thread[c] => thread[c] = NoThread
    /\ worker[c] \in OnOwn => thread[c] \in own
    /\ worker[c] = "report" /\ err[c] = FALSE => thread[c] \in own

\* What SwitchRoot's deferred function has to undo is what was done.
Undoes(c) ==
    /\ \/ worker[c] \in OnOwn \ {"slave"}
       \/ worker[c] = "report" /\ err[c] = FALSE
       => mounts[thread[c]].slave = TRUE
    /\ worker[c] \in {"none", "lock", "unshare", "slave", "bind", "mkdir", "gone"}
          => pivotDir[c] = "none"
    /\ worker[c] \in {"private", "unmount"} => pivotDir[c] = "mounted"
    /\ worker[c] \in OnOwn => (pivotDir[c] = "mounted" <=> mounts[thread[c]].old # "none")
    /\ \/ worker[c] \in {"cleanup", "report"} /\ err[c] = FALSE
       \/ worker[c] \in {"umask", "work"}
       => mounts[thread[c]].old = "none" /\ pivotDir[c] # "mounted"

\* How far it has come.
InRoot(c) ==
    /\ worker[c] \in {"chdir", "private", "unmount"} => fs[thread[c]].root = Root[c]
    /\ worker[c] \in {"private", "unmount"} => fs[thread[c]].cwd = Root[c]
    /\ \/ worker[c] \in {"cleanup", "report"} /\ err[c] = FALSE
       \/ worker[c] \in {"umask", "work"}
       => fs[thread[c]].root = Root[c] /\ fs[thread[c]].cwd = Root[c]
    /\ worker[c] = "work" /\ Op[c] = "ApplyLayer" => fs[thread[c]].umask = 0

Switched(c) == Undoes(c) /\ InRoot(c)

Local(c) == Protocol(c) /\ Wired(c) /\ Switched(c)

\* What the process sees of all this.
Untouched ==
    /\ \A t \in own : t # Startup /\ \E c \in Call : thread[c] = t
    /\ process.root = Host /\ process.cwd = Host /\ spread = {}

\* The umask, as long as no two plain calls overlap.
Masks ==
    ~overlapped =>
        /\ process.umask = IF Applying = {} THEN Umask ELSE 0
        /\ \A c \in Applying : oldMask[c] = Umask
        /\ \A c, d \in Applying : c = d

IInv == CallsOK /\ GoroutinesOK /\ KernelOK /\ Untouched /\ Masks /\ \A c \in Call : Local(c)

\* A step of one call leaves what belongs to the others alone.
Frame(c) ==
    \A d \in Call \ {c} :
        /\ caller'[d] = caller[d] /\ worker'[d] = worker[d] /\ thread'[d] = thread[d]
        /\ started'[d] = started[d] /\ err'[d] = err[d] /\ pivotDir'[d] = pivotDir[d]
        /\ d \in fd' <=> d \in fd
        /\ thread[d] # NoThread => /\ thread[d] \in own' <=> thread[d] \in own
                                   /\ fs'[thread[d]] = fs[thread[d]]
                                   /\ mounts'[thread[d]] = mounts[thread[d]]

\* TypeOK follows from its parts.
LEMMA TypeParts == CallsOK /\ GoroutinesOK /\ KernelOK /\ (\A c \in Call : Local(c)) => TypeOK
  BY DEF TypeOK, CallsOK, GoroutinesOK, KernelOK, Local, Wired, Protocol

\* What holds of the others goes on to hold.
LEMMA FrameKeeps ==
    ASSUME IInv, NEW c \in Call, Frame(c), Local(c)', CallsOK', GoroutinesOK', KernelOK',
           Untouched', Masks'
    PROVE  IInv'
<1>1. ASSUME NEW d \in Call, d # c
      PROVE  Local(d)'
  <2>1. Protocol(d)'
    BY <1>1 DEF IInv, Local, Protocol, Frame
  <2>2. Wired(d)'
    BY <1>1 DEF IInv, Local, Wired, Frame, OnOwn
  <2>3. Undoes(d)' /\ InRoot(d)'
    BY <1>1 DEF IInv, Local, Wired, Switched, Undoes, InRoot, Frame, OnOwn
  <2> QED BY <2>1, <2>2, <2>3 DEF Local, Switched
<1> QED BY <1>1 DEF IInv

-----------------------------------------------------------------------------
(* The kernel's records. *)

Place == {Host} \union {Root[c] : c \in Call}

\* A system call on an unshared thread reaches that thread's records alone.
LEMMA OnOwnThread ==
    ASSUME KernelOK, NEW t \in own, NEW field \in {"root", "cwd", "umask"}, NEW value,
           On(t, field, value),
           IF field = "umask" THEN value \in {0, Umask} ELSE value \in Place
    PROVE  /\ process' = process /\ fs' \in [Thread -> FsType]
           /\ fs'[t] = [fs[t] EXCEPT ![field] = value]
           /\ \A u \in Thread \ {t} : fs'[u] = fs[u]
<1>1. process' = process /\ fs' = [fs EXCEPT ![t][field] = value]
  BY DEF On
<1>2. [fs[t] EXCEPT ![field] = value] \in FsType
  <2>1. fs[t] \in FsType
    BY DEF KernelOK
  <2>2. CASE field = "root"
    BY <2>1, <2>2 DEF FsType, Place
  <2>3. CASE field = "cwd"
    BY <2>1, <2>3 DEF FsType, Place
  <2>4. CASE field = "umask"
    BY <2>1, <2>4 DEF FsType, Place
  <2> QED BY <2>2, <2>3, <2>4
<1> QED BY <1>1, <1>2 DEF KernelOK

\* On any other it changes the umask of the process.
LEMMA OnProcess ==
    ASSUME KernelOK, NEW t, t \notin own, NEW value \in {0, Umask}, On(t, "umask", value)
    PROVE  /\ fs' = fs /\ process' \in FsType /\ process'.umask = value
           /\ process'.root = process.root /\ process'.cwd = process.cwd
<1>1. fs' = fs /\ process' = [process EXCEPT !.umask = value]
  BY DEF On
<1> QED BY <1>1 DEF KernelOK, FsType

\* A thread that other goroutines run on was never unshared.
LEMMA FungibleShared ==
    ASSUME Untouched, NEW t \in Fungible
    PROVE  t \in Thread /\ t \notin own /\ View(t) = process
  BY DEF Untouched, Fungible, View

MountsOf == [slave : BOOLEAN, old : {"none", "attached", "private"}]

\* Changing one field of one thread's mounts keeps the type.
LEMMA MountsType ==
    ASSUME KernelOK, NEW t \in Thread
    PROVE  /\ [mounts EXCEPT ![t].slave = TRUE] \in [Thread -> MountsOf]
           /\ \A o \in {"none", "attached", "private"} :
                 [mounts EXCEPT ![t].old = o] \in [Thread -> MountsOf]
<1>1. mounts[t] \in MountsOf
  BY DEF KernelOK, MountsOf
<1>2. /\ [mounts[t] EXCEPT !.slave = TRUE] \in MountsOf
      /\ \A o \in {"none", "attached", "private"} :
            [mounts[t] EXCEPT !.old = o] \in MountsOf
  BY <1>1 DEF MountsOf
<1> QED BY <1>2 DEF KernelOK, MountsOf

\* The thread of a goroutine between LockOSThread and its end.
LEMMA ThreadOf ==
    ASSUME IInv, NEW c \in Call, worker[c] \notin {"none", "lock", "gone"}
    PROVE  /\ thread[c] \in Thread
           /\ worker[c] \in OnOwn => thread[c] \in own
  BY DEF IInv, GoroutinesOK, Local, Wired

-----------------------------------------------------------------------------
(* Each step of a call keeps the invariant. *)

\* A call that starts has no goroutine yet.
LEMMA PrepareKeeps == ASSUME IInv, NEW c \in Call, Prepare(c) PROVE IInv'
<1> USE DEF Prepare, Goes, At, Then, calls, kernel, goroutine
<1>1. CallsOK'
  BY DEF IInv, CallsOK, KernelOK, FsType
<1>2. GoroutinesOK'
  BY DEF IInv, GoroutinesOK
<1>3. KernelOK'
  BY DEF IInv, GoroutinesOK, KernelOK, FsType, CallsOK, Local, Wired, OnOwn
<1>4. Frame(c)
  BY DEF IInv, Frame, CallsOK, GoroutinesOK, KernelOK, Local, Wired
<1>5. Protocol(c)' /\ Wired(c)'
  BY ThreadsAssumption DEF IInv, Local, Protocol, Wired, CallsOK, GoroutinesOK, OnOwn,
     Untouched
<1>6. Switched(c)'
  BY DEF IInv, Local, Protocol, Switched, Undoes, InRoot, Wired, GoroutinesOK, OnOwn
<1>7. Untouched'
  BY DEF IInv, Untouched, GoroutinesOK, KernelOK, Local, Wired, OnOwn, Switched, Undoes
<1>8. Masks'
  BY DEF IInv, Masks, Applying, CallsOK, KernelOK, Local, Wired, OnOwn, Untouched,
     Plain, Chrooted
<1> QED BY <1>1, <1>2, <1>3, <1>4, <1>5, <1>6, <1>7, <1>8, FrameKeeps DEF Local

\* The error the caller receives is that of a goroutine that is about to end.
LEMMA StartedKeeps == ASSUME IInv, NEW c \in Call, Started(c) PROVE IInv'
<1> USE DEF Started, Goes, At, Then, calls, kernel, goroutine, Closed
<1>1. CallsOK'
  BY DEF IInv, CallsOK, KernelOK, FsType
<1>2. GoroutinesOK'
  BY DEF IInv, GoroutinesOK
<1>3. KernelOK'
  BY DEF IInv, GoroutinesOK, KernelOK, FsType, CallsOK, Local, Wired, OnOwn
<1>4. Frame(c)
  BY DEF IInv, Frame, CallsOK, GoroutinesOK, KernelOK, Local, Wired
<1>5. Protocol(c)' /\ Wired(c)'
  BY ThreadsAssumption DEF IInv, Local, Protocol, Wired, CallsOK, GoroutinesOK, OnOwn,
     Untouched
<1>6. Switched(c)'
  <2>1. Undoes(c)'
    BY DEF IInv, Local, Switched, Undoes, GoroutinesOK, KernelOK, Wired, OnOwn
  <2>2. InRoot(c)'
    BY DEF IInv, Local, Switched, Undoes, InRoot, GoroutinesOK, KernelOK, Wired, OnOwn
  <2> QED BY <2>1, <2>2 DEF Switched
<1>7. Untouched'
  BY DEF IInv, Untouched, GoroutinesOK, KernelOK, Local, Wired, OnOwn, Switched, Undoes
<1>8. Masks'
  BY DEF IInv, Masks, Applying, CallsOK, KernelOK, Local, Wired, OnOwn, Untouched,
     Plain, Chrooted
<1> QED BY <1>1, <1>2, <1>3, <1>4, <1>5, <1>6, <1>7, <1>8, FrameKeeps DEF Local

\* A plain call runs on a thread that was never unshared, and so changes the process.
LEMMA OverrideUmaskKeeps == ASSUME IInv, NEW c \in Call, OverrideUmask(c) PROVE IInv'
<1> USE DEF OverrideUmask, Goes, At, Then, calls, kernel, goroutine, On, View, Fungible
<1>1. PICK t \in Fungible : On(t, "umask", 0)
  BY DEF Fungible
<1>2. 0 \in {0, Umask} /\ t \notin own
  BY <1>1, FungibleShared DEF IInv, CallsOK
<1>3. /\ fs' = fs /\ process' \in FsType /\ process'.umask = 0
      /\ process'.root = process.root /\ process'.cwd = process.cwd
  BY <1>1, <1>2, OnProcess DEF IInv
<1>4. CallsOK'
  <2>1. \E u \in Fungible : oldMask' = [oldMask EXCEPT ![c] = process.umask]
    BY FungibleShared DEF IInv
  <2> QED BY <2>1 DEF IInv, CallsOK, KernelOK, FsType
<1>5. GoroutinesOK'
  BY DEF IInv, GoroutinesOK
<1>6. KernelOK'
  BY <1>3 DEF IInv, KernelOK
<1>7. Frame(c)
  BY <1>3 DEF IInv, Frame, CallsOK
<1>8. Protocol(c)'
  BY DEF IInv, Local, Protocol, CallsOK, GoroutinesOK
<1>9. Wired(c)'
  BY ThreadsAssumption DEF IInv, Local, Wired, GoroutinesOK, OnOwn, Untouched
<1>10. Switched(c)'
  BY <1>3 DEF IInv, Local, Switched, Undoes, InRoot
<1>11. Untouched'
  BY <1>3 DEF IInv, Untouched
<1>12. Masks'
  <2>1. \E u \in Fungible : oldMask' = [oldMask EXCEPT ![c] = process.umask]
    BY FungibleShared DEF IInv
  <2>2. CASE Applying # {}
    BY <2>2 DEF Masks
  <2>3. CASE Applying = {}
    <3>1. Applying' = {c}
      BY <2>3 DEF IInv, Applying, CallsOK
    <3> QED BY <1>3, <2>1, <2>3, <3>1 DEF IInv, Masks, CallsOK
  <2> QED BY <2>2, <2>3
<1> QED BY <1>4, <1>5, <1>6, <1>7, <1>8, <1>9, <1>10, <1>11, <1>12, FrameKeeps DEF Local

\* So does the restoring of the umask.
LEMMA RestoreKeeps == ASSUME IInv, NEW c \in Call, Restore(c) PROVE IInv'
<1> USE DEF Restore, Goes, At, Then, calls, kernel, goroutine, RestoresMask, On, Fungible
<1>1. PICK t \in Fungible : On(t, "umask", oldMask[c])
  BY DEF Fungible
<1>2. oldMask[c] \in {0, Umask} /\ t \notin own
  BY <1>1, FungibleShared DEF IInv, CallsOK
<1>3. /\ fs' = fs /\ process' \in FsType /\ process'.umask = oldMask[c]
      /\ process'.root = process.root /\ process'.cwd = process.cwd
  BY <1>1, <1>2, OnProcess DEF IInv
<1>4. CallsOK'
  BY DEF IInv, CallsOK, KernelOK, FsType
<1>5. GoroutinesOK'
  BY DEF IInv, GoroutinesOK
<1>6. KernelOK'
  BY <1>3 DEF IInv, KernelOK
<1>7. Frame(c)
  BY <1>3 DEF IInv, Frame, CallsOK
<1>8. Protocol(c)'
  BY DEF IInv, Local, Protocol, CallsOK, GoroutinesOK
<1>9. Wired(c)'
  BY ThreadsAssumption DEF IInv, Local, Wired, GoroutinesOK, OnOwn, Untouched
<1>10. Switched(c)'
  BY <1>3 DEF IInv, Local, Switched, Undoes, InRoot
<1>11. Untouched'
  BY <1>3 DEF IInv, Untouched
<1>12. Masks'
  BY <1>3 DEF IInv, Masks, Applying, CallsOK
<1> QED BY <1>4, <1>5, <1>6, <1>7, <1>8, <1>9, <1>10, <1>11, <1>12, FrameKeeps DEF Local

\* The thread is one that no call has.
LEMMA LockOSThreadKeeps == ASSUME IInv, NEW c \in Call, LockOSThread(c) PROVE IInv'
<1> USE DEF LockOSThread, Goes, At, Then, calls, kernel, goroutine, Fungible
<1>1. CallsOK'
  BY DEF IInv, CallsOK, KernelOK, FsType
<1>2. GoroutinesOK'
  BY DEF IInv, GoroutinesOK
<1>3. KernelOK'
  BY DEF IInv, GoroutinesOK, KernelOK, FsType, CallsOK, Local, Wired, OnOwn
<1>4. Frame(c)
  BY DEF IInv, Frame, CallsOK, GoroutinesOK, KernelOK, Local, Wired
<1>5. Protocol(c)' /\ Wired(c)'
  BY ThreadsAssumption DEF IInv, Local, Protocol, Wired, CallsOK, GoroutinesOK, OnOwn,
     Untouched
<1>6. Switched(c)'
  <2>1. Undoes(c)'
    BY DEF IInv, Local, Switched, Undoes, GoroutinesOK, KernelOK, Wired, OnOwn
  <2>2. InRoot(c)'
    BY DEF IInv, Local, Switched, Undoes, InRoot, GoroutinesOK, KernelOK, Wired, OnOwn
  <2> QED BY <2>1, <2>2 DEF Switched
<1>7. Untouched'
  <2>1. ASSUME NEW t \in own
        PROVE  \E d \in Call : thread'[d] = t
    <3>1. PICK d \in Call : thread[d] = t
      BY DEF IInv, Untouched
    <3>2. d # c
      BY <3>1, ThreadsAssumption DEF IInv, KernelOK, Local, Wired
    <3> QED BY <3>1, <3>2 DEF IInv, GoroutinesOK
  <2> QED BY <2>1 DEF IInv, Untouched
<1>8. Masks'
  BY DEF IInv, Masks, Applying, CallsOK, KernelOK, Local, Wired, OnOwn, Untouched,
     Plain, Chrooted
<1> QED BY <1>1, <1>2, <1>3, <1>4, <1>5, <1>6, <1>7, <1>8, FrameKeeps DEF Local

\* Nothing of another thread changes when this one is unshared.
LEMMA UnshareKeeps == ASSUME IInv, NEW c \in Call, Unshare(c) PROVE IInv'
<1> USE DEF Unshare, Goes, At, Then, calls, kernel, goroutine, Unshared, View, FailIn,
   HostMounts, HostFs
<1>1. CallsOK'
  BY DEF IInv, CallsOK, KernelOK, FsType
<1>2. GoroutinesOK'
  BY DEF IInv, GoroutinesOK
<1>3. KernelOK'
  <2>1. thread[c] \in Thread
    BY ThreadOf
  <2>2. View(thread[c]) \in FsType
    BY <2>1 DEF IInv, KernelOK
  <2>3. HostMounts \in [slave : BOOLEAN, old : {"none", "attached", "private"}]
    OBVIOUS
  <2> HIDE DEF View, HostMounts, FailIn, Unshare
  <2>4. CASE UNCHANGED kernel
    BY <2>4 DEF IInv, KernelOK
  <2>5. CASE /\ own' = Unshared(thread[c])
             /\ fs' = [fs EXCEPT ![thread[c]] = View(thread[c])]
             /\ mounts' = [mounts EXCEPT ![thread[c]] = HostMounts]
             /\ UNCHANGED <<process, spread>>
    BY <2>1, <2>2, <2>3, <2>5 DEF IInv, KernelOK
  <2> QED BY <2>4, <2>5 DEF Unshare
<1>4. Frame(c)
  BY DEF IInv, Frame, CallsOK, GoroutinesOK, KernelOK, Local, Wired
<1>5. Protocol(c)' /\ Wired(c)'
  BY ThreadsAssumption DEF IInv, Local, Protocol, Wired, CallsOK, GoroutinesOK, OnOwn,
     Untouched
<1>6. Switched(c)'
  <2>1. Undoes(c)'
    BY DEF IInv, Local, Switched, Undoes, GoroutinesOK, KernelOK, Wired, OnOwn
  <2>2. InRoot(c)'
    BY DEF IInv, Local, Switched, Undoes, InRoot, GoroutinesOK, KernelOK, Wired, OnOwn
  <2> QED BY <2>1, <2>2 DEF Switched
<1>7. Untouched'
  BY DEF IInv, Untouched, GoroutinesOK, KernelOK, Local, Wired, OnOwn, Switched, Undoes
<1>8. Masks'
  BY DEF IInv, Masks, Applying, CallsOK, KernelOK, Local, Wired, OnOwn, Untouched,
     Plain, Chrooted
<1> QED BY <1>1, <1>2, <1>3, <1>4, <1>5, <1>6, <1>7, <1>8, FrameKeeps DEF Local

\* Only a set-up without an error goes on to the work.
LEMMA ReportKeeps == ASSUME IInv, NEW c \in Call, Report(c) PROVE IInv'
<1> USE DEF Report, Goes, At, Then, calls, kernel, goroutine, SendsError
<1>1. CallsOK'
  BY DEF IInv, CallsOK, KernelOK, FsType
<1>2. GoroutinesOK'
  BY DEF IInv, GoroutinesOK
<1>3. KernelOK'
  BY DEF IInv, GoroutinesOK, KernelOK, FsType, CallsOK, Local, Wired, OnOwn
<1>4. Frame(c)
  BY DEF IInv, Frame, CallsOK, GoroutinesOK, KernelOK, Local, Wired
<1>5. Protocol(c)' /\ Wired(c)'
  BY ThreadsAssumption DEF IInv, Local, Protocol, Wired, CallsOK, GoroutinesOK, OnOwn,
     Untouched
<1>6. Switched(c)'
  <2>1. CASE err[c]
    BY <2>1 DEF IInv, Local, Switched, Undoes, InRoot, GoroutinesOK, OnOwn
  <2>2. CASE ~err[c]
    <3>1. worker' = [worker EXCEPT ![c] = "umask"] /\ err[c] = FALSE
      BY <2>2 DEF IInv, GoroutinesOK
    <3>2. /\ mounts[thread[c]].old = "none" /\ pivotDir[c] # "mounted"
          /\ mounts[thread[c]].slave
          /\ fs[thread[c]].root = Root[c] /\ fs[thread[c]].cwd = Root[c]
      BY <3>1 DEF IInv, Local, Switched, Undoes, InRoot
    <3> QED BY <3>1, <3>2 DEF IInv, Switched, Undoes, InRoot, GoroutinesOK, OnOwn
  <2> QED BY <2>1, <2>2
<1>7. Untouched'
  BY DEF IInv, Untouched, GoroutinesOK, KernelOK, Local, Wired, OnOwn, Switched, Undoes
<1>8. Masks'
  BY DEF IInv, Masks, Applying, CallsOK, KernelOK, Local, Wired, OnOwn, Untouched,
     Plain, Chrooted
<1> QED BY <1>1, <1>2, <1>3, <1>4, <1>5, <1>6, <1>7, <1>8, FrameKeeps DEF Local

\* The thread goes with the goroutine.
LEMMA ExitKeeps == ASSUME IInv, NEW c \in Call, Exit(c) PROVE IInv'
<1> USE DEF Exit, Goes, At, Then, calls, kernel, goroutine, Exits, HostMounts, HostFs
<1>1. CallsOK'
  BY DEF IInv, CallsOK, KernelOK, FsType
<1>2. GoroutinesOK'
  BY DEF IInv, GoroutinesOK
<1>3. KernelOK'
  BY DEF IInv, GoroutinesOK, KernelOK, FsType, CallsOK, Local, Wired, OnOwn
<1>4. Frame(c)
  BY DEF IInv, Frame, CallsOK, GoroutinesOK, KernelOK, Local, Wired
<1>5. Protocol(c)' /\ Wired(c)'
  BY ThreadsAssumption DEF IInv, Local, Protocol, Wired, CallsOK, GoroutinesOK, OnOwn,
     Untouched
<1>6. Switched(c)'
  <2>1. Undoes(c)'
    BY DEF IInv, Local, Switched, Undoes, GoroutinesOK, KernelOK, Wired, OnOwn
  <2>2. InRoot(c)'
    BY DEF IInv, Local, Switched, Undoes, InRoot, GoroutinesOK, KernelOK, Wired, OnOwn
  <2> QED BY <2>1, <2>2 DEF Switched
<1>7. Untouched'
  BY DEF IInv, Untouched, GoroutinesOK, KernelOK, Local, Wired, OnOwn, Switched, Undoes
<1>8. Masks'
  BY DEF IInv, Masks, Applying, CallsOK, KernelOK, Local, Wired, OnOwn, Untouched,
     Plain, Chrooted
<1> QED BY <1>1, <1>2, <1>3, <1>4, <1>5, <1>6, <1>7, <1>8, FrameKeeps DEF Local

\* From here on the mounts are slaves.
LEMMA MakeRSlaveKeeps == ASSUME IInv, NEW c \in Call, MakeRSlave(c) PROVE IInv'
<1> USE DEF MakeRSlave, Goes, At, Then, calls, kernel, goroutine, MadeSlave, FailIn
<1>1. CallsOK'
  BY DEF IInv, CallsOK, KernelOK, FsType
<1>2. GoroutinesOK'
  BY DEF IInv, GoroutinesOK
<1>3. KernelOK'
  <2>1. mounts' \in [Thread -> MountsOf]
    <3>1. CASE UNCHANGED mounts
      BY <3>1 DEF IInv, KernelOK, MountsOf
    <3>2. CASE mounts' = MadeSlave(c)
      BY <3>2, ThreadOf, MountsType DEF IInv
    <3> QED BY <3>1, <3>2
  <2> QED BY <2>1 DEF IInv, KernelOK, MountsOf
<1>4. Frame(c)
  BY DEF IInv, Frame, CallsOK, GoroutinesOK, KernelOK, Local, Wired
<1>5. Protocol(c)' /\ Wired(c)'
  BY ThreadsAssumption DEF IInv, Local, Protocol, Wired, CallsOK, GoroutinesOK, OnOwn,
     Untouched
<1>6. Switched(c)'
  <2>1. Undoes(c)'
    BY DEF IInv, Local, Switched, Undoes, GoroutinesOK, KernelOK, Wired, OnOwn
  <2>2. InRoot(c)'
    BY DEF IInv, Local, Switched, Undoes, InRoot, GoroutinesOK, KernelOK, Wired, OnOwn
  <2> QED BY <2>1, <2>2 DEF Switched
<1>7. Untouched'
  BY DEF IInv, Untouched, GoroutinesOK, KernelOK, Local, Wired, OnOwn, Switched, Undoes
<1>8. Masks'
  BY DEF IInv, Masks, Applying, CallsOK, KernelOK, Local, Wired, OnOwn, Untouched,
     Plain, Chrooted
<1> QED BY <1>1, <1>2, <1>3, <1>4, <1>5, <1>6, <1>7, <1>8, FrameKeeps DEF Local

\* The bind mount stays in the namespace of the slave.
LEMMA BindKeeps == ASSUME IInv, NEW c \in Call, Bind(c) PROVE IInv'
<1> USE DEF Bind, Goes, At, Then, calls, kernel, goroutine
<1>1. CallsOK'
  BY DEF IInv, CallsOK, KernelOK, FsType
<1>2. GoroutinesOK'
  BY DEF IInv, GoroutinesOK
<1>3. KernelOK'
  BY DEF IInv, GoroutinesOK, KernelOK, FsType, CallsOK, Local, Wired, OnOwn
<1>4. Frame(c)
  BY DEF IInv, Frame, CallsOK, GoroutinesOK, KernelOK, Local, Wired
<1>5. Protocol(c)' /\ Wired(c)'
  BY ThreadsAssumption DEF IInv, Local, Protocol, Wired, CallsOK, GoroutinesOK, OnOwn,
     Untouched
<1>6. Switched(c)'
  <2>1. Undoes(c)'
    BY DEF IInv, Local, Switched, Undoes, GoroutinesOK, KernelOK, Wired, OnOwn
  <2>2. InRoot(c)'
    BY DEF IInv, Local, Switched, Undoes, InRoot, GoroutinesOK, KernelOK, Wired, OnOwn
  <2> QED BY <2>1, <2>2 DEF Switched
<1>7. Untouched'
  BY DEF IInv, Untouched, GoroutinesOK, KernelOK, Local, Wired, OnOwn, Switched, Undoes
<1>8. Masks'
  BY DEF IInv, Masks, Applying, CallsOK, KernelOK, Local, Wired, OnOwn, Untouched,
     Plain, Chrooted
<1> QED BY <1>1, <1>2, <1>3, <1>4, <1>5, <1>6, <1>7, <1>8, FrameKeeps DEF Local

\* The directory is made where nothing was mounted.
LEMMA MkdirTempKeeps == ASSUME IInv, NEW c \in Call, MkdirTemp(c) PROVE IInv'
<1> USE DEF MkdirTemp, Goes, At, Then, calls, kernel, goroutine, FailIn
<1>1. CallsOK'
  BY DEF IInv, CallsOK, KernelOK, FsType
<1>2. GoroutinesOK'
  BY DEF IInv, GoroutinesOK
<1>3. KernelOK'
  BY DEF IInv, GoroutinesOK, KernelOK, FsType, CallsOK, Local, Wired, OnOwn
<1>4. Frame(c)
  BY DEF IInv, Frame, CallsOK, GoroutinesOK, KernelOK, Local, Wired
<1>5. Protocol(c)' /\ Wired(c)'
  BY ThreadsAssumption DEF IInv, Local, Protocol, Wired, CallsOK, GoroutinesOK, OnOwn,
     Untouched
<1>6. Switched(c)'
  <2>1. Undoes(c)'
    BY DEF IInv, Local, Switched, Undoes, GoroutinesOK, KernelOK, Wired, OnOwn
  <2>2. InRoot(c)'
    BY DEF IInv, Local, Switched, Undoes, InRoot, GoroutinesOK, KernelOK, Wired, OnOwn
  <2> QED BY <2>1, <2>2 DEF Switched
<1>7. Untouched'
  BY DEF IInv, Untouched, GoroutinesOK, KernelOK, Local, Wired, OnOwn, Switched, Undoes
<1>8. Masks'
  BY DEF IInv, Masks, Applying, CallsOK, KernelOK, Local, Wired, OnOwn, Untouched,
     Plain, Chrooted
<1> QED BY <1>1, <1>2, <1>3, <1>4, <1>5, <1>6, <1>7, <1>8, FrameKeeps DEF Local

\* The old root is mounted on that directory.
LEMMA PivotRootKeeps == ASSUME IInv, NEW c \in Call, PivotRoot(c) PROVE IInv'
<1> USE DEF PivotRoot, Goes, At, Then, calls, kernel, goroutine, InFs
<1>1. thread[c] \in Thread /\ thread[c] \in own /\ Root[c] \in Place
  BY ThreadOf DEF OnOwn, Place
<1>2. \/ fs' = fs /\ process' = process
      \/ /\ process' = process /\ fs' \in [Thread -> FsType]
         /\ fs'[thread[c]] = [fs[thread[c]] EXCEPT !.root = Root[c]]
         /\ \A u \in Thread \ {thread[c]} : fs'[u] = fs[u]
  <2>1. CASE On(thread[c], "root", Root[c])
    BY <1>1, <2>1, OnOwnThread DEF IInv
  <2> QED BY <2>1
<1>3. CallsOK'
  BY DEF IInv, CallsOK, KernelOK, FsType
<1>4. GoroutinesOK'
  BY DEF IInv, GoroutinesOK
<1>5. KernelOK'
  <2>1. mounts' \in [Thread -> MountsOf]
    <3>1. CASE UNCHANGED mounts
      BY <3>1 DEF IInv, KernelOK, MountsOf
    <3>2. CASE mounts' = [mounts EXCEPT ![thread[c]].old = "attached"]
      BY <1>1, <3>2, MountsType DEF IInv
    <3> QED BY <3>1, <3>2
  <2> QED BY <1>2, <2>1 DEF IInv, KernelOK, MountsOf
<1>6. Frame(c)
  BY <1>1, <1>2 DEF IInv, Frame, CallsOK, GoroutinesOK, KernelOK, Local, Wired
<1>7. Protocol(c)' /\ Wired(c)'
  BY ThreadsAssumption DEF IInv, Local, Protocol, Wired, CallsOK, GoroutinesOK, OnOwn,
     Untouched
<1>8. Switched(c)'
  <2>1. fs[thread[c]] \in FsType
    BY <1>1 DEF IInv, KernelOK
  <2>2. Undoes(c)'
    BY <1>1 DEF IInv, Local, Switched, Undoes, GoroutinesOK, KernelOK, OnOwn
  <2>3. InRoot(c)'
    <3>1. CASE worker' = [worker EXCEPT ![c] = "remove"]
      BY <3>1 DEF IInv, InRoot, GoroutinesOK
    <3>2. CASE InFs(c, "root", Root[c]) /\ worker' = [worker EXCEPT ![c] = "chdir"]
      BY <1>1, <1>2, <2>1, <3>2 DEF IInv, InRoot, GoroutinesOK, FsType, On, KernelOK
    <3> QED BY <3>1, <3>2
  <2> QED BY <2>2, <2>3 DEF Switched
<1>9. Untouched'
  BY <1>2 DEF IInv, Untouched
<1>10. Masks'
  BY <1>2 DEF IInv, Masks, Applying
<1> QED BY <1>3, <1>4, <1>5, <1>6, <1>7, <1>8, <1>9, <1>10, FrameKeeps DEF Local

\* Without pivot_root there is nothing to unmount.
LEMMA RemovePivotDirKeeps == ASSUME IInv, NEW c \in Call, RemovePivotDir(c) PROVE IInv'
<1> USE DEF RemovePivotDir, Goes, At, Then, calls, kernel, goroutine, FailIn
<1>1. CallsOK'
  BY DEF IInv, CallsOK, KernelOK, FsType
<1>2. GoroutinesOK'
  BY DEF IInv, GoroutinesOK
<1>3. KernelOK'
  BY DEF IInv, GoroutinesOK, KernelOK, FsType, CallsOK, Local, Wired, OnOwn
<1>4. Frame(c)
  BY DEF IInv, Frame, CallsOK, GoroutinesOK, KernelOK, Local, Wired
<1>5. Protocol(c)' /\ Wired(c)'
  BY ThreadsAssumption DEF IInv, Local, Protocol, Wired, CallsOK, GoroutinesOK, OnOwn,
     Untouched
<1>6. Switched(c)'
  <2>1. Undoes(c)'
    BY DEF IInv, Local, Switched, Undoes, GoroutinesOK, KernelOK, Wired, OnOwn
  <2>2. InRoot(c)'
    BY DEF IInv, Local, Switched, Undoes, InRoot, GoroutinesOK, KernelOK, Wired, OnOwn
  <2> QED BY <2>1, <2>2 DEF Switched
<1>7. Untouched'
  BY DEF IInv, Untouched, GoroutinesOK, KernelOK, Local, Wired, OnOwn, Switched, Undoes
<1>8. Masks'
  BY DEF IInv, Masks, Applying, CallsOK, KernelOK, Local, Wired, OnOwn, Untouched,
     Plain, Chrooted
<1> QED BY <1>1, <1>2, <1>3, <1>4, <1>5, <1>6, <1>7, <1>8, FrameKeeps DEF Local

\* Without an error the root is changed as well.
LEMMA ChrootKeeps == ASSUME IInv, NEW c \in Call, Chroot(c) PROVE IInv'
<1> USE DEF Chroot, Goes, At, Then, calls, kernel, goroutine, InFs, FailIn
<1>1. thread[c] \in Thread /\ thread[c] \in own /\ Root[c] \in Place
  BY ThreadOf DEF OnOwn, Place
<1>2. \/ fs' = fs /\ process' = process
      \/ /\ process' = process /\ fs' \in [Thread -> FsType]
         /\ fs'[thread[c]] = [fs[thread[c]] EXCEPT !.root = Root[c]]
         /\ \A u \in Thread \ {thread[c]} : fs'[u] = fs[u]
  <2>1. CASE On(thread[c], "root", Root[c])
    BY <1>1, <2>1, OnOwnThread DEF IInv
  <2> QED BY <2>1
<1>3. CallsOK'
  BY DEF IInv, CallsOK, KernelOK, FsType
<1>4. GoroutinesOK'
  BY DEF IInv, GoroutinesOK
<1>5. KernelOK'
  BY <1>1, <1>2, MountsType DEF IInv, KernelOK
<1>6. Frame(c)
  BY <1>1, <1>2 DEF IInv, Frame, CallsOK, GoroutinesOK, KernelOK, Local, Wired
<1>7. Protocol(c)' /\ Wired(c)'
  BY ThreadsAssumption DEF IInv, Local, Protocol, Wired, CallsOK, GoroutinesOK, OnOwn,
     Untouched
<1>8. Switched(c)'
  <2>1. fs[thread[c]] \in FsType
    BY <1>1 DEF IInv, KernelOK
  <2>2. Undoes(c)'
    BY <1>1 DEF IInv, Local, Switched, Undoes, GoroutinesOK, KernelOK, OnOwn
  <2>3. InRoot(c)'
    <3>1. CASE FailIn(c, "cleanup")
      BY <3>1 DEF IInv, InRoot, GoroutinesOK, FailIn
    <3>2. CASE InFs(c, "root", Root[c]) /\ worker' = [worker EXCEPT ![c] = "chdir"]
      BY <1>1, <1>2, <2>1, <3>2 DEF IInv, InRoot, GoroutinesOK, FsType, On, KernelOK
    <3> QED BY <3>1, <3>2
  <2> QED BY <2>2, <2>3 DEF Switched
<1>9. Untouched'
  BY <1>2 DEF IInv, Untouched
<1>10. Masks'
  BY <1>2 DEF IInv, Masks, Applying
<1> QED BY <1>3, <1>4, <1>5, <1>6, <1>7, <1>8, <1>9, <1>10, FrameKeeps DEF Local

\* Both ways lead to the directory of the call.
LEMMA ChdirKeeps == ASSUME IInv, NEW c \in Call, Chdir(c) PROVE IInv'
<1> USE DEF Chdir, Goes, At, Then, calls, kernel, goroutine, InFs, FailIn
<1>1. thread[c] \in Thread /\ thread[c] \in own /\ Root[c] \in Place
  BY ThreadOf DEF OnOwn, Place
<1>2. \/ fs' = fs /\ process' = process
      \/ /\ process' = process /\ fs' \in [Thread -> FsType]
         /\ fs'[thread[c]] = [fs[thread[c]] EXCEPT !.cwd = Root[c]]
         /\ \A u \in Thread \ {thread[c]} : fs'[u] = fs[u]
  <2>1. CASE On(thread[c], "cwd", Root[c])
    BY <1>1, <2>1, OnOwnThread DEF IInv
  <2> QED BY <2>1
<1>3. CallsOK'
  BY DEF IInv, CallsOK, KernelOK, FsType
<1>4. GoroutinesOK'
  BY DEF IInv, GoroutinesOK
<1>5. KernelOK'
  BY <1>1, <1>2, MountsType DEF IInv, KernelOK
<1>6. Frame(c)
  BY <1>1, <1>2 DEF IInv, Frame, CallsOK, GoroutinesOK, KernelOK, Local, Wired
<1>7. Protocol(c)' /\ Wired(c)'
  BY ThreadsAssumption DEF IInv, Local, Protocol, Wired, CallsOK, GoroutinesOK, OnOwn,
     Untouched
<1>8. Switched(c)'
  <2>1. fs[thread[c]] \in FsType
    BY <1>1 DEF IInv, KernelOK
  <2>2. Undoes(c)'
    BY <1>1 DEF IInv, Local, Switched, Undoes, GoroutinesOK, KernelOK, OnOwn
  <2>3. InRoot(c)'
    <3>1. CASE FailIn(c, "cleanup")
      BY <3>1 DEF IInv, InRoot, GoroutinesOK, FailIn
    <3>2. CASE InFs(c, "cwd", Root[c])
      BY <1>1, <1>2, <2>1, <3>2 DEF IInv, Local, Switched, InRoot, GoroutinesOK,
         FsType, On, KernelOK
    <3> QED BY <3>1, <3>2
  <2> QED BY <2>2, <2>3 DEF Switched
<1>9. Untouched'
  BY <1>2 DEF IInv, Untouched
<1>10. Masks'
  BY <1>2 DEF IInv, Masks, Applying
<1> QED BY <1>3, <1>4, <1>5, <1>6, <1>7, <1>8, <1>9, <1>10, FrameKeeps DEF Local

\* The old root is still mounted.
LEMMA MakeRPrivateKeeps == ASSUME IInv, NEW c \in Call, MakeRPrivate(c) PROVE IInv'
<1> USE DEF MakeRPrivate, Goes, At, Then, calls, kernel, goroutine, FailIn
<1>1. CallsOK'
  BY DEF IInv, CallsOK, KernelOK, FsType
<1>2. GoroutinesOK'
  BY DEF IInv, GoroutinesOK
<1>3. KernelOK'
  <2>1. mounts' \in [Thread -> MountsOf]
    <3>1. CASE UNCHANGED mounts
      BY <3>1 DEF IInv, KernelOK, MountsOf
    <3>2. CASE mounts' = [mounts EXCEPT ![thread[c]].old = "private"]
      BY <3>2, ThreadOf, MountsType DEF IInv
    <3> QED BY <3>1, <3>2
  <2> QED BY <2>1 DEF IInv, KernelOK, MountsOf
<1>4. Frame(c)
  BY DEF IInv, Frame, CallsOK, GoroutinesOK, KernelOK, Local, Wired
<1>5. Protocol(c)' /\ Wired(c)'
  BY ThreadsAssumption DEF IInv, Local, Protocol, Wired, CallsOK, GoroutinesOK, OnOwn,
     Untouched
<1>6. Switched(c)'
  <2>1. Undoes(c)'
    BY DEF IInv, Local, Switched, Undoes, GoroutinesOK, KernelOK, Wired, OnOwn
  <2>2. InRoot(c)'
    BY DEF IInv, Local, Switched, Undoes, InRoot, GoroutinesOK, KernelOK, Wired, OnOwn
  <2> QED BY <2>1, <2>2 DEF Switched
<1>7. Untouched'
  BY DEF IInv, Untouched, GoroutinesOK, KernelOK, Local, Wired, OnOwn, Switched, Undoes
<1>8. Masks'
  BY DEF IInv, Masks, Applying, CallsOK, KernelOK, Local, Wired, OnOwn, Untouched,
     Plain, Chrooted
<1> QED BY <1>1, <1>2, <1>3, <1>4, <1>5, <1>6, <1>7, <1>8, FrameKeeps DEF Local

\* The old root goes, in this namespace only.
LEMMA UnmountKeeps == ASSUME IInv, NEW c \in Call, Unmount(c) PROVE IInv'
<1> USE DEF Unmount, Goes, At, Then, calls, kernel, goroutine, Unmounted, FailIn
<1>1. CallsOK'
  BY DEF IInv, CallsOK, KernelOK, FsType
<1>2. GoroutinesOK'
  BY DEF IInv, GoroutinesOK
<1>3. KernelOK'
  <2>1. mounts' \in [Thread -> MountsOf]
    <3>1. CASE UNCHANGED mounts
      BY <3>1 DEF IInv, KernelOK, MountsOf
    <3>2. CASE mounts' = [mounts EXCEPT ![thread[c]].old = "none"]
      BY <3>2, ThreadOf, MountsType DEF IInv
    <3> QED BY <3>1, <3>2
  <2> QED BY <2>1 DEF IInv, KernelOK, MountsOf
<1>4. Frame(c)
  BY DEF IInv, Frame, CallsOK, GoroutinesOK, KernelOK, Local, Wired
<1>5. Protocol(c)' /\ Wired(c)'
  BY ThreadsAssumption DEF IInv, Local, Protocol, Wired, CallsOK, GoroutinesOK, OnOwn,
     Untouched
<1>6. Switched(c)'
  <2>1. Undoes(c)'
    BY DEF IInv, Local, Switched, Undoes, GoroutinesOK, KernelOK, Wired, OnOwn
  <2>2. InRoot(c)'
    BY DEF IInv, Local, Switched, Undoes, InRoot, GoroutinesOK, KernelOK, Wired, OnOwn
  <2> QED BY <2>1, <2>2 DEF Switched
<1>7. Untouched'
  BY DEF IInv, Untouched, GoroutinesOK, KernelOK, Local, Wired, OnOwn, Switched, Undoes
<1>8. Masks'
  BY DEF IInv, Masks, Applying, CallsOK, KernelOK, Local, Wired, OnOwn, Untouched,
     Plain, Chrooted
<1> QED BY <1>1, <1>2, <1>3, <1>4, <1>5, <1>6, <1>7, <1>8, FrameKeeps DEF Local

\* Only after an error is there something left to unmount.
LEMMA UnmountDeferredKeeps == ASSUME IInv, NEW c \in Call, UnmountDeferred(c) PROVE IInv'
<1> USE DEF UnmountDeferred, Goes, At, Then, calls, kernel, goroutine, Unmounted
<1>1. CallsOK'
  BY DEF IInv, CallsOK, KernelOK, FsType
<1>2. GoroutinesOK'
  BY DEF IInv, GoroutinesOK
<1>3. KernelOK'
  <2>1. mounts' \in [Thread -> MountsOf]
    <3>1. CASE UNCHANGED mounts
      BY <3>1 DEF IInv, KernelOK, MountsOf
    <3>2. CASE mounts' = [mounts EXCEPT ![thread[c]].old = "none"]
      BY <3>2, ThreadOf, MountsType DEF IInv
    <3> QED BY <3>1, <3>2
  <2> QED BY <2>1 DEF IInv, KernelOK, MountsOf
<1>4. Frame(c)
  BY DEF IInv, Frame, CallsOK, GoroutinesOK, KernelOK, Local, Wired
<1>5. Protocol(c)' /\ Wired(c)'
  BY ThreadsAssumption DEF IInv, Local, Protocol, Wired, CallsOK, GoroutinesOK, OnOwn,
     Untouched
<1>6. Switched(c)'
  <2>1. Undoes(c)'
    BY DEF IInv, Local, Switched, Undoes, GoroutinesOK, KernelOK, Wired, OnOwn
  <2>2. InRoot(c)'
    BY DEF IInv, Local, Switched, Undoes, InRoot, GoroutinesOK, KernelOK, Wired, OnOwn
  <2> QED BY <2>1, <2>2 DEF Switched
<1>7. Untouched'
  BY DEF IInv, Untouched, GoroutinesOK, KernelOK, Local, Wired, OnOwn, Switched, Undoes
<1>8. Masks'
  BY DEF IInv, Masks, Applying, CallsOK, KernelOK, Local, Wired, OnOwn, Untouched,
     Plain, Chrooted
<1> QED BY <1>1, <1>2, <1>3, <1>4, <1>5, <1>6, <1>7, <1>8, FrameKeeps DEF Local

\* The clean-up loses no error here.
LEMMA RemoveDeferredKeeps == ASSUME IInv, NEW c \in Call, RemoveDeferred(c) PROVE IInv'
<1> USE DEF RemoveDeferred, Goes, At, Then, calls, kernel, goroutine
<1>1. CallsOK'
  BY DEF IInv, CallsOK, KernelOK, FsType
<1>2. GoroutinesOK'
  BY DEF IInv, GoroutinesOK
<1>3. KernelOK'
  BY DEF IInv, GoroutinesOK, KernelOK, FsType, CallsOK, Local, Wired, OnOwn
<1>4. Frame(c)
  BY DEF IInv, Frame, CallsOK, GoroutinesOK, KernelOK, Local, Wired
<1>5. Protocol(c)' /\ Wired(c)'
  BY ThreadsAssumption DEF IInv, Local, Protocol, Wired, CallsOK, GoroutinesOK, OnOwn,
     Untouched
<1>6. Switched(c)'
  <2>1. Undoes(c)'
    BY DEF IInv, Local, Switched, Undoes, GoroutinesOK, KernelOK, Wired, OnOwn
  <2>2. InRoot(c)'
    BY DEF IInv, Local, Switched, Undoes, InRoot, GoroutinesOK, KernelOK, Wired, OnOwn
  <2> QED BY <2>1, <2>2 DEF Switched
<1>7. Untouched'
  BY DEF IInv, Untouched, GoroutinesOK, KernelOK, Local, Wired, OnOwn, Switched, Undoes
<1>8. Masks'
  BY DEF IInv, Masks, Applying, CallsOK, KernelOK, Local, Wired, OnOwn, Untouched,
     Plain, Chrooted
<1> QED BY <1>1, <1>2, <1>3, <1>4, <1>5, <1>6, <1>7, <1>8, FrameKeeps DEF Local

\* The umask changes for the thread of the call alone.
LEMMA SetUmaskKeeps == ASSUME IInv, NEW c \in Call, SetUmask(c) PROVE IInv'
<1> USE DEF SetUmask, Goes, At, Then, calls, kernel, goroutine, InFs
<1>1. thread[c] \in Thread /\ thread[c] \in own
  BY ThreadOf DEF OnOwn
<1>2. \/ fs' = fs /\ process' = process
      \/ /\ process' = process /\ fs' \in [Thread -> FsType]
         /\ fs'[thread[c]] = [fs[thread[c]] EXCEPT !.umask = 0]
         /\ \A u \in Thread \ {thread[c]} : fs'[u] = fs[u]
  <2>1. CASE InFs(c, "umask", 0)
    BY <1>1, <2>1, OnOwnThread DEF IInv, Place
  <2> QED BY <2>1
<1>3. CallsOK'
  BY DEF IInv, CallsOK, KernelOK, FsType
<1>4. GoroutinesOK'
  BY DEF IInv, GoroutinesOK
<1>5. KernelOK'
  BY <1>1, <1>2, MountsType DEF IInv, KernelOK
<1>6. Frame(c)
  BY <1>1, <1>2 DEF IInv, Frame, CallsOK, GoroutinesOK, KernelOK, Local, Wired
<1>7. Protocol(c)' /\ Wired(c)'
  BY ThreadsAssumption DEF IInv, Local, Protocol, Wired, CallsOK, GoroutinesOK, OnOwn,
     Untouched
<1>8. Switched(c)'
  <2>1. fs[thread[c]] \in FsType
    BY <1>1 DEF IInv, KernelOK
  <2>2. Undoes(c)'
    BY <1>1 DEF IInv, Local, Switched, Undoes, GoroutinesOK, KernelOK, OnOwn
  <2>3. InRoot(c)'
    <3>1. CASE Op[c] = "ApplyLayer"
      BY <1>1, <1>2, <2>1, <3>1 DEF IInv, Local, Switched, InRoot, GoroutinesOK,
         FsType, On, KernelOK
    <3>2. CASE Op[c] # "ApplyLayer"
      BY <3>2 DEF IInv, Local, Switched, InRoot, GoroutinesOK
    <3> QED BY <3>1, <3>2
  <2> QED BY <2>2, <2>3 DEF Switched
<1>9. Untouched'
  BY <1>2 DEF IInv, Untouched
<1>10. Masks'
  BY <1>2 DEF IInv, Masks, Applying
<1> QED BY <1>3, <1>4, <1>5, <1>6, <1>7, <1>8, <1>9, <1>10, FrameKeeps DEF Local

\* The work ends with the result in the caller's hands.
LEMMA WorkKeeps == ASSUME IInv, NEW c \in Call, Work(c) PROVE IInv'
<1> USE DEF Work, Goes, At, Then, calls, kernel, goroutine, Closed
<1>1. CallsOK'
  BY DEF IInv, CallsOK, KernelOK, FsType
<1>2. GoroutinesOK'
  BY DEF IInv, GoroutinesOK
<1>3. KernelOK'
  BY DEF IInv, GoroutinesOK, KernelOK, FsType, CallsOK, Local, Wired, OnOwn
<1>4. Frame(c)
  BY DEF IInv, Frame, CallsOK, GoroutinesOK, KernelOK, Local, Wired
<1>5. Protocol(c)' /\ Wired(c)'
  BY ThreadsAssumption DEF IInv, Local, Protocol, Wired, CallsOK, GoroutinesOK, OnOwn,
     Untouched
<1>6. Switched(c)'
  <2>1. Undoes(c)'
    BY DEF IInv, Local, Switched, Undoes, GoroutinesOK, KernelOK, Wired, OnOwn
  <2>2. InRoot(c)'
    BY DEF IInv, Local, Switched, Undoes, InRoot, GoroutinesOK, KernelOK, Wired, OnOwn
  <2> QED BY <2>1, <2>2 DEF Switched
<1>7. Untouched'
  BY DEF IInv, Untouched, GoroutinesOK, KernelOK, Local, Wired, OnOwn, Switched, Undoes
<1>8. Masks'
  BY DEF IInv, Masks, Applying, CallsOK, KernelOK, Local, Wired, OnOwn, Untouched,
     Plain, Chrooted
<1> QED BY <1>1, <1>2, <1>3, <1>4, <1>5, <1>6, <1>7, <1>8, FrameKeeps DEF Local

-----------------------------------------------------------------------------
(* The theorems. *)

\* It holds in the beginning, after a step that changes nothing, and after any step.
LEMMA InitKeeps == Init => IInv
<1> SUFFICES ASSUME Init PROVE IInv
  OBVIOUS
<1> USE ThreadsAssumption DEF Init
<1>1. PICK made \in Together : caller = [c \in Call |-> IF c \in made THEN "start" ELSE "nil"]
  OBVIOUS
<1>2. CallsOK
  BY <1>1 DEF CallsOK
<1>3. GoroutinesOK /\ KernelOK
  BY DEF GoroutinesOK, KernelOK, FsType, HostFs, HostMounts
<1>4. Untouched
  BY DEF Untouched, HostFs
<1>5. Masks
  <2>1. Applying = {}
    BY <1>1 DEF Applying, Plain
  <2> QED BY <2>1 DEF Masks, HostFs
<1>6. ASSUME NEW c \in Call
      PROVE  Local(c)
  BY <1>1, <1>6 DEF Local, Protocol, Wired, Switched, Undoes, InRoot, OnOwn
<1> QED BY <1>2, <1>3, <1>4, <1>5, <1>6 DEF IInv

\* A step that changes nothing keeps the invariant.
LEMMA StutterKeeps == ASSUME IInv, UNCHANGED vars PROVE IInv'
  BY DEF IInv, vars, calls, kernel, goroutine, CallsOK, GoroutinesOK, KernelOK,
     Untouched, Masks,
         Applying, Local, Protocol, Wired, Switched, Undoes, InRoot

\* Every step of every call keeps it.
LEMMA NextKeeps == ASSUME IInv, [Next]_vars PROVE IInv'
<1>1. ASSUME NEW c \in Call, Caller(c)
      PROVE  IInv'
  BY <1>1, PrepareKeeps, StartedKeeps, OverrideUmaskKeeps, RestoreKeeps DEF Caller
<1>2. ASSUME NEW c \in Call, SwitchRoot(c)
      PROVE  IInv'
  BY <1>2, BindKeeps, MkdirTempKeeps, PivotRootKeeps, RemovePivotDirKeeps, ChrootKeeps,
     ChdirKeeps, MakeRPrivateKeeps,
     UnmountKeeps, UnmountDeferredKeeps, RemoveDeferredKeeps DEF SwitchRoot
<1>3. ASSUME NEW c \in Call, Worker(c)
      PROVE  IInv'
  BY <1>2, <1>3, LockOSThreadKeeps, UnshareKeeps, MakeRSlaveKeeps, ReportKeeps,
     SetUmaskKeeps, WorkKeeps, ExitKeeps
     DEF Worker
<1> QED BY <1>1, <1>3, StutterKeeps DEF Next, AllReturned

\* The invariant holds always.
THEOREM Inductive == Spec => []IInv
  BY InitKeeps, NextKeeps, PTL DEF Spec

\* Every variable has its type, for any calls and any threads.
THEOREM TypeCorrect == Spec => []TypeOK
<1>1. IInv => TypeOK
  BY TypeParts DEF IInv
<1> QED BY <1>1, Inductive, PTL

\* No goroutine but that of a call ever runs on a thread that was unshared, and the
\* process keeps its root directory and its mounts, whichever system calls fail.
\* (unshare.Go, MakeRSlave and SwitchRoot.)
THEOREM ProcessIsolated == Spec => []Isolated
<1>1. IInv => Isolated
  BY ThreadsAssumption DEF IInv, Isolated, Untouched, KernelOK
<1> QED BY <1>1, Inductive, PTL

\* The work of a call is done below its own root, on a thread of its own.  (unshare.Go
\* and SwitchRoot, over pivot_root or over chroot.)
THEOREM WorkIsInRoot == Spec => []WorksInRoot
<1>1. ASSUME IInv, NEW c \in Call, worker[c] = "work"
      PROVE  /\ View(thread[c]).root = Root[c] /\ View(thread[c]).cwd = Root[c]
             /\ mounts[thread[c]].old = "none"
             /\ Op[c] # "Tar" => c \in fd
             /\ Op[c] = "ApplyLayer" => View(thread[c]).umask = 0
             /\ \A d \in Call \ {c} : thread[d] # thread[c]
  BY <1>1 DEF IInv, Local, Protocol, Wired, Switched, Undoes, InRoot, View, OnOwn
<1>2. IInv => WorksInRoot
  BY <1>1 DEF WorksInRoot
<1> QED BY <1>2, Inductive, PTL

\* Calls of archive.ApplyLayer that do not overlap give the process its umask back,
\* however many calls of chrootarchive run beside them.  (overrideUmask.)
THEOREM UmaskIsKept == Spec => []UmaskKept
<1>1. IInv => UmaskKept
  BY DEF IInv, Masks, UmaskKept
<1> QED BY <1>1, Inductive, PTL

(***************************************************************************)
(* In a child (InChild).                                                   *)
(***************************************************************************)
\* The parent, the child, the goroutine and the reader are where they can be.
Typed ==
    /\ call \in {"doPack", "doUnpack", "doUnpackLayer"}
    /\ parent \in {"start", "options", "wait", "nil", "err"}
    /\ child \in {"none", "options", "works", "ok", "failed"}
    /\ copier \in {"none", "copies", "writes", "waits", "ended", "failed"}
    /\ rest \in Nat /\ pipe \in Nat /\ taken \in Nat
    /\ rclosed \in {"no", "goroutine", "reader"}
    /\ reader \in {"none", "reads", "closed", "ErrClosedPipe"}

\* Before the child is started there is nothing, and no reader before doPack returns.
Unstarted == /\ parent = "start" => child = "none" /\ copier = "none"
             /\ parent \in {"start", "options"} => reader = "none"

\* What is where, as long as the reader has not closed its end.
OnTheWire == IF wire THEN 1 ELSE 0
Total     == taken + OnTheWire + pipe + rest
Conserved == Packs /\ rclosed # "reader" => Total \in Archive

Copied ==
    Packs => /\ copier # "failed" /\ (wire => copier = "writes")
             /\ copier \in {"waits", "ended"} /\ rclosed # "reader" => pipe = 0 /\ Exited
             /\ child = "ok" => rest = 0
             /\ rclosed = "goroutine" => copier = "ended"
             /\ rclosed = "reader" <=> reader = "closed"
             /\ reader = "ErrClosedPipe" => rclosed = "goroutine"

Fed ==
    ~Packs => /\ copier = "ended" => rest = 0 \/ Exited
              /\ child = "ok" => pipe = 0 /\ FeedEnded /\ (copier = "ended" => rest = 0)
              /\ parent = "nil" => child = "ok" /\ copier = "ended"
              /\ reader = "none"

ChildInv == Typed /\ Unstarted /\ Conserved /\ Copied /\ Fed

\* The invariant holds at the start.
LEMMA ChildInitKeeps == ChildInit => ChildInv
  <1> SUFFICES ASSUME ChildInit PROVE ChildInv
    OBVIOUS
  <1>1. rest \in Nat /\ rest \in Archive
    BY InChildAssumption DEF ChildInit
  <1>2. Typed /\ Unstarted
    BY <1>1 DEF ChildInit, Typed, Unstarted
  <1>3. Total = rest
    BY <1>1 DEF ChildInit, Total, OnTheWire
  <1>4. Copied /\ Fed
    BY DEF ChildInit, Copied, Fed, Packs, Exited, FeedEnded
  <1> QED
    BY <1>1, <1>2, <1>3, <1>4 DEF ChildInv, Conserved

\* The parent.
LEMMA ParentKeeps == ASSUME ChildInv, Start \/ Encode \/ WaitUnpack PROVE ChildInv'
  <1>1. CASE Start
    <2>1. Typed' /\ Unstarted'
      BY <1>1 DEF Start, ChildInv, Typed, Unstarted
    <2>2. Packs' /\ rclosed' # "reader" => Packs /\ rclosed # "reader" /\ Total' = Total
      BY <1>1 DEF Start, ChildInv, Typed, Packs, Total, OnTheWire, Copied
    <2>3. Copied' /\ Fed'
      BY <1>1 DEF Start, ChildInv, Typed, Unstarted, Packs, Copied, Fed, Exited, FeedEnded
    <2> QED
      BY <2>1, <2>2, <2>3 DEF ChildInv, Conserved
  <1>2. CASE Encode
    <2>1. Typed' /\ Unstarted'
      BY <1>2 DEF Encode, ChildInv, Typed, Unstarted
    <2>2. Packs' /\ rclosed' # "reader" => Packs /\ rclosed # "reader" /\ Total' = Total
      BY <1>2 DEF Encode, ChildInv, Typed, Packs, Total, OnTheWire, Copied
    <2>3. Copied' /\ Fed'
      BY <1>2 DEF Encode, ChildInv, Typed, Unstarted, Packs, Copied, Fed, Exited, FeedEnded
    <2> QED
      BY <2>1, <2>2, <2>3 DEF ChildInv, Conserved
  <1>3. CASE WaitUnpack
    <2>1. Typed' /\ Unstarted'
      BY <1>3 DEF WaitUnpack, WaitError, ExitStatus, ChildInv, Typed, Unstarted
    <2>2. Packs' /\ rclosed' # "reader" => Packs /\ rclosed # "reader" /\ Total' = Total
      BY <1>3 DEF WaitUnpack, WaitError, ExitStatus, ChildInv, Typed, Packs, Total, OnTheWire, Copied
    <2>3. Copied' /\ Fed'
      BY <1>3 DEF WaitUnpack, WaitError, ExitStatus, ChildInv, Typed, Unstarted, Packs, Copied, Fed, Exited, FeedEnded
    <2> QED
      BY <2>1, <2>2, <2>3 DEF ChildInv, Conserved
  <1> QED
    BY <1>1, <1>2, <1>3

\* The child writes to its pipe what it has, or reads from it.
LEMMA ChildKeeps == ASSUME ChildInv, Child PROVE ChildInv'
  <1>1. CASE RecvOptions
    <2>1. Typed' /\ Unstarted'
      BY <1>1 DEF RecvOptions, Child, ChildInv, Typed, Unstarted
    <2>2. Packs' /\ rclosed' # "reader" => Packs /\ rclosed # "reader" /\ Total' = Total
      BY <1>1 DEF RecvOptions, Child, ChildInv, Typed, Packs, Total, OnTheWire, Copied
    <2>3. Copied' /\ Fed'
      BY <1>1 DEF RecvOptions, Child, ChildInv, Typed, Unstarted, Packs, Copied, Fed, Exited, FeedEnded
    <2> QED
      BY <2>1, <2>2, <2>3 DEF ChildInv, Conserved
  <1>2. CASE PackInChroot
    <2>1. Typed' /\ Unstarted'
      BY <1>2 DEF PackInChroot, Child, ChildInv, Typed, Unstarted
    <2>2. Packs' /\ rclosed' # "reader" => Packs /\ rclosed # "reader" /\ Total' = Total
      BY <1>2 DEF PackInChroot, Child, ChildInv, Typed, Packs, Total, OnTheWire, Copied
    <2>3. Copied' /\ Fed'
      BY <1>2 DEF PackInChroot, Child, ChildInv, Typed, Unstarted, Packs, Copied, Fed, Exited, FeedEnded
    <2> QED
      BY <2>1, <2>2, <2>3 DEF ChildInv, Conserved
  <1>3. CASE UnpackInChroot
    <2>1. Typed' /\ Unstarted'
      BY <1>3 DEF UnpackInChroot, Child, ChildInv, Typed, Unstarted
    <2>2. Packs' /\ rclosed' # "reader" => Packs /\ rclosed # "reader" /\ Total' = Total
      BY <1>3 DEF UnpackInChroot, Child, ChildInv, Typed, Packs, Total, OnTheWire, Copied
    <2>3. Copied' /\ Fed'
      BY <1>3 DEF UnpackInChroot, Child, ChildInv, Typed, Unstarted, Packs, Copied, Fed, Exited, FeedEnded
    <2> QED
      BY <2>1, <2>2, <2>3 DEF ChildInv, Conserved
  <1> QED
    BY <1>1, <1>2, <1>3 DEF Child

\* The child may fail wherever it is.
LEMMA ChildFailsKeeps ==
    ASSUME ChildInv, ChildFails, UNCHANGED <<call, parent, copier, wire, rclosed, taken, reader>>
    PROVE  ChildInv'
  <1>1. Typed' /\ Unstarted'
    BY DEF ChildFails, ChildInv, Typed, Unstarted
  <1>2. Packs' = Packs /\ Total' = Total
    BY DEF ChildFails, ChildInv, Packs, Total, OnTheWire
  <1>3. Copied' /\ Fed'
    BY DEF ChildFails, ChildInv, Typed, Packs, Copied, Fed, Exited, FeedEnded
  <1> QED
    BY <1>1, <1>2, <1>3 DEF ChildInv, Conserved

\* The goroutine that copies: it moves a write on, or meets an end.
LEMMA CopierKeeps == ASSUME ChildInv, Copier PROVE ChildInv'
  <1>1. CASE CopyOut
    <2>1. Typed' /\ Unstarted'
      BY <1>1 DEF CopyOut, Copier, OutputEnds, ClosedBy, ChildInv, Typed, Unstarted
    <2>2. Packs' /\ rclosed' # "reader" => Packs /\ rclosed # "reader" /\ Total' = Total
      BY <1>1 DEF CopyOut, Copier, OutputEnds, ClosedBy, Exited, ChildInv, Typed, Packs,
                       Total, OnTheWire, Copied
    <2>3. Copied' /\ Fed'
      BY <1>1 DEF CopyOut, Copier, OutputEnds, ClosedBy, ChildInv, Typed, Unstarted, Packs,
                       Copied, Fed, Exited, FeedEnded
    <2> QED
      BY <2>1, <2>2, <2>3 DEF ChildInv, Conserved
  <1>2. CASE Feed
    <2>1. Typed' /\ Unstarted'
      BY <1>2 DEF Feed, Copier, ChildInv, Typed, Unstarted
    <2>2. Packs' /\ rclosed' # "reader" => Packs /\ rclosed # "reader" /\ Total' = Total
      BY <1>2 DEF Feed, Copier, Exited, ChildInv, Typed, Packs, Total, OnTheWire, Copied
    <2>3. Copied' /\ Fed'
      BY <1>2 DEF Feed, Copier, ChildInv, Typed, Unstarted, Packs, Copied, Fed, Exited, FeedEnded
    <2> QED
      BY <2>1, <2>2, <2>3 DEF ChildInv, Conserved
  <1> QED
    BY <1>1, <1>2 DEF Copier

\* The reader of the archive.
LEMMA ReaderKeeps == ASSUME ChildInv, Reads \/ Closes PROVE ChildInv'
  <1>1. CASE Reads
    <2>1. Typed' /\ Unstarted'
      BY <1>1 DEF Reads, ChildInv, Typed, Unstarted
    <2>2. Packs' /\ rclosed' # "reader" => Packs /\ rclosed # "reader" /\ Total' = Total
      BY <1>1 DEF Reads, ChildInv, Typed, Packs, Total, OnTheWire, Copied
    <2>3. Copied' /\ Fed'
      BY <1>1 DEF Reads, ChildInv, Typed, Unstarted, Packs, Copied, Fed, Exited, FeedEnded
    <2> QED
      BY <2>1, <2>2, <2>3 DEF ChildInv, Conserved
  <1>2. CASE Closes
    <2>1. Typed' /\ Unstarted'
      BY <1>2 DEF Closes, ChildInv, Typed, Unstarted
    <2>2. Packs' /\ rclosed' # "reader" => Packs /\ rclosed # "reader" /\ Total' = Total
      BY <1>2 DEF Closes, ChildInv, Typed, Packs, Total, OnTheWire, Copied
    <2>3. Copied' /\ Fed'
      BY <1>2 DEF Closes, ChildInv, Typed, Unstarted, Packs, Copied, Fed, Exited, FeedEnded
    <2> QED
      BY <2>1, <2>2, <2>3 DEF ChildInv, Conserved
  <1> QED
    BY <1>1, <1>2

\* Every step keeps the invariant.
LEMMA ChildNextKeeps == ASSUME ChildInv, [ChildNext]_childVars PROVE ChildInv'
  <1>1. CASE UNCHANGED childVars
    BY <1>1 DEF childVars, ChildInv, Typed, Unstarted, Conserved, Total, OnTheWire, Copied, Fed,
                Packs, Exited, FeedEnded
  <1> QED
    BY <1>1, ParentKeeps, ChildKeeps, ChildFailsKeeps, CopierKeeps, ReaderKeeps DEF ChildNext

\* The strengthened invariant holds in every state.
THEOREM ChildInvariant == ChildSpec => []ChildInv
  BY ChildInitKeeps, ChildNextKeeps, PTL DEF ChildSpec

\* No success is a shortened archive, with pipes, options and archives of any size:
\* an unpacking without an error was done by a child that read to the end, and a
\* reader that meets the end of what a child packed has all of it.  (cmd.Wait's
\* error, and doPack's goroutine, which copies before it waits.)
THEOREM WholeOrErrorHolds == ChildSpec => []WholeOrError
  <1>1. ChildInv => WholeOrError
    BY DEF ChildInv, Typed, Conserved, Total, OnTheWire, Copied, Fed, Packs, Exited, FeedEnded,
       WholeOrError
  <1> QED
    BY <1>1, ChildInvariant, PTL
=============================================================================
