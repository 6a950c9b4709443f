# A TLA+ model of moby/go-archive

go-archive packs directories into tar streams and unpacks tar streams and image
layers into directories. These modules model its core: where an archive entry
lands in a tree that holds symlinks, how a layer is applied entry by entry, how
copies run through goroutines, pipes and child processes, how the work is put
into a root of its own, and what other processes and failing calls may do in
between. TLC checks the models
on small instances, and TLAPS proves part of what they say for every instance.

## 1. The system

| Component | State it keeps | Operations | Talks to |
|---|---|---|---|
| Path resolution (`rootpath.go`) | parts left, path resolved, links walked, two escape flags | `resolveFSRootPath`, `fsRootPath` | the file system, by `Lstat` and `Readlink` |
| Entry extraction (`archive.go` 455-744, 1154-1231) | none between entries | `resolveArchivePath`, `resolveHardlinkTarget`, `createTarFile`, `createImpliedDirectories`, `remapIDs` | path resolution, `os.Root` |
| Applying a layer (`diff.go`) | `unpackedPaths`, `dirs`, `aufsHardlinks`, `aufsTempdir` | `UnpackLayer`: whiteouts, opaque whiteouts, entries, directory times | entry extraction |
| Unpacking an archive (`archive.go` 993-1131) | `dirs` | `Unpack`, with `NoOverwriteDirNonDir`, excludes and the overlayfs converter (`archive_linux.go`) | entry extraction |
| Packing (`archive.go` 308-453, 763-983) | `SeenFiles`, `seen`, parent match stack | `Tarballer.Do`, `addTarFile` | a pipe to the reader |
| Changes (`changes*.go`) | two `FileInfo` trees, `changedDirs` | `Changes`, `ChangesDirs`, `ExportChanges` | packing |
| Copying (`copy.go`, `archive.go` 1273-1397) | `CopyInfo`, pipes, an error channel | `CopyResource`, `PrepareArchiveCopy`, `RebaseArchiveEntries`, `TarUntar`, `CopyFileWithTar` | packing, unpacking, two goroutines |
| Stream rewriting (`archive.go` 164-252) | the modifiers left | `ReplaceFileTarWrapper` | a goroutine and a pipe |
| Compression | pooled buffers, a child process | `DecompressStream`, `CompressStream`, `cmdStream` | pipes, `exec` |
| chrootarchive, `internal/unshare`, `internal/mounttree` | the process's root, mount namespaces, locked threads | the same operations inside another root | all of the above |

What is hard about it:

* **Symlinks.** Every lookup may meet links that are absolute, relative,
  dangling, cyclic, or that leave the root. Extraction must land where a chroot
  would, and a `..` that leaves the root must be refused.
* **Concurrency.** The tree below the destination is shared with other
  processes. `resolveArchivePath` resolves a path before the operation that
  uses it, and the tests at `archive_test.go` 888 and 921 remove directories
  between two entries.
* **Order.** Entries of one layer see what earlier ones made; an opaque
  whiteout must hide the lower layer and keep this one; directory times are set
  at the end; a header may be shared by several hard links.
* **Failure.** Any call may fail half way, the archive may end early, and the
  temporary directory, which lies in the destination, has to go either way; its
  removal may fail as well, and nobody looks at that error.

* **Threads.** The root directory, the umask and the mounts belong to a thread once
  it was unshared, and to the process before: a goroutine on the wrong thread works
  in the wrong root. A pipeline ends only if every close reaches every goroutine.

What makes each component correct, in a sentence: resolution ends and agrees
with a chroot; an entry changes only the place it names and its missing
parents; a layer looks like one atomic change per entry; unpacking what was
packed gives the same tree; a change list applied to the old tree gives the new
one; a copy puts every file where `cp` would, and has everything or reports an
error; a rewritten archive is whole or ends in an error; a child process is always
waited for; work in a chroot happens there and nowhere else, and leaves the rest of
the process as it was. The modules below cover all of them, of the fourth what is
archived and not yet the tree it is unpacked to.

## 2. The modules

| Module | What it is |
|---|---|
| `RootFs` | the tree below a root, and `os.Root`'s operations on it as the package uses them (external) |
| `ResolvePath` | `resolveFSRootPath`, one system call per action, the tree changing in between |
| `Extract` | the calls `Unpack` and `UnpackLayer` share, as operators on a tree |
| `LayerView` | the abstract specification: what applying a layer promises |
| `UnpackLayer` | `UnpackLayer`, one file system operation per action |
| `Unpack` | `Unpack` with the converter to the overlay format, likewise |
| `Pack` | `addTarFile`: the header written for a path, as operators |
| `Changes` | `ChangesDirs`, `Changes` and `ExportChanges`, one system call per action, while the container goes on |
| `LayerRoundTrip` | `Changes` and `UnpackLayer` in a row |
| `Tarballer` | `Tarballer.Do`: the goroutine that walks and packs a directory into a pipe |
| `CopyPipe` | `TarUntar` and `CopyFileWithTar`: a writing goroutine (`Tarballer` is one) and `Untar`, joined by the pipe |
| `CopyPaths` | `copy.go`'s decisions about the texts of two paths, as operators |
| `CopyResource` | `CopyResource`: `Tarballer`, the goroutine of `RebaseArchiveEntries` and the extraction, over two pipes |
| `CmdStream` | `DecompressStream` and `cmdStream`: the goroutines of `os/exec`, the child, the pipes |
| `ReplaceFile` | `ReplaceFileTarWrapper`, reading what `CmdStream` decompresses |
| `GoInChroot` | `unshare.Go`, `goInChroot`, `SwitchRoot` and `overrideUmask`: several calls at once on the threads of one process |
| `InChild` | chrootarchive where threads cannot be unshared: a child process, its options and its archive |
| `SmallTrees`, `MCResolvePath`, `MCUnpackLayer`, `MCUnpack`, `MCLayerRoundTrip`, `MCCopyPipe`, `MCCopyResource`, `MCReplaceFile`, `MCGoInChroot` | the small instances for TLC |
| `TreeProofs` | lemmas about paths, trees, lookups, the calls of `Extract` and what they change in a view |
| `ResolvePathProofs`, `UnpackLayerProofs`, `UnpackProofs`, `CopyPipeProofs`, `CopyResourceProofs`, `ReplaceFileProofs` | theorems about these state machines |
| `ChrootProofs` | theorems about `GoInChroot` and `InChild`, the two ways `chrootarchive` has of working below another root |

**RootFs.** A path is a sequence of names, a tree a function from the paths that
exist to nodes. A node has its kind, its link target, the inode it is a name of,
the archive entry that last wrote it (`by`, 0 for a lower layer), a modification
time and an owner. Contents, modes and xattrs are left out. `Walk` is one lookup:
unscoped it is `os.Root`'s, which fails on a missing component, on an absolute
link and on a `..` that leaves the root; scoped it is `resolveFSRootPath`'s. The
recursion is a function over `0..MaxSteps`, not a `RECURSIVE` operator, so that
it can be proved about. `DirOf` says that a directory's own path denotes that
directory; `MCResolvePath` checks, as an `ASSUME`, that the walk agrees.

**ResolvePath.** One action per case of the loop: `SkipDot`, `GoUp`, `Enter`,
`NotADirectory`, `LstatFails`, `TooManyLinks`, `MeetLink` (the `Lstat` that sees a
link), `Readlink` and `ReadlinkFails`, `Finish`. `Change` is another process
replacing the tree. Once a component already resolved has become a link
(`Astray`), the joined path leads elsewhere and `Lstat` and `Readlink` may report
anything.

**Extract.** `createTarFile` and its parts, `mkdirImplied` (one pass of the loop
of `createImpliedDirectories`), `chtimes`, `remapIDs`. `ToHost` models
`IdentityMapping.ToHost` of `github.com/moby/sys/user`, which leaves an ID that is
already the mapped root alone and refuses IDs outside of the mapping.

**UnpackLayer.** `pc` says where the loop is:

    read -> plnk -> read                          a file below /.wh..wh.plnk
    read -> implied -> apply -> read              whiteout, opaque whiteout
    read -> implied -> apply -> create -> read    any other entry
    read -> times -> cleanup -> done              the end of the archive
    any  -> cleanup -> done                       an error

The variables are those of the function; `base` is a history variable, the tree
when the current entry was read. Entries are abstract: the entry types are
`dir`, `reg`, `sym`, `dev`, `link`, `white` (`.wh.x`, carrying the name it hides),
`opaque`, `meta`, `plnk` and `plink`. `RemovedByOther` removes a subtree at the
points in `RemovedAt`; `Fault` makes any operation fail, with a removal half
done or a file made without its owner and times, and `PlnkFails` one behind `MkdirTemp`.
The deferred `RemoveAll` is `Cleanup`, or some of it (`CleanupPart`) and then a failure
(`CleanupFails`), which only `removeErr` remembers: the code discards it. The walk of an opaque whiteout
is one action, since what it keeps depends on `unpackedPaths` alone
(`Survives`).

**LayerView** knows nothing of `pc`, links into `/.wh..wh.plnk` or temporary
directories: it takes one entry and applies it in one step at the place a chroot
would find, refuses an entry whose path leaves the root by `..`, and after a
failure has at most that entry half applied. `UnpackLayer` implements it under a
refinement mapping that shows `base` while an entry is being worked on
(`AppliesAsLayer`). An opaque whiteout may lose files of this layer that it has
not listed: that is what the code does, see section 4. It may also leave a
directory of the lower layer standing, empty, where this layer named something
below it, because the overlay format does; `LowerHidden` says that `UnpackLayer`
leaves none. The target of a hard link is looked up once what was in the entry's own
place has gone, so an entry that replaces a link on the way to its target fails; and
in a user namespace, where no device is made, one whose place cannot be reached
passes without an error, as `createTarFile` has it.

**Unpack** has the same shape:

    read -> clear -> remap -> implied -> create -> read
                                      -> convert [-> chown] -> read   a whiteout
    read -> times -> done                              the end of the archive
    any  -> done                                       an error

`clear` is the removal of what is there, after the checks of
`NoOverwriteDirNonDir`; unlike `UnpackLayer` it comes before the implied
directories. In the overlay format `convert` is `ConvertRead`: an opaque whiteout
puts the inode of the directory it opened into `opaque`, any other whiteout makes a
device of kind `wh`. The destination is then the upper directory of a mount whose
lower directories are `lower`, and `Mount` is what that mount shows: the
refinement of `LayerView` is of the mount, so converting a layer and applying it
must come to the same (`UnpacksAsLayer`). This holds for layers that hold one entry
for each place, over lower directories without links, and with nothing below a
path that is a file there. Outside of that the two ways differ: a directory that
replaces a whiteout of the same layer shows the lower directory again.

**Pack** gives the header `addTarFile` writes: a second name of an inode in
`SeenFiles` becomes a hard link, the owner is mapped back into the container (or the
file is refused), the time is truncated to seconds. `SeenFiles` is filled in before
the owner is mapped, as in the code.

**Changes** runs in these steps:

    readdir <-> stat -> export <-> body      ChangesDirs, then ExportChanges
    visit -> export <-> body                 Changes, then ExportChanges
    export -> closed        readdir, stat, visit -> failed

`StatName` and `ReadNames` are the two calls of `walker.walk`; `todo` is what its
recursion still has to visit. `info1` and `info2` are the two `FileInfo` trees.
`Compare` is `addChanges` for the whole tree, as sets of paths: `Added`, `Differs`,
`Deleted` (only the topmost path of what is gone) and `Holding` (directories recorded
because of what is in them). `Visit` is one callback of `collectChanges`, over one
lower layer. The list is a set, since `ExportChanges` sorts it first; `Current` is
the first change left. `ExportFile` writes a header, `CopyContents` reads the file
again. When there is less to read than the header says the tar writer takes no
further header (`cut`). `Unlink`, `Rewrite`, `Make` and `Vanish` are the container,
between any two steps. Contents are not modelled: a change of the contents changes
the time, as a comment in `addChanges` also assumes (`changes.go` 269-274).

**LayerRoundTrip** adds the variables of `UnpackLayer` and its actions, on a copy of
the lower tree, with the exported archive as the layer. The reader of a cut archive
fails in its last entry (`IsCut`). `UnpackLayer` numbers the entries it reads and
uses the number for the time; `AppliedTime` looks the time up in the archive.

**Tarballer** has the walk and the writing end of the pipe:

    start -> walk -> add -> header [-> body -> contents] -> walk     one file
    walk -> close -> closing -> ended                                the deferred calls

`todo` is what `filepath.WalkDir` still visits in the current include. `Visit` is one
callback up to `addTarFile`: it leaves out the source directory, brings `parents`
(`parentDirs` and `parentMatchInfo`, kept together) up to date, asks the patterns, and
prunes an excluded directory unless an exclusion lies below it. `AddHeader` and
`AddContents` are the two looks `addTarFile` takes at the file. An error is logged and
the walk goes on; only `ErrClosedPipe` ends it, for this include. `wire` is a `Write`
in progress: `io.Pipe` has no buffer, and without compression nothing else has one, so
a `Write` ends when the reader has taken it or has closed its end. `owed` says that
fewer bytes were written than a header announced; the tar writer then refuses every
further header and the end of the archive. `patternmatcher` is external and modelled by
its contract (the results for a path say which patterns match it or a directory above
it), with `*` as the only wildcard.

**CopyPipe** adds the reader and the writer of `CopyFileWithTar`:

    start -> open -> send -> copy -> copied -> close -> closing -> ended     the writer
    next <-> entry <-> body      next, body -> returned [-> wait] -> done    the reader

The file is open from `OpenFile` on, so removing its name does not matter any more, and
its size is that of the `os.Stat` before. `EndTarUntar` closes the pipe and does not
wait; `CopyFileWithTar` closes it after an error only (`CloseWithError`) and waits for
the writer (`EndCopyFile`). `Untar` is abstract: it takes header, contents and the end,
and fails whenever it likes. `Disturb` is that failure and what other processes do to
the source: `Delete`, `Rewrite` (the file may become shorter or longer) and `Replace`
(by a directory); `logged` has the files `Do` could not add. `TarUntar` passes no options; cases with patterns and names stand for
the callers that join `TarWithOptions` and `Untar` themselves.

**CopyPaths and CopyResource.** A path is the names of its text and what the text ends
with: nothing, `/` or `/.` (`tail`), which is all that `copy.go` tells apart;
`filepath.Clean`, `EvalSymlinks` and `Lstat` are external. `CopyPaths` has an operator
for each function, with its name. `CopyResource` is the call:

    source -> archive -> dest [-> dest ...] -> next <-> place <-> body      the caller
    next, place, body -> returned -> close -> done
    next -> header -> body -> contents -> next      next -> end -> ended    the rebaser

`CopySource` is `CopyInfoSourcePath` (its two looks at the source are one step),
`TarResource` starts `Tarballer`, `FollowLink` is one pass of the loop of
`CopyInfoDestinationPath`, and `CopyTo` decides, with `PrepareArchiveCopy`, whether the
names have to change; then `Rebaser` is a second goroutine with a second pipe
(`rebased`), and the caller reads that one (`Inlet`). `Untar` is abstract as in
`CopyPipe`, but looks at its destination: `Refuses` is `NoOverwriteDirNonDir`. The
variable `denoted` is a history variable: what the two paths denoted, in the tree the
call found, by the kernel's lookup and not by `copy.go`'s.

**CmdStream and ReplaceFile.** The unit is an archive entry. In place, `input` is read
directly; by a command an entry goes

    input -> stdin's goroutine -> inPipe -> child -> outPipe -> stdout's goroutine -> wire

and `waiter` is the goroutine of `cmdStream`, whose `Wait` needs the child and both
goroutines of `os/exec` to have ended. `Close` cancels the command's context and closes
the reading end; `CommandDone` is its wait. `ReplaceFile` is the goroutine between that
stream and its reader: `ReadNext` and `ReadEnd`, `Written` (a `Write` of the tar writer ends),
`Rest` for the modifiers that matched nothing, `Deferred` and `InputClosed`. The trailer
of the archive is an entry of its own: the stream may have it (`whole`) or not, and may end
with `io.EOF` or an error (`inputEnd`). A compressed stream that stops short ends with `io.EOF`
for the goroutine that feeds the child; whether the child takes that for the end is its
business (`Child`, `ChildFails`).

**GoInChroot.** A thread that was unshared (`own`) has a root, working directory and umask
of its own (`fs`), and mounts (`mounts`); all others share `process`. A goroutine that is
wired to no thread may run on any that is not wired (`Fungible`). The steps of the
worker:

    lock -> unshare -> slave -> bind -> mkdir -> pivot -> chdir -> private -> unmount -> cleanup
                                bind, pivot -> [remove ->] chroot -> chdir -> cleanup
    cleanup, any failure -> report -> umask -> work -> exit -> gone      report -> exit

Each is one system call, which may fail. `started` is the channel of `unshare.Go`; what a
mount or unmount does to the namespace of the process is in `spread`. `UnmountDeferred` and
`RemoveDeferred` are the deferred function. `OverrideUmask` and `Restore` are
`archive.ApplyLayer`, on whatever thread it runs on at each of the two moments. The work
itself is one step.

**InChild.** (Its definitions `ChildInit`, `ChildNext` and `ChildSpec` bear a name of their own,
because `ChrootProofs` extends both modules.) The parent writes the options to a pipe whose reading end it holds too, so
that the pipe never breaks; the child reads them, changes its root, and works between
its pipe and the file system. Options and archives are sizes. `copier` is `doPack`'s
goroutine, or that of `os/exec` that feeds the child and may meet an error in what it reads
(`failed`): the child takes the end of its input for the end of the archive, and only
`WaitError` tells. `ChildFails` at any point. What `doUnpackLayer`'s child logs goes to the
buffer of its result, which may then not decode.

## 3. What the runs check

`resolve_path` (154,648 states, 77 trees, five paths of up to five components, one
change of the tree, `MaxLinks` 3):

* `TypeOK`: the result is a path of plain names, at most `MaxLinks` links were
  followed.
* `NoSymlinkLeft`: no prefix of the resolved path is a link.
* `WalkIsResolution`: the stepwise loop computes `Walk`, the operator the other
  modules use for it.
* `EscapeClassified`: `relativeEscapeBeforeAbsolute` tells apart the two ways
  `os.Root` can refuse a path as escaping.
* `ResolvesLikeChroot`: the result is the one of `Chroot`, an independent
  recursive definition of a lookup in a chroot.
* `Terminates`: the loop ends.

`layer_applies` (about 910,000 states, archives of up to three entries out of
seventeen, five lower layers, one removal between entries, any operation failing):

* `AppliesAsLayer`: the refinement of `LayerView`.
* `DirTimesRestored`: a listed directory ends with its header's time. (An entry for the root
  is skipped, so the root has none, and the removal of the temporary directory touches it.)

`layer_races` (about 990,000 states, removal between any two operations, any operation
failing, IDs 0-1 mapped to 10-11):

* `TypeOK`: the tree stays a tree whatever happens.
* `TempDirGone`: the temporary directory is gone after every return, unless its removal
  failed (section 4).
* `LowerHidden`: after an opaque whiteout nothing of a lower layer is left below
  the directory.

`unpack` (about 230,000 states: archives of up to three entries out of twelve
unpacked to two trees with a link, with and without `NoOverwriteDirNonDir`, one
removal between entries; layers of up to three entries out of sixteen unpacked in
the overlay format; any operation failing, IDs 0-1 mapped):

* `TypeOK`: the tree stays a tree.
* `UnpacksAsLayer`: the refinement of `LayerView`.
* `DirsKept`: with `NoOverwriteDirNonDir` no directory is replaced or made in the
  place of something else.
* `DirTimesRestored`: as above.

`round_trip` (about 90,000 states: `ChangesDirs` and `Changes` on every two of some
forty trees, IDs 0-1 mapped to 20-21, a second of ten ticks; two changes by the
container, at any point, for nine pairs):

* `TypeOK`: no path is recorded twice, and the `FileInfo` trees have no gaps.
* `RoundTrip`: the exported changes applied to the lower tree give the container's
  tree; what the container changes meanwhile spoils no other path.
* `LinksKept`: two files of the archive are names of one file afterwards exactly if
  they were.
* `WholeApplies`: an archive that is not cut applies, unless the container replaced a
  directory meanwhile, so that there is an entry below what is no directory.
* `OnlyDirsFail`: the walk of `ChangesDirs` only gives up on a directory that is gone.

`copy_pipe` (about 59,000 states: one tree under 645 combinations of up to three
includes, up to three patterns and new names; `TarUntar` of directories and of a file,
`CopyFileWithTar` of files, of a link to one, of a directory and of nothing, with up to
two failures or changes of the source at any point):

* `TypeOK`: the parents remembered lie each below the one before; only an announced
  file is owed.
* `ArchivesWhatIsAsked`: a copy without an error has what the includes and the patterns
  ask for, judged path by path without a walk, under its name, and once if no two paths
  have one name; a file that goes or changes, or whose owner is not mapped, costs no other
  file, and what the walk came to and could not add was logged. Exclusions (`!dir/file`)
  are plain paths here: `Do` enters an excluded directory only if the text of an exclusion
  begins with the directory's, so one with a `*` brings nothing back below it.
* `WholeOrError`: no error means that everything announced has arrived whole.
* `LinksToReceived`: a hard link names an entry that came before.
* `Finishes`: both goroutines end.

`copy_resource` (about 83,000 states: 17 source and 27 destination texts, with `/`, `/.`,
`.` and `..`, over links to a directory, to a file, to nothing and in a chain, with and
without `followLink`; for some of them up to two failures or changes of the source;
`maxSymlinkIter` 1):

* `PlacedLikeCp`: each file is at the place `cp` would give it, by what the two paths
  denote in the tree; a hard link comes after the file it leads to; what `cp` refuses is
  refused, and nothing else unless something failed.
* `WholeOrError`: no error means that all that was announced came through both pipes.
* `Finishes`: all three goroutines end.

`replace_file` (about 602,000 states: archives of up to three entries of two names, with
and without the trailer, ending with `io.EOF` or an error, every choice of modifiers for
the two names, each of which may replace, drop or fail; in place and by a command,
`Buffer` 1):

* `WholeOrError`: a reader that meets the end has all that the stream held, as the modifiers
  ask for, and what they add; and the stream had its trailer or ended with `io.EOF` between
  two entries (section 4).
* `NothingLeft`: when the rewriter has ended no child and no goroutine is left.
* `Finishes`: closing the result early, or reading it to the end, ends all of them.

`go_in_chroot` (about 164,000 states: three sets of calls made at once, on three threads,
with a root that is a mount point and one that is not, every system call failing or not):

* `TypeOK`: a goroutine has a thread exactly from `LockOSThread` to its end.
* `Isolated`: the rest of the process keeps its root and its mounts.
* `WorksInRoot`: the work happens in the call's root, with the old root out of reach.
* `UmaskKept`: calls of chrootarchive leave the umask of the process alone, and one call of
  `archive.ApplyLayer` restores it.
* `Returns`: every call returns, and its goroutine ends.

`in_child` (about 2,000 states: options of one and four units and archives of none, one
and five over pipes that hold two, a child that fails anywhere, an archive to unpack that
breaks off anywhere, a reader that closes early):

* `WholeOrError`: a success is never a shortened archive.
* `Settles`: the call returns and child and goroutine end, but for the two cases of
  section 4.

This run has `CHECK_DEADLOCK FALSE`: the parent does really stop when the options do not
fit into the pipe and the child fails before it has read them, and so do child and
goroutine when the reader of a packed archive closes it early.

Bounds, and why they are enough. Three entries are what the interesting orders
need: two entries that prepare (a directory and a file in it, a directory and a
link that replaces it, a plnk file and a first link) and one that meets the
result. The lower layers hold one link each, of every class: absolute,
relative, leaving the root, dangling. Lookups on these trees take at most eight
components and two links; a third link hits the limit, which `resolve_path`
also reaches by a cycle. In the code the limit of `resolveFSRootPath` is 255
and `os.Root` has a smaller one of its own; the model has one, and only its being
finite matters to the properties. One removal is enough to fall between any
resolution and its use. The trees of the round trip hold every kind of node at `a`,
files in it and beside it, links to one inode, a link in the place of a directory,
times of one second with and without a fraction, and an owner outside of the mapping;
two changes of the container are what it takes to turn a directory into a file. The
packed tree is three levels deep, so that the walk leaves one directory, enters
another and comes back with match results of each. An exclusion with a wildcard is
left out: `Do` compares the text of an exclusion with the directory's path, so `!*/a`
does not keep it from pruning a directory, and nothing in the repository says that it
should. Two faults are one on each side of the pipe, or a change of a file and one more.
A limit of one link at the destination, 10 in the code, is passed by a chain of three,
with the same off-by-one (`n > maxSymlinkIter`). Two names and three entries give a second
entry of one name and an entry between the two; a pipe of one entry is full after one.
Three calls are one that overlaps with another of either kind, and a third thread is one
to spare. In `in_child` one size fits into the pipe and one does not.

Fairness. `Terminates` needs weak fairness of the loop's own step, a goroutine that
runs; `Finishes`, `Returns` and `Settles` need it of each goroutine and of the child.
In `CopyResource` what the caller does after a look at the file system is fair as
`WF_caller(Decided)`: while files go on changing, any one outcome may be enabled and
disabled again, but the caller makes its call and goes on with one of them. An entry read
to its end comes from a stream that goes on: `input` is never waited for. A `Write` that waits for the reader is
not enabled, so nothing is assumed about it. The environment is never fair. `UnpackLayer` has no
fairness; its properties are safety properties, and so are those of `Unpack`.

## 4. Where the code and its comments disagree

Two runs are expected to fail, each with one property that states what the source says:

* `plnk_remap`, `PlnkLinksApply`. `diff.go` 77-79: the files are kept "so that such
  hardlinks can be resolved". `remapIDs` changes the header they share, and under
  an ID mapping the second link to one file is refused.
* `cleanup_lost`, `CleanupReported`. `switchroot_linux.go` 48-51 makes the error of the
  clean-up the error of a `SwitchRoot` that has no other. But the deferred function
  assigns it to the local variable `err`, and `SwitchRoot`'s result has no name: the
  error is lost, and the directory of `MkdirTemp` stays in the root.

Other divergences that the models show, and that the properties therefore allow:

* Opaque whiteouts: implied directories are not in `unpackedPaths`, so the walk removes
  them with the files of this layer below them (`diff.go` 32-34 and 150); and a path
  through a relative link is recorded as given, not resolved (214-216). `LayerView` lets
  an opaque whiteout lose such files (`Lose`), and no others.
* `ConvertRead` is not passed the options and gives a whiteout device its header's owner
  although `NoLchown` "applies to all ownership changes" (`archive.go` 59-62).
* A file that goes between the reading of its directory and its own `Lstat` ends the walk
  of `Changes`, and the list found so far is returned without an error (`changes.go` 197).
  Below a directory that replaces a file of the lower layer `os.Stat` fails with
  `ENOTDIR`, and `Changes` with it (158). `RoundTrip` leaves both out.
* "If either Tar or Untar fails, TarUntar aborts and returns the error" (`archive.go`
  1273-1274): `Do` logs the error of a file and goes on, and of a source that does not
  exist it makes an empty archive; `TarUntar` returns nil. `ArchivesWhatIsAsked` says
  that what is missing was logged.
* `UnpackLayer` discards the error of the deferred `os.RemoveAll(aufsTempdir)` (`diff.go` 87):
  the call may return without an error and leave the directory, or what is left in it, in
  the destination. `TempDirGone` leaves that case out (`removeErr`), and `AppliesAsLayer` is
  about a view of the tree without that directory.
* `ReplaceFileTarWrapper` and a stream without a trailer: `io.EOF` between two entries is the
  end of the archive (`archive.go` 211-214), so an uncompressed stream that is cut there
  (`compression.go` 117-120) gives a reader a clean end of a shorter archive. What the wrapper
  writes has no trailer either: it closes the pipe before the deferred `tarWriter.Close`.
* `ReplaceFileTarWrapper` removes a modifier once it was used: a second entry of the same
  name is copied as it is. `Rewritten` says so.
* `InChild`: `doPack`'s goroutine closes the reader's own end (`r.Close`), so whoever reads
  the archive gets `ErrClosedPipe` behind its trailer whether the child failed or not, and a
  reader tells the two apart only by the trailer; it shares the variable `err` with its
  caller, which may return that error instead of the reader; a reader that closes early
  leaves the child blocked on its output, and the goroutine waiting for it; and options
  that do not fit into the pipe block the parent when the child fails first, because the
  parent holds the reading end open.

## 5. What is proved

The assumptions are those the modules name: `RootFsAssumption` (names are neither
`.` nor `..`, the limits are numbers), `ResolvePathAssumption`, `ExtractAssumption`
(options and IDs have their types), `UnpackAssumption` (trees made by no entry of this
archive, in which a directory has one name: no file system links directories), `UnpackLayerAssumption` (likewise
for the lower layers; only an opaque whiteout's name ends in the marker; the name `MkdirTemp`
picks is random, so nothing else has it: no entry, no file of a lower layer and no link's
target), `ThreadsAssumption` (the process began with one of its threads;
the root a call is given is not the host's; the umask is not 0), `InChildAssumption` and
`CmdStreamAssumption` (sizes are numbers, a pipe of the kernel holds something),
`ReplaceFileAssumption` (a number), and `CopyAssumption` (a source has finitely many paths,
and the names of one inode in it are names of one file, of one kind and owner;
`CopyFileWithTar` reads no device; `IncludeSourceDir` comes with a directory, one include
and no patterns, as `TarResourceRebaseOpts` passes it). TLC
evaluates all of them in the runs. Three theorems have a hypothesis of their own.
`ResolutionIsWalk` has `StepsSuffice`: `MaxSteps` bounds the recursion of `Walk`, which the
code does not have, and is to be large enough for the path, the links that may be followed and
the longest of their targets. `LayerIsApplied` has `BetweenEntries`: of the points at which
other processes may remove files (`RemovedAt`), none is inside an entry. That is what the run
`layer_applies` checks, with removals between entries and any operation failing. What is removed while an
entry is half applied is no step of `LayerView`, which sees that entry applied at once; what holds then too is
`layer_races` and the other theorems about `UnpackLayer`, which do without the hypothesis. `PlainUnpacks`
has `PlainCall`: the call converts no whiteouts and the destination is no directory of an overlay, neither
with lower directories nor with whiteouts in it, as in the calls of the run `unpack` without a converter. Names, trees, archives, bounds and options, and the
calls, threads and roots of `GoInChroot`, are otherwise arbitrary.

| Theorem | Says |
|---|---|
| `ResolvePathProofs!TypeCorrect` | `Spec => []TypeOK`: whatever changes meanwhile, the result is a path of plain names, and at most `MaxLinks` links are followed |
| `ResolvePathProofs!ResolvedHasNoLink` | `Spec => []NoSymlinkLeft`: on a tree nobody changes, no prefix of the result is a link |
| `ResolvePathProofs!EscapesAreClassified` | `Spec => []EscapeClassified`: on a tree nobody changes, what `resolveFSRootPath` notes of an escape is what `os.Root` finds of it |
| `ResolvePathProofs!ResolutionIsWalk` | `Spec => []WalkIsResolution`: on such a tree the loop and `Walk` have the same outcome, if `MaxSteps` is enough for the path and the trees (`StepsSuffice`) |
| `TreeProofs!WalkType` | every lookup gives a path of plain names; `os.Root`'s ends at a node of the tree |
| `TreeProofs!CreateType` | `createTarFile` keeps a tree a tree, and what it changes has the entry as its author |
| `UnpackLayerProofs!TypeCorrect` | `Spec => []TypeOK`: the tree below `dest` stays a tree, whatever other processes remove and whichever operation fails |
| `UnpackLayerProofs!OpaqueHidesLower` | `Spec => LowerHidden`: an opaque whiteout leaves no file of a lower layer below its directory |
| `UnpackLayerProofs!TempDirIsGone` | `Spec => []TempDirGone`: on every way out, after a failure too, the temporary directory is gone, unless what failed is its own removal |
| `UnpackLayerProofs!TimesAreRestored` | `Spec => []DirTimesRestored`: as in `Unpack`, below, although the temporary directory is removed behind the last restore |
| `UnpackLayerProofs!LayerIsApplied` | `Spec => AppliesAsLayer`: `UnpackLayer` implements `LayerView`, whatever links the layers have and whichever operation fails, if others remove files only between entries |
| `UnpackProofs!TypeCorrect` | `Spec => []TypeOK`, likewise for `Unpack` |
| `UnpackProofs!DirsAreKept` | `Spec => []DirsKept`: with `NoOverwriteDirNonDir` a directory stays one and nothing else becomes one, whatever links the entries' paths go through |
| `UnpackProofs!TimesAreRestored` | `Spec => []DirTimesRestored`: when the call succeeds each listed directory that no other listed name leads to has its header's time, whatever links lead to it |
| `UnpackProofs!PlainUnpacks` | `PlainCall /\ Spec => UnpacksAsLayer`: `Unpack` without a converter implements `LayerView` too, whatever links the tree and the entries make, whatever others remove between entries and whichever operation fails |
| `CopyPipeProofs!CopiesAreWhole` | `Spec => []WholeOrError`: a copy without an error has all its writer announced, however the two goroutines, failures and changes of the source interleave |
| `CopyPipeProofs!LinksGoToReceived` | `Spec => []LinksToReceived`: a hard link that arrives names a file that arrived before it |
| `CopyPipeProofs!TypeCorrect` | `Spec => []TypeOK`: whatever the walk visits and whatever goes meanwhile, the parents whose match results are kept lie each below the one before |
| `CopyPipeProofs!AskedIsArchived` | `Spec => []ArchivesWhatIsAsked`: what is archived is what the includes and patterns ask for, under its name, for every tree, include, pattern, rebasing and number of changes |
| `CopyResourceProofs!CopiesAreWhole` | `Spec => []WholeOrError`: a copy that `CopyResource` reports as done has received all that was announced, through both pipes and behind the renaming |
| `ChrootProofs!TypeCorrect` | `Spec => []TypeOK` of `GoInChroot`, for any number of calls and threads |
| `ChrootProofs!ProcessIsolated` | `Spec => []Isolated`: nothing a call does, and no failure in it, reaches the root or the mounts of the rest of the process |
| `ChrootProofs!WorkIsInRoot` | `Spec => []WorksInRoot`: work is done in the call's own root, by a thread no other call has, the old root out of reach |
| `ChrootProofs!UmaskIsKept` | `Spec => []UmaskKept` |
| `ChrootProofs!WholeOrErrorHolds` | `ChildSpec => []WholeOrError` of `InChild`, for pipes, options and archives of any size |
| `ReplaceFileProofs!NothingIsLeft` | `Spec => []NothingLeft`: no child and no goroutine outlives the rewriter, whenever its reader closes |
| `ReplaceFileProofs!RewritesWhole` | `Spec => []WholeOrError`: a reader that meets the end of the result has all the stream held, changed as the modifiers say, and what they add; an error of the stream before its trailer, of the child or of a modifier is an error, and a stream without a trailer is taken as whole only if `io.EOF` ends it between two entries |

`ResolvePath`: `TypeOK` is inductive. `NoSymlinkLeft` is inductive beside it: `Enter`
appends a component that was seen not to be a link, `GoUp` takes a prefix, an
absolute link empties the path, and nothing else touches it. `EscapeClassified` and
`WalkIsResolution` compare the loop, on a tree nobody changes, with a lookup that is
defined as a recursive function. `Beside` says that what the loop holds, what is left and
how many links it has followed, is a state the lookup goes through after some number of its
steps; it is stated for the lookup that stays below the root and for `os.Root`'s, which
errs where the first does not. Each turn of the loop is one of their steps (`StageNext`),
and a lookup with nothing left returns the state it is in (`StageLast`).

`UnpackLayer`: `LowerHidden` is not about one step alone. The walk keeps what
`unpackedPaths` holds, so the theorem needs that a recorded path which still
exists was written by this layer, although other processes remove files, later
entries replace them, and a path may be recorded unresolved. The inductive
invariant is `IInv`:

* `TypeOK`;
* `Written`: a recorded path that exists has an author in this layer;
* `Cleared`: when `createTarFile` runs for an entry that is not a directory, its
  path is free, so what is found there afterwards is what the entry wrote;
* `Dispatched`: which entry types reach which part of the loop.

A directory entry may find its path taken; then `os.Root` acts on that very path
(`LocateType`) and the directory is marked (`Made`). Each action then changes the
tree only in ways `Extracted` allows: it stays a tree, and a node either keeps
its author or has the current entry as its author. `TreeKept` and `KeptParent`
show that the walk of an opaque whiteout never removes the parent of what it
keeps.

`Unpack`: `DirsKept` could fail where an entry's path, or one of its parents, is replaced
by something else. `Kept` is inductive beside `TypeOK` and says, for each place of the loop, what of the tree before the
entry is still there. The path an entry acts on is resolved, so goes through no link; only
something that is no directory is removed from it, and then its parent is there, so that no
directory is made on the way.

`DirTimesRestored` is about names and inodes: the loop at the end calls `chtimes` on names,
which may go through links, and the time lies on an inode, which other names may share. The
inductive `TimesInv` has three parts beside `IInv`:

* `Numbered`: a directory has an inode of its own. What an entry makes has the entry's
  number and its depth, and the tree has no such inode yet;
* `Direct`: the directories made on the way to an entry lie on a path without links, each below
  the one before, so at different depths;
* `Restored`: the times set so far are the headers'. `chtimes` changes no kind and no link, so
  every name still leads where it led (`WalkAlike`), and the only other names of what it
  touches are none (`Numbered`).

`UnpackLayer` keeps the same three, and has one directory more. `TempDirGone` says that nobody
but the call makes it; an entry of that name, or one whose path a link leads there, could make it
before the call does or after the call has removed it. `Apart` is inductive beside `IInv`: no record, no link on disk (`TreeApart`) and nothing the current entry is about to use
(`NamesApart`) has the directory's name, so no lookup meets it (`WalkWithin`, `JoinsWithin`), and it
exists only from the time `aufsTempdir` says so until the removal ends without an error. That removal is
`Cleanup`, in one step, or `CleanupPart`, which takes anything below the directory, any number of times, or
`CleanupFails`; the three keep the invariants for the same reasons (`Removing`). `DirTimesRestored` needs that twice: an entry never
acts below the directory, and when it is removed behind the last restore every listed name
still leads where it led (`WalkElsewhere`), so that only the root's time changes.

`LayerIsApplied` maps each step of the loop to a step of `LayerView` or a stutter. The mapping shows
`base`, the tree in which the header was read, until the entry is done, less what lies in
the temporary directory (`Visible`). Three of the invariants above are needed (`IInv`, `Apart`, `TimesInv`), and a fourth,
`ViewInv`, which follows the tree from `base` on:

* `Going`: nothing has failed before the cleanup;
* `FromBase`: the path at hand is the one the entry's name resolved to in `base`, so that the code's
  place is the one `LayerView` finds in the view (`PlaceKnown`);
* `WayMade`: so far only directories on the way to that place were made (`OnlyWay`), and the
  first `k - 1` of them are there;
* `Ready`: before the entry is written its place is free (`MadeRoom`), or it is a directory
  that stays one.

Lemmas of `TreeProofs` say what each call of `Extract` does to how a tree looks, without times and
owners (`SeenPut`, `SeenCut`, `SeenStamp`, `CreatedSeen`); from those and `ViewInv` an entry that is done is put or
removed as `LayerView` says (`PutAs`, `LowerHiddenAs`), and one that fails has changed nothing outside its place
(`HalfApplied`). The lookup of a path must be the same in the tree and in the view, although
the view lacks the temporary directory (`DirSeen`, `ReachesSeen` and `Apart`), and the same after the place is
cleared, except where the hard link's target itself has gone (`WalkShrunk`).

The proof found two things in the model. `HalfRemoved` let an opaque whiteout that could not resolve its
directory lose files all the same; it now asks that the walk of the directory has succeeded. And
`LayerView`'s `Replace` is written as one function, since the prover has no theory of `@@`.

`PlainUnpacks` is the same refinement for `Unpack`, whose calls on the file system are the same, so the lemmas
of `TreeProofs` serve both: they speak of a tree less what lies below some path (`ViewLess`), which
is the temporary directory for `UnpackLayer` and a path no tree has for `Unpack` (`Nowhere`, `AllSpared`). `PlainInv`
keeps the call plain: no whiteout appears on disk, nothing is converted, and the name of an entry is a
path of plain names; hence the mount shows the destination itself (`MountIs`). `ViewInv` follows the tree
from `base` as above, with `AtPlace` for `Ready`, since `Unpack` clears the place before it makes the
parents and `UnpackLayer` after. A plain directory entry whose place is a directory keeps it, and then only the way to it
has been made (`OnlyWay`); any other entry has its place cleared first, so that every directory made later lies on the way
to a free place (`RoomMade`). No hypothesis on
removals is needed: `RemovedByOther` acts only between entries.

`CopyPipe`: a copy without an error says something of both ends of the pipe, which meet only
on the wire. `IInv` has a part for each thing they have to know of each other:

* `WireInv`: a message is on the wire only while its writer waits for it to be read;
* `SyncInv`: the reader has met what was written, save the header on the wire;
* `PendingInv`: while the reader waits for a header nothing of the entry before it is pending
  (`Pending`: contents on the wire, about to be, or owed because the file could not be read);
* `WholeInv`, `ResultInv`: what the reader and the caller conclude from that;
* `SourceInv`: what changes of the source leave, kinds, inodes and owners;
* `LinkInv`: a name that `SeenFiles` holds is that of an entry written, unless its owner
  could not be mapped, it is still owed or the pipe is closed.

What is archived depends on the walk, which goes by what it remembers: a stack of parents with
the results of their patterns, and a queue of items. `TypedInv` adds to `IInv`

* `SourceKept`: nothing appears in the source, and what no change has touched is what it was;
* `WalkInv`: the parents lie each below the one before and have the results of every pattern
  (`Stacked`), and the items lie behind each other as a walk comes to them, each with its
  parent remembered (`Queued`); so the result computed for a path from its parent's is the
  one all patterns give it (`InfoIsRight`), although `Popped` forgets parents;
* `EntryInv` and `FlagInv`: the types of what is added and of the flags.

`AskInv` is the account of the walk. Unless the file to copy was lost before it began (`Lost`),
and while nothing keeps the copy from success (`Clean`),

* `RouteInv` and `ItemInv`: the includes are taken one after the other, and below an item
  that is no directory there is nothing;
* `CoverInv`: a path that is there, and that an include up to the present one asks for, is seen
  or lies below an item still to visit; what `Do` prunes has nothing in it that is asked for
  (`PrunedIsExcluded`, which needs exclusions that are plain), and the names that are read in a
  directory cover it (`ReadAll`);
* `EarlierInv`: what an earlier include asks for has been seen when the walk comes to it
  again, so that a path has the name its first include gives it (`FirstToAsk`);
* `SeenInv` and `NameInv`: what is seen was asked for, and has been added under its name, is
  being added, or is logged and was touched or has an owner without a number.

At the end nothing is left to visit, and `CoverInv` and `NameInv` are what
`ArchivesWhatIsAsked` says. The proof found four things. With a `*` in an exclusion the
property did not hold, nor with an owner outside the mapping, nor its "once" if two paths are
rebased to one name; the property now says so. And `Sorted` gave its order through an operator
of TLC's that has no definition a prover could use; it now puts each path at the place that the
number of paths before it gives it.

`CopyResource`: the goroutine of `RebaseArchiveEntries` reads one pipe and writes the other, so
that what `CopyPipe`'s invariant says of one pipe is said twice here, as `InStep`: its writer
owes contents for the last header it wrote, or does not; its reader awaits them, or does not;
and what lies in the pipe is the difference. `RebaserOwes` is both, the reader of the first pipe
and the writer of the second. `Counted` adds up the headers that were received and those in
the pipes, `AtEnd` says that the goroutine ends without an error only behind the Tarballer's
last entry. An end met where contents are awaited is then an error, and one met elsewhere finds
nothing owed. A pipe broken before its end is left out of `StreamInv`: all that can follow is an
error.

`GoInChroot`: that the work is in its root depends on what every step before it left
behind, on either way through `SwitchRoot`, and that the process is isolated depends on
where every thread is. The inductive invariant `IInv` has a part for the process and one
for each call:

* `CallsOK`, `GoroutinesOK`, `KernelOK`: the types;
* `Untouched`: the process's root and mounts are as they were, and a thread that is unshared
  is some call's and not the first; `Masks`: unless plain calls overlapped, at most one is
  applying its layer, and it found the process's own umask;
* `Local(c)` for every call: `Protocol` (where caller, worker and channel can be at the
  same time), `Wired` (the thread is its own, not the first, and unshared once `Unshare`
  has succeeded) and `Switched` (how far the root is switched at each step, and what the
  deferred function still has to undo).

A step of one call changes the thread of that call only; `FrameKeeps` says that it keeps
`Local` of every other call, so that each action has one lemma about its own call
(`PivotRootKeeps`, ...). `Masks` needs that a call of chrootarchive sets the umask of an
unshared thread, which is `Wired`.

`InChild`: that a reader who meets the end has everything is a matter of where the
archive is. `Conserved` adds up what the child has not written, what lies in its pipe, what
the goroutine is writing and what the reader has: until the reader closes, this is the
archive. `Copied` says that the goroutine waits for the child only behind the end of its
output, and that a closed end was closed by the one or by the other; `Fed` says of a child
that unpacks that it ended well behind the end of its input, which is that of the archive
unless the feeder met an error. Together with the types they are inductive.

`ReplaceFile`: a command that was not started has nothing that runs (`NotStarted`), one
that was waited for has nothing that runs any more (`WaitedFor`), and the rewriter does not
end between the two (`Behind`). All it does between its start and its end leaves the
command alone (`BetweenSteps`).

For `WholeOrError` the pieces of the archive are followed through the command. `StreamInv(k)`
says that behind the first `k` entries, which the rewriter has taken, the others lie in their
order on the wire, in the child's output, in its input, with the goroutine that feeds it and
in what has not been read (`Span`), up to the end of what the stream holds (`Held`); a child that has failed
may have lost some. `PipeInv` says what an end without an error means: the child has exited
with success, everything before it is empty and the stream was read to its `io.EOF`. So such an
end is only met behind the last entry (`EndIsEnd`), and the rewriter goes on from the trailer or
from the stream's own end (`EndInv`). `Progress(k)` is the rewriter's own account: what
it sent is what the first `k` entries become (`Copying`), and behind the last all of the
archive and an entry for each modifier used since (`Adding`). What a sequence of sequences
flattens to is a recursion; `FlattensOnce` shows that the function it chooses exists, and
`FlatSteps` that it grows by one piece at a time.

`Walk` is a recursive function, so `WalkDefined` first shows that the function its
definition chooses exists for every bound, from `SetInduction` (an induction over
sets of numbers that follows from their being well-founded), and `WalkType`
follows by the same induction.

Only model-checked:

* `Terminates`, `Finishes`, `Returns` and `Settles`: liveness is beyond the prover.
* `ResolvesLikeChroot`, which compares with a `RECURSIVE` operator.
* The properties of `LayerRoundTrip`: what the walks of `Changes` find in two trees of any
  depth is an induction over them.
* `UnpacksAsLayer` for the calls that `PlainUnpacks` leaves out, those that convert whiteouts to the
  overlay format: there the view is a mount of two trees, and each lookup in the upper one would have to
  be compared with a lookup in the mount. The run `unpack` compares them on
  layers of up to three entries.
* `PlacedLikeCp` of `CopyResource`, which compares the two lookups of `copy.go`, through the
  texts of links, with what the paths denote.

## 6. Not modelled

* File contents, modes, xattrs, access times and sizes: no property speaks of them.
* The Windows build: thin wrappers over other calls. `os.Root`, `os/exec`, `io.Pipe`, the
  kernel, the Go runtime and `moby/sys` are external.
* Inside `createTarFile` the calls on one entry are one action (a failure among them is
  `Fault` or `PlnkFails`): they act on a name this call has just made.
* Entry names that are not clean paths are rejected or skipped before anything happens
  (`diff.go` 60-66) and do not occur in the model.
* `ConvertWrite`, the way of the overlay format into an archive, and `ChownOpts`.
* Compression: the codecs, detection by magic number and the pooled buffers. `CompressStream`
  has no state of this code's own.
* Namespaces that can be given back (`unshare.Go`'s reversible flags): the package never
  asks for them.
* `resolvePathInChroot` and the other conversions of text around chrootarchive, and the
  making of a root that does not exist.
* Copies: a directory into itself, the root of the file system as a source or a destination,
  and a relative link target behind a directory that is itself a link, which
  `CopyInfoDestinationPath` joins to the text of the path. `EvalSymlinks` and the `Lstat`
  after it are one step, and the destination is not changed by others meanwhile. `CopyFileWithTar`
  of a device.

## 7. Plan

1. Packing: `ConvertWrite` and its whiteouts in `Tarballer`; the upper directory of an
   overlay mount, packed and applied as a layer, gives the mount.
2. More proofs: `UnpacksAsLayer` with the converter, where a lookup in the upper directory is to be
   compared with one in the mount.

The modules above keep their runs.
