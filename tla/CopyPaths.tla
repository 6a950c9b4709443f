------------------------------ MODULE CopyPaths ------------------------------
(***************************************************************************)
(* How copy.go decides from the texts of two paths what is copied, where   *)
(* to, and under which name: as cp does, it tells "d", "d/" and "d/."      *)
(* apart.  A path is the names of its text and what the text ends with.    *)
(***************************************************************************)
EXTENDS RootFs

Path(dirs, tail) == [dirs |-> dirs, tail |-> tail]

assertsDirectory(path) == path.tail # "plain"
specifiesCurrentDir(path) == path.tail = "dot"

\* filepath.Clean of an absolute path looks at no file.
Clean(parts) ==
    LET Step(done, part) == CASE part = Dot -> done
                              [] part = Up -> IF done = << >> THEN done ELSE Front(done)
                              [] OTHER -> Append(done, part)
    IN  FoldLeft(Step, << >>, parts)

\* The text given is a sequence of parts, and whether a separator follows.
PreserveTrailingDotOrSeparator(text) ==
    Path(Clean(text.parts), IF Last(text.parts) = Dot THEN "dot"
                            ELSE IF text.separator THEN "slash" ELSE "plain")

\* The base "." is written << >>.
SplitPathDirEntry(path) ==
    LET cleaned == Clean(path.dirs)
    IN  IF specifiesCurrentDir(path) THEN [dir |-> cleaned, base |-> << >>]
        ELSE [dir |-> Front(cleaned), base |-> <<Last(cleaned)>>]

\* What a system call finds; a path that asserts a directory is followed.
Found(tree, path, follow) ==
    LET w == Walk(tree, path.dirs, TRUE, follow \/ assertsDirectory(path))
    IN  IF w.err # "ok" THEN At(w.err, << >>)
        ELSE IF ~Exists(tree, w.at) THEN At("notexist", << >>)
        ELSE IF assertsDirectory(path) /\ ~IsDir(tree, w.at) THEN At("notdir", << >>)
        ELSE At("ok", w.at)

EvalSymlinks(tree, path) == Found(tree, path, TRUE)

(***************************************************************************)
(* The source.  Its rebase name, if any, is the name that was asked for.   *)
(***************************************************************************)
\* The links that count are those before the last separator, or all of them.
ResolvesAll(path, followLink) == followLink \/ assertsDirectory(path)
ResolvedPart(path, followLink) ==
    IF followLink THEN path
    ELSE IF assertsDirectory(path) THEN Path(path.dirs, "slash")
    ELSE Path(Front(path.dirs), "slash")

KeepsName(path, resolved) == << >>
RebaseName(path, resolved) ==
    IF specifiesCurrentDir(path) \/ Last(resolved) = Last(path.dirs) THEN << >>
    ELSE <<Last(path.dirs)>>

ResolveHostSourcePath(tree, path, followLink) ==
    LET found == EvalSymlinks(tree, ResolvedPart(path, followLink))
        resolved == IF ResolvesAll(path, followLink) THEN found.at
                    ELSE Append(found.at, Last(path.dirs))
    IN  IF found.err # "ok" THEN [err |-> found.err]
        ELSE [err |-> "ok", path |-> Path(resolved, path.tail),
              RebaseName |-> RebaseName(path, resolved)]

CopyInfoSourcePath(tree, path, followLink) ==
    LET source == ResolveHostSourcePath(tree, path, followLink)
        found == Found(tree, source.path, FALSE)
    IN  IF source.err # "ok" THEN source
        ELSE IF found.err # "ok" THEN [err |-> found.err]
        ELSE [err |-> "ok", Path |-> source.path, IsDir |-> IsDir(tree, found.at),
              RebaseName |-> source.RebaseName]

TarResourceRebaseOpts(base, rebaseName) ==
    [IncludeFiles |-> <<base>>, IncludeSourceDir |-> TRUE, ExcludePatterns |-> << >>,
     RebaseNames |-> IF rebaseName = << >> THEN << >>
                     ELSE [from \in {base} |-> rebaseName]]

(***************************************************************************)
(* The destination.  Its last component is followed through the texts of   *)
(* the links, and a link may lead to nothing.                              *)
(***************************************************************************)
IsLink(tree, path) ==
    LET found == Found(tree, path, FALSE)
    IN  found.err = "ok" /\ tree[found.at].kind = "sym"

\* A relative target is joined to the text before the link, and cleaned.
LinkTarget(tree, path) ==
    LET link == tree[Found(tree, path, FALSE).at].link
    IN  IF link.abs THEN Path(link.to, "plain")
        ELSE Path(Clean(SplitPathDirEntry(path).dir \o link.to), "plain")

\* What the path is once it is no link; it need not exist if its directory does.
DestinationInfo(tree, path) ==
    LET found == Found(tree, path, FALSE)
        parent == Found(tree, Path(SplitPathDirEntry(path).dir, "plain"), TRUE)
    IN  IF found.err = "ok"
        THEN [err |-> "ok", Path |-> path, Exists |-> TRUE, IsDir |-> IsDir(tree, found.at)]
        ELSE IF found.err # "notexist" THEN [err |-> found.err]
        ELSE IF parent.err # "ok" THEN [err |-> parent.err]
        ELSE IF ~IsDir(tree, parent.at) THEN [err |-> "ErrNotDirectory"]
        ELSE [err |-> "ok", Path |-> path, Exists |-> FALSE, IsDir |-> FALSE]

(***************************************************************************)
(* PrepareArchiveCopy: the directory to extract to, and the base names to  *)
(* exchange in the archive, if any.                                        *)
(***************************************************************************)
NoRebase == [old |-> << >>, new |-> << >>]

SourceBase(srcInfo) ==
    IF srcInfo.RebaseName # << >> THEN srcInfo.RebaseName
    ELSE SplitPathDirEntry(srcInfo.Path).base

PrepareArchiveCopy(srcInfo, dstInfo) ==
    LET split == SplitPathDirEntry(dstInfo.Path)
    IN  IF dstInfo.Exists /\ dstInfo.IsDir
        THEN [err |-> "ok", dstDir |-> dstInfo.Path.dirs, rebase |-> NoRebase]
        ELSE IF dstInfo.Exists /\ srcInfo.IsDir THEN [err |-> "ErrCannotCopyDir"]
        ELSE IF ~srcInfo.IsDir /\ ~dstInfo.Exists /\ assertsDirectory(dstInfo.Path)
        THEN [err |-> "ErrDirNotExists"]
        ELSE [err |-> "ok", dstDir |-> split.dir,
              rebase |-> [old |-> SourceBase(srcInfo), new |-> split.base]]

\* newNameRebaser.  The names of an archive of "." begin with "./".
Rebases(rebase, name) ==
    IF Under(rebase.old, name)
    THEN rebase.new \o SubSeq(name, Len(rebase.old) + 1, Len(name))
    ELSE name
=============================================================================
