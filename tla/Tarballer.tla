----------------------------- MODULE Tarballer -----------------------------
(***************************************************************************)
(* Tarballer.Do (archive.go): the goroutine that archives a directory into *)
(* one end of an io.Pipe.  It walks each included path, leaves out what    *)
(* the exclude patterns match, and adds the rest one file at a time; the   *)
(* files may change meanwhile.  A Write to the pipe lasts until the other  *)
(* end has read it or has been closed.                                     *)
(***************************************************************************)
EXTENDS Pack

VARIABLES src,        \* the file system the source lies in
          options,    \* TarOptions
          srcPath,
          at,         \* where the goroutine is
          unwalked,   \* the includes not come to
          include,
          todo,       \* what filepath.WalkDir has to visit
          parents,    \* parentDirs and parentMatchInfo
          seen,
          adding,     \* the path and the name given to addTarFile
          SeenFiles,
          sent,       \* the node as it was when its header was made
          owed,       \* the tar writer misses contents it has announced
          written,    \* the headers written
          logged,     \* the paths an error was logged for
          wire,       \* what is being written to the pipe
          wclosed, rclosed

walk   == <<unwalked, include, todo, parents, seen>>
entry  == <<adding, SeenFiles, sent, owed, written, logged>>
pipe   == <<wire, wclosed, rclosed>>
writer == <<options, srcPath, at, walk, entry>>

NoNode == Node("dir", NoLink, <<0, 0>>, 0, 0, 0)

DoInit ==
    /\ unwalked = << >> /\ include = << >> /\ todo = << >>
    /\ parents = << >> /\ seen = {}
    /\ adding = [path |-> << >>, name |-> << >>]
    /\ SeenFiles = << >> /\ sent = NoNode /\ owed = FALSE
    /\ written = << >> /\ logged = {}
    /\ wire = << >> /\ wclosed = FALSE /\ rclosed = FALSE

Source(rel) == srcPath \o rel

(***************************************************************************)
(* github.com/moby/patternmatcher.  A pattern is a path in which "*" is    *)
(* any one name; it matches a path or one above it.  The last pattern that *)
(* matches decides, and one that begins with "!" is an exclusion.  The     *)
(* results for a directory save testing the paths above for what is in it; *)
(* without them (<< >>) they are tested.                                   *)
(***************************************************************************)
Patterns == options.ExcludePatterns

Fits(pattern, p) ==
    /\ Len(pattern.path) = Len(p)
    /\ \A i \in 1..Len(p) : pattern.path[i] \in {"*", p[i]}

FitsAbove(pattern, p) == \E k \in 1..Len(p)-1 : Fits(pattern, SubSeq(p, 1, k))

MatchesUsingParentResults(p, parent) ==
    [i \in 1..Len(Patterns) |->
        \/ Fits(Patterns[i], p)
        \/ IF parent = << >> THEN FitsAbove(Patterns[i], p) ELSE parent[i]]

Matched(info) ==
    \E i \in 1..Len(info) : /\ info[i] /\ ~Patterns[i].exclusion
                            /\ \A j \in i+1..Len(info) : ~info[j]

(***************************************************************************)
(* The walk of one include.  An item to visit is a path relative to the    *)
(* source directory, whether it was a directory when its name was read,    *)
(* and whether it is to be read itself.                                    *)
(***************************************************************************)
Item(rel) == [path |-> rel, dir |-> IsDir(src, Source(rel)), read |-> FALSE]
Here == Head(todo)

Start ==
    /\ at = "start"
    /\ IF ~Exists(src, srcPath) THEN at' = "close" /\ UNCHANGED <<srcPath, unwalked>>
       ELSE /\ at' = "walk"
            /\ IF IsDir(src, srcPath)
               THEN /\ UNCHANGED srcPath
                    /\ unwalked' = IF options.IncludeFiles = << >> THEN << << >> >>
                                   ELSE options.IncludeFiles
               ELSE /\ srcPath' = Front(srcPath)
                    /\ unwalked' = << <<Last(srcPath)>> >>
    /\ UNCHANGED <<src, options, include, todo, parents, seen, entry, pipe>>

NextInclude ==
    /\ at = "walk" /\ todo = << >> /\ unwalked # << >>
    /\ include' = Head(unwalked) /\ unwalked' = Tail(unwalked)
    /\ parents' = << >>
    /\ todo' = IF Exists(src, Source(include')) THEN <<Item(include')>> ELSE << >>
    /\ UNCHANGED <<src, options, srcPath, at, seen, entry, pipe>>

NeverPopped(stack, rel) == stack
Popped(stack, rel) ==
    LET above == {i \in 1..Len(stack) : Below(stack[i].dir, rel)}
    IN  SubSeq(stack, 1, Max(above \union {0}))

InfoFor(rel) ==
    LET stack == Popped(parents, rel)
    IN  MatchesUsingParentResults(rel, IF stack = << >> THEN << >> ELSE Last(stack).info)

\* An include asks for its own path, whatever the patterns say.
Skips(rel) == rel # include /\ Matched(InfoFor(rel))

ParentsAfter(item) ==
    IF item.path = include THEN parents
    ELSE Popped(parents, item.path) \o
         (IF item.dir THEN <<[dir |-> item.path, info |-> InfoFor(item.path)]>> ELSE << >>)

\* An excluded directory is walked all the same if an exclusion lies below it.
NeverReincludes(dir) == FALSE
MayReinclude(dir) ==
    \E i \in 1..Len(Patterns) : Patterns[i].exclusion /\ Under(dir, Patterns[i].path)

Entered == IF Here.dir THEN <<[Here EXCEPT !.read = TRUE]>> \o Tail(todo) ELSE Tail(todo)

SkipsSourceDir == Here.path = << >> /\ Here.dir /\ ~options.IncludeSourceDir

\* The include is replaced at the beginning of the name; "/" stands for no name.
Rebased(from, rel) ==
    IF from \in DOMAIN options.RebaseNames
    THEN options.RebaseNames[from] \o SubSeq(rel, Len(from) + 1, Len(rel))
    ELSE rel

Visit ==
    /\ at = "walk" /\ todo # << >> /\ ~Here.read
    /\ LET rel == Here.path
           adds == ~SkipsSourceDir /\ ~Skips(rel) /\ rel \notin seen
           prunes == ~SkipsSourceDir /\ Skips(rel) /\ Here.dir /\ ~MayReinclude(rel)
       IN  /\ parents' = IF SkipsSourceDir THEN parents ELSE ParentsAfter(Here)
           /\ todo' = IF prunes THEN Tail(todo) ELSE Entered
           /\ IF adds THEN /\ seen' = seen \union {rel}
                           /\ adding' = [path |-> rel, name |-> Rebased(include, rel)]
                           /\ at' = "add"
              ELSE UNCHANGED <<seen, adding, at>>
    /\ UNCHANGED <<src, options, srcPath, unwalked, include, SeenFiles, sent, owed,
                   written, logged, pipe>>

ReadNames ==
    /\ at = "walk" /\ todo # << >> /\ Here.read
    /\ LET dir == Source(Here.path)
           names == IF IsDir(src, dir) THEN Sorted(NamesIn(src, dir)) ELSE << >>
       IN  todo' = [i \in 1..Len(names) |-> Item(Append(Here.path, Last(names[i])))]
                   \o Tail(todo)
    /\ UNCHANGED <<src, options, srcPath, at, unwalked, include, parents, seen, entry, pipe>>

Walked ==
    /\ at = "walk" /\ todo = << >> /\ unwalked = << >>
    /\ at' = "close"
    /\ UNCHANGED <<src, options, srcPath, walk, entry, pipe>>

(***************************************************************************)
(* addTarFile.  An error is logged and the walk goes on, except that a     *)
(* closed pipe ends the walk of this include.  While contents are owed the *)
(* tar writer refuses every other header.                                  *)
(***************************************************************************)
Log == logged' = logged \union {adding.path}
StopsWalk == at' = "walk" /\ todo' = << >> /\ Log

Writes(message) == wire' = <<message>> /\ UNCHANGED <<wclosed, rclosed>>
WriteDone   == wire = << >>
WriteBroken == wire # << >> /\ rclosed

AddHeader ==
    /\ at = "add"
    /\ LET packed == Packed(src, Source(adding.path), adding.name, SeenFiles)
       IN  /\ SeenFiles' = packed.seen
           /\ IF packed.err # "ok" \/ owed
              THEN Log /\ at' = "walk" /\ UNCHANGED <<todo, sent, written, pipe>>
              ELSE IF rclosed THEN StopsWalk /\ UNCHANGED <<sent, written, pipe>>
              ELSE /\ Writes([what |-> "header", hdr |-> packed.hdr])
                   /\ written' = Append(written, packed.hdr)
                   /\ sent' = src[Source(adding.path)]
                   /\ at' = "header"
                   /\ UNCHANGED <<todo, logged>>
    /\ UNCHANGED <<src, options, srcPath, unwalked, include, parents, seen, adding, owed>>

HeaderDone ==
    /\ at = "header"
    /\ IF WriteBroken THEN StopsWalk /\ wire' = << >>
       ELSE /\ WriteDone
            /\ at' = IF Last(written).type = "reg" THEN "body" ELSE "walk"
            /\ UNCHANGED <<todo, logged, wire>>
    /\ UNCHANGED <<src, options, srcPath, unwalked, include, parents, seen, adding,
                   SeenFiles, sent, owed, written, wclosed, rclosed>>

\* How much of a file is read, against its size when its header was made.
Reads(node) ==
    IF node = sent THEN {"whole"}
    ELSE IF node.kind = "reg" THEN {"whole", "short", "long"} ELSE {"none"}

\* Too few bytes are no error here, too many are.
AddContents ==
    /\ at = "body"
    /\ LET p == Source(adding.path)
       IN  \E r \in IF Exists(src, p) THEN Reads(src[p]) ELSE {"none"} :
             IF r = "none" THEN owed' = TRUE /\ Log /\ at' = "walk" /\ UNCHANGED <<todo, pipe>>
             ELSE IF rclosed THEN StopsWalk /\ UNCHANGED <<owed, pipe>>
             ELSE IF r = "short"
             THEN owed' = TRUE /\ at' = "walk" /\ UNCHANGED <<todo, logged, pipe>>
             ELSE /\ Writes([what |-> "body"])
                  /\ at' = "contents"
                  /\ IF r = "long" THEN Log ELSE UNCHANGED logged
                  /\ UNCHANGED <<owed, todo>>
    /\ UNCHANGED <<src, options, srcPath, unwalked, include, parents, seen, adding,
                   SeenFiles, sent, written>>

ContentsDone ==
    /\ at = "contents"
    /\ IF WriteBroken THEN StopsWalk /\ wire' = << >>
       ELSE WriteDone /\ at' = "walk" /\ UNCHANGED <<todo, logged, wire>>
    /\ UNCHANGED <<src, options, srcPath, unwalked, include, parents, seen, adding,
                   SeenFiles, sent, owed, written, wclosed, rclosed>>

(***************************************************************************)
(* The deferred function: the tar writer is closed, which writes the end   *)
(* of the archive unless contents are owed, then the pipe.                 *)
(***************************************************************************)
CloseArchive ==
    /\ at = "close"
    /\ at' = "closing"
    /\ IF owed \/ rclosed THEN UNCHANGED pipe ELSE Writes([what |-> "end"])
    /\ UNCHANGED <<src, options, srcPath, walk, entry>>

ClosePipe ==
    /\ at = "closing" /\ (WriteDone \/ WriteBroken)
    /\ at' = "ended"
    /\ wire' = << >> /\ wclosed' = TRUE
    /\ UNCHANGED <<src, options, srcPath, walk, entry, rclosed>>

Do == Start \/ NextInclude \/ Visit \/ ReadNames \/ Walked
      \/ AddHeader \/ HeaderDone \/ AddContents \/ ContentsDone
      \/ CloseArchive \/ ClosePipe
=============================================================================
