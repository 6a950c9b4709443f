----------------------------- MODULE MCCopyPipe -----------------------------
(***************************************************************************)
(* Small instances of CopyPipe.  The source directory is t; it holds a,    *)
(* a/a, a/b, a/b/a and b, where a/b/a and b are names of one file.         *)
(***************************************************************************)
EXTENDS CopyPipe, TLC

MCName == {"a", "b", "l", "t"}
MCRank == Opq :> 0 @@ "a" :> 1 @@ "b" :> 2 @@ "l" :> 3 @@ "t" :> 4

D(i) == Node("dir", NoLink, <<0, i>>, 0, 30, 0)
R(i) == Node("reg", NoLink, <<0, i>>, 0, 30, 0)
S(to) == Node("sym", [abs |-> TRUE, to |-> to], <<0, 9>>, 0, 30, 0)

Deep == << >> :> D(0) @@ <<"t">> :> D(1) @@ <<"t", "a">> :> D(2)
        @@ <<"t", "a", "a">> :> R(3) @@ <<"t", "a", "b">> :> D(4)
        @@ <<"t", "a", "b", "a">> :> R(5) @@ <<"t", "b">> :> R(5)

Flat == << >> :> D(0) @@ <<"t">> :> D(1) @@ <<"t", "a">> :> R(2)
        @@ <<"t", "b">> :> R(3) @@ <<"t", "l">> :> R(2) @@ <<"l">> :> S(<<"t", "a">>)

Case(call, tree, path, inc, exc, rebase, dir, n) ==
    [call |-> call, src |-> tree, srcPath |-> path, IncludeFiles |-> inc,
     ExcludePatterns |-> exc, RebaseNames |-> rebase, IncludeSourceDir |-> dir, faults |-> n]

Ex(path)  == [exclusion |-> FALSE, path |-> path]
Not(path) == [exclusion |-> TRUE, path |-> path]
Rules == {Ex(<<"*">>), Ex(<<"a">>), Ex(<<"a", "b">>), Ex(<<"*", "a">>), Ex(<<"b">>),
          Not(<<"a">>), Not(<<"a", "b">>), Not(<<"a", "b", "a">>), Not(<<"a", "a">>)}

\* Two patterns, and three of which the second is an exclusion.
RuleLists == {<< >>} \union {<<r>> : r \in Rules} \union {<<r, s>> : r, s \in Rules}
             \union {<<Ex(<<"*">>), n, e>> : n \in {m \in Rules : m.exclusion}, e \in Rules}
IncludeLists == {<< >>, << <<"a">> >>, << <<"a", "b">>, <<"a">> >>, << <<"b">>, << >> >>,
                 << <<"a", "b", "a">>, <<"b">>, <<"a", "b", "a">> >>}

PatternCases == {Case("TarUntar", Deep, <<"t">>, inc, exc, << >>, FALSE, 0) :
                    inc \in IncludeLists, exc \in RuleLists}

\* Renaming, as CopyResource does it, and of two includes.
RebaseCases ==
    {Case("TarUntar", Deep, path, << <<base>> >>, << >>, <<base>> :> <<"l">>, TRUE, 1) :
        path \in {<<"t">>}, base \in {"a", "b"}} \union
    {Case("TarUntar", Deep, <<"t">>, << << >> >>, << >>, << >> :> <<"l", "t">>, TRUE, 0),
     Case("TarUntar", Deep, <<"t">>, << <<"a", "b">>, << >> >>, << >>,
          <<"a", "b">> :> <<"l">>, FALSE, 0)}

\* What goes wrong while a directory, a file or nothing is copied.
Plain(call, tree, path, n) == Case(call, tree, path, << >>, << >>, << >>, FALSE, n)
FaultCases ==
    {Plain("TarUntar", Flat, <<"t">>, 2), Plain("TarUntar", Deep, <<"t">>, 1),
     Plain("TarUntar", Flat, <<"t", "b">>, 2), Plain("TarUntar", Flat, <<"a">>, 0)} \union
    {Plain("CopyFileWithTar", Flat, path, 2) :
        path \in {<<"t", "a">>, <<"t", "b">>, <<"l">>, <<"t">>, <<"t", "t">>}}

MCCases == PatternCases \union RebaseCases \union FaultCases
=============================================================================
