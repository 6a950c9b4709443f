--------------------------- MODULE MCCopyResource ---------------------------
(***************************************************************************)
(* Small instances of CopyResource: sources in a, destinations in t, which *)
(* has links to a directory, to a file, to nothing, and in a chain.        *)
(***************************************************************************)
EXTENDS CopyResource, TLC

MCName == {"a", "b", "c", "d", "l", "m", "n", "t"}
MCRank == Opq :> 0 @@ "a" :> 1 @@ "b" :> 2 @@ "c" :> 3 @@ "d" :> 4 @@ "l" :> 5
       @@ "m" :> 6 @@ "n" :> 7 @@ "t" :> 8

D(i) == Node("dir", NoLink, <<0, i>>, 0, 30, 0)
R(i) == Node("reg", NoLink, <<0, i>>, 0, 30, 0)
S(i, abs, to) == Node("sym", [abs |-> abs, to |-> to], <<0, i>>, 0, 30, 0)

\* a/b/a and a/b/d/a are names of one file; l is a directory reached by a link.
Sources ==
    << >> :> D(0) @@ <<"a">> :> D(1) @@ <<"a", "a">> :> R(2) @@ <<"a", "b">> :> D(3)
    @@ <<"a", "b", "a">> :> R(4) @@ <<"a", "b", "d">> :> D(5) @@ <<"a", "b", "d", "a">> :> R(4)
    @@ <<"a", "l">> :> S(6, FALSE, <<"b">>) @@ <<"a", "m">> :> S(7, TRUE, <<"a", "a">>)
    @@ <<"a", "n">> :> S(8, FALSE, <<Up, "c">>) @@ <<"l">> :> S(9, TRUE, <<"a">>)

\* t/c/b is a directory where a/b goes, t/c/l a file where a/l/ goes.
MCTree ==
    Sources @@ <<"t">> :> D(20) @@ <<"t", "a">> :> R(21) @@ <<"t", "b">> :> D(22)
    @@ <<"t", "c">> :> D(23) @@ <<"t", "c", "b">> :> D(24) @@ <<"t", "c", "l">> :> R(25)
    @@ <<"t", "c", "a">> :> D(26)
    @@ <<"t", "d">> :> S(27, FALSE, <<Dot, "b">>) @@ <<"t", "l">> :> S(28, TRUE, <<"t", "a">>)
    @@ <<"t", "m">> :> S(29, FALSE, <<Up, "n">>) @@ <<"t", "b", "l">> :> S(30, FALSE, <<Up, "d">>)
    @@ <<"t", "b", "m">> :> S(31, FALSE, <<"l">>) @@ <<"t", "b", "n">> :> S(32, FALSE, <<"n">>)

Text(parts, separator) == [parts |-> parts, separator |-> separator]
Texts(parts) == {Text(parts, FALSE), Text(parts, TRUE), Text(Append(parts, Dot), FALSE)}

FromTexts == UNION {Texts(p) : p \in {<<"a", "a">>, <<"a", "b">>, <<"a", "l">>, <<"a", "m">>}}
    \union {Text(<<"a", "n">>, FALSE), Text(<<"l", "b">>, FALSE), Text(<<"l", "l">>, FALSE),
            Text(<<"l", Up, "a", Dot, "a">>, FALSE), Text(<<"a", "a", "b">>, FALSE)}
ToTexts == UNION {Texts(<<"t", n>>) : n \in {"a", "b", "c", "d", "l", "m", "n"}}
    \union {Text(<<"t", "b", n>>, FALSE) : n \in {"l", "m", "n"}}
    \union {Text(<<"c", "n">>, FALSE), Text(<<"t", "a", "n">>, FALSE), Text(<<"t", "d", "n">>, FALSE)}

Copy(from, to, follow, n) ==
    [src |-> from, dst |-> to, followLink |-> follow, faults |-> n]

MCCopies ==
    {Copy(s, d, f, 0) : s \in FromTexts, d \in ToTexts, f \in BOOLEAN} \union
    {Copy(Text(s, FALSE), Text(d, FALSE), f, 2) :
        s \in {<<"a", "b">>, <<"a", "b", Dot>>, <<"a", "a">>}, f \in {FALSE},
        d \in {<<"t", "b">>, <<"t", "n">>, <<"t", "a">>}}
=============================================================================
