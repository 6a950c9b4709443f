--------------------------- MODULE MCResolvePath ---------------------------
(***************************************************************************)
(* A small instance of ResolvePath: two names at the top, one below, links *)
(* of every kind (relative, absolute, through "..", dangling, cyclic).     *)
(***************************************************************************)
EXTENDS ResolvePath

MCName == {"a", "b", "c"}

Dir  == Node("dir", NoLink, <<0, 0>>, 0, 0, 0)
File == Node("reg", NoLink, <<0, 0>>, 0, 0, 0)
Sym(abs, to) == Node("sym", [abs |-> abs, to |-> to], <<0, 0>>, 0, 0, 0)

Syms == {Sym(FALSE, <<"c">>), Sym(TRUE, <<"a", "b">>),
         Sym(FALSE, <<Up, Dot, "c">>), Sym(FALSE, <<"b", Up, "c", Up, "a">>)}

Empty == << >> :> Dir
ATrees == {Empty, (<<"a">> :> File)}
          \union {<<"a">> :> s : s \in Syms}
          \union {(<<"a">> :> Dir) @@ b :
                    b \in {Empty} \union {<<"a", "b">> :> s : s \in Syms}}
CTrees == {Empty, <<"c">> :> Dir, <<"c">> :> File}
          \union {<<"c">> :> s : s \in Syms}

MCTrees == {Empty @@ a @@ c : a \in ATrees, c \in CTrees}
MCPaths == {<<"a", "b">>, <<"a", Up, "c", "b">>, <<Up, "c", "a">>,
            <<"b", Up, "a", Dot>>, <<"c", Up, Up, Up, "a">>}

(***************************************************************************)
(* What a chroot denotes by a path, written without splicing: the first    *)
(* component denotes a place, a link by denoting its target from where it  *)
(* lies, and the rest is looked up from that place.                        *)
(***************************************************************************)
RECURSIVE Chroot(_, _, _, _)
Chroot(t, at, p, links) ==
    IF p = << >> THEN [err |-> "ok", at |-> at, links |-> links]
    ELSE
    LET here   == Append(at, Head(p))
        reach(q) == [err |-> "ok", at |-> q, links |-> links]
        next   == CASE Head(p) = Dot -> reach(at)
                    [] Head(p) = Up  -> reach(IF at = << >> THEN at ELSE Front(at))
                    [] Head(p) \in Name ->
                         IF ~Exists(t, here) \/ t[here].kind # "sym" THEN reach(here)
                         ELSE IF links = MaxLinks THEN [reach(at) EXCEPT !.err = "loop"]
                         ELSE Chroot(t, IF t[here].link.abs THEN << >> ELSE at,
                                     t[here].link.to, links + 1)
    IN  CASE next.err # "ok" -> next
          [] next.err = "ok" /\ Tail(p) # << >> /\ Exists(t, next.at)
                             /\ ~IsDir(t, next.at) -> [next EXCEPT !.err = "notdir"]
          [] OTHER -> Chroot(t, next.at, Tail(p), next.links)

\* On a tree nobody else changes, the loop that splices link targets into the
\* remaining components denotes what a chroot would, a missing component
\* counting as an empty directory.
ResolvesLikeChroot ==
    (pc = "done" /\ changes = 0) =>
        LET c == Chroot(tree, << >>, path, 0)
        IN  err = c.err /\ (err = "ok" => resolved = c.at)

\* A directory's own path denotes it: the shortcut DirOf takes.
ASSUME DirOfIsWalk ==
    \A t \in Trees : \A d \in DOMAIN t :
        IsDir(t, d) => LET w == Walk(t, d, FALSE, TRUE)
                       IN  w.err = "ok" /\ w.at = d

\* No target is longer than five components, so MaxSteps is enough.
ASSUME EnoughSteps == StepsSuffice(5)
=============================================================================
