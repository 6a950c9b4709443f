-------------------------- MODULE MCLayerRoundTrip --------------------------
(***************************************************************************)
(* Small instances of LayerRoundTrip: pairs of trees over a, a/b, b and l. *)
(* IDs 0-1 of the container are 20-21 on the host; a second has ten ticks. *)
(***************************************************************************)
EXTENDS LayerRoundTrip, TLC

MCName == {"a", "b", "l", "t"}
MCRank == Opq :> 0 @@ "a" :> 1 @@ "b" :> 2 @@ "l" :> 3 @@ "t" :> 4

ToA == [abs |-> FALSE, to |-> <<"a">>]
D(i, owner)       == Node("dir", NoLink, <<0, i>>, 0, 30, owner)
R(i, owner, time) == Node("reg", NoLink, <<0, i>>, 0, time, owner)
S(i)              == Node("sym", ToA, <<0, i>>, 0, 30, 20)

Root == << >> :> D(0, 20)

\* What can be at a, and at b.  The files of one inode look the same.
DirAndFile(owner, time) == (<<"a">> :> D(1, owner)) @@ (<<"a", "b">> :> R(2, 20, time))
AtA == {<< >>, <<"a">> :> S(1), <<"a">> :> D(1, 20),
        <<"a">> :> R(1, 20, 30), <<"a">> :> R(1, 20, 33), <<"a">> :> R(1, 20, 36),
        <<"a">> :> R(1, 21, 57), DirAndFile(20, 30), DirAndFile(20, 57), DirAndFile(21, 30)}
AtB(a) == {<< >>, <<"b">> :> R(3, 20, 30), <<"b">> :> R(3, 0, 57)} \union
          {<<"b">> :> a[p] : p \in {q \in DOMAIN a : a[q].kind = "reg"}}
AtL == {<<"l">> :> S(4), (<<"l">> :> D(4, 20)) @@ (<<"l", "b">> :> R(5, 20, 57))}

Universe == UNION {{Root @@ a @@ b : b \in AtB(a)} : a \in AtA}
Linked   == {Root @@ DirAndFile(20, 30) @@ l : l \in AtL}

-----------------------------------------------------------------------------
\* The files of the new tree are other files, with the same inode numbers on
\* another device, or with other numbers on the same device but for those that
\* are as they were.
Alike(o, t, p) == p \in DOMAIN o /\ p \in DOMAIN t /\ o[p] = t[p] /\ t[p].kind # "dir"

Copied(o, t) ==
    [p \in DOMAIN t |->
        IF \E q \in DOMAIN t : t[q].ino = t[p].ino /\ Alike(o, t, q) THEN t[p]
        ELSE [t[p] EXCEPT !.ino = <<1, @[2]>>]]

Case(o, t, b, f, device, m) ==
    [old |-> o, new |-> t, rw |-> b, tool |-> f, sameDevice |-> device, moves |-> m]

\* The upper branch AUFS would hold.
Hides(o, t, p) == p \in DOMAIN o \ DOMAIN t /\ IsDir(t, Front(p))
CopiedUp(o, t, p) == \E q \in DOMAIN t \union {r \in DOMAIN o : Hides(o, t, r)} :
                        Under(p, q) /\ ~(q \in DOMAIN o /\ q \in DOMAIN t /\ o[q] = t[q])
OpaqueDirs(o, t) == {p \in DOMAIN t : IsDir(t, p) /\ p \in DOMAIN o /\ ~IsDir(o, p)}

Branch(o, t) ==
    [p \in {<< >>} \union {q \in DOMAIN t : CopiedUp(o, t, q)} |-> t[p]] @@
    [p \in {q \in DOMAIN o : Hides(o, t, q)} |-> Node("wh", NoLink, <<1, 9>>, 0, 30, 20)] @@
    [p \in {Append(d, Opq) : d \in OpaqueDirs(o, t)} |-> R(9, 20, 30)]

Pairs == (Universe \X Universe) \union (Linked \X Linked)

QuietCases ==
    {Case(x[1], x[2], Root, "ChangesDirs", FALSE, 0) : x \in Pairs} \union
    {Case(x[1], Copied(x[1], x[2]), Root, "ChangesDirs", TRUE, 0) : x \in Pairs} \union
    {Case(x[1], x[2], Branch(x[1], x[2]), "Changes", FALSE, 0) : x \in Pairs}

\* A tree with three names of one file, and one with a directory that loses all
\* it had.
Three == Root @@ (<<"a">> :> D(1, 21)) @@ (<<"a", "b">> :> R(2, 20, 57))
              @@ (<<"b">> :> R(2, 20, 57)) @@ (<<"l">> :> R(2, 20, 57))
Full  == Root @@ DirAndFile(20, 30)
Empty == Root @@ (<<"a">> :> D(1, 20))

MovingCases ==
    {Case(x[1], Copied(x[1], x[2]), Root, "ChangesDirs", TRUE, 2) :
        x \in {Root, Full, Empty} \X {Three, Full, Empty}}

\* Two files are added; one goes while Changes walks the branch.
TwoFiles == Root @@ (<<"a">> :> R(1, 20, 57)) @@ (<<"b">> :> R(3, 20, 57))
VanishingCases == {Case(Root, TwoFiles, TwoFiles, "Changes", FALSE, 1),
                   Case(Full, TwoFiles, Branch(Full, TwoFiles), "Changes", FALSE, 1)}

MCLowers == Universe \union Linked
MCCases == QuietCases \union MovingCases \union VanishingCases
=============================================================================
