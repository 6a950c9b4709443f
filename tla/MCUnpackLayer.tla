--------------------------- MODULE MCUnpackLayer ---------------------------
(***************************************************************************)
(* Small instances of UnpackLayer.                                         *)
(***************************************************************************)
EXTENDS UnpackLayer, SmallTrees

MCLowers == {TreeLower, AbsoluteLower, EscapingLower, DanglingLower, CrossedLower}

MCLayer ==
    {HDir(<<"a">>), HDir(<<"a", "b">>), HReg(<<"a", "b", "b">>), HReg(<<"l", "a">>),
     HDir(<<"l", "b">>), HDev(<<"a">>), HSym(<<"a">>, To(FALSE, <<"l">>)),
     HLink(<<"b">>, <<"l", "b">>), HLink(<<"a">>, <<"b", "l", "l">>),
     HWhite(<<"l", "b">>), HWhite(<<"a">>),
     HOpaque(<< >>), HOpaque(<<"a">>), HOpaque(<<"l">>),
     HPlnk("a"), HPlink(<<"b">>, "a"), H("meta", <<"a">>, NoLink)}

-----------------------------------------------------------------------------
\* The run that shows where the code leaves a comment: two links to one file in
\* /.wh..wh.plnk.
PlnkLowers == {Root}
PlnkLayer  == {HPlnk("a"), HPlink(<<"a">>, "a"), HPlink(<<"b">>, "a")}
=============================================================================
