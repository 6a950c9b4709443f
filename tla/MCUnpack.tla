------------------------------ MODULE MCUnpack ------------------------------
(***************************************************************************)
(* Small instances of Unpack: archives unpacked to a tree with a link, and *)
(* layers unpacked to the empty upper directory of an overlay mount.       *)
(***************************************************************************)
EXTENDS Unpack, SmallTrees

OwnedBy(id, h) == [h EXCEPT !.owner = id]

PlainArchive ==
    {H("dir", << >>, NoLink), HReg(<<Up, "a">>), HReg(<<"t">>),
     HDir(<<"a">>), HReg(<<"a">>), HDir(<<"l">>), HDir(<<"l", "b">>), HReg(<<"l", "a">>),
     OwnedBy(3, HReg(<<"b">>)), HSym(<<"b">>, To(FALSE, <<"l", "b">>)),
     HLink(<<"b">>, <<"l", "b">>), HReg(<<"b", "b">>)}

\* Nothing lies below a path where the lower directories hold a file, and no
\* directory takes a place that another entry empties.
OverlayArchive ==
    {HDir(<<"a">>), HReg(<<"a">>), HDir(<<"a", "b">>), HReg(<<"a", "b", "b">>),
     HReg(<<"a", "a">>), HSym(<<"l">>, To(FALSE, <<"a">>)), HSym(<<"b">>, To(TRUE, <<"a">>)),
     HReg(<<"l", "t">>), HLink(<<"t">>, <<"l", "a">>),
     HWhite(<<"a", "a">>), OwnedBy(0, HWhite(<<"l", "a">>)), HWhite(<<"a">>), HWhite(<<"a", Up>>),
     HOpaque(<<"l">>), HOpaque(<<"a">>), HOpaque(<< >>)}

PlainCall(t, keep) ==
    [tree |-> t, lower |-> Root, archive |-> PlainArchive,
     NoOverwriteDirNonDir |-> keep, WhiteoutFormat |-> "AUFSWhiteoutFormat"]
OverlayCall(below) ==
    [tree |-> Root, lower |-> below, archive |-> OverlayArchive,
     NoOverwriteDirNonDir |-> FALSE, WhiteoutFormat |-> "OverlayWhiteoutFormat"]

OverlayLower == [p \in DOMAIN TreeLower \ {<<"l">>} |-> TreeLower[p]]

MCExcluded == {<<"t">>, <<"t", "a">>}
MCCalls ==
    {PlainCall(t, keep) : t \in {TreeLower, AbsoluteLower}, keep \in BOOLEAN}
        \union {OverlayCall(OverlayLower)}
=============================================================================
