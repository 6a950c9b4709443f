----------------------------- MODULE SmallTrees -----------------------------
(***************************************************************************)
(* How the small instances write trees and archive entries.  Names: a and  *)
(* b, l for a symlink, t for a temporary directory.                        *)
(***************************************************************************)
EXTENDS Extract, TLC

MCName == {"a", "b", "l", "t"}

Lower(kind, link, i) == Node(kind, link, <<0, i>>, 0, 0, 0)
To(abs, path) == [abs |-> abs, to |-> path]

Root == << >> :> Lower("dir", NoLink, 0)

\* Lower layers: a directory tree, and a link l to a directory of it (relative,
\* absolute, leaving the root, or to nothing).
LinkLower(link) ==
    Root @@ (<<"a">> :> Lower("dir", NoLink, 1))
         @@ (<<"a", "b">> :> Lower("reg", NoLink, 2))
         @@ (<<"l">> :> Lower("sym", link, 3))

TreeLower ==
    Root @@ (<<"a">> :> Lower("dir", NoLink, 1))
         @@ (<<"a", "a">> :> Lower("reg", NoLink, 2))
         @@ (<<"a", "b">> :> Lower("dir", NoLink, 3))
         @@ (<<"a", "b", "a">> :> Lower("reg", NoLink, 4))
         @@ (<<"l">> :> Lower("sym", To(FALSE, <<"a">>), 5))

AbsoluteLower == LinkLower(To(TRUE, <<"a">>))
EscapingLower == LinkLower(To(FALSE, <<Up, "a">>))
DanglingLower == LinkLower(To(TRUE, <<"b", "a">>))

\* Links that lead through each other: what an entry for a removes is on the way of
\* the path b/l/l.
CrossedLower ==
    Root @@ (<<"a">> :> Lower("sym", To(TRUE, <<"b", "b">>), 1))
         @@ (<<"b">> :> Lower("dir", NoLink, 2))
         @@ (<<"b", "b">> :> Lower("dir", NoLink, 3))
         @@ (<<"b", "l">> :> Lower("sym", To(TRUE, <<"a", Up>>), 4))
         @@ (<<"l">> :> Lower("reg", NoLink, 5))

\* Headers.  Owners are IDs inside the image.
H(type, name, link) == [type |-> type, name |-> name, link |-> link, owner |-> 1]
HDir(p)     == H("dir", p, NoLink)
HReg(p)     == H("reg", p, NoLink)
HDev(p)     == H("dev", p, NoLink)
HSym(p, l)  == H("sym", p, l)
HLink(p, q) == H("link", p, To(FALSE, q))
HWhite(p)   == H("white", p, NoLink)
HOpaque(d)  == H("opaque", Append(d, Opq), NoLink)
HPlnk(b)    == H("plnk", <<b>>, NoLink)
HPlink(p, b) == H("plink", p, To(FALSE, <<b>>))
=============================================================================
