---------------------------- MODULE MCGoInChroot ----------------------------
(***************************************************************************)
(* Two calls of chrootarchive, on one root or on two of which one is a     *)
(* mount point, and up to two calls of archive.ApplyLayer.                 *)
(***************************************************************************)
EXTENDS GoInChroot, TLC

CONSTANTS a, b, c, d, u, t0, t1, t2

MCOp == a :> "ApplyLayer" @@ b :> "Tar" @@ c :> "archive.ApplyLayer"
        @@ d :> "archive.ApplyLayer" @@ u :> "Untar"
MCRoot == a :> "layer" @@ b :> "mount" @@ c :> "layer" @@ d :> "layer" @@ u :> "layer"
MCTogether == {{a, b, c}, {u, c, d}, {a, u}}
=============================================================================
