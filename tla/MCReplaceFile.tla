---------------------------- MODULE MCReplaceFile ----------------------------
(***************************************************************************)
(* Every archive of up to three entries of two names, with every choice of *)
(* modifiers, decompressed in place or by a command.                       *)
(***************************************************************************)
EXTENDS ReplaceFile
=============================================================================
