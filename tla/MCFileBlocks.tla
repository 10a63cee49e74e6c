----------------------------- MODULE MCFileBlocks -----------------------------
(* Two files on a small disk. *)
EXTENDS FileBlocks, TLC

CONSTANTS f1, f2

MCFiles == Permutations({f1, f2})
=============================================================================
