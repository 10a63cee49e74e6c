------------------------------ MODULE MCOpenFiles ------------------------------
(* A shell and a child over two files, three slots and three descriptors. *)
EXTENDS OpenFiles

CONSTANTS p1, p2

\* Names are only compared with each other.
Names == Permutations(Name)
=============================================================================
