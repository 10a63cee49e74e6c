------------------------------- MODULE MCMemory -------------------------------
(* Pages, page tables and heaps of a few processes. *)
EXTENDS Memory

CONSTANTS p1, p2

\* The PCBs other than the first process's are interchangeable.
MCProcs == Permutations({p1, p2})
=============================================================================
