----------------------------- MODULE MCProcLife -----------------------------
(* Process life on a small number of PCB pages. *)
EXTENDS ProcLife

CONSTANTS p1, p2

\* Every tick ends a time slice.
MCPriority == [t \in Thread |-> 0]
=============================================================================
