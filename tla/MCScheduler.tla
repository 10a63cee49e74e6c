----------------------------- MODULE MCScheduler -----------------------------
(* Scheduler on a small set of PCB pages. *)
EXTENDS Scheduler

CONSTANTS p1, p2

\* Slices shrunk from 31 (main, user processes) and 10 (idle) to 1 and 0.
MCPriority == [t \in Thread |-> IF t = idle_thread THEN 0 ELSE 1]
=============================================================================
