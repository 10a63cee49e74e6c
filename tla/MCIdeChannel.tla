---------------------------- MODULE MCIdeChannel ----------------------------
(* A channel used by the main thread and user processes. *)
EXTENDS IdeChannel

CONSTANTS p1, p2

\* Every tick ends a time slice.
MCPriority == [t \in Thread |-> 0]

\* ide_init identifies both disks and reads the partition table.
MCBoot == << "identify", "identify", "read" >>
=============================================================================
