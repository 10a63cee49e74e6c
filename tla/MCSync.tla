------------------------------- MODULE MCSync -------------------------------
(* Sync with the main thread, user processes and two locks. *)
EXTENDS Sync

CONSTANTS main, p1, p2, channel, console

\* A slice of one tick: a thread can be preempted at every other interrupt.
MCPriority == [t \in Thread |-> IF t = idle_thread THEN 0 ELSE 1]

\* main reads the disk with interrupts on; the processes read the disk and
\* print with interrupts off.
MCUses == [t \in Client |-> IF t = main THEN {channel} ELSE {channel, console}]

\* As in main.c: main also prints, with interrupts on.
MCBootUses == [t \in Client |-> {console}]

\* The parameters of the correct configurations obey the discipline.
ASSUME DisciplineHolds == Uses = MCUses => LockDiscipline
=============================================================================
