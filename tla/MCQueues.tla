------------------------------- MODULE MCQueues -------------------------------
(* The shell at the keyboard; a pipe with one reader and two writers. *)
EXTENDS Queues

CONSTANTS r1, w1, w2

MCPriority == [t \in Thread |-> IF t = idle_thread THEN 0 ELSE 1]
MCKey == {"u", "backspace", "enter", "shift_l", "shift_r", "up"}
MCData == {"u", "U"}
=============================================================================
