-------------------------------- MODULE Pipe --------------------------------
(***************************************************************************)
(* Reading and writing a pipe (shell/pipe.c): an io queue in a kernel page *)
(* shared by the processes that inherited its descriptors.  The lengths    *)
(* are chosen when the call begins; the characters move later, and a       *)
(* writer may lose the cpu in between.                                     *)
(***************************************************************************)
EXTENDS IoQueue, FiniteSetsExt

CONSTANTS Reader, Writer,   \* the processes that use the two descriptors
          MaxCount          \* bound: characters asked for by one call

ASSUME PipeAssumption ==
  /\ Reader \cup Writer \subseteq Client
  /\ MaxCount \in Nat \ {0}

\* Mutant of pipe_read: the size is the count.
pipe_read_Count ==
  /\ At("user") /\ self \in Reader
  /\ \E count \in 1 .. MaxCount : Begin("get", count)

\* pipe_read: size = min(ioq_length, count); 0 when the pipe is empty.
pipe_read ==
  /\ At("user") /\ self \in Reader
  /\ \E count \in 1 .. MaxCount : Begin("get", Min({ioq_length, count}))

\* pipe_write: size = min(bufsize - ioq_length, count).
pipe_write ==
  /\ At("user") /\ self \in Writer
  /\ \E count \in 1 .. MaxCount : Begin("put", Min({bufsize - ioq_length, count}))

PipeQueueStep == Wait \/ Move
PipeNext == pipe_read \/ pipe_write \/ PipeQueueStep

-----------------------------------------------------------------------------
\* Choosing the size first keeps a reader from sleeping (pipe.c:50), whatever
\* the other readers and writers of the pipe do.
ReadDoesNotBlock == \A t \in Reader : op[t] = "get" => pc[t] \in {"user", "test"}

\* pipe_write chooses its size "to avoid blocking" (pipe.c:69) but takes the
\* room one too large, so a writer may sleep: it then owes one character, and
\* a write is cut, never queued, beyond that.
BlockedWriterOwesOne ==
  \A t \in Writer : pc[t] = "woken" /\ waiter["put"] = t => todo[t] = 1
=============================================================================
