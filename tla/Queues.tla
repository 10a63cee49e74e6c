-------------------------------- MODULE Queues --------------------------------
(***************************************************************************)
(* The two uses of an io queue: the keyboard buffer, read by the shell, or *)
(* a pipe between processes.  queue says which of them the behaviour is    *)
(* about; the other one is not used in it.                                 *)
(***************************************************************************)
EXTENDS Keyboard, Pipe

VARIABLE queue

allVars == << vars, kbdVars, queue >>

Init ==
  /\ queue \in {"keyboard", "pipe"}
  /\ IoQueueInit(IF queue = "keyboard" THEN {shell} ELSE Reader \cup Writer)
  /\ KeyboardInit

QueueStep ==
  \/ queue = "keyboard" /\ KeyboardQueueStep /\ UNCHANGED queue
  \/ queue = "pipe" /\ PipeQueueStep /\ UNCHANGED << kbdVars, queue >>

Tick == TimerIntr /\ UNCHANGED << kbdVars, queue >>
Idle == IdleLoop /\ UNCHANGED << kbdVars, queue >>

Next ==
  \/ queue = "keyboard" /\ KeyboardNext /\ UNCHANGED queue
  \/ queue = "pipe" /\ PipeNext /\ UNCHANGED << kbdVars, queue >>
  \/ Tick
  \/ Idle

(***************************************************************************)
(* Fairness: with interrupts off the running thread goes on; ticks stay    *)
(* latched until interrupts are on.  Nobody is obliged to type, to read or *)
(* to write.                                                               *)
(***************************************************************************)
Spec == Init /\ [][Next]_allVars
FairSpec ==
  Spec /\ WF_allVars(QueueStep) /\ WF_allVars(Idle) /\ SF_allVars(Tick)

-----------------------------------------------------------------------------
\* Types; the history agrees with the keys; and the rules of a queue hold in
\* both uses: who sleeps is recorded with the lock, a read of a pipe does not
\* sleep, a write sleeps for one character at most (pipe.c:50, pipe.c:69).
QueueRules ==
  /\ IoQueueTypeOK /\ queue \in {"keyboard", "pipe"}
  /\ held \subseteq Key /\ orphan \subseteq DOMAIN Twins /\ misread \in BOOLEAN
  /\ Len(line) <= cmd_len
  /\ NoAssertFails
  /\ SleeperIsRecorded
  /\ queue = "pipe" => ReadDoesNotBlock /\ BlockedWriterOwesOne

\* A line after the shell has read some characters more, and the characters
\* it has not seen yet.
Edited(l, chars) ==
  LET edited[k \in 0 .. Len(chars)] ==
        IF k = 0 THEN l ELSE Edit(edited[k - 1], chars[k])
  IN edited[Len(chars)]
Ahead == (IF hand = NULL THEN << >> ELSE << hand >>) \o Content

\* The line of readline, with the characters it has not seen yet, is the line
\* that the keys mean, whatever is typed while the shell reads or sleeps: no
\* character that found room is lost, twice there, or decoded with the
\* modifiers of another moment.  The exception is a line of which a character
\* was typed with one ctrl or shift key down after its twin was released:
\* the flag that "records whether shift is pressed" (keyboard.c:100) is clear.
TypedLine == queue = "keyboard" /\ ~misread => Edited(line, Ahead) = meant

\* As long as the readers go on reading, a writer asleep in the queue is woken
\* and goes on.  (Writers that wait for the lock may be overtaken for ever by
\* a writer that writes again within its time slice: a released lock is not
\* handed over.)
SleepingWriterGoesOn ==
  (\A t \in Reader : SF_allVars(self = t /\ pipe_read /\ UNCHANGED << kbdVars, queue >>)) =>
    \A t \in Writer : (op[t] = "put" /\ pc[t] = "woken") ~> pc[t] # "woken"
=============================================================================
