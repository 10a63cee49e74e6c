------------------------------- MODULE IoQueue -------------------------------
(***************************************************************************)
(* One io queue of device/ioquene.c and the threads that use it.           *)
(*                                                                         *)
(* ioq_getchar and ioq_putchar run with interrupts off and share the shape *)
(*     while (queue cannot serve me) {                                     *)
(*        lock_acquire; ioq_wait(&my slot); lock_release;                  *)
(*     }                                                                   *)
(*     move one character; wake the thread in the other slot               *)
(* so they are one piece of control here, with op[t] telling which of the  *)
(* two a thread executes.  A thread loses the cpu only inside sema_down    *)
(* and inside ioq_wait, where it sleeps HOLDING ioq->lock.                 *)
(***************************************************************************)
EXTENDS SyncOps

CONSTANTS Client,    \* the threads that use the queue
          Char,      \* the characters
          Data,      \* those that processes put into a pipe
          bufsize,   \* slots of the ring buffer; one of them stays unused
          ioq        \* the queue's lock

ASSUME IoQueueAssumption ==
  /\ Client \subseteq Thread \ {idle_thread}
  /\ Char # {} /\ Data \subseteq Char
  /\ bufsize \in Nat \ {0, 1}
  /\ ioq \in Lock

Op == {"get", "put"}
Pos == 0 .. bufsize - 1

(***************************************************************************)
(* user   outside the queue          wait   lock_acquire returned          *)
(* test   before the while test      woken  ioq_wait called; lock_release  *)
(* lock   in lock_acquire                   comes next                     *)
(***************************************************************************)
Pc == {"user", "test", "lock", "wait", "woken"}

VARIABLES buf, head, tail,
          waiter,   \* waiter["get"]: ioq->consumer; waiter["put"]: ioq->producer
          pc, op,   \* where each thread is, and in which function
          todo      \* characters that remain of its read or write

ringVars == << buf, head, tail >>
callVars == << pc, op, todo >>
vars == << sched, value, waiters, holder, repeat,
           buf, head, tail, waiter, pc, op, todo >>

\* The users take part; the other clients sleep somewhere else.
IoQueueInit(users) ==
  /\ \E first \in users :
       \E order \in SetToSeqs((users \cup {idle_thread}) \ {first}) :
         sched = [cur    |-> first,
                  status |-> [t \in Thread |-> IF t = first THEN "RUNNING"
                                               ELSE IF t \in Range(order) THEN "READY"
                                               ELSE "BLOCKED"],
                  ready  |-> order,
                  ticks  |-> priority,
                  panic  |-> FALSE]
  /\ value = [x \in Sema |-> 1]
  /\ waiters = [x \in Sema |-> << >>]
  /\ holder = [l \in Lock |-> NULL]
  /\ repeat = [l \in Lock |-> 0]
  /\ buf \in [Pos -> {CHOOSE ch \in Char : TRUE}]
  /\ head = 0 /\ tail = 0
  /\ waiter = [o \in Op |-> NULL]
  /\ pc = [t \in Thread |-> "user"]
  /\ op = [t \in Thread |-> "get"]
  /\ todo = [t \in Thread |-> 0]

\* Mutant of next_pos: the position does not wrap around.
next_pos_NoWrap(pos) == pos + 1
next_pos(pos) == (pos + 1) % bufsize
ioq_full == next_pos(head) = tail
ioq_empty == head = tail
ioq_length == IF head >= tail THEN head - tail ELSE bufsize - (tail - head)

CannotServe(o) == IF o = "get" THEN ioq_empty ELSE ioq_full
Other(o) == IF o = "get" THEN "put" ELSE "get"

\* The queue's content, oldest character first.
Content == [i \in 1 .. ioq_length |-> buf[(tail + i - 1) % bufsize]]

At(p) == ~sched.panic /\ self \in Client /\ pc[self] = p
Goto(p) == pc' = [pc EXCEPT ![self] = p]

-----------------------------------------------------------------------------
TakeChar ==
  /\ tail' = next_pos(tail)
  /\ UNCHANGED << buf, head >>

StoreChar(ch) ==
  /\ buf' = [buf EXCEPT ![head] = ch]
  /\ head' = next_pos(head)
  /\ UNCHANGED tail

\* if (slot != NULL) wakeup(&slot)
wakeup(o) ==
  IF waiter[o] = NULL
  THEN UNCHANGED << sched, waiter >>
  ELSE /\ sched' = thread_unblock(sched, waiter[o])
       /\ waiter' = [waiter EXCEPT ![o] = NULL]

\* The call begins: sys_read or sys_write with n characters to move.
Begin(o, n) ==
  /\ n > 0
  /\ op' = [op EXCEPT ![self] = o]
  /\ todo' = [todo EXCEPT ![self] = n]
  /\ Goto("test")
  /\ UNCHANGED << sched, semaVars, lockVars, ringVars, waiter >>

Test ==
  /\ At("test") /\ CannotServe(op[self])
  /\ Goto("lock")
  /\ UNCHANGED << sched, semaVars, lockVars, ringVars, waiter, op, todo >>

Move ==
  /\ At("test") /\ ~CannotServe(op[self])
  /\ IF op[self] = "get" THEN TakeChar ELSE \E ch \in Data : StoreChar(ch)
  /\ wakeup(Other(op[self]))
  /\ todo' = [todo EXCEPT ![self] = @ - 1]
  /\ Goto(IF todo[self] = 1 THEN "user" ELSE "test")
  /\ UNCHANGED << semaVars, lockVars, op >>

LockSleep ==
  /\ At("lock") /\ LockWait(ioq)
  /\ UNCHANGED << ringVars, waiter, callVars >>

LockGot ==
  /\ At("lock") /\ (LockTake(ioq) \/ LockAgain(ioq))
  /\ Goto("wait")
  /\ UNCHANGED << ringVars, waiter, op, todo >>

\* Mutant of ioq_wait: the sleeper does not record itself.
ioq_wait_Unrecorded ==
  /\ At("wait")
  /\ sched' = thread_block(sched, "BLOCKED")
  /\ Goto("woken")
  /\ UNCHANGED << semaVars, lockVars, ringVars, waiter, op, todo >>

\* ASSERT(*waiter == NULL); *waiter = running_thread(); thread_block
ioq_wait ==
  /\ At("wait")
  /\ IF waiter[op[self]] # NULL
     THEN sched' = Panic(sched) /\ UNCHANGED << waiter, pc >>
     ELSE /\ waiter' = [waiter EXCEPT ![op[self]] = self]
          /\ sched' = thread_block(sched, "BLOCKED")
          /\ Goto("woken")
  /\ UNCHANGED << semaVars, lockVars, ringVars, op, todo >>

Unlock ==
  /\ At("woken") /\ lock_release(ioq)
  /\ Goto("test")
  /\ UNCHANGED << ringVars, waiter, op, todo >>

\* All of the functions but for the move of a character.
Wait == Test \/ LockSleep \/ LockGot \/ ioq_wait \/ Unlock

-----------------------------------------------------------------------------
\* Interrupts are accepted in user mode and in the idle loop.
IntrOn == ~sched.panic /\ pc[self] = "user"

TimerIntr ==
  /\ IntrOn
  /\ sched' = intr_timer_handler(sched)
  /\ UNCHANGED << semaVars, lockVars, ringVars, waiter, callVars >>

IdleLoop ==
  /\ ~sched.panic /\ self = idle_thread
  /\ sched' = thread_block(sched, "BLOCKED")
  /\ UNCHANGED << semaVars, lockVars, ringVars, waiter, callVars >>

-----------------------------------------------------------------------------
(***************************************************************************)
(* Properties of every use of a queue                                      *)
(***************************************************************************)
IoQueueTypeOK ==
  /\ SyncTypeOK
  /\ buf \in [Pos -> Char] /\ head \in Pos /\ tail \in Pos
  /\ waiter \in [Op -> Client \cup {NULL}]
  /\ pc \in [Thread -> Pc] /\ op \in [Thread -> Op] /\ todo \in [Thread -> Nat]

\* No ASSERT fails: above all a slot is never overwritten (ioquene.c:29), for
\* a second reader or writer is kept out by the lock the first sleeps with.
NoAssertFails == ~sched.panic

\* A thread sleeping in ioq_wait is the one its slot names, and it sleeps with
\* the lock: whoever moves a character on the other side will find it, and no
\* second thread of either side can be sleeping there.
SleeperIsRecorded ==
  /\ \A t \in Client :
       pc[t] = "woken" =>
         /\ holder[ioq] = t
         /\ sched.status[t] = "BLOCKED" <=> waiter[op[t]] = t
  /\ waiter["get"] = NULL \/ waiter["put"] = NULL

\* The ring buffer, for all interleavings of readers and writers, is a FIFO
\* of bufsize - 1 characters.
Fifo == INSTANCE BoundedFifo WITH Capacity <- bufsize - 1, fifo <- Content
FifoRefinement == Fifo!Spec
=============================================================================
