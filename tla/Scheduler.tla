------------------------------ MODULE Scheduler ------------------------------
(***************************************************************************)
(* The thread scheduler of thread/thread.c under every schedule of system  *)
(* calls and interrupts.  The callers of the primitives (semaphores, io    *)
(* queues, wait/exit) are abstracted to what they may ask of the           *)
(* scheduler: the running thread blocks, yields, wakes a blocked thread,   *)
(* creates a thread or reaps an exited one; an interrupt handler wakes a   *)
(* BLOCKED thread.                                                         *)
(*                                                                         *)
(* Interrupts are accepted only while EFLAGS.IF is 1: in user mode, in the *)
(* idle loop, and in the main thread after intr_enable().  A system call   *)
(* and an interrupt handler run with IF = 0, so each is interrupted only   *)
(* where it calls schedule() itself.                                       *)
(***************************************************************************)
EXTENDS ThreadOps

CONSTANTS main_thread,   \* the thread that runs main()
          init_process   \* the first user process, created by thread_init

ASSUME ActorsAssumption ==
  /\ {main_thread, init_process} \subseteq Thread
  /\ main_thread # init_process
  /\ idle_thread \notin {main_thread, init_process}

VARIABLES sched,   \* the scheduler's state, see ThreadOps
          masked   \* masked[t]: thread t runs, or last ran, with IF = 0

vars == << sched, masked >>

self == sched.cur

(***************************************************************************)
(* thread_init: init is created first, main becomes the running thread,    *)
(* idle is created last.  main keeps interrupts off until main.c:15.       *)
(***************************************************************************)
Init ==
  /\ sched = [cur    |-> main_thread,
              status |-> [t \in Thread |->
                            CASE t = main_thread -> "RUNNING"
                              [] t \in {init_process, idle_thread} -> "READY"
                              [] OTHER -> "FREE"],
              ready  |-> << init_process, idle_thread >>,
              ticks  |-> priority,
              panic  |-> FALSE]
  /\ masked = [t \in Thread |-> t = main_thread]

-----------------------------------------------------------------------------
\* int 0x80, or intr_disable() in main: the gate clears IF.
EnterKernel ==
  /\ ~sched.panic /\ ~masked[self] /\ self # idle_thread
  /\ masked' = [masked EXCEPT ![self] = TRUE]
  /\ UNCHANGED sched

\* iret to user mode, or intr_enable() in main: IF is set again.
LeaveKernel(t) ==
  /\ ~sched.panic /\ self = t /\ masked[t]
  /\ masked' = [masked EXCEPT ![t] = FALSE]
  /\ UNCHANGED sched

\* What the running thread may block as: only a user process waits for its
\* children or exits, and init does not exit.
BlockStates(t) ==
  CASE t = main_thread  -> {"BLOCKED"}
    [] t = init_process -> {"BLOCKED", "WAITING"}
    [] OTHER            -> Blocked

Block ==
  /\ ~sched.panic /\ masked[self]
  /\ \E stat \in BlockStates(self) : sched' = thread_block(sched, stat)
  /\ UNCHANGED masked

Yield ==
  /\ ~sched.panic /\ masked[self]
  /\ sched' = thread_yield(sched)
  /\ UNCHANGED masked

\* sema_up, wakeup and sys_exit unblock a thread found waiting.
Wake ==
  /\ ~sched.panic /\ masked[self]
  /\ \E t \in Thread \ {idle_thread} :
        /\ sched.status[t] \in {"BLOCKED", "WAITING"}
        /\ sched' = thread_unblock(sched, t)
  /\ UNCHANGED masked

\* sys_fork: the child resumes in intr_exit with IF saved as 1.
Create ==
  /\ ~sched.panic /\ masked[self]
  /\ \E t \in Thread :
        /\ sched.status[t] \in {"FREE", "DIED"} /\ t # main_thread
        /\ sched' = EnqueueNew(sched, t)
        /\ masked' = [masked EXCEPT ![t] = FALSE]

\* sys_wait: the parent destroys an exited child.
Reap ==
  /\ ~sched.panic /\ masked[self]
  /\ \E t \in Thread :
        /\ sched.status[t] = "HANGING"
        /\ sched' = thread_exit(sched, t, FALSE)
  /\ UNCHANGED masked

\* The last statement of main(): thread_exit(running_thread(), true).
MainExit ==
  /\ ~sched.panic /\ self = main_thread /\ ~masked[self]
  /\ sched' = thread_exit(sched, self, TRUE)
  /\ masked' = [masked EXCEPT ![self] = TRUE]

-----------------------------------------------------------------------------
\* The idle loop: thread_block(TASK_BLOCKED); sti; hlt.
IdleLoop ==
  /\ ~sched.panic /\ self = idle_thread
  /\ sched' = thread_block(sched, "BLOCKED")
  /\ UNCHANGED masked

\* IRQ0.
TimerIntr ==
  /\ ~sched.panic /\ ~masked[self]
  /\ sched' = intr_timer_handler(sched)
  /\ UNCHANGED masked

\* The disk and the keyboard interrupt wake the thread that waits for them.
DeviceIntr ==
  /\ ~sched.panic /\ ~masked[self]
  /\ \E t \in Thread \ {idle_thread} :
        /\ sched.status[t] = "BLOCKED"
        /\ sched' = thread_unblock(sched, t)
  /\ UNCHANGED masked

Next ==
  \/ EnterKernel \/ (\E t \in Thread : LeaveKernel(t))
  \/ Block \/ Yield \/ Wake \/ Create \/ Reap \/ MainExit
  \/ IdleLoop \/ TimerIntr \/ DeviceIntr

(***************************************************************************)
(* Fairness: the idle loop runs; a timer tick that falls into a masked     *)
(* section stays latched in the 8259A and is delivered at the next moment  *)
(* with IF = 1, hence strong fairness; a system call blocks or yields only *)
(* finitely often before it returns.                                       *)
(***************************************************************************)
Fairness ==
  /\ WF_vars(IdleLoop)
  /\ SF_vars(TimerIntr)
  /\ \A t \in Thread : SF_vars(LeaveKernel(t))

Spec == Init /\ [][Next]_vars
FairSpec == Spec /\ Fairness

-----------------------------------------------------------------------------
(***************************************************************************)
(* Properties                                                              *)
(***************************************************************************)

\* Every field has its type and no slice exceeds the thread's priority.
TypeOK ==
  /\ sched \in SchedState
  /\ masked \in [Thread -> BOOLEAN]
  /\ \A t \in Thread : sched.ticks[t] <= priority[t]

\* No ASSERT of schedule, thread_yield, thread_unblock or thread_start fires:
\* no thread is queued twice and only blocked threads are woken.
NoAssertFails == ~sched.panic

\* thread_ready_list holds exactly the READY threads, each once, and exactly
\* the thread on the cpu is RUNNING: no thread is lost, none runs twice, and
\* a DIED or blocked thread cannot be chosen.
ReadyListConsistent == ReadyListExact(sched) /\ OneRunning(sched)

\* A READY thread gets the cpu although woken threads are queued in front of
\* it: they have to use up the slice they were left with, which only
\* schedule() refills, at the back of the list.
NoStarvation ==
  \A t \in Thread : sched.status[t] = "READY" ~> sched.status[t] = "RUNNING"
=============================================================================
