------------------------------ MODULE ThreadOps ------------------------------
(***************************************************************************)
(* The scheduling primitives of thread/thread.c and device/timer.c as      *)
(* operators over the scheduler's state, so that every module that runs    *)
(* kernel threads composes the same schedule(), thread_block(), ...        *)
(*                                                                         *)
(* A scheduler state is a record                                           *)
(*   cur     the thread on the cpu: running_thread()                       *)
(*   status  enum task_status of every PCB; "FREE" is a page that holds no *)
(*           PCB (never allocated, or returned by thread_exit)             *)
(*   ready   thread_ready_list, a list of general_tag nodes                *)
(*   ticks   the time slice left to each thread                            *)
(*   panic   an ASSERT failed: panic_spin disables interrupts and spins    *)
(* The list operations of lib/kernel/list.c that thread.c uses are         *)
(* list_append (Append), list_push (Cons), list_pop (Head and Tail),       *)
(* list_remove (RemoveFirst) and elem_find (membership of ToSet).          *)
(***************************************************************************)
EXTENDS Naturals, SequencesExt

CONSTANTS Thread,        \* the pages that can hold a PCB
          idle_thread,   \* the idle thread created by thread_init
          priority       \* the priority (time slice) of each thread

ASSUME ThreadAssumption ==
  /\ IsFiniteSet(Thread)
  /\ idle_thread \in Thread
  /\ priority \in [Thread -> Nat]

Blocked == {"BLOCKED", "WAITING", "HANGING"}
TaskStatus == {"RUNNING", "READY", "DIED", "FREE"} \cup Blocked

SchedState == [cur    : Thread,
               status : [Thread -> TaskStatus],
               ready  : Seq(Thread),
               ticks  : [Thread -> Nat],
               panic  : BOOLEAN]

\* elem_find(&thread_ready_list, &t->general_tag)
InReadyList(s, t) == t \in ToSet(s.ready)

\* ASSERT(c) with c false: panic_spin never returns.
Panic(s) == [s EXCEPT !.panic = TRUE]

-----------------------------------------------------------------------------
\* Mutant of thread_unblock: the status assignment is missing.
thread_unblock_NoStatus(s, t) ==
  IF s.status[t] \notin Blocked \/ InReadyList(s, t)
  THEN Panic(s)
  ELSE [s EXCEPT !.ready = Cons(t, @)]

\* A woken thread goes to the FRONT of the ready list.
thread_unblock(s, t) ==
  IF s.status[t] \notin Blocked \/ InReadyList(s, t)
  THEN Panic(s)
  ELSE [s EXCEPT !.ready = Cons(t, @), !.status[t] = "READY"]

\* Mutants of RequeueCurrent: the status assignment is missing; list_push
\* instead of list_append.
RequeueCurrent_NoStatus(s) ==
  IF s.status[s.cur] # "RUNNING" THEN s
  ELSE IF InReadyList(s, s.cur) THEN Panic(s)
  ELSE [s EXCEPT !.ready = Append(@, s.cur), !.ticks[s.cur] = priority[s.cur]]
RequeueCurrent_Push(s) ==
  IF s.status[s.cur] # "RUNNING" THEN s
  ELSE IF InReadyList(s, s.cur) THEN Panic(s)
  ELSE [s EXCEPT !.ready = Cons(s.cur, @),
                 !.ticks[s.cur] = priority[s.cur],
                 !.status[s.cur] = "READY"]

\* A thread that is still RUNNING only lost its time slice: back of the
\* list with a full slice.
RequeueCurrent(s) ==
  IF s.status[s.cur] # "RUNNING" THEN s
  ELSE IF InReadyList(s, s.cur) THEN Panic(s)
  ELSE [s EXCEPT !.ready = Append(@, s.cur),
                 !.ticks[s.cur] = priority[s.cur],
                 !.status[s.cur] = "READY"]

\* An empty ready list is filled with the idle thread.
ProvideIdle(s) ==
  IF s.ready = << >> THEN thread_unblock(s, idle_thread) ELSE s

\* list_pop, status := RUNNING, process_activate and switch_to.
SwitchToHead(s) ==
  IF s.panic THEN s
  ELSE [s EXCEPT !.ready = Tail(@),
                 !.cur = Head(s.ready),
                 !.status[Head(s.ready)] = "RUNNING"]

schedule(s) == SwitchToHead(ProvideIdle(RequeueCurrent(s)))

\* The running thread blocks itself.
thread_block(s, stat) == schedule([s EXCEPT !.status[s.cur] = stat])

\* The running thread goes to the back of the ready list, keeping its ticks.
thread_yield(s) ==
  IF InReadyList(s, s.cur) THEN Panic(s)
  ELSE schedule([s EXCEPT !.ready = Append(@, s.cur),
                          !.status[s.cur] = "READY"])

\* A new PCB enters the ready list (thread_start, sys_fork, process_execute).
EnqueueNew(s, t) ==
  IF InReadyList(s, t) THEN Panic(s)
  ELSE [s EXCEPT !.ready = Append(@, t),
                 !.ticks[t] = priority[t],
                 !.status[t] = "READY"]

\* thread_exit(thread_over, need_schedule).
thread_exit(s, t, need_schedule) ==
  LET dead == [s EXCEPT !.status[t] = "DIED",
                        !.ready = IF InReadyList(s, t) THEN RemoveFirst(@, t) ELSE @]
  IN IF need_schedule THEN schedule(dead) ELSE dead

\* Mutant of intr_timer_handler: the slice, a byte, is decremented before the
\* test.
intr_timer_handler_Early(s) ==
  LET ticked == [s EXCEPT !.ticks[s.cur] = (@ - 1) % 256]
  IN IF ticked.ticks[s.cur] = 0 THEN schedule(ticked) ELSE ticked

\* The timer interrupt: one tick of the running thread's slice.
intr_timer_handler(s) ==
  IF s.ticks[s.cur] = 0 THEN schedule(s) ELSE [s EXCEPT !.ticks[s.cur] = @ - 1]

-----------------------------------------------------------------------------
(***************************************************************************)
(* What every entry into the scheduler relies on: the ready list holds     *)
(* exactly the READY threads, once each; the running thread is the only    *)
(* RUNNING one; idle is never in a state thread_unblock would reject.      *)
(***************************************************************************)
ReadyListExact(s) ==
  /\ IsInjective(s.ready)
  /\ \A t \in Thread : InReadyList(s, t) <=> s.status[t] = "READY"

OneRunning(s) ==
  \A t \in Thread : s.status[t] = "RUNNING" <=> t = s.cur

IdleAvailable(s) == s.status[idle_thread] \in {"RUNNING", "READY", "BLOCKED"}

SchedInv(s) ==
  /\ s \in SchedState
  /\ ~s.panic
  /\ ReadyListExact(s)
  /\ OneRunning(s)
  /\ IdleAvailable(s)
=============================================================================
