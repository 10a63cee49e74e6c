------------------------------- MODULE SyncOps -------------------------------
(***************************************************************************)
(* Semaphores and locks of thread/sync.c over the scheduler of ThreadOps.  *)
(*                                                                         *)
(* sema_down and sema_up disable interrupts, so each is one step up to the *)
(* point where thread_block switches to another thread.  sema_down is a    *)
(* while loop: the branch that sleeps (SemaWait) is taken again when the   *)
(* woken thread finds the value 0, the other branch (SemaTake) leaves it.  *)
(***************************************************************************)
EXTENDS ThreadOps

CONSTANTS Sema,   \* the semaphores; a lock is named by the semaphore in it
          Lock,   \* those that are the semaphore of a struct lock
          NULL    \* the holder of a free lock

ASSUME SyncAssumption ==
  /\ Lock \subseteq Sema
  /\ NULL \notin Thread

VARIABLES sched,     \* the scheduler's state
          value,     \* value[x]:   psema->value
          waiters,   \* waiters[x]: psema->waiters, a list of general_tag nodes
          holder,    \* holder[l]:  plock->holder
          repeat     \* repeat[l]:  plock->holder_repeat_nr

semaVars == << value, waiters >>
lockVars == << holder, repeat >>
syncVars == << sched, value, waiters, holder, repeat >>

self == sched.cur

\* ASSERT(c) for a c that does not hold: nothing but the panic happens.
SemaPanic == sched' = Panic(sched) /\ UNCHANGED semaVars

-----------------------------------------------------------------------------
\* Mutant of SemaWait: the thread is not put into the waiters list.
SemaWait_Unlisted(x) ==
  /\ value[x] = 0
  /\ sched' = thread_block(sched, "BLOCKED")
  /\ UNCHANGED semaVars

SemaWait(x) ==
  /\ value[x] = 0
  /\ IF self \in ToSet(waiters[x])
     THEN SemaPanic
     ELSE /\ waiters' = [waiters EXCEPT ![x] = Append(@, self)]
          /\ sched' = thread_block(sched, "BLOCKED")
          /\ UNCHANGED value

\* Mutant of SemaTake: the value is not decremented.
SemaTake_KeepsValue(x) ==
  /\ value[x] # 0
  /\ UNCHANGED << sched, value, waiters >>

SemaTake(x) ==
  /\ value[x] # 0
  /\ IF value[x] # 1
     THEN SemaPanic
     ELSE /\ value' = [value EXCEPT ![x] = 0]
          /\ UNCHANGED << sched, waiters >>

sema_down(x) == SemaWait(x) \/ SemaTake(x)

\* Mutants of sema_up: the woken waiter stays in the list; nobody is woken.
sema_up_KeepsWaiter(x) ==
  /\ value' = [value EXCEPT ![x] = 1]
  /\ sched' = IF waiters[x] = << >> THEN sched
              ELSE thread_unblock(sched, Head(waiters[x]))
  /\ UNCHANGED waiters
sema_up_NoWakeup(x) ==
  /\ value' = [value EXCEPT ![x] = 1]
  /\ UNCHANGED << sched, waiters >>

\* The first waiter is made ready; it still has to find the value 1 when it
\* gets the cpu.
sema_up(x) ==
  IF value[x] # 0
  THEN SemaPanic
  ELSE /\ value' = [value EXCEPT ![x] = 1]
       /\ IF waiters[x] = << >>
          THEN UNCHANGED << sched, waiters >>
          ELSE /\ waiters' = [waiters EXCEPT ![x] = Tail(@)]
               /\ sched' = thread_unblock(sched, Head(waiters[x]))

-----------------------------------------------------------------------------
(***************************************************************************)
(* lock_acquire and lock_release as one step each, for callers that run    *)
(* with interrupts off.  (Module Sync has them statement by statement.)    *)
(***************************************************************************)
LockWait(l) ==
  /\ holder[l] # self
  /\ SemaWait(l)
  /\ UNCHANGED lockVars

LockTake(l) ==
  /\ holder[l] # self
  /\ SemaTake(l)
  /\ holder' = [holder EXCEPT ![l] = self]
  /\ repeat' = [repeat EXCEPT ![l] = 1]

LockAgain(l) ==
  /\ holder[l] = self
  /\ repeat' = [repeat EXCEPT ![l] = @ + 1]
  /\ UNCHANGED << sched, value, waiters, holder >>

lock_release(l) ==
  IF holder[l] # self
  THEN SemaPanic /\ UNCHANGED lockVars
  ELSE IF repeat[l] > 1
  THEN repeat' = [repeat EXCEPT ![l] = @ - 1] /\ UNCHANGED << sched, value, waiters, holder >>
  ELSE /\ holder' = [holder EXCEPT ![l] = NULL]
       /\ repeat' = [repeat EXCEPT ![l] = 0]
       /\ sema_up(l)

SyncTypeOK ==
  /\ sched \in SchedState
  /\ value \in [Sema -> {0, 1}]
  /\ waiters \in [Sema -> Seq(Thread)]
  /\ holder \in [Lock -> Thread \cup {NULL}]
  /\ repeat \in [Lock -> Nat]
=============================================================================
