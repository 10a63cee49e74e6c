-------------------------------- MODULE Sync --------------------------------
(***************************************************************************)
(* Locks used by system calls, by a kernel thread that runs with           *)
(* interrupts on, and by an interrupt handler.                             *)
(*                                                                         *)
(* A system call keeps IF = 0 from the gate to iret.  The main thread runs *)
(* kernel code with IF = 1 after intr_enable() (main.c:15): timer and      *)
(* keyboard interrupts can hit it between any two statements of            *)
(* lock_acquire and lock_release.  The keyboard handler prints an unknown  *)
(* key with console_put_str, so it takes the console lock on the stack of  *)
(* the thread it interrupted.  Hence a thread has two contexts that use    *)
(* locks, its own and that of a handler on top of it.                      *)
(***************************************************************************)
EXTENDS SyncOps

CONSTANTS Client,       \* threads that use locks in their own context
          Preemptible,  \* those that run kernel code with interrupts on
          Uses,         \* Uses[t]: the locks thread t takes
          IrqLock,      \* the locks taken by interrupt handlers
          MaxRepeat     \* bound: nested lock_acquire calls of one context

ASSUME ClientAssumption ==
  /\ Client \subseteq Thread \ {idle_thread}
  /\ Preemptible \subseteq Client
  /\ Uses \in [Client -> SUBSET Lock]
  /\ Lock # {} /\ IrqLock \subseteq Lock
  /\ MaxRepeat \in Nat \ {0}

(***************************************************************************)
(* The discipline under which the locks are correct: an interruptible      *)
(* thread does not use a lock that an interrupt handler takes.  main.c     *)
(* breaks it for the console lock, see the run that violates               *)
(* NoAssertFails.                                                          *)
(***************************************************************************)
LockDiscipline == \A t \in Preemptible : Uses[t] \cap IrqLock = {}

VARIABLES pc,    \* pc[c]: where context c is in lock_acquire / lock_release
          lk,    \* lk[c]: the lock it operates on, when pc[c] # "out"
          nest   \* nest[c]: lock_acquire calls not yet matched by a release

vars == << sched, value, waiters, holder, repeat, pc, lk, nest >>
ctxVars == << pc, lk, nest >>

Ctx == Thread \X {"task", "irq"}

(***************************************************************************)
(* out   not using a lock                                                  *)
(* down  in sema_down            own   sema_down returned, before line 56  *)
(* rep   holder set, before line 57                                        *)
(* held  lock_acquire returned   io    sleeping for a device, lock held    *)
(* relh  before line 74          relr  before line 75                      *)
(* up    before sema_up                                                    *)
(***************************************************************************)
Pc == {"out", "down", "own", "rep", "held", "io", "relh", "relr", "up"}

Init ==
  /\ \E first \in Client :
       \E order \in SetToSeqs(Thread \ {first}) :
         sched = [cur    |-> first,
                  status |-> [t \in Thread |-> IF t = first THEN "RUNNING" ELSE "READY"],
                  ready  |-> order,
                  ticks  |-> priority,
                  panic  |-> FALSE]
  /\ value = [x \in Sema |-> 1]
  /\ waiters = [x \in Sema |-> << >>]
  /\ holder = [l \in Lock |-> NULL]
  /\ repeat = [l \in Lock |-> 0]
  /\ pc = [c \in Ctx |-> "out"]
  /\ lk \in [Ctx -> {CHOOSE l \in Lock : TRUE}]
  /\ nest = [c \in Ctx |-> 0]

Task(t) == << t, "task" >>
Irq(t)  == << t, "irq" >>

\* The context that runs: a handler on top of the thread, or the thread.
Active == IF pc[Irq(self)] # "out" THEN Irq(self) ELSE Task(self)

\* EFLAGS.IF on the cpu.
IntrOn ==
  /\ pc[Irq(self)] = "out"
  /\ \/ pc[Task(self)] = "out"
     \/ self \in Preemptible /\ pc[Task(self)] \notin {"down", "up", "io"}

Goto(c, p) == pc' = [pc EXCEPT ![c] = p]

\* The context that runs is at p.
At(p) == ~sched.panic /\ pc[Active] = p

LockPanic == sched' = Panic(sched) /\ UNCHANGED << semaVars, lockVars, ctxVars >>

-----------------------------------------------------------------------------
(***************************************************************************)
(* lock_acquire                                                            *)
(***************************************************************************)
\* Line 53: is this a nested acquisition?
LockAcquireEntry(c, l) ==
  /\ lk' = [lk EXCEPT ![c] = l]
  /\ nest' = [nest EXCEPT ![c] = 1]
  /\ IF holder[l] # self
     THEN Goto(c, "down") /\ UNCHANGED repeat
     ELSE Goto(c, "held") /\ repeat' = [repeat EXCEPT ![l] = @ + 1]
  /\ UNCHANGED << sched, semaVars, holder >>

Acquire ==
  /\ At("out") /\ self \in Client
  /\ \E l \in Uses[self] : LockAcquireEntry(Task(self), l)

AcquireAgain ==
  /\ At("held") /\ holder[lk[Active]] = self /\ nest[Active] < MaxRepeat
  /\ repeat' = [repeat EXCEPT ![lk[Active]] = @ + 1]
  /\ nest' = [nest EXCEPT ![Active] = @ + 1]
  /\ UNCHANGED << sched, semaVars, holder, pc, lk >>

\* Mutant of Sleep: sema_down tests the value with if instead of while.
Sleep_Once ==
  /\ At("down") /\ SemaWait(lk[Active])
  /\ Goto(Active, "own")
  /\ UNCHANGED << lockVars, lk, nest >>

Sleep ==
  /\ At("down") /\ SemaWait(lk[Active])
  /\ UNCHANGED << lockVars, ctxVars >>

Down ==
  /\ At("down") /\ SemaTake(lk[Active])
  /\ Goto(Active, "own")
  /\ UNCHANGED << lockVars, lk, nest >>

SetHolder ==
  /\ At("own")
  /\ holder' = [holder EXCEPT ![lk[Active]] = self]
  /\ Goto(Active, "rep")
  /\ UNCHANGED << sched, semaVars, repeat, lk, nest >>

SetRepeat ==
  /\ At("rep")
  /\ IF repeat[lk[Active]] # 0
     THEN LockPanic
     ELSE /\ repeat' = [repeat EXCEPT ![lk[Active]] = 1]
          /\ Goto(Active, "held")
          /\ UNCHANGED << sched, semaVars, holder, lk, nest >>

-----------------------------------------------------------------------------
(***************************************************************************)
(* lock_release                                                            *)
(***************************************************************************)
\* Lines 67-73: who holds the lock, and how often?
ReleaseEntry ==
  /\ At("held")
  /\ LET l == lk[Active] IN
       IF holder[l] # self \/ repeat[l] = 0
       THEN LockPanic
       ELSE /\ nest' = [nest EXCEPT ![Active] = @ - 1]
            /\ \/ /\ repeat[l] > 1
                  /\ repeat' = [repeat EXCEPT ![l] = @ - 1]
                  /\ Goto(Active, IF nest[Active] = 1 THEN "out" ELSE "held")
               \/ /\ repeat[l] = 1
                  /\ Goto(Active, "relh")
                  /\ UNCHANGED repeat
            /\ UNCHANGED << sched, semaVars, holder, lk >>

ClearHolder ==
  /\ At("relh")
  /\ holder' = [holder EXCEPT ![lk[Active]] = NULL]
  /\ Goto(Active, "relr")
  /\ UNCHANGED << sched, semaVars, repeat, lk, nest >>

\* Mutant of ClearRepeat: holder_repeat_nr is not reset.
ClearRepeat_Missing ==
  /\ At("relr")
  /\ Goto(Active, "up")
  /\ UNCHANGED << sched, semaVars, lockVars, lk, nest >>

ClearRepeat ==
  /\ At("relr")
  /\ repeat' = [repeat EXCEPT ![lk[Active]] = 0]
  /\ Goto(Active, "up")
  /\ UNCHANGED << sched, semaVars, holder, lk, nest >>

Up ==
  /\ At("up") /\ sema_up(lk[Active])
  /\ Goto(Active, "out")
  /\ UNCHANGED << lockVars, lk, nest >>

-----------------------------------------------------------------------------
(***************************************************************************)
(* What a thread does while it holds a lock: ide_read sleeps until the     *)
(* disk interrupts, busy_wait yields.  Nobody does so with the lock of a   *)
(* handler, which only protects console output.                            *)
(***************************************************************************)
InLongSection == At("held") /\ Active = Task(self) /\ lk[Active] \notin IrqLock

SleepForDevice ==
  /\ InLongSection
  /\ sched' = thread_block(sched, "BLOCKED")
  /\ Goto(Task(self), "io")
  /\ UNCHANGED << semaVars, lockVars, lk, nest >>

DeviceDone ==
  /\ At("io")
  /\ Goto(Active, "held")
  /\ UNCHANGED << sched, semaVars, lockVars, lk, nest >>

YieldHolding ==
  /\ InLongSection
  /\ sched' = thread_yield(sched)
  /\ UNCHANGED << semaVars, lockVars, ctxVars >>

-----------------------------------------------------------------------------
TimerIntr ==
  /\ ~sched.panic /\ IntrOn
  /\ sched' = intr_timer_handler(sched)
  /\ UNCHANGED << semaVars, lockVars, ctxVars >>

DeviceIntr ==
  /\ ~sched.panic /\ IntrOn
  /\ \E t \in Client : /\ pc[Task(t)] = "io" /\ sched.status[t] = "BLOCKED"
                       /\ sched' = thread_unblock(sched, t)
  /\ UNCHANGED << semaVars, lockVars, ctxVars >>

\* An unknown key: the handler takes and releases the console lock.
KeyboardIntr ==
  /\ ~sched.panic /\ IntrOn
  /\ \E l \in IrqLock : LockAcquireEntry(Irq(self), l)

IdleLoop ==
  /\ At("out") /\ self = idle_thread
  /\ sched' = thread_block(sched, "BLOCKED")
  /\ UNCHANGED << semaVars, lockVars, ctxVars >>

\* The rest of lock_acquire and lock_release, once called.
LockStep ==
  \/ Sleep \/ Down \/ SetHolder \/ SetRepeat
  \/ ClearHolder \/ ClearRepeat \/ Up \/ DeviceDone

Next ==
  \/ Acquire \/ AcquireAgain \/ LockStep \/ ReleaseEntry
  \/ SleepForDevice \/ YieldHolding
  \/ TimerIntr \/ DeviceIntr \/ KeyboardIntr \/ IdleLoop

Spec == Init /\ [][Next]_vars

-----------------------------------------------------------------------------
(***************************************************************************)
(* Properties                                                              *)
(***************************************************************************)
TypeOK ==
  /\ SyncTypeOK
  /\ pc \in [Ctx -> Pc]
  /\ lk \in [Ctx -> Lock]
  /\ nest \in [Ctx -> 0 .. MaxRepeat]

\* No ASSERT of sync.c or thread.c fires: a lock is released by its holder
\* only (sync.c:67), a semaphore is never above 1 (sync.c:30, 39), no thread
\* is queued twice (sync.c:21), only blocked threads are woken.
NoAssertFails == ~sched.panic

Owning == {"own", "rep", "held", "io", "relh", "relr", "up"}
OwnersOf(l) == {c \in Ctx : pc[c] \in Owning /\ lk[c] = l}

\* Two contexts are never past sema_down of the same lock, although a woken
\* waiter competes with threads that call lock_acquire before it runs; a
\* context that has released as often as it acquired has freed the lock, and
\* one that has not still holds it: the nesting count is never off.
MutualExclusion ==
  /\ \A l \in Lock : \A c, d \in OwnersOf(l) : c = d
  /\ \A c \in Ctx :
       /\ pc[c] \in {"out", "relh", "relr", "up"} => nest[c] = 0
       /\ pc[c] \in {"held", "io"} => /\ nest[c] > 0
                                      /\ holder[lk[c]] = c[1]
                                      /\ repeat[lk[c]] = nest[c]

\* The list node general_tag is shared by the ready list and the waiters
\* lists: a thread that sleeps on a semaphore is BLOCKED inside sema_down of
\* that semaphore, and its node is in no other list.
GeneralTagInOneList ==
  /\ TypeOK
  /\ \A l \in Lock : /\ IsInjective(waiters[l])
                     /\ \A t \in ToSet(waiters[l]) :
                          /\ sched.status[t] = "BLOCKED"
                          /\ \E c \in {Task(t), Irq(t)} : pc[c] = "down" /\ lk[c] = l
  /\ \A k, l \in Lock : k # l => ToSet(waiters[k]) \cap ToSet(waiters[l]) = {}

\* Whoever sleeps in sema_down is in the list sema_up looks at, and when the
\* lock is free while threads sleep, one of the threads on their way to it is
\* awake: a release that coincides with new arrivals loses no wakeup.
SleepersOn(l) == {t \in Thread : \E c \in {Task(t), Irq(t)} :
                                   pc[c] = "down" /\ lk[c] = l}
NoLostWakeup ==
  \A l \in Lock :
    /\ {t \in SleepersOn(l) : sched.status[t] = "BLOCKED"} \subseteq ToSet(waiters[l])
    /\ value[l] = 1 /\ waiters[l] # << >> =>
         \E t \in SleepersOn(l) : sched.status[t] # "BLOCKED"

\* The implementation of locks behaves as the abstract lock: a lock passes
\* from one owner to the next only by being free in between.
Abstract == INSTANCE AbstractLock
              WITH Owner <- Ctx, owners <- [l \in Lock |-> OwnersOf(l)]
LockRefinement == Abstract!Spec
=============================================================================
