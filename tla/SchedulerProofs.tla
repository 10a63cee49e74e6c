--------------------------- MODULE SchedulerProofs ---------------------------
(***************************************************************************)
(* The scheduler's invariants for any number of threads, any priorities    *)
(* and any sequence of system calls and interrupts.                        *)
(***************************************************************************)
EXTENDS Scheduler, ThreadOpsProofs

(***************************************************************************)
(* The inductive invariant: the scheduler's own invariant, and that the    *)
(* idle thread runs with interrupts on, so that it never blocks in any     *)
(* other way than by its loop.                                             *)
(***************************************************************************)
SlicesBounded == \A t \in Thread : sched.ticks[t] <= priority[t]

IInv ==
  /\ SchedInv(sched)
  /\ masked \in [Thread -> BOOLEAN]
  /\ ~masked[idle_thread]
  /\ SlicesBounded

LEMMA InitIInv == Init => IInv
<1> SUFFICES ASSUME Init PROVE IInv
  OBVIOUS
<1>1. /\ main_thread \in Thread /\ init_process \in Thread /\ idle_thread \in Thread
      /\ priority \in [Thread -> Nat]
  BY ActorsAssumption, ThreadAssumption
<1>2. main_thread # init_process /\ main_thread # idle_thread /\ init_process # idle_thread
  BY ActorsAssumption
<1> DEFINE st == [t \in Thread |->
                    CASE t = main_thread -> "RUNNING"
                      [] t \in {init_process, idle_thread} -> "READY"
                      [] OTHER -> "FREE"]
           q == << init_process, idle_thread >>
<1>3. /\ sched = [cur |-> main_thread, status |-> st, ready |-> q,
                  ticks |-> priority, panic |-> FALSE]
      /\ masked = [t \in Thread |-> t = main_thread]
  BY DEF Init
<1>4. /\ st \in [Thread -> TaskStatus]
      /\ st[main_thread] = "RUNNING"
      /\ st[init_process] = "READY" /\ st[idle_thread] = "READY"
      /\ \A t \in Thread : t \notin {main_thread, init_process, idle_thread}
                             => st[t] = "FREE"
  BY <1>1, <1>2 DEF TaskStatus
<1>5. /\ q \in Seq(Thread) /\ DOMAIN q = {1, 2}
      /\ q[1] = init_process /\ q[2] = idle_thread
  BY <1>1
<1>6. ToSet(q) = {init_process, idle_thread} /\ IsInjective(q)
  <2> HIDE DEF q
  <2>1. QED  BY <1>2, <1>5 DEF ToSet, IsInjective
<1> HIDE DEF st, q
<1>7. SchedInv(sched)
  BY <1>1, <1>2, <1>3, <1>4, <1>5, <1>6
     DEF SchedInv, SchedState, ReadyListExact, InReadyList, OneRunning, IdleAvailable
<1>8. masked \in [Thread -> BOOLEAN] /\ ~masked[idle_thread]
  BY <1>1, <1>2, <1>3
<1>9. SlicesBounded
  BY <1>1, <1>3 DEF SlicesBounded
<1>10. QED  BY <1>7, <1>8, <1>9 DEF IInv

LEMMA NextIInv == IInv /\ [Next]_vars => IInv'
<1> SUFFICES ASSUME IInv, [Next]_vars PROVE IInv'
  OBVIOUS
<1> USE DEF self
<1>1. /\ SchedInv(sched) /\ sched \in SchedState /\ sched.cur \in Thread
      /\ masked \in [Thread -> BOOLEAN] /\ ~masked[idle_thread]
      /\ idle_thread \in Thread /\ priority \in [Thread -> Nat]
      /\ sched.status[idle_thread] \in {"RUNNING", "READY", "BLOCKED"}
      /\ sched.ticks \in [Thread -> Nat]
      /\ \A t \in Thread : sched.ticks[t] <= priority[t]
  BY ThreadAssumption DEF IInv, SlicesBounded, SchedInv, SchedState, IdleAvailable
\* What is left to show of each action.
<1>inv. ASSUME SchedInv(sched'),
              \A t \in Thread : \/ sched'.ticks[t] <= sched.ticks[t]
                                \/ sched'.ticks[t] = priority[t],
              masked' \in [Thread -> BOOLEAN], ~masked'[idle_thread]
       PROVE  IInv'
  <2>1. sched'.ticks \in [Thread -> Nat]
    BY <1>inv DEF SchedInv, SchedState
  <2>2. \A t \in Thread : sched'.ticks[t] <= priority[t]
    BY <1>1, <1>inv, <2>1
  <2>3. QED  BY <1>inv, <2>2 DEF IInv, SlicesBounded
<1>kept. ASSUME SchedInv(sched'), SlicesKept(sched, sched'),
              masked' \in [Thread -> BOOLEAN], ~masked'[idle_thread]
       PROVE  IInv'
  BY <1>1, <1>inv, <1>kept DEF SlicesKept
<1>same. ASSUME NEW r, SchedInv(r), r.ticks = sched.ticks  PROVE SlicesKept(sched, r)
  BY <1>1, <1>same DEF SlicesKept
<1> HIDE DEF IInv
<1>2. CASE EnterKernel
  BY <1>1, <1>2, <1>kept, <1>same DEF EnterKernel
<1>3. CASE \E t \in Thread : LeaveKernel(t)
  BY <1>1, <1>3, <1>kept, <1>same DEF LeaveKernel
<1>4. CASE Block
  <2>1. PICK stat \in BlockStates(sched.cur) :
           sched' = thread_block(sched, stat) /\ masked[sched.cur] /\ masked' = masked
    BY <1>4 DEF Block
  <2>2. stat \in Blocked /\ sched.cur # idle_thread
    BY <1>1, <2>1 DEF BlockStates, Blocked
  <2>3. SchedInv(sched') /\ SlicesKept(sched, sched')
    BY <1>1, <2>1, <2>2, BlockRuns DEF thread_block
  <2>4. QED  BY <1>1, <1>kept, <2>1, <2>3
<1>5. CASE Yield
  <2>1. sched' = thread_yield(sched) /\ masked' = masked
    BY <1>5 DEF Yield
  <2>2. SchedInv(sched') /\ SlicesKept(sched, sched')
    BY <1>1, <2>1, YieldRuns
  <2>3. QED  BY <1>1, <1>kept, <2>1, <2>2
<1>6. CASE Wake \/ DeviceIntr
  <2>1. PICK t \in Thread : sched.status[t] \in Blocked
                            /\ sched' = thread_unblock(sched, t) /\ masked' = masked
    BY <1>6 DEF Wake, DeviceIntr, Blocked
  <2>2. SchedInv(sched') /\ sched'.ticks = sched.ticks
    <3>1. SchedInv(sched)
      BY <1>1
    <3>2. QED  BY <3>1, <2>1, UnblockRuns
  <2>3. QED  BY <1>1, <1>kept, <1>same, <2>1, <2>2
<1>7. CASE Create
  <2>1. PICK t \in Thread : /\ sched.status[t] \in {"FREE", "DIED"}
                            /\ sched' = EnqueueNew(sched, t)
                            /\ masked' = [masked EXCEPT ![t] = FALSE]
    BY <1>7 DEF Create
  <2> DEFINE r == EnqueueNew(sched, t)
  <2>2. SchedInv(r) /\ SlicesKept(sched, r)
    <3>1. SchedInv(sched) /\ sched.status[t] \in {"FREE", "DIED"}
      BY <1>1, <2>1
    <3>2. r = EnqueueNew(sched, t)
      OBVIOUS
    <3> HIDE DEF r
    <3>3. QED  BY <3>1, <3>2, EnqueueRuns
  <2>3. sched' = r
    BY <2>1
  <2> HIDE DEF r
  <2>4. QED  BY <1>1, <1>kept, <2>1, <2>2, <2>3
<1>8. CASE Reap
  <2>1. PICK t \in Thread : /\ sched.status[t] = "HANGING"
                            /\ sched' = thread_exit(sched, t, FALSE)
                            /\ masked' = masked
    BY <1>8 DEF Reap
  <2> DEFINE r == thread_exit(sched, t, FALSE)
  <2>2. SchedInv(r) /\ r.ticks = sched.ticks
    <3>1. SchedInv(sched) /\ sched.status[t] = "HANGING"
      BY <1>1, <2>1
    <3>2. r = thread_exit(sched, t, FALSE)
      OBVIOUS
    <3> HIDE DEF r
    <3>3. QED  BY <3>1, <3>2, ReapRuns
  <2>3. sched' = r
    BY <2>1
  <2> HIDE DEF r
  <2>4. QED  BY <1>1, <1>kept, <1>same, <2>1, <2>2, <2>3
<1>9. CASE MainExit
  <2>1. /\ sched' = thread_exit(sched, sched.cur, TRUE)
        /\ masked' = [masked EXCEPT ![sched.cur] = TRUE]
        /\ sched.cur # idle_thread
    BY <1>9, ActorsAssumption DEF MainExit
  <2>2. sched' = schedule([sched EXCEPT !.status[sched.cur] = "DIED"])
    <3>1. ~InReadyList(sched, sched.cur)
      BY <1>1 DEF SchedInv, ReadyListExact, OneRunning
    <3>2. [sched EXCEPT !.status[sched.cur] = "DIED", !.ready = sched.ready]
           = [sched EXCEPT !.status[sched.cur] = "DIED"]
      BY <1>1 DEF SchedState
    <3>3. QED  BY <2>1, <3>1, <3>2 DEF thread_exit
  <2>3. SchedInv(sched') /\ SlicesKept(sched, sched')
    BY <1>1, <2>1, <2>2, BlockRuns
  <2>4. masked' \in [Thread -> BOOLEAN] /\ ~masked'[idle_thread]
    BY <1>1, <2>1
  <2>5. QED  BY <1>kept, <2>3, <2>4
<1>10. CASE IdleLoop
  <2>1. sched' = thread_block(sched, "BLOCKED") /\ masked' = masked
    BY <1>10 DEF IdleLoop
  <2>2. SchedInv(sched') /\ SlicesKept(sched, sched')
    BY <1>1, <2>1, BlockRuns DEF thread_block, Blocked
  <2>3. QED  BY <1>1, <1>kept, <2>1, <2>2
<1>11. CASE TimerIntr
  <2>1. sched' = intr_timer_handler(sched) /\ masked' = masked
    BY <1>11 DEF TimerIntr
  <2>2. /\ SchedInv(sched')
        /\ \A t \in Thread : \/ sched'.ticks[t] <= sched.ticks[t]
                             \/ sched'.ticks[t] = priority[t]
    <3>1. SchedInv(sched)
      BY <1>1
    <3>2. QED  BY <3>1, <2>1, TickRuns
  <2>3. QED  BY <1>1, <1>inv, <2>1, <2>2
<1>12. CASE UNCHANGED vars
  BY <1>1, <1>12, <1>kept, <1>same DEF vars
<1>13. QED
  BY <1>2, <1>3, <1>4, <1>5, <1>6, <1>7, <1>8, <1>9, <1>10, <1>11, <1>12 DEF Next

LEMMA IInvHolds == Spec => []IInv
  BY InitIInv, NextIInv, PTL DEF Spec

(* Type correctness, slices included. *)
THEOREM Typing == Spec => []TypeOK
<1>1. IInv => TypeOK
  BY DEF IInv, SlicesBounded, TypeOK, SchedInv
<1>2. QED  BY <1>1, IInvHolds, PTL

(* No assertion of the scheduler can fail, whatever threads do. *)
THEOREM NoAssertionFails == Spec => []NoAssertFails
<1>1. IInv => NoAssertFails
  BY DEF IInv, NoAssertFails, SchedInv
<1>2. QED  BY <1>1, IInvHolds, PTL

(* The ready list is exactly the set of READY threads and one thread runs. *)
THEOREM ReadyListIsConsistent == Spec => []ReadyListConsistent
<1>1. IInv => ReadyListConsistent
  BY DEF IInv, ReadyListConsistent, SchedInv
<1>2. QED  BY <1>1, IInvHolds, PTL
=============================================================================
