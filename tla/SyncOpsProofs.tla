---------------------------- MODULE SyncOpsProofs ----------------------------
(***************************************************************************)
(* What one sema_down or sema_up does to the scheduler and to the waiters  *)
(* lists, proved once for every module that uses semaphores and locks.     *)
(***************************************************************************)
EXTENDS SyncOps, ThreadOpsProofs, FiniteSetTheorems

(* A ready list in which every thread of a finite set stands once.         *)
LEMMA OrderOfAll ==
  ASSUME NEW S, IsFiniteSet(S), NEW order \in SetToSeqs(S)
  PROVE  order \in Seq(S) /\ IsInjective(order) /\ ToSet(order) = S
<1> DEFINE n == Cardinality(S)
<1>1. n \in Nat
  BY FS_CardinalityType
<1>2. /\ order \in [1 .. n -> S]
      /\ \A i, j \in 1 .. n : i # j => order[i] # order[j]
  BY DEF SetToSeqs
<1> HIDE DEF n
<1>3. order \in Seq(S) /\ DOMAIN order = 1 .. n
  BY <1>1, <1>2
<1>4. IsInjective(order)
  BY <1>2, <1>3 DEF IsInjective
<1>5. ToSet(order) = S
  <2>1. IsFiniteSet(1 .. n) /\ Cardinality(1 .. n) = n
    BY <1>1, FS_Interval
  <2>2. order \in Injection(1 .. n, S)
    BY <1>2 DEF Injection, IsInjective
  <2>3. order \in Surjection(1 .. n, S)
    BY <2>1, <2>2, FS_Injection DEF n
  <2>4. QED  BY <1>2, <1>3, <2>3 DEF Surjection, ToSet
<1>6. QED  BY <1>3, <1>4, <1>5

(* The first state of the modules that start with some threads ready and    *)
(* one of them on the cpu.                                                  *)
LEMMA StartRuns ==
  ASSUME NEW first \in Thread, NEW S \in SUBSET Thread,
         first \notin S, idle_thread \in S \cup {first},
         NEW order \in SetToSeqs(S), NEW st,
         st = [t \in Thread |-> IF t = first THEN "RUNNING"
                                ELSE IF t \in S THEN "READY" ELSE "BLOCKED"],
         NEW s, s = [cur |-> first, status |-> st, ready |-> order,
                     ticks |-> priority, panic |-> FALSE]
  PROVE  SchedInv(s)
<1>1. /\ order \in Seq(Thread) /\ IsInjective(order) /\ ToSet(order) = S
  <2>1. IsFiniteSet(S)
    BY ThreadAssumption, FS_Subset
  <2>2. order \in Seq(S) /\ IsInjective(order) /\ ToSet(order) = S
    BY <2>1, OrderOfAll
  <2>3. QED  BY <2>2
<1>2. st \in [Thread -> TaskStatus]
  BY DEF TaskStatus, Blocked
<1>3. s \in SchedState
  BY <1>1, <1>2, ThreadAssumption DEF SchedState
<1>4. ReadyListExact(s)
  BY <1>1, Zenon DEF ReadyListExact, InReadyList
<1>5. OneRunning(s)
  BY DEF OneRunning
<1>6. IdleAvailable(s)
  BY ThreadAssumption DEF IdleAvailable
<1>7. QED  BY <1>3, <1>4, <1>5, <1>6 DEF SchedInv

-----------------------------------------------------------------------------
(* thread_block(BLOCKED) seen from the threads: the caller sleeps, the      *)
(* others, idle excepted, are blocked or not as before.                     *)
LEMMA BlockStep ==
  ASSUME NEW s, SchedInv(s), NEW r, r = thread_block(s, "BLOCKED")
  PROVE  /\ SchedInv(r) /\ SlicesKept(s, r)
         /\ s.cur # idle_thread => r.status[s.cur] = "BLOCKED"
         /\ \A t \in Thread \ {idle_thread, s.cur} :
              IF Runnable(s, t) THEN Runnable(r, t) ELSE r.status[t] = s.status[t]
<1> DEFINE b == [s EXCEPT !.status[s.cur] = "BLOCKED"]
<1>1. s.cur \in Thread /\ s.status \in [Thread -> TaskStatus]
  BY DEF SchedInv, SchedState
<1>2. r = schedule(b)
  BY DEF thread_block
<1>3. b = [s EXCEPT !.status[s.cur] = "BLOCKED"] /\ "BLOCKED" \in Blocked \cup {"DIED"}
  BY DEF Blocked
<1> HIDE DEF b
<1>4. /\ SchedInv(r) /\ SameBlocked(b, r) /\ SlicesKept(s, r)
      /\ b.status = [s.status EXCEPT ![s.cur] = "BLOCKED"]
  BY <1>2, <1>3, BlockRuns
<1>5. QED  BY <1>1, <1>4 DEF SameBlocked, Runnable

(* sema_down on the value 0: the running thread goes to sleep at the end of *)
(* the waiters list, and some other thread runs.                            *)
LEMMA WaitStep ==
  ASSUME NEW x \in Sema, SchedInv(sched), waiters \in [Sema -> Seq(Thread)],
         IsInjective(waiters[x]), self \notin ToSet(waiters[x]), SemaWait(x)
  PROVE  /\ SchedInv(sched') /\ value[x] = 0 /\ value' = value
         /\ waiters' \in [Sema -> Seq(Thread)]
         /\ waiters' = [waiters EXCEPT ![x] = Append(@, self)]
         /\ IsInjective(waiters'[x])
         /\ ToSet(waiters'[x]) = ToSet(waiters[x]) \cup {self}
         /\ self # idle_thread => sched'.status[self] = "BLOCKED"
         /\ \A t \in Thread \ {idle_thread, self} :
              IF Runnable(sched, t) THEN Runnable(sched', t)
              ELSE sched'.status[t] = sched.status[t]
<1> USE DEF self
<1>1. /\ sched \in SchedState /\ sched.cur \in Thread /\ waiters[x] \in Seq(Thread)
  BY DEF SchedInv, SchedState
<1>2. /\ value[x] = 0 /\ value' = value
      /\ waiters' = [waiters EXCEPT ![x] = Append(@, sched.cur)]
      /\ sched' = thread_block(sched, "BLOCKED")
  BY DEF SemaWait
<1>3. /\ waiters' \in [Sema -> Seq(Thread)] /\ IsInjective(waiters'[x])
      /\ ToSet(waiters'[x]) = ToSet(waiters[x]) \cup {sched.cur}
  <2>1. /\ Append(waiters[x], sched.cur) \in Seq(Thread)
        /\ ToSet(Append(waiters[x], sched.cur)) = ToSet(waiters[x]) \cup {sched.cur}
        /\ IsInjective(Append(waiters[x], sched.cur))
    BY <1>1, AppendElems
  <2>2. waiters'[x] = Append(waiters[x], sched.cur)
    BY <1>2
  <2>3. waiters' \in [Sema -> Seq(Thread)]
    BY <1>2, <2>1
  <2>4. QED  BY <2>1, <2>2, <2>3, Zenon
<1>4. /\ SchedInv(sched')
      /\ sched.cur # idle_thread => sched'.status[sched.cur] = "BLOCKED"
      /\ \A t \in Thread \ {idle_thread, sched.cur} :
           IF Runnable(sched, t) THEN Runnable(sched', t)
           ELSE sched'.status[t] = sched.status[t]
  BY <1>2, BlockStep
<1>5. QED  BY <1>2, <1>3, <1>4

(* sema_up of a semaphore that is 0: the first waiter, if any, is ready.    *)
LEMMA UpStep ==
  ASSUME NEW x \in Sema, SchedInv(sched), waiters \in [Sema -> Seq(Thread)],
         IsInjective(waiters[x]), value[x] = 0,
         \A t \in ToSet(waiters[x]) : sched.status[t] \in Blocked,
         sema_up(x)
  PROVE  /\ SchedInv(sched') /\ sched'.cur = sched.cur
         /\ value' = [value EXCEPT ![x] = 1]
         /\ waiters' \in [Sema -> Seq(Thread)]
         /\ \/ waiters[x] = << >> /\ waiters' = waiters /\ sched' = sched
            \/ \E t \in ToSet(waiters[x]) :
                 /\ t \in Thread
                 /\ waiters' = [waiters EXCEPT ![x] = Tail(@)]
                 /\ IsInjective(waiters'[x])
                 /\ ToSet(waiters'[x]) = ToSet(waiters[x]) \ {t}
                 /\ sched'.status = [sched.status EXCEPT ![t] = "READY"]
<1>1. value' = [value EXCEPT ![x] = 1]
  BY DEF sema_up
<1>2. CASE waiters[x] = << >>
  BY <1>1, <1>2 DEF sema_up
<1>3. CASE waiters[x] # << >>
  <2> DEFINE t == Head(waiters[x])
  <2>1. /\ waiters' = [waiters EXCEPT ![x] = Tail(@)]
        /\ sched' = thread_unblock(sched, t)
    BY <1>3 DEF sema_up
  <2>2. /\ t \in Thread /\ t \in ToSet(waiters[x]) /\ Tail(waiters[x]) \in Seq(Thread)
        /\ ToSet(Tail(waiters[x])) = ToSet(waiters[x]) \ {t}
        /\ IsInjective(Tail(waiters[x]))
    <3>1. waiters[x] \in Seq(Thread)
      OBVIOUS
    <3>2. QED  BY <1>3, <3>1, TailElems, Zenon
  <2> HIDE DEF t
  <2>3. /\ waiters'[x] = Tail(waiters[x]) /\ waiters' \in [Sema -> Seq(Thread)]
    BY <2>1, <2>2
  <2>4. /\ SchedInv(sched') /\ sched'.cur = sched.cur
        /\ sched'.status = [sched.status EXCEPT ![t] = "READY"]
    BY <2>1, <2>2, UnblockRuns
  <2>5. IsInjective(waiters'[x]) /\ ToSet(waiters'[x]) = ToSet(waiters[x]) \ {t}
    BY <2>2, <2>3, Zenon
  <2>6. QED  BY <1>1, <2>1, <2>2, <2>3, <2>4, <2>5
<1>4. QED  BY <1>2, <1>3
=============================================================================
