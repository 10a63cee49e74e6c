------------------------------ MODULE SyncProofs ------------------------------
(***************************************************************************)
(* The locks for any number of threads and locks, when interruptible       *)
(* threads stay away from the locks of interrupt handlers.                 *)
(***************************************************************************)
EXTENDS Sync, SyncOpsProofs

Owns(c, l) == pc[c] \in Owning /\ lk[c] = l

(***************************************************************************)
(* Where contexts can be.  A handler never sleeps, so it is out unless it  *)
(* is on top of the running thread; and a lock of a handler is only used   *)
(* while its user keeps the cpu, which is why nobody ever waits for it.    *)
(***************************************************************************)
ContextsInv ==
  /\ \A t \in Thread : pc[Task(t)] # "out" => t \in Client /\ lk[Task(t)] \in Uses[t]
  /\ \A t \in Thread : pc[Irq(t)] # "out" =>
       /\ t = sched.cur /\ lk[Irq(t)] \in IrqLock
       /\ pc[Task(t)] # "out" =>
            t \in Preemptible /\ pc[Task(t)] \notin {"down", "up", "io"}
  /\ \A c \in Ctx : pc[c] # "out" /\ lk[c] \in IrqLock =>
       c[1] = sched.cur /\ pc[c] # "io"

(***************************************************************************)
(* The value of a lock's semaphore says whether it has an owner; the       *)
(* fields of the lock follow the owner through lock_acquire and            *)
(* lock_release.                                                           *)
(***************************************************************************)
OwnersInv ==
  /\ \A l \in Lock : \A c, d \in Ctx : Owns(c, l) /\ Owns(d, l) => c = d
  /\ \A l \in Lock : value[l] = 1 => \A c \in Ctx : ~Owns(c, l)
  /\ \A l \in Lock : value[l] = 0 => \E c \in Ctx : Owns(c, l)

FieldsInv ==
  /\ \A l \in Lock : value[l] = 1 => holder[l] = NULL /\ repeat[l] = 0
  /\ \A c \in Ctx :
       /\ pc[c] \in {"own", "relr", "up"} => holder[lk[c]] = NULL
       /\ pc[c] \in {"rep", "held", "io", "relh"} => holder[lk[c]] = c[1]
       /\ pc[c] \in {"own", "rep", "up"} => repeat[lk[c]] = 0
       /\ pc[c] \in {"held", "io"} => nest[c] > 0 /\ repeat[lk[c]] = nest[c]
       /\ pc[c] \in {"relh", "relr"} => repeat[lk[c]] = 1
       /\ pc[c] \in {"out", "relh", "relr", "up"} => nest[c] = 0
       /\ pc[c] \in {"down", "own", "rep"} => nest[c] = 1

\* Thread t is in sema_down of l, in its own context.
Downs(t, l) == pc[Task(t)] = "down" /\ lk[Task(t)] = l

(***************************************************************************)
(* The waiters of a lock are the threads asleep in its sema_down; if the   *)
(* lock is free, one of those on their way to it is awake.                 *)
(***************************************************************************)
WaitersInv ==
  \A l \in Lock :
    /\ IsInjective(waiters[l])
    /\ \A t \in Thread :
         t \in ToSet(waiters[l]) <=> Downs(t, l) /\ sched.status[t] = "BLOCKED"
    /\ value[l] = 1 /\ waiters[l] # << >> =>
         \E t \in Thread : Downs(t, l) /\ Runnable(sched, t)

IInv ==
  /\ TypeOK
  /\ SchedInv(sched)
  /\ ContextsInv
  /\ OwnersInv
  /\ FieldsInv
  /\ WaitersInv

-----------------------------------------------------------------------------
(* A thread has two contexts, and which thread a context belongs to.        *)
LEMMA Contexts ==
  /\ \A t \in Thread : /\ Task(t) \in Ctx /\ Task(t)[1] = t
                       /\ Irq(t) \in Ctx /\ Irq(t)[1] = t
  /\ \A c \in Ctx : c[1] \in Thread /\ (c = Task(c[1]) \/ c = Irq(c[1]))
  /\ \A t, u \in Thread : Task(t) # Irq(u)
BY DEF Task, Irq, Ctx

(* The facts about the current state that every step starts from.           *)
LEMMA Facts ==
  ASSUME IInv
  PROVE  /\ sched.cur \in Thread /\ sched.status \in [Thread -> TaskStatus]
         /\ \A t \in Thread : sched.status[t] = "RUNNING" <=> t = sched.cur
         /\ ~sched.panic
         /\ value \in [Sema -> {0, 1}] /\ waiters \in [Sema -> Seq(Thread)]
         /\ holder \in [Lock -> Thread \cup {NULL}] /\ repeat \in [Lock -> Nat]
         /\ pc \in [Ctx -> Pc] /\ lk \in [Ctx -> Lock]
         /\ nest \in [Ctx -> 0 .. MaxRepeat]
         /\ Active \in Ctx /\ Active[1] = sched.cur
         /\ \/ Active = Task(sched.cur) /\ pc[Irq(sched.cur)] = "out"
            \/ Active = Irq(sched.cur) /\ pc[Irq(sched.cur)] # "out"
<1>1. /\ sched \in SchedState /\ ~sched.panic
      /\ \A t \in Thread : sched.status[t] = "RUNNING" <=> t = sched.cur
  BY DEF IInv, SchedInv, OneRunning
<1>2. sched.cur \in Thread /\ sched.status \in [Thread -> TaskStatus]
  BY <1>1 DEF SchedState
<1>3. /\ value \in [Sema -> {0, 1}] /\ waiters \in [Sema -> Seq(Thread)]
      /\ holder \in [Lock -> Thread \cup {NULL}] /\ repeat \in [Lock -> Nat]
      /\ pc \in [Ctx -> Pc] /\ lk \in [Ctx -> Lock]
      /\ nest \in [Ctx -> 0 .. MaxRepeat]
  BY DEF IInv, TypeOK, SyncTypeOK
<1>4. /\ Active \in Ctx /\ Active[1] = sched.cur
      /\ \/ Active = Task(sched.cur) /\ pc[Irq(sched.cur)] = "out"
         \/ Active = Irq(sched.cur) /\ pc[Irq(sched.cur)] # "out"
  BY <1>2, Contexts DEF Active, self
<1>5. QED  BY <1>1, <1>2, <1>3, <1>4

LEMMA InitIInv == Init => IInv
<1> SUFFICES ASSUME Init PROVE IInv
  OBVIOUS
<1>1. SchedInv(sched)
  <2>1. PICK first \in Client :
           \E order \in SetToSeqs(Thread \ {first}) :
             sched = [cur    |-> first,
                      status |-> [t \in Thread |-> IF t = first THEN "RUNNING" ELSE "READY"],
                      ready  |-> order, ticks  |-> priority, panic  |-> FALSE]
    BY DEF Init
  <2> DEFINE S == Thread \ {first}
             st == [t \in Thread |-> IF t = first THEN "RUNNING"
                                     ELSE IF t \in S THEN "READY" ELSE "BLOCKED"]
  <2>2. PICK order \in SetToSeqs(S) :
           sched = [cur |-> first, status |-> st, ready |-> order,
                    ticks |-> priority, panic |-> FALSE]
    <3>1. st = [t \in Thread |-> IF t = first THEN "RUNNING" ELSE "READY"]
      OBVIOUS
    <3>2. QED  BY <2>1, <3>1
  <2>3. /\ first \in Thread /\ first \notin S /\ S \in SUBSET Thread
        /\ idle_thread \in S \cup {first}
    BY ClientAssumption, ThreadAssumption
  <2>4. QED  BY <2>2, <2>3, StartRuns
<1>2. /\ value = [x \in Sema |-> 1] /\ waiters = [x \in Sema |-> << >>]
      /\ holder = [l \in Lock |-> NULL] /\ repeat = [l \in Lock |-> 0]
      /\ pc = [c \in Ctx |-> "out"] /\ nest = [c \in Ctx |-> 0]
  BY DEF Init
<1>3. lk \in [Ctx -> Lock]
  <2>1. (CHOOSE l \in Lock : TRUE) \in Lock
    BY ClientAssumption
  <2>2. QED  BY <2>1 DEF Init
<1>4. TypeOK
  BY <1>1, <1>2, <1>3, ClientAssumption DEF TypeOK, SyncTypeOK, SchedInv, Pc
<1>5. ContextsInv
  BY <1>2, Contexts DEF ContextsInv
<1>6. OwnersInv
  BY <1>2, SyncAssumption DEF OwnersInv, Owns, Owning
<1>7. FieldsInv
  BY <1>2, SyncAssumption DEF FieldsInv
<1>8. WaitersInv
  <2>1. ToSet(<< >>) = {} /\ IsInjective(<< >>)
    BY DEF ToSet, IsInjective
  <2>2. \A l \in Lock : waiters[l] = << >>
    BY <1>2, SyncAssumption
  <2>3. QED  BY <1>2, <2>1, <2>2, Contexts DEF WaitersInv, Downs
<1>9. QED  BY <1>1, <1>4, <1>5, <1>6, <1>7, <1>8 DEF IInv

-----------------------------------------------------------------------------
\* No context takes or gives up a lock.
SameOwners == \A c \in Ctx, l \in Lock : Owns(c, l)' <=> Owns(c, l)

(* The owner of a lock goes on inside lock_acquire or lock_release.         *)
LEMMA OwnerMoves ==
  ASSUME IInv, pc[Active] \in Owning, NEW p \in Owning \ {"io"},
         pc' = [pc EXCEPT ![Active] = p], lk' = lk, UNCHANGED << sched, semaVars >>
  PROVE  /\ SchedInv(sched') /\ pc' \in [Ctx -> Pc] /\ lk' \in [Ctx -> Lock]
         /\ ContextsInv' /\ OwnersInv' /\ WaitersInv' /\ SameOwners
<1> USE DEF semaVars
<1>1. /\ SchedInv(sched) /\ ContextsInv /\ OwnersInv /\ WaitersInv
  BY DEF IInv
<1>2. /\ pc \in [Ctx -> Pc] /\ lk \in [Ctx -> Lock]
      /\ Active \in Ctx /\ Active[1] = sched.cur /\ sched.cur \in Thread
      /\ \/ Active = Task(sched.cur) /\ pc[Irq(sched.cur)] = "out"
         \/ Active = Irq(sched.cur) /\ pc[Irq(sched.cur)] # "out"
  BY Facts
<1>3. pc' \in [Ctx -> Pc] /\ lk' \in [Ctx -> Lock]
  BY <1>2 DEF Owning, Pc
<1>4. /\ pc[Active] \notin {"out", "down"} /\ p \notin {"out", "down", "io"}
      /\ pc'[Active] = p /\ \A c \in Ctx \ {Active} : pc'[c] = pc[c]
  BY <1>2 DEF Owning
<1>5. ContextsInv'
  BY <1>1, <1>2, <1>4, Contexts DEF ContextsInv
<1>6. OwnersInv' /\ SameOwners
  <2>1. \A c \in Ctx, l \in Lock : Owns(c, l)' <=> Owns(c, l)
    BY <1>2, <1>4 DEF Owns
  <2>2. QED  BY <1>1, <2>1 DEF OwnersInv, SameOwners
<1>7. WaitersInv'
  <2>1. \A t \in Thread, l \in Lock : Downs(t, l)' <=> Downs(t, l)
    BY <1>2, <1>4, Contexts DEF Downs
  <2>2. QED  BY <1>1, <2>1 DEF WaitersInv, Runnable
<1>8. QED  BY <1>1, <1>3, <1>5, <1>6, <1>7

(* The fields of other locks belong to other contexts.                      *)
LEMMA OtherFields ==
  ASSUME IInv, pc[Active] \in Owning,
         NEW c \in Ctx \ {Active}, pc[c] \in Owning
  PROVE  lk[c] # lk[Active]
BY Facts DEF IInv, OwnersInv, Owns

LEMMA SetHolderStep == IInv /\ SetHolder => IInv' /\ SameOwners
<1> SUFFICES ASSUME IInv, SetHolder PROVE IInv' /\ SameOwners
  OBVIOUS
<1> DEFINE a == Active
<1>1. /\ pc[a] = "own" /\ holder' = [holder EXCEPT ![lk[a]] = sched.cur]
      /\ pc' = [pc EXCEPT ![a] = "rep"]
      /\ UNCHANGED << sched, value, waiters, repeat, lk, nest >>
  BY DEF SetHolder, At, Goto, self, semaVars
<1>2. /\ SchedInv(sched') /\ pc' \in [Ctx -> Pc] /\ lk' \in [Ctx -> Lock]
      /\ ContextsInv' /\ OwnersInv' /\ WaitersInv' /\ SameOwners
  BY <1>1, OwnerMoves DEF Owning, semaVars
<1>3. TypeOK'
  BY <1>1, <1>2, Facts DEF IInv, TypeOK, SyncTypeOK, SchedInv
<1>4. FieldsInv'
  BY <1>1, Facts, OtherFields DEF IInv, FieldsInv, Owning, OwnersInv, Owns
<1>5. QED  BY <1>2, <1>3, <1>4 DEF IInv

LEMMA SetRepeatStep == IInv /\ SetRepeat => IInv' /\ SameOwners
<1> SUFFICES ASSUME IInv, SetRepeat PROVE IInv' /\ SameOwners
  OBVIOUS
<1> DEFINE a == Active
<1>1. /\ pc[a] = "rep" /\ repeat' = [repeat EXCEPT ![lk[a]] = 1]
      /\ pc' = [pc EXCEPT ![a] = "held"]
      /\ UNCHANGED << sched, value, waiters, holder, lk, nest >>
  <2>1. repeat[lk[a]] = 0
    BY Facts DEF SetRepeat, At, IInv, FieldsInv
  <2>2. QED  BY <2>1 DEF SetRepeat, At, Goto, semaVars
<1>2. /\ SchedInv(sched') /\ pc' \in [Ctx -> Pc] /\ lk' \in [Ctx -> Lock]
      /\ ContextsInv' /\ OwnersInv' /\ WaitersInv' /\ SameOwners
  BY <1>1, OwnerMoves DEF Owning, semaVars
<1>3. TypeOK'
  BY <1>1, <1>2, Facts, ClientAssumption DEF IInv, TypeOK, SyncTypeOK, SchedInv
<1>4. FieldsInv'
  BY <1>1, Facts, OtherFields DEF IInv, FieldsInv, Owning, OwnersInv, Owns
<1>5. QED  BY <1>2, <1>3, <1>4 DEF IInv

LEMMA AcquireAgainStep == IInv /\ AcquireAgain => IInv' /\ SameOwners
<1> SUFFICES ASSUME IInv, AcquireAgain PROVE IInv' /\ SameOwners
  OBVIOUS
<1> DEFINE a == Active
<1>1. /\ pc[a] = "held" /\ pc' = [pc EXCEPT ![a] = "held"]
      /\ nest[a] < MaxRepeat
      /\ repeat' = [repeat EXCEPT ![lk[a]] = @ + 1]
      /\ nest' = [nest EXCEPT ![a] = @ + 1]
      /\ UNCHANGED << sched, value, waiters, holder, lk >>
  BY Facts DEF AcquireAgain, At, semaVars
<1>2. /\ SchedInv(sched') /\ pc' \in [Ctx -> Pc] /\ lk' \in [Ctx -> Lock]
      /\ ContextsInv' /\ OwnersInv' /\ WaitersInv' /\ SameOwners
  BY <1>1, OwnerMoves DEF Owning, semaVars
<1>3. TypeOK'
  BY <1>1, <1>2, Facts, ClientAssumption DEF IInv, TypeOK, SyncTypeOK, SchedInv
<1>4. FieldsInv'
  BY <1>1, Facts, OtherFields DEF IInv, FieldsInv, Owning, OwnersInv, Owns
<1>5. QED  BY <1>2, <1>3, <1>4 DEF IInv

LEMMA ReleaseEntryStep == IInv /\ ReleaseEntry => IInv' /\ SameOwners
<1> SUFFICES ASSUME IInv, ReleaseEntry PROVE IInv' /\ SameOwners
  OBVIOUS
<1> DEFINE a == Active
<1>1. /\ pc[a] = "held" /\ holder' = holder
      /\ nest' = [nest EXCEPT ![a] = @ - 1] /\ nest[a] > 0
      /\ \/ /\ repeat[lk[a]] > 1 /\ repeat' = [repeat EXCEPT ![lk[a]] = @ - 1]
            /\ pc' = [pc EXCEPT ![a] = "held"]
         \/ /\ repeat[lk[a]] = 1 /\ repeat' = repeat
            /\ pc' = [pc EXCEPT ![a] = "relh"]
      /\ UNCHANGED << sched, value, waiters, lk >>
  <2>1. pc[a] = "held" /\ ~sched.panic
    BY DEF ReleaseEntry, At
  <2>2. holder[lk[a]] = sched.cur /\ repeat[lk[a]] = nest[a] /\ nest[a] > 0
    BY <2>1, Facts DEF IInv, FieldsInv
  <2>3. nest[a] \in Nat
    BY Facts, ClientAssumption
  <2>4. QED  BY <2>1, <2>2, <2>3 DEF ReleaseEntry, Goto, self, semaVars
<1>2. /\ SchedInv(sched') /\ pc' \in [Ctx -> Pc] /\ lk' \in [Ctx -> Lock]
      /\ ContextsInv' /\ OwnersInv' /\ WaitersInv' /\ SameOwners
  BY <1>1, OwnerMoves DEF Owning, semaVars
<1>3. TypeOK'
  <2>1. a \in Ctx /\ nest \in [Ctx -> 0 .. MaxRepeat] /\ MaxRepeat \in Nat
        /\ lk[a] \in Lock /\ repeat \in [Lock -> Nat]
    BY Facts, ClientAssumption
  <2>2. nest' \in [Ctx -> 0 .. MaxRepeat] /\ repeat' \in [Lock -> Nat]
    BY <1>1, <2>1
  <2>3. QED  BY <1>1, <1>2, <2>2 DEF IInv, TypeOK, SyncTypeOK, SchedInv
<1>4. FieldsInv'
  BY <1>1, Facts, OtherFields DEF IInv, FieldsInv, Owning, OwnersInv, Owns
<1>5. QED  BY <1>2, <1>3, <1>4 DEF IInv

LEMMA ClearHolderStep == IInv /\ ClearHolder => IInv' /\ SameOwners
<1> SUFFICES ASSUME IInv, ClearHolder PROVE IInv' /\ SameOwners
  OBVIOUS
<1> DEFINE a == Active
<1>1. /\ pc[a] = "relh" /\ holder' = [holder EXCEPT ![lk[a]] = NULL]
      /\ pc' = [pc EXCEPT ![a] = "relr"]
      /\ UNCHANGED << sched, value, waiters, repeat, lk, nest >>
  BY DEF ClearHolder, At, Goto, semaVars
<1>2. /\ SchedInv(sched') /\ pc' \in [Ctx -> Pc] /\ lk' \in [Ctx -> Lock]
      /\ ContextsInv' /\ OwnersInv' /\ WaitersInv' /\ SameOwners
  BY <1>1, OwnerMoves DEF Owning, semaVars
<1>3. TypeOK'
  BY <1>1, <1>2, Facts, ClientAssumption DEF IInv, TypeOK, SyncTypeOK, SchedInv
<1>4. FieldsInv'
  BY <1>1, Facts, OtherFields DEF IInv, FieldsInv, Owning, OwnersInv, Owns
<1>5. QED  BY <1>2, <1>3, <1>4 DEF IInv

LEMMA ClearRepeatStep == IInv /\ ClearRepeat => IInv' /\ SameOwners
<1> SUFFICES ASSUME IInv, ClearRepeat PROVE IInv' /\ SameOwners
  OBVIOUS
<1> DEFINE a == Active
<1>1. /\ pc[a] = "relr" /\ repeat' = [repeat EXCEPT ![lk[a]] = 0]
      /\ pc' = [pc EXCEPT ![a] = "up"]
      /\ UNCHANGED << sched, value, waiters, holder, lk, nest >>
  BY DEF ClearRepeat, At, Goto, semaVars
<1>2. /\ SchedInv(sched') /\ pc' \in [Ctx -> Pc] /\ lk' \in [Ctx -> Lock]
      /\ ContextsInv' /\ OwnersInv' /\ WaitersInv' /\ SameOwners
  BY <1>1, OwnerMoves DEF Owning, semaVars
<1>3. TypeOK'
  BY <1>1, <1>2, Facts, ClientAssumption DEF IInv, TypeOK, SyncTypeOK, SchedInv
<1>4. FieldsInv'
  BY <1>1, Facts, OtherFields DEF IInv, FieldsInv, Owning, OwnersInv, Owns
<1>5. QED  BY <1>2, <1>3, <1>4 DEF IInv

LEMMA DeviceDoneStep == IInv /\ DeviceDone => IInv' /\ SameOwners
<1> SUFFICES ASSUME IInv, DeviceDone PROVE IInv' /\ SameOwners
  OBVIOUS
<1> DEFINE a == Active
<1>1. /\ pc[a] = "io" /\ pc' = [pc EXCEPT ![a] = "held"]
      /\ UNCHANGED << sched, value, waiters, holder, repeat, lk, nest >>
  BY DEF DeviceDone, At, Goto, semaVars, lockVars
<1>2. /\ SchedInv(sched') /\ pc' \in [Ctx -> Pc] /\ lk' \in [Ctx -> Lock]
      /\ ContextsInv' /\ OwnersInv' /\ WaitersInv' /\ SameOwners
  BY <1>1, OwnerMoves DEF Owning, semaVars
<1>3. TypeOK'
  BY <1>1, <1>2, Facts, ClientAssumption DEF IInv, TypeOK, SyncTypeOK, SchedInv
<1>4. FieldsInv'
  BY <1>1, Facts, OtherFields DEF IInv, FieldsInv, Owning, OwnersInv, Owns
<1>5. QED  BY <1>2, <1>3, <1>4 DEF IInv

-----------------------------------------------------------------------------
(* lock_acquire is called: a context that does not hold the lock goes to    *)
(* sema_down.                                                               *)
LEMMA EntryStep ==
  ASSUME IInv, NEW c \in {Task(self), Irq(self)}, NEW l \in Lock,
         pc[Task(self)] = "out" \/ c = Irq(self), pc[Irq(self)] = "out",
         holder[l] # self, LockAcquireEntry(c, l),
         c = Task(self) => self \in Client /\ l \in Uses[self],
         c = Irq(self) => /\ l \in IrqLock
                          /\ pc[Task(self)] # "out" =>
                               /\ self \in Preemptible
                               /\ pc[Task(self)] \notin {"down", "up", "io"}
  PROVE  IInv' /\ SameOwners
<1> USE DEF self
<1>1. /\ SchedInv(sched) /\ ContextsInv /\ OwnersInv /\ WaitersInv /\ FieldsInv
  BY DEF IInv
<1>2. /\ pc' = [pc EXCEPT ![c] = "down"] /\ lk' = [lk EXCEPT ![c] = l]
      /\ nest' = [nest EXCEPT ![c] = 1]
      /\ UNCHANGED << sched, value, waiters, holder, repeat >>
  BY DEF LockAcquireEntry, Goto, semaVars
<1>3. /\ sched.cur \in Thread /\ c \in Ctx /\ c[1] = sched.cur /\ pc[c] = "out"
      /\ pc \in [Ctx -> Pc] /\ lk \in [Ctx -> Lock]
      /\ nest \in [Ctx -> 0 .. MaxRepeat] /\ 1 \in 0 .. MaxRepeat
  BY Facts, Contexts, ClientAssumption
<1>4. TypeOK'
  BY <1>1, <1>2, <1>3 DEF IInv, TypeOK, SyncTypeOK, Pc
<1>5. ContextsInv'
  BY <1>1, <1>2, <1>3, Contexts DEF ContextsInv
<1>6. OwnersInv' /\ SameOwners
  <2>1. \A d \in Ctx, k \in Lock : Owns(d, k)' <=> Owns(d, k)
    BY <1>2, <1>3 DEF Owns, Owning
  <2>2. QED  BY <1>1, <1>2, <2>1 DEF OwnersInv, SameOwners
<1>7. FieldsInv'
  BY <1>1, <1>2, <1>3 DEF FieldsInv
<1>8. WaitersInv'
  <2>1. \A t \in Thread, k \in Lock :
          IF Task(t) = c THEN ~Downs(t, k) /\ sched.status[t] # "BLOCKED"
          ELSE Downs(t, k)' <=> Downs(t, k)
    BY <1>2, <1>3, Facts, Contexts DEF Downs
  <2>2. QED  BY <1>1, <1>2, <2>1 DEF WaitersInv, Runnable
<1>9. QED  BY <1>1, <1>2, <1>4, <1>5, <1>6, <1>7, <1>8 DEF IInv

LEMMA AcquireStep == IInv /\ Acquire => IInv' /\ SameOwners
<1> SUFFICES ASSUME IInv, Acquire PROVE IInv' /\ SameOwners
  OBVIOUS
<1>1. PICK l \in Uses[self] : LockAcquireEntry(Task(self), l)
  BY DEF Acquire
<1>2. self \in Client /\ l \in Lock /\ pc[Task(self)] = "out" /\ pc[Irq(self)] = "out"
  BY <1>1, Facts, ClientAssumption DEF Acquire, At, self
<1>3. holder[l] # self
  <2> SUFFICES ASSUME holder[l] = self PROVE FALSE
    OBVIOUS
  <2>1. sched.cur \in Thread /\ value[l] \in {0, 1} /\ l \in Sema
    BY <1>2, Facts, SyncAssumption
  <2>2. value[l] = 0
    BY <1>2, <2>1, SyncAssumption DEF IInv, FieldsInv, self
  <2>3. PICK c \in Ctx : Owns(c, l)
    BY <1>2, <2>2 DEF IInv, OwnersInv
  <2>4. c[1] = self
    BY <2>1, <2>3, SyncAssumption DEF IInv, FieldsInv, Owns, Owning, self
  <2>5. QED  BY <1>2, <2>3, <2>4, Contexts DEF Owns, Owning
<1>4. QED  BY <1>1, <1>2, <1>3, EntryStep, Facts, Contexts DEF self

LEMMA KeyboardIntrStep == LockDiscipline /\ IInv /\ KeyboardIntr => IInv' /\ SameOwners
<1> SUFFICES ASSUME LockDiscipline, IInv, KeyboardIntr PROVE IInv' /\ SameOwners
  OBVIOUS
<1>1. PICK l \in IrqLock : LockAcquireEntry(Irq(self), l)
  BY DEF KeyboardIntr
<1>2. /\ l \in Lock /\ pc[Irq(self)] = "out"
      /\ pc[Task(self)] # "out" => /\ self \in Preemptible
                                   /\ pc[Task(self)] \notin {"down", "up", "io"}
  BY <1>1, ClientAssumption DEF KeyboardIntr, IntrOn
<1>3. holder[l] # self
  <2> SUFFICES ASSUME holder[l] = self PROVE FALSE
    OBVIOUS
  <2>1. sched.cur \in Thread /\ value[l] \in {0, 1} /\ l \in Sema
    BY <1>2, Facts, SyncAssumption
  <2>2. value[l] = 0
    BY <1>2, <2>1, SyncAssumption DEF IInv, FieldsInv, self
  <2>3. PICK c \in Ctx : Owns(c, l)
    BY <1>2, <2>2 DEF IInv, OwnersInv
  <2>4. c[1] = self
    BY <2>1, <2>3, SyncAssumption DEF IInv, FieldsInv, Owns, Owning, self
  <2>5. c = Task(self) /\ pc[Task(self)] # "out" /\ lk[Task(self)] = l
    BY <1>2, <2>3, <2>4, Contexts DEF Owns, Owning
  <2>6. l \in Uses[self] /\ self \in Preemptible
    BY <1>2, <2>1, <2>5 DEF IInv, ContextsInv, self
  <2>7. QED  BY <1>1, <2>6 DEF LockDiscipline
<1>4. QED  BY <1>1, <1>2, <1>3, EntryStep, Facts, Contexts DEF self

-----------------------------------------------------------------------------
(* sema_down finds the lock free.                                           *)
LEMMA DownStep == IInv /\ Down => IInv'
<1> SUFFICES ASSUME IInv, Down PROVE IInv'
  OBVIOUS
<1> DEFINE a == Active
           l == lk[a]
<1>1. /\ SchedInv(sched) /\ ContextsInv /\ OwnersInv /\ WaitersInv /\ FieldsInv
      /\ a \in Ctx /\ a[1] = sched.cur /\ l \in Lock /\ l \in Sema
      /\ value \in [Sema -> {0, 1}]
      /\ pc \in [Ctx -> Pc] /\ lk \in [Ctx -> Lock]
      /\ nest \in [Ctx -> 0 .. MaxRepeat]
      /\ sched.cur \in Thread
  BY Facts, SyncAssumption DEF IInv
<1>2. /\ pc[a] = "down" /\ value[l] = 1
      /\ value' = [value EXCEPT ![l] = 0] /\ pc' = [pc EXCEPT ![a] = "own"]
      /\ UNCHANGED << sched, waiters, holder, repeat, lk, nest >>
  BY <1>1 DEF Down, At, Goto, SemaTake, lockVars
<1> HIDE DEF l
<1>3. TypeOK'
  BY <1>1, <1>2 DEF IInv, TypeOK, SyncTypeOK, Pc
<1>4. ContextsInv'
  BY <1>1, <1>2, Contexts DEF ContextsInv
<1>5. OwnersInv'
  <2>1. \A c \in Ctx, k \in Lock : Owns(c, k)' <=> Owns(c, k) \/ (c = a /\ k = l)
    BY <1>1, <1>2 DEF Owns, Owning, l
  <2>2. \A k \in Lock : k # l => value'[k] = value[k]
    BY <1>1, <1>2
  <2>3. QED  BY <1>1, <1>2, <2>1, <2>2 DEF OwnersInv
<1>6. FieldsInv'
  <2>1. \A c \in Ctx : c # a => pc'[c] = pc[c] /\ lk'[c] = lk[c]
    BY <1>1, <1>2
  <2>2. /\ holder[l] = NULL /\ repeat[l] = 0 /\ nest[a] = 1 /\ lk'[a] = l
        /\ pc'[a] = "own"
    BY <1>1, <1>2 DEF FieldsInv, l
  <2>3. \A k \in Lock : value'[k] = 1 => value[k] = 1
    BY <1>1, <1>2, SyncAssumption
  <2>4. QED  BY <1>1, <1>2, <2>1, <2>2, <2>3 DEF FieldsInv
<1>7. WaitersInv'
  <2>1. \A t \in Thread, k \in Lock :
          IF Task(t) = a THEN ~Downs(t, k)' /\ sched.status[t] # "BLOCKED" /\ (Downs(t, k) => k = l)
          ELSE Downs(t, k)' <=> Downs(t, k)
    BY <1>1, <1>2, Facts, Contexts DEF Downs, l
  <2>2. \A k \in Lock : value'[k] = 1 => value[k] = 1 /\ k # l
    BY <1>1, <1>2, SyncAssumption
  <2>3. QED  BY <1>1, <1>2, <2>1, <2>2 DEF WaitersInv, Runnable
<1>8. QED  BY <1>1, <1>2, <1>3, <1>4, <1>5, <1>6, <1>7 DEF IInv

(* sema_up at the end of lock_release.                                      *)
LEMMA UpOfLockStep == IInv /\ Up => IInv'
<1> SUFFICES ASSUME IInv, Up PROVE IInv'
  OBVIOUS
<1> DEFINE a == Active
           l == lk[a]
<1>1. /\ SchedInv(sched) /\ ContextsInv /\ OwnersInv /\ WaitersInv /\ FieldsInv
      /\ a \in Ctx /\ a[1] = sched.cur /\ l \in Lock /\ l \in Sema
      /\ value \in [Sema -> {0, 1}] /\ waiters \in [Sema -> Seq(Thread)]
      /\ pc \in [Ctx -> Pc] /\ lk \in [Ctx -> Lock]
      /\ nest \in [Ctx -> 0 .. MaxRepeat]
      /\ sched.cur \in Thread /\ sched.status \in [Thread -> TaskStatus]
  BY Facts, SyncAssumption DEF IInv
<1>2. /\ pc[a] = "up" /\ sema_up(l) /\ pc' = [pc EXCEPT ![a] = "out"]
      /\ UNCHANGED << holder, repeat, lk, nest >>
  BY <1>1 DEF Up, At, Goto, lockVars
<1>3. value[l] = 0
  BY <1>1, <1>2 DEF OwnersInv, Owns, Owning
<1>4. /\ IsInjective(waiters[l])
      /\ \A t \in Thread :
           t \in ToSet(waiters[l]) <=> Downs(t, l) /\ sched.status[t] = "BLOCKED"
  BY <1>1 DEF WaitersInv
<1>5. \A t \in ToSet(waiters[l]) : sched.status[t] \in Blocked
  <2>1. \A t \in ToSet(waiters[l]) : t \in Thread
    <3>1. waiters[l] \in Seq(Thread)
      BY <1>1
    <3>2. QED  BY <3>1, LenProperties DEF ToSet
  <2>2. QED  BY <1>4, <2>1 DEF Blocked
<1> HIDE DEF l
<1>6. /\ SchedInv(sched') /\ sched'.cur = sched.cur
      /\ value' = [value EXCEPT ![l] = 1]
      /\ waiters' \in [Sema -> Seq(Thread)]
      /\ \/ waiters[l] = << >> /\ waiters' = waiters /\ sched' = sched
         \/ \E t \in ToSet(waiters[l]) :
              /\ t \in Thread
              /\ waiters' = [waiters EXCEPT ![l] = Tail(@)]
              /\ IsInjective(waiters'[l])
              /\ ToSet(waiters'[l]) = ToSet(waiters[l]) \ {t}
              /\ sched'.status = [sched.status EXCEPT ![t] = "READY"]
  BY <1>1, <1>2, <1>3, <1>4, <1>5, UpStep
<1>7. TypeOK'
  BY <1>1, <1>2, <1>6 DEF IInv, TypeOK, SyncTypeOK, Pc, SchedInv
<1>8. ContextsInv'
  BY <1>1, <1>2, <1>6, Contexts DEF ContextsInv
<1>9. OwnersInv'
  <2>1. \A c \in Ctx, k \in Lock : Owns(c, k)' <=> Owns(c, k) /\ c # a
    BY <1>1, <1>2 DEF Owns, Owning
  <2>2. \A c \in Ctx : Owns(c, l) <=> c = a
    BY <1>1, <1>2 DEF OwnersInv, Owns, Owning, l
  <2>3. \A k \in Lock : k # l => value'[k] = value[k] /\ ~Owns(a, k)
    BY <1>1, <1>6 DEF Owns, l
  <2>4. QED  BY <1>1, <1>6, <2>1, <2>2, <2>3 DEF OwnersInv
<1>10. FieldsInv'
  <2>1. \A c \in Ctx : c # a => pc'[c] = pc[c] /\ lk'[c] = lk[c]
    BY <1>1, <1>2
  <2>2. /\ holder[l] = NULL /\ repeat[l] = 0 /\ nest[a] = 0 /\ pc'[a] = "out"
    BY <1>1, <1>2 DEF FieldsInv, l
  <2>3. \A k \in Lock : value'[k] = 1 => value[k] = 1 \/ k = l
    BY <1>1, <1>6, SyncAssumption
  <2>4. QED  BY <1>1, <1>2, <2>1, <2>2, <2>3 DEF FieldsInv
<1>11. \A t \in Thread, k \in Lock : Downs(t, k)' <=> Downs(t, k)
  BY <1>1, <1>2, Contexts DEF Downs
<1>12. \A k \in Lock : k # l => value'[k] = value[k] /\ waiters'[k] = waiters[k]
  BY <1>1, <1>6, SyncAssumption
<1>13. WaitersInv'
  <2>1. CASE waiters[l] = << >> /\ waiters' = waiters /\ sched' = sched
    <3>1. \A k \in Lock : waiters'[k] # << >> => k # l /\ value'[k] = value[k]
      BY <1>12, <2>1
    <3>2. ASSUME NEW k \in Lock
          PROVE  /\ IsInjective(waiters[k])
                 /\ \A u \in Thread : u \in ToSet(waiters[k])
                                        <=> Downs(u, k)' /\ sched.status[u] = "BLOCKED"
                 /\ value'[k] = 1 /\ waiters[k] # << >> =>
                      \E u \in Thread : Downs(u, k)' /\ Runnable(sched, u)
      BY <1>1, <1>11, <2>1, <3>1 DEF WaitersInv
    <3>3. QED  BY <2>1, <3>2 DEF WaitersInv, Runnable
  <2>2. CASE \E t \in ToSet(waiters[l]) :
              /\ t \in Thread
              /\ waiters' = [waiters EXCEPT ![l] = Tail(@)]
              /\ IsInjective(waiters'[l])
              /\ ToSet(waiters'[l]) = ToSet(waiters[l]) \ {t}
              /\ sched'.status = [sched.status EXCEPT ![t] = "READY"]
    <3>1. PICK t \in Thread :
              /\ t \in ToSet(waiters[l])
              /\ IsInjective(waiters'[l])
              /\ ToSet(waiters'[l]) = ToSet(waiters[l]) \ {t}
              /\ sched'.status = [sched.status EXCEPT ![t] = "READY"]
      BY <2>2
    <3>2. Downs(t, l) /\ sched.status[t] = "BLOCKED"
      BY <1>4, <3>1
    <3>3. /\ \A u \in Thread : u # t => sched'.status[u] = sched.status[u]
          /\ sched'.status[t] = "READY"
      BY <1>1, <3>1
    <3>4. \A k \in Lock : k # l => ~Downs(t, k)
      BY <3>2 DEF Downs
    <3>5. ASSUME NEW k \in Lock
          PROVE  /\ IsInjective(waiters'[k])
                 /\ \A u \in Thread : u \in ToSet(waiters'[k])
                                        <=> Downs(u, k)' /\ sched'.status[u] = "BLOCKED"
                 /\ value'[k] = 1 /\ waiters'[k] # << >> =>
                      \E u \in Thread : Downs(u, k)' /\ Runnable(sched', u)
      <4>1. CASE k = l
        <5>1. \A u \in Thread : u \in ToSet(waiters'[k])
                                 <=> Downs(u, k)' /\ sched'.status[u] = "BLOCKED"
          BY <1>4, <1>11, <3>1, <3>3, <4>1
        <5>2. Downs(t, k)' /\ Runnable(sched', t)
          BY <1>11, <3>2, <3>3, <4>1 DEF Runnable
        <5>3. QED  BY <3>1, <4>1, <5>1, <5>2
      <4>2. CASE k # l
        <5>1. /\ IsInjective(waiters[k])
              /\ \A u \in Thread : u \in ToSet(waiters[k])
                                     <=> Downs(u, k) /\ sched.status[u] = "BLOCKED"
              /\ value[k] = 1 /\ waiters[k] # << >> =>
                   \E u \in Thread : Downs(u, k) /\ Runnable(sched, u)
          BY <1>1 DEF WaitersInv
        <5>2. waiters'[k] = waiters[k] /\ value'[k] = value[k] /\ ~Downs(t, k)
          BY <1>12, <3>4, <4>2
        <5>3. \A u \in Thread : Downs(u, k)' <=> Downs(u, k)
          BY <1>11
        <5>4. QED  BY <3>3, <5>1, <5>2, <5>3 DEF Runnable
      <4>3. QED  BY <4>1, <4>2
    <3>6. QED  BY <3>5 DEF WaitersInv
  <2>3. QED  BY <1>6, <2>1, <2>2
<1>14. QED  BY <1>6, <1>7, <1>8, <1>9, <1>10, <1>13 DEF IInv

-----------------------------------------------------------------------------
(* Nobody uses a lock of a handler: another thread may get the cpu.         *)
Quiet == \A c \in Ctx : pc[c] # "out" => lk[c] \notin IrqLock

(* The steps in which the cpu may pass to another thread, sema_down apart.  *)
LEMMA SwitchStep ==
  ASSUME IInv, Quiet, SchedInv(sched'),
         UNCHANGED << semaVars, lockVars, lk, nest >>,
         \/ pc' = pc
         \/ /\ pc[Task(self)] = "held"
            /\ pc' = [pc EXCEPT ![Task(self)] = "io"],
         \A t \in Thread : pc[Task(t)] = "down" =>
           IF Runnable(sched, t) THEN Runnable(sched', t)
           ELSE sched'.status[t] = sched.status[t]
  PROVE  IInv' /\ SameOwners
<1> USE DEF self
<1>1. /\ ContextsInv /\ OwnersInv /\ WaitersInv /\ FieldsInv
      /\ value' = value /\ waiters' = waiters /\ holder' = holder /\ repeat' = repeat
      /\ lk' = lk /\ nest' = nest
      /\ pc \in [Ctx -> Pc] /\ lk \in [Ctx -> Lock]
      /\ sched.cur \in Thread /\ Task(sched.cur) \in Ctx
      /\ sched' \in SchedState
  BY Facts, Contexts DEF IInv, semaVars, lockVars, SchedInv
<1>2. /\ pc' \in [Ctx -> Pc]
      /\ \A c \in Ctx : pc'[c] = pc[c] \/ (pc[c] = "held" /\ pc'[c] = "io")
  BY <1>1 DEF Pc
<1>3. TypeOK'
  BY <1>1, <1>2 DEF IInv, TypeOK, SyncTypeOK
<1>4. ContextsInv'
  <2>1. \A t \in Thread : pc'[Irq(t)] = "out"
    BY <1>1, <1>2, Contexts DEF ContextsInv, Quiet
  <2>2. \A c \in Ctx : pc'[c] # "out" => lk'[c] \notin IrqLock
    BY <1>1, <1>2 DEF Quiet
  <2>3. QED  BY <1>1, <1>2, <2>1, <2>2, Contexts DEF ContextsInv
<1>5. OwnersInv' /\ SameOwners
  <2>1. \A c \in Ctx, l \in Lock : Owns(c, l)' <=> Owns(c, l)
    BY <1>1, <1>2 DEF Owns, Owning
  <2>2. QED  BY <1>1, <2>1 DEF OwnersInv, SameOwners
<1>6. FieldsInv'
  BY <1>1, <1>2 DEF FieldsInv
<1>7. WaitersInv'
  <2>1. \A t \in Thread, l \in Lock : Downs(t, l)' <=> Downs(t, l)
    BY <1>1, <1>2, Contexts DEF Downs
  <2>2. \A t \in Thread, l \in Lock : Downs(t, l) =>
          /\ Runnable(sched, t) => Runnable(sched', t)
          /\ sched'.status[t] = "BLOCKED" <=> sched.status[t] = "BLOCKED"
    BY DEF Downs, Runnable
  <2>3. QED  BY <1>1, <2>1, <2>2 DEF WaitersInv
<1>8. QED  BY <1>1, <1>3, <1>4, <1>5, <1>6, <1>7 DEF IInv

(* Threads in sema_down are clients, hence not idle.                        *)
LEMMA DownsAreClients ==
  ASSUME IInv, NEW t \in Thread, pc[Task(t)] = "down"
  PROVE  t \in Client /\ t # idle_thread
BY ClientAssumption DEF IInv, ContextsInv

(* With interrupts on, or in a thread outside the locks, the handlers'      *)
(* locks are free.                                                          *)
LEMMA QuietWhenOpen ==
  ASSUME IInv, LockDiscipline, pc[Irq(self)] = "out",
         \/ pc[Task(self)] = "out"
         \/ self \in Preemptible
         \/ lk[Task(self)] \notin IrqLock
  PROVE  Quiet
<1> SUFFICES ASSUME NEW c \in Ctx, pc[c] # "out", lk[c] \in IrqLock PROVE FALSE
  BY DEF Quiet
<1>1. c[1] = self /\ self \in Thread
  BY Facts DEF IInv, ContextsInv, self
<1>2. c = Task(self)
  BY <1>1, Contexts
<1>3. self \in Preemptible /\ lk[Task(self)] \in Uses[self]
  BY <1>1, <1>2 DEF IInv, ContextsInv
<1>4. QED  BY <1>2, <1>3 DEF LockDiscipline

LEMMA TimerIntrStep == LockDiscipline /\ IInv /\ TimerIntr => IInv' /\ SameOwners
<1> SUFFICES ASSUME LockDiscipline, IInv, TimerIntr PROVE IInv' /\ SameOwners
  OBVIOUS
<1>1. Quiet
  BY QuietWhenOpen DEF TimerIntr, IntrOn
<1>2. /\ sched' = intr_timer_handler(sched)
      /\ UNCHANGED << semaVars, lockVars, lk, nest >> /\ pc' = pc
  BY DEF TimerIntr, ctxVars
<1>3. SchedInv(sched') /\ SameBlocked(sched, sched')
  BY <1>2, TickRuns DEF IInv
<1>4. QED  BY <1>1, <1>2, <1>3, SwitchStep, DownsAreClients DEF SameBlocked

LEMMA YieldHoldingStep == LockDiscipline /\ IInv /\ YieldHolding => IInv' /\ SameOwners
<1> SUFFICES ASSUME LockDiscipline, IInv, YieldHolding PROVE IInv' /\ SameOwners
  OBVIOUS
<1>1. Quiet
  BY QuietWhenOpen, Facts, Contexts DEF YieldHolding, InLongSection, self
<1>2. /\ sched' = thread_yield(sched)
      /\ UNCHANGED << semaVars, lockVars, lk, nest >> /\ pc' = pc
  BY DEF YieldHolding, ctxVars
<1>3. SchedInv(sched') /\ SameBlocked(sched, sched')
  BY <1>2, YieldRuns DEF IInv
<1>4. QED  BY <1>1, <1>2, <1>3, SwitchStep, DownsAreClients DEF SameBlocked

LEMMA IdleLoopStep == LockDiscipline /\ IInv /\ IdleLoop => IInv' /\ SameOwners
<1> SUFFICES ASSUME LockDiscipline, IInv, IdleLoop PROVE IInv' /\ SameOwners
  OBVIOUS
<1>1. Quiet
  BY QuietWhenOpen, Facts, Contexts DEF IdleLoop, At, self
<1>2. /\ sched' = thread_block(sched, "BLOCKED") /\ sched.cur = idle_thread
      /\ UNCHANGED << semaVars, lockVars, lk, nest >> /\ pc' = pc
  BY DEF IdleLoop, ctxVars, self
<1>3. /\ SchedInv(sched')
      /\ \A t \in Thread \ {idle_thread} :
           IF Runnable(sched, t) THEN Runnable(sched', t)
           ELSE sched'.status[t] = sched.status[t]
  BY <1>2, BlockStep DEF IInv
<1>4. QED  BY <1>1, <1>2, <1>3, SwitchStep, DownsAreClients

LEMMA SleepForDeviceStep == LockDiscipline /\ IInv /\ SleepForDevice => IInv' /\ SameOwners
<1> SUFFICES ASSUME LockDiscipline, IInv, SleepForDevice PROVE IInv' /\ SameOwners
  OBVIOUS
<1>1. Quiet
  BY QuietWhenOpen, Facts, Contexts DEF SleepForDevice, InLongSection, self
<1>2. /\ sched' = thread_block(sched, "BLOCKED") /\ pc[Task(self)] = "held"
      /\ UNCHANGED << semaVars, lockVars, lk, nest >>
      /\ pc' = [pc EXCEPT ![Task(self)] = "io"]
  BY DEF SleepForDevice, InLongSection, At, Goto
<1>3. /\ SchedInv(sched')
      /\ \A t \in Thread \ {idle_thread, self} :
           IF Runnable(sched, t) THEN Runnable(sched', t)
           ELSE sched'.status[t] = sched.status[t]
  BY <1>2, BlockStep DEF IInv, self
<1>4. QED  BY <1>1, <1>2, <1>3, SwitchStep, DownsAreClients

LEMMA DeviceIntrStep == IInv /\ DeviceIntr => IInv' /\ SameOwners
<1> SUFFICES ASSUME IInv, DeviceIntr PROVE IInv' /\ SameOwners
  OBVIOUS
<1>1. PICK t \in Client : /\ pc[Task(t)] = "io" /\ sched.status[t] = "BLOCKED"
                          /\ sched' = thread_unblock(sched, t)
  BY DEF DeviceIntr
<1>2. UNCHANGED << value, waiters, holder, repeat, pc, lk, nest >>
  BY DEF DeviceIntr, semaVars, lockVars, ctxVars
<1>3. /\ t \in Thread /\ sched.status \in [Thread -> TaskStatus]
      /\ ContextsInv /\ OwnersInv /\ FieldsInv /\ WaitersInv /\ SchedInv(sched)
  BY Facts, ClientAssumption DEF IInv
<1>4. /\ SchedInv(sched') /\ sched'.cur = sched.cur
      /\ sched'.status = [sched.status EXCEPT ![t] = "READY"]
  BY <1>1, <1>3, UnblockRuns DEF Blocked
<1>5. TypeOK'
  BY <1>2, <1>4 DEF IInv, TypeOK, SyncTypeOK, SchedInv
<1>6. ContextsInv' /\ OwnersInv' /\ FieldsInv' /\ SameOwners
  BY <1>2, <1>3, <1>4 DEF ContextsInv, OwnersInv, Owns, FieldsInv, SameOwners
<1>7. WaitersInv'
  <2>1. \A u \in Thread, l \in Lock : Downs(u, l) =>
          u # t /\ sched'.status[u] = sched.status[u]
    BY <1>1, <1>3, <1>4 DEF Downs
  <2>2. QED  BY <1>2, <1>3, <2>1 DEF WaitersInv, Downs, Runnable
<1>8. QED  BY <1>4, <1>5, <1>6, <1>7 DEF IInv

(* sema_down finds the lock taken.  The lock is not one of a handler: its   *)
(* owner would have to be the other context of the running thread.          *)
LEMMA SleepStep == LockDiscipline /\ IInv /\ Sleep => IInv' /\ SameOwners
<1> SUFFICES ASSUME LockDiscipline, IInv, Sleep PROVE IInv' /\ SameOwners
  OBVIOUS
<1> USE DEF self
<1> DEFINE a == Active
           l == lk[a]
<1>1. /\ SchedInv(sched) /\ ContextsInv /\ OwnersInv /\ WaitersInv /\ FieldsInv
      /\ a \in Ctx /\ a[1] = sched.cur /\ l \in Lock /\ l \in Sema
      /\ value \in [Sema -> {0, 1}] /\ waiters \in [Sema -> Seq(Thread)]
      /\ pc \in [Ctx -> Pc] /\ lk \in [Ctx -> Lock]
      /\ sched.cur \in Thread /\ sched.status \in [Thread -> TaskStatus]
      /\ \A t \in Thread : sched.status[t] = "RUNNING" <=> t = sched.cur
      /\ \/ a = Task(sched.cur) /\ pc[Irq(sched.cur)] = "out"
         \/ a = Irq(sched.cur) /\ pc[Irq(sched.cur)] # "out"
  BY Facts, SyncAssumption DEF IInv
<1>2. /\ pc[a] = "down" /\ SemaWait(l) /\ value[l] = 0
      /\ UNCHANGED << holder, repeat, pc, lk, nest >>
  BY DEF Sleep, At, SemaWait, lockVars, ctxVars
<1>3. PICK c \in Ctx : Owns(c, l)
  BY <1>1, <1>2 DEF OwnersInv
<1>4. l \notin IrqLock
  <2> SUFFICES ASSUME l \in IrqLock PROVE FALSE
    OBVIOUS
  <2>1. c[1] = sched.cur /\ c # a /\ pc[c] # "out" /\ lk[c] = l
    BY <1>1, <1>2, <1>3 DEF ContextsInv, Owns, Owning
  <2>2. a = Irq(sched.cur) /\ c = Task(sched.cur)
    BY <1>1, <2>1, Contexts
  <2>3. sched.cur \in Preemptible /\ l \in Uses[sched.cur]
    BY <1>1, <1>2, <2>1, <2>2 DEF ContextsInv
  <2>4. QED  BY <2>3 DEF LockDiscipline
<1>5. a = Task(sched.cur) /\ pc[Irq(sched.cur)] = "out"
  BY <1>1, <1>4 DEF ContextsInv
<1>6. Quiet
  BY <1>4, <1>5, QuietWhenOpen
<1>7. Downs(sched.cur, l) /\ sched.cur \in Client /\ sched.cur # idle_thread
  BY <1>1, <1>2, <1>5, DownsAreClients DEF Downs
<1>8. IsInjective(waiters[l]) /\ sched.cur \notin ToSet(waiters[l])
  BY <1>1 DEF WaitersInv
<1> HIDE DEF l
<1>9. /\ SchedInv(sched') /\ value' = value
      /\ waiters' \in [Sema -> Seq(Thread)]
      /\ waiters' = [waiters EXCEPT ![l] = Append(@, sched.cur)]
      /\ IsInjective(waiters'[l])
      /\ ToSet(waiters'[l]) = ToSet(waiters[l]) \cup {sched.cur}
      /\ sched'.status[sched.cur] = "BLOCKED"
      /\ \A t \in Thread \ {idle_thread, sched.cur} :
           IF Runnable(sched, t) THEN Runnable(sched', t)
           ELSE sched'.status[t] = sched.status[t]
  BY <1>1, <1>2, <1>7, <1>8, WaitStep
<1>10. TypeOK'
  BY <1>2, <1>9 DEF IInv, TypeOK, SyncTypeOK, SchedInv
<1>11. ContextsInv'
  <2>1. \A t \in Thread : pc[Irq(t)] = "out"
    BY <1>1, <1>6, Contexts DEF ContextsInv, Quiet
  <2>2. QED  BY <1>1, <1>2, <1>6, <2>1 DEF ContextsInv, Quiet
<1>12. OwnersInv' /\ FieldsInv' /\ SameOwners
  BY <1>1, <1>2, <1>9 DEF OwnersInv, Owns, FieldsInv, SameOwners
<1>13. WaitersInv'
  <2>1. \A t \in Thread, k \in Lock : Downs(t, k) /\ t # sched.cur =>
          /\ Runnable(sched, t) => Runnable(sched', t)
          /\ sched'.status[t] = "BLOCKED" <=> sched.status[t] = "BLOCKED"
    BY <1>9, DownsAreClients DEF Downs, Runnable
  <2>2. \A k \in Lock : k # l => waiters'[k] = waiters[k] /\ ~Downs(sched.cur, k)
    BY <1>1, <1>7, <1>9, SyncAssumption DEF Downs
  <2>3. \A t \in Thread, k \in Lock : Downs(t, k)' <=> Downs(t, k)
    BY <1>2 DEF Downs
  <2>4. value'[l] = 0
    BY <1>2, <1>9 DEF l
  <2>5. ASSUME NEW k \in Lock
        PROVE  /\ IsInjective(waiters'[k])
               /\ \A t \in Thread : t \in ToSet(waiters'[k])
                                      <=> Downs(t, k)' /\ sched'.status[t] = "BLOCKED"
               /\ value'[k] = 1 /\ waiters'[k] # << >> =>
                    \E t \in Thread : Downs(t, k)' /\ Runnable(sched', t)
    <3>1. CASE k = l
      BY <1>1, <1>7, <1>9, <2>1, <2>3, <2>4, <3>1 DEF WaitersInv
    <3>2. CASE k # l
      BY <1>1, <1>9, <2>1, <2>2, <2>3, <3>2 DEF WaitersInv
    <3>3. QED  BY <3>1, <3>2
  <2>6. QED  BY <2>5 DEF WaitersInv
<1>14. QED  BY <1>9, <1>10, <1>11, <1>12, <1>13 DEF IInv

-----------------------------------------------------------------------------
LEMMA NextIInv == LockDiscipline /\ IInv /\ [Next]_vars => IInv' /\ (SameOwners \/ Down \/ Up)
<1> SUFFICES ASSUME LockDiscipline, IInv, [Next]_vars PROVE IInv' /\ (SameOwners \/ Down \/ Up)
  OBVIOUS
<1>1. CASE Next
  BY <1>1, AcquireStep, AcquireAgainStep, SleepStep, DownStep, SetHolderStep,
     SetRepeatStep, ClearHolderStep, ClearRepeatStep, UpOfLockStep, DeviceDoneStep,
     ReleaseEntryStep, SleepForDeviceStep, YieldHoldingStep, TimerIntrStep,
     DeviceIntrStep, KeyboardIntrStep, IdleLoopStep DEF Next, LockStep
<1>2. CASE UNCHANGED vars
  <2>1. UNCHANGED << sched, value, waiters, holder, repeat, pc, lk, nest >>
    BY <1>2 DEF vars
  <2>2. QED
    BY <2>1 DEF IInv, TypeOK, SyncTypeOK, ContextsInv, OwnersInv, Owns, FieldsInv,
                WaitersInv, Downs, Runnable, SameOwners
<1>3. QED  BY <1>1, <1>2

LEMMA IInvHolds == ASSUME LockDiscipline PROVE Spec => []IInv
<1>1. IInv /\ [Next]_vars => IInv'
  BY NextIInv
<1>2. QED  BY <1>1, InitIInv, PTL DEF Spec

(***************************************************************************)
(* Under the discipline no ASSERT of sync.c or thread.c fails, whatever    *)
(* order threads and interrupts come in.                                   *)
(***************************************************************************)
THEOREM NoAssertionFails == ASSUME LockDiscipline PROVE Spec => []NoAssertFails
<1>1. IInv => NoAssertFails
  BY DEF IInv, SchedInv, NoAssertFails
<1>2. QED  BY <1>1, IInvHolds, PTL

(***************************************************************************)
(* Never two contexts past sema_down of one lock, and the nesting count of *)
(* a lock is that of its owner.                                            *)
(***************************************************************************)
THEOREM LocksExclude == ASSUME LockDiscipline PROVE Spec => []MutualExclusion
<1>1. IInv => MutualExclusion
  <2> SUFFICES ASSUME IInv PROVE MutualExclusion
    OBVIOUS
  <2>1. \A l \in Lock : \A c, d \in OwnersOf(l) : c = d
    BY DEF IInv, OwnersInv, OwnersOf, Owns
  <2>2. ASSUME NEW c \in Ctx
        PROVE  /\ pc[c] \in {"out", "relh", "relr", "up"} => nest[c] = 0
               /\ pc[c] \in {"held", "io"} => /\ nest[c] > 0
                                              /\ holder[lk[c]] = c[1]
                                              /\ repeat[lk[c]] = nest[c]
    BY DEF IInv, FieldsInv
  <2>3. QED  BY <2>1, <2>2 DEF MutualExclusion
<1>2. QED  BY <1>1, IInvHolds, PTL

(***************************************************************************)
(* A thread's general_tag is in the waiters list of the one semaphore it   *)
(* sleeps on, and in no other list.                                        *)
(***************************************************************************)
THEOREM OneListPerTag == ASSUME LockDiscipline PROVE Spec => []GeneralTagInOneList
<1>1. IInv => GeneralTagInOneList
  <2> SUFFICES ASSUME IInv PROVE GeneralTagInOneList
    OBVIOUS
  <2>1. \A l \in Lock : waiters[l] \in Seq(Thread)
    BY Facts, SyncAssumption
  <2>2. \A l \in Lock : \A t \in ToSet(waiters[l]) : t \in Thread
    BY <2>1, LenProperties DEF ToSet
  <2>3. \A l \in Lock :
          /\ IsInjective(waiters[l])
          /\ \A t \in ToSet(waiters[l]) :
               Downs(t, l) /\ sched.status[t] = "BLOCKED"
    BY <2>2 DEF IInv, WaitersInv
  <2>4. QED  BY <2>3 DEF IInv, GeneralTagInOneList, Downs
<1>2. QED  BY <1>1, IInvHolds, PTL

(***************************************************************************)
(* Whoever sleeps in sema_down is where sema_up looks, and a free lock     *)
(* with sleepers has one of them awake.                                    *)
(***************************************************************************)
THEOREM WakeupsArriveOnce == ASSUME LockDiscipline PROVE Spec => []NoLostWakeup
<1>1. IInv => NoLostWakeup
  <2> SUFFICES ASSUME IInv, NEW l \in Lock
               PROVE  /\ {t \in SleepersOn(l) : sched.status[t] = "BLOCKED"}
                             \subseteq ToSet(waiters[l])
                      /\ value[l] = 1 /\ waiters[l] # << >> =>
                           \E t \in SleepersOn(l) : sched.status[t] # "BLOCKED"
    BY DEF NoLostWakeup
  <2>1. ASSUME NEW t \in SleepersOn(l), sched.status[t] = "BLOCKED"
        PROVE  t \in ToSet(waiters[l])
    <3>1. t \in Thread /\ \E c \in {Task(t), Irq(t)} : pc[c] = "down" /\ lk[c] = l
      BY <2>1 DEF SleepersOn
    <3>2. pc[Irq(t)] = "out"
      BY <2>1, <3>1, Facts DEF IInv, ContextsInv
    <3>3. Downs(t, l)
      BY <3>1, <3>2 DEF Downs
    <3>4. QED  BY <2>1, <3>1, <3>3 DEF IInv, WaitersInv
  <2>2. ASSUME value[l] = 1, waiters[l] # << >>
        PROVE  \E t \in SleepersOn(l) : sched.status[t] # "BLOCKED"
    BY <2>2 DEF IInv, WaitersInv, Downs, Runnable, SleepersOn
  <2>3. QED  BY <2>1, <2>2
<1>2. QED  BY <1>1, IInvHolds, PTL

-----------------------------------------------------------------------------
(***************************************************************************)
(* The refinement of the abstract lock: Down is Take, Up is Give, and no   *)
(* other step changes who owns a lock.                                     *)
(***************************************************************************)
LEMMA DownTakes ==
  ASSUME IInv, Down
  PROVE  Abstract!Take(Active, lk[Active])
<1> DEFINE l == lk[Active]
<1>1. /\ Active \in Ctx /\ l \in Lock /\ pc \in [Ctx -> Pc]
      /\ OwnersInv
  BY Facts DEF IInv
<1>2. /\ pc[Active] = "down" /\ value[l] = 1 /\ lk' = lk
      /\ pc' = [pc EXCEPT ![Active] = "own"]
  BY <1>1, Facts, SyncAssumption DEF Down, At, Goto, SemaTake
<1>3. \A k \in Lock : OwnersOf(k)' = IF k = l THEN OwnersOf(k) \cup {Active} ELSE OwnersOf(k)
  BY <1>1, <1>2 DEF OwnersOf, Owning
<1>4. OwnersOf(l) = {}
  BY <1>1, <1>2 DEF OwnersInv, OwnersOf, Owns
<1>5. QED  BY <1>1, <1>3, <1>4 DEF Abstract!Take

LEMMA UpGives ==
  ASSUME IInv, Up
  PROVE  Abstract!Give(Active, lk[Active])
<1> DEFINE l == lk[Active]
<1>1. /\ Active \in Ctx /\ l \in Lock /\ pc \in [Ctx -> Pc]
      /\ OwnersInv
  BY Facts DEF IInv
<1>2. pc[Active] = "up" /\ lk' = lk /\ pc' = [pc EXCEPT ![Active] = "out"]
  BY DEF Up, At, Goto
<1>3. \A k \in Lock : OwnersOf(k)' = IF k = l THEN OwnersOf(k) \ {Active} ELSE OwnersOf(k)
  BY <1>1, <1>2 DEF OwnersOf, Owning
<1>4. OwnersOf(l) = {Active}
  BY <1>1, <1>2 DEF OwnersInv, OwnersOf, Owns, Owning
<1>5. QED  BY <1>1, <1>3, <1>4 DEF Abstract!Give

(***************************************************************************)
(* The implementation of locks is an abstract lock: ownership passes only  *)
(* through a state in which the lock is free.                              *)
(***************************************************************************)
THEOREM LockImplementsAbstractLock == ASSUME LockDiscipline PROVE Spec => LockRefinement
<1>1. Init => Abstract!Init
  BY DEF Init, Abstract!Init, OwnersOf, Owning
<1>2. IInv /\ [Next]_vars => [Abstract!Next]_([l \in Lock |-> OwnersOf(l)])
  <2> SUFFICES ASSUME IInv, [Next]_vars
               PROVE  Abstract!Next \/ \A l \in Lock : OwnersOf(l)' = OwnersOf(l)
    OBVIOUS
  <2>1. CASE Down
    BY <2>1, DownTakes, Facts DEF Abstract!Next
  <2>2. CASE Up
    BY <2>2, UpGives, Facts DEF Abstract!Next
  <2>3. CASE SameOwners
    BY <2>3 DEF SameOwners, OwnersOf, Owns
  <2>4. QED  BY <2>1, <2>2, <2>3, NextIInv
<1>3. QED  BY <1>1, <1>2, IInvHolds, PTL DEF Spec, LockRefinement, Abstract!Spec
=============================================================================
