--------------------------- MODULE ThreadOpsProofs ---------------------------
(***************************************************************************)
(* What the scheduling primitives preserve, proved once for every module   *)
(* that runs kernel threads.                                               *)
(***************************************************************************)
EXTENDS ThreadOps, SequenceTheorems, TLAPS

(* list_append: one more element, still without duplicates. *)
LEMMA AppendElems ==
  ASSUME NEW S, NEW q \in Seq(S), NEW x \in S
  PROVE  /\ Append(q, x) \in Seq(S)
         /\ ToSet(Append(q, x)) = ToSet(q) \cup {x}
         /\ IsInjective(q) /\ x \notin ToSet(q) => IsInjective(Append(q, x))
<1>1. /\ Append(q, x) \in Seq(S)
      /\ Len(Append(q, x)) = Len(q) + 1
      /\ \A i \in 1 .. Len(q) : Append(q, x)[i] = q[i]
      /\ Append(q, x)[Len(q) + 1] = x
  BY AppendProperties
<1>2. DOMAIN q = 1 .. Len(q) /\ DOMAIN Append(q, x) = 1 .. (Len(q) + 1) /\ Len(q) \in Nat
  BY <1>1, LenProperties
<1>3. DOMAIN Append(q, x) = (1 .. Len(q)) \cup {Len(q) + 1}
  BY <1>2
<1>4. ToSet(Append(q, x)) = ToSet(q) \cup {x}
  BY <1>1, <1>2, <1>3, Zenon DEF ToSet
<1>5. ASSUME IsInjective(q), x \notin ToSet(q)
      PROVE  IsInjective(Append(q, x))
  BY <1>1, <1>2, <1>3, <1>5, SMT DEF ToSet, IsInjective
<1>6. QED  BY <1>1, <1>4, <1>5

(* list_push: the same at the front. *)
LEMMA ConsElems ==
  ASSUME NEW S, NEW q \in Seq(S), NEW x \in S
  PROVE  /\ Cons(x, q) \in Seq(S)
         /\ Cons(x, q) # << >>
         /\ ToSet(Cons(x, q)) = ToSet(q) \cup {x}
         /\ IsInjective(q) /\ x \notin ToSet(q) => IsInjective(Cons(x, q))
<1>1. /\ Cons(x, q) \in Seq(S)
      /\ Len(Cons(x, q)) = Len(q) + 1
      /\ Cons(x, q)[1] = x
      /\ \A i \in 1 .. Len(q) : Cons(x, q)[i + 1] = q[i]
  BY SMT DEF Cons
<1>2. DOMAIN q = 1 .. Len(q) /\ DOMAIN Cons(x, q) = 1 .. (Len(q) + 1) /\ Len(q) \in Nat
  BY <1>1, LenProperties
<1>3. \A i \in 2 .. (Len(q) + 1) : i - 1 \in 1 .. Len(q) /\ Cons(x, q)[i] = q[i - 1]
  BY <1>1, <1>2
<1>4. ToSet(Cons(x, q)) = ToSet(q) \cup {x}
  <2>1. \A e \in ToSet(Cons(x, q)) : e \in ToSet(q) \cup {x}
    <3> SUFFICES ASSUME NEW i \in 1 .. (Len(q) + 1)
                 PROVE  Cons(x, q)[i] \in ToSet(q) \cup {x}
      BY <1>2 DEF ToSet
    <3>1. CASE i = 1
      BY <3>1, <1>1
    <3>2. CASE i # 1
      <4>1. i - 1 \in DOMAIN q /\ Cons(x, q)[i] = q[i - 1]
        BY <3>2, <1>2, <1>3
      <4>2. QED  BY <4>1, Zenon DEF ToSet
    <3>3. QED  BY <3>1, <3>2
  <2>2. x \in ToSet(Cons(x, q))
    BY <1>1, <1>2, SMT DEF ToSet
  <2>3. \A e \in ToSet(q) : e \in ToSet(Cons(x, q))
    <3> SUFFICES ASSUME NEW i \in 1 .. Len(q)  PROVE q[i] \in ToSet(Cons(x, q))
      BY <1>2 DEF ToSet
    <3>1. i + 1 \in DOMAIN Cons(x, q) /\ Cons(x, q)[i + 1] = q[i]
      BY <1>1, <1>2
    <3>2. QED  BY <3>1, Zenon DEF ToSet
  <2>4. QED  BY <2>1, <2>2, <2>3
<1>5. ASSUME IsInjective(q), x \notin ToSet(q)
      PROVE  IsInjective(Cons(x, q))
  <2>1. \A i \in 1 .. Len(q) : q[i] # x
    BY <1>2, <1>5 DEF ToSet
  <2>2. \A i, j \in 1 .. Len(q) : q[i] = q[j] => i = j
    BY <1>2, <1>5 DEF IsInjective
  <2>3. SUFFICES ASSUME NEW a \in 1 .. (Len(q) + 1), NEW b \in 1 .. (Len(q) + 1),
                        Cons(x, q)[a] = Cons(x, q)[b]
                 PROVE  a = b
    BY <1>2 DEF IsInjective
  <2>4. QED  BY <1>1, <1>2, <1>3, <2>1, <2>2, <2>3
<1>6. QED  BY <1>1, <1>2, <1>4, <1>5, EmptySeq

(* list_pop: the head leaves a list without duplicates. *)
LEMMA TailElems ==
  ASSUME NEW S, NEW q \in Seq(S), q # << >>, IsInjective(q)
  PROVE  /\ Head(q) \in S
         /\ Head(q) \in ToSet(q)
         /\ Tail(q) \in Seq(S)
         /\ ToSet(Tail(q)) = ToSet(q) \ {Head(q)}
         /\ IsInjective(Tail(q))
<1>1. /\ Head(q) \in S /\ Tail(q) \in Seq(S)
      /\ Len(q) \in Nat /\ Len(q) # 0
      /\ Len(Tail(q)) = Len(q) - 1
      /\ Head(q) = q[1]
      /\ \A i \in 1 .. Len(Tail(q)) : Tail(q)[i] = q[i + 1]
  BY HeadTailProperties, LenProperties, EmptySeq
<1>2. DOMAIN q = 1 .. Len(q) /\ DOMAIN Tail(q) = 1 .. (Len(q) - 1)
  BY <1>1, LenProperties
<1>3. \A i, j \in 1 .. Len(q) : q[i] = q[j] => i = j
  BY <1>2 DEF IsInjective
<1>4. ToSet(Tail(q)) = ToSet(q) \ {Head(q)}
  <2>1. \A e \in ToSet(Tail(q)) : e \in ToSet(q) \ {Head(q)}
    <3> SUFFICES ASSUME NEW i \in 1 .. (Len(q) - 1)
                 PROVE  Tail(q)[i] \in ToSet(q) /\ Tail(q)[i] # Head(q)
      BY <1>2 DEF ToSet
    <3>1. i + 1 \in 1 .. Len(q) /\ 1 \in 1 .. Len(q) /\ i + 1 # 1 /\ Tail(q)[i] = q[i + 1]
      BY <1>1
    <3>2. q[i + 1] # q[1]
      BY <3>1, <1>3
    <3>3. QED  BY <3>1, <3>2, <1>1, <1>2, Zenon DEF ToSet
  <2>2. ASSUME NEW e \in ToSet(q) \ {Head(q)}
        PROVE  e \in ToSet(Tail(q))
    <3>1. PICK i \in 1 .. Len(q) : e = q[i]
      BY <1>2 DEF ToSet
    <3>2. i - 1 \in 1 .. (Len(q) - 1) /\ Tail(q)[i - 1] = q[i]
      BY <3>1, <1>1
    <3>3. QED  BY <3>1, <3>2, <1>2, Zenon DEF ToSet
  <2>3. QED  BY <2>1, <2>2
<1>5. IsInjective(Tail(q))
  BY <1>1, <1>2, <1>3 DEF IsInjective
<1>6. Head(q) \in ToSet(q)
  BY <1>1, <1>2 DEF ToSet
<1>7. QED  BY <1>1, <1>4, <1>5, <1>6

-----------------------------------------------------------------------------
(***************************************************************************)
(* The scheduler's invariant without the running thread: what holds in the *)
(* middle of schedule().                                                   *)
(***************************************************************************)
QueueInv(s) == s \in SchedState /\ ~s.panic /\ ReadyListExact(s)

Runnable(s, t) == s.status[t] \in {"RUNNING", "READY"}

\* From s to r no thread but idle was blocked or woken.
SameBlocked(s, r) ==
  \A t \in Thread \ {idle_thread} :
     IF Runnable(s, t) THEN Runnable(r, t) ELSE r.status[t] = s.status[t]

\* From s to r time slices were left alone or refilled.
SlicesKept(s, r) ==
  \A t \in Thread : r.ticks[t] = s.ticks[t] \/ r.ticks[t] = priority[t]

(* thread_unblock queues the thread it is given and touches nothing else. *)
LEMMA UnblockQueue ==
  ASSUME NEW s, QueueInv(s), NEW t \in Thread, s.status[t] \in Blocked,
         NEW r, r = thread_unblock(s, t)
  PROVE  /\ QueueInv(r)
         /\ r.ready # << >>
         /\ r.cur = s.cur /\ r.ticks = s.ticks
         /\ r.status = [s.status EXCEPT ![t] = "READY"]
<1>1. /\ s \in SchedState /\ s.ready \in Seq(Thread) /\ IsInjective(s.ready)
      /\ ~s.panic
      /\ \A u \in Thread : u \in ToSet(s.ready) <=> s.status[u] = "READY"
  BY DEF QueueInv, ReadyListExact, InReadyList, SchedState
<1>2. t \notin ToSet(s.ready)
  BY <1>1 DEF Blocked
<1>3. r = [s EXCEPT !.ready = Cons(t, @), !.status[t] = "READY"]
  BY <1>2 DEF thread_unblock, InReadyList
<1>4. /\ r.ready = Cons(t, s.ready) /\ r.status = [s.status EXCEPT ![t] = "READY"]
      /\ r.cur = s.cur /\ r.ticks = s.ticks /\ r.panic = s.panic
  BY <1>1, <1>3 DEF SchedState
<1>5. /\ r.ready \in Seq(Thread) /\ r.ready # << >> /\ IsInjective(r.ready)
      /\ ToSet(r.ready) = ToSet(s.ready) \cup {t}
  <2>1. /\ Cons(t, s.ready) \in Seq(Thread) /\ Cons(t, s.ready) # << >>
        /\ ToSet(Cons(t, s.ready)) = ToSet(s.ready) \cup {t}
        /\ IsInjective(Cons(t, s.ready))
    BY <1>1, <1>2, ConsElems
  <2>2. QED  BY <2>1, <1>4, Zenon
<1>6. r \in SchedState
  <2>1. [s.status EXCEPT ![t] = "READY"] \in [Thread -> TaskStatus]
    BY <1>1 DEF SchedState, TaskStatus
  <2>2. [s EXCEPT !.ready = Cons(t, @)] \in SchedState
    BY <1>1, <1>4, <1>5 DEF SchedState
  <2>3. QED  BY <1>3, <2>1, <2>2 DEF SchedState
<1>7. \A u \in Thread : u \in ToSet(r.ready) <=> r.status[u] = "READY"
  BY <1>1, <1>4, <1>5 DEF SchedState
<1>8. QED
  BY <1>1, <1>4, <1>5, <1>6, <1>7 DEF QueueInv, ReadyListExact, InReadyList

(* list_append of a thread that is made READY. *)
LEMMA AppendQueue ==
  ASSUME NEW s, QueueInv(s), NEW t \in Thread, s.status[t] # "READY",
         NEW r \in SchedState,
         r.ready = Append(s.ready, t), r.status = [s.status EXCEPT ![t] = "READY"],
         r.panic = s.panic
  PROVE  QueueInv(r) /\ r.ready # << >>
<1>1. /\ s \in SchedState /\ s.ready \in Seq(Thread) /\ IsInjective(s.ready)
      /\ \A u \in Thread : u \in ToSet(s.ready) <=> s.status[u] = "READY"
  BY DEF QueueInv, ReadyListExact, InReadyList, SchedState
<1>2. /\ IsInjective(r.ready) /\ ToSet(r.ready) = ToSet(s.ready) \cup {t}
      /\ r.ready # << >>
  <2>1. /\ t \notin ToSet(s.ready)
        /\ IsInjective(Append(s.ready, t)) /\ Append(s.ready, t) # << >>
        /\ ToSet(Append(s.ready, t)) = ToSet(s.ready) \cup {t}
    BY <1>1, AppendElems, AppendProperties
  <2>2. QED  BY <2>1, Zenon
<1>3. \A u \in Thread : u \in ToSet(r.ready) <=> r.status[u] = "READY"
  BY <1>1, <1>2 DEF SchedState
<1>4. QED  BY <1>2, <1>3 DEF QueueInv, ReadyListExact, InReadyList

(* The switch puts the head of the ready list on the cpu. *)
LEMMA SwitchRuns ==
  ASSUME NEW s, QueueInv(s), s.ready # << >>,
         \A t \in Thread : s.status[t] # "RUNNING",
         NEW r, r = SwitchToHead(s)
  PROVE  /\ QueueInv(r) /\ OneRunning(r)
         /\ r.ticks = s.ticks
         /\ s.status[r.cur] = "READY"
         /\ r.status = [s.status EXCEPT ![r.cur] = "RUNNING"]
<1> DEFINE h == Head(s.ready)
<1>1. /\ s \in SchedState /\ s.ready \in Seq(Thread) /\ IsInjective(s.ready)
      /\ ~s.panic
      /\ \A u \in Thread : u \in ToSet(s.ready) <=> s.status[u] = "READY"
  BY DEF QueueInv, ReadyListExact, InReadyList, SchedState
<1>2. /\ h \in Thread /\ h \in ToSet(s.ready)
      /\ Tail(s.ready) \in Seq(Thread)
      /\ ToSet(Tail(s.ready)) = ToSet(s.ready) \ {h}
      /\ IsInjective(Tail(s.ready))
  BY <1>1, TailElems, Zenon
<1>3. r = [s EXCEPT !.ready = Tail(@), !.cur = h, !.status[h] = "RUNNING"]
  BY <1>1 DEF SwitchToHead
<1>4. /\ r.ready = Tail(s.ready) /\ r.status = [s.status EXCEPT ![h] = "RUNNING"]
      /\ r.cur = h /\ r.ticks = s.ticks /\ r.panic = s.panic
  BY <1>1, <1>3 DEF SchedState
<1>5. r \in SchedState
  <2>1. [s.status EXCEPT ![h] = "RUNNING"] \in [Thread -> TaskStatus]
    BY <1>1 DEF SchedState, TaskStatus
  <2>2. [s EXCEPT !.ready = Tail(@), !.cur = h] \in SchedState
    BY <1>1, <1>2 DEF SchedState
  <2>3. QED  BY <1>3, <2>1, <2>2 DEF SchedState
<1>6. \A u \in Thread : u \in ToSet(r.ready) <=> r.status[u] = "READY"
  BY <1>1, <1>2, <1>4 DEF SchedState
<1> HIDE DEF h
<1>7. OneRunning(r)
  BY <1>1, <1>2, <1>4 DEF OneRunning, SchedState
<1>8. QED
  BY <1>1, <1>2, <1>4, <1>5, <1>6, <1>7 DEF QueueInv, ReadyListExact, InReadyList

(* schedule(): the running thread may have marked itself blocked, dead, or  *)
(* READY at the back of the list.                                           *)
LEMMA ScheduleRuns ==
  ASSUME NEW s, QueueInv(s), IdleAvailable(s),
         \A t \in Thread : s.status[t] = "RUNNING" => t = s.cur,
         NEW r, r = schedule(s)
  PROVE  SchedInv(r) /\ SameBlocked(s, r) /\ SlicesKept(s, r)
<1> DEFINE s1 == RequeueCurrent(s)
           s2 == ProvideIdle(s1)
<1>1. /\ s \in SchedState /\ ~s.panic /\ s.cur \in Thread
      /\ s.status \in [Thread -> TaskStatus]
      /\ idle_thread \in Thread
      /\ \A u \in Thread : u \in ToSet(s.ready) <=> s.status[u] = "READY"
  BY ThreadAssumption DEF QueueInv, ReadyListExact, InReadyList, SchedState
<1>2. /\ QueueInv(s1) /\ IdleAvailable(s1)
      /\ \A t \in Thread : s1.status[t] # "RUNNING"
      /\ \A t \in Thread : \/ s1.status[t] = s.status[t]
                           \/ s.status[t] = "RUNNING" /\ s1.status[t] = "READY"
      /\ SlicesKept(s, s1)
  <2>1. CASE s.status[s.cur] # "RUNNING"
    <3>1. s1 = s
      BY <2>1 DEF RequeueCurrent
    <3>2. QED  BY <3>1, <2>1 DEF SlicesKept
  <2>2. CASE s.status[s.cur] = "RUNNING"
    <3>1. s.cur \notin ToSet(s.ready)
      BY <2>2, <1>1
    <3>2. s1 = [s EXCEPT !.ready = Append(@, s.cur),
                         !.ticks[s.cur] = priority[s.cur],
                         !.status[s.cur] = "READY"]
      BY <2>2, <3>1 DEF RequeueCurrent, InReadyList
    <3>3. /\ s1.ready = Append(s.ready, s.cur)
          /\ s1.status = [s.status EXCEPT ![s.cur] = "READY"]
          /\ s1.ticks = [s.ticks EXCEPT ![s.cur] = priority[s.cur]]
          /\ s1.cur = s.cur /\ s1.panic = s.panic
      BY <1>1, <3>2 DEF SchedState
    <3>4. s1 \in SchedState
      <4>1. Append(s.ready, s.cur) \in Seq(Thread)
        BY <1>1, AppendProperties DEF SchedState
      <4>2. [s.ticks EXCEPT ![s.cur] = priority[s.cur]] \in [Thread -> Nat]
        BY <1>1, ThreadAssumption DEF SchedState
      <4>3. [s.status EXCEPT ![s.cur] = "READY"] \in [Thread -> TaskStatus]
        BY <1>1 DEF TaskStatus
      <4>4. [s EXCEPT !.ready = Append(@, s.cur)] \in SchedState
        BY <1>1, <4>1 DEF SchedState
      <4>5. [s EXCEPT !.ready = Append(@, s.cur),
                      !.ticks[s.cur] = priority[s.cur]] \in SchedState
        BY <1>1, <4>2, <4>4 DEF SchedState
      <4>6. QED
        BY <1>1, <3>2, <4>3, <4>5 DEF SchedState
    <3> HIDE DEF s1
    <3>5. QueueInv(s1)
      BY <1>1, <2>2, <3>3, <3>4, AppendQueue
    <3>6. SlicesKept(s, s1)
      BY <1>1, <3>3 DEF SlicesKept, SchedState
    <3>7. QED
      BY <1>1, <2>2, <3>3, <3>5, <3>6 DEF IdleAvailable
  <2>3. QED  BY <2>1, <2>2
<1> HIDE DEF s1
<1>3. s1 \in SchedState /\ s1.status \in [Thread -> TaskStatus]
  BY <1>2 DEF QueueInv, SchedState
<1>4. /\ QueueInv(s2) /\ s2.ready # << >> /\ IdleAvailable(s2)
      /\ \A t \in Thread : s2.status[t] # "RUNNING"
      /\ \A t \in Thread \ {idle_thread} : s2.status[t] = s1.status[t]
      /\ s2.ticks = s1.ticks
  <2>1. CASE s1.ready # << >>
    <3>1. s2 = s1
      BY <2>1 DEF ProvideIdle
    <3>2. QED  BY <2>1, <3>1, <1>2
  <2>2. CASE s1.ready = << >>
    <3>1. s1.status[idle_thread] = "BLOCKED"
      <4>1. idle_thread \notin ToSet(s1.ready)
        BY <2>2, EmptySeq DEF ToSet
      <4>2. s1.status[idle_thread] # "READY"
        BY <4>1, <1>1, <1>2 DEF QueueInv, ReadyListExact, InReadyList
      <4>3. QED  BY <4>2, <1>1, <1>2 DEF IdleAvailable
    <3>2. s2 = thread_unblock(s1, idle_thread)
      BY <2>2 DEF ProvideIdle
    <3> HIDE DEF s2
    <3>3. /\ QueueInv(s2) /\ s2.ready # << >> /\ s2.ticks = s1.ticks
          /\ s2.status = [s1.status EXCEPT ![idle_thread] = "READY"]
      BY <3>1, <3>2, <1>1, <1>2, UnblockQueue DEF Blocked
    <3>4. QED  BY <3>3, <1>1, <1>2, <1>3 DEF IdleAvailable
  <2>3. QED  BY <2>1, <2>2
<1>5. r = SwitchToHead(s2)
  BY DEF schedule, s1
<1> HIDE DEF s2
<1>6. /\ QueueInv(r) /\ OneRunning(r) /\ r.ticks = s2.ticks
      /\ s2.status[r.cur] = "READY"
      /\ r.status = [s2.status EXCEPT ![r.cur] = "RUNNING"]
  BY <1>4, <1>5, SwitchRuns
<1>7. s2.status \in [Thread -> TaskStatus] /\ r.cur \in Thread
  BY <1>4, <1>6 DEF QueueInv, SchedState
<1>8. IdleAvailable(r)
  BY <1>1, <1>4, <1>6, <1>7 DEF IdleAvailable
<1>9. SameBlocked(s, r)
  BY <1>1, <1>2, <1>4, <1>6, <1>7 DEF SameBlocked, Runnable
<1>10. SlicesKept(s, r)
  BY <1>2, <1>4, <1>6 DEF SlicesKept
<1>11. QED
  BY <1>6, <1>8, <1>9, <1>10 DEF SchedInv, QueueInv

-----------------------------------------------------------------------------
(* The running thread, idle excepted, takes a status that is not runnable   *)
(* and calls schedule(); idle may only become BLOCKED.                      *)
LEMMA BlockRuns ==
  ASSUME NEW s, SchedInv(s), NEW stat \in Blocked \cup {"DIED"},
         s.cur = idle_thread => stat = "BLOCKED",
         NEW b, b = [s EXCEPT !.status[s.cur] = stat],
         NEW r, r = schedule(b)
  PROVE  /\ SchedInv(r) /\ SameBlocked(b, r) /\ SlicesKept(s, r)
         /\ b.status = [s.status EXCEPT ![s.cur] = stat]
<1>1. /\ s \in SchedState /\ s.cur \in Thread /\ s.status \in [Thread -> TaskStatus]
      /\ \A u \in Thread : s.status[u] = "RUNNING" <=> u = s.cur
  BY DEF SchedInv, OneRunning, SchedState
<1>2. /\ b.cur = s.cur /\ b.ready = s.ready /\ b.ticks = s.ticks /\ b.panic = s.panic
      /\ b.status = [s.status EXCEPT ![s.cur] = stat]
  BY <1>1 DEF SchedState
<1>3. b \in SchedState
  BY <1>1 DEF SchedState, TaskStatus
<1>4. QueueInv(b)
  <2>1. \A u \in Thread : u \in ToSet(b.ready) <=> b.status[u] = "READY"
    BY <1>1, <1>2 DEF SchedInv, ReadyListExact, InReadyList, Blocked
  <2>2. QED
    BY <1>2, <1>3, <2>1 DEF SchedInv, QueueInv, ReadyListExact, InReadyList
<1>5. IdleAvailable(b)
  BY <1>1, <1>2, ThreadAssumption DEF SchedInv, IdleAvailable
<1>6. \A t \in Thread : b.status[t] = "RUNNING" => t = b.cur
  BY <1>1, <1>2
<1>7. SchedInv(r) /\ SameBlocked(b, r) /\ SlicesKept(b, r)
  BY <1>4, <1>5, <1>6, ScheduleRuns
<1>8. QED  BY <1>2, <1>7 DEF SlicesKept

(* thread_yield: the running thread stays runnable and nothing is woken.    *)
LEMMA YieldRuns ==
  ASSUME NEW s, SchedInv(s), NEW r, r = thread_yield(s)
  PROVE  SchedInv(r) /\ SameBlocked(s, r) /\ SlicesKept(s, r)
<1> DEFINE b == [s EXCEPT !.ready = Append(@, s.cur), !.status[s.cur] = "READY"]
<1>1. /\ s \in SchedState /\ s.cur \in Thread /\ s.status \in [Thread -> TaskStatus]
      /\ \A u \in Thread : s.status[u] = "RUNNING" <=> u = s.cur
      /\ \A u \in Thread : u \in ToSet(s.ready) <=> s.status[u] = "READY"
      /\ QueueInv(s)
  BY DEF SchedInv, OneRunning, SchedState, ReadyListExact, InReadyList, QueueInv
<1>2. s.cur \notin ToSet(s.ready)
  BY <1>1
<1>3. r = schedule(b)
  BY <1>2 DEF thread_yield, InReadyList
<1>4. /\ b.cur = s.cur /\ b.ready = Append(s.ready, s.cur) /\ b.ticks = s.ticks
      /\ b.panic = s.panic /\ b.status = [s.status EXCEPT ![s.cur] = "READY"]
  BY <1>1 DEF SchedState
<1>5. b \in SchedState
  <2>1. Append(s.ready, s.cur) \in Seq(Thread)
    BY <1>1, AppendProperties DEF SchedState
  <2>2. [s EXCEPT !.ready = Append(@, s.cur)] \in SchedState
    BY <1>1, <2>1 DEF SchedState
  <2>3. QED  BY <1>1, <2>2 DEF SchedState, TaskStatus
<1> HIDE DEF b
<1>6. QueueInv(b)
  BY <1>1, <1>4, <1>5, AppendQueue
<1>7. IdleAvailable(b) /\ (\A t \in Thread : b.status[t] = "RUNNING" => t = b.cur)
  BY <1>1, <1>4, ThreadAssumption DEF SchedInv, IdleAvailable
<1>8. SchedInv(r) /\ SameBlocked(b, r) /\ SlicesKept(b, r)
  BY <1>3, <1>6, <1>7, ScheduleRuns
<1>9. SameBlocked(s, r)
  BY <1>1, <1>4, <1>8 DEF SameBlocked, Runnable
<1>10. QED  BY <1>4, <1>8, <1>9 DEF SlicesKept

(* The timer interrupt either takes one tick or reschedules.                *)
LEMMA TickRuns ==
  ASSUME NEW s, SchedInv(s), NEW r, r = intr_timer_handler(s)
  PROVE  /\ SchedInv(r) /\ SameBlocked(s, r)
         /\ \A t \in Thread : \/ r.ticks[t] <= s.ticks[t]
                              \/ r.ticks[t] = priority[t]
<1>1. /\ s \in SchedState /\ s.cur \in Thread /\ s.ticks \in [Thread -> Nat]
  BY DEF SchedInv, SchedState
<1>2. CASE s.ticks[s.cur] = 0
  <2>1. r = schedule(s)
    BY <1>2 DEF intr_timer_handler
  <2>2. SchedInv(r) /\ SameBlocked(s, r) /\ SlicesKept(s, r)
    BY <2>1, ScheduleRuns DEF SchedInv, QueueInv, OneRunning
  <2>3. QED  BY <1>1, <2>2 DEF SlicesKept
<1>3. CASE s.ticks[s.cur] # 0
  <2>1. r = [s EXCEPT !.ticks[s.cur] = @ - 1]
    BY <1>3 DEF intr_timer_handler
  <2>2. /\ r.cur = s.cur /\ r.ready = s.ready /\ r.status = s.status
        /\ r.panic = s.panic /\ r.ticks = [s.ticks EXCEPT ![s.cur] = @ - 1]
    BY <1>1, <2>1 DEF SchedState
  <2>3. [s.ticks EXCEPT ![s.cur] = @ - 1] \in [Thread -> Nat]
    BY <1>1, <1>3
  <2>4. r \in SchedState
    BY <1>1, <2>1, <2>3 DEF SchedState
  <2>5. SchedInv(r)
    BY <2>2, <2>4 DEF SchedInv, ReadyListExact, InReadyList, OneRunning, IdleAvailable
  <2>6. QED
    BY <1>1, <1>3, <2>2, <2>5 DEF SameBlocked, Runnable
<1>4. QED  BY <1>2, <1>3

(* Waking a blocked thread while another one runs.                          *)
LEMMA UnblockRuns ==
  ASSUME NEW s, SchedInv(s), NEW t \in Thread, s.status[t] \in Blocked,
         NEW r, r = thread_unblock(s, t)
  PROVE  /\ SchedInv(r)
         /\ r.cur = s.cur /\ r.ticks = s.ticks
         /\ r.status = [s.status EXCEPT ![t] = "READY"]
<1>1. /\ s.status \in [Thread -> TaskStatus]
      /\ \A u \in Thread : s.status[u] = "RUNNING" <=> u = s.cur
  BY DEF SchedInv, OneRunning, SchedState
<1>2. /\ QueueInv(r) /\ r.cur = s.cur /\ r.ticks = s.ticks
      /\ r.status = [s.status EXCEPT ![t] = "READY"]
  BY UnblockQueue DEF SchedInv, QueueInv
<1>3. OneRunning(r) /\ IdleAvailable(r)
  BY <1>1, <1>2, ThreadAssumption DEF SchedInv, OneRunning, IdleAvailable, Blocked
<1>4. QED  BY <1>2, <1>3 DEF SchedInv, QueueInv

(* thread_start and sys_fork queue a PCB that was not in use.               *)
LEMMA EnqueueRuns ==
  ASSUME NEW s, SchedInv(s), NEW t \in Thread, s.status[t] \in {"FREE", "DIED"},
         NEW r, r = EnqueueNew(s, t)
  PROVE  /\ SchedInv(r) /\ SlicesKept(s, r) /\ r.cur = s.cur
         /\ r.status = [s.status EXCEPT ![t] = "READY"]
<1>1. /\ s \in SchedState /\ s.cur \in Thread /\ s.status \in [Thread -> TaskStatus]
      /\ \A u \in Thread : s.status[u] = "RUNNING" <=> u = s.cur
      /\ \A u \in Thread : u \in ToSet(s.ready) <=> s.status[u] = "READY"
      /\ QueueInv(s)
  BY DEF SchedInv, OneRunning, SchedState, ReadyListExact, InReadyList, QueueInv
<1>2. r = [s EXCEPT !.ready = Append(@, t), !.ticks[t] = priority[t],
                    !.status[t] = "READY"]
  BY <1>1 DEF EnqueueNew, InReadyList
<1>3. /\ r.cur = s.cur /\ r.ready = Append(s.ready, t) /\ r.panic = s.panic
      /\ r.ticks = [s.ticks EXCEPT ![t] = priority[t]]
      /\ r.status = [s.status EXCEPT ![t] = "READY"]
  BY <1>1, <1>2 DEF SchedState
<1>4. r \in SchedState
  <2>1. Append(s.ready, t) \in Seq(Thread)
    BY <1>1, AppendProperties DEF SchedState
  <2>2. [s EXCEPT !.ready = Append(@, t)] \in SchedState
    BY <1>1, <2>1 DEF SchedState
  <2>3. [s.ticks EXCEPT ![t] = priority[t]] \in [Thread -> Nat]
    BY <1>1, ThreadAssumption DEF SchedState
  <2>4. [s EXCEPT !.ready = Append(@, t), !.ticks[t] = priority[t]] \in SchedState
    BY <1>1, <2>2, <2>3 DEF SchedState
  <2>5. [s.status EXCEPT ![t] = "READY"] \in [Thread -> TaskStatus]
    BY <1>1 DEF TaskStatus
  <2>6. QED  BY <1>1, <1>2, <2>4, <2>5 DEF SchedState
<1>5. QueueInv(r)
  BY <1>1, <1>3, <1>4, AppendQueue
<1>6. OneRunning(r) /\ IdleAvailable(r)
  BY <1>1, <1>3, ThreadAssumption DEF SchedInv, OneRunning, IdleAvailable
<1>7. SlicesKept(s, r)
  BY <1>1, <1>3 DEF SlicesKept, SchedState
<1>8. QED  BY <1>3, <1>5, <1>6, <1>7 DEF SchedInv, QueueInv

(* thread_exit of another, already exited, process.                         *)
LEMMA ReapRuns ==
  ASSUME NEW s, SchedInv(s), NEW t \in Thread, s.status[t] = "HANGING",
         NEW r, r = thread_exit(s, t, FALSE)
  PROVE  /\ SchedInv(r) /\ r.cur = s.cur /\ r.ticks = s.ticks
         /\ r.status = [s.status EXCEPT ![t] = "DIED"]
<1>1. /\ s \in SchedState /\ s.cur \in Thread /\ s.status \in [Thread -> TaskStatus]
      /\ \A u \in Thread : s.status[u] = "RUNNING" <=> u = s.cur
      /\ \A u \in Thread : u \in ToSet(s.ready) <=> s.status[u] = "READY"
  BY DEF SchedInv, OneRunning, SchedState, ReadyListExact, InReadyList
<1>2. t \notin ToSet(s.ready)
  BY <1>1
<1>3. r = [s EXCEPT !.status[t] = "DIED", !.ready = s.ready]
  BY <1>1, <1>2 DEF thread_exit, InReadyList, SchedState
<1>4. /\ r.cur = s.cur /\ r.ready = s.ready /\ r.ticks = s.ticks /\ r.panic = s.panic
      /\ r.status = [s.status EXCEPT ![t] = "DIED"]
  BY <1>1, <1>3 DEF SchedState
<1>5. r \in SchedState
  <2>1. [s EXCEPT !.status[t] = "DIED"] \in SchedState
    BY <1>1 DEF SchedState, TaskStatus
  <2>2. QED  BY <1>1, <1>3, <2>1 DEF SchedState
<1>6. ReadyListExact(r)
  BY <1>1, <1>4 DEF SchedInv, ReadyListExact, InReadyList
<1>7. OneRunning(r) /\ IdleAvailable(r)
  <2>1. /\ s.status \in [Thread -> TaskStatus] /\ s.cur \in Thread
        /\ \A u \in Thread : s.status[u] = "RUNNING" <=> u = s.cur
        /\ s.status[idle_thread] \in {"RUNNING", "READY", "BLOCKED"}
        /\ r.status = [s.status EXCEPT ![t] = "DIED"] /\ r.cur = s.cur
    BY <1>1, <1>4 DEF SchedInv, IdleAvailable
  <2>2. t # s.cur /\ t # idle_thread /\ idle_thread \in Thread
    BY <2>1, ThreadAssumption
  <2>3. r.status[t] = "DIED" /\ \A u \in Thread \ {t} : r.status[u] = s.status[u]
    BY <2>1
  <2>4. ASSUME NEW u \in Thread PROVE r.status[u] = "RUNNING" <=> u = r.cur
    <3>1. CASE u = t  BY <3>1, <2>1, <2>2, <2>3
    <3>2. CASE u # t  BY <3>2, <2>1, <2>3
    <3>3. QED  BY <3>1, <3>2
  <2>5. r.status[idle_thread] = s.status[idle_thread]
    BY <2>2, <2>3
  <2>6. QED  BY <2>1, <2>4, <2>5 DEF OneRunning, IdleAvailable
<1>8. QED  BY <1>4, <1>5, <1>6, <1>7 DEF SchedInv
=============================================================================
