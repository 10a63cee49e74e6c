---------------------------- MODULE ProcLifeProofs ----------------------------
(***************************************************************************)
(* fork, exit and wait for any number of PCB pages: pids stay unique, an   *)
(* exiting process always finds a parent that can reap it, and no parent   *)
(* sleeps over a child that has exited.                                    *)
(***************************************************************************)
EXTENDS ProcLife, ThreadOpsProofs, FiniteSetTheorems, WellFoundedInduction

(***************************************************************************)
(* Lists                                                                   *)
(***************************************************************************)
(* Min of a nonempty set of naturals is its least element.                  *)
LEMMA LeastOfNats ==
  ASSUME NEW S \in SUBSET Nat, S # {}
  PROVE  Min(S) \in S
<1>1. PICK x \in S : \A y \in S : ~ (<<y, x>> \in OpToRel(<, Nat))
  BY NatLessThanWellFounded, WFMin
<1>2. \A y \in S : <<y, x>> \in Nat \X Nat
  OBVIOUS
<1>3. \A y \in S : ~(y < x)
  BY <1>1, <1>2 DEF OpToRel
<1>4. \A y \in S : x <= y
  BY <1>3
<1>5. Min(S) = CHOOSE y \in S : \A z \in S : y <= z
  BY DEF Min
<1>6. QED  BY <1>4, <1>5

\* q names n nodes, no two of them the same.
Distinct(q, n) == \A i, j \in 1 .. n : q[i] = q[j] => i = j

\* The n nodes of q.
Nodes(q, n) == {q[i] : i \in 1 .. n}

\* a is the part of q before position k, b the n - k nodes behind it.
Before(a, q, k) == Len(a) = k - 1 /\ \A i \in 1 .. k - 1 : a[i] = q[i]
Behind(b, q, k, n) == Len(b) = n - k /\ \A i \in 1 .. n - k : b[i] = q[i + k]

\* r is q, of n nodes, without the one at position k.
Without(r, q, k, n) ==
  \A i \in 1 .. n - 1 : r[i] = IF i < k THEN q[i] ELSE q[i + 1]

(* What is left when one of several distinct nodes is taken out.            *)
LEMMA Splice ==
  ASSUME NEW n \in Nat, NEW k \in 1 .. n, NEW q, NEW r,
         Distinct(q, n), Without(r, q, k, n)
  PROVE  Distinct(r, n - 1) /\ Nodes(r, n - 1) = Nodes(q, n) \ {q[k]}
<1> DEFINE f(i) == IF i < k THEN i ELSE i + 1
<1>1. \A i \in 1 .. n - 1 : f(i) \in 1 .. n /\ f(i) # k /\ r[i] = q[f(i)]
  BY DEF Without
<1>2. \A i, j \in 1 .. n - 1 : f(i) = f(j) => i = j
  OBVIOUS
<1>3. \A j \in 1 .. n : j # k => \E i \in 1 .. n - 1 : f(i) = j
  <2> SUFFICES ASSUME NEW j \in 1 .. n, j # k PROVE \E i \in 1 .. n - 1 : f(i) = j
    OBVIOUS
  <2>1. CASE j < k
    <3>1. j \in 1 .. n - 1 /\ f(j) = j
      BY <2>1
    <3>2. QED  BY <3>1
  <2>2. CASE j > k
    <3>1. j - 1 \in 1 .. n - 1 /\ f(j - 1) = j
      BY <2>2
    <3>2. QED  BY <3>1
  <2>3. QED  BY <2>1, <2>2
<1> HIDE DEF f
<1>4. \A i, j \in 1 .. n : q[i] = q[j] => i = j
  BY DEF Distinct
<1>5. Distinct(r, n - 1)
  BY <1>1, <1>2, <1>4 DEF Distinct
<1>6. ASSUME NEW i \in 1 .. n - 1 PROVE r[i] \in Nodes(q, n) \ {q[k]}
  BY <1>1, <1>4 DEF Nodes
<1>7. ASSUME NEW j \in 1 .. n, q[j] # q[k] PROVE q[j] \in Nodes(r, n - 1)
  BY <1>1, <1>3, <1>7 DEF Nodes
<1>8. QED  BY <1>5, <1>6, <1>7 DEF Nodes

(* The two parts, put together.                                             *)
LEMMA Join ==
  ASSUME NEW S, NEW a \in Seq(S), NEW b \in Seq(S), NEW n \in Nat, NEW k \in 1 .. n, NEW q,
         Before(a, q, k), Behind(b, q, k, n)
  PROVE  a \o b \in Seq(S) /\ Len(a \o b) = n - 1 /\ Without(a \o b, q, k, n)
<1> DEFINE r == a \o b
<1>1. /\ r \in Seq(S) /\ Len(r) = Len(a) + Len(b)
      /\ \A i \in 1 .. Len(a) + Len(b) : r[i] = IF i <= Len(a) THEN a[i] ELSE b[i - Len(a)]
  BY ConcatProperties
<1> HIDE DEF r
<1>2. Len(r) = n - 1
  BY <1>1 DEF Before, Behind
<1>3. \A i \in 1 .. n - 1 : r[i] = IF i <= k - 1 THEN a[i] ELSE b[i - (k - 1)]
  BY <1>1 DEF Before, Behind
<1>4. \A i \in 1 .. n - 1 : r[i] = IF i < k THEN q[i] ELSE q[i + 1]
  <2> SUFFICES ASSUME NEW i \in 1 .. n - 1 PROVE r[i] = IF i < k THEN q[i] ELSE q[i + 1]
    OBVIOUS
  <2>1. CASE i < k
    BY <1>3, <2>1 DEF Before
  <2>2. CASE ~(i < k)
    <3>1. i - (k - 1) \in 1 .. n - k /\ (i - (k - 1)) + k = i + 1
      BY <2>2
    <3>2. b[i - (k - 1)] = q[i + 1]
      BY <3>1 DEF Behind
    <3>3. QED  BY <1>3, <2>2, <3>2
  <2>3. QED  BY <2>1, <2>2
<1>5. QED  BY <1>1, <1>2, <1>4 DEF r, Without

(* SubSeq returns the two parts.                                            *)
LEMMA Part ==
  ASSUME NEW S, NEW q, NEW n \in Nat, NEW k \in 1 .. n, \A i \in 1 .. n : q[i] \in S
  PROVE  /\ SubSeq(q, 1, k - 1) \in Seq(S) /\ Before(SubSeq(q, 1, k - 1), q, k)
         /\ SubSeq(q, k + 1, n) \in Seq(S) /\ Behind(SubSeq(q, k + 1, n), q, k, n)
<1>1. PICK l \in Int, m \in Int : l = k - 1 /\ m = k + 1
  OBVIOUS
<1>2. (\A i \in 1 .. l : q[i] \in S) /\ (\A i \in m .. n : q[i] \in S)
  BY <1>1
<1>3. /\ SubSeq(q, 1, l) \in Seq(S) /\ Len(SubSeq(q, 1, l)) = IF 1 <= l THEN l - 1 + 1 ELSE 0
      /\ \A i \in 1 .. l - 1 + 1 : SubSeq(q, 1, l)[i] = q[1 + i - 1]
  BY <1>2, SubSeqProperties
<1>4. /\ SubSeq(q, m, n) \in Seq(S) /\ Len(SubSeq(q, m, n)) = IF m <= n THEN n - m + 1 ELSE 0
      /\ \A i \in 1 .. n - m + 1 : SubSeq(q, m, n)[i] = q[m + i - 1]
  BY <1>2, SubSeqProperties
<1> DEFINE a == SubSeq(q, 1, l)
           b == SubSeq(q, m, n)
<1>5. a = SubSeq(q, 1, k - 1) /\ b = SubSeq(q, k + 1, n)
  BY <1>1
<1> HIDE DEF a, b
<1>6. Len(a) = k - 1 /\ \A i \in 1 .. k - 1 : a[i] = q[i]
  BY <1>1, <1>3 DEF a
<1>7. Len(b) = n - k /\ \A i \in 1 .. n - k : b[i] = q[i + k]
  BY <1>1, <1>4 DEF b
<1>8. Before(a, q, k) /\ Behind(b, q, k, n)
  BY <1>6, <1>7 DEF Before, Behind
<1>9. QED  BY <1>3, <1>4, <1>5, <1>8 DEF a, b

(* list_remove of an element of the list unlinks just that element.         *)
LEMMA RemoveElems ==
  ASSUME NEW S, NEW q \in Seq(S), IsInjective(q), NEW e \in ToSet(q)
  PROVE  /\ RemoveFirst(q, e) \in Seq(S) /\ IsInjective(RemoveFirst(q, e))
         /\ ToSet(RemoveFirst(q, e)) = ToSet(q) \ {e}
<1>1. PICK n \in Nat : n = Len(q) /\ DOMAIN q = 1 .. n /\ \A i \in 1 .. n : q[i] \in S
  BY LenProperties
<1> DEFINE hits == {i \in 1 .. n : q[i] = e}
<1>2. \E i \in 1 .. n : q[i] = e
  BY <1>1 DEF ToSet
<1>3. PICK k \in 1 .. n : k = Min(hits) /\ q[k] = e
  <2>1. hits \in SUBSET Nat /\ hits # {}
    BY <1>2
  <2> HIDE DEF hits
  <2>2. Min(hits) \in hits
    BY <2>1, LeastOfNats
  <2>3. QED  BY <2>2 DEF hits
<1>4. RemoveFirst(q, e) = RemoveAt(q, SelectInSeq(q, LAMBDA v : v = e))
  BY <1>1, <1>2 DEF RemoveFirst
<1>5. SelectInSeq(q, LAMBDA v : v = e) = k
  BY <1>1, <1>2, <1>3 DEF SelectInSeq
<1> DEFINE a == SubSeq(q, 1, k - 1)
           b == SubSeq(q, k + 1, n)
<1>6. RemoveFirst(q, e) = a \o b
  BY <1>1, <1>4, <1>5 DEF RemoveAt
<1>7. a \in Seq(S) /\ Before(a, q, k) /\ b \in Seq(S) /\ Behind(b, q, k, n)
  BY <1>1, Part
<1> HIDE DEF hits, a, b
<1>8. a \o b \in Seq(S) /\ Len(a \o b) = n - 1 /\ Without(a \o b, q, k, n)
  BY <1>7, Join
<1>9. PICK r \in Seq(S) : r = RemoveFirst(q, e) /\ Len(r) = n - 1 /\ Without(r, q, k, n)
  BY <1>6, <1>8
<1>10. Distinct(r, n - 1) /\ Nodes(r, n - 1) = Nodes(q, n) \ {q[k]}
  <2>1. Distinct(q, n)
    BY <1>1 DEF IsInjective, Distinct
  <2>2. QED  BY <1>9, <2>1, Splice
<1>11. DOMAIN r = 1 .. n - 1
  BY <1>9, LenProperties
<1>12. IsInjective(r) /\ ToSet(r) = Nodes(r, n - 1) /\ ToSet(q) = Nodes(q, n)
  BY <1>1, <1>10, <1>11 DEF IsInjective, Distinct, ToSet, Nodes
<1>13. QED  BY <1>3, <1>9, <1>10, <1>12

(* list_traversal stops at a node that satisfies its test, if there is one. *)
LEMMA FirstHit ==
  ASSUME NEW S, NEW q \in Seq(S), NEW hits \in SUBSET (DOMAIN q), hits # {}
  PROVE  Min(hits) \in hits /\ q[Min(hits)] \in ToSet(q)
<1>1. DOMAIN q = 1 .. Len(q)
  BY LenProperties
<1>2. hits \in SUBSET Nat
  BY <1>1
<1>3. Min(hits) \in hits
  BY <1>2, LeastOfNats
<1>4. QED  BY <1>3 DEF ToSet

-----------------------------------------------------------------------------
(***************************************************************************)
(* The inductive invariant                                                 *)
(***************************************************************************)
\* A page without a PCB in use.
Dead(t) == sched.status[t] \in {"FREE", "DIED"}

\* The PCB a fork is filling in and that has its pid already.
Numbered(t) == \E u \in Thread : pc[u] = "dup" /\ newborn[u] = t

\* Threads whose pid the pool has given out for good.
Registered(t) == t \in Alive \/ Numbered(t)

\* thread_all_list holds each PCB in use once; init and idle never leave it.
ListInv ==
  /\ IsInjective(all_list)
  /\ \A t \in Thread : t \in Alive <=> ~Dead(t)
  /\ init \in Alive /\ idle_thread \in Alive
  /\ pid[init] = init_pid

\* Only a process in use is inside a system call; those that have exited hang.
CallInv ==
  /\ \A t \in Thread : pc[t] \notin {"user", "gone"} => t \in Alive /\ t \in Process
  /\ \A t \in Alive : Hanging(t) <=> pc[t] = "gone"
  /\ pc[init] \notin {"release", "gone"}

\* A fork holds a page of its own.
NewbornInv ==
  /\ \A u \in Thread : newborn[u] # NULL <=> pc[u] \in {"copy", "dup"}
  /\ \A u, v \in Thread : newborn[u] = newborn[v] /\ newborn[u] # NULL => u = v
  /\ \A u \in Thread : newborn[u] \notin Alive /\ newborn[u] \notin lost
  /\ \A t \in lost : t \notin Alive

\* The pool knows the pid of every thread, and gives out no pid that has no
\* owner: an owner is in the list, about to enter it, or leaked.
PidInv ==
  /\ \A t, u \in Thread : Registered(t) /\ Registered(u) /\ pid[t] = pid[u] => t = u
  /\ \A t \in Thread : Registered(t) => pid[t] \in pids
  /\ \A n \in pids : \E t \in Thread : (Registered(t) \/ t \in lost) /\ pid[t] = n

\* Every process but init has a parent that can still reap it; the child of a
\* fork already has the forking process.
ParentInv ==
  /\ \A t \in Alive \cap Process : parent[t] # -1 =>
       \E p \in Alive \cap Process : pid[p] = parent[t] /\ pc[p] \notin {"release", "gone"}
  /\ \A t \in (Alive \cap Process) \ {init} : parent[t] # -1
  /\ \A u \in Thread : pc[u] = "dup" => parent[newborn[u]] = pid[u]

IInv ==
  /\ TypeOK /\ SchedInv(sched)
  /\ ListInv /\ CallInv /\ NewbornInv /\ PidInv /\ ParentInv /\ NoLostExit
-----------------------------------------------------------------------------
(***************************************************************************)
(* Steps that only switch, block or wake                                   *)
(***************************************************************************)
\* From s to r no PCB came or went, and no process exited.
SameLives(s, r) ==
  \A t \in Thread : /\ r.status[t] \in {"FREE", "DIED"} <=> s.status[t] \in {"FREE", "DIED"}
                    /\ r.status[t] = "HANGING" <=> s.status[t] = "HANGING"

\* From s to r nothing of that kind happened to a thread other than me, and
\* none of them began to wait.
OthersLive(s, r, me) ==
  \A t \in Thread \ {me} :
     /\ r.status[t] \in {"FREE", "DIED"} <=> s.status[t] \in {"FREE", "DIED"}
     /\ r.status[t] = "HANGING" <=> s.status[t] = "HANGING"
     /\ r.status[t] = "WAITING" => s.status[t] = "WAITING"

(* A running thread that blocks.                                            *)
LEMMA SleepLives ==
  ASSUME NEW s, SchedInv(s), NEW stat \in {"BLOCKED", "WAITING"},
         s.cur = idle_thread => stat = "BLOCKED",
         NEW r, r = thread_block(s, stat)
  PROVE  /\ SchedInv(r) /\ SameLives(s, r)
         /\ \A t \in Thread : r.status[t] = "WAITING" =>
              s.status[t] = "WAITING" \/ (t = s.cur /\ stat = "WAITING")
<1> DEFINE b == [s EXCEPT !.status[s.cur] = stat]
<1>1. s.cur \in Thread /\ s.status \in [Thread -> TaskStatus] /\ s.status[s.cur] = "RUNNING"
  BY DEF SchedInv, SchedState, OneRunning
<1>2. b.status = [s.status EXCEPT ![s.cur] = stat]
  BY <1>1 DEF SchedInv, SchedState
<1>3. r = schedule(b) /\ stat \in Blocked \cup {"DIED"}
  BY DEF thread_block, Blocked
<1>4. SchedInv(r) /\ SameBlocked(b, r)
  <2> HIDE DEF b
  <2>1. b = [s EXCEPT !.status[s.cur] = stat]
    BY DEF b
  <2>2. QED  BY <1>3, <2>1, BlockRuns
<1> HIDE DEF b
<1>5. IdleAvailable(s) /\ IdleAvailable(r)
  BY <1>4 DEF SchedInv
<1>6. QED  BY <1>1, <1>2, <1>4, <1>5 DEF SameLives, SameBlocked, Runnable, IdleAvailable

(* The timer interrupt.                                                     *)
LEMMA TickLives ==
  ASSUME NEW s, SchedInv(s), NEW r, r = intr_timer_handler(s)
  PROVE  /\ SchedInv(r) /\ SameLives(s, r)
         /\ \A t \in Thread : r.status[t] = "WAITING" => s.status[t] = "WAITING"
<1>1. SchedInv(r) /\ SameBlocked(s, r)
  BY TickRuns
<1>2. IdleAvailable(s) /\ IdleAvailable(r)
  BY <1>1 DEF SchedInv
<1>3. QED  BY <1>1, <1>2 DEF SameLives, SameBlocked, Runnable, IdleAvailable

(* A sleeping thread that is woken.                                         *)
LEMMA WakeLives ==
  ASSUME NEW s, SchedInv(s), NEW t \in Thread, s.status[t] \in {"BLOCKED", "WAITING"},
         NEW r, r = thread_unblock(s, t)
  PROVE  /\ SchedInv(r) /\ r.cur = s.cur /\ SameLives(s, r)
         /\ r.status = [s.status EXCEPT ![t] = "READY"]
<1>1. /\ SchedInv(r) /\ r.cur = s.cur
      /\ r.status = [s.status EXCEPT ![t] = "READY"]
  BY UnblockRuns DEF Blocked
<1>2. s.status \in [Thread -> TaskStatus]
  BY DEF SchedInv, SchedState
<1>3. QED  BY <1>1, <1>2 DEF SameLives

(* A process that begins to hang.                                           *)
LEMMA HangLives ==
  ASSUME NEW s, SchedInv(s), NEW me \in Thread, me = s.cur, me # idle_thread,
         NEW r, r = thread_block(s, "HANGING")
  PROVE  /\ SchedInv(r) /\ r.status[me] = "HANGING"
         /\ OthersLive(s, r, me)
<1> DEFINE b == [s EXCEPT !.status[s.cur] = "HANGING"]
<1>1. s.status \in [Thread -> TaskStatus]
  BY DEF SchedInv, SchedState
<1>2. b.status = [s.status EXCEPT ![me] = "HANGING"]
  BY <1>1 DEF SchedInv, SchedState
<1>3. r = schedule(b) /\ "HANGING" \in Blocked \cup {"DIED"}
  BY DEF thread_block, Blocked
<1>4. SchedInv(r) /\ SameBlocked(b, r)
  <2> HIDE DEF b
  <2>1. b = [s EXCEPT !.status[s.cur] = "HANGING"]
    BY DEF b
  <2>2. QED  BY <1>3, <2>1, BlockRuns
<1> HIDE DEF b
<1>5. IdleAvailable(s) /\ IdleAvailable(r)
  BY <1>4 DEF SchedInv
<1>6. QED  BY <1>1, <1>2, <1>4, <1>5 DEF OthersLive, SameBlocked, Runnable, IdleAvailable

(* main leaves for good.                                                    *)
LEMMA LeaveLives ==
  ASSUME NEW s, SchedInv(s), NEW me \in Thread, me = s.cur, me # idle_thread,
         NEW r, r = thread_exit(s, me, TRUE)
  PROVE  /\ SchedInv(r) /\ r.status[me] = "DIED"
         /\ OthersLive(s, r, me)
<1> DEFINE b == [s EXCEPT !.status[s.cur] = "DIED"]
<1>1. /\ s \in SchedState /\ s.status \in [Thread -> TaskStatus] /\ s.status[me] = "RUNNING"
      /\ ~InReadyList(s, me)
  BY DEF SchedInv, SchedState, OneRunning, ReadyListExact
<1>2. b.status = [s.status EXCEPT ![me] = "DIED"]
  BY <1>1 DEF SchedState
<1>3. r = schedule(b)
  <2>1. [s EXCEPT !.status[me] = "DIED", !.ready = s.ready] = b
    BY <1>1 DEF SchedState
  <2> HIDE DEF b
  <2>2. QED  BY <1>1, <2>1 DEF thread_exit
<1>4. SchedInv(r) /\ SameBlocked(b, r)
  <2> HIDE DEF b
  <2>1. b = [s EXCEPT !.status[s.cur] = "DIED"]
    BY DEF b
  <2>2. QED  BY <1>3, <2>1, BlockRuns
<1> HIDE DEF b
<1>5. IdleAvailable(s) /\ IdleAvailable(r)
  BY <1>4 DEF SchedInv
<1>6. s.status \in [Thread -> TaskStatus]
  BY <1>1
<1>7. r.status[me] = "DIED"
  BY <1>2, <1>4, <1>6 DEF SameBlocked, Runnable
<1>8. ASSUME NEW t \in Thread, t # me
      PROVE  /\ r.status[t] \in {"FREE", "DIED"} <=> s.status[t] \in {"FREE", "DIED"}
             /\ r.status[t] = "HANGING" <=> s.status[t] = "HANGING"
             /\ r.status[t] = "WAITING" => s.status[t] = "WAITING"
  <2>1. b.status[t] = s.status[t]
    BY <1>2, <1>6, <1>8
  <2>2. t # idle_thread =>
          IF Runnable(b, t) THEN Runnable(r, t) ELSE r.status[t] = b.status[t]
    BY <1>4 DEF SameBlocked
  <2>3. QED  BY <1>5, <2>1, <2>2 DEF Runnable, IdleAvailable
<1>9. QED  BY <1>4, <1>7, <1>8 DEF OthersLive

(* A step that changes the scheduler alone: only a parent without an exited *)
(* child may begin to wait.                                                 *)
LEMMA SchedulerStep ==
  ASSUME IInv, SchedInv(sched'), SameLives(sched, sched'),
         \A t \in Thread : sched'.status[t] = "WAITING" =>
           \/ sched.status[t] = "WAITING"
           \/ \A c \in ChildrenOf(t) : ~Hanging(c),
         UNCHANGED << all_list, pid, parent, pids, pc, newborn, lost >>
  PROVE  IInv'
<1> USE DEF IInv
<1>1. \A t \in Thread : (Dead(t)' <=> Dead(t)) /\ (Hanging(t)' <=> Hanging(t))
  BY DEF SameLives, Dead, Hanging
<1>2. Alive' = Alive /\ Alive \subseteq Thread
  <2>1. Alive \subseteq Thread
    BY LenProperties DEF TypeOK, Alive, ToSet
  <2>2. QED  BY <2>1 DEF Alive
<1>3. TypeOK'
  BY DEF TypeOK, SchedInv
<1>4. ListInv' /\ CallInv'
  BY <1>1, <1>2 DEF ListInv, CallInv
<1>5. NewbornInv' /\ PidInv' /\ ParentInv'
  BY <1>2 DEF NewbornInv, PidInv, ParentInv, Registered, Numbered
<1>6. NoLostExit'
  <2> SUFFICES ASSUME NEW c \in Alive, Hanging(c), NEW p \in Alive \ {init},
                      pid[p] = parent[c], sched'.status[p] = "WAITING"
               PROVE  FALSE
    BY <1>1, <1>2 DEF NoLostExit
  <2>1. sched.status[p] # "WAITING"
    BY DEF NoLostExit
  <2>2. c \in ChildrenOf(p)
    BY DEF ChildrenOf, Alive
  <2>3. QED  BY <1>2, <2>1, <2>2
<1>7. QED  BY <1>3, <1>4, <1>5, <1>6
-----------------------------------------------------------------------------
(***************************************************************************)
(* sys_fork                                                                *)
(***************************************************************************)
(* init, main and idle are different threads.                               *)
LEMMA FourThreads == init # main_thread /\ init # idle_thread /\ main_thread # idle_thread
<1>1. ASSUME NEW a, NEW b, NEW c PROVE Cardinality({a, b, c}) # 4
  <2>1. IsFiniteSet({a}) /\ Cardinality({a}) = 1
    BY FS_Singleton
  <2>2. IsFiniteSet({a} \cup {b}) /\ Cardinality({a} \cup {b}) \in {1, 2}
    BY <2>1, FS_AddElement
  <2>3. Cardinality(({a} \cup {b}) \cup {c}) \in {1, 2, 3}
    BY <2>2, FS_AddElement
  <2>4. ({a} \cup {b}) \cup {c} = {a, b, c}
    OBVIOUS
  <2>5. QED  BY <2>3, <2>4
<1>2. init # main_thread
  <2>1. CASE init = main_thread
    <3>1. {main_thread, init, shell, idle_thread} = {main_thread, shell, idle_thread}
      BY <2>1
    <3>2. QED  BY <1>1, <3>1, ProcAssumption
  <2>2. QED  BY <2>1
<1>3. init # idle_thread
  <2>1. CASE init = idle_thread
    <3>1. {main_thread, init, shell, idle_thread} = {main_thread, init, shell}
      BY <2>1
    <3>2. QED  BY <1>1, <3>1, ProcAssumption
  <2>2. QED  BY <2>1
<1>4. main_thread # idle_thread
  <2>1. CASE main_thread = idle_thread
    <3>1. {main_thread, init, shell, idle_thread} = {main_thread, init, shell}
      BY <2>1
    <3>2. QED  BY <1>1, <3>1, ProcAssumption
  <2>2. QED  BY <2>1
<1>5. QED  BY <1>2, <1>3, <1>4

(* The list names threads; the running one is in it.                        *)
LEMMA Running ==
  ASSUME IInv
  PROVE  /\ Alive \subseteq Thread /\ init \in Process /\ NULL \notin Thread
         /\ self \in Thread /\ sched.status[self] = "RUNNING" /\ self \in Alive
<1>1. Alive \subseteq Thread
  BY LenProperties DEF IInv, TypeOK, Alive, ToSet
<1>2. self \in Thread /\ sched.status[self] = "RUNNING"
  BY DEF IInv, SchedInv, SchedState, OneRunning, self
<1>3. self \in Alive
  BY <1>2 DEF IInv, ListInv, Dead
<1>4. init \in Process /\ NULL \notin Thread
  <2>1. init # main_thread /\ init # idle_thread
    BY FourThreads
  <2>2. QED  BY <2>1, ProcAssumption DEF Process
<1>5. QED  BY <1>1, <1>2, <1>3, <1>4

(* While a fork has no pid for its child yet, the pool is not exhausted:    *)
(* the child's page owns none, and there is a pid for each page.            *)
LEMMA PidLeft ==
  ASSUME IInv, NEW u \in Thread, pc[u] = "copy"
  PROVE  allocate_pid \in (1 .. MaxPid) \ pids
<1> DEFINE c == newborn[u]
           Owns(t, n) == (Registered(t) \/ t \in lost) /\ pid[t] = n
           owner == [n \in pids |-> CHOOSE t \in Thread : Owns(t, n)]
<1>1. c \in Thread /\ ~Registered(c) /\ c \notin lost
  <2>1. c # NULL /\ c \in Process
    BY DEF IInv, NewbornInv, TypeOK
  <2>2. ~Numbered(c)
    BY <2>1 DEF IInv, NewbornInv, Numbered
  <2>3. QED  BY <2>1, <2>2 DEF IInv, NewbornInv, Registered, Process
<1>2. \A n \in pids : owner[n] \in Thread /\ Owns(owner[n], n)
  BY DEF IInv, PidInv
<1>3. \A n \in pids : owner[n] \in Thread \ {c} /\ pid[owner[n]] = n
  BY <1>1, <1>2
<1>4. owner \in Injection(pids, Thread \ {c})
  BY <1>3 DEF Injection, IsInjective
<1>5. /\ IsFiniteSet(Thread \ {c}) /\ Cardinality(Thread \ {c}) = Cardinality(Thread) - 1
      /\ Cardinality(Thread) \in Nat
  BY <1>1, ThreadAssumption, FS_RemoveElement, FS_CardinalityType
<1>6. IsFiniteSet(pids) /\ Cardinality(pids) <= Cardinality(Thread) - 1
  <2> HIDE DEF owner, c
  <2>1. IsFiniteSet(pids) /\ Cardinality(pids) <= Cardinality(Thread \ {c})
    BY <1>4, <1>5, FS_Injection
  <2>2. QED  BY <1>5, <2>1
<1>7. Cardinality(1 .. MaxPid) = MaxPid /\ Cardinality(pids) \in Nat
  <2>1. MaxPid \in Nat /\ 1 \in Int /\ MaxPid \in Int
    BY ProcAssumption
  <2>2. Cardinality(1 .. MaxPid) = IF 1 > MaxPid THEN 0 ELSE MaxPid - 1 + 1
    BY <2>1, FS_Interval
  <2>3. QED  BY <1>6, <2>1, <2>2, FS_CardinalityType
<1>8. (1 .. MaxPid) \ pids # {}
  <2>1. pids \subseteq 1 .. MaxPid
    BY DEF IInv, TypeOK
  <2>2. pids # 1 .. MaxPid
    BY <1>5, <1>6, <1>7, ProcAssumption
  <2>3. QED  BY <2>1, <2>2
<1>9. (1 .. MaxPid) \ pids \in SUBSET Nat
  OBVIOUS
<1>10. QED  BY <1>8, <1>9, LeastOfNats DEF allocate_pid

(* A PCB page is taken.                                                     *)
LEMMA ForkPageKeeps ==
  ASSUME IInv, NEW me \in Thread, me = self, ForkPage
  PROVE  IInv'
<1> USE DEF IInv
<1>1. PICK c \in Process : PageFree(c) /\ newborn' = [newborn EXCEPT ![me] = c]
  BY DEF ForkPage
<1>2. /\ pc[me] \in {"start", "user"} /\ me \in Process /\ me \in Alive
      /\ sched.status[me] = "RUNNING"
      /\ pc' = [pc EXCEPT ![me] = "copy"]
      /\ UNCHANGED << sched, all_list, pid, parent, pids, lost >>
      /\ Alive \subseteq Thread /\ Alive' = Alive /\ c \in Thread /\ NULL \notin Thread
      /\ init \in Alive
  BY Running DEF ForkPage, At, Goto, Alive, Process, ListInv
<1>3. newborn \in [Thread -> Process \cup {NULL}] /\ pc \in [Thread -> Pc]
  BY DEF TypeOK
<1>4. TypeOK'
  BY <1>1, <1>2 DEF TypeOK, Pc
<1>5. ListInv'
  BY <1>2 DEF ListInv, Dead
<1>6. CallInv'
  BY <1>2, <1>3 DEF CallInv, Hanging
<1>7. c \notin Alive /\ c \notin lost /\ \A u \in Thread : newborn[u] # c
  BY <1>1, <1>2 DEF PageFree, ListInv, Dead
<1>8. NewbornInv'
  BY <1>1, <1>2, <1>3, <1>7 DEF NewbornInv
<1>9. \A t \in Thread : Registered(t)' <=> Registered(t)
  BY <1>1, <1>2, <1>3 DEF Registered, Numbered
<1>10. PidInv'
  BY <1>2, <1>9 DEF PidInv
<1>11. \A u \in Thread : pc'[u] = "dup" => pc[u] = "dup" /\ newborn'[u] = newborn[u]
  BY <1>1, <1>2, <1>3
<1>12. \A p \in Thread : pc[p] \notin {"release", "gone"} => pc'[p] \notin {"release", "gone"}
  BY <1>2, <1>3
<1>13. ParentInv'
  BY <1>2, <1>11, <1>12 DEF ParentInv
<1>14. NoLostExit'
  BY <1>2 DEF NoLostExit, Hanging
<1>15. QED  BY <1>2, <1>4, <1>5, <1>6, <1>8, <1>10, <1>13, <1>14

(* The child is given a pid that is in use nowhere, and its parent.         *)
LEMMA ForkCopyKeeps ==
  ASSUME IInv, NEW me \in Thread, me = self, ForkCopy
  PROVE  IInv'
<1> USE DEF IInv
<1>1. /\ pc[me] = "copy" /\ me \in Process /\ me \in Alive
      /\ pc' = [pc EXCEPT ![me] = "dup"]
      /\ UNCHANGED << sched, all_list, newborn, lost >>
      /\ Alive \subseteq Thread /\ Alive' = Alive /\ NULL \notin Thread
      /\ init \in Alive
  BY Running DEF ForkCopy, At, Goto, Alive, ListInv
<1>2. PICK c \in Process : c = newborn[me]
  BY <1>1 DEF NewbornInv, TypeOK
<1>3. PICK n \in 1 .. MaxPid : n = allocate_pid /\ n \notin pids
  BY <1>1, PidLeft
<1>4. /\ pid' = [pid EXCEPT ![c] = n] /\ parent' = [parent EXCEPT ![c] = pid[me]]
      /\ pids' = pids \cup {n}
  BY <1>1, <1>2, <1>3 DEF ForkCopy
<1>5. /\ newborn \in [Thread -> Process \cup {NULL}] /\ pc \in [Thread -> Pc]
      /\ pid \in [Thread -> 0 .. MaxPid] /\ c \in Thread
      /\ parent \in [Thread -> {-1} \cup (1 .. MaxPid)]
  BY DEF TypeOK, Process
<1>6. c \notin Alive /\ c \notin lost /\ ~Registered(c)
      /\ \A u \in Thread : newborn[u] = c => u = me
  BY <1>1, <1>2 DEF NewbornInv, Registered, Numbered, Process
<1>7. pid[me] \in 1 .. MaxPid
  BY <1>1 DEF PidInv, Registered, TypeOK
<1>8. TypeOK'
  <2>1. pid' \in [Thread -> 0 .. MaxPid] /\ parent' \in [Thread -> {-1} \cup (1 .. MaxPid)]
    BY <1>3, <1>4, <1>5, <1>7
  <2>2. QED  BY <1>1, <1>4, <2>1 DEF TypeOK, Pc
<1>9. ListInv'
  BY <1>1, <1>4, <1>5, <1>6 DEF ListInv, Dead
<1>10. CallInv'
  BY <1>1, <1>5 DEF CallInv, Hanging
<1>11. NewbornInv'
  BY <1>1, <1>5 DEF NewbornInv
<1>12. \A t \in Thread : Registered(t)' <=> Registered(t) \/ t = c
  BY <1>1, <1>2, <1>5, <1>6 DEF Registered, Numbered
<1>13. \A t \in Thread : pid'[t] = IF t = c THEN n ELSE pid[t]
  BY <1>4, <1>5
<1>14. PidInv'
  <2>1. \A t, u \in Thread : Registered(t)' /\ Registered(u)' /\ pid'[t] = pid'[u] => t = u
    BY <1>3, <1>6, <1>12, <1>13 DEF PidInv
  <2>2. \A t \in Thread : Registered(t)' => pid'[t] \in pids'
    BY <1>4, <1>12, <1>13 DEF PidInv
  <2>3. \A m \in pids' : \E t \in Thread : (Registered(t)' \/ t \in lost') /\ pid'[t] = m
    BY <1>1, <1>4, <1>5, <1>6, <1>12, <1>13 DEF PidInv
  <2>4. QED  BY <2>1, <2>2, <2>3 DEF PidInv
<1>15. \A t \in Alive : parent'[t] = parent[t] /\ pid'[t] = pid[t]
  BY <1>1, <1>4, <1>5, <1>6
<1>16. ParentInv'
  <2>1. \A p \in Thread : pc[p] \notin {"release", "gone"} => pc'[p] \notin {"release", "gone"}
    BY <1>1, <1>5
  <2>2. ASSUME NEW u \in Thread, pc'[u] = "dup" PROVE parent'[newborn'[u]] = pid'[u]
    <3>1. CASE u = me
      BY <1>1, <1>2, <1>4, <1>5, <1>15, <3>1
    <3>2. CASE u # me
      <4>1. pc[u] = "dup" /\ newborn[u] # c /\ newborn'[u] = newborn[u]
        BY <1>1, <1>5, <1>6, <2>2, <3>2
      <4>2. newborn[u] \in Thread /\ u \in Alive
        BY <1>5, <4>1 DEF NewbornInv, CallInv, Process
      <4>3. parent[newborn[u]] = pid[u]
        BY <4>1 DEF ParentInv
      <4>4. QED  BY <1>4, <1>5, <1>15, <4>1, <4>2, <4>3
    <3>3. QED  BY <3>1, <3>2
  <2>3. QED  BY <1>1, <1>15, <2>1, <2>2 DEF ParentInv
<1>17. NoLostExit'
  BY <1>1, <1>15 DEF NoLostExit, Hanging
<1>18. QED  BY <1>1, <1>8, <1>9, <1>10, <1>11, <1>14, <1>16, <1>17

(* A fork that runs out of memory leaks the page and the pid it has.        *)
LEMMA ForkFailKeeps ==
  ASSUME IInv, NEW me \in Thread, me = self, ForkFail
  PROVE  IInv'
<1> USE DEF IInv
<1> DEFINE q == AfterFork
<1>0. q \in {"user", "wait"}
  BY DEF AfterFork
<1>1. /\ pc[me] \in {"copy", "dup"} /\ me \in Process /\ me \in Alive
      /\ pc' = [pc EXCEPT ![me] = q]
      /\ newborn' = [newborn EXCEPT ![me] = NULL]
      /\ UNCHANGED << sched, all_list, pid, parent, pids >>
      /\ Alive \subseteq Thread /\ Alive' = Alive /\ NULL \notin Thread
      /\ init \in Alive
  BY Running DEF ForkFail, At, Goto, Alive, ListInv
<1>2. PICK c \in Process : c = newborn[me]
  BY <1>1 DEF NewbornInv, TypeOK
<1>3. lost' = lost \cup {c}
  BY <1>1, <1>2 DEF ForkFail
<1>4. /\ newborn \in [Thread -> Process \cup {NULL}] /\ pc \in [Thread -> Pc]
      /\ c \in Thread
  BY DEF TypeOK, Process
<1>5. c \notin Alive /\ \A u \in Thread : newborn[u] = c => u = me
  BY <1>1, <1>2 DEF NewbornInv, Process
<1> HIDE DEF q
<1>6. TypeOK'
  BY <1>0, <1>1, <1>2, <1>3 DEF TypeOK, Pc
<1>7. ListInv'
  BY <1>1 DEF ListInv, Dead
<1>8. CallInv'
  BY <1>0, <1>1, <1>4 DEF CallInv, Hanging
<1>9. NewbornInv'
  <2>1. \A u \in Thread : /\ newborn'[u] = IF u = me THEN NULL ELSE newborn[u]
                          /\ pc'[u] = IF u = me THEN q ELSE pc[u]
    BY <1>1, <1>4
  <2>2. \A u \in Thread : newborn'[u] # NULL <=> pc'[u] \in {"copy", "dup"}
    BY <1>0, <2>1 DEF NewbornInv
  <2>3. \A u, v \in Thread : newborn'[u] = newborn'[v] /\ newborn'[u] # NULL => u = v
    BY <2>1 DEF NewbornInv
  <2>4. NULL \notin lost /\ NULL # c
    BY <1>1, <1>4 DEF TypeOK, Process
  <2>5. \A u \in Thread : newborn'[u] \notin Alive' /\ newborn'[u] \notin lost'
    BY <1>1, <1>3, <1>5, <2>1, <2>4 DEF NewbornInv
  <2>6. \A t \in lost' : t \notin Alive'
    BY <1>1, <1>3, <1>5 DEF NewbornInv
  <2>7. QED  BY <2>2, <2>3, <2>5, <2>6 DEF NewbornInv
<1>10. \A t \in Thread : /\ Registered(t)' => Registered(t)
                         /\ Registered(t) => Registered(t)' \/ t = c
  BY <1>1, <1>2, <1>4, <1>5 DEF Registered, Numbered
<1>11. PidInv'
  BY <1>1, <1>3, <1>10 DEF PidInv
<1>12. ParentInv'
  <2>1. \A p \in Thread : pc[p] \notin {"release", "gone"} => pc'[p] \notin {"release", "gone"}
    BY <1>0, <1>1, <1>4
  <2>2. \A u \in Thread : pc'[u] = "dup" => pc[u] = "dup" /\ newborn'[u] = newborn[u]
    BY <1>0, <1>1, <1>4
  <2>3. QED  BY <1>1, <2>1, <2>2 DEF ParentInv
<1>13. NoLostExit'
  BY <1>1 DEF NoLostExit, Hanging
<1>14. QED  BY <1>1, <1>6, <1>7, <1>8, <1>9, <1>11, <1>12, <1>13

(* The child enters both lists with its pid and a live parent.              *)
LEMMA ForkFinishKeeps ==
  ASSUME IInv, NEW me \in Thread, me = self, ForkFinish
  PROVE  IInv'
<1> USE DEF IInv
<1>1. /\ pc[me] = "dup" /\ me \in Process /\ me \in Alive
      /\ UNCHANGED << pid, parent, pids, lost >>
      /\ Alive \subseteq Thread /\ NULL \notin Thread
      /\ init \in Alive /\ idle_thread \in Alive /\ init \in Process
  BY Running DEF ForkFinish, At, ListInv
<1>2. PICK c \in Process : c = newborn[me]
  BY <1>1 DEF NewbornInv, TypeOK
<1>3. c \notin Alive /\ c \notin lost /\ c # me /\ c \in Thread
      /\ \A u \in Thread : newborn[u] = c => u = me
  BY <1>1, <1>2 DEF NewbornInv, Process
<1>4. PICK p \in {"wait", "user"} :
         /\ sched' = EnqueueNew(sched, c)
         /\ all_list' = Append(all_list, c)
         /\ newborn' = [newborn EXCEPT ![me] = NULL]
         /\ pc' = [pc EXCEPT ![c] = "user", ![me] = p]
  BY <1>1, <1>2, <1>3 DEF ForkFinish, AfterFork, Alive
<1>5. /\ newborn \in [Thread -> Process \cup {NULL}] /\ pc \in [Thread -> Pc]
      /\ all_list \in Seq(Thread) /\ sched.status \in [Thread -> TaskStatus]
  BY DEF TypeOK, SchedState
<1>6. \A t \in Thread : pc'[t] = IF t = me THEN p ELSE IF t = c THEN "user" ELSE pc[t]
  BY <1>3, <1>4, <1>5
<1>7. SchedInv(sched') /\ sched'.status = [sched.status EXCEPT ![c] = "READY"]
  <2>1. sched.status[c] \in {"FREE", "DIED"}
    BY <1>3 DEF ListInv, Dead
  <2>2. QED  BY <1>3, <1>4, <2>1, EnqueueRuns
<1>8. all_list' \in Seq(Thread) /\ Alive' = Alive \cup {c} /\ IsInjective(all_list')
  BY <1>3, <1>4, <1>5, AppendElems DEF Alive, ListInv
<1>9. \A t \in Thread : sched'.status[t] = IF t = c THEN "READY" ELSE sched.status[t]
  BY <1>3, <1>5, <1>7
<1>10. TypeOK'
  <2>1. sched' \in SchedState
    BY <1>7 DEF SchedInv
  <2>2. pc' \in [Thread -> Pc] /\ newborn' \in [Thread -> Process \cup {NULL}]
    BY <1>4, <1>5 DEF Pc
  <2>3. QED  BY <1>1, <1>8, <2>1, <2>2 DEF TypeOK
<1>11. ListInv'
  BY <1>1, <1>3, <1>8, <1>9 DEF ListInv, Dead
<1>12. CallInv'
  <2>1. \A t \in Thread : pc'[t] \notin {"user", "gone"} => t \in Alive' /\ t \in Process
    BY <1>1, <1>3, <1>6, <1>8 DEF CallInv
  <2>2. \A t \in Alive' : sched'.status[t] = "HANGING" <=> pc'[t] = "gone"
    <3>1. sched.status[me] # "HANGING"
      BY <1>1 DEF CallInv, Hanging
    <3>2. QED  BY <1>1, <1>3, <1>6, <1>8, <1>9, <3>1 DEF CallInv, Hanging
  <2>3. pc'[init] \notin {"release", "gone"}
    BY <1>1, <1>3, <1>6 DEF CallInv
  <2>4. QED  BY <2>1, <2>2, <2>3 DEF CallInv, Hanging
<1>13. \A u \in Thread : newborn'[u] = IF u = me THEN NULL ELSE newborn[u]
  BY <1>4, <1>5
<1>14. NewbornInv'
  <2>1. \A u \in Thread : newborn'[u] # NULL <=> pc'[u] \in {"copy", "dup"}
    BY <1>1, <1>3, <1>6, <1>13 DEF NewbornInv, CallInv
  <2>2. \A u \in Thread : newborn'[u] \notin Alive'
    BY <1>1, <1>3, <1>5, <1>8, <1>13 DEF NewbornInv
  <2>3. \A u, v \in Thread : newborn'[u] = newborn'[v] /\ newborn'[u] # NULL => u = v
    BY <1>13 DEF NewbornInv
  <2>4. (\A u \in Thread : newborn'[u] \notin lost') /\ (\A t \in lost' : t \notin Alive')
    <3>1. NULL \notin lost
      BY <1>1 DEF TypeOK, Process
    <3>2. QED  BY <1>1, <1>3, <1>8, <1>13, <3>1 DEF NewbornInv
  <2>5. QED  BY <2>1, <2>2, <2>3, <2>4 DEF NewbornInv
<1>15. \A t \in Thread : Registered(t)' <=> Registered(t)
  <2>1. \A u \in Thread : pc'[u] = "dup" <=> pc[u] = "dup" /\ u # me
    BY <1>3, <1>6, <1>1 DEF CallInv
  <2>2. QED  BY <1>1, <1>2, <1>8, <1>13, <2>1 DEF Registered, Numbered
<1>16. PidInv'
  BY <1>1, <1>15 DEF PidInv
<1>17. ParentInv'
  <2>1. \A q \in Alive : pc[q] \notin {"release", "gone"} => pc'[q] \notin {"release", "gone"}
    BY <1>1, <1>3, <1>6
  <2>2. \A u \in Thread : pc'[u] = "dup" => pc[u] = "dup" /\ newborn'[u] = newborn[u]
    BY <1>3, <1>6, <1>13
  <2>3. /\ me \in Alive \cap Process /\ pid[me] = parent[c]
        /\ pc'[me] \notin {"release", "gone"} /\ parent[c] # -1
    BY <1>1, <1>2, <1>6 DEF ParentInv, PidInv, Registered, TypeOK
  <2>4. \A t \in Alive' \cap Process : parent[t] # -1 =>
          \E q \in Alive' \cap Process : pid[q] = parent[t] /\ pc'[q] \notin {"release", "gone"}
    BY <1>8, <2>1, <2>3 DEF ParentInv
  <2>5. QED  BY <1>1, <1>8, <2>2, <2>3, <2>4 DEF ParentInv
<1>18. NoLostExit'
  BY <1>1, <1>3, <1>8, <1>9 DEF NoLostExit, Hanging
<1>19. QED  BY <1>7, <1>10, <1>11, <1>12, <1>14, <1>16, <1>17, <1>18

-----------------------------------------------------------------------------
(***************************************************************************)
(* sys_wait                                                                *)
(***************************************************************************)
(* A process enters the loop of sys_wait, or leaves it without a child.     *)
LEMMA WaitingKeeps ==
  ASSUME IInv, NEW me \in Thread, me = self, me \in Process,
         pc[me] \in {"start", "user", "wait"}, NEW p \in {"user", "wait"},
         pc' = [pc EXCEPT ![me] = p],
         UNCHANGED << sched, all_list, pid, parent, pids, newborn, lost >>
  PROVE  IInv'
<1> USE DEF IInv
<1>1. /\ me \in Alive /\ sched.status[me] = "RUNNING" /\ Alive \subseteq Thread
      /\ Alive' = Alive /\ init \in Alive /\ pc \in [Thread -> Pc]
  BY Running DEF Alive, ListInv, TypeOK
<1>2. \A t \in Thread : pc'[t] = IF t = me THEN p ELSE pc[t]
  BY <1>1
<1>3. TypeOK'
  BY <1>1 DEF TypeOK, Pc
<1>4. ListInv'
  BY <1>1 DEF ListInv, Dead
<1>5. CallInv'
  BY <1>1, <1>2 DEF CallInv, Hanging
<1>6. NewbornInv'
  BY <1>1, <1>2 DEF NewbornInv
<1>7. \A u \in Thread : pc'[u] = "dup" <=> pc[u] = "dup"
  BY <1>2
<1>8. PidInv'
  BY <1>1, <1>7 DEF PidInv, Registered, Numbered
<1>9. ParentInv'
  <2>1. \A q \in Thread : pc[q] \notin {"release", "gone"} => pc'[q] \notin {"release", "gone"}
    BY <1>2
  <2>2. QED  BY <1>1, <1>7, <2>1 DEF ParentInv
<1>10. NoLostExit'
  BY <1>1 DEF NoLostExit, Hanging
<1>11. QED  BY <1>1, <1>3, <1>4, <1>5, <1>6, <1>8, <1>9, <1>10

(* The child list_traversal finds is one that has exited.                   *)
LEMMA FoundChild ==
  ASSUME IInv, NEW me \in Thread, \E c \in ChildrenOf(me) : Hanging(c)
  PROVE  /\ FirstHanging(me) \in Alive /\ Hanging(FirstHanging(me))
         /\ parent[FirstHanging(me)] = pid[me]
<1> DEFINE hits == {i \in DOMAIN all_list : all_list[i] \in ChildrenOf(me)
                                              /\ Hanging(all_list[i])}
<1>1. all_list \in Seq(Thread)
  BY DEF IInv, TypeOK
<1>2. hits \in SUBSET (DOMAIN all_list) /\ hits # {}
  BY DEF ChildrenOf, ToSet
<1>3. FirstHanging(me) = all_list[Min(hits)]
  BY DEF FirstHanging
<1>4. Min(hits) \in hits
  <2> HIDE DEF hits
  <2>1. QED  BY <1>1, <1>2, FirstHit
<1>5. FirstHanging(me) \in ChildrenOf(me) /\ Hanging(FirstHanging(me))
  BY <1>3, <1>4
<1>6. QED  BY <1>5 DEF ChildrenOf, Alive

(* The exited child leaves the list, and its pid the pool.                  *)
LEMMA WaitReapKeeps ==
  ASSUME IInv, NEW me \in Thread, me = self, WaitReap
  PROVE  IInv'
<1> USE DEF IInv
<1>1. /\ pc[me] = "wait" /\ me \in Process /\ me \in Alive /\ sched.status[me] = "RUNNING"
      /\ \E c \in ChildrenOf(me) : Hanging(c)
      /\ pc' = [pc EXCEPT ![me] = "user"]
      /\ UNCHANGED << pid, parent, newborn, lost >>
      /\ Alive \subseteq Thread /\ NULL \notin Thread
      /\ init \in Alive /\ idle_thread \in Alive /\ init \in Process
  BY Running DEF WaitReap, At, Goto, ListInv
<1>2. PICK c \in Thread : /\ c = FirstHanging(me) /\ c \in Alive /\ Hanging(c)
                          /\ parent[c] = pid[me]
  BY <1>1, FoundChild
<1>3. /\ sched' = thread_exit(sched, c, FALSE)
      /\ all_list' = RemoveFirst(all_list, c)
      /\ pids' = pids \ {pid[c]}
  BY <1>2 DEF WaitReap
<1>4. /\ newborn \in [Thread -> Process \cup {NULL}] /\ pc \in [Thread -> Pc]
      /\ all_list \in Seq(Thread) /\ sched.status \in [Thread -> TaskStatus]
  BY DEF TypeOK, SchedState
<1>5. \A t \in Thread : pc'[t] = IF t = me THEN "user" ELSE pc[t]
  BY <1>1, <1>4
<1>6. SchedInv(sched') /\ sched'.status = [sched.status EXCEPT ![c] = "DIED"]
  <2>1. sched.status[c] = "HANGING"
    BY <1>2 DEF Hanging
  <2>2. QED  BY <1>3, <2>1, ReapRuns
<1>7. \A t \in Thread : sched'.status[t] = IF t = c THEN "DIED" ELSE sched.status[t]
  BY <1>4, <1>6
<1>8. all_list' \in Seq(Thread) /\ IsInjective(all_list') /\ Alive' = Alive \ {c}
  BY <1>2, <1>3, <1>4, RemoveElems DEF Alive, ListInv
<1>9. pc[c] = "gone" /\ c # me /\ c # init /\ c # idle_thread
  BY <1>1, <1>2 DEF CallInv, Hanging, SchedInv, IdleAvailable
<1>10. TypeOK'
  <2>1. sched' \in SchedState
    BY <1>6 DEF SchedInv
  <2>2. pc' \in [Thread -> Pc]
    BY <1>1, <1>4 DEF Pc
  <2>3. QED  BY <1>1, <1>3, <1>8, <2>1, <2>2 DEF TypeOK
<1>11. ListInv'
  BY <1>1, <1>7, <1>8, <1>9 DEF ListInv, Dead
<1>12. CallInv'
  <2>1. \A t \in Thread : pc'[t] \notin {"user", "gone"} => t \in Alive' /\ t \in Process
    BY <1>1, <1>5, <1>8, <1>9 DEF CallInv
  <2>2. \A t \in Alive' : sched'.status[t] = "HANGING" <=> pc'[t] = "gone"
    BY <1>1, <1>5, <1>7, <1>8 DEF CallInv, Hanging
  <2>3. pc'[init] \notin {"release", "gone"}
    BY <1>1, <1>5 DEF CallInv
  <2>4. QED  BY <2>1, <2>2, <2>3 DEF CallInv, Hanging
<1>13. NewbornInv'
  <2>1. \A u \in Thread : newborn'[u] # NULL <=> pc'[u] \in {"copy", "dup"}
    BY <1>1, <1>5 DEF NewbornInv
  <2>2. QED  BY <1>1, <1>8, <2>1 DEF NewbornInv
<1>14. \A u \in Thread : pc'[u] = "dup" <=> pc[u] = "dup"
  BY <1>1, <1>5
<1>15. \A t \in Thread : Registered(t)' <=> Registered(t) /\ t # c
  <2>1. \A u \in Thread : newborn[u] # c
    BY <1>2 DEF NewbornInv
  <2>2. QED  BY <1>1, <1>8, <1>14, <2>1 DEF Registered, Numbered
<1>16. PidInv'
  <2>1. \A t, u \in Thread : Registered(t)' /\ Registered(u)' /\ pid'[t] = pid'[u] => t = u
    BY <1>1, <1>15 DEF PidInv
  <2>2. \A t \in Thread : Registered(t)' => pid'[t] \in pids'
    BY <1>1, <1>2, <1>3, <1>15 DEF PidInv, Registered
  <2>3. \A n \in pids' : \E t \in Thread : (Registered(t)' \/ t \in lost') /\ pid'[t] = n
    BY <1>1, <1>3, <1>15 DEF PidInv
  <2>4. QED  BY <2>1, <2>2, <2>3 DEF PidInv
<1>17. ParentInv'
  <2>1. \A q \in Alive : pc[q] \notin {"release", "gone"} =>
           q \in Alive' /\ pc'[q] \notin {"release", "gone"}
    BY <1>1, <1>5, <1>8, <1>9
  <2>2. \A t \in Alive' \cap Process : parent[t] # -1 =>
          \E q \in Alive' \cap Process : pid[q] = parent[t] /\ pc'[q] \notin {"release", "gone"}
    BY <1>8, <2>1 DEF ParentInv
  <2>3. QED  BY <1>1, <1>8, <1>14, <2>2 DEF ParentInv
<1>18. NoLostExit'
  BY <1>1, <1>7, <1>8 DEF NoLostExit, Hanging
<1>19. QED  BY <1>6, <1>10, <1>11, <1>12, <1>13, <1>16, <1>17, <1>18

-----------------------------------------------------------------------------
(***************************************************************************)
(* sys_exit                                                                *)
(***************************************************************************)
(* init adopts the children, before their parent can vanish.                *)
LEMMA ExitAdoptKeeps ==
  ASSUME IInv, NEW me \in Thread, me = self, ExitAdopt
  PROVE  IInv'
<1> USE DEF IInv
<1>1. /\ pc[me] = "user" /\ me \in Process /\ me # init
      /\ me \in Alive /\ sched.status[me] = "RUNNING"
      /\ UNCHANGED << all_list, pid, pids, newborn, lost >>
      /\ Alive \subseteq Thread /\ Alive' = Alive
      /\ init \in Alive /\ init \in Process /\ pid[init] = 1
  BY Running DEF ExitAdopt, At, Alive, ListInv, init_pid
<1>2. parent[me] # -1
  BY <1>1 DEF ParentInv
<1>3. /\ parent' = [t \in Thread |-> IF t \in ChildrenOf(me) THEN 1 ELSE parent[t]]
      /\ pc' = [pc EXCEPT ![me] = "release"] /\ sched' = sched
  BY <1>1, <1>2 DEF ExitAdopt, Goto, init_pid
<1>4. /\ pc \in [Thread -> Pc] /\ parent \in [Thread -> {-1} \cup (1 .. MaxPid)]
      /\ newborn \in [Thread -> Process \cup {NULL}]
  BY DEF TypeOK
<1>5. \A t \in Thread : pc'[t] = IF t = me THEN "release" ELSE pc[t]
  BY <1>3, <1>4
<1>6. /\ \A t \in Alive : parent'[t] = IF parent[t] = pid[me] THEN 1 ELSE parent[t]
      /\ \A t \in Thread : t \notin Alive => parent'[t] = parent[t]
  BY <1>1, <1>3 DEF ChildrenOf, Alive
<1>7. TypeOK'
  <2>1. 1 \in 1 .. MaxPid
    BY <1>1 DEF PidInv, Registered, TypeOK
  <2>2. parent' \in [Thread -> {-1} \cup (1 .. MaxPid)] /\ pc' \in [Thread -> Pc]
    BY <1>3, <1>4, <2>1 DEF Pc
  <2>3. QED  BY <1>1, <1>3, <2>2 DEF TypeOK
<1>8. ListInv'
  BY <1>1, <1>3 DEF ListInv, Dead
<1>9. CallInv'
  BY <1>1, <1>3, <1>5 DEF CallInv, Hanging
<1>10. NewbornInv'
  BY <1>1, <1>5 DEF NewbornInv
<1>11. \A u \in Thread : pc'[u] = "dup" <=> pc[u] = "dup"
  BY <1>1, <1>5
<1>12. PidInv'
  BY <1>1, <1>11 DEF PidInv, Registered, Numbered
<1>13. ParentInv'
  <2>1. ASSUME NEW t \in Alive \cap Process, parent'[t] # -1
        PROVE  \E q \in Alive \cap Process :
                 pid[q] = parent'[t] /\ pc'[q] \notin {"release", "gone"}
    <3>1. CASE parent[t] = pid[me]
      <4>1. parent'[t] = 1 /\ pc'[init] \notin {"release", "gone"}
        BY <1>1, <1>5, <1>6, <3>1 DEF CallInv
      <4>2. QED  BY <1>1, <4>1
    <3>2. CASE parent[t] # pid[me]
      <4>1. parent'[t] = parent[t]
        BY <1>6, <3>2
      <4>2. PICK q \in Alive \cap Process :
              pid[q] = parent[t] /\ pc[q] \notin {"release", "gone"}
        BY <2>1, <4>1 DEF ParentInv
      <4>3. q # me /\ q \in Thread
        BY <1>1, <3>2, <4>2
      <4>4. QED  BY <1>5, <4>1, <4>2, <4>3
    <3>3. QED  BY <3>1, <3>2
  <2>2. \A t \in (Alive \cap Process) \ {init} : parent'[t] # -1
    BY <1>6 DEF ParentInv
  <2>3. ASSUME NEW u \in Thread, pc[u] = "dup" PROVE parent'[newborn[u]] = pid[u]
    <3>1. newborn[u] \in Thread /\ newborn[u] \notin Alive
      BY <1>4, <2>3 DEF NewbornInv, Process
    <3>2. QED  BY <1>6, <2>3, <3>1 DEF ParentInv
  <2>4. QED  BY <1>1, <1>11, <2>1, <2>2, <2>3 DEF ParentInv
<1>14. NoLostExit'
  <2> SUFFICES ASSUME NEW c \in Alive, Hanging(c), NEW p \in Alive \ {init}, pid[p] = parent'[c]
               PROVE  sched.status[p] # "WAITING"
    BY <1>1, <1>3 DEF NoLostExit, Hanging
  <2>1. CASE parent[c] = pid[me]
    <3>1. pid[p] = pid[init]
      BY <1>1, <1>6, <2>1
    <3>2. QED  BY <1>1, <3>1 DEF PidInv, Registered
  <2>2. CASE parent[c] # pid[me]
    BY <1>6, <2>2 DEF NoLostExit
  <2>3. QED  BY <2>1, <2>2
<1>15. QED  BY <1>3, <1>7, <1>8, <1>9, <1>10, <1>12, <1>13, <1>14

(* pid2thread returns the parent of a process that has one.                 *)
LEMMA FoundParent ==
  ASSUME IInv, NEW me \in Alive \cap Process, me # init
  PROVE  /\ pid2thread(parent[me]) \in Alive /\ pid2thread(parent[me]) # NULL
         /\ pid[pid2thread(parent[me])] = parent[me]
         /\ pc[pid2thread(parent[me])] \notin {"release", "gone"}
<1> DEFINE n == parent[me]
           found == {i \in DOMAIN all_list : pid[all_list[i]] = n}
<1>1. all_list \in Seq(Thread) /\ Alive \subseteq Thread /\ NULL \notin Thread
  BY Running DEF IInv, TypeOK
<1>2. PICK p \in Alive : pid[p] = n /\ pc[p] \notin {"release", "gone"}
  BY DEF IInv, ParentInv
<1>3. found \in SUBSET (DOMAIN all_list) /\ found # {}
  BY <1>2 DEF Alive, ToSet
<1>4. pid2thread(n) = all_list[Min(found)]
  BY <1>3 DEF pid2thread
<1>5. Min(found) \in found /\ all_list[Min(found)] \in Alive
  <2> HIDE DEF found
  <2>1. QED  BY <1>1, <1>3, FirstHit DEF Alive
<1>6. pid2thread(n) \in Alive /\ pid[pid2thread(n)] = n
  BY <1>4, <1>5
<1>7. pid2thread(n) = p
  BY <1>1, <1>2, <1>6 DEF IInv, PidInv, Registered
<1>8. QED  BY <1>1, <1>2, <1>6, <1>7

(* An exiting process wakes its parent and hangs.                           *)
LEMMA ExitHangKeeps ==
  ASSUME IInv, NEW me \in Thread, me = self, ExitHang
  PROVE  IInv'
<1> USE DEF IInv
<1>1. /\ pc[me] = "release" /\ me \in Process /\ me # init
      /\ me \in Alive /\ sched.status[me] = "RUNNING"
      /\ pc' = [pc EXCEPT ![me] = "gone"]
      /\ UNCHANGED << all_list, pid, parent, pids, newborn, lost >>
      /\ Alive \subseteq Thread /\ Alive' = Alive
      /\ init \in Alive /\ idle_thread \in Alive
  BY Running DEF ExitHang, At, Goto, Alive, ListInv, CallInv
<1>2. PICK p \in Alive : p = pid2thread(parent[me]) /\ p # NULL /\ pid[p] = parent[me] /\ p # me
  BY <1>1, FoundParent
<1>3. PICK s : /\ s = IF sched.status[p] = "WAITING" THEN thread_unblock(sched, p) ELSE sched
               /\ sched' = thread_block(s, "HANGING")
  BY <1>2 DEF ExitHang
<1>4. SchedInv(s) /\ s.cur = me /\ SameLives(sched, s) /\ s.status[p] # "WAITING"
      /\ \A t \in Thread : s.status[t] = "WAITING" => sched.status[t] = "WAITING"
  <2>1. CASE sched.status[p] = "WAITING"
    <3>1. s = thread_unblock(sched, p) /\ p \in Thread
      BY <1>1, <1>3, <2>1
    <3>2. /\ SchedInv(s) /\ s.cur = sched.cur /\ SameLives(sched, s)
          /\ s.status = [sched.status EXCEPT ![p] = "READY"]
      BY <2>1, <3>1, WakeLives
    <3>3. sched.status \in [Thread -> TaskStatus]
      BY DEF SchedInv, SchedState
    <3>4. QED  BY <3>1, <3>2, <3>3 DEF self
  <2>2. CASE sched.status[p] # "WAITING"
    BY <1>3, <2>2 DEF SameLives, self
  <2>3. QED  BY <2>1, <2>2
<1>5. me # idle_thread
  BY <1>1 DEF Process
<1>6. /\ SchedInv(sched') /\ sched'.status[me] = "HANGING"
      /\ OthersLive(s, sched', me)
  BY <1>3, <1>4, <1>5, HangLives
<1>7. \A t \in Thread : /\ Dead(t)' <=> Dead(t)
                        /\ Hanging(t)' <=> Hanging(t) \/ t = me
                        /\ sched'.status[t] = "WAITING" =>
                             sched.status[t] = "WAITING" /\ t # p
  <2>1. ~Dead(me)
    BY <1>1 DEF Dead
  <2>2. QED  BY <1>4, <1>6, <2>1 DEF Dead, Hanging, SameLives, OthersLive
<1>8. \A t \in Thread : pc'[t] = IF t = me THEN "gone" ELSE pc[t]
  BY <1>1 DEF TypeOK
<1>9. TypeOK'
  <2>1. sched' \in SchedState
    BY <1>6 DEF SchedInv
  <2>2. pc' \in [Thread -> Pc]
    BY <1>1 DEF TypeOK, Pc
  <2>3. QED  BY <1>1, <2>1, <2>2 DEF TypeOK
<1>10. ListInv'
  BY <1>1, <1>7 DEF ListInv
<1>11. CallInv'
  BY <1>1, <1>7, <1>8 DEF CallInv
<1>12. NewbornInv'
  BY <1>1, <1>8 DEF NewbornInv
<1>13. \A u \in Thread : pc'[u] = "dup" <=> pc[u] = "dup"
  BY <1>1, <1>8
<1>14. PidInv'
  BY <1>1, <1>13 DEF PidInv, Registered, Numbered
<1>15. ParentInv'
  <2>1. \A q \in Thread : pc[q] \notin {"release", "gone"} => pc'[q] \notin {"release", "gone"}
    BY <1>1, <1>8
  <2>2. QED  BY <1>1, <1>13, <2>1 DEF ParentInv
<1>16. NoLostExit'
  <2> SUFFICES ASSUME NEW c \in Alive, Hanging(c) \/ c = me, NEW q \in Alive \ {init},
                      pid[q] = parent[c], sched.status[q] = "WAITING", q # p
               PROVE  FALSE
    BY <1>1, <1>7 DEF NoLostExit
  <2>1. CASE c = me
    <3>1. pid[q] = pid[p]
      BY <1>2, <2>1
    <3>2. QED  BY <1>1, <3>1 DEF PidInv, Registered
  <2>2. CASE Hanging(c)
    BY <2>2 DEF NoLostExit
  <2>3. QED  BY <2>1, <2>2
<1>17. QED  BY <1>6, <1>9, <1>10, <1>11, <1>12, <1>14, <1>15, <1>16

(* main, when its work is done, leaves the list for good.                   *)
LEMMA MainExitKeeps ==
  ASSUME IInv, NEW me \in Thread, me = self, MainExit
  PROVE  IInv'
<1> USE DEF IInv
<1>1. /\ me = main_thread /\ me \in Alive /\ sched.status[me] = "RUNNING"
      /\ sched' = thread_exit(sched, me, TRUE)
      /\ all_list' = RemoveFirst(all_list, me)
      /\ pids' = pids \ {pid[me]}
      /\ UNCHANGED << pid, parent, pc, newborn, lost >>
      /\ Alive \subseteq Thread /\ NULL \notin Thread
      /\ init \in Alive /\ idle_thread \in Alive /\ init \in Process
      /\ me \notin Process /\ me # init /\ me # idle_thread
  BY Running, FourThreads DEF MainExit, ListInv, Process
<1>2. /\ newborn \in [Thread -> Process \cup {NULL}] /\ all_list \in Seq(Thread)
  BY DEF TypeOK
<1>3. /\ SchedInv(sched') /\ sched'.status[me] = "DIED"
      /\ OthersLive(sched, sched', me)
  <2>1. me = sched.cur /\ SchedInv(sched)
    BY DEF self
  <2>2. QED  BY <1>1, <2>1, LeaveLives
<1>4. all_list' \in Seq(Thread) /\ IsInjective(all_list') /\ Alive' = Alive \ {me}
  BY <1>1, <1>2, RemoveElems DEF Alive, ListInv
<1>5. TypeOK'
  <2>1. sched' \in SchedState
    BY <1>3 DEF SchedInv
  <2>2. QED  BY <1>1, <1>4, <2>1 DEF TypeOK
<1>6. ListInv'
  BY <1>1, <1>3, <1>4 DEF ListInv, Dead, OthersLive
<1>7. CallInv'
  BY <1>1, <1>3, <1>4 DEF CallInv, Hanging, OthersLive
<1>8. NewbornInv'
  BY <1>1, <1>4 DEF NewbornInv
<1>9. \A t \in Thread : Registered(t)' <=> Registered(t) /\ t # me
  <2>1. \A u \in Thread : newborn[u] # me
    BY <1>1, <1>2
  <2>2. QED  BY <1>1, <1>4, <2>1 DEF Registered, Numbered
<1>10. PidInv'
  <2>1. \A t, u \in Thread : Registered(t)' /\ Registered(u)' /\ pid'[t] = pid'[u] => t = u
    BY <1>1, <1>9 DEF PidInv
  <2>2. \A t \in Thread : Registered(t)' => pid'[t] \in pids'
    BY <1>1, <1>9 DEF PidInv, Registered
  <2>3. \A n \in pids' : \E t \in Thread : (Registered(t)' \/ t \in lost') /\ pid'[t] = n
    BY <1>1, <1>9 DEF PidInv
  <2>4. QED  BY <2>1, <2>2, <2>3 DEF PidInv
<1>11. ParentInv'
  <2>1. Alive' \cap Process = Alive \cap Process
    BY <1>1, <1>4
  <2>2. QED  BY <1>1, <2>1 DEF ParentInv
<1>12. NoLostExit'
  <2> SUFFICES ASSUME NEW c \in Alive \ {me}, sched'.status[c] = "HANGING",
                      NEW p \in (Alive \ {me}) \ {init}, pid[p] = parent[c]
               PROVE  sched'.status[p] # "WAITING"
    BY <1>1, <1>4 DEF NoLostExit, Hanging
  <2>1. Hanging(c) /\ c \in Alive /\ p \in Alive \ {init}
    BY <1>1, <1>3 DEF Hanging, OthersLive
  <2>2. sched.status[p] # "WAITING"
    BY <2>1 DEF NoLostExit
  <2>3. QED  BY <1>1, <1>3, <2>1, <2>2 DEF OthersLive
<1>13. QED  BY <1>3, <1>5, <1>6, <1>7, <1>8, <1>10, <1>11, <1>12

-----------------------------------------------------------------------------
(***************************************************************************)
(* The theorems                                                            *)
(***************************************************************************)
LEMMA InitInv == Init => IInv
<1> SUFFICES ASSUME Init PROVE IInv
  OBVIOUS
<1> USE DEF Init
<1>1. /\ {main_thread, init, idle_thread} \subseteq Thread /\ NULL \notin Thread
      /\ init # main_thread /\ init # idle_thread /\ main_thread # idle_thread
      /\ init \in Process
  BY ProcAssumption, ThreadAssumption, FourThreads DEF Process
<1>2. MaxPid \in Nat /\ 3 <= MaxPid
  <2>1. {main_thread, init, shell, idle_thread} \in SUBSET Thread /\ IsFiniteSet(Thread)
    BY ProcAssumption, ThreadAssumption
  <2>2. /\ Cardinality({main_thread, init, shell, idle_thread}) <= Cardinality(Thread)
        /\ Cardinality(Thread) \in Nat
    BY <2>1, FS_Subset, FS_CardinalityType
  <2>3. QED  BY <2>2, ProcAssumption
<1>3. \A t \in Thread :
        /\ sched.status[t] = IF t = main_thread THEN "RUNNING"
                             ELSE IF t \in {init, idle_thread} THEN "READY" ELSE "FREE"
        /\ pid[t] = IF t = init THEN 1 ELSE IF t = main_thread THEN 2
                    ELSE IF t = idle_thread THEN 3 ELSE 0
        /\ parent[t] = -1 /\ pc[t] = (IF t = init THEN "start" ELSE "user") /\ newborn[t] = NULL
  BY <1>1
<1>4. /\ all_list \in Seq(Thread) /\ IsInjective(all_list)
      /\ Alive = {init, main_thread, idle_thread}
  <2>1. all_list = << init, main_thread, idle_thread >> /\ DOMAIN all_list = 1 .. 3
    OBVIOUS
  <2>2. all_list[1] = init /\ all_list[2] = main_thread /\ all_list[3] = idle_thread
    OBVIOUS
  <2>3. IsInjective(all_list)
    BY <1>1, <2>1, <2>2 DEF IsInjective
  <2>4. QED  BY <1>1, <2>1, <2>2, <2>3 DEF Alive, ToSet
<1>5. SchedInv(sched)
  <2>1. /\ sched.ready = << init, idle_thread >> /\ DOMAIN sched.ready = 1 .. 2
        /\ sched.ready[1] = init /\ sched.ready[2] = idle_thread
    OBVIOUS
  <2>2. ToSet(sched.ready) = {init, idle_thread} /\ IsInjective(sched.ready)
    BY <1>1, <2>1 DEF ToSet, IsInjective
  <2>3. sched \in SchedState /\ ~sched.panic /\ sched.cur = main_thread
    BY <1>1, ThreadAssumption DEF SchedState, TaskStatus
  <2>4. \A t \in Thread : InReadyList(sched, t) <=> sched.status[t] = "READY"
    BY <1>1, <1>3, <2>2 DEF InReadyList
  <2>5. OneRunning(sched) /\ IdleAvailable(sched)
    BY <1>1, <1>3, <2>3 DEF OneRunning, IdleAvailable
  <2>6. QED  BY <2>2, <2>3, <2>4, <2>5 DEF SchedInv, ReadyListExact
<1>6. TypeOK
  BY <1>2, <1>4, <1>5 DEF TypeOK, SchedInv, Pc
<1>7. ListInv
  BY <1>1, <1>3, <1>4 DEF ListInv, Dead, init_pid
<1>8. CallInv
  BY <1>1, <1>3, <1>4 DEF CallInv, Hanging
<1>9. NewbornInv
  BY <1>1, <1>3, <1>4 DEF NewbornInv
<1>10. \A t \in Thread : Registered(t) <=> t \in Alive
  BY <1>3 DEF Registered, Numbered
<1>11. PidInv
  BY <1>1, <1>3, <1>4, <1>10 DEF PidInv
<1>12. ParentInv
  BY <1>1, <1>3, <1>4 DEF ParentInv, Process
<1>13. NoLostExit
  BY <1>1, <1>3, <1>4 DEF NoLostExit, Hanging
<1>14. QED  BY <1>5, <1>6, <1>7, <1>8, <1>9, <1>11, <1>12, <1>13 DEF IInv

LEMMA NextInv == IInv /\ [Next]_vars => IInv'
<1> SUFFICES ASSUME IInv, [Next]_vars PROVE IInv'
  OBVIOUS
<1>1. PICK me \in Thread : me = self
  BY Running
<1>2. CASE ForkPage
  BY <1>1, <1>2, ForkPageKeeps
<1>3. CASE WaitCall
  BY <1>1, <1>3, WaitingKeeps DEF WaitCall, At, Goto
<1>4. CASE ExitAdopt
  BY <1>1, <1>4, ExitAdoptKeeps
<1>5. CASE KernelStep
  <2>1. CASE ForkCopy
    BY <1>1, <2>1, ForkCopyKeeps
  <2>2. CASE ForkFinish
    BY <1>1, <2>2, ForkFinishKeeps
  <2>3. CASE ForkFail
    BY <1>1, <2>3, ForkFailKeeps
  <2>4. CASE WaitReap
    BY <1>1, <2>4, WaitReapKeeps
  <2>5. CASE WaitNoChild
    BY <1>1, <2>5, WaitingKeeps DEF WaitNoChild, At, Goto
  <2>6. CASE WaitBlock
    <3>1. /\ SchedInv(sched) /\ sched.cur = me /\ me # idle_thread
          /\ sched' = thread_block(sched, "WAITING")
          /\ \A c \in ChildrenOf(me) : ~Hanging(c)
          /\ UNCHANGED << all_list, pid, parent, pids, pc, newborn, lost >>
      BY <1>1, <2>6 DEF WaitBlock, At, IInv, self, Process
    <3>2. /\ SchedInv(sched') /\ SameLives(sched, sched')
          /\ \A t \in Thread : sched'.status[t] = "WAITING" =>
               sched.status[t] = "WAITING" \/ t = me
      BY <3>1, SleepLives
    <3>3. QED  BY <3>1, <3>2, SchedulerStep
  <2>7. CASE ExitHang
    BY <1>1, <2>7, ExitHangKeeps
  <2>8. QED  BY <1>5, <2>1, <2>2, <2>3, <2>4, <2>5, <2>6, <2>7 DEF KernelStep
<1>6. CASE PoolLockWait \/ IdleLoop
  <2>1. /\ SchedInv(sched) /\ sched' = thread_block(sched, "BLOCKED")
        /\ UNCHANGED << all_list, pid, parent, pids, pc, newborn, lost >>
    BY <1>6 DEF PoolLockWait, IdleLoop, IInv
  <2>2. /\ SchedInv(sched') /\ SameLives(sched, sched')
        /\ \A t \in Thread : sched'.status[t] = "WAITING" => sched.status[t] = "WAITING"
    BY <2>1, SleepLives
  <2>3. QED  BY <2>1, <2>2, SchedulerStep
<1>7. CASE MainUnlocks
  <2>1. PICK t \in Thread : sched.status[t] = "BLOCKED" /\ sched' = thread_unblock(sched, t)
    BY <1>7 DEF MainUnlocks, Process
  <2>2. /\ SchedInv(sched) /\ sched.status \in [Thread -> TaskStatus]
        /\ UNCHANGED << all_list, pid, parent, pids, pc, newborn, lost >>
    BY <1>7 DEF MainUnlocks, IInv, SchedInv, SchedState
  <2>3. /\ SchedInv(sched') /\ SameLives(sched, sched')
        /\ sched'.status = [sched.status EXCEPT ![t] = "READY"]
    BY <2>1, <2>2, WakeLives
  <2>4. \A u \in Thread : sched'.status[u] = "WAITING" => sched.status[u] = "WAITING"
    BY <2>2, <2>3
  <2>5. QED  BY <2>2, <2>3, <2>4, SchedulerStep
<1>8. CASE MainExit
  BY <1>1, <1>8, MainExitKeeps
<1>9. CASE TimerIntr
  <2>1. /\ SchedInv(sched) /\ sched' = intr_timer_handler(sched)
        /\ UNCHANGED << all_list, pid, parent, pids, pc, newborn, lost >>
    BY <1>9 DEF TimerIntr, IInv
  <2>2. /\ SchedInv(sched') /\ SameLives(sched, sched')
        /\ \A t \in Thread : sched'.status[t] = "WAITING" => sched.status[t] = "WAITING"
    BY <2>1, TickLives
  <2>3. QED  BY <2>1, <2>2, SchedulerStep
<1>10. CASE UNCHANGED vars
  <2>1. /\ SchedInv(sched) /\ sched' = sched
        /\ UNCHANGED << all_list, pid, parent, pids, pc, newborn, lost >>
    BY <1>10 DEF vars, IInv
  <2>2. SchedInv(sched') /\ SameLives(sched, sched')
    BY <2>1 DEF SameLives
  <2>3. QED  BY <2>1, <2>2, SchedulerStep
<1>11. QED
  BY <1>2, <1>3, <1>4, <1>5, <1>6, <1>7, <1>8, <1>9, <1>10 DEF Next

LEMMA SpecInv == Spec => []IInv
<1>1. QED  BY InitInv, NextInv, PTL DEF Spec

\* A pid is used again only when its last owner is gone: no two threads of
\* thread_all_list share one, and the pool knows each (thread.c, fork.c).
THEOREM PidsStayUnique == Spec => []PidsUnique
<1>1. IInv => PidsUnique
  <2> SUFFICES ASSUME IInv PROVE PidsUnique
    OBVIOUS
  <2>1. Alive \subseteq Thread
    BY Running
  <2>2. QED  BY <2>1 DEF IInv, ListInv, PidInv, Registered, PidsUnique
<1>2. QED  BY <1>1, SpecInv, PTL

\* The parent a process names exists and has not begun to exit, so sys_exit
\* never dereferences a NULL from pid2thread, and no ASSERT or PANIC of fork,
\* exit, wait or the scheduler is reached (wait_exit.c:177).
THEOREM ParentIsThere == Spec => []ParentCanReap
<1>1. IInv => ParentCanReap
  BY DEF IInv, SchedInv, ParentInv, ParentCanReap, NoAssertFails
<1>2. QED  BY <1>1, SpecInv, PTL

\* Between the scan of sys_wait and its thread_block no exit is missed, and
\* an exit that comes later wakes the parent.
THEOREM ExitIsNoticed == Spec => []NoLostExit
<1>1. IInv => NoLostExit
  BY DEF IInv
<1>2. QED  BY <1>1, SpecInv, PTL

\* Only the parent destroys the PCB of a process, in sys_wait, when the exit
\* is complete.
THEOREM OnlyTheParentReaps == Spec => ReapedByParent
<1> DEFINE Reaped == \A c \in Process : c \in Alive /\ c \notin ToSet(all_list') =>
                       /\ pc[c] = "gone" /\ Hanging(c)
                       /\ pc[self] = "wait" /\ parent[c] = pid[self]
<1>1. IInv /\ [Next]_vars => [Reaped]_vars
  <2> SUFFICES ASSUME IInv, Next, NEW c \in Process, c \in Alive, c \notin ToSet(all_list')
               PROVE  /\ pc[c] = "gone" /\ Hanging(c)
                      /\ pc[self] = "wait" /\ parent[c] = pid[self]
    BY DEF Alive
  <2>1. PICK me \in Thread : me = self
    BY Running
  <2>2. all_list \in Seq(Thread) /\ IsInjective(all_list)
    BY DEF IInv, TypeOK, ListInv
  <2>3. CASE all_list' = all_list
    BY <2>3 DEF Alive
  <2>4. CASE WaitReap
    <3>1. pc[me] = "wait" /\ \E x \in ChildrenOf(me) : Hanging(x)
      BY <2>1, <2>4 DEF WaitReap, At
    <3>2. PICK d : /\ d = FirstHanging(me) /\ d \in Alive /\ Hanging(d)
                   /\ parent[d] = pid[me]
      BY <3>1, FoundChild
    <3>3. all_list' = RemoveFirst(all_list, d)
      BY <2>1, <2>4, <3>2 DEF WaitReap
    <3>4. ToSet(all_list') = Alive \ {d}
      BY <2>2, <3>2, <3>3, RemoveElems DEF Alive
    <3>5. d = c
      BY <3>4
    <3>6. QED  BY <2>1, <3>1, <3>2, <3>5 DEF IInv, CallInv
  <2>5. CASE MainExit
    <3>1. main_thread \in Alive /\ all_list' = RemoveFirst(all_list, main_thread)
      BY <2>5, Running DEF MainExit
    <3>2. ToSet(all_list') = Alive \ {main_thread}
      BY <2>2, <3>1, RemoveElems DEF Alive
    <3>3. QED  BY <3>2 DEF Process
  <2>6. CASE ForkFinish
    <3>1. all_list' = all_list \/ \E x \in Process : all_list' = Append(all_list, x)
      <4>1. newborn[self] \in Process
        BY <2>6, <2>1, Running DEF ForkFinish, At, IInv, NewbornInv, TypeOK
      <4>2. QED  BY <2>6, <4>1 DEF ForkFinish
    <3>2. Alive \subseteq ToSet(all_list')
      <4>1. ASSUME NEW x \in Thread PROVE Alive \subseteq ToSet(Append(all_list, x))
        BY <2>2, AppendElems DEF Alive
      <4>2. QED  BY <3>1, <4>1 DEF Alive, Process
    <3>3. QED  BY <3>2
  <2>7. all_list' = all_list \/ WaitReap \/ MainExit \/ ForkFinish
    BY DEF Next, KernelStep, ForkPage, WaitCall, ExitAdopt, ForkCopy, ForkFail, WaitNoChild,
           WaitBlock, ExitHang, PoolLockWait, MainUnlocks, TimerIntr, IdleLoop
  <2>8. QED  BY <2>3, <2>4, <2>5, <2>6, <2>7
<1>2. QED  BY <1>1, SpecInv, PTL DEF Spec, ReapedByParent
===============================================================================
