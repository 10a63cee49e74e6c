------------------------------ MODULE ProcLife ------------------------------
(***************************************************************************)
(* The life of a process: fork (userprog/fork.c), exit and wait            *)
(* (userprog/wait_exit.c), adoption by init, PCB pages and pids that are   *)
(* used again (thread/thread.c), and the programs main.c starts: main,     *)
(* init, which forks the shell and then waits for ever, the shell, which   *)
(* waits after each fork, and programs that fork, wait and exit at will.   *)
(*                                                                         *)
(* A system call runs with interrupts off.  fork and exit can lose the cpu *)
(* where they ask for kernel memory: main, which runs with interrupts on,  *)
(* may have been preempted inside the kernel pool's lock.                  *)
(***************************************************************************)
EXTENDS ThreadOps, Integers, FiniteSetsExt

CONSTANTS main_thread, init, shell,
          MaxPid,    \* pids 1 .. MaxPid; 1024 in the code
          NULL

ASSUME ProcAssumption ==
  /\ {main_thread, init, shell} \subseteq Thread
  /\ Cardinality({main_thread, init, shell, idle_thread}) = 4
  /\ NULL \notin Thread
  /\ MaxPid \in Nat /\ Cardinality(Thread) <= MaxPid

VARIABLES sched,
          all_list,     \* thread_all_list
          pid, parent,  \* of each PCB; parent -1: none
          pids,         \* the pids marked in pid_pool
          pc,           \* what a thread executes
          newborn,      \* newborn[t]: the PCB t is filling in sys_fork
          lost          \* PCB pages that a failed fork did not give back

vars == << sched, all_list, pid, parent, pids, pc, newborn, lost >>

self == sched.cur
Process == Thread \ {main_thread, idle_thread}
init_pid == 1

(***************************************************************************)
(* start    init before its one fork                                       *)
(* user     user mode (main, idle: their own code)                         *)
(* copy     sys_fork has its PCB       dup     ... and the child's pid     *)
(* wait     in the loop of sys_wait                                        *)
(* release  sys_exit gave its children to init                             *)
(* gone     sys_exit is over                                               *)
(***************************************************************************)
Pc == {"start", "user", "copy", "dup", "wait", "release", "gone"}

\* After thread_init: init has pid 1, main 2, idle 3.
Init ==
  /\ sched = [cur    |-> main_thread,
              status |-> [t \in Thread |->
                            CASE t = main_thread -> "RUNNING"
                              [] t \in {init, idle_thread} -> "READY"
                              [] OTHER -> "FREE"],
              ready  |-> << init, idle_thread >>,
              ticks  |-> priority,
              panic  |-> FALSE]
  /\ all_list = << init, main_thread, idle_thread >>
  /\ pid = [t \in Thread |-> CASE t = init -> 1 [] t = main_thread -> 2
                               [] t = idle_thread -> 3 [] OTHER -> 0]
  /\ parent = [t \in Thread |-> -1]
  /\ pids = {1, 2, 3}
  /\ pc = [t \in Thread |-> IF t = init THEN "start" ELSE "user"]
  /\ newborn = [t \in Thread |-> NULL]
  /\ lost = {}

At(p) == ~sched.panic /\ self \in Process /\ pc[self] = p
Goto(p) == pc' = [pc EXCEPT ![self] = p]

\* A PCB page that no process has and no fork is filling or has leaked.
PageFree(t) ==
  /\ sched.status[t] \in {"FREE", "DIED"} /\ t # main_thread
  /\ t \notin lost /\ \A u \in Thread : newborn[u] # t

\* bitmap_scan finds the lowest free bit.
allocate_pid == Min((1 .. MaxPid) \ pids)

ChildrenOf(t) == {c \in ToSet(all_list) : parent[c] = pid[t]}
Hanging(c) == sched.status[c] = "HANGING"

\* Mutant of FirstHanging: the parent is not compared.
FirstHanging_Any(t) == all_list[Min({i \in DOMAIN all_list : Hanging(all_list[i])})]

\* list_traversal(find_hanging_child): the first one in thread_all_list.
FirstHanging(t) ==
  all_list[Min({i \in DOMAIN all_list : all_list[i] \in ChildrenOf(t) /\ Hanging(all_list[i])})]

\* pid2thread: the first thread of the list that has this pid.
pid2thread(p) ==
  LET found == {i \in DOMAIN all_list : pid[all_list[i]] = p}
  IN IF found = {} THEN NULL ELSE all_list[Min(found)]

-----------------------------------------------------------------------------
(***************************************************************************)
(* sys_fork                                                                *)
(***************************************************************************)
\* init forks once, then only waits.
ForkPage ==
  /\ IF self = init THEN At("start") ELSE At("user")
  /\ \E c \in Process :
       /\ PageFree(c) /\ (c = shell <=> self = init)
       /\ newborn' = [newborn EXCEPT ![self] = c]
  /\ Goto("copy")
  /\ UNCHANGED << sched, all_list, pid, parent, pids, lost >>

\* copy_pcb_vaddrbitmap_stack0
ForkCopy ==
  /\ At("copy")
  /\ LET c == newborn[self] IN
       /\ pid' = [pid EXCEPT ![c] = allocate_pid]
       /\ parent' = [parent EXCEPT ![c] = pid[self]]
  /\ pids' = pids \cup {allocate_pid}
  /\ Goto("dup")
  /\ UNCHANGED << sched, all_list, newborn, lost >>

\* Where a caller goes on: init and the shell wait, whatever fork returned.
AfterFork == IF self \in {init, shell} THEN "wait" ELSE "user"

\* The child enters both lists.
ForkFinish ==
  /\ At("dup")
  /\ LET c == newborn[self] IN
       IF c \in ToSet(all_list)
       THEN sched' = Panic(sched) /\ UNCHANGED << all_list, newborn, pc >>
       ELSE /\ sched' = EnqueueNew(sched, c)
            /\ all_list' = Append(all_list, c)
            /\ newborn' = [newborn EXCEPT ![self] = NULL]
            /\ pc' = [pc EXCEPT ![c] = "user",
                                ![self] = AfterFork]
  /\ UNCHANGED << pid, parent, pids, lost >>

\* get_kernel_pages returns NULL: -1, and nothing obtained so far is given
\* back, neither the PCB page nor the pid.
ForkFail ==
  /\ At("copy") \/ At("dup")
  /\ lost' = lost \cup {newborn[self]}
  /\ newborn' = [newborn EXCEPT ![self] = NULL]
  /\ Goto(AfterFork)
  /\ UNCHANGED << sched, all_list, pid, parent, pids >>

-----------------------------------------------------------------------------
(***************************************************************************)
(* sys_wait                                                                *)
(***************************************************************************)
\* Also the call of init or the shell after a fork that found no page at all.
WaitCall ==
  /\ At("user") \/ At("start")
  /\ Goto("wait")
  /\ UNCHANGED << sched, all_list, pid, parent, pids, newborn, lost >>

\* A child has exited: thread_exit(child, false) frees its PCB and its pid.
WaitReap ==
  /\ At("wait") /\ \E c \in ChildrenOf(self) : Hanging(c)
  /\ LET c == FirstHanging(self) IN
       /\ sched' = thread_exit(sched, c, FALSE)
       /\ all_list' = RemoveFirst(all_list, c)
       /\ pids' = pids \ {pid[c]}
  /\ Goto("user")
  /\ UNCHANGED << pid, parent, newborn, lost >>

\* No child at all: -1.
WaitNoChild ==
  /\ At("wait") /\ ChildrenOf(self) = {}
  /\ Goto("user")
  /\ UNCHANGED << sched, all_list, pid, parent, pids, newborn, lost >>

\* Mutant of WaitBlock: exited children are not looked for first.
WaitBlock_NoScan ==
  /\ At("wait") /\ ChildrenOf(self) # {}
  /\ sched' = thread_block(sched, "WAITING")
  /\ UNCHANGED << all_list, pid, parent, pids, pc, newborn, lost >>

WaitBlock ==
  /\ At("wait") /\ ChildrenOf(self) # {}
  /\ \A c \in ChildrenOf(self) : ~Hanging(c)
  /\ sched' = thread_block(sched, "WAITING")
  /\ UNCHANGED << all_list, pid, parent, pids, pc, newborn, lost >>

-----------------------------------------------------------------------------
(***************************************************************************)
(* sys_exit.  Neither init nor the shell ever exits.                       *)
(***************************************************************************)
\* Mutant of ExitAdopt: nobody adopts the children.
ExitAdopt_Missing ==
  /\ At("user") /\ self \notin {init, shell}
  /\ Goto("release")
  /\ UNCHANGED << sched, all_list, pid, parent, pids, newborn, lost >>

\* init_adopt_a_child for every thread.
ExitAdopt ==
  /\ At("user") /\ self \notin {init, shell}
  /\ IF parent[self] = -1
     THEN sched' = Panic(sched) /\ UNCHANGED << parent, pc >>
     ELSE /\ parent' = [t \in Thread |->
                          IF t \in ChildrenOf(self) THEN init_pid ELSE parent[t]]
          /\ Goto("release")
          /\ UNCHANGED sched
  /\ UNCHANGED << all_list, pid, pids, newborn, lost >>

\* Mutants of ExitHang: the pid is given back at once; the parent is not woken.
ExitHang_FreesPid ==
  /\ At("release")
  /\ LET p == pid2thread(parent[self]) IN
       sched' = thread_block(IF sched.status[p] = "WAITING"
                             THEN thread_unblock(sched, p) ELSE sched, "HANGING")
  /\ pids' = pids \ {pid[self]}
  /\ Goto("gone")
  /\ UNCHANGED << all_list, pid, parent, newborn, lost >>

ExitHang_NeverWakes ==
  /\ At("release")
  /\ sched' = thread_block(sched, "HANGING")
  /\ Goto("gone")
  /\ UNCHANGED << all_list, pid, parent, pids, newborn, lost >>

\* Wake the parent if it waits, then hang until it reaps this process.
ExitHang ==
  /\ At("release")
  /\ LET p == pid2thread(parent[self]) IN
       IF p = NULL
       THEN sched' = Panic(sched)
       ELSE sched' = thread_block(IF sched.status[p] = "WAITING"
                                  THEN thread_unblock(sched, p) ELSE sched,
                                  "HANGING")
  /\ Goto("gone")
  /\ UNCHANGED << all_list, pid, parent, pids, newborn, lost >>

-----------------------------------------------------------------------------
(***************************************************************************)
(* main, preempted in the kernel pool's lock, keeps others waiting for it; *)
(* when it is done it exits for good.                                      *)
(***************************************************************************)
PoolLockWait ==
  /\ At("copy") \/ At("dup") \/ At("release")
  /\ sched.status[main_thread] = "READY"
  /\ sched' = thread_block(sched, "BLOCKED")
  /\ UNCHANGED << all_list, pid, parent, pids, pc, newborn, lost >>

MainUnlocks ==
  /\ ~sched.panic /\ self = main_thread
  /\ \E t \in Process : /\ sched.status[t] = "BLOCKED"
                        /\ sched' = thread_unblock(sched, t)
  /\ UNCHANGED << all_list, pid, parent, pids, pc, newborn, lost >>

MainExit ==
  /\ ~sched.panic /\ self = main_thread
  /\ \A t \in Process : sched.status[t] # "BLOCKED"
  /\ sched' = thread_exit(sched, main_thread, TRUE)
  /\ all_list' = RemoveFirst(all_list, main_thread)
  /\ pids' = pids \ {pid[main_thread]}
  /\ UNCHANGED << pid, parent, pc, newborn, lost >>

TimerIntr ==
  /\ ~sched.panic /\ pc[self] \in {"start", "user"}
  /\ sched' = intr_timer_handler(sched)
  /\ UNCHANGED << all_list, pid, parent, pids, pc, newborn, lost >>

IdleLoop ==
  /\ ~sched.panic /\ self = idle_thread
  /\ sched' = thread_block(sched, "BLOCKED")
  /\ UNCHANGED << all_list, pid, parent, pids, pc, newborn, lost >>

KernelStep ==
  \/ ForkCopy \/ ForkFinish \/ ForkFail
  \/ WaitReap \/ WaitNoChild \/ WaitBlock \/ ExitHang

Next ==
  \/ ForkPage \/ WaitCall \/ ExitAdopt \/ KernelStep \/ PoolLockWait
  \/ MainUnlocks \/ MainExit \/ TimerIntr \/ IdleLoop

(***************************************************************************)
(* Fairness: the kernel goes on, time slices end, main finishes its work,  *)
(* and init, whenever it runs, calls wait again.                           *)
(***************************************************************************)
Fairness ==
  /\ WF_vars(KernelStep) /\ WF_vars(IdleLoop)
  /\ SF_vars(TimerIntr) /\ SF_vars(MainUnlocks) /\ SF_vars(MainExit)
  /\ SF_vars(self = init /\ (ForkPage \/ WaitCall))

Spec == Init /\ [][Next]_vars
FairSpec == Spec /\ Fairness

-----------------------------------------------------------------------------
(***************************************************************************)
(* Properties                                                              *)
(***************************************************************************)
TypeOK ==
  /\ sched \in SchedState
  /\ all_list \in Seq(Thread)
  /\ pid \in [Thread -> 0 .. MaxPid]
  /\ parent \in [Thread -> {-1} \cup (1 .. MaxPid)]
  /\ pids \subseteq 1 .. MaxPid
  /\ pc \in [Thread -> Pc]
  /\ newborn \in [Thread -> Process \cup {NULL}]
  /\ lost \subseteq Process

Alive == ToSet(all_list)

\* No ASSERT or PANIC is reached, and an exiting process finds its parent: the
\* code dereferences the result of pid2thread without a test
\* (wait_exit.c:177).
NoAssertFails == ~sched.panic

\* Pids are used again only when their last owner is gone: threads in the list
\* have different pids, all of them marked in the pool, and each thread is in
\* the list once.
PidsUnique ==
  /\ IsInjective(all_list)
  /\ \A t, u \in Alive : pid[t] = pid[u] => t = u
  /\ \A t \in Alive : pid[t] \in pids

\* Whoever a process calls its parent exists and has not begun to exit, so it
\* can still reap the process: adoption comes before the parent can vanish,
\* and a reused pid never becomes somebody else's parent by accident.  sys_exit
\* always finds its parent, and no ASSERT fails.
ParentCanReap ==
  /\ NoAssertFails
  /\ \A t \in Alive \cap Process : parent[t] # -1 =>
       \E p \in Alive : pid[p] = parent[t] /\ pc[p] \notin {"release", "gone"}

\* A parent never sleeps in wait over a child that has exited, except for init,
\* to which exited children are handed over without waking it.
NoLostExit ==
  \A c \in Alive : Hanging(c) =>
    \A p \in Alive \ {init} : pid[p] = parent[c] => sched.status[p] # "WAITING"

\* A PCB is destroyed only by its parent, in wait, and only after its exit is
\* complete.
ReapedByParent ==
  [][\A c \in Process : c \in Alive /\ c \notin ToSet(all_list') =>
       /\ pc[c] = "gone" /\ Hanging(c)
       /\ pc[self] = "wait" /\ parent[c] = pid[self]]_vars

\* A wait that has an exited child to report returns.
WaitReturns ==
  \A p \in Process \ {init} :
    (pc[p] = "wait" /\ \E c \in ChildrenOf(p) : Hanging(c)) ~> pc[p] # "wait"

\* init reaps every zombie it has inherited (main.c:46).
InitReapsZombies ==
  \A c \in Process :
    (c \in Alive /\ Hanging(c) /\ parent[c] = init_pid) ~> c \notin Alive
=============================================================================
