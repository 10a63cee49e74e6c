------------------------------- MODULE Memory -------------------------------
(***************************************************************************)
(* Pages, page tables and the heap (lib/kernel/memory.c), and what fork,   *)
(* exec, exit and wait do with them (userprog/).                           *)
(*                                                                         *)
(* A page frame belongs to the kernel pool or to the user pool, a virtual  *)
(* page to the kernel or to one process.  Pages are numbered; a bitmap is  *)
(* the set of its marked numbers and bitmap_scan takes the lowest.  The    *)
(* user half of an address space is small enough for one page table.       *)
(*                                                                         *)
(* The model starts when main has left: from then on only system calls     *)
(* allocate, they run with interrupts off, and no thread sleeps while it   *)
(* holds a pool's lock.  So each call is one step, up to its end or to the *)
(* point where it meets the user pool's lock that a failed exec has left   *)
(* held: nobody will ever release it, and the caller sleeps for good.      *)
(***************************************************************************)
EXTENDS Integers, SequencesExt, FiniteSetsExt

CONSTANTS Proc, init,       \* PCBs of user processes; the first process
          kernel,           \* the kernel's address space
          KPage, KFrame,    \* kernel heap pages; frames of the kernel pool
          UPage, UFrame,    \* pages of a process; frames of the user pool
          BitmapPages,      \* pages of a process's address bitmap, 23
          BlocksPerArena,   \* of the one size class that is modelled
          LargeSizes,       \* pages of the allocations above 1024 bytes
          TlbPages          \* bound: pages whose translations are followed

ASSUME MemoryAssumption ==
  /\ init \in Proc /\ kernel \notin Proc
  /\ \A S \in {KPage, KFrame, UPage, UFrame} :
       S \subseteq Nat /\ IsFiniteSet(S) /\ S # {}
  /\ KFrame \cap UFrame = {}
  /\ BitmapPages \in Nat \ {0, 1}
  /\ BlocksPerArena \in Nat \ {0}
  /\ LargeSizes \subseteq Nat \ {0}
  /\ TlbPages \subseteq UPage

Space == Proc \cup {kernel}
None == -1
Pages(s)  == IF s = kernel THEN KPage ELSE UPage
Frames(s) == IF s = kernel THEN KFrame ELSE UFrame
PoolOf(s) == IF s = kernel THEN "kernel" ELSE "user"
stack_page == Max(UPage)
Run(v, n) == v .. v + n - 1

VARIABLES mem,      \* pools, address pools and page tables, see MemTypeOK
          heap,     \* heap[p]: arenas and the free list of process p
          proc,     \* proc[p]: status and kernel pages of p
          cur,      \* the process that runs
          user_lock,\* PCB of who left user_pool.lock held; None: nobody
          asleep,   \* processes that sleep for user_pool.lock
          used,     \* used[p]: heap blocks p's program has and may free
          lost      \* kernel pages nobody will ever give back

vars == << mem, heap, proc, cur, user_lock, asleep, used, lost >>

(***************************************************************************)
(* bits   the bitmaps of the two pools     vaddr  the address bitmaps      *)
(* pte    present page table entries       pde    frame of the page table  *)
(* tlb    translations of the running process's pages that the processor   *)
(*        may still hold after their removal                               *)
(* oom    some palloc has returned NULL                                    *)
(* fault  an ASSERT of memory.c failed, kernel code touched a page that is *)
(*        not mapped, or a page table was put at address 0                 *)
(***************************************************************************)
MemTypeOK(m) ==
  /\ m \in [bits  : [{"kernel", "user"} -> SUBSET (KFrame \cup UFrame)],
            vaddr : [Space -> SUBSET (KPage \cup UPage)],
            pte   : [Space -> [KPage -> KFrame \cup {None}] \cup [UPage -> UFrame \cup {None}]],
            pde   : [Proc -> KFrame \cup {None}],
            tlb   : SUBSET (UPage \X UFrame),
            oom   : BOOLEAN,
            fault : BOOLEAN]
  /\ m.bits["kernel"] \subseteq KFrame /\ m.bits["user"] \subseteq UFrame
  /\ \A s \in Space : /\ m.vaddr[s] \subseteq Pages(s)
                      /\ m.pte[s] \in [Pages(s) -> Frames(s) \cup {None}]

Arena == [large : BOOLEAN, cnt : Nat, own : BOOLEAN]
NoArena == [large |-> FALSE, cnt |-> 0, own |-> FALSE]
Block == UPage \X (1 .. BlocksPerArena)
BlocksOf(v) == {v} \X (1 .. BlocksPerArena)

Mapped(m, s) == {v \in Pages(s) : m.pte[s][v] # None}
Alive == {p \in Proc : proc[p].status = "alive"}
Exists == {p \in Proc : proc[p].status # "none"}

-----------------------------------------------------------------------------
(***************************************************************************)
(* Pages                                                                   *)
(***************************************************************************)
\* The lowest start of n clear bits, or None.
bitmap_scan(marked, all, n) ==
  LET starts == {v \in all : Run(v, n) \subseteq all \ marked}
  IN IF starts = {} THEN None ELSE Min(starts)

\* A page table is taken from the kernel pool when it is missing; whether
\* there was a frame for it is not tested.
page_table_add(m, s, v, f) ==
  LET table == bitmap_scan(m.bits["kernel"], KFrame, 1) IN
  IF s = kernel \/ m.pde[s] # None
  THEN [m EXCEPT !.pte[s][v] = f, !.fault = @ \/ m.pte[s][v] # None]
  ELSE IF table = None
  THEN [m EXCEPT !.oom = TRUE, !.fault = TRUE]
  ELSE [m EXCEPT !.pte[s][v] = f, !.pde[s] = table, !.bits["kernel"] = @ \cup {table}]

\* Mutant of MapPage: palloc does not mark the frame.
MapPage_NoMark(m, s, v) ==
  LET f == bitmap_scan(m.bits[PoolOf(s)], Frames(s), 1)
  IN IF f = None THEN [m |-> [m EXCEPT !.oom = TRUE], ok |-> FALSE]
     ELSE [m |-> page_table_add(m, s, v, f), ok |-> TRUE]

\* palloc and page_table_add.
MapPage(m, s, v) ==
  LET f == bitmap_scan(m.bits[PoolOf(s)], Frames(s), 1)
  IN IF f = None
     THEN [m |-> [m EXCEPT !.oom = TRUE], ok |-> FALSE]
     ELSE [m |-> page_table_add([m EXCEPT !.bits[PoolOf(s)] = @ \cup {f}], s, v, f),
           ok |-> TRUE]

\* n pages from start on, until the frames run out.
MapRun(m, s, start, n) ==
  LET step[i \in 0 .. n] ==
        IF i = 0 THEN [m |-> m, ok |-> TRUE]
        ELSE IF step[i - 1].ok THEN MapPage(step[i - 1].m, s, start + i - 1)
        ELSE step[i - 1]
  IN step[n]

\* When the frames run out half way, the addresses stay marked and the pages
\* obtained so far stay mapped.
malloc_page(m, s, n) ==
  LET start == bitmap_scan(m.vaddr[s], Pages(s), n)
      r == MapRun([m EXCEPT !.vaddr[s] = @ \cup Run(start, n)], s, start, n)
  IN IF start = None THEN [m |-> m, ret |-> None]
     ELSE [m |-> r.m, ret |-> IF r.ok THEN start ELSE None]

\* Mutant of mfree_page: vaddr_remove is forgotten.
mfree_page_KeepsAddress(m, s, v, n) ==
  [m EXCEPT !.bits[PoolOf(s)] = @ \ {m.pte[s][w] : w \in Run(v, n)},
            !.pte[s] = [w \in DOMAIN @ |-> IF w \in Run(v, n) THEN None ELSE @[w]]]

\* The invlpg names the wrong address, so the translations survive.
mfree_page(m, s, v, n) ==
  IF ~(Run(v, n) \subseteq Mapped(m, s))
  THEN [m EXCEPT !.fault = TRUE]
  ELSE [m EXCEPT !.bits[PoolOf(s)] = @ \ {m.pte[s][w] : w \in Run(v, n)},
                 !.pte[s] = [w \in DOMAIN @ |-> IF w \in Run(v, n) THEN None ELSE @[w]],
                 !.tlb = IF s = kernel THEN @
                         ELSE @ \cup {<< w, m.pte[s][w] >> : w \in Run(v, n) \cap TlbPages},
                 !.vaddr[s] = @ \ Run(v, n)]

-----------------------------------------------------------------------------
(***************************************************************************)
(* Init: start_process has given the first process its stack page, and     *)
(* process_execute its PCB, address bitmap and page directory.             *)
(***************************************************************************)
NoProc == [status |-> "none", pcb |-> None, bitmap |-> None, dir |-> None]
EmptyHeap == [arena |-> [v \in UPage |-> NoArena], free |-> << >>]

EmptyMem ==
  [bits  |-> [pool \in {"kernel", "user"} |-> {}],
   vaddr |-> [s \in Space |-> {}],
   pte   |-> [s \in Space |-> [v \in Pages(s) |-> None]],
   pde   |-> [p \in Proc |-> None],
   tlb   |-> {}, oom |-> FALSE, fault |-> FALSE]

BootPcb    == malloc_page(EmptyMem, kernel, 1)
BootBitmap == malloc_page(BootPcb.m, kernel, BitmapPages)
BootDir    == malloc_page(BootBitmap.m, kernel, 1)
BootMem ==
  MapPage([BootDir.m EXCEPT !.vaddr[init] = {stack_page}], init, stack_page).m

\* The machine has the memory to start its first process, which
\* process_execute does not test.
ASSUME BootAssumption ==
  ~BootMem.oom /\ None \notin {BootPcb.ret, BootBitmap.ret, BootDir.ret}

Init ==
  /\ mem = BootMem
  /\ heap = [p \in Proc |-> EmptyHeap]
  /\ proc = [p \in Proc |-> IF p # init THEN NoProc
                            ELSE [status |-> "alive", pcb |-> BootPcb.ret,
                                  bitmap |-> BootBitmap.ret, dir |-> BootDir.ret]]
  /\ cur = init
  /\ user_lock = None
  /\ asleep = {}
  /\ used = [p \in Proc |-> {}]
  /\ lost = {}

\* The running process is in its program.
Runs == ~mem.fault /\ cur \notin asleep

\* It can get user_pool.lock: nobody has it, or the process itself.
PoolOpen == Runs /\ user_lock \in {None, proc[cur].pcb}

\* A call that begins with lock_acquire: malloc, free, the first page of exec.
WaitForPool ==
  /\ Runs /\ ~PoolOpen
  /\ asleep' = asleep \cup {cur}
  /\ UNCHANGED << mem, heap, proc, cur, user_lock, used, lost >>

-----------------------------------------------------------------------------
(***************************************************************************)
(* The heap.  An arena's own field says that p made it since its fork.     *)
(* The desc pointer of an inherited arena points into the parent's PCB:    *)
(* to free one of its blocks would change the parent's list.  No program   *)
(* of the system does so, and the model's programs do not either.          *)
(***************************************************************************)
\* list_pop, and one free block less in its arena.
SmallBlock(p, arena, free) ==
  /\ heap' = [heap EXCEPT ![p] =
                [arena |-> [arena EXCEPT ![Head(free)[1]].cnt = @ - 1],
                 free  |-> Tail(free)]]
  /\ used' = [used EXCEPT ![p] = @ \cup {Head(free)}]

sys_malloc_small ==
  /\ PoolOpen
  /\ IF heap[cur].free # << >>
     THEN SmallBlock(cur, heap[cur].arena, heap[cur].free) /\ UNCHANGED mem
     ELSE LET a == malloc_page(mem, cur, 1) IN
          /\ mem' = a.m
          /\ IF a.ret = None
             THEN UNCHANGED << heap, used >>
             ELSE SmallBlock(cur,
                    [heap[cur].arena EXCEPT
                       ![a.ret] = [large |-> FALSE, cnt |-> BlocksPerArena, own |-> TRUE]],
                    [i \in 1 .. BlocksPerArena |-> << a.ret, i >>])
  /\ UNCHANGED << proc, cur, user_lock, asleep, lost >>

\* More than 1024 bytes: whole pages.
sys_malloc_large ==
  /\ PoolOpen
  /\ \E n \in LargeSizes :
       LET a == malloc_page(mem, cur, n) IN
       /\ mem' = a.m
       /\ IF a.ret = None
          THEN UNCHANGED << heap, used >>
          ELSE /\ heap' = [heap EXCEPT ![cur].arena[a.ret] =
                             [large |-> TRUE, cnt |-> n, own |-> TRUE]]
               /\ used' = [used EXCEPT ![cur] = @ \cup {<< a.ret, 1 >>}]
  /\ UNCHANGED << proc, cur, user_lock, asleep, lost >>

\* list_remove for each block on page v.
WithoutPage(free, v) ==
  LET kept[i \in 0 .. Len(free)] ==
        IF i = 0 THEN << >>
        ELSE IF free[i][1] = v THEN kept[i - 1]
        ELSE Append(kept[i - 1], free[i])
  IN kept[Len(free)]

\* The block goes to the back of the free list; when all blocks of its arena
\* are free they leave the list and the page is given back.
sys_free_small ==
  /\ PoolOpen
  /\ \E b \in used[cur] :
       LET v    == b[1]
           a    == heap[cur].arena[v]
           free == Append(heap[cur].free, b) IN
       /\ ~a.large /\ a.own
       /\ used' = [used EXCEPT ![cur] = @ \ {b}]
       /\ IF a.cnt + 1 < BlocksPerArena
          THEN /\ heap' = [heap EXCEPT ![cur] =
                              [arena |-> [heap[cur].arena EXCEPT ![v].cnt = @ + 1],
                               free  |-> free]]
               /\ UNCHANGED mem
          ELSE /\ heap' = [heap EXCEPT ![cur] =
                              [arena |-> [heap[cur].arena EXCEPT ![v] = NoArena],
                               free  |-> WithoutPage(free, v)]]
               /\ mem' = IF BlocksOf(v) \subseteq ToSet(free)
                         THEN mfree_page(mem, cur, v, 1)
                         ELSE [mem EXCEPT !.fault = TRUE]
  /\ UNCHANGED << proc, cur, user_lock, asleep, lost >>

sys_free_large ==
  /\ PoolOpen
  /\ \E b \in used[cur] :
       /\ heap[cur].arena[b[1]].large
       /\ mem' = mfree_page(mem, cur, b[1], heap[cur].arena[b[1]].cnt)
       /\ heap' = [heap EXCEPT ![cur].arena[b[1]] = NoArena]
       /\ used' = [used EXCEPT ![cur] = @ \ {b}]
  /\ UNCHANGED << proc, cur, user_lock, asleep, lost >>

-----------------------------------------------------------------------------
(***************************************************************************)
(* fork                                                                    *)
(***************************************************************************)
\* One request, unless an earlier one has failed.
Request(got, n) ==
  LET a == malloc_page(got.m, kernel, n)
  IN IF None \in ToSet(got.ret) THEN got
     ELSE [m |-> a.m, ret |-> Append(got.ret, a.ret)]

\* The kernel pages sys_fork asks for, in order: PCB, copy buffer, address
\* bitmap, page directory.  What it got before it fails stays allocated.
ForkPages(m) ==
  LET none == [m |-> m, ret |-> << >>]
  IN Request(Request(Request(Request(none, 1), 1), BitmapPages), 1)

\* A marked page v is copied through the buffer to a page of the child at the
\* same address.  If it is not mapped, or there is no frame, memcpy faults.
CopyPage(m, p, q, v) ==
  LET a == MapPage(m, q, v)
  IN IF v \notin m.vaddr[p] THEN m
     ELSE [a.m EXCEPT !.fault = @ \/ ~a.ok \/ v \notin Mapped(m, p)]

\* copy_body_stack3: the parent's address bitmap from its first bit to its
\* last.  CR3 is loaded for each page that is copied.
CopyBody(m, p, q) ==
  LET step[i \in 0 .. stack_page + 1] ==
        IF i = 0 THEN [m EXCEPT !.vaddr[q] = m.vaddr[p], !.tlb = {}]
        ELSE CopyPage(step[i - 1], p, q, i - 1)
  IN step[stack_page + 1]

\* Mutant of ChildHeap: block_desc_init is forgotten.
ChildHeap_KeepsLists(p) ==
  [heap[p] EXCEPT !.arena = [v \in UPage |-> [@[v] EXCEPT !.own = FALSE]]]

\* The arenas are copied with the pages, the child's free lists are empty.
ChildHeap(p) ==
  [arena |-> [v \in UPage |-> [heap[p].arena[v] EXCEPT !.own = FALSE]],
   free  |-> << >>]

\* The four pages are taken before the user pool's lock is met, for the first
\* page to be copied: the parent has one at least, its stack.  A process that
\* then sleeps for ever keeps the child's pages from everybody.
sys_fork(q) ==
  LET got   == ForkPages(mem)
      taken == got.m.vaddr[kernel] \ mem.vaddr[kernel] IN
  /\ Runs /\ proc[q].status = "none"
  /\ \/ /\ None \in ToSet(got.ret)
        /\ mem' = got.m
        /\ lost' = lost \cup taken
        /\ UNCHANGED << heap, proc, asleep, used >>
     \/ /\ None \notin ToSet(got.ret) /\ PoolOpen
        /\ mem' = LET copied == CopyBody(got.m, cur, q)
                  IN IF copied.fault THEN copied
                     ELSE mfree_page(copied, kernel, got.ret[2], 1)
        /\ proc' = [proc EXCEPT ![q] = [status |-> "alive", pcb |-> got.ret[1],
                                        bitmap |-> got.ret[3], dir |-> got.ret[4]]]
        /\ heap' = [heap EXCEPT ![q] = ChildHeap(cur)]
        /\ used' = [used EXCEPT ![q] = used[cur]]
        /\ UNCHANGED << asleep, lost >>
     \/ /\ None \notin ToSet(got.ret) /\ ~PoolOpen
        /\ mem' = [got.m EXCEPT !.tlb = {},
                                !.fault = @ \/ Min(mem.vaddr[cur]) \notin Mapped(mem, cur)]
        /\ lost' = lost \cup taken
        /\ asleep' = asleep \cup {cur}
        /\ UNCHANGED << heap, proc, used >>
  /\ UNCHANGED << cur, user_lock >>

\* segment_load gets the first code page unless the process has a page there.
\* When the user pool is empty get_a_page returns with the lock held.  The
\* disk is read before and after, so the process sleeps and CR3 is loaded.
sys_execv ==
  LET code  == Min(UPage)
      there == mem.pte[cur][code] # None
      a     == MapPage([mem EXCEPT !.vaddr[cur] = @ \cup {code}, !.tlb = {}], cur, code) IN
  /\ \/ /\ there /\ Runs
        /\ mem' = [mem EXCEPT !.tlb = {}]
        /\ UNCHANGED user_lock
     \/ /\ ~there /\ PoolOpen
        /\ mem' = a.m
        /\ user_lock' = IF a.ok THEN user_lock ELSE proc[cur].pcb
  /\ UNCHANGED << heap, proc, cur, asleep, used, lost >>

-----------------------------------------------------------------------------
(***************************************************************************)
(* exit and wait                                                           *)
(***************************************************************************)
\* Somebody else is given the cpu: CR3 is loaded and the TLB emptied.
RunNext(m) ==
  /\ cur' \in Alive \ (asleep \cup {cur})
  /\ mem' = [m EXCEPT !.tlb = {}]

\* All frames of the user half, the page table, and the address bitmap, whose
\* number of pages is rounded down here and up in fork.
release_prog_resource(p) ==
  mfree_page([mem EXCEPT !.bits["user"] = @ \ {mem.pte[p][v] : v \in Mapped(mem, p)},
                         !.bits["kernel"] = @ \ {mem.pde[p]}],
             kernel, proc[p].bitmap, BitmapPages - 1)

\* The process becomes HANGING and another one runs.
sys_exit ==
  /\ Runs /\ cur # init
  /\ RunNext(release_prog_resource(cur))
  /\ proc' = [proc EXCEPT ![cur].status = "hanging", ![cur].bitmap = None]
  /\ lost' = lost \cup {proc[cur].bitmap + BitmapPages - 1}
  /\ UNCHANGED << heap, user_lock, asleep, used >>

\* thread_exit(child, false): page directory and PCB are given back.
sys_wait(q) ==
  /\ Runs /\ proc[q].status = "hanging"
  /\ mem' = [mfree_page(mfree_page(mem, kernel, proc[q].dir, 1), kernel, proc[q].pcb, 1)
             EXCEPT !.pte[q] = EmptyMem.pte[q], !.pde[q] = None, !.vaddr[q] = {}]
  /\ proc' = [proc EXCEPT ![q] = NoProc]
  /\ heap' = [heap EXCEPT ![q] = EmptyHeap]
  /\ used' = [used EXCEPT ![q] = {}]
  /\ UNCHANGED << cur, user_lock, asleep, lost >>

Switch ==
  /\ ~mem.fault
  /\ RunNext(mem)
  /\ UNCHANGED << heap, proc, user_lock, asleep, used, lost >>

Next ==
  \/ sys_malloc_small \/ sys_malloc_large \/ sys_free_small \/ sys_free_large
  \/ (\E q \in Proc : sys_fork(q)) \/ sys_execv \/ sys_exit
  \/ (\E q \in Proc : sys_wait(q)) \/ WaitForPool \/ Switch

Spec == Init /\ [][Next]_vars

-----------------------------------------------------------------------------
(***************************************************************************)
(* Properties                                                              *)
(***************************************************************************)
TypeOK ==
  /\ MemTypeOK(mem)
  /\ heap \in [Proc -> [arena : [UPage -> Arena], free : Seq(Block)]]
  /\ proc \in [Proc -> [status : {"none", "alive", "hanging"},
                        pcb : KPage \cup {None}, bitmap : KPage \cup {None},
                        dir : KPage \cup {None}]]
  /\ cur \in Alive
  /\ user_lock \in KPage \cup {None}
  /\ asleep \subseteq Alive
  /\ used \in [Proc -> SUBSET Block]
  /\ lost \subseteq KPage

\* Who has which frame: kernel pages, pages of living processes, and their
\* page tables, which have no page number.
Holdings ==
  {<< kernel, v, mem.pte[kernel][v] >> : v \in Mapped(mem, kernel)}
    \cup (UNION {{<< p, v, mem.pte[p][v] >> : v \in Mapped(mem, p)} : p \in Alive})
    \cup {<< p, None, mem.pde[p] >> : p \in {q \in Alive : mem.pde[q] # None}}
Held == {h[3] : h \in Holdings}
Marked == mem.bits["kernel"] \cup mem.bits["user"]

\* No frame is given to two owners, and no frame in use is marked free, over
\* any sequence of fork, exec, exit, wait, malloc and free, also when an
\* allocation fails half way.
FramesHaveOneOwner ==
  ~mem.fault => /\ \A h1, h2 \in Holdings : h1[3] = h2[3] => h1 = h2
                /\ Held \subseteq Marked

\* Every marked frame has an owner, too: what a process had is free when it
\* is gone, however it got it.
NoFrameLost == ~mem.fault => Marked \subseteq Held

\* The pools: the three parts together.
FramesAccounted == TypeOK /\ FramesHaveOneOwner /\ NoFrameLost

\* Kernel pages in use are those of existing processes and those lost: by
\* forks that failed or sleep for ever over a lock that was left held, and by
\* the rounding in release_prog_resource, one per exit.
KernelPagesAccounted ==
  ~mem.fault =>
    mem.vaddr[kernel] =
      lost \cup (UNION {{proc[p].pcb, proc[p].dir} : p \in Exists})
           \cup (UNION {Run(proc[p].bitmap, BitmapPages) : p \in Alive})

\* The heap of a process: each block of an arena it made is either in its
\* free list or with the program, and the arena counts the free ones.  So a
\* block is never handed out twice and a page with used blocks never freed.
HeapConsistent ==
  ~mem.fault =>
    \A p \in Alive :
      LET free == ToSet(heap[p].free) IN
      /\ IsInjective(heap[p].free)
      /\ free \cap used[p] = {}
      /\ \A b \in free : heap[p].arena[b[1]].own /\ ~heap[p].arena[b[1]].large
      /\ \A v \in UPage :
           LET a == heap[p].arena[v] IN
           a.own /\ ~a.large => /\ a.cnt = Cardinality(free \cap BlocksOf(v))
                                /\ BlocksOf(v) \subseteq free \cup used[p]
                                /\ v \in Mapped(mem, p)

\* As long as no allocation has failed, marked addresses are mapped ones, the
\* kernel does not fault and the pool's lock is free between system calls.
\* (After a failure none of this holds: addresses stay marked, fork copies
\* pages that are not mapped, get_a_page keeps the lock.)
IntactUnlessExhausted ==
  ~mem.oom =>
    /\ ~mem.fault
    /\ \A p \in Alive : mem.vaddr[p] = Mapped(mem, p)
    /\ user_lock = None

\* page_table_pte_remove, "update the tlb": once a page is unmapped the
\* processor does not use its old translation for the page mapped there next.
TlbUpdated ==
  \A t \in mem.tlb : mem.pte[cur][t[1]] \in {None, t[2]}
=============================================================================
