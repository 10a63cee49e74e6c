----------------------------- MODULE MemoryProofs -----------------------------
(***************************************************************************)
(* Frames, pages and heaps for any number of processes, of pages and of    *)
(* frames, whether the memory suffices or not.                             *)
(***************************************************************************)
EXTENDS Memory, SequenceTheorems, FunctionTheorems, FiniteSetTheorems,
        WellFoundedInduction, TLAPS

-----------------------------------------------------------------------------
(***************************************************************************)
(* The inductive invariant.  A is the set of processes whose pages count:  *)
(* the living ones, and the child of a fork that is being copied.          *)
(***************************************************************************)
\* No frame has two owners.
KernelPagesApart(m) ==
  \A v, w \in KPage : m.pte[kernel][v] # None /\ m.pte[kernel][v] = m.pte[kernel][w] => v = w

UserPagesApart(m, A) ==
  \A p, q \in A : \A v, w \in UPage :
    m.pte[p][v] # None /\ m.pte[p][v] = m.pte[q][w] => p = q /\ v = w

TablesApart(m, A) ==
  \A p \in A : m.pde[p] # None =>
    /\ \A q \in A : m.pde[q] = m.pde[p] => q = p
    /\ \A v \in KPage : m.pte[kernel][v] # m.pde[p]

\* A frame is marked exactly if it has an owner.
KernelMarks(m, A) ==
  \A f \in KFrame : f \in m.bits["kernel"] <=> \/ \E v \in KPage : m.pte[kernel][v] = f
                                             \/ \E p \in A : m.pde[p] = f
UserMarks(m, A) ==
  \A f \in UFrame : f \in m.bits["user"] <=> \E p \in A : \E v \in UPage : m.pte[p][v] = f

FramesInv(m, A) ==
  /\ KernelPagesApart(m) /\ UserPagesApart(m, A) /\ TablesApart(m, A)
  /\ KernelMarks(m, A) /\ UserMarks(m, A)

\* A mapped page has a marked address.
Covered(m, A) == \A s \in A \cup {kernel} : Mapped(m, s) \subseteq m.vaddr[s]

MemInv(m, A) ==
  /\ MemTypeOK(m)
  /\ ~m.fault => FramesInv(m, A) /\ Covered(m, A)
  /\ ~m.oom => ~m.fault /\ \A s \in A \cup {kernel} : m.vaddr[s] \subseteq Mapped(m, s)

\* An address space that is not in use is empty.
UnusedEmpty ==
  \A p \in Proc : proc[p].status = "none" =>
    /\ mem.pte[p] = [v \in UPage |-> None]
    /\ mem.pde[p] = None /\ mem.vaddr[p] = {}

(***************************************************************************)
(* Kernel pages: what a process has is apart from what others have and     *)
(* from what is lost.                                                      *)
(***************************************************************************)
BitmapOf(p) == IF proc[p].status = "alive" THEN Run(proc[p].bitmap, BitmapPages) ELSE {}
KernelPagesOf(p) ==
  IF proc[p].status = "none" THEN {} ELSE {proc[p].pcb, proc[p].dir} \cup BitmapOf(p)

KPagesInv ==
  /\ lost \subseteq mem.vaddr[kernel]
  /\ \A p \in Proc : KernelPagesOf(p) \subseteq mem.vaddr[kernel]
  /\ \A k \in mem.vaddr[kernel] : k \in lost \/ \E p \in Proc : k \in KernelPagesOf(p)
  /\ \A p \in Proc : KernelPagesOf(p) \cap lost = {}
  /\ \A p, q \in Proc : p # q => KernelPagesOf(p) \cap KernelPagesOf(q) = {}
  /\ \A p \in Exists : proc[p].pcb # proc[p].dir
                       /\ {proc[p].pcb, proc[p].dir} \cap BitmapOf(p) = {}

(***************************************************************************)
(* The heap of one process, whose mapped pages are pages: what HeapConsis- *)
(* tent says, and which pages an arena or a block of the program is on.    *)
(***************************************************************************)
Small(a) == a.own /\ ~a.large

\* Small blocks: free and used ones, each arena's count, where they are.
BlocksApart(arena, free, u, pages) ==
  /\ free \cap u = {}
  /\ \A b \in free : Small(arena[b[1]])
  /\ \A v \in UPage : Small(arena[v]) =>
       /\ arena[v].cnt = Cardinality(free \cap BlocksOf(v))
       /\ BlocksOf(v) \subseteq free \cup u
       /\ v \in pages
  /\ \A b \in u : b[1] \in pages

\* Large blocks: their pages are their own.
RunsApart(arena, u, pages) ==
  \A v \in UPage : arena[v].large =>
    /\ Run(v, arena[v].cnt) \subseteq pages
    /\ \A w \in UPage : w # v /\ arena[w].large =>
         Run(v, arena[v].cnt) \cap Run(w, arena[w].cnt) = {}
    /\ \A w \in UPage : Small(arena[w]) => w \notin Run(v, arena[v].cnt)
    /\ \A b \in u : b[1] \in Run(v, arena[v].cnt) => b = << v, 1 >>

HeapInv(h, u, pages) ==
  /\ IsInjective(h.free)
  /\ BlocksApart(h.arena, ToSet(h.free), u, pages)
  /\ RunsApart(h.arena, u, pages)

IInv ==
  /\ TypeOK
  /\ MemInv(mem, Alive)
  /\ UnusedEmpty
  /\ ~mem.fault => KPagesInv
  /\ ~mem.fault => \A p \in Alive : HeapInv(heap[p], used[p], Mapped(mem, p))
  /\ ~mem.oom => user_lock = None

-----------------------------------------------------------------------------
(***************************************************************************)
(* Numbers                                                                 *)
(***************************************************************************)
(* The least of some numbers.                                              *)
LEMMA LeastOfNats ==
  ASSUME NEW S \in SUBSET Nat, S # {}
  PROVE  Min(S) \in S /\ \A n \in S : Min(S) <= n
<1>1. PICK n \in S : \A k \in S : ~(<< k, n >> \in OpToRel(<, Nat))
  BY NatLessThanWellFounded, WFMin
<1>2. \A k \in S : << k, n >> \in Nat \X Nat
  OBVIOUS
<1>3. \A k \in S : ~(k < n)
  BY <1>1, <1>2 DEF OpToRel
<1>4. \A k \in S : n <= k
  BY <1>3
<1>5. QED  BY <1>4 DEF Min

(* A finite set of numbers has a greatest.                                 *)
LEMMA GreatestOfFinite ==
  ASSUME NEW S \in SUBSET Nat, S # {}, IsFiniteSet(S)
  PROVE  Max(S) \in S /\ \A n \in S : n <= Max(S)
<1> DEFINE Bad(T) == T # {} /\ IsFiniteSet(T) /\ ~\E x \in T : \A y \in T : y <= x
           sizes == {n \in Nat : \E T \in SUBSET Nat : Bad(T) /\ Cardinality(T) = n}
<1>1. sizes = {}
  <2> SUFFICES ASSUME sizes # {} PROVE FALSE
    OBVIOUS
  <2>1. sizes \in SUBSET Nat
    OBVIOUS
  <2> HIDE DEF sizes
  <2>2. PICK n \in sizes : \A k \in sizes : n <= k
    BY <2>1, LeastOfNats
  <2> USE DEF sizes
  <2>3. PICK T \in SUBSET Nat : Bad(T) /\ Cardinality(T) = n
    BY <2>2
  <2>4. PICK x \in T : TRUE
    BY <2>3
  <2> DEFINE U == T \ {x}
  <2>5. IsFiniteSet(U) /\ Cardinality(U) = n - 1 /\ n \in Nat /\ n - 1 \in Nat
    <3>1. IsFiniteSet(T) /\ Cardinality(T) = n /\ n \in Nat
      BY <2>2, <2>3
    <3>2. IsFiniteSet(U) /\ Cardinality(U) = n - 1
      BY <3>1, <2>4, FS_RemoveElement
    <3>3. Cardinality(U) \in Nat
      BY <3>2, FS_CardinalityType
    <3>4. QED  BY <3>1, <3>2, <3>3
  <2>6. ~Bad(U)
    <3>1. n - 1 \notin sizes
      <4> HIDE DEF sizes
      <4>1. QED  BY <2>1, <2>2, <2>5
    <3>2. U \in SUBSET Nat
      BY <2>3
    <3>3. QED  BY <3>1, <3>2, <2>5
  <2>7. CASE U = {}
    BY <2>3, <2>4, <2>7
  <2>8. CASE U # {}
    <3>1. PICK y \in U : \A z \in U : z <= y
      BY <2>5, <2>6, <2>8
    <3>2. x \in Nat /\ y \in Nat /\ T = U \cup {x}
      BY <2>3, <2>4, <3>1
    <3>3. \E w \in T : \A z \in T : z <= w
      <4>1. CASE x <= y
        BY <3>1, <3>2, <4>1
      <4>2. CASE y < x
        BY <3>1, <3>2, <4>2
      <4>3. QED  BY <3>2, <4>1, <4>2
    <3>4. QED  BY <3>3, <2>3
  <2>9. QED  BY <2>7, <2>8
<1>2. ~Bad(S)
  BY <1>1, FS_CardinalityType
<1>3. \E x \in S : \A y \in S : x >= y
  BY <1>2
<1>4. QED  BY <1>3 DEF Max

(* What the constants are.                                                 *)
LEMMA Spaces ==
  /\ kernel \notin Proc /\ init \in Proc /\ kernel \in Space /\ Proc \subseteq Space
  /\ KPage \subseteq Nat /\ UPage \subseteq Nat /\ KFrame \subseteq Nat /\ UFrame \subseteq Nat
  /\ None \notin KPage \cup UPage \cup KFrame \cup UFrame
  /\ Pages(kernel) = KPage /\ Frames(kernel) = KFrame /\ PoolOf(kernel) = "kernel"
  /\ \A p \in Proc : Pages(p) = UPage /\ Frames(p) = UFrame /\ PoolOf(p) = "user" /\ p # kernel
  /\ KFrame \cap UFrame = {}
BY MemoryAssumption DEF Space, Pages, Frames, PoolOf, None

(* bitmap_scan finds clear bits if it finds any.                           *)
LEMMA ScanFinds ==
  ASSUME NEW S \in SUBSET Nat, NEW marked, NEW n \in Nat \ {0}
  PROVE  LET v == bitmap_scan(marked, S, n)
         IN v = None \/ (v \in S /\ v \in Nat /\ Run(v, n) \subseteq S \ marked)
<1> DEFINE starts == {v \in S : Run(v, n) \subseteq S \ marked}
<1>1. CASE starts = {}
  BY <1>1 DEF bitmap_scan
<1>2. CASE starts # {}
  <2>1. Min(starts) \in starts
    BY <1>2, LeastOfNats
  <2>2. bitmap_scan(marked, S, n) = Min(starts)
    BY <1>2 DEF bitmap_scan
  <2>3. QED  BY <2>1, <2>2
<1>3. QED  BY <1>1, <1>2

(* One page is a run of one.                                               *)
LEMMA RunOfOne == ASSUME NEW v \in Nat PROVE Run(v, 1) = {v}
BY DEF Run

-----------------------------------------------------------------------------
(***************************************************************************)
(* Pages                                                                   *)
(***************************************************************************)
MemRecord ==
  [bits  : [{"kernel", "user"} -> SUBSET (KFrame \cup UFrame)],
   vaddr : [Space -> SUBSET (KPage \cup UPage)],
   pte   : [Space -> [KPage -> KFrame \cup {None}] \cup [UPage -> UFrame \cup {None}]],
   pde   : [Proc -> KFrame \cup {None}],
   tlb   : SUBSET (UPage \X UFrame),
   oom   : BOOLEAN,
   fault : BOOLEAN]

(* What page_table_add does with a frame that is marked.                   *)
AddsPage(m, a, s, v, f) ==
  /\ a.vaddr = m.vaddr /\ a.tlb = m.tlb
  /\ \/ /\ a.pte = m.pte /\ a.pde = m.pde /\ a.bits = m.bits
        /\ a.oom /\ a.fault
     \/ /\ a.pte = [m.pte EXCEPT ![s][v] = f]
        /\ a.oom = m.oom
        /\ \/ /\ s = kernel \/ m.pde[s] # None
              /\ a.bits = m.bits /\ a.pde = m.pde
              /\ a.fault <=> m.fault \/ m.pte[s][v] # None
           \/ /\ s # kernel /\ m.pde[s] = None
              /\ \E t \in KFrame \ m.bits["kernel"] :
                   /\ a.bits = [m.bits EXCEPT !["kernel"] = @ \cup {t}]
                   /\ a.pde = [m.pde EXCEPT ![s] = t]
              /\ a.fault = m.fault

(* One more entry in the page tables of s.                                 *)
PageMap == [KPage -> KFrame \cup {None}] \cup [UPage -> UFrame \cup {None}]

(* Writing an entry of the own pool keeps the page tables typed.           *)
LEMMA PteTyped ==
  ASSUME NEW pte \in [Space -> PageMap], NEW s \in Space, NEW v \in Pages(s),
         NEW f \in Frames(s),
         \A r \in Space : pte[r] \in [Pages(r) -> Frames(r) \cup {None}]
  PROVE  LET new == [pte EXCEPT ![s][v] = f]
         IN /\ new \in [Space -> PageMap]
            /\ \A r \in Space : new[r] \in [Pages(r) -> Frames(r) \cup {None}]
<1> DEFINE new == [pte EXCEPT ![s][v] = f]
<1>1. new[s] \in [Pages(s) -> Frames(s) \cup {None}]
  OBVIOUS
<1>2. new[s] \in PageMap
  BY <1>1, Spaces DEF PageMap, Space
<1>3. QED  BY <1>1, <1>2

(* page_table_add enters the frame, with a page table if there is none, and*)
(* faults if the entry is taken.                                           *)
LEMMA AddKinds ==
  ASSUME NEW m, MemTypeOK(m), NEW s \in Space, NEW v \in Pages(s), NEW f \in Frames(s)
  PROVE  /\ AddsPage(m, page_table_add(m, s, v, f), s, v, f)
         /\ MemTypeOK(page_table_add(m, s, v, f))
<1> DEFINE a == page_table_add(m, s, v, f)
           table == bitmap_scan(m.bits["kernel"], KFrame, 1)
           new == [m.pte EXCEPT ![s][v] = f]
<1>1. m \in MemRecord
  BY DEF MemTypeOK, MemRecord
<1>2. /\ m.pte \in [Space -> PageMap]
      /\ \A r \in Space : m.pte[r] \in [Pages(r) -> Frames(r) \cup {None}]
  BY DEF MemTypeOK, PageMap
<1>3. table = None \/ (table \in KFrame /\ table \notin m.bits["kernel"])
  BY ScanFinds, RunOfOne, Spaces
<1>4. new \in [Space -> PageMap] /\ \A r \in Space : new[r] \in [Pages(r) -> Frames(r) \cup {None}]
  BY <1>2, PteTyped
<1> HIDE DEF table, new
<1>5. CASE s = kernel \/ m.pde[s] # None
  <2>1. a = [m EXCEPT !.pte = new, !.fault = @ \/ m.pte[s][v] # None]
    BY <1>1, <1>5 DEF page_table_add, new, MemRecord
  <2>2. /\ a.vaddr = m.vaddr /\ a.tlb = m.tlb /\ a.pde = m.pde /\ a.bits = m.bits
        /\ a.pte = new /\ a.oom = m.oom
    BY <1>1, <2>1 DEF MemRecord
  <2>3. (a.fault <=> m.fault \/ m.pte[s][v] # None) /\ a.fault \in BOOLEAN
    BY <1>1, <2>1 DEF MemRecord
  <2>4. a \in MemRecord
    BY <1>1, <1>4, <2>1 DEF MemRecord, PageMap
  <2>5. MemTypeOK(a)
    BY <1>4, <2>2, <2>4 DEF MemTypeOK, MemRecord
  <2>6. AddsPage(m, a, s, v, f)
    BY <1>5, <2>2, <2>3 DEF AddsPage, new
  <2>7. QED  BY <2>5, <2>6
<1>6. CASE ~(s = kernel \/ m.pde[s] # None) /\ table = None
  <2>1. a = [m EXCEPT !.oom = TRUE, !.fault = TRUE]
    BY <1>6 DEF page_table_add, table
  <2>2. QED  BY <1>1, <2>1 DEF AddsPage, MemTypeOK, MemRecord
<1>7. CASE ~(s = kernel \/ m.pde[s] # None) /\ table # None
  <2>1. s \in Proc /\ table \in KFrame \ m.bits["kernel"]
    BY <1>3, <1>7 DEF Space
  <2>2. a = [m EXCEPT !.pte = new, !.pde[s] = table, !.bits["kernel"] = @ \cup {table}]
    BY <1>1, <1>7 DEF page_table_add, table, new, MemRecord
  <2>3. /\ a.vaddr = m.vaddr /\ a.tlb = m.tlb /\ a.pde = [m.pde EXCEPT ![s] = table]
        /\ a.bits = [m.bits EXCEPT !["kernel"] = @ \cup {table}]
        /\ a.pte = new /\ a.oom = m.oom /\ a.fault = m.fault
    BY <1>1, <2>2 DEF MemRecord
  <2>4. /\ a.bits \in [{"kernel", "user"} -> SUBSET (KFrame \cup UFrame)]
        /\ a.pde \in [Proc -> KFrame \cup {None}]
    BY <1>1, <2>1, <2>3 DEF MemRecord
  <2>5. a \in MemRecord
    BY <1>1, <1>4, <2>2, <2>4 DEF MemRecord, PageMap
  <2>6. MemTypeOK(a)
    BY <1>1, <1>4, <2>1, <2>3, <2>5 DEF MemTypeOK, MemRecord
  <2>7. AddsPage(m, a, s, v, f)
    BY <1>7, <2>1, <2>3 DEF AddsPage, new
  <2>8. QED  BY <2>6, <2>7
<1>8. QED  BY <1>5, <1>6, <1>7

(* A free frame is put at a page of the kernel.                            *)
LEMMA KernelFrameTaken ==
  ASSUME NEW m, NEW a, NEW A \in SUBSET Proc, NEW v \in KPage,
         NEW f \in KFrame \ m.bits["kernel"],
         MemTypeOK(m), MemTypeOK(a), m.pte[kernel][v] = None,
         a.pte = [m.pte EXCEPT ![kernel][v] = f], a.pde = m.pde,
         a.bits["kernel"] = m.bits["kernel"] \cup {f},
         KernelPagesApart(m), TablesApart(m, A), KernelMarks(m, A)
  PROVE  KernelPagesApart(a) /\ TablesApart(a, A) /\ KernelMarks(a, A)
<1>1. f # None /\ kernel \in Space
  BY Spaces
<1>2. \A w \in KPage : a.pte[kernel][w] = IF w = v THEN f ELSE m.pte[kernel][w]
  BY <1>1, Spaces DEF MemTypeOK
<1>3. (\A w \in KPage : m.pte[kernel][w] # f) /\ (\A p \in A : m.pde[p] # f)
  BY DEF KernelMarks
<1>4. KernelPagesApart(a)
  BY <1>1, <1>2, <1>3 DEF KernelPagesApart
<1>5. TablesApart(a, A)
  BY <1>2, <1>3 DEF TablesApart
<1>6. KernelMarks(a, A)
  <2>1. ASSUME NEW g \in KFrame, g # f
        PROVE  (\E w \in KPage : a.pte[kernel][w] = g) <=> \E w \in KPage : m.pte[kernel][w] = g
    <3>1. g # None
      BY Spaces
    <3>2. QED  BY <1>2, <2>1, <3>1
  <2>2. QED  BY <1>2, <2>1 DEF KernelMarks
<1>7. QED  BY <1>4, <1>5, <1>6

(* A free frame becomes the page table of p.                               *)
LEMMA TableTaken ==
  ASSUME NEW m, NEW a, NEW A \in SUBSET Proc, NEW p \in A,
         NEW t \in KFrame \ m.bits["kernel"],
         MemTypeOK(m), m.pde[p] = None,
         a.pte[kernel] = m.pte[kernel], a.pde = [m.pde EXCEPT ![p] = t],
         a.bits["kernel"] = m.bits["kernel"] \cup {t},
         TablesApart(m, A), KernelMarks(m, A)
  PROVE  TablesApart(a, A) /\ KernelMarks(a, A)
<1>1. t # None
  BY Spaces
<1>2. \A q \in A : a.pde[q] = IF q = p THEN t ELSE m.pde[q]
  BY DEF MemTypeOK
<1>3. (\A w \in KPage : m.pte[kernel][w] # t) /\ (\A q \in A : m.pde[q] # t)
  BY DEF KernelMarks
<1>4. TablesApart(a, A)
  BY <1>1, <1>2, <1>3 DEF TablesApart
<1>5. KernelMarks(a, A)
  <2>1. ASSUME NEW f \in KFrame, f # t
        PROVE  (\E q \in A : a.pde[q] = f) <=> \E q \in A : m.pde[q] = f
    <3>1. f # None
      BY Spaces
    <3>2. QED  BY <1>2, <2>1, <3>1
  <2>2. QED  BY <1>2, <2>1 DEF KernelMarks
<1>6. QED  BY <1>4, <1>5

(* A free frame is put at a page of p.                                     *)
LEMMA UserFrameTaken ==
  ASSUME NEW m, NEW a, NEW A \in SUBSET Proc, NEW p \in A, NEW v \in UPage,
         NEW f \in UFrame \ m.bits["user"],
         MemTypeOK(m), m.pte[p][v] = None,
         a.pte = [m.pte EXCEPT ![p][v] = f],
         a.bits["user"] = m.bits["user"] \cup {f},
         UserPagesApart(m, A), UserMarks(m, A)
  PROVE  UserPagesApart(a, A) /\ UserMarks(a, A)
<1>1. f # None /\ A \subseteq Space
  BY Spaces
<1>2. \A q \in A : \A w \in UPage :
        a.pte[q][w] = IF q = p /\ w = v THEN f ELSE m.pte[q][w]
  BY <1>1, Spaces DEF MemTypeOK
<1>3. \A q \in A : \A w \in UPage : m.pte[q][w] # f
  BY DEF UserMarks
<1>4. UserPagesApart(a, A)
  BY <1>1, <1>2, <1>3 DEF UserPagesApart
<1>5. UserMarks(a, A)
  <2>1. ASSUME NEW g \in UFrame, g # f
        PROVE  (\E q \in A : \E w \in UPage : a.pte[q][w] = g)
                 <=> \E q \in A : \E w \in UPage : m.pte[q][w] = g
    <3>1. g # None
      BY Spaces
    <3>2. QED  BY <1>2, <2>1, <3>1
  <2>2. QED  BY <1>2, <2>1 DEF UserMarks
<1>6. QED  BY <1>4, <1>5

(* What is not changed keeps its owners.                                   *)
LEMMA KernelSame ==
  ASSUME NEW m, NEW a, NEW A, a.pte[kernel] = m.pte[kernel], a.pde = m.pde,
         a.bits["kernel"] = m.bits["kernel"]
  PROVE  /\ KernelPagesApart(m) => KernelPagesApart(a)
         /\ TablesApart(m, A) => TablesApart(a, A)
         /\ KernelMarks(m, A) => KernelMarks(a, A)
BY DEF KernelPagesApart, TablesApart, KernelMarks

(* The same for the pages of the processes.                                *)
LEMMA UserSame ==
  ASSUME NEW m, NEW a, NEW A, \A p \in A : a.pte[p] = m.pte[p], a.bits["user"] = m.bits["user"]
  PROVE  /\ UserPagesApart(m, A) => UserPagesApart(a, A)
         /\ UserMarks(m, A) => UserMarks(a, A)
BY DEF UserPagesApart, UserMarks

(***************************************************************************)
(* What MapPage changes, seen from outside: at most the entry of the page, *)
(* which is there afterwards unless memory is exhausted.                   *)
(***************************************************************************)
Maps(m, r, s, v) ==
  /\ r.m.vaddr = m.vaddr /\ r.m.tlb = m.tlb
  /\ \A t \in Space : t # s => r.m.pte[t] = m.pte[t]
  /\ \A t \in Proc : t # s => r.m.pde[t] = m.pde[t]
  /\ \A w \in Pages(s) : w # v => r.m.pte[s][w] = m.pte[s][w]
  /\ m.pte[s][v] # None => r.m.pte[s][v] # None
  /\ r.m.pte[s][v] # None \/ ~r.ok \/ r.m.fault
  /\ (m.oom => r.m.oom) /\ (m.fault => r.m.fault)
  /\ ~r.ok => r.m.oom
  /\ m.pte[s][v] = None /\ r.m.fault => m.fault \/ r.m.oom

\* A bit is set and nothing else happens.
Marks(m, m1, pool, f) ==
  /\ m1.bits = [m.bits EXCEPT ![pool] = @ \cup {f}]
  /\ m1.vaddr = m.vaddr /\ m1.pte = m.pte /\ m1.pde = m.pde /\ m1.tlb = m.tlb
  /\ m1.oom = m.oom /\ m1.fault = m.fault

(* The two outcomes of MapPage.                                            *)
LEMMA MapKinds ==
  ASSUME NEW m, MemTypeOK(m), NEW s \in Space, NEW v \in Pages(s)
  PROVE  \/ MapPage(m, s, v) = [m |-> [m EXCEPT !.oom = TRUE], ok |-> FALSE]
         \/ \E f \in Frames(s) \ m.bits[PoolOf(s)] :
            \E m1 \in MemRecord : Marks(m, m1, PoolOf(s), f) /\ MemTypeOK(m1)
              /\ MapPage(m, s, v) = [m |-> page_table_add(m1, s, v, f), ok |-> TRUE]
<1> DEFINE f == bitmap_scan(m.bits[PoolOf(s)], Frames(s), 1)
<1>1. f = None \/ (f \in Frames(s) /\ f \notin m.bits[PoolOf(s)])
  <2>1. Frames(s) \in SUBSET Nat
    BY Spaces DEF Space
  <2>2. QED  BY <2>1, ScanFinds, RunOfOne
<1> HIDE DEF f
<1>2. CASE f = None
  BY <1>2 DEF MapPage, f
<1>3. CASE f # None
  <2> DEFINE m1 == [m EXCEPT !.bits[PoolOf(s)] = @ \cup {f}]
  <2>1. MapPage(m, s, v) = [m |-> page_table_add(m1, s, v, f), ok |-> TRUE]
    BY <1>3 DEF MapPage, f
  <2>2. m \in MemRecord
    BY DEF MemTypeOK, MemRecord
  <2>3. /\ m1.bits = [m.bits EXCEPT ![PoolOf(s)] = @ \cup {f}]
        /\ m1.vaddr = m.vaddr /\ m1.pte = m.pte /\ m1.pde = m.pde /\ m1.tlb = m.tlb
        /\ m1.oom = m.oom /\ m1.fault = m.fault
    BY <2>2 DEF MemRecord
  <2>4. /\ m1.bits \in [{"kernel", "user"} -> SUBSET (KFrame \cup UFrame)]
        /\ m1.bits["kernel"] \subseteq KFrame /\ m1.bits["user"] \subseteq UFrame
    BY <1>1, <1>3, <2>2, <2>3, Spaces DEF MemRecord, MemTypeOK, Space
  <2>5. m1 \in MemRecord
    BY <2>2, <2>4 DEF MemRecord
  <2>6. MemTypeOK(m1)
    <3>1. \A t \in Space : /\ m.vaddr[t] \subseteq Pages(t)
                           /\ m.pte[t] \in [Pages(t) -> Frames(t) \cup {None}]
      BY DEF MemTypeOK
    <3>2. m1 \in MemRecord /\ m1.vaddr = m.vaddr /\ m1.pte = m.pte
      BY <2>3, <2>5
    <3> HIDE DEF m1
    <3>3. QED  BY <2>4, <3>1, <3>2 DEF MemTypeOK, MemRecord
  <2>7. Marks(m, m1, PoolOf(s), f)
    BY <2>3 DEF Marks
  <2> HIDE DEF m1
  <2>8. QED  BY <1>1, <1>3, <2>1, <2>5, <2>6, <2>7
<1>4. QED  BY <1>2, <1>3

(* MapPage maps the page, or changes nothing but oom when the pool is      *)
(* empty.                                                                  *)
LEMMA MapStep ==
  ASSUME NEW m, MemTypeOK(m), NEW s \in Space, NEW v \in Pages(s),
         NEW r, r = MapPage(m, s, v)
  PROVE  /\ r = [m |-> r.m, ok |-> r.ok] /\ r.ok \in BOOLEAN
         /\ MemTypeOK(r.m) /\ Maps(m, r, s, v)
<1>1. m \in MemRecord
  BY DEF MemTypeOK, MemRecord
<1>2. CASE r = [m |-> [m EXCEPT !.oom = TRUE], ok |-> FALSE]
  <2>0. r.m = [m EXCEPT !.oom = TRUE] /\ r.ok = FALSE
    BY <1>2
  <2>1. /\ r.m.vaddr = m.vaddr /\ r.m.tlb = m.tlb /\ r.m.pte = m.pte /\ r.m.oom
        /\ r.m.fault = m.fault /\ ~r.ok /\ r.m.bits = m.bits /\ r.m.pde = m.pde
        /\ r.m \in MemRecord
    BY <1>1, <2>0 DEF MemRecord
  <2>2. MemTypeOK(r.m)
    BY <2>1 DEF MemTypeOK, MemRecord
  <2>3. Maps(m, r, s, v)
    BY <2>1 DEF Maps
  <2>4. QED  BY <1>2, <2>2, <2>3
<1>3. ASSUME NEW f \in Frames(s) \ m.bits[PoolOf(s)], NEW m1 \in MemRecord,
             Marks(m, m1, PoolOf(s), f), MemTypeOK(m1),
             r = [m |-> page_table_add(m1, s, v, f), ok |-> TRUE]
      PROVE  /\ r = [m |-> r.m, ok |-> r.ok] /\ r.ok \in BOOLEAN
             /\ MemTypeOK(r.m) /\ Maps(m, r, s, v)
  <2>0. /\ m1.vaddr = m.vaddr /\ m1.pte = m.pte /\ m1.tlb = m.tlb /\ m1.oom = m.oom
        /\ m1.fault = m.fault /\ m1.pde = m.pde
    BY <1>3 DEF Marks
  <2>1. r.m = page_table_add(m1, s, v, f) /\ r.ok
    BY <1>3
  <2>2. MemTypeOK(r.m) /\ AddsPage(m1, r.m, s, v, f)
    BY <1>3, <2>1, AddKinds
  <2>3. f # None
    BY Spaces DEF Space
  <2>4. /\ m.pte \in [Space -> PageMap]
        /\ m.pte[s] \in [Pages(s) -> Frames(s) \cup {None}]
    BY DEF MemTypeOK, PageMap
  <2>5. Maps(m, r, s, v)
    <3>0. \A t \in Proc : t # s => r.m.pde[t] = m.pde[t]
      <4>1. r.m.pde = m.pde \/ \E t \in KFrame : r.m.pde = [m.pde EXCEPT ![s] = t]
        BY <2>0, <2>2 DEF AddsPage
      <4>2. m.pde \in [Proc -> KFrame \cup {None}]
        BY <1>1 DEF MemRecord
      <4>3. QED  BY <4>1, <4>2
    <3>1. CASE r.m.pte = m.pte /\ r.m.oom /\ r.m.fault
      BY <2>0, <2>1, <2>2, <3>0, <3>1 DEF Maps, AddsPage
    <3>2. CASE r.m.pte = [m.pte EXCEPT ![s][v] = f] /\ r.m.oom = m.oom
      <4>1. /\ \A t \in Space : t # s => r.m.pte[t] = m.pte[t]
            /\ \A w \in Pages(s) : w # v => r.m.pte[s][w] = m.pte[s][w]
            /\ r.m.pte[s][v] # None
        BY <2>3, <2>4, <3>2
      <4>2. /\ m.fault => r.m.fault
            /\ m.pte[s][v] = None /\ r.m.fault => m.fault \/ r.m.oom
        BY <2>0, <2>2 DEF AddsPage
      <4>3. QED  BY <2>0, <2>1, <2>2, <3>0, <3>2, <4>1, <4>2 DEF Maps, AddsPage
    <3>3. QED  BY <2>0, <2>2, <3>1, <3>2 DEF AddsPage
  <2>6. QED  BY <1>3, <2>1, <2>2, <2>5
<1>4. QED
  <2>1. \/ r = [m |-> [m EXCEPT !.oom = TRUE], ok |-> FALSE]
        \/ \E f \in Frames(s) \ m.bits[PoolOf(s)] :
             \E m1 \in MemRecord : Marks(m, m1, PoolOf(s), f) /\ MemTypeOK(m1)
              /\ r = [m |-> page_table_add(m1, s, v, f), ok |-> TRUE]
    BY MapKinds
  <2>2. QED  BY <1>2, <1>3, <2>1

(* MapPage keeps the accounts of the frames, unless the kernel faults.     *)
LEMMA MapFrames ==
  ASSUME NEW m, MemTypeOK(m), NEW A \in SUBSET Proc, NEW s \in A \cup {kernel},
         NEW v \in Pages(s), NEW r, r = MapPage(m, s, v),
         m.pte[s][v] = None, FramesInv(m, A), ~r.m.fault
  PROVE  FramesInv(r.m, A)
<1>1. s \in Space
  BY DEF Space
<1>2. m \in MemRecord /\ MemTypeOK(r.m)
  BY <1>1, MapStep DEF MemTypeOK, MemRecord
<1>3. CASE r = [m |-> [m EXCEPT !.oom = TRUE], ok |-> FALSE]
  <2>1. r.m = [m EXCEPT !.oom = TRUE]
    BY <1>3
  <2>2. r.m.bits = m.bits /\ r.m.pte = m.pte /\ r.m.pde = m.pde
    BY <1>2, <2>1 DEF MemRecord
  <2>3. QED  BY <2>2, KernelSame, UserSame DEF FramesInv
<1>4. ASSUME NEW f \in Frames(s) \ m.bits[PoolOf(s)], NEW m1 \in MemRecord,
             Marks(m, m1, PoolOf(s), f), MemTypeOK(m1),
             r = [m |-> page_table_add(m1, s, v, f), ok |-> TRUE]
      PROVE  FramesInv(r.m, A)
  <2> DEFINE a == r.m
  <2>1. a = page_table_add(m1, s, v, f) /\ MemTypeOK(a)
    BY <1>2, <1>4
  <2>2. AddsPage(m1, a, s, v, f)
    BY <1>1, <1>4, <2>1, AddKinds
  <2>3. m1.pte = m.pte /\ m1.pde = m.pde /\ m1.bits = [m.bits EXCEPT ![PoolOf(s)] = @ \cup {f}]
    BY <1>4 DEF Marks
  <2> HIDE DEF a
  <2>4. a.pte = [m.pte EXCEPT ![s][v] = f]
    BY <2>2, <2>3 DEF AddsPage, a
  <2>5. CASE s = kernel
    <3>1. a.pde = m.pde /\ a.bits = [m.bits EXCEPT !["kernel"] = @ \cup {f}]
      BY <2>2, <2>3, <2>5, Spaces DEF AddsPage, a
    <3>2. a.bits["kernel"] = m.bits["kernel"] \cup {f} /\ a.bits["user"] = m.bits["user"]
      BY <1>2, <3>1 DEF MemRecord
    <3>3. v \in KPage /\ f \in KFrame \ m.bits["kernel"]
      BY <2>5, Spaces
    <3>4. KernelPagesApart(a) /\ TablesApart(a, A) /\ KernelMarks(a, A)
      BY <2>1, <2>4, <2>5, <3>1, <3>2, <3>3, KernelFrameTaken DEF FramesInv
    <3>5. \A p \in A : a.pte[p] = m.pte[p]
      BY <1>2, <2>4, <2>5, Spaces DEF MemRecord
    <3>6. UserPagesApart(a, A) /\ UserMarks(a, A)
      BY <3>2, <3>5, UserSame DEF FramesInv
    <3>7. QED  BY <3>4, <3>6 DEF FramesInv, a
  <2>6. CASE s # kernel
    <3>1. s \in A /\ s \in Proc /\ v \in UPage /\ f \in UFrame \ m.bits["user"] /\ PoolOf(s) = "user"
      BY <2>6, Spaces
    <3>2. m1.bits["kernel"] = m.bits["kernel"] /\ m1.bits["user"] = m.bits["user"] \cup {f}
      BY <1>2, <2>3, <3>1 DEF MemRecord
    <3>3. a.bits["user"] = m.bits["user"] \cup {f}
      BY <1>4, <2>2, <3>2 DEF AddsPage, MemRecord, a
    <3>4. UserPagesApart(a, A) /\ UserMarks(a, A)
      BY <2>4, <3>1, <3>3, UserFrameTaken DEF FramesInv
    <3>5. a.pte[kernel] = m.pte[kernel]
      BY <1>2, <2>4, <2>6, Spaces DEF MemRecord
    <3>6. CASE a.pde = m.pde /\ a.bits["kernel"] = m.bits["kernel"]
      BY <3>4, <3>5, <3>6, KernelSame DEF FramesInv, a
    <3>7. ASSUME NEW t \in KFrame \ m.bits["kernel"], m.pde[s] = None,
                 a.bits["kernel"] = m.bits["kernel"] \cup {t}, a.pde = [m.pde EXCEPT ![s] = t]
          PROVE  FramesInv(a, A)
      <4>1. TablesApart(a, A) /\ KernelMarks(a, A)
        BY <3>1, <3>5, <3>7, TableTaken DEF FramesInv
      <4>2. KernelPagesApart(a)
        BY <3>5 DEF KernelPagesApart, FramesInv
      <4>3. QED  BY <3>4, <4>1, <4>2 DEF FramesInv
    <3>8. CASE \E t \in KFrame \ m1.bits["kernel"] :
                   /\ a.bits = [m1.bits EXCEPT !["kernel"] = @ \cup {t}]
                   /\ a.pde = [m1.pde EXCEPT ![s] = t] /\ m1.pde[s] = None
      BY <1>4, <2>3, <3>2, <3>7, <3>8 DEF a, MemRecord
    <3>9. QED  BY <2>2, <2>3, <2>6, <3>2, <3>6, <3>8 DEF AddsPage, a
  <2>7. QED  BY <2>5, <2>6
<1>5. QED  BY <1>1, <1>3, <1>4, MapKinds

(* Induction up to n, on a set of numbers.                                 *)
Climbs(T, n) == 0 \in T /\ \A i \in 1 .. n : i - 1 \in T => i \in T

(* What holds of 0 and goes from each number to the next holds up to n.    *)
LEMMA UpTo ==
  ASSUME NEW n \in Nat, NEW T, Climbs(T, n)
  PROVE  \A i \in 0 .. n : i \in T
<1> DEFINE bad == {i \in 0 .. n : i \notin T}
<1>1. bad = {}
  <2> SUFFICES ASSUME bad # {} PROVE FALSE
    OBVIOUS
  <2>1. bad \in SUBSET Nat
    OBVIOUS
  <2> HIDE DEF bad
  <2>2. PICK k \in bad : \A i \in bad : k <= i
    BY <2>1, LeastOfNats
  <2> USE DEF bad
  <2>3. k \in 1 .. n
    BY <2>2 DEF Climbs
  <2>4. k - 1 \notin bad
    BY <2>2, <2>3
  <2>5. QED  BY <2>2, <2>3, <2>4 DEF Climbs
<1>2. QED  BY <1>1

(* A function defined step by step on 0 .. n exists.                       *)
Follows(f, a, F, n) == f[0] = a /\ \A i \in 1 .. n : f[i] = F[i][f[i - 1]]

(* So that the loops of the code, which the model writes as recursive      *)
(* functions, have a value at each step.                                   *)
LEMMA Recursion ==
  ASSUME NEW n \in Nat, NEW V, NEW a \in V, NEW F \in [1 .. n -> [V -> V]]
  PROVE  \E f \in [0 .. n -> V] : Follows(f, a, F, n)
<1> DEFINE Good(k, g) == Follows(g, a, F, k)
           T == {k \in 0 .. n : \E g \in [0 .. k -> V] : Good(k, g)}
<1>1. 0 \in T
  <2> DEFINE g == [i \in 0 .. 0 |-> a]
  <2>1. g \in [0 .. 0 -> V]
    OBVIOUS
  <2>2. Good(0, g)
    BY DEF Follows
  <2> HIDE DEF g
  <2>3. \E h \in [0 .. 0 -> V] : Good(0, h)
    BY <2>1, <2>2
  <2>4. 0 \in 0 .. n
    OBVIOUS
  <2>5. QED  BY <2>3, <2>4
<1>2. ASSUME NEW k \in 1 .. n, k - 1 \in T PROVE k \in T
  <2>1. PICK g \in [0 .. k - 1 -> V] : Good(k - 1, g)
    BY <1>2
  <2> DEFINE last == F[k][g[k - 1]]
             h == [i \in 0 .. k |-> IF i = k THEN last ELSE g[i]]
  <2>2. last \in V /\ h \in [0 .. k -> V]
    OBVIOUS
  <2>3. \A i \in 0 .. k - 1 : h[i] = g[i]
    OBVIOUS
  <2>4. h[k] = last
    OBVIOUS
  <2> HIDE DEF h
  <2>5. \A i \in 1 .. k : h[i] = F[i][h[i - 1]]
    <3>1. ASSUME NEW i \in 1 .. k PROVE h[i] = F[i][h[i - 1]]
      <4>1. h[i - 1] = g[i - 1]
        BY <2>3
      <4>2. CASE i = k
        BY <2>4, <4>1, <4>2
      <4>3. CASE i # k
        <5>1. i \in 1 .. k - 1 /\ h[i] = g[i]
          BY <2>3, <4>3
        <5>2. QED  BY <2>1, <4>1, <5>1 DEF Follows
      <4>4. QED  BY <4>2, <4>3
    <3>2. QED  BY <3>1
  <2>6. h[0] = a
    BY <2>1, <2>3 DEF Follows
  <2>7. Good(k, h)
    BY <2>5, <2>6 DEF Follows
  <2>8. k \in 0 .. n
    OBVIOUS
  <2> HIDE DEF Good
  <2>9. QED  BY <2>2, <2>7, <2>8
<1> HIDE DEF T
<1>3. n \in T
  <2>1. Climbs(T, n)
    BY <1>1, <1>2 DEF Climbs
  <2>2. QED  BY <2>1, UpTo
<1>4. QED  BY <1>3 DEF T

-----------------------------------------------------------------------------
(***************************************************************************)
(* Runs of pages                                                           *)
(***************************************************************************)
Memories == {m \in MemRecord : MemTypeOK(m)}

(* The loop of malloc_page is a sequence of memories, each made by MapPage *)
(* from the one before it, until one fails.                                *)
LEMMA RunSteps ==
  ASSUME NEW m, MemTypeOK(m), NEW s \in Space, NEW n \in Nat, NEW start \in Nat,
         Run(start, n) \subseteq Pages(s)
  PROVE  \E step \in [0 .. n -> [m : Memories, ok : BOOLEAN]] :
           /\ step[0] = [m |-> m, ok |-> TRUE]
           /\ \A i \in 1 .. n : step[i] = IF step[i - 1].ok
                                         THEN MapPage(step[i - 1].m, s, start + i - 1)
                                         ELSE step[i - 1]
           /\ MapRun(m, s, start, n) = step[n]
<1> DEFINE V == [m : Memories, ok : BOOLEAN]
           Go(x, i) == IF x.ok THEN MapPage(x.m, s, start + i - 1) ELSE x
           F == [i \in 1 .. n |-> [x \in V |-> Go(x, i)]]
           Body(f) == [i \in 0 .. n |-> IF i = 0 THEN [m |-> m, ok |-> TRUE]
                                       ELSE IF f[i - 1].ok
                                            THEN MapPage(f[i - 1].m, s, start + i - 1)
                                       ELSE f[i - 1]]
<1>1. [m |-> m, ok |-> TRUE] \in V
  BY DEF Memories, MemTypeOK, MemRecord
<1>2. F \in [1 .. n -> [V -> V]]
  <2>1. ASSUME NEW i \in 1 .. n, NEW x \in V, x.ok
        PROVE  MapPage(x.m, s, start + i - 1) \in V
    <3>1. start + i - 1 \in Pages(s)
      BY DEF Run
    <3>2. PICK r : r = MapPage(x.m, s, start + i - 1)
      OBVIOUS
    <3>3. MemTypeOK(x.m)
      BY DEF Memories
    <3>4. r = [m |-> r.m, ok |-> r.ok] /\ r.ok \in BOOLEAN /\ MemTypeOK(r.m)
      BY <3>1, <3>2, <3>3, MapStep
    <3>5. r.m \in Memories
      BY <3>4 DEF Memories, MemTypeOK, MemRecord
    <3>6. QED  BY <3>2, <3>4, <3>5
  <2>2. QED  BY <2>1
<1> HIDE DEF V
<1>3. \A i \in 1 .. n : \A x \in V : F[i][x] = Go(x, i)
  OBVIOUS
<1> HIDE DEF F
<1>4. PICK f \in [0 .. n -> V] : Follows(f, [m |-> m, ok |-> TRUE], F, n)
  BY <1>1, <1>2, Recursion
<1>5. f[0] = [m |-> m, ok |-> TRUE] /\ \A i \in 1 .. n : f[i] = Go(f[i - 1], i)
  BY <1>3, <1>4 DEF Follows
<1>6. f = Body(f)
  BY <1>5
<1> DEFINE step == CHOOSE g : g = Body(g)
<1>7. step = Body(step)
  <2> HIDE DEF Body
  <2>1. QED  BY <1>6
<1>8. MapRun(m, s, start, n) = step[n]
  BY DEF MapRun
<1> HIDE DEF step
<1>9. step[0] = [m |-> m, ok |-> TRUE] /\ \A i \in 1 .. n : step[i] = Go(step[i - 1], i)
  BY <1>7
<1>10. step \in [0 .. n -> V]
  <2> DEFINE T == {i \in 0 .. n : step[i] \in V}
  <2>1. 0 \in T
    BY <1>1, <1>9
  <2>2. ASSUME NEW i \in 1 .. n, i - 1 \in T PROVE i \in T
    <3>1. step[i - 1] \in V
      BY <2>2
    <3>2. F[i][step[i - 1]] \in V
      BY <1>2, <3>1
    <3>3. step[i] = F[i][step[i - 1]]
      BY <1>3, <1>9, <3>1
    <3>4. QED  BY <3>2, <3>3
  <2> HIDE DEF T
  <2>3. Climbs(T, n)
    BY <2>1, <2>2 DEF Climbs
  <2>4. \A i \in 0 .. n : step[i] \in V
    BY <2>3, UpTo DEF T
  <2>5. step = [i \in 0 .. n |-> step[i]]
    BY <1>7
  <2>6. QED  BY <2>4, <2>5
<1>11. QED
  BY <1>8, <1>9, <1>10 DEF V

(* The pages of s that an allocation may map, and what it leaves alone.    *)
Gains(m, a, s, W) ==
  /\ \A t \in Space : t # s => a.pte[t] = m.pte[t]
  /\ \A t \in Proc : t # s => a.pde[t] = m.pde[t]
  /\ \A w \in Pages(s) : w \notin W => a.pte[s][w] = m.pte[s][w]
  /\ \A w \in Pages(s) : m.pte[s][w] # None => a.pte[s][w] # None
  /\ (m.oom => a.oom) /\ (m.fault => a.fault) /\ (a.fault => m.fault \/ a.oom)

\* Pages that may be mapped without a fault.
Clear(m, s, W) == m.fault \/ \A w \in W : m.pte[s][w] = None

\* What is true of MapRun after i pages.
RunDone(m, x, s, start, i) ==
  /\ Gains(m, x.m, s, Run(start, i)) /\ x.m.vaddr = m.vaddr
  /\ x.ok /\ ~x.m.fault => Run(start, i) \subseteq Mapped(x.m, s)
  /\ ~x.ok => x.m.oom

(* One pass of that loop maps one page more.                               *)
LEMMA RunGrows ==
  ASSUME NEW m, NEW s \in Space, NEW n \in Nat, NEW start \in Nat, NEW i \in 1 .. n,
         Run(start, n) \subseteq Pages(s), Clear(m, s, Run(start, n)),
         NEW x, MemTypeOK(x.m), RunDone(m, x, s, start, i - 1), x.ok,
         NEW y, y = MapPage(x.m, s, start + i - 1)
  PROVE  RunDone(m, y, s, start, i) /\ (x.m.fault \/ x.m.pte[s][start + i - 1] = None)
<1> DEFINE v == start + i - 1
<1>1. v \in Run(start, n) /\ v \in Pages(s) /\ v \notin Run(start, i - 1)
  BY DEF Run
<1>2. Run(start, i) = Run(start, i - 1) \cup {v}
  BY DEF Run
<1> HIDE DEF v
<1>3. Maps(x.m, y, s, v)
  BY <1>1, MapStep DEF v
<1>4. x.m.fault \/ x.m.pte[s][v] = None
  BY <1>1 DEF Clear, RunDone, Gains
<1>5. Gains(m, y.m, s, Run(start, i)) /\ y.m.vaddr = m.vaddr
  <2>1. /\ \A t \in Space : t # s => y.m.pte[t] = m.pte[t]
        /\ \A t \in Proc : t # s => y.m.pde[t] = m.pde[t]
    BY <1>3 DEF Maps, RunDone, Gains
  <2>2. \A w \in Pages(s) : w \notin Run(start, i) => y.m.pte[s][w] = m.pte[s][w]
    BY <1>2, <1>3 DEF Maps, RunDone, Gains
  <2>3. \A w \in Pages(s) : m.pte[s][w] # None => y.m.pte[s][w] # None
    BY <1>3 DEF Maps, RunDone, Gains
  <2>4. /\ m.oom => y.m.oom
        /\ m.fault => y.m.fault
        /\ y.m.fault => m.fault \/ y.m.oom
    BY <1>3, <1>4 DEF Maps, RunDone, Gains
  <2>5. y.m.vaddr = m.vaddr
    BY <1>3 DEF Maps, RunDone
  <2>6. QED  BY <2>1, <2>2, <2>3, <2>4, <2>5 DEF Gains
<1>6. y.ok /\ ~y.m.fault => Run(start, i) \subseteq Mapped(y.m, s)
  <2> SUFFICES ASSUME y.ok, ~y.m.fault, NEW w \in Run(start, i)
               PROVE  w \in Mapped(y.m, s)
    OBVIOUS
  <2>1. w \in Pages(s)
    BY DEF Run
  <2>2. CASE w = v
    BY <1>1, <1>3, <2>2 DEF Maps, Mapped
  <2>3. CASE w # v
    <3>1. w \in Mapped(x.m, s)
      BY <1>2, <1>3, <2>3 DEF RunDone, Maps
    <3>2. QED  BY <1>3, <2>1, <2>3, <3>1 DEF Maps, Mapped
  <2>4. QED  BY <2>2, <2>3
<1>7. ~y.ok => y.m.oom
  BY <1>3 DEF Maps
<1>8. QED  BY <1>4, <1>5, <1>6, <1>7 DEF RunDone, v

(* MapRun: every page is mapped, or memory is exhausted; the accounts of   *)
(* the frames are kept.                                                    *)
LEMMA RunMaps ==
  ASSUME NEW m, MemTypeOK(m), NEW A \in SUBSET Proc, NEW s \in A \cup {kernel},
         NEW n \in Nat, NEW start \in Nat, Run(start, n) \subseteq Pages(s),
         Clear(m, s, Run(start, n)), m.fault \/ FramesInv(m, A),
         NEW r, r = MapRun(m, s, start, n)
  PROVE  /\ MemTypeOK(r.m) /\ RunDone(m, r, s, start, n)
         /\ r.m.fault \/ FramesInv(r.m, A)
<1>1. s \in Space
  BY DEF Space
<1>2. PICK step \in [0 .. n -> [m : Memories, ok : BOOLEAN]] :
           /\ step[0] = [m |-> m, ok |-> TRUE]
           /\ \A i \in 1 .. n : step[i] = IF step[i - 1].ok
                                         THEN MapPage(step[i - 1].m, s, start + i - 1)
                                         ELSE step[i - 1]
           /\ r = step[n]
  BY <1>1, RunSteps
<1> DEFINE Done(x, i) == RunDone(m, x, s, start, i) /\ (x.m.fault \/ FramesInv(x.m, A))
           T == {i \in 0 .. n : Done(step[i], i)}
<1>3. \A i \in 0 .. n : MemTypeOK(step[i].m)
  BY <1>2 DEF Memories
<1>4. 0 \in T
  <2>1. Run(start, 0) = {}
    BY DEF Run
  <2>2. Gains(m, m, s, {})
    BY DEF Gains
  <2>3. step[0].m = m /\ step[0].ok
    BY <1>2
  <2>4. RunDone(m, step[0], s, start, 0)
    BY <2>1, <2>2, <2>3 DEF RunDone
  <2>5. QED  BY <2>3, <2>4
<1>5. ASSUME NEW i \in 1 .. n, i - 1 \in T PROVE i \in T
  <2> DEFINE x == step[i - 1]
             y == step[i]
  <2>1. i - 1 \in 0 .. n /\ Done(x, i - 1) /\ MemTypeOK(x.m)
    BY <1>3, <1>5
  <2>2. CASE x.ok
    <3>1. y = MapPage(x.m, s, start + i - 1)
      BY <1>2, <2>2
    <3> HIDE DEF x, y
    <3>2. RunDone(m, y, s, start, i) /\ (x.m.fault \/ x.m.pte[s][start + i - 1] = None)
      BY <1>1, <2>1, <2>2, <3>1, RunGrows
    <3>3. start + i - 1 \in Pages(s)
      BY DEF Run
    <3>4. Maps(x.m, y, s, start + i - 1)
      BY <1>1, <2>1, <3>1, <3>3, MapStep
    <3>5. y.m.fault \/ FramesInv(y.m, A)
      BY <2>1, <3>1, <3>2, <3>3, <3>4, MapFrames DEF Maps
    <3>6. QED  BY <3>2, <3>5 DEF y
  <2>3. CASE ~x.ok
    <3>1. y = x
      BY <1>2, <2>3
    <3>2. Run(start, i - 1) \subseteq Run(start, i)
      BY DEF Run
    <3>3. RunDone(m, y, s, start, i)
      BY <2>1, <2>3, <3>1, <3>2 DEF RunDone, Gains
    <3>4. QED  BY <2>1, <3>1, <3>3
  <2>4. QED  BY <2>2, <2>3
<1> HIDE DEF T
<1>6. Climbs(T, n)
  BY <1>4, <1>5 DEF Climbs
<1>7. n \in T
  BY <1>6, UpTo
<1>8. QED  BY <1>2, <1>3, <1>7 DEF T

\* What malloc_page comes to.
Obtains(m, r, s, n) ==
  \/ r.m = m /\ r.ret = None
  \/ \E start \in Nat :
       /\ start \in Pages(s) /\ Run(start, n) \subseteq Pages(s) \ m.vaddr[s]
       /\ r.m.vaddr = [m.vaddr EXCEPT ![s] = @ \cup Run(start, n)]
       /\ Gains(m, r.m, s, Run(start, n))
       /\ r.ret = start \/ (r.ret = None /\ r.m.oom)
       /\ r.ret = start => r.m.fault \/ Run(start, n) \subseteq Mapped(r.m, s)

(* malloc_page keeps the accounts of frames and addresses.                 *)
LEMMA MallocPage ==
  ASSUME NEW m, NEW A \in SUBSET Proc, NEW s \in A \cup {kernel}, NEW n \in Nat \ {0},
         MemInv(m, A), NEW r, r = malloc_page(m, s, n)
  PROVE  MemInv(r.m, A) /\ Obtains(m, r, s, n)
<1> DEFINE start == bitmap_scan(m.vaddr[s], Pages(s), n)
           m1 == [m EXCEPT !.vaddr[s] = @ \cup Run(start, n)]
           q == MapRun(m1, s, start, n)
<1>1. s \in Space /\ Pages(s) \subseteq Nat /\ Pages(s) \in {KPage, UPage}
  BY Spaces DEF Space
<1>2. start = None \/ (start \in Pages(s) /\ start \in Nat /\ Run(start, n) \subseteq Pages(s) \ m.vaddr[s])
  BY <1>1, ScanFinds
<1> HIDE DEF start
<1>3. CASE start = None
  <2>1. r = [m |-> m, ret |-> None]
    BY <1>3 DEF malloc_page, start
  <2>2. QED  BY <2>1 DEF Obtains
<1>4. CASE start # None
  <2>1. r = [m |-> q.m, ret |-> IF q.ok THEN start ELSE None]
    BY <1>4 DEF malloc_page, start
  <2>2. MemTypeOK(m) /\ m \in MemRecord
    BY DEF MemInv, MemTypeOK, MemRecord
  <2>3. /\ m1.vaddr = [m.vaddr EXCEPT ![s] = @ \cup Run(start, n)]
        /\ m1.pte = m.pte /\ m1.pde = m.pde /\ m1.bits = m.bits
        /\ m1.oom = m.oom /\ m1.fault = m.fault /\ m1.tlb = m.tlb
    BY <2>2 DEF MemRecord
  <2>4. m1.vaddr \in [Space -> SUBSET (KPage \cup UPage)] /\ \A t \in Space : m1.vaddr[t] \subseteq Pages(t)
    BY <1>1, <1>2, <1>4, <2>2, <2>3 DEF MemTypeOK, MemRecord
  <2>5. m1 \in MemRecord
    BY <2>2, <2>4 DEF MemRecord
  <2> HIDE DEF m1
  <2>6. MemTypeOK(m1)
    BY <2>2, <2>3, <2>4, <2>5 DEF MemTypeOK, MemRecord
  <2>7. m.fault \/ \A w \in Run(start, n) : m.pte[s][w] = None
    BY <1>2, <1>4 DEF MemInv, Covered, Mapped
  <2>8. Clear(m1, s, Run(start, n))
    BY <2>3, <2>7 DEF Clear
  <2>9. m1.fault \/ FramesInv(m1, A)
    BY <2>3, KernelSame, UserSame DEF MemInv, FramesInv
  <2> HIDE DEF q
  <2>10. /\ MemTypeOK(q.m) /\ RunDone(m1, q, s, start, n)
         /\ q.m.fault \/ FramesInv(q.m, A)
    BY <1>2, <1>4, <2>6, <2>8, <2>9, RunMaps DEF q
  <2>11. Gains(m, q.m, s, Run(start, n)) /\ q.m.vaddr = m1.vaddr
    BY <2>3, <2>10 DEF RunDone, Gains
  <2>12. Obtains(m, r, s, n)
    <3>1. r.m = q.m /\ (r.ret = start \/ r.ret = None) /\ (r.ret = None => ~q.ok) /\ (r.ret = start => q.ok)
      BY <1>4, <2>1
    <3>2. QED  BY <1>2, <1>4, <2>3, <2>10, <2>11, <3>1 DEF Obtains, RunDone
  <2>13. \A t \in A \cup {kernel} : t \in Space
    BY DEF Space
  <2>14. ~q.m.fault => Covered(q.m, A)
    <3> SUFFICES ASSUME ~q.m.fault, NEW t \in A \cup {kernel}, NEW w \in Mapped(q.m, t)
                 PROVE  w \in q.m.vaddr[t]
      BY DEF Covered
    <3>1. Mapped(m, t) \subseteq m.vaddr[t] /\ w \in Pages(t) /\ t \in Space
      BY <2>11, <2>13 DEF MemInv, Covered, Gains, Mapped
    <3>2. q.m.vaddr[t] = IF t = s THEN m.vaddr[t] \cup Run(start, n) ELSE m.vaddr[t]
      BY <2>2, <2>3, <2>11, <2>13 DEF MemRecord
    <3>3. CASE t # s
      BY <2>11, <3>1, <3>2, <3>3 DEF Gains, Mapped
    <3>4. CASE t = s
      BY <2>11, <3>1, <3>2, <3>4 DEF Gains, Mapped
    <3>5. QED  BY <3>3, <3>4
  <2>15. ~q.m.oom => ~q.m.fault /\ \A t \in A \cup {kernel} : q.m.vaddr[t] \subseteq Mapped(q.m, t)
    <3> SUFFICES ASSUME ~q.m.oom
                 PROVE  ~q.m.fault /\ \A t \in A \cup {kernel} : q.m.vaddr[t] \subseteq Mapped(q.m, t)
      OBVIOUS
    <3>1. ~q.m.fault /\ q.ok /\ ~m.oom
      BY <2>10, <2>11 DEF RunDone, Gains, MemInv
    <3>2. ASSUME NEW t \in A \cup {kernel}, NEW w \in q.m.vaddr[t] PROVE w \in Mapped(q.m, t)
      <4>1. m.vaddr[t] \subseteq Mapped(m, t) /\ t \in Space
        BY <2>13, <3>1 DEF MemInv
      <4>2. q.m.vaddr[t] = IF t = s THEN m.vaddr[t] \cup Run(start, n) ELSE m.vaddr[t]
        BY <2>2, <2>3, <2>11, <2>13 DEF MemRecord
      <4>3. CASE t # s
        BY <2>11, <3>2, <4>1, <4>2, <4>3 DEF Gains, Mapped
      <4>4. CASE t = s
        BY <2>10, <2>11, <3>1, <3>2, <4>1, <4>2, <4>4 DEF Gains, Mapped, RunDone
      <4>5. QED  BY <4>3, <4>4
    <3>3. QED  BY <3>1, <3>2
  <2>16. MemInv(r.m, A)
    BY <2>1, <2>10, <2>14, <2>15 DEF MemInv
  <2>17. QED  BY <2>12, <2>16
<1>5. QED  BY <1>3, <1>4

(* Some pages of the kernel lose their frames.                             *)
LEMMA KernelPagesFreed ==
  ASSUME NEW m, NEW a, NEW A \in SUBSET Proc, NEW W \in SUBSET KPage,
         MemTypeOK(m), W \subseteq Mapped(m, kernel),
         \A w \in KPage : a.pte[kernel][w] = IF w \in W THEN None ELSE m.pte[kernel][w],
         a.pde = m.pde,
         a.bits["kernel"] = m.bits["kernel"] \ {m.pte[kernel][w] : w \in W},
         KernelPagesApart(m), TablesApart(m, A), KernelMarks(m, A)
  PROVE  KernelPagesApart(a) /\ TablesApart(a, A) /\ KernelMarks(a, A)
<1>1. \A w \in W : m.pte[kernel][w] # None
  BY DEF Mapped
<1>2. KernelPagesApart(a)
  BY DEF KernelPagesApart
<1>3. TablesApart(a, A)
  BY DEF TablesApart
<1>4. ASSUME NEW f \in KFrame
      PROVE  f \in a.bits["kernel"] <=> \/ \E v \in KPage : a.pte[kernel][v] = f
                                       \/ \E p \in A : a.pde[p] = f
  <2>0. f # None
    BY Spaces
  <2>1. CASE \E w \in W : m.pte[kernel][w] = f
    <3>1. PICK w \in W : m.pte[kernel][w] = f
      BY <2>1
    <3>2. \A v \in KPage : m.pte[kernel][v] = f => v = w
      BY <2>0, <3>1 DEF KernelPagesApart
    <3>3. \A v \in KPage : a.pte[kernel][v] # f
      BY <2>0, <3>1, <3>2
    <3>4. \A p \in A : a.pde[p] # f
      BY <2>0, <3>1 DEF TablesApart
    <3>5. f \notin a.bits["kernel"]
      BY <3>1
    <3>6. QED  BY <3>3, <3>4, <3>5
  <2>2. CASE ~\E w \in W : m.pte[kernel][w] = f
    <3>1. (\E v \in KPage : a.pte[kernel][v] = f) <=> \E v \in KPage : m.pte[kernel][v] = f
      BY <2>0, <2>2
    <3>2. f \in a.bits["kernel"] <=> f \in m.bits["kernel"]
      BY <2>2
    <3>3. QED  BY <3>1, <3>2 DEF KernelMarks
  <2>3. QED  BY <2>1, <2>2
<1>5. QED  BY <1>2, <1>3, <1>4 DEF KernelMarks

(* Some pages of a process lose their frames.                              *)
LEMMA UserPagesFreed ==
  ASSUME NEW m, NEW a, NEW A \in SUBSET Proc, NEW s \in A, NEW W \in SUBSET UPage,
         MemTypeOK(m), W \subseteq Mapped(m, s),
         \A t \in A : t # s => a.pte[t] = m.pte[t],
         \A w \in UPage : a.pte[s][w] = IF w \in W THEN None ELSE m.pte[s][w],
         a.bits["user"] = m.bits["user"] \ {m.pte[s][w] : w \in W},
         UserPagesApart(m, A), UserMarks(m, A)
  PROVE  UserPagesApart(a, A) /\ UserMarks(a, A)
<1>1. \A w \in W : m.pte[s][w] # None
  BY DEF Mapped
<1>2. \A q \in A : \A w \in UPage : a.pte[q][w] = m.pte[q][w] \/ a.pte[q][w] = None
  OBVIOUS
<1>3. UserPagesApart(a, A)
  BY <1>2 DEF UserPagesApart
<1>4. ASSUME NEW f \in UFrame
      PROVE  f \in a.bits["user"] <=> \E p \in A : \E v \in UPage : a.pte[p][v] = f
  <2>0. f # None
    BY Spaces
  <2>1. CASE \E w \in W : m.pte[s][w] = f
    <3>1. PICK w \in W : m.pte[s][w] = f
      BY <2>1
    <3>2. \A q \in A : \A v \in UPage : m.pte[q][v] = f => q = s /\ v = w
      BY <2>0, <3>1 DEF UserPagesApart
    <3>3. \A q \in A : \A v \in UPage : a.pte[q][v] # f
      BY <1>2, <2>0, <3>1, <3>2
    <3>4. f \notin a.bits["user"]
      BY <3>1
    <3>5. QED  BY <3>3, <3>4
  <2>2. CASE ~\E w \in W : m.pte[s][w] = f
    <3>1. \A q \in A : \A v \in UPage : a.pte[q][v] = f <=> m.pte[q][v] = f
      BY <2>0, <2>2
    <3>2. f \in a.bits["user"] <=> f \in m.bits["user"]
      BY <2>2
    <3>3. QED  BY <3>1, <3>2 DEF UserMarks
  <2>3. QED  BY <2>1, <2>2
<1>5. QED  BY <1>3, <1>4 DEF UserMarks

\* The pages W of s are unmapped and their addresses are free.
Frees(m, a, s, W) ==
  /\ a.vaddr = [m.vaddr EXCEPT ![s] = @ \ W]
  /\ \A t \in Space : t # s => a.pte[t] = m.pte[t]
  /\ \A w \in Pages(s) : a.pte[s][w] = IF w \in W THEN None ELSE m.pte[s][w]
  /\ a.pde = m.pde /\ a.oom = m.oom /\ a.fault = m.fault

(* mfree_page gives back pages with marked addresses; they are mapped      *)
(* unless memory has been exhausted before.                                *)
LEMMA MfreePage ==
  ASSUME NEW m, NEW A \in SUBSET Proc, NEW s \in A \cup {kernel}, NEW v \in Nat, NEW n \in Nat,
         MemInv(m, A), Run(v, n) \subseteq m.vaddr[s],
         NEW a, a = mfree_page(m, s, v, n)
  PROVE  /\ MemInv(a, A)
         /\ \/ Frees(m, a, s, Run(v, n))
            \/ a.fault /\ m.oom /\ a.oom /\ a.vaddr = m.vaddr /\ a.pte = m.pte /\ a.pde = m.pde
         /\ Run(v, n) \subseteq Mapped(m, s) => Frees(m, a, s, Run(v, n))
<1> DEFINE W == Run(v, n)
<1>1. s \in Space /\ \A t \in A \cup {kernel} : t \in Space
  BY DEF Space
<1>2. MemTypeOK(m) /\ m \in MemRecord
  BY DEF MemInv, MemTypeOK, MemRecord
<1>3. W \subseteq Pages(s)
  BY <1>1, <1>2 DEF MemTypeOK
<1> HIDE DEF W
<1>4. CASE ~(W \subseteq Mapped(m, s))
  <2>1. a = [m EXCEPT !.fault = TRUE]
    BY <1>4 DEF mfree_page, W
  <2>2. m.oom
    BY <1>4 DEF MemInv, W
  <2>3. a \in MemRecord /\ a.fault /\ a.oom /\ a.vaddr = m.vaddr /\ a.pte = m.pte
        /\ a.pde = m.pde /\ a.bits = m.bits
    BY <1>2, <2>1, <2>2 DEF MemRecord
  <2>4. MemTypeOK(a)
    BY <1>2, <2>3 DEF MemTypeOK, MemRecord
  <2>5. MemInv(a, A)
    BY <2>3, <2>4 DEF MemInv
  <2>6. QED  BY <1>4, <2>2, <2>3, <2>5 DEF W
<1>5. CASE W \subseteq Mapped(m, s)
  <2> DEFINE new == [w \in DOMAIN m.pte[s] |-> IF w \in W THEN None ELSE m.pte[s][w]]
             gone == {m.pte[s][w] : w \in W}
             stale == IF s = kernel THEN m.tlb
                      ELSE m.tlb \cup {<< w, m.pte[s][w] >> : w \in W \cap TlbPages}
  <2>1. a = [m EXCEPT !.bits[PoolOf(s)] = @ \ gone, !.pte[s] = new, !.tlb = stale, !.vaddr[s] = @ \ W]
    BY <1>5 DEF mfree_page, W
  <2>2. /\ m.pte \in [Space -> PageMap]
        /\ m.pte[s] \in [Pages(s) -> Frames(s) \cup {None}]
    BY <1>1, <1>2 DEF MemTypeOK, PageMap
  <2>3. new \in [Pages(s) -> Frames(s) \cup {None}] /\ new \in PageMap
    <3>1. new \in [Pages(s) -> Frames(s) \cup {None}]
      BY <2>2
    <3>2. QED  BY <1>1, <3>1, Spaces DEF PageMap, Space
  <2>4. \A w \in Pages(s) : new[w] = IF w \in W THEN None ELSE m.pte[s][w]
    BY <2>2
  <2>5. stale \in SUBSET (UPage \X UFrame)
    <3>1. CASE s = kernel
      BY <1>2, <3>1 DEF MemRecord
    <3>2. CASE s # kernel
      <4>1. Pages(s) = UPage /\ Frames(s) = UFrame
        BY <3>2, Spaces
      <4>2. \A w \in W : w \in UPage /\ m.pte[s][w] \in UFrame
        BY <1>3, <1>5, <2>2, <4>1 DEF Mapped
      <4>3. m.tlb \in SUBSET (UPage \X UFrame)
        BY <1>2 DEF MemRecord
      <4>4. QED  BY <3>2, <4>2, <4>3
    <3>3. QED  BY <3>1, <3>2
  <2> HIDE DEF new, gone, stale
  <2>6. /\ a.bits = [m.bits EXCEPT ![PoolOf(s)] = @ \ gone]
        /\ a.pte = [m.pte EXCEPT ![s] = new] /\ a.vaddr = [m.vaddr EXCEPT ![s] = @ \ W]
        /\ a.tlb = stale /\ a.pde = m.pde /\ a.oom = m.oom /\ a.fault = m.fault
    BY <1>2, <2>1 DEF MemRecord
  <2>7. /\ a.bits \in [{"kernel", "user"} -> SUBSET (KFrame \cup UFrame)]
        /\ a.bits["kernel"] \subseteq KFrame /\ a.bits["user"] \subseteq UFrame
        /\ a.vaddr \in [Space -> SUBSET (KPage \cup UPage)]
        /\ a.pte \in [Space -> PageMap]
        /\ \A t \in Space : a.vaddr[t] \subseteq Pages(t) /\ a.pte[t] \in [Pages(t) -> Frames(t) \cup {None}]
    <3>1. /\ m.bits \in [{"kernel", "user"} -> SUBSET (KFrame \cup UFrame)]
          /\ m.bits["kernel"] \subseteq KFrame /\ m.bits["user"] \subseteq UFrame
          /\ m.vaddr \in [Space -> SUBSET (KPage \cup UPage)]
          /\ \A t \in Space : m.vaddr[t] \subseteq Pages(t) /\ m.pte[t] \in [Pages(t) -> Frames(t) \cup {None}]
      BY <1>2 DEF MemTypeOK, MemRecord
    <3>2. PoolOf(s) \in {"kernel", "user"}
      BY DEF PoolOf
    <3>3. /\ a.bits \in [{"kernel", "user"} -> SUBSET (KFrame \cup UFrame)]
          /\ a.bits["kernel"] \subseteq KFrame /\ a.bits["user"] \subseteq UFrame
      BY <2>6, <3>1, <3>2
    <3>4. /\ a.vaddr \in [Space -> SUBSET (KPage \cup UPage)]
          /\ \A t \in Space : a.vaddr[t] \subseteq Pages(t)
      BY <1>1, <2>6, <3>1
    <3>5. /\ a.pte \in [Space -> PageMap]
          /\ \A t \in Space : a.pte[t] \in [Pages(t) -> Frames(t) \cup {None}]
      BY <1>1, <2>2, <2>3, <2>6, <3>1
    <3>6. QED  BY <3>3, <3>4, <3>5
  <2>8. a \in MemRecord
    BY <1>2, <2>1, <2>5, <2>6, <2>7 DEF MemRecord, PageMap
  <2>9. MemTypeOK(a)
    BY <2>7, <2>8 DEF MemTypeOK, MemRecord
  <2>10. Frees(m, a, s, W)
    BY <1>1, <2>2, <2>4, <2>6 DEF Frees
  <2>11. ~a.fault => FramesInv(a, A)
    <3> SUFFICES ASSUME ~a.fault PROVE FramesInv(a, A)
      OBVIOUS
    <3>1. FramesInv(m, A)
      BY <2>6 DEF MemInv
    <3>2. CASE s = kernel
      <4>1. a.bits["kernel"] = m.bits["kernel"] \ gone /\ a.bits["user"] = m.bits["user"]
        BY <1>2, <2>6, <3>2, Spaces DEF MemRecord
      <4>2. KernelPagesApart(a) /\ TablesApart(a, A) /\ KernelMarks(a, A)
        <5>1. W \in SUBSET KPage /\ W \subseteq Mapped(m, kernel) /\ a.pde = m.pde
          BY <1>3, <1>5, <2>6, <3>2, Spaces
        <5>2. \A w \in KPage : a.pte[kernel][w] = IF w \in W THEN None ELSE m.pte[kernel][w]
          BY <2>10, <3>2, Spaces DEF Frees
        <5>3. a.bits["kernel"] = m.bits["kernel"] \ {m.pte[kernel][w] : w \in W}
          BY <3>2, <4>1 DEF gone
        <5>4. KernelPagesApart(m) /\ TablesApart(m, A) /\ KernelMarks(m, A)
          BY <3>1 DEF FramesInv
        <5>5. QED  BY <1>2, <5>1, <5>2, <5>3, <5>4, KernelPagesFreed
      <4>3. \A p \in A : a.pte[p] = m.pte[p]
        BY <1>1, <2>10, <3>2, Spaces DEF Frees
      <4>4. QED  BY <3>1, <4>1, <4>2, <4>3, UserSame DEF FramesInv
    <3>3. CASE s # kernel
      <4>1. s \in A /\ PoolOf(s) = "user" /\ Pages(s) = UPage
        BY <3>3, Spaces
      <4>2. a.bits["user"] = m.bits["user"] \ gone /\ a.bits["kernel"] = m.bits["kernel"]
        BY <1>2, <2>6, <4>1 DEF MemRecord
      <4>3. \A t \in A : t # s => a.pte[t] = m.pte[t]
        BY <1>1, <2>10 DEF Frees
      <4>4. UserPagesApart(a, A) /\ UserMarks(a, A)
        <5>1. W \in SUBSET UPage
          BY <1>3, <4>1
        <5>2. \A w \in UPage : a.pte[s][w] = IF w \in W THEN None ELSE m.pte[s][w]
          BY <2>10, <4>1 DEF Frees
        <5>3. a.bits["user"] = m.bits["user"] \ {m.pte[s][w] : w \in W}
          BY <4>2 DEF gone
        <5>4. UserPagesApart(m, A) /\ UserMarks(m, A)
          BY <3>1 DEF FramesInv
        <5>5. QED  BY <1>2, <1>5, <4>1, <4>3, <5>1, <5>2, <5>3, <5>4, UserPagesFreed
      <4>5. a.pte[kernel] = m.pte[kernel]
        BY <1>1, <2>10, <3>3 DEF Frees
      <4>6. QED  BY <2>6, <3>1, <4>2, <4>4, <4>5, KernelSame DEF FramesInv
    <3>4. QED  BY <3>2, <3>3
  <2>12. ASSUME NEW t \in A \cup {kernel}
         PROVE  /\ ~a.fault => Mapped(a, t) \subseteq a.vaddr[t]
                /\ ~a.oom => a.vaddr[t] \subseteq Mapped(a, t)
    <3>1. /\ Mapped(a, t) = IF t = s THEN Mapped(m, t) \ W ELSE Mapped(m, t)
          /\ a.vaddr[t] = IF t = s THEN m.vaddr[t] \ W ELSE m.vaddr[t]
      <4>1. a.vaddr[t] = IF t = s THEN m.vaddr[t] \ W ELSE m.vaddr[t]
        BY <1>1, <1>2, <2>6 DEF MemRecord
      <4>2. CASE t = s
        BY <1>1, <2>10, <4>1, <4>2 DEF Frees, Mapped
      <4>3. CASE t # s
        BY <1>1, <2>10, <4>1, <4>3 DEF Frees, Mapped
      <4>4. QED  BY <4>2, <4>3
    <3>2. QED  BY <2>6, <3>1 DEF MemInv, Covered
  <2>13. MemInv(a, A)
    BY <2>6, <2>9, <2>11, <2>12 DEF MemInv, Covered
  <2>14. QED  BY <2>10, <2>13 DEF W
<1>6. QED  BY <1>4, <1>5

-----------------------------------------------------------------------------
(***************************************************************************)
(* fork's copy                                                             *)
(***************************************************************************)
(* What CopyPage does with a marked page, and with another number.         *)
LEMMA CopyStep ==
  ASSUME NEW m, MemTypeOK(m), NEW p \in Proc, NEW q \in Proc, NEW v,
         NEW r, r = MapPage(m, q, v), NEW y, y = CopyPage(m, p, q, v)
  PROVE  /\ MemTypeOK(y)
         /\ v \notin m.vaddr[p] => y = m
         /\ v \in m.vaddr[p] =>
              /\ v \in UPage /\ MemTypeOK(r.m) /\ Maps(m, r, q, v)
              /\ y.bits = r.m.bits /\ y.pde = r.m.pde /\ y.pte = r.m.pte
              /\ y.vaddr = r.m.vaddr /\ y.oom = r.m.oom
              /\ y.fault <=> r.m.fault \/ ~r.ok \/ v \notin Mapped(m, p)
<1>1. CASE v \notin m.vaddr[p]
  BY <1>1 DEF CopyPage
<1>2. CASE v \in m.vaddr[p]
  <2>1. p \in Space /\ q \in Space /\ Pages(p) = UPage /\ Pages(q) = UPage
    BY Spaces
  <2>2. v \in UPage
    BY <1>2, <2>1 DEF MemTypeOK
  <2>3. MemTypeOK(r.m) /\ Maps(m, r, q, v)
    BY <2>1, <2>2, MapStep
  <2>4. y = [r.m EXCEPT !.fault = @ \/ ~r.ok \/ v \notin Mapped(m, p)]
    BY <1>2 DEF CopyPage
  <2>5. r.m \in MemRecord
    BY <2>3 DEF MemTypeOK, MemRecord
  <2>6. /\ y.bits = r.m.bits /\ y.pde = r.m.pde /\ y.pte = r.m.pte
        /\ y.vaddr = r.m.vaddr /\ y.oom = r.m.oom
        /\ y.fault <=> r.m.fault \/ ~r.ok \/ v \notin Mapped(m, p)
        /\ y \in MemRecord
    BY <2>4, <2>5 DEF MemRecord
  <2>7. MemTypeOK(y)
    BY <2>3, <2>6 DEF MemTypeOK, MemRecord
  <2>8. QED  BY <1>2, <2>2, <2>3, <2>6, <2>7
<1>3. QED  BY <1>1, <1>2

\* Where the copy begins: the child has the parent's address bitmap.
Starts(m, x, p, q) ==
  /\ x.vaddr = [m.vaddr EXCEPT ![q] = m.vaddr[p]]
  /\ x.pte = m.pte /\ x.pde = m.pde /\ x.bits = m.bits /\ x.oom = m.oom /\ x.fault = m.fault

(* The stack is the last page of the address space.                        *)
LEMMA StackPage == stack_page \in UPage /\ stack_page \in Nat /\ \A v \in UPage : v <= stack_page
<1>1. UPage \in SUBSET Nat /\ UPage # {} /\ IsFiniteSet(UPage)
  BY MemoryAssumption
<1>2. QED  BY <1>1, GreatestOfFinite DEF stack_page

(* copy_body_stack3 is a sequence of memories, too, one for each page.     *)
LEMMA CopySteps ==
  ASSUME NEW m, MemTypeOK(m), NEW p \in Proc, NEW q \in Proc
  PROVE  \E step \in [0 .. stack_page + 1 -> Memories] :
           /\ Starts(m, step[0], p, q)
           /\ \A i \in 1 .. stack_page + 1 : step[i] = CopyPage(step[i - 1], p, q, i - 1)
           /\ CopyBody(m, p, q) = step[stack_page + 1]
<1> DEFINE n == stack_page + 1
           x == [m EXCEPT !.vaddr[q] = m.vaddr[p], !.tlb = {}]
           F == [i \in 1 .. n |-> [y \in Memories |-> CopyPage(y, p, q, i - 1)]]
           Body(f) == [i \in 0 .. n |-> IF i = 0 THEN x ELSE CopyPage(f[i - 1], p, q, i - 1)]
<1>0. n \in Nat
  BY StackPage
<1>1. x \in Memories /\ Starts(m, x, p, q)
  <2>1. m \in MemRecord /\ p \in Space /\ q \in Space /\ Pages(p) = UPage /\ Pages(q) = UPage
    BY Spaces DEF MemTypeOK, MemRecord
  <2>2. /\ x.vaddr = [m.vaddr EXCEPT ![q] = m.vaddr[p]] /\ x.tlb = {}
        /\ x.pte = m.pte /\ x.pde = m.pde /\ x.bits = m.bits /\ x.oom = m.oom /\ x.fault = m.fault
    BY <2>1 DEF MemRecord
  <2>3. x.vaddr \in [Space -> SUBSET (KPage \cup UPage)] /\ \A s \in Space : x.vaddr[s] \subseteq Pages(s)
    BY <2>1, <2>2 DEF MemTypeOK, MemRecord
  <2>4. x \in MemRecord
    BY <2>1, <2>2, <2>3 DEF MemRecord
  <2> HIDE DEF x
  <2>5. MemTypeOK(x)
    BY <2>1, <2>2, <2>3, <2>4 DEF MemTypeOK, MemRecord
  <2>6. QED  BY <2>2, <2>4, <2>5 DEF Memories, Starts
<1>2. F \in [1 .. n -> [Memories -> Memories]]
  <2>1. ASSUME NEW i \in 1 .. n, NEW y \in Memories PROVE CopyPage(y, p, q, i - 1) \in Memories
    <3>1. PICK z : z = CopyPage(y, p, q, i - 1)
      OBVIOUS
    <3>2. PICK r : r = MapPage(y, q, i - 1)
      OBVIOUS
    <3>3. MemTypeOK(y)
      BY DEF Memories
    <3>4. MemTypeOK(z)
      BY <3>1, <3>2, <3>3, CopyStep
    <3>5. QED  BY <3>1, <3>4 DEF Memories, MemTypeOK, MemRecord
  <2>2. QED  BY <2>1
<1>3. \A i \in 1 .. n : \A y \in Memories : F[i][y] = CopyPage(y, p, q, i - 1)
  OBVIOUS
<1> HIDE DEF F, x, n
<1>4. PICK f \in [0 .. n -> Memories] : Follows(f, x, F, n)
  BY <1>0, <1>1, <1>2, Recursion
<1>5. f[0] = x /\ \A i \in 1 .. n : f[i] = CopyPage(f[i - 1], p, q, i - 1)
  <2>1. \A i \in 1 .. n : f[i - 1] \in Memories
    BY <1>0
  <2>2. QED  BY <1>3, <1>4, <2>1 DEF Follows
<1>6. f = Body(f)
  BY <1>0, <1>5
<1> DEFINE step == CHOOSE g : g = Body(g)
<1>7. step = Body(step)
  <2> HIDE DEF Body
  <2>1. QED  BY <1>6
<1>8. CopyBody(m, p, q) = step[n]
  BY DEF CopyBody, n, x
<1> HIDE DEF step
<1>9. step[0] = x /\ \A i \in 1 .. n : step[i] = CopyPage(step[i - 1], p, q, i - 1)
  BY <1>0, <1>7
<1>10. step \in [0 .. n -> Memories]
  <2> DEFINE T == {i \in 0 .. n : step[i] \in Memories}
  <2>1. 0 \in T
    BY <1>0, <1>1, <1>9
  <2>2. ASSUME NEW i \in 1 .. n, i - 1 \in T PROVE i \in T
    <3>1. step[i - 1] \in Memories
      BY <2>2
    <3>2. F[i][step[i - 1]] \in Memories
      BY <1>2, <3>1
    <3>3. step[i] = F[i][step[i - 1]]
      BY <1>3, <1>9, <3>1
    <3>4. QED  BY <1>0, <3>2, <3>3
  <2> HIDE DEF T
  <2>3. Climbs(T, n)
    BY <2>1, <2>2 DEF Climbs
  <2>4. \A i \in 0 .. n : step[i] \in Memories
    BY <1>0, <2>3, UpTo DEF T
  <2>5. step = [i \in 0 .. n |-> step[i]]
    BY <1>7
  <2>6. QED  BY <2>4, <2>5
<1>11. QED
  BY <1>1, <1>8, <1>9, <1>10 DEF n

\* What is true of the copy when all pages below i have been looked at.
Copied(m, x, p, q, i) ==
  /\ x.vaddr = [m.vaddr EXCEPT ![q] = m.vaddr[p]]
  /\ \A t \in Space : t # q => x.pte[t] = m.pte[t]
  /\ \A t \in Proc : t # q => x.pde[t] = m.pde[t]
  /\ ~x.fault => \A w \in UPage : x.pte[q][w] # None <=> w \in m.vaddr[p] /\ w < i
  /\ ~x.fault => \A w \in m.vaddr[p] : w < i => w \in Mapped(m, p)
  /\ (m.oom => x.oom) /\ (m.fault => x.fault) /\ (x.fault => m.fault \/ x.oom)

(* Looking at one page more keeps the copy and its frames in order.        *)
LEMMA CopyGrows ==
  ASSUME NEW m, NEW A \in SUBSET Proc, NEW p \in A, NEW q \in A, p # q,
         MemInv(m, A), NEW i \in Nat \ {0},
         NEW x, MemTypeOK(x), Copied(m, x, p, q, i - 1), x.fault \/ FramesInv(x, A),
         NEW y, y = CopyPage(x, p, q, i - 1)
  PROVE  Copied(m, y, p, q, i) /\ (y.fault \/ FramesInv(y, A))
<1> DEFINE v == i - 1
           vaddrs == m.vaddr[p]
<1>0. UPage \subseteq Nat /\ q \in Space /\ p \in Space /\ Pages(p) = UPage /\ Pages(q) = UPage /\ MemTypeOK(m)
  BY Spaces DEF MemInv
<1>1. x.vaddr[p] = vaddrs /\ vaddrs \subseteq UPage
  BY <1>0 DEF Copied, MemTypeOK
<1>2. PICK r : r = MapPage(x, q, v)
  OBVIOUS
<1>3. \A w \in UPage : w < i <=> w < v \/ w = v
  BY <1>0
<1>4. v \in Nat /\ v + 1 = i
  OBVIOUS
<1> HIDE DEF v, vaddrs
<1>5. CASE v \notin vaddrs
  <2>1. y = x
    BY <1>1, <1>2, <1>5, CopyStep DEF v
  <2>2. ASSUME NEW w \in UPage PROVE w \in vaddrs /\ w < i <=> w \in vaddrs /\ w < v
    BY <1>3, <1>5
  <2>3. \A w \in vaddrs : w < i => w < v
    BY <1>1, <2>2
  <2>4. QED  BY <2>1, <2>2, <2>3 DEF Copied, v, vaddrs
<1>6. CASE v \in vaddrs
  <2>1. /\ v \in UPage /\ MemTypeOK(r.m) /\ Maps(x, r, q, v) /\ MemTypeOK(y)
        /\ y.bits = r.m.bits /\ y.pde = r.m.pde /\ y.pte = r.m.pte
        /\ y.vaddr = r.m.vaddr /\ y.oom = r.m.oom
        /\ y.fault <=> r.m.fault \/ ~r.ok \/ v \notin Mapped(x, p)
    BY <1>1, <1>2, <1>6, CopyStep DEF v
  <2>2. Mapped(x, p) = Mapped(m, p)
    BY <1>0 DEF Copied, Mapped
  <2>3. v \notin Mapped(m, p) => m.oom
    BY <1>6 DEF MemInv, vaddrs
  <2>4. x.fault \/ x.pte[q][v] = None
    BY <1>4, <2>1 DEF Copied, v
  <2>5. (m.oom => y.oom) /\ (m.fault => y.fault) /\ (y.fault => m.fault \/ y.oom) /\ (x.fault => y.fault)
    BY <2>1, <2>2, <2>3, <2>4 DEF Copied, Maps
  <2>6. y.vaddr = [m.vaddr EXCEPT ![q] = m.vaddr[p]]
    BY <2>1 DEF Copied, Maps
  <2>7. /\ \A t \in Space : t # q => y.pte[t] = m.pte[t]
        /\ \A t \in Proc : t # q => y.pde[t] = m.pde[t]
    BY <2>1 DEF Copied, Maps
  <2>8. ASSUME ~y.fault, NEW w \in UPage
        PROVE  y.pte[q][w] # None <=> w \in vaddrs /\ w < i
    <3>1. CASE w = v
      BY <1>0, <1>3, <1>6, <2>1, <2>8, <3>1 DEF Maps
    <3>2. CASE w # v
      BY <1>0, <1>3, <2>1, <2>5, <2>8, <3>2 DEF Maps, Copied, v, vaddrs
    <3>3. QED  BY <3>1, <3>2
  <2>9. ASSUME ~y.fault, NEW w \in vaddrs, w < i PROVE w \in Mapped(m, p)
    <3>1. CASE w = v
      BY <2>1, <2>2, <2>9, <3>1
    <3>2. CASE w # v
      BY <1>1, <1>3, <2>1, <2>5, <2>9, <3>2 DEF Copied, v, vaddrs
    <3>3. QED  BY <3>1, <3>2
  <2>10. Copied(m, y, p, q, i)
    BY <2>5, <2>6, <2>7, <2>8, <2>9 DEF Copied, vaddrs
  <2>11. y.fault \/ FramesInv(y, A)
    <3> SUFFICES ASSUME ~y.fault PROVE FramesInv(y, A)
      OBVIOUS
    <3>1. ~x.fault /\ ~r.m.fault
      BY <2>1, <2>5
    <3>2. FramesInv(r.m, A)
      BY <1>0, <1>2, <2>1, <2>4, <3>1, MapFrames
    <3>3. QED  BY <2>1, <3>2, KernelSame, UserSame DEF FramesInv
  <2>12. QED  BY <2>10, <2>11
<1>7. QED  BY <1>5, <1>6

(* CopyBody: without a fault the child has the parent's pages, and with or *)
(* without, the accounts of the frames are kept.                           *)
LEMMA BodyCopied ==
  ASSUME NEW m, NEW A \in SUBSET Proc, NEW p \in A, NEW q \in A, p # q, MemInv(m, A),
         Mapped(m, q) = {}, NEW x, x = CopyBody(m, p, q)
  PROVE  /\ MemInv(x, A) /\ x.vaddr = [m.vaddr EXCEPT ![q] = m.vaddr[p]]
         /\ \A t \in Space : t # q => x.pte[t] = m.pte[t]
         /\ \A t \in Proc : t # q => x.pde[t] = m.pde[t]
         /\ ~x.fault => Mapped(x, q) = Mapped(m, p)
         /\ (m.oom => x.oom) /\ (m.fault => x.fault)
<1>0. UPage \subseteq Nat /\ q \in Space /\ p \in Space /\ Pages(p) = UPage /\ Pages(q) = UPage
      /\ MemTypeOK(m) /\ m \in MemRecord
  BY Spaces DEF MemInv, MemTypeOK, MemRecord
<1>1. PICK step \in [0 .. stack_page + 1 -> Memories] :
           /\ Starts(m, step[0], p, q)
           /\ \A i \in 1 .. stack_page + 1 : step[i] = CopyPage(step[i - 1], p, q, i - 1)
           /\ x = step[stack_page + 1]
  BY <1>0, CopySteps
<1> DEFINE n == stack_page + 1
           Done(i) == Copied(m, step[i], p, q, i) /\ (step[i].fault \/ FramesInv(step[i], A))
           T == {i \in 0 .. n : Done(i)}
<1>2. n \in Nat /\ \A w \in UPage : w < n
  BY <1>0, StackPage
<1>3. \A i \in 0 .. n : MemTypeOK(step[i])
  BY DEF Memories
<1>4. Done(0)
  <2>1. \A w \in UPage : m.pte[q][w] = None
    BY <1>0 DEF Mapped
  <2>2. \A w \in UPage : ~(w < 0)
    BY <1>0
  <2>3. m.vaddr[p] \subseteq UPage
    BY <1>0 DEF MemTypeOK
  <2>4. Copied(m, step[0], p, q, 0)
    BY <1>1, <2>1, <2>2, <2>3 DEF Copied, Starts
  <2>5. step[0].fault \/ FramesInv(step[0], A)
    BY <1>1, KernelSame, UserSame DEF Starts, MemInv, FramesInv
  <2>6. QED  BY <2>4, <2>5
<1>5. ASSUME NEW i \in 1 .. n, Done(i - 1) PROVE Done(i)
  <2>1. MemTypeOK(step[i - 1]) /\ i \in Nat \ {0} /\ step[i] = CopyPage(step[i - 1], p, q, i - 1)
    BY <1>1, <1>2, <1>3
  <2>2. QED  BY <1>5, <2>1, CopyGrows
<1> HIDE DEF Done
<1>6. Climbs(T, n)
  BY <1>2, <1>4, <1>5 DEF Climbs
<1> HIDE DEF T
<1>7. Done(n)
  BY <1>2, <1>6, UpTo DEF T
<1>8. Copied(m, x, p, q, n) /\ (x.fault \/ FramesInv(x, A)) /\ MemTypeOK(x)
  BY <1>1, <1>2, <1>3, <1>7 DEF Done
<1>9. /\ x.vaddr = [m.vaddr EXCEPT ![q] = m.vaddr[p]]
      /\ \A t \in Space : t # q => x.pte[t] = m.pte[t]
      /\ \A t \in Proc : t # q => x.pde[t] = m.pde[t]
  BY <1>8 DEF Copied
<1>10. (m.oom => x.oom) /\ (m.fault => x.fault) /\ (x.fault => m.fault \/ x.oom)
  BY <1>8 DEF Copied
<1>11. ~x.fault => Mapped(x, q) = m.vaddr[p] /\ Mapped(m, p) = m.vaddr[p]
  <2> SUFFICES ASSUME ~x.fault PROVE Mapped(x, q) = m.vaddr[p] /\ Mapped(m, p) = m.vaddr[p]
    OBVIOUS
  <2>1. m.vaddr[p] \subseteq UPage
    BY <1>0 DEF MemTypeOK
  <2>2. Mapped(x, q) = m.vaddr[p]
    BY <1>0, <1>2, <1>8, <2>1 DEF Copied, Mapped
  <2>3. m.vaddr[p] \subseteq Mapped(m, p)
    BY <1>2, <1>8, <2>1 DEF Copied
  <2>4. Mapped(m, p) \subseteq m.vaddr[p]
    BY <1>10 DEF MemInv, Covered
  <2>5. QED  BY <2>2, <2>3, <2>4
<1>12. ASSUME NEW t \in A \cup {kernel}
       PROVE  /\ ~x.fault => Mapped(x, t) \subseteq x.vaddr[t]
              /\ ~x.oom => x.vaddr[t] \subseteq Mapped(x, t)
  <2>1. t \in Space
    BY DEF Space
  <2>2. CASE t = q
    BY <1>0, <1>9, <1>10, <1>11, <2>2 DEF MemInv, MemRecord
  <2>3. CASE t # q
    <3>1. x.vaddr[t] = m.vaddr[t] /\ Mapped(x, t) = Mapped(m, t)
      BY <1>0, <1>9, <2>1, <2>3 DEF MemRecord, Mapped
    <3>2. QED  BY <1>10, <3>1 DEF MemInv, Covered
  <2>4. QED  BY <2>2, <2>3
<1>13. ~x.oom => ~x.fault
  BY <1>10 DEF MemInv
<1>14. MemInv(x, A)
  BY <1>8, <1>12, <1>13 DEF MemInv, Covered
<1>15. QED  BY <1>9, <1>10, <1>11, <1>14

-----------------------------------------------------------------------------
(***************************************************************************)
(* Free lists                                                              *)
(***************************************************************************)
(* list_pop.                                                               *)
LEMMA PopFacts ==
  ASSUME NEW S, NEW s \in Seq(S), s # << >>, IsInjective(s)
  PROVE  /\ Head(s) \in ToSet(s) /\ Head(s) \in S /\ Tail(s) \in Seq(S) /\ IsInjective(Tail(s))
         /\ ToSet(Tail(s)) = ToSet(s) \ {Head(s)}
<1>1. /\ Len(s) \in Nat \ {0} /\ Head(s) = s[1] /\ Tail(s) \in Seq(S) /\ Len(Tail(s)) = Len(s) - 1
      /\ DOMAIN s = 1 .. Len(s) /\ DOMAIN Tail(s) = 1 .. Len(s) - 1
      /\ \A i \in 1 .. Len(s) - 1 : Tail(s)[i] = s[i + 1]
  BY HeadTailProperties, EmptySeq
<1> DEFINE t == Tail(s)
<1>2. \A i \in DOMAIN t : i + 1 \in DOMAIN s /\ i + 1 # 1 /\ t[i] = s[i + 1]
  BY <1>1
<1>3. \A j \in DOMAIN s : j # 1 => j - 1 \in DOMAIN t /\ t[j - 1] = s[j]
  BY <1>1
<1>4. 1 \in DOMAIN s /\ DOMAIN t \subseteq Nat
  BY <1>1
<1> HIDE DEF t
<1>5. IsInjective(t)
  <2> SUFFICES ASSUME NEW i \in DOMAIN t, NEW j \in DOMAIN t, t[i] = t[j] PROVE i = j
    BY DEF IsInjective
  <2>1. i + 1 = j + 1
    BY <1>2 DEF IsInjective
  <2>2. QED  BY <1>4, <2>1
<1>6. ToSet(t) = ToSet(s) \ {s[1]}
  <2>1. \A i \in DOMAIN t : t[i] \in ToSet(s) /\ t[i] # s[1]
    BY <1>2, <1>4 DEF ToSet, IsInjective
  <2>2. \A j \in DOMAIN s : s[j] # s[1] => s[j] \in ToSet(t)
    BY <1>3 DEF ToSet
  <2>3. QED  BY <2>1, <2>2 DEF ToSet
<1>7. QED  BY <1>1, <1>4, <1>5, <1>6 DEF t, ToSet

(* list_append.                                                            *)
LEMMA AppendFacts ==
  ASSUME NEW S, NEW s \in Seq(S), NEW b \in S
  PROVE  /\ Append(s, b) \in Seq(S) /\ ToSet(Append(s, b)) = ToSet(s) \cup {b}
         /\ IsInjective(s) /\ b \notin ToSet(s) => IsInjective(Append(s, b))
<1> DEFINE t == Append(s, b)
           n == Len(s)
<1>1. /\ n \in Nat /\ DOMAIN s = 1 .. n /\ t \in Seq(S) /\ DOMAIN t = 1 .. n + 1
      /\ \A i \in 1 .. n : t[i] = s[i]
      /\ t[n + 1] = b
  BY AppendProperties, LenProperties
<1> HIDE DEF t, n
<1>2. \A i \in DOMAIN t : (i = n + 1 /\ t[i] = b) \/ (i \in DOMAIN s /\ t[i] = s[i])
  BY <1>1
<1>3. \A i \in DOMAIN s : i \in DOMAIN t /\ t[i] = s[i]
  BY <1>1
<1>4. n + 1 \in DOMAIN t
  BY <1>1
<1>5. ToSet(t) = ToSet(s) \cup {b}
  BY <1>1, <1>2, <1>3, <1>4 DEF ToSet
<1>6. IsInjective(s) /\ b \notin ToSet(s) => IsInjective(t)
  BY <1>2 DEF IsInjective, ToSet
<1>7. QED  BY <1>1, <1>5, <1>6 DEF t

\* The part of a free list that WithoutPage has kept after i elements.
Kept(f, s, v, i) ==
  /\ f \in Seq(Block)
  /\ ToSet(f) = {s[j] : j \in {k \in 1 .. i : s[k][1] # v}}
  /\ IsInjective(s) => IsInjective(f)

(* WithoutPage takes the blocks of one page out of a free list.            *)
LEMMA WithoutFacts ==
  ASSUME NEW s \in Seq(Block), NEW v, NEW t, t = WithoutPage(s, v)
  PROVE  /\ t \in Seq(Block) /\ ToSet(t) = {b \in ToSet(s) : b[1] # v}
         /\ IsInjective(s) => IsInjective(t)
<1> DEFINE n == Len(s)
           Go(x, i) == IF s[i][1] = v THEN x ELSE Append(x, s[i])
           F == [i \in 1 .. n |-> [x \in Seq(Block) |-> Go(x, i)]]
           Body(f) == [i \in 0 .. n |-> IF i = 0 THEN << >>
                                       ELSE IF s[i][1] = v THEN f[i - 1]
                                       ELSE Append(f[i - 1], s[i])]
<1>0. n \in Nat /\ DOMAIN s = 1 .. n /\ \A i \in 1 .. n : s[i] \in Block
  OBVIOUS
<1>1. << >> \in Seq(Block)
  OBVIOUS
<1>2. F \in [1 .. n -> [Seq(Block) -> Seq(Block)]]
  <2>1. \A i \in 1 .. n : \A x \in Seq(Block) : Go(x, i) \in Seq(Block)
    BY <1>0, AppendFacts
  <2> HIDE DEF Go
  <2>2. QED  BY <2>1
<1>3. \A i \in 1 .. n : \A x \in Seq(Block) : F[i][x] = Go(x, i)
  OBVIOUS
<1> HIDE DEF F, n
<1>4. PICK f \in [0 .. n -> Seq(Block)] : Follows(f, << >>, F, n)
  BY <1>0, <1>1, <1>2, Recursion
<1>5. f[0] = << >> /\ \A i \in 1 .. n : f[i] = Go(f[i - 1], i)
  <2>1. \A i \in 1 .. n : f[i - 1] \in Seq(Block)
    BY <1>0
  <2> HIDE DEF Go
  <2>2. QED  BY <1>3, <1>4, <2>1 DEF Follows
<1>6. f = Body(f)
  <2>1. ASSUME NEW i \in 0 .. n
        PROVE  f[i] = IF i = 0 THEN << >> ELSE IF s[i][1] = v THEN f[i - 1]
                                          ELSE Append(f[i - 1], s[i])
    <3>1. i = 0 \/ i \in 1 .. n
      BY <1>0
    <3>2. QED  BY <1>5, <3>1
  <2>2. f = [i \in 0 .. n |-> f[i]]
    OBVIOUS
  <2>3. QED  BY <2>1, <2>2
<1> DEFINE kept == CHOOSE g : g = Body(g)
<1>7. kept = Body(kept)
  <2> HIDE DEF Body
  <2>1. QED  BY <1>6
<1>8. t = kept[n]
  BY DEF WithoutPage, n
<1> HIDE DEF kept
<1>9. kept[0] = << >> /\ \A i \in 1 .. n : kept[i] = Go(kept[i - 1], i)
  <2>1. 0 \in 0 .. n /\ \A i \in 1 .. n : i \in 0 .. n /\ i # 0
    BY <1>0
  <2>2. \A i \in 0 .. n : kept[i] = Body(kept)[i]
    <3> HIDE DEF Body
    <3>1. QED  BY <1>7
  <2>3. \A i \in 0 .. n : Body(kept)[i] = IF i = 0 THEN << >>
                                       ELSE IF s[i][1] = v THEN kept[i - 1]
                                       ELSE Append(kept[i - 1], s[i])
    OBVIOUS
  <2> HIDE DEF Body
  <2>4. QED  BY <2>1, <2>2, <2>3
<1> HIDE DEF Body
<1> DEFINE T == {i \in 0 .. n : Kept(kept[i], s, v, i)}
<1>10. 0 \in T
  <2>1. ToSet(<< >>) = {}
    BY DEF ToSet
  <2>2. IsInjective(<< >>)
    BY DEF IsInjective
  <2>3. {k \in 1 .. 0 : s[k][1] # v} = {}
    OBVIOUS
  <2>4. Kept(<< >>, s, v, 0)
    BY <1>1, <2>1, <2>2, <2>3 DEF Kept
  <2>5. QED  BY <1>0, <1>9, <2>4
<1>11. ASSUME NEW i \in 1 .. n, i - 1 \in T PROVE i \in T
  <2> DEFINE x == kept[i - 1]
  <2>1. Kept(x, s, v, i - 1)
    BY <1>11
  <2>2. s[i] \in Block /\ kept[i] = Go(x, i) /\ i \in 1 .. n /\ i \in DOMAIN s
    BY <1>0, <1>9
  <2>3. \A k \in 1 .. i : k \in 1 .. i - 1 \/ k = i
    BY <1>0
  <2>4. 1 .. i - 1 \subseteq 1 .. i /\ i \in 1 .. i /\ 1 .. i - 1 \subseteq DOMAIN s /\ i \notin 1 .. i - 1
    BY <1>0
  <2> HIDE DEF x, T
  <2>5. CASE s[i][1] = v
    <3>1. kept[i] = x
      BY <2>2, <2>5
    <3>2. {k \in 1 .. i : s[k][1] # v} = {k \in 1 .. i - 1 : s[k][1] # v}
      BY <2>3, <2>4, <2>5
    <3>3. Kept(kept[i], s, v, i)
      BY <2>1, <3>1, <3>2 DEF Kept
    <3>4. QED  BY <1>0, <3>3 DEF T
  <2>6. CASE s[i][1] # v
    <3>1. kept[i] = Append(x, s[i])
      BY <2>2, <2>6
    <3>2. {k \in 1 .. i : s[k][1] # v} = {k \in 1 .. i - 1 : s[k][1] # v} \cup {i}
      BY <2>3, <2>4, <2>6
    <3>3. ToSet(kept[i]) = {s[j] : j \in {k \in 1 .. i : s[k][1] # v}}
      BY <2>1, <2>2, <3>1, <3>2, AppendFacts DEF Kept
    <3>4. IsInjective(s) => s[i] \notin ToSet(x)
      BY <2>1, <2>2, <2>4 DEF Kept, IsInjective
    <3>5. Kept(kept[i], s, v, i)
      BY <2>1, <2>2, <3>1, <3>3, <3>4, AppendFacts DEF Kept
    <3>6. QED  BY <1>0, <3>5 DEF T
  <2>7. QED  BY <2>5, <2>6
<1> HIDE DEF T, Go
<1>12. Climbs(T, n)
  BY <1>10, <1>11 DEF Climbs
<1>13. Kept(t, s, v, n)
  BY <1>0, <1>8, <1>12, UpTo DEF T
<1>14. {s[j] : j \in {k \in 1 .. n : s[k][1] # v}} = {b \in ToSet(s) : b[1] # v}
  BY <1>0 DEF ToSet
<1>15. QED  BY <1>13, <1>14 DEF Kept

-----------------------------------------------------------------------------
(***************************************************************************)
(* Heaps: an arena function, a set of free blocks, a set of used ones, and *)
(* the mapped pages.                                                       *)
(***************************************************************************)
(* What arenas and blocks are, and how many blocks a page has.             *)
LEMMA BlockFacts ==
  /\ BlocksPerArena \in Nat \ {0} /\ UPage \subseteq Nat
  /\ \A b \in Block : b[1] \in UPage /\ b \in BlocksOf(b[1])
  /\ \A v \in UPage : /\ << v, 1 >> \in Block /\ BlocksOf(v) \subseteq Block
                      /\ \A b \in BlocksOf(v) : b[1] = v
                      /\ IsFiniteSet(BlocksOf(v)) /\ Cardinality(BlocksOf(v)) = BlocksPerArena
<1>1. BlocksPerArena \in Nat \ {0} /\ UPage \subseteq Nat
  BY MemoryAssumption
<1>2. \A b \in Block : b[1] \in UPage /\ b \in BlocksOf(b[1])
  BY DEF Block, BlocksOf
<1>3. ASSUME NEW v \in UPage
      PROVE  /\ << v, 1 >> \in Block /\ BlocksOf(v) \subseteq Block
             /\ \A b \in BlocksOf(v) : b[1] = v
  BY <1>1 DEF Block, BlocksOf
<1>4. ASSUME NEW v \in UPage
      PROVE  IsFiniteSet(BlocksOf(v)) /\ Cardinality(BlocksOf(v)) = BlocksPerArena
  <2> DEFINE S == 1 .. BlocksPerArena
             f == [i \in S |-> << v, i >>]
  <2>1. IsFiniteSet(S) /\ Cardinality(S) = BlocksPerArena
    BY <1>1, FS_Interval
  <2>2. f \in Bijection(S, BlocksOf(v))
    <3>1. f \in [S -> BlocksOf(v)]
      BY DEF BlocksOf
    <3>2. \A t \in BlocksOf(v) : \E i \in S : f[i] = t
      BY DEF BlocksOf
    <3>3. \A i, j \in S : f[i] = f[j] => i = j
      OBVIOUS
    <3> HIDE DEF f, S
    <3>4. QED  BY <3>1, <3>2, <3>3, Fun_IsBij
  <2>3. ExistsBijection(S, BlocksOf(v))
    BY <2>2 DEF ExistsBijection
  <2> HIDE DEF S
  <2>4. QED  BY <2>1, <2>3, FS_Bijection
<1>5. QED  BY <1>1, <1>2, <1>3, <1>4

\* The heap's parts are of their types and its invariant holds.
Sound(arena, free, u, P) ==
  /\ arena \in [UPage -> Arena] /\ free \in SUBSET Block /\ u \in SUBSET Block
  /\ BlocksApart(arena, free, u, P) /\ RunsApart(arena, u, P)

\* One arena has been replaced, or one more or one less of its blocks is free.
Renewed(arena, new, v, a) == new = [arena EXCEPT ![v] = a]
OneLess(arena, new, v) == new = [arena EXCEPT ![v].cnt = @ - 1]
OneMore(arena, new, v) == new = [arena EXCEPT ![v].cnt = @ + 1]

(* More mapped pages do no harm.                                           *)
LEMMA MorePages ==
  ASSUME NEW h, NEW u, NEW P, NEW P2, P \subseteq P2, HeapInv(h, u, P)
  PROVE  HeapInv(h, u, P2)
BY DEF HeapInv, BlocksApart, RunsApart

(* list_pop: a free block becomes a used one.                              *)
LEMMA Taken ==
  ASSUME NEW arena, NEW free, NEW u, NEW P, Sound(arena, free, u, P), NEW b \in free,
         NEW new, OneLess(arena, new, b[1])
  PROVE  Sound(new, free \ {b}, u \cup {b}, P)
<1>0. /\ arena \in [UPage -> Arena] /\ u \in SUBSET Block /\ free \in SUBSET Block
      /\ BlocksApart(arena, free, u, P) /\ RunsApart(arena, u, P)
      /\ new = [arena EXCEPT ![b[1]].cnt = @ - 1]
  BY DEF Sound, OneLess
<1> USE <1>0
<1> DEFINE v == b[1]
           mine == free \cap BlocksOf(v)
<1>1. v \in UPage /\ Small(arena[v]) /\ b \in mine
  BY BlockFacts DEF BlocksApart
<1>2. arena[v].cnt = Cardinality(mine) /\ BlocksOf(v) \subseteq free \cup u /\ v \in P
  BY <1>1 DEF BlocksApart
<1>3. IsFiniteSet(mine) /\ Cardinality(mine) \in Nat \ {0}
  <2>1. IsFiniteSet(mine)
    BY <1>1, BlockFacts, FS_Subset
  <2>2. QED  BY <1>1, <2>1, FS_CardinalityType, FS_EmptySet
<1>4. Cardinality(mine \ {b}) = Cardinality(mine) - 1
  BY <1>1, <1>3, FS_RemoveElement
<1>5. (free \ {b}) \cap BlocksOf(v) = mine \ {b}
  OBVIOUS
<1>6. \A w \in UPage : w # v => (free \ {b}) \cap BlocksOf(w) = free \cap BlocksOf(w)
  BY BlockFacts
<1> HIDE DEF v, mine
<1>7. arena[v] \in Arena
  BY <1>1
<1>8. new = [arena EXCEPT ![v] = [arena[v] EXCEPT !.cnt = @ - 1]]
  BY DEF v
<1>9. /\ new[v].cnt = Cardinality(mine \ {b}) /\ new[v].large = arena[v].large
      /\ new[v].own = arena[v].own /\ new[v] \in Arena
  BY <1>1, <1>2, <1>3, <1>4, <1>7, <1>8 DEF Arena
<1>10. \A w \in UPage : w # v => new[w] = arena[w]
  BY <1>8
<1>11. \A w \in UPage : Small(new[w]) <=> Small(arena[w])
  BY <1>9, <1>10 DEF Small
<1>12. new \in [UPage -> Arena]
  BY <1>1, <1>8, <1>9
<1>13. BlocksApart(new, free \ {b}, u \cup {b}, P)
  <2>1. (free \ {b}) \cap (u \cup {b}) = {}
    BY DEF BlocksApart
  <2>2. \A c \in free \ {b} : Small(new[c[1]])
    BY <1>11, BlockFacts DEF BlocksApart
  <2>3. ASSUME NEW w \in UPage, Small(new[w])
        PROVE  /\ new[w].cnt = Cardinality((free \ {b}) \cap BlocksOf(w))
               /\ BlocksOf(w) \subseteq (free \ {b}) \cup (u \cup {b})
               /\ w \in P
    <3>1. CASE w = v
      BY <1>2, <1>5, <1>9, <3>1
    <3>2. CASE w # v
      BY <1>6, <1>10, <1>11, <2>3, <3>2 DEF BlocksApart
    <3>3. QED  BY <3>1, <3>2
  <2>4. \A c \in u \cup {b} : c[1] \in P
    BY <1>2 DEF BlocksApart, v
  <2>5. QED  BY <2>1, <2>2, <2>3, <2>4 DEF BlocksApart
<1>14. RunsApart(new, u \cup {b}, P)
  <2>1. \A w \in UPage : new[w].large => w # v
    BY <1>1, <1>9 DEF Small
  <2>2. \A w \in UPage : arena[w].large => v \notin Run(w, arena[w].cnt)
    BY <1>1 DEF RunsApart
  <2>3. QED  BY <1>10, <1>11, <2>1, <2>2 DEF RunsApart, v
<1>15. QED  BY <1>12, <1>13, <1>14 DEF Sound

(* A new arena of small blocks, on a page that was not mapped.             *)
LEMMA ArenaMade ==
  ASSUME NEW arena, NEW u, NEW P, Sound(arena, {}, u, P), NEW P2, P \subseteq P2,
         NEW v \in UPage, v \notin P, v \in P2,
         NEW new, Renewed(arena, new, v, [large |-> FALSE, cnt |-> BlocksPerArena, own |-> TRUE])
  PROVE  Sound(new, BlocksOf(v), u, P2)
<1>0. /\ arena \in [UPage -> Arena] /\ u \in SUBSET Block
      /\ BlocksApart(arena, {}, u, P) /\ RunsApart(arena, u, P)
      /\ new = [arena EXCEPT ![v] = [large |-> FALSE, cnt |-> BlocksPerArena, own |-> TRUE]]
  BY DEF Sound, Renewed
<1> USE <1>0
<1>1. /\ new[v] = [large |-> FALSE, cnt |-> BlocksPerArena, own |-> TRUE]
      /\ \A w \in UPage : w # v => new[w] = arena[w]
  OBVIOUS
<1>2. new[v] \in Arena /\ Small(new[v]) /\ ~new[v].large /\ new[v].cnt = BlocksPerArena
  BY <1>1, BlockFacts DEF Arena, Small
<1>3. new \in [UPage -> Arena]
  BY <1>2
<1>4. BlocksApart(new, BlocksOf(v), u, P2)
  <2>0. \A b \in u : b[1] \in P
    BY DEF BlocksApart
  <2>1. BlocksOf(v) \cap u = {}
    <3>1. \A b \in BlocksOf(v) : b[1] = v
      BY BlockFacts
    <3>2. QED  BY <2>0, <3>1
  <2>2. \A c \in BlocksOf(v) : Small(new[c[1]])
    BY <1>2, BlockFacts
  <2>3. ASSUME NEW w \in UPage, Small(new[w])
        PROVE  /\ new[w].cnt = Cardinality(BlocksOf(v) \cap BlocksOf(w))
               /\ BlocksOf(w) \subseteq BlocksOf(v) \cup u
               /\ w \in P2
    <3>1. CASE w = v
      <4>1. BlocksOf(v) \cap BlocksOf(w) = BlocksOf(v)
        BY <3>1
      <4>2. QED  BY <1>2, <3>1, <4>1, BlockFacts
    <3>2. CASE w # v
      <4>1. BlocksOf(v) \cap BlocksOf(w) = {}
        BY <3>2, BlockFacts
      <4>2. /\ arena[w].cnt = Cardinality({} \cap BlocksOf(w))
            /\ BlocksOf(w) \subseteq {} \cup u /\ w \in P
        BY <1>1, <2>3, <3>2 DEF BlocksApart
      <4>3. {} \cap BlocksOf(w) = {}
        OBVIOUS
      <4>4. QED  BY <1>1, <3>2, <4>1, <4>2, <4>3
    <3>3. QED  BY <3>1, <3>2
  <2>4. \A c \in u : c[1] \in P2
    BY DEF BlocksApart
  <2>5. QED  BY <2>1, <2>2, <2>3, <2>4 DEF BlocksApart
<1>5. RunsApart(new, u, P2)
  <2>1. \A w \in UPage : new[w].large => w # v /\ arena[w].large /\ new[w] = arena[w]
    BY <1>1, <1>2
  <2>2. \A w \in UPage : arena[w].large => v \notin Run(w, arena[w].cnt) /\ Run(w, arena[w].cnt) \subseteq P2
    BY DEF RunsApart
  <2>3. \A w \in UPage : w # v => new[w] = arena[w]
    BY <1>1
  <2>4. QED  BY <2>1, <2>2, <2>3 DEF RunsApart
<1>6. QED  BY <1>3, <1>4, <1>5, BlockFacts DEF Sound

(* A large block, on pages that were not mapped.                           *)
LEMMA LargeMade ==
  ASSUME NEW arena, NEW free, NEW u, NEW P, Sound(arena, free, u, P), NEW P2, P \subseteq P2,
         NEW v \in UPage, NEW n \in Nat \ {0}, Run(v, n) \cap P = {}, Run(v, n) \subseteq P2,
         NEW new, Renewed(arena, new, v, [large |-> TRUE, cnt |-> n, own |-> TRUE])
  PROVE  Sound(new, free, u \cup {<< v, 1 >>}, P2)
<1>0. /\ arena \in [UPage -> Arena] /\ u \in SUBSET Block /\ free \in SUBSET Block
      /\ BlocksApart(arena, free, u, P) /\ RunsApart(arena, u, P)
      /\ new = [arena EXCEPT ![v] = [large |-> TRUE, cnt |-> n, own |-> TRUE]]
  BY DEF Sound, Renewed
<1> USE <1>0
<1>1. /\ new[v] = [large |-> TRUE, cnt |-> n, own |-> TRUE]
      /\ \A w \in UPage : w # v => new[w] = arena[w]
  OBVIOUS
<1>2. new[v] \in Arena /\ ~Small(new[v]) /\ new[v].large /\ new[v].cnt = n
  BY <1>1 DEF Arena, Small
<1>3. new \in [UPage -> Arena] /\ u \cup {<< v, 1 >>} \in SUBSET Block
  BY <1>2, BlockFacts
<1>4. v \in Run(v, n) /\ v \notin P /\ v \in P2 /\ << v, 1 >>[1] = v
  BY BlockFacts DEF Run
<1>5. ~Small(arena[v])
  BY <1>4 DEF BlocksApart
<1> DEFINE b == << v, 1 >>
<1> HIDE DEF b
<1>6. BlocksApart(new, free, u \cup {b}, P2)
  <2>1. \A c \in free : c[1] \in UPage /\ c[1] # v /\ Small(arena[c[1]])
    BY <1>5, BlockFacts DEF BlocksApart
  <2>2. free \cap (u \cup {b}) = {}
    BY <1>4, <2>1 DEF BlocksApart, b
  <2>3. \A w \in UPage : Small(new[w]) => w # v /\ Small(arena[w]) /\ new[w] = arena[w]
    BY <1>1, <1>2
  <2>4. \A c \in u \cup {b} : c[1] \in P2
    BY <1>4 DEF BlocksApart, b
  <2>5. QED  BY <1>1, <2>1, <2>2, <2>3, <2>4 DEF BlocksApart
<1>7. RunsApart(new, u \cup {b}, P2)
  <2> SUFFICES ASSUME NEW w \in UPage, new[w].large
               PROVE  /\ Run(w, new[w].cnt) \subseteq P2
                      /\ \A x \in UPage : x # w /\ new[x].large =>
                           Run(w, new[w].cnt) \cap Run(x, new[x].cnt) = {}
                      /\ \A x \in UPage : Small(new[x]) => x \notin Run(w, new[w].cnt)
                      /\ \A c \in u \cup {b} : c[1] \in Run(w, new[w].cnt) => c = << w, 1 >>
    BY DEF RunsApart
  <2>1. \A x \in UPage : x # v /\ arena[x].large => Run(x, arena[x].cnt) \subseteq P
    BY DEF RunsApart
  <2>2. \A x \in UPage : Small(new[x]) => x # v /\ Small(arena[x]) /\ x \in P
    BY <1>1, <1>2 DEF BlocksApart
  <2>3. CASE w = v
    <3>1. Run(w, new[w].cnt) = Run(v, n)
      BY <1>2, <2>3
    <3>2. \A x \in UPage : x # w /\ new[x].large => Run(x, new[x].cnt) \subseteq P
      BY <1>1, <2>1, <2>3
    <3>3. \A c \in u : c[1] \in P
      BY DEF BlocksApart
    <3>4. QED  BY <2>2, <2>3, <3>1, <3>2, <3>3 DEF b
  <2>4. CASE w # v
    <3>1. new[w] = arena[w] /\ arena[w].large /\ Run(w, arena[w].cnt) \subseteq P
      BY <1>1, <2>1, <2>4
    <3>2. \A x \in UPage : x # w /\ new[x].large =>
                           Run(w, new[w].cnt) \cap Run(x, new[x].cnt) = {}
      BY <1>1, <1>2, <3>1 DEF RunsApart
    <3>3. \A x \in UPage : Small(new[x]) => x \notin Run(w, new[w].cnt)
      BY <2>2, <3>1 DEF RunsApart
    <3>4. \A c \in u \cup {b} : c[1] \in Run(w, new[w].cnt) => c = << w, 1 >>
      BY <1>4, <3>1 DEF RunsApart, b
    <3>5. QED  BY <3>1, <3>2, <3>3, <3>4
  <2>5. QED  BY <2>3, <2>4
<1>8. QED  BY <1>3, <1>6, <1>7 DEF b, Sound

(* A small block is freed and its arena keeps used ones.                   *)
LEMMA GivenBack ==
  ASSUME NEW arena, NEW free, NEW u, NEW P, Sound(arena, free, u, P),
         NEW b \in u, Small(arena[b[1]]), NEW new, OneMore(arena, new, b[1])
  PROVE  Sound(new, free \cup {b}, u \ {b}, P)
<1>0. /\ arena \in [UPage -> Arena] /\ u \in SUBSET Block /\ free \in SUBSET Block
      /\ BlocksApart(arena, free, u, P) /\ RunsApart(arena, u, P)
      /\ new = [arena EXCEPT ![b[1]].cnt = @ + 1]
  BY DEF Sound, OneMore
<1> USE <1>0
<1> DEFINE v == b[1]
           mine == free \cap BlocksOf(v)
<1>1. v \in UPage /\ b \in BlocksOf(v) /\ b \notin free
  BY BlockFacts DEF BlocksApart
<1>2. arena[v].cnt = Cardinality(mine) /\ BlocksOf(v) \subseteq free \cup u /\ v \in P
  BY <1>1 DEF BlocksApart
<1>3. IsFiniteSet(mine) /\ Cardinality(mine) \in Nat
  <2>1. IsFiniteSet(mine)
    BY <1>1, BlockFacts, FS_Subset
  <2>2. QED  BY <2>1, FS_CardinalityType
<1>4. Cardinality(mine \cup {b}) = Cardinality(mine) + 1
  BY <1>1, <1>3, FS_AddElement
<1>5. (free \cup {b}) \cap BlocksOf(v) = mine \cup {b}
  BY <1>1
<1>6. \A w \in UPage : w # v => (free \cup {b}) \cap BlocksOf(w) = free \cap BlocksOf(w)
  BY BlockFacts
<1>7. arena[v] \in Arena /\ Small(arena[v])
  BY <1>1
<1> HIDE DEF v, mine
<1>8. new = [arena EXCEPT ![v] = [arena[v] EXCEPT !.cnt = @ + 1]]
  BY DEF v
<1>9. /\ new[v].cnt = Cardinality(mine \cup {b}) /\ new[v].large = arena[v].large
      /\ new[v].own = arena[v].own /\ new[v] \in Arena
  BY <1>1, <1>2, <1>3, <1>4, <1>7, <1>8 DEF Arena
<1>10. \A w \in UPage : w # v => new[w] = arena[w]
  BY <1>8
<1>11. \A w \in UPage : Small(new[w]) <=> Small(arena[w])
  BY <1>9, <1>10 DEF Small
<1>12. new \in [UPage -> Arena]
  BY <1>1, <1>8, <1>9
<1>13. BlocksApart(new, free \cup {b}, u \ {b}, P)
  <2>1. (free \cup {b}) \cap (u \ {b}) = {}
    BY DEF BlocksApart
  <2>2. \A c \in free \cup {b} : Small(new[c[1]])
    BY <1>7, <1>11, BlockFacts DEF BlocksApart, v
  <2>3. ASSUME NEW w \in UPage, Small(new[w])
        PROVE  /\ new[w].cnt = Cardinality((free \cup {b}) \cap BlocksOf(w))
               /\ BlocksOf(w) \subseteq (free \cup {b}) \cup (u \ {b})
               /\ w \in P
    <3>1. CASE w = v
      BY <1>2, <1>5, <1>9, <3>1
    <3>2. CASE w # v
      BY <1>6, <1>10, <1>11, <2>3, <3>2 DEF BlocksApart
    <3>3. QED  BY <3>1, <3>2
  <2>4. \A c \in u \ {b} : c[1] \in P
    BY DEF BlocksApart
  <2>5. QED  BY <2>1, <2>2, <2>3, <2>4 DEF BlocksApart
<1>14. RunsApart(new, u \ {b}, P)
  <2>1. \A w \in UPage : new[w].large => w # v
    BY <1>7, <1>9 DEF Small
  <2>2. QED  BY <1>10, <1>11, <2>1 DEF RunsApart
<1>15. QED  BY <1>12, <1>13, <1>14 DEF Sound

(* The last block of an arena to be freed: the others are free.            *)
LEMMA LastOfArena ==
  ASSUME NEW arena, NEW free, NEW u, NEW P, Sound(arena, free, u, P),
         NEW b \in u, Small(arena[b[1]]),
         ~(arena[b[1]].cnt + 1 < BlocksPerArena)
  PROVE  BlocksOf(b[1]) \subseteq free \cup {b}
<1>0. /\ arena \in [UPage -> Arena] /\ u \in SUBSET Block /\ free \in SUBSET Block
      /\ BlocksApart(arena, free, u, P) /\ RunsApart(arena, u, P)
  BY DEF Sound
<1> USE <1>0
<1> DEFINE v == b[1]
           mine == free \cap BlocksOf(v)
<1>1. v \in UPage /\ b \in BlocksOf(v) /\ b \notin free
  BY BlockFacts DEF BlocksApart
<1>2. arena[v].cnt = Cardinality(mine)
  BY <1>1 DEF BlocksApart
<1>3. IsFiniteSet(BlocksOf(v)) /\ Cardinality(BlocksOf(v)) = BlocksPerArena /\ BlocksPerArena \in Nat
  BY <1>1, BlockFacts
<1>4. IsFiniteSet(mine) /\ Cardinality(mine) \in Nat
  <2>1. IsFiniteSet(mine)
    BY <1>3, FS_Subset
  <2>2. QED  BY <2>1, FS_CardinalityType
<1>5. Cardinality(mine \cup {b}) = Cardinality(mine) + 1
  BY <1>1, <1>4, FS_AddElement
<1>6. mine \cup {b} \subseteq BlocksOf(v)
  BY <1>1
<1>7. Cardinality(mine \cup {b}) <= BlocksPerArena
  BY <1>3, <1>6, FS_Subset
<1>8. Cardinality(mine \cup {b}) = Cardinality(BlocksOf(v))
  BY <1>2, <1>3, <1>4, <1>5, <1>7
<1>9. mine \cup {b} = BlocksOf(v)
  BY <1>3, <1>6, <1>8, FS_Subset
<1>10. QED  BY <1>9

(* All its blocks are free: the arena's page is given back.                *)
LEMMA ArenaGone ==
  ASSUME NEW arena, NEW free, NEW u, NEW P, Sound(arena, free, u, P),
         NEW b \in u, Small(arena[b[1]]), BlocksOf(b[1]) \subseteq free \cup {b},
         NEW new, Renewed(arena, new, b[1], NoArena),
         NEW rest, rest = {c \in free \cup {b} : c[1] # b[1]}
  PROVE  Sound(new, rest, u \ {b}, P \ {b[1]})
<1>0. /\ arena \in [UPage -> Arena] /\ u \in SUBSET Block /\ free \in SUBSET Block
      /\ BlocksApart(arena, free, u, P) /\ RunsApart(arena, u, P)
      /\ new = [arena EXCEPT ![b[1]] = NoArena]
  BY DEF Sound, Renewed
<1> USE <1>0
<1> DEFINE v == b[1]
<1>1. v \in UPage /\ b \in BlocksOf(v) /\ free \cap u = {} /\ v \in P
  BY BlockFacts DEF BlocksApart
<1>2. \A c \in u \ {b} : c[1] \in P /\ c[1] # v
  <2>1. \A c \in u \ {b} : c[1] \in P
    BY DEF BlocksApart
  <2>2. \A c \in u \ {b} : c \notin free \cup {b}
    BY <1>1
  <2>3. \A c \in u \ {b} : c \in BlocksOf(c[1])
    BY BlockFacts
  <2>4. QED  BY <2>1, <2>2, <2>3
<1> HIDE DEF v
<1>3. ~Small(new[v]) /\ ~new[v].large /\ new \in [UPage -> Arena]
  BY <1>1 DEF NoArena, Small, Arena, v
<1>4. \A w \in UPage : w # v => new[w] = arena[w]
  BY DEF v
<1>5. rest = {c \in free : c[1] # v}
  BY DEF v
<1>6. BlocksApart(new, rest, u \ {b}, P \ {v})
  <2>1. rest \cap (u \ {b}) = {}
    BY <1>1, <1>5
  <2>2. \A c \in rest : Small(new[c[1]])
    BY <1>4, <1>5, BlockFacts DEF BlocksApart
  <2>3. ASSUME NEW w \in UPage, Small(new[w])
        PROVE  /\ new[w].cnt = Cardinality(rest \cap BlocksOf(w))
               /\ BlocksOf(w) \subseteq rest \cup (u \ {b})
               /\ w \in P \ {v}
    <3>1. w # v /\ new[w] = arena[w]
      BY <1>3, <1>4, <2>3
    <3>2. /\ arena[w].cnt = Cardinality(free \cap BlocksOf(w))
          /\ BlocksOf(w) \subseteq free \cup u /\ w \in P
      BY <2>3, <3>1 DEF BlocksApart
    <3>3. \A c \in BlocksOf(w) : c[1] = w /\ c # b
      BY <3>1, BlockFacts DEF v
    <3>4. rest \cap BlocksOf(w) = free \cap BlocksOf(w) /\ BlocksOf(w) \subseteq rest \cup (u \ {b})
      BY <1>5, <3>1, <3>2, <3>3
    <3>5. QED  BY <3>1, <3>2, <3>4
  <2>4. QED  BY <1>2, <2>1, <2>2, <2>3 DEF BlocksApart
<1>7. RunsApart(new, u \ {b}, P \ {v})
  <2>1. \A w \in UPage : new[w].large => w # v /\ new[w] = arena[w]
    BY <1>3, <1>4
  <2>2. \A w \in UPage : Small(new[w]) => w # v /\ new[w] = arena[w]
    BY <1>3, <1>4
  <2>3. \A w \in UPage : arena[w].large => v \notin Run(w, arena[w].cnt)
    BY <1>1 DEF RunsApart, v
  <2>4. QED  BY <2>1, <2>2, <2>3 DEF RunsApart
<1>8. QED  BY <1>3, <1>5, <1>6, <1>7 DEF v, Sound

(* A large block is freed.                                                 *)
LEMMA LargeGone ==
  ASSUME NEW arena, NEW free, NEW u, NEW P, Sound(arena, free, u, P),
         NEW b \in u, arena[b[1]].large, NEW W, W = Run(b[1], arena[b[1]].cnt),
         NEW new, Renewed(arena, new, b[1], NoArena)
  PROVE  Sound(new, free, u \ {b}, P \ W)
<1>0. /\ arena \in [UPage -> Arena] /\ u \in SUBSET Block /\ free \in SUBSET Block
      /\ BlocksApart(arena, free, u, P) /\ RunsApart(arena, u, P)
      /\ new = [arena EXCEPT ![b[1]] = NoArena]
  BY DEF Sound, Renewed
<1> USE <1>0
<1> DEFINE v == b[1]
           n == arena[v].cnt
<1>1. v \in UPage /\ v \in Nat /\ n \in Nat /\ ~Small(arena[v])
  BY BlockFacts DEF Arena, Small
<1>2. \A c \in u : c[1] \in W => c = b
  <2>1. W # {} => v \in W
    BY <1>1 DEF Run
  <2>2. \A c \in u : c[1] \in W => c = << v, 1 >>
    BY <1>1 DEF RunsApart
  <2>3. QED  BY <2>1, <2>2
<1>3. \A w \in UPage : Small(arena[w]) => w \notin W
  BY <1>1 DEF RunsApart
<1>4. \A w \in UPage : w # v /\ arena[w].large => Run(w, arena[w].cnt) \cap W = {}
  BY <1>1 DEF RunsApart
<1> HIDE DEF v, n
<1>5. ~Small(new[v]) /\ ~new[v].large /\ new \in [UPage -> Arena]
  BY <1>1 DEF NoArena, Small, Arena, v
<1>6. \A w \in UPage : w # v => new[w] = arena[w]
  BY DEF v
<1>7. BlocksApart(new, free, u \ {b}, P \ W)
  <2>1. \A c \in u \ {b} : c[1] \in P \ W
    BY <1>2 DEF BlocksApart
  <2>2. \A c \in free : Small(new[c[1]])
    BY <1>1, <1>6, BlockFacts DEF BlocksApart
  <2>3. ASSUME NEW w \in UPage, Small(new[w])
        PROVE  /\ new[w].cnt = Cardinality(free \cap BlocksOf(w))
               /\ BlocksOf(w) \subseteq free \cup (u \ {b})
               /\ w \in P \ W
    <3>1. w # v /\ new[w] = arena[w]
      BY <1>5, <1>6, <2>3
    <3>2. /\ arena[w].cnt = Cardinality(free \cap BlocksOf(w))
          /\ BlocksOf(w) \subseteq free \cup u /\ w \in P
      BY <2>3, <3>1 DEF BlocksApart
    <3>3. b \notin BlocksOf(w)
      BY <3>1, BlockFacts DEF v
    <3>4. QED  BY <1>3, <2>3, <3>1, <3>2, <3>3
  <2>4. QED  BY <2>1, <2>2, <2>3 DEF BlocksApart
<1>8. RunsApart(new, u \ {b}, P \ W)
  <2>1. \A w \in UPage : new[w].large => w # v /\ new[w] = arena[w]
    BY <1>5, <1>6
  <2>2. \A w \in UPage : Small(new[w]) => w # v /\ new[w] = arena[w]
    BY <1>5, <1>6
  <2>3. QED  BY <1>4, <2>1, <2>2 DEF RunsApart
<1>9. QED  BY <1>5, <1>7, <1>8 DEF Sound

(* fork: the child's arenas are inherited and its free list is empty.      *)
LEMMA HeapInherited ==
  ASSUME NEW p \in Proc, NEW P, heap[p] \in [arena : [UPage -> Arena], free : Seq(Block)],
         HeapInv(heap[p], used[p], P), NEW h, h = ChildHeap(p)
  PROVE  /\ h \in [arena : [UPage -> Arena], free : Seq(Block)]
         /\ HeapInv(h, used[p], P)
<1> DEFINE old == heap[p].arena
<1>1. /\ h.free = << >> /\ h.arena = [v \in UPage |-> [old[v] EXCEPT !.own = FALSE]]
      /\ h = [arena |-> h.arena, free |-> << >>]
  BY DEF ChildHeap
<1>2. \A v \in UPage : old[v] \in Arena
  OBVIOUS
<1> HIDE DEF old
<1>3. ASSUME NEW v \in UPage
      PROVE  /\ h.arena[v] \in Arena /\ ~Small(h.arena[v])
             /\ h.arena[v].large = old[v].large /\ h.arena[v].cnt = old[v].cnt
  <2>1. h.arena[v] = [old[v] EXCEPT !.own = FALSE] /\ old[v] \in Arena
    BY <1>1, <1>2
  <2>2. QED  BY <2>1 DEF Arena, Small
<1>4. h.arena \in [UPage -> Arena]
  BY <1>1, <1>3
<1>5. ToSet(h.free) = {} /\ IsInjective(h.free) /\ h.free \in Seq(Block)
  BY <1>1 DEF ToSet, IsInjective
<1>6. BlocksApart(h.arena, {}, used[p], P)
  BY <1>3 DEF BlocksApart, HeapInv
<1>7. RunsApart(h.arena, used[p], P)
  BY <1>3 DEF RunsApart, HeapInv, old
<1>8. QED  BY <1>1, <1>4, <1>5, <1>6, <1>7 DEF HeapInv

-----------------------------------------------------------------------------
(***************************************************************************)
(* The steps of a process in its own pages                                 *)
(***************************************************************************)
\* Only the space s has changed.
OnlySpace(m, a, s) ==
  /\ \A t \in Space : t # s => a.vaddr[t] = m.vaddr[t] /\ a.pte[t] = m.pte[t]
  /\ \A t \in Proc : t # s => a.pde[t] = m.pde[t]
  /\ (m.oom => a.oom) /\ (m.fault => a.fault)

(* Getting pages touches no other address space.                           *)
LEMMA ObtainsOnly ==
  ASSUME NEW m, MemTypeOK(m), NEW s \in Space, NEW n, NEW r, Obtains(m, r, s, n)
  PROVE  OnlySpace(m, r.m, s) /\ Mapped(m, s) \subseteq Mapped(r.m, s)
<1>1. CASE r.m = m
  BY <1>1 DEF OnlySpace
<1>2. ASSUME NEW W, Gains(m, r.m, s, W), r.m.vaddr = [m.vaddr EXCEPT ![s] = @ \cup W]
      PROVE  OnlySpace(m, r.m, s) /\ Mapped(m, s) \subseteq Mapped(r.m, s)
  <2>1. m.vaddr \in [Space -> SUBSET (KPage \cup UPage)]
    BY DEF MemTypeOK
  <2>2. QED  BY <1>2, <2>1 DEF Gains, OnlySpace, Mapped
<1>3. QED  BY <1>1, <1>2 DEF Obtains

(* Giving pages back touches no other address space.                       *)
LEMMA FreesOnly ==
  ASSUME NEW m, MemTypeOK(m), NEW s \in Space, NEW W, NEW a,
         \/ Frees(m, a, s, W)
         \/ a.fault /\ m.oom /\ a.oom /\ a.vaddr = m.vaddr /\ a.pte = m.pte /\ a.pde = m.pde
  PROVE  OnlySpace(m, a, s) /\ (Frees(m, a, s, W) => Mapped(a, s) = Mapped(m, s) \ W)
<1>1. m.vaddr \in [Space -> SUBSET (KPage \cup UPage)]
  BY DEF MemTypeOK
<1>2. OnlySpace(m, a, s)
  BY <1>1 DEF Frees, OnlySpace
<1>3. Frees(m, a, s, W) => Mapped(a, s) = Mapped(m, s) \ W
  BY DEF Frees, Mapped
<1>4. QED  BY <1>2, <1>3

Heaps == [arena : [UPage -> Arena], free : Seq(Block)]

(* The invariant is kept when the running process changes its pages and    *)
(* its heap only, the way its heap's invariant allows.                     *)
LEMMA UserStep ==
  ASSUME IInv, UNCHANGED << proc, cur, asleep, lost >>, OnlySpace(mem, mem', cur), MemInv(mem', Alive),
         NEW h \in Heaps, NEW u \in SUBSET Block,
         heap' = [heap EXCEPT ![cur] = h], used' = [used EXCEPT ![cur] = u],
         user_lock' \in KPage \cup {None}, ~mem'.oom => user_lock' = None,
         ~mem'.fault => HeapInv(h, u, Mapped(mem', cur))
  PROVE  IInv'
<1>1. TypeOK /\ cur \in Alive /\ cur \in Proc /\ cur # kernel
  BY Spaces DEF IInv, TypeOK, Alive
<1>2. Alive' = Alive /\ cur' = cur
  BY DEF Alive
<1>3. /\ heap' \in [Proc -> Heaps] /\ used' \in [Proc -> SUBSET Block]
      /\ \A p \in Proc : heap'[p] = IF p = cur THEN h ELSE heap[p]
      /\ \A p \in Proc : used'[p] = IF p = cur THEN u ELSE used[p]
  BY <1>1 DEF TypeOK, Heaps
<1>4. \A p \in Proc : p # cur => Mapped(mem', p) = Mapped(mem, p)
  BY Spaces DEF OnlySpace, Mapped
<1>5. TypeOK'
  <2>1. MemTypeOK(mem')
    BY DEF MemInv
  <2>2. QED  BY <1>1, <1>2, <1>3, <2>1 DEF TypeOK, Heaps
<1>6. MemInv(mem', Alive')
  BY <1>2
<1>7. UnusedEmpty'
  <2>1. \A p \in Proc : proc[p].status = "none" => p # cur
    BY <1>1 DEF Alive
  <2>2. QED  BY <1>1, <2>1, Spaces DEF IInv, UnusedEmpty, OnlySpace
<1>8. ~mem'.fault => KPagesInv'
  <2>1. mem'.vaddr[kernel] = mem.vaddr[kernel]
    BY <1>1, Spaces DEF OnlySpace
  <2>2. \A p \in Proc : KernelPagesOf(p)' = KernelPagesOf(p) /\ BitmapOf(p)' = BitmapOf(p)
    BY DEF KernelPagesOf, BitmapOf
  <2>3. Exists' = Exists
    BY DEF Exists
  <2>4. ~mem'.fault => KPagesInv
    BY DEF IInv, OnlySpace
  <2> HIDE DEF Exists
  <2>5. KPagesInv => KPagesInv'
    <3>1. \A p \in Proc : proc'[p] = proc[p]
      OBVIOUS
    <3>2. lost' = lost
      OBVIOUS
    <3> SUFFICES ASSUME KPagesInv PROVE KPagesInv'
      OBVIOUS
    <3>3. /\ lost' \subseteq mem'.vaddr[kernel]
          /\ \A p \in Proc : KernelPagesOf(p)' \subseteq mem'.vaddr[kernel]
          /\ \A k \in mem'.vaddr[kernel] : k \in lost' \/ \E p \in Proc : k \in KernelPagesOf(p)'
      BY <2>1, <2>2, <3>2 DEF KPagesInv
    <3>4. /\ \A p \in Proc : KernelPagesOf(p)' \cap lost' = {}
          /\ \A p, q \in Proc : p # q => KernelPagesOf(p)' \cap KernelPagesOf(q)' = {}
      BY <2>2, <3>2 DEF KPagesInv
    <3>5. \A p \in Exists' : proc'[p].pcb # proc'[p].dir
                       /\ {proc'[p].pcb, proc'[p].dir} \cap BitmapOf(p)' = {}
      BY <2>2, <2>3, <3>1 DEF KPagesInv, Exists
    <3>6. QED  BY <3>3, <3>4, <3>5 DEF KPagesInv
  <2>6. QED  BY <2>4, <2>5
<1>9. ~mem'.fault => \A p \in Alive' : HeapInv(heap'[p], used'[p], Mapped(mem', p))
  <2> SUFFICES ASSUME ~mem'.fault, NEW p \in Alive
               PROVE  HeapInv(heap'[p], used'[p], Mapped(mem', p))
    BY <1>2
  <2>1. p \in Proc /\ ~mem.fault
    BY DEF Alive, OnlySpace
  <2>2. CASE p = cur
    BY <1>3, <2>1, <2>2
  <2>3. CASE p # cur
    BY <1>3, <1>4, <2>1, <2>3 DEF IInv
  <2>4. QED  BY <2>2, <2>3
<1>10. QED
  BY <1>5, <1>6, <1>7, <1>8, <1>9 DEF IInv

(* The heap of the running process before a system call.                   *)
LEMMA Running ==
  ASSUME IInv, ~mem.fault
  PROVE  /\ cur \in Alive /\ cur \in Proc /\ cur \in Space /\ cur # kernel /\ Pages(cur) = UPage
         /\ Alive \in SUBSET Proc /\ MemTypeOK(mem) /\ MemInv(mem, Alive)
         /\ heap \in [Proc -> Heaps] /\ used \in [Proc -> SUBSET Block]
         /\ heap[cur].arena \in [UPage -> Arena] /\ heap[cur].free \in Seq(Block)
         /\ heap[cur] = [arena |-> heap[cur].arena, free |-> heap[cur].free]
         /\ ToSet(heap[cur].free) \in SUBSET Block /\ used[cur] \in SUBSET Block
         /\ HeapInv(heap[cur], used[cur], Mapped(mem, cur))
         /\ heap = [heap EXCEPT ![cur] = heap[cur]] /\ used = [used EXCEPT ![cur] = used[cur]]
         /\ user_lock \in KPage \cup {None} /\ (~mem.oom => user_lock = None)
<1>1. cur \in Alive /\ cur \in Proc /\ Alive \in SUBSET Proc /\ MemTypeOK(mem) /\ MemInv(mem, Alive)
  BY DEF IInv, TypeOK, Alive
<1>2. cur \in Space /\ cur # kernel /\ Pages(cur) = UPage
  BY <1>1, Spaces
<1>3. /\ heap \in [Proc -> Heaps] /\ used \in [Proc -> SUBSET Block]
      /\ user_lock \in KPage \cup {None}
  BY DEF IInv, TypeOK, Heaps
<1>4. heap[cur] \in Heaps /\ used[cur] \in SUBSET Block
  BY <1>1, <1>3
<1>5. ToSet(heap[cur].free) \in SUBSET Block
  BY <1>4 DEF Heaps, ToSet
<1>6. HeapInv(heap[cur], used[cur], Mapped(mem, cur)) /\ (~mem.oom => user_lock = None)
  BY <1>1 DEF IInv
<1>7. heap = [heap EXCEPT ![cur] = heap[cur]] /\ used = [used EXCEPT ![cur] = used[cur]]
  BY <1>3
<1>8. QED  BY <1>1, <1>2, <1>3, <1>4, <1>5, <1>6, <1>7 DEF Heaps

(* list_pop from a free list that is not empty.                            *)
Popped(h, arena, s) ==
  h = [arena |-> [arena EXCEPT ![Head(s)[1]].cnt = @ - 1], free |-> Tail(s)]

(* Handing out the first free block keeps the heap in order.               *)
LEMMA SmallBlockTaken ==
  ASSUME NEW arena, NEW s \in Seq(Block), s # << >>, IsInjective(s),
         NEW u, NEW P, Sound(arena, ToSet(s), u, P), NEW h, Popped(h, arena, s)
  PROVE  h \in Heaps /\ u \cup {Head(s)} \in SUBSET Block /\ HeapInv(h, u \cup {Head(s)}, P)
<1> DEFINE b == Head(s)
<1>1. h = [arena |-> [arena EXCEPT ![b[1]].cnt = @ - 1], free |-> Tail(s)]
  BY DEF Popped
<1>2. /\ b \in ToSet(s) /\ b \in Block /\ Tail(s) \in Seq(Block) /\ IsInjective(Tail(s))
      /\ ToSet(Tail(s)) = ToSet(s) \ {b}
  BY PopFacts
<1> HIDE DEF b
<1>3. PICK new : OneLess(arena, new, b[1])
  BY DEF OneLess
<1>4. Sound(new, ToSet(s) \ {b}, u \cup {b}, P)
  BY <1>2, <1>3, Taken
<1>5. h.arena = new /\ h.free = Tail(s) /\ h = [arena |-> new, free |-> Tail(s)]
  BY <1>1, <1>3 DEF OneLess
<1>6. HeapInv(h, u \cup {b}, P)
  BY <1>2, <1>4, <1>5 DEF HeapInv, Sound
<1>7. QED  BY <1>2, <1>4, <1>5, <1>6 DEF Heaps, Sound, b

(* sys_malloc of a small size: from the free list, or from a new arena.    *)
LEMMA MallocSmallStep == ASSUME IInv, sys_malloc_small PROVE IInv'
<1> DEFINE h0 == heap[cur]
           u0 == used[cur]
<1>1. PoolOpen /\ ~mem.fault /\ UNCHANGED << proc, cur, user_lock, asleep, lost >>
  BY DEF sys_malloc_small, PoolOpen, Runs
<1>2. CASE h0.free # << >>
  <2>1. SmallBlock(cur, h0.arena, h0.free) /\ UNCHANGED mem
    BY <1>2 DEF sys_malloc_small
  <2> DEFINE h == [arena |-> [h0.arena EXCEPT ![Head(h0.free)[1]].cnt = @ - 1],
                   free |-> Tail(h0.free)]
             u == u0 \cup {Head(h0.free)}
  <2>2. heap' = [heap EXCEPT ![cur] = h] /\ used' = [used EXCEPT ![cur] = u]
    BY <2>1 DEF SmallBlock
  <2>3. h \in Heaps /\ u \in SUBSET Block /\ HeapInv(h, u, Mapped(mem, cur))
    <3>1. Sound(h0.arena, ToSet(h0.free), u0, Mapped(mem, cur)) /\ IsInjective(h0.free)
      BY <1>1, Running DEF Sound, HeapInv
    <3>2. h0.free \in Seq(Block)
      BY <1>1, Running
    <3>3. Popped(h, h0.arena, h0.free)
      BY DEF Popped
    <3> HIDE DEF h, h0, u0
    <3>4. QED  BY <1>2, <3>1, <3>2, <3>3, SmallBlockTaken
  <2> HIDE DEF h, u
  <2>4. OnlySpace(mem, mem', cur) /\ MemInv(mem', Alive) /\ mem' = mem
    BY <1>1, <2>1, Running DEF OnlySpace
  <2>5. QED  BY <1>1, <2>2, <2>3, <2>4, UserStep, Running
<1>3. CASE h0.free = << >>
  <2>1. PICK a : a = malloc_page(mem, cur, 1)
    OBVIOUS
  <2>2. MemInv(a.m, Alive) /\ Obtains(mem, a, cur, 1)
    BY <1>1, <2>1, MallocPage, Running
  <2>3. OnlySpace(mem, a.m, cur) /\ Mapped(mem, cur) \subseteq Mapped(a.m, cur)
    BY <1>1, <2>2, ObtainsOnly, Running
  <2>4. HeapInv(h0, u0, Mapped(a.m, cur)) /\ mem' = a.m
    BY <1>1, <1>3, <2>1, <2>3, MorePages, Running DEF sys_malloc_small
  <2>5. (~mem'.oom => user_lock' = None) /\ user_lock' \in KPage \cup {None}
    BY <1>1, <2>3, <2>4, Running DEF OnlySpace
  <2>6. CASE a.ret = None
    <3>1. heap' = heap /\ used' = used
      BY <1>3, <2>1, <2>6 DEF sys_malloc_small
    <3>2. h0 \in Heaps
      BY <1>1, Running
    <3>3. QED  BY <1>1, <2>2, <2>3, <2>4, <2>5, <3>1, <3>2, UserStep, Running
  <2>7. CASE a.ret # None
    <3> DEFINE v == a.ret
               ar == [h0.arena EXCEPT ![v] = [large |-> FALSE, cnt |-> BlocksPerArena, own |-> TRUE]]
               s == [i \in 1 .. BlocksPerArena |-> << v, i >>]
    <3>1. /\ v \in UPage /\ v \notin mem.vaddr[cur]
          /\ a.m.fault \/ v \in Mapped(a.m, cur)
      <4>1. PICK start \in Nat : /\ start \in UPage /\ Run(start, 1) \subseteq UPage \ mem.vaddr[cur]
                                 /\ a.ret = start
                                 /\ a.m.fault \/ Run(start, 1) \subseteq Mapped(a.m, cur)
        BY <1>1, <2>2, <2>7, Running DEF Obtains
      <4>2. QED  BY <4>1, RunOfOne
    <3>2. v \notin Mapped(mem, cur)
      BY <1>1, <3>1, Running DEF MemInv, Covered
    <3>3. SmallBlock(cur, ar, s)
      BY <1>3, <2>1, <2>7 DEF sys_malloc_small
    <3> DEFINE h == [arena |-> [ar EXCEPT ![Head(s)[1]].cnt = @ - 1], free |-> Tail(s)]
               u == u0 \cup {Head(s)}
    <3>4. heap' = [heap EXCEPT ![cur] = h] /\ used' = [used EXCEPT ![cur] = u]
      BY <3>3 DEF SmallBlock
    <3>5. s \in Seq(Block) /\ s # << >> /\ IsInjective(s) /\ ToSet(s) = BlocksOf(v)
      <4>1. BlocksPerArena \in Nat \ {0}
        BY BlockFacts
      <4>2. s \in Seq(Block) /\ DOMAIN s = 1 .. BlocksPerArena /\ s # << >>
        BY <3>1, <4>1 DEF Block
      <4>3. \A i \in 1 .. BlocksPerArena : s[i] = << v, i >>
        OBVIOUS
      <4>4. IsInjective(s)
        BY <4>2, <4>3 DEF IsInjective
      <4>5. ToSet(s) = BlocksOf(v)
        BY <4>2, <4>3 DEF ToSet, BlocksOf
      <4>6. QED  BY <4>2, <4>4, <4>5
    <3>6. ToSet(h0.free) = {}
      BY <1>3 DEF ToSet
    <3>7. BlocksApart(h0.arena, {}, u0, Mapped(mem, cur)) /\ RunsApart(h0.arena, u0, Mapped(mem, cur))
      BY <1>1, <3>6, Running DEF HeapInv
    <3> HIDE DEF s
    <3>8. PICK new : new = ar
      OBVIOUS
    <3>9. PICK P2 : P2 = Mapped(a.m, cur) \cup {v}
      OBVIOUS
    <3>10. PICK P : P = Mapped(mem, cur)
      OBVIOUS
    <3>11. u0 \in SUBSET Block /\ h0.arena \in [UPage -> Arena]
      BY <1>1, Running
    <3>12. P \subseteq P2 /\ v \in P2 /\ v \notin P /\ v \in UPage
      BY <2>3, <3>1, <3>2, <3>9, <3>10
    <3> HIDE DEF h0, u0, v
    <3>13. Sound(new, BlocksOf(v), u0, P2)
      <4>1. Renewed(h0.arena, new, v, [large |-> FALSE, cnt |-> BlocksPerArena, own |-> TRUE])
        BY <3>8 DEF Renewed
      <4>2. Sound(h0.arena, {}, u0, P)
        BY <3>7, <3>10, <3>11 DEF Sound
      <4>3. QED  BY <3>12, <4>1, <4>2, ArenaMade
    <3> HIDE DEF ar
    <3>14. Sound(new, ToSet(s), u0, P2)
      BY <3>5, <3>13
    <3>15. Popped(h, new, s)
      BY <3>8 DEF Popped, ar
    <3> HIDE DEF h
    <3>16. h \in Heaps /\ u \in SUBSET Block /\ HeapInv(h, u, P2)
      BY <3>5, <3>14, <3>15, SmallBlockTaken
    <3>17. ~mem'.fault => P2 = Mapped(mem', cur)
      BY <2>4, <3>1, <3>9 DEF v
    <3> HIDE DEF u
    <3>18. QED
      BY <1>1, <2>2, <2>3, <2>4, <2>5, <3>4, <3>16, <3>17, UserStep
  <2>8. QED  BY <2>6, <2>7
<1>4. QED  BY <1>2, <1>3

(* sys_malloc of a large size: pages of its own.                           *)
LEMMA MallocLargeStep == ASSUME IInv, sys_malloc_large PROVE IInv'
<1> DEFINE h0 == heap[cur]
           u0 == used[cur]
<1>1. PoolOpen /\ ~mem.fault /\ UNCHANGED << proc, cur, user_lock, asleep, lost >>
  BY DEF sys_malloc_large, PoolOpen, Runs
<1>2. PICK n \in LargeSizes :
        LET a == malloc_page(mem, cur, n) IN
        /\ mem' = a.m
        /\ IF a.ret = None
           THEN UNCHANGED << heap, used >>
           ELSE /\ heap' = [heap EXCEPT ![cur].arena[a.ret] =
                              [large |-> TRUE, cnt |-> n, own |-> TRUE]]
                /\ used' = [used EXCEPT ![cur] = @ \cup {<< a.ret, 1 >>}]
  BY DEF sys_malloc_large
<1>3. PICK a : a = malloc_page(mem, cur, n)
  OBVIOUS
<1>4. n \in Nat \ {0}
  BY MemoryAssumption
<1>5. MemInv(a.m, Alive) /\ Obtains(mem, a, cur, n)
  BY <1>1, <1>3, <1>4, MallocPage, Running
<1>6. OnlySpace(mem, a.m, cur) /\ Mapped(mem, cur) \subseteq Mapped(a.m, cur)
  BY <1>1, <1>5, ObtainsOnly, Running
<1>7. HeapInv(h0, u0, Mapped(a.m, cur)) /\ mem' = a.m
  BY <1>1, <1>2, <1>3, <1>6, MorePages, Running
<1>8. (~mem'.oom => user_lock' = None) /\ user_lock' \in KPage \cup {None}
  BY <1>1, <1>6, <1>7, Running DEF OnlySpace
<1>9. CASE a.ret = None
  <2>1. heap' = heap /\ used' = used
    BY <1>2, <1>3, <1>9
  <2>2. h0 \in Heaps
    BY <1>1, Running
  <2>3. QED  BY <1>1, <1>5, <1>6, <1>7, <1>8, <2>1, <2>2, UserStep, Running
<1>10. CASE a.ret # None
  <2> DEFINE v == a.ret
             W == Run(v, n)
             ar == [h0.arena EXCEPT ![v] = [large |-> TRUE, cnt |-> n, own |-> TRUE]]
             u == u0 \cup {<< v, 1 >>}
  <2>1. /\ v \in UPage /\ W \cap mem.vaddr[cur] = {}
        /\ a.m.fault \/ W \subseteq Mapped(a.m, cur)
    BY <1>1, <1>5, <1>10, Running DEF Obtains
  <2>2. W \cap Mapped(mem, cur) = {}
    BY <1>1, <2>1, Running DEF MemInv, Covered
  <2>3. PICK P2 : P2 = Mapped(a.m, cur) \cup W
    OBVIOUS
  <2>4. PICK new : new = ar
    OBVIOUS
  <2>5. BlocksApart(h0.arena, ToSet(h0.free), u0, Mapped(mem, cur)) /\ RunsApart(h0.arena, u0, Mapped(mem, cur))
    BY <1>1, Running DEF HeapInv
  <2>6. Sound(new, ToSet(h0.free), u, P2)
    <3>1. /\ u0 \in SUBSET Block /\ h0.arena \in [UPage -> Arena]
          /\ ToSet(h0.free) \in SUBSET Block
      BY <1>1, Running
    <3>2. PICK P : P = Mapped(mem, cur)
      OBVIOUS
    <3>3. P \subseteq P2 /\ Run(v, n) \cap P = {} /\ Run(v, n) \subseteq P2 /\ v \in UPage
      BY <1>6, <2>1, <2>2, <2>3, <3>2
    <3> HIDE DEF h0, u0, v
    <3>4. Sound(h0.arena, ToSet(h0.free), u0, P)
      BY <2>5, <3>1, <3>2 DEF Sound
    <3>5. Renewed(h0.arena, new, v, [large |-> TRUE, cnt |-> n, own |-> TRUE])
      BY <2>4 DEF Renewed
    <3>6. QED  BY <1>4, <3>3, <3>4, <3>5, LargeMade
  <2> DEFINE h == [arena |-> new, free |-> h0.free]
  <2>7. heap' = [heap EXCEPT ![cur] = h] /\ used' = [used EXCEPT ![cur] = u]
    <3>1. [h0 EXCEPT !.arena[v] = [large |-> TRUE, cnt |-> n, own |-> TRUE]] = h
      BY <1>1, <2>4, Running
    <3>2. heap' = [heap EXCEPT ![cur] = [h0 EXCEPT !.arena[v] = [large |-> TRUE, cnt |-> n, own |-> TRUE]]]
      BY <1>2, <1>3, <1>10
    <3>3. used' = [used EXCEPT ![cur] = u]
      BY <1>2, <1>3, <1>10
    <3>4. QED  BY <3>1, <3>2, <3>3
  <2>8. h0.free \in Seq(Block) /\ IsInjective(h0.free)
    BY <1>1, Running DEF HeapInv
  <2> HIDE DEF u, ar
  <2>9. h \in Heaps /\ HeapInv(h, u, P2) /\ u \in SUBSET Block
    BY <2>6, <2>8 DEF Heaps, HeapInv, Sound
  <2>10. ~mem'.fault => P2 = Mapped(mem', cur)
    BY <1>7, <2>1, <2>3
  <2> HIDE DEF h
  <2>11. QED
    BY <1>1, <1>5, <1>6, <1>7, <1>8, <2>7, <2>9, <2>10, UserStep
<1>11. QED  BY <1>9, <1>10

(* A small block is freed.                                                 *)
LEMMA FreeSmallStep == ASSUME IInv, sys_free_small PROVE IInv'
<1> DEFINE h0 == heap[cur]
           u0 == used[cur]
<1>1. PoolOpen /\ ~mem.fault /\ UNCHANGED << proc, cur, user_lock, asleep, lost >>
  BY DEF sys_free_small, PoolOpen, Runs
<1>2. PICK b \in u0 :
        LET v    == b[1]
            a    == h0.arena[v]
            free == Append(h0.free, b) IN
        /\ ~a.large /\ a.own
        /\ used' = [used EXCEPT ![cur] = @ \ {b}]
        /\ IF a.cnt + 1 < BlocksPerArena
           THEN /\ heap' = [heap EXCEPT ![cur] =
                               [arena |-> [h0.arena EXCEPT ![v].cnt = @ + 1], free |-> free]]
                /\ UNCHANGED mem
           ELSE /\ heap' = [heap EXCEPT ![cur] =
                               [arena |-> [h0.arena EXCEPT ![v] = NoArena],
                                free  |-> WithoutPage(free, v)]]
                /\ mem' = IF BlocksOf(v) \subseteq ToSet(free)
                          THEN mfree_page(mem, cur, v, 1)
                          ELSE [mem EXCEPT !.fault = TRUE]
  BY DEF sys_free_small
<1> DEFINE v == b[1]
           P == Mapped(mem, cur)
           u == u0 \ {b}
<1>3. /\ Sound(h0.arena, ToSet(h0.free), u0, P) /\ IsInjective(h0.free)
      /\ h0.free \in Seq(Block) /\ h0 = [arena |-> h0.arena, free |-> h0.free]
      /\ h0.arena \in [UPage -> Arena]
  BY <1>1, Running DEF Sound, HeapInv
<1>4. b \in Block /\ v \in UPage /\ v \in Nat /\ Small(h0.arena[v]) /\ v \in P /\ b \notin ToSet(h0.free)
  <2>1. b \in Block /\ v \in UPage /\ v \in Nat
    BY <1>3, BlockFacts DEF Sound
  <2>2. Small(h0.arena[v])
    BY <1>2 DEF Small
  <2>3. QED  BY <1>3, <2>1, <2>2 DEF Sound, BlocksApart
<1> DEFINE free == Append(h0.free, b)
<1>5. /\ free \in Seq(Block) /\ ToSet(free) = ToSet(h0.free) \cup {b} /\ IsInjective(free)
  BY <1>3, <1>4, AppendFacts
<1>6. used' = [used EXCEPT ![cur] = u]
  BY <1>2
<1>7. CASE h0.arena[v].cnt + 1 < BlocksPerArena
  <2>1. PICK new : OneMore(h0.arena, new, v)
    BY DEF OneMore
  <2> DEFINE h == [arena |-> new, free |-> free]
  <2>2. mem' = mem
    BY <1>2, <1>7
  <2>3. heap' = [heap EXCEPT ![cur] = h]
    <3>1. heap' = [heap EXCEPT ![cur] = [arena |-> [h0.arena EXCEPT ![v].cnt = @ + 1],
                                         free  |-> free]]
      BY <1>2, <1>7
    <3>2. [h0.arena EXCEPT ![v].cnt = @ + 1] = new
      BY <2>1 DEF OneMore
    <3>3. QED  BY <3>1, <3>2
  <2> HIDE DEF h0, u0, P, free
  <2>4. Sound(new, ToSet(h0.free) \cup {b}, u0 \ {b}, P)
    BY <1>3, <1>4, <2>1, GivenBack
  <2>5. h \in Heaps /\ HeapInv(h, u, P) /\ u \in SUBSET Block
    BY <1>5, <2>4 DEF Sound, HeapInv, Heaps
  <2>6. OnlySpace(mem, mem', cur) /\ MemInv(mem', Alive)
    BY <1>1, <2>2, Running DEF OnlySpace
  <2>7. HeapInv(h, u, Mapped(mem', cur))
    BY <2>2, <2>5 DEF P
  <2> HIDE DEF h, u
  <2>8. QED  BY <1>1, <1>6, <2>2, <2>3, <2>5, <2>6, <2>7, UserStep, Running
<1>8. CASE ~(h0.arena[v].cnt + 1 < BlocksPerArena)
  <2>1. PICK new : Renewed(h0.arena, new, v, NoArena)
    BY DEF Renewed
  <2>2. PICK rest : rest = WithoutPage(free, v)
    OBVIOUS
  <2> DEFINE h == [arena |-> new, free |-> rest]
  <2>3. /\ rest \in Seq(Block) /\ IsInjective(rest)
        /\ ToSet(rest) = {c \in ToSet(h0.free) \cup {b} : c[1] # v}
    <3>1. PICK all : all = ToSet(h0.free) \cup {b}
      OBVIOUS
    <3>2. PICK page : page = v
      OBVIOUS
    <3>3. free \in Seq(Block) /\ IsInjective(free) /\ ToSet(free) = all /\ rest = WithoutPage(free, page)
      BY <1>5, <2>2, <3>1, <3>2
    <3> HIDE DEF free
    <3>4. /\ rest \in Seq(Block) /\ IsInjective(rest)
          /\ ToSet(rest) = {c \in all : c[1] # page}
      BY <3>3, WithoutFacts
    <3> HIDE DEF v
    <3>5. QED  BY <3>1, <3>2, <3>4
  <2>4. BlocksOf(v) \subseteq ToSet(h0.free) \cup {b}
    BY <1>3, <1>4, <1>8, LastOfArena
  <2>5. mem' = mfree_page(mem, cur, v, 1)
    BY <1>2, <1>5, <1>8, <2>4
  <2>6. heap' = [heap EXCEPT ![cur] = h]
    <3>1. heap' = [heap EXCEPT ![cur] = [arena |-> [h0.arena EXCEPT ![v] = NoArena],
                                         free  |-> WithoutPage(free, v)]]
      BY <1>2, <1>8
    <3>2. [h0.arena EXCEPT ![v] = NoArena] = new
      BY <2>1 DEF Renewed
    <3>3. QED  BY <2>2, <3>1, <3>2
  <2> HIDE DEF h0, u0, P, free
  <2>7. Sound(new, ToSet(rest), u0 \ {b}, P \ {v})
    BY <1>3, <1>4, <2>1, <2>3, <2>4, ArenaGone
  <2>8. h \in Heaps /\ HeapInv(h, u, P \ {v}) /\ u \in SUBSET Block
    BY <2>3, <2>7 DEF Sound, HeapInv, Heaps
  <2>9. Run(v, 1) = {v}
    BY <1>4, RunOfOne
  <2>10. {v} \subseteq Mapped(mem, cur) /\ {v} \subseteq mem.vaddr[cur]
    BY <1>1, <1>4, Running DEF P, MemInv, Covered
  <2>11. MemInv(mem', Alive) /\ Frees(mem, mem', cur, {v})
    <3>1. PICK page : page = v
      OBVIOUS
    <3>2. PICK W : W = Run(page, 1)
      OBVIOUS
    <3>3. /\ page \in Nat /\ W = {v} /\ mem' = mfree_page(mem, cur, page, 1)
          /\ Run(page, 1) \subseteq Mapped(mem, cur) /\ Run(page, 1) \subseteq mem.vaddr[cur]
      BY <1>4, <2>5, <2>9, <2>10, <3>1, <3>2
    <3> HIDE DEF v
    <3>4. MemInv(mem', Alive) /\ Frees(mem, mem', cur, W)
      BY <1>1, <3>2, <3>3, MfreePage, Running
    <3>5. QED  BY <3>3, <3>4
  <2>12. OnlySpace(mem, mem', cur) /\ Mapped(mem', cur) = P \ {v}
    BY <1>1, <2>11, FreesOnly, Running DEF P
  <2>13. ~mem'.oom => user_lock' = None
    BY <1>1, <2>12, Running DEF OnlySpace
  <2> HIDE DEF h, u
  <2>14. QED  BY <1>1, <1>6, <2>6, <2>8, <2>11, <2>12, <2>13, UserStep, Running
<1>9. QED  BY <1>7, <1>8

(* sys_free of a large block: its pages go back.                           *)
LEMMA FreeLargeStep == ASSUME IInv, sys_free_large PROVE IInv'
<1> DEFINE h0 == heap[cur]
           u0 == used[cur]
<1>1. PoolOpen /\ ~mem.fault /\ UNCHANGED << proc, cur, user_lock, asleep, lost >>
  BY DEF sys_free_large, PoolOpen, Runs
<1>2. PICK b \in u0 :
        /\ h0.arena[b[1]].large
        /\ mem' = mfree_page(mem, cur, b[1], h0.arena[b[1]].cnt)
        /\ heap' = [heap EXCEPT ![cur].arena[b[1]] = NoArena]
        /\ used' = [used EXCEPT ![cur] = @ \ {b}]
  BY DEF sys_free_large
<1> DEFINE v == b[1]
           n == h0.arena[v].cnt
           P == Mapped(mem, cur)
           u == u0 \ {b}
<1>3. /\ Sound(h0.arena, ToSet(h0.free), u0, P) /\ IsInjective(h0.free)
      /\ h0.free \in Seq(Block) /\ h0 = [arena |-> h0.arena, free |-> h0.free]
      /\ h0.arena \in [UPage -> Arena]
  BY <1>1, Running DEF Sound, HeapInv
<1>4. v \in UPage /\ v \in Nat /\ n \in Nat /\ Run(v, n) \subseteq P
  <2>1. b \in Block /\ v \in UPage /\ v \in Nat
    BY <1>3, BlockFacts DEF Sound
  <2>2. n \in Nat
    BY <1>3, <2>1 DEF Arena
  <2>3. QED  BY <1>2, <1>3, <2>1, <2>2 DEF Sound, RunsApart
<1>5. PICK new : Renewed(h0.arena, new, v, NoArena)
  BY DEF Renewed
<1> DEFINE h == [arena |-> new, free |-> h0.free]
<1>6. heap' = [heap EXCEPT ![cur] = h] /\ used' = [used EXCEPT ![cur] = u]
  <2>1. heap' = [heap EXCEPT ![cur] = [h0 EXCEPT !.arena[v] = NoArena]]
    BY <1>2
  <2>2. [h0 EXCEPT !.arena[v] = NoArena] = h
    BY <1>3, <1>5 DEF Renewed
  <2>3. QED  BY <1>2, <2>1, <2>2
<1>7. mem' = mfree_page(mem, cur, v, n) /\ h0.arena[v].large
  BY <1>2
<1>8. PICK W : W = Run(v, n)
  OBVIOUS
<1>9. Sound(new, ToSet(h0.free), u0 \ {b}, P \ W)
  <2> HIDE DEF h0, u0, P
  <2>1. QED  BY <1>3, <1>5, <1>7, <1>8, LargeGone
<1>10. h \in Heaps /\ HeapInv(h, u, P \ W) /\ u \in SUBSET Block
  BY <1>3, <1>9 DEF Sound, HeapInv, Heaps
<1>11. Run(v, n) \subseteq mem.vaddr[cur]
  BY <1>1, <1>4, Running DEF MemInv, Covered
<1> HIDE DEF v, n, h, u
<1>12. MemInv(mem', Alive) /\ Frees(mem, mem', cur, W)
  BY <1>1, <1>4, <1>7, <1>8, <1>11, MfreePage, Running
<1>13. OnlySpace(mem, mem', cur) /\ Mapped(mem', cur) = P \ W
  BY <1>1, <1>12, FreesOnly, Running
<1>14. ~mem'.oom => user_lock' = None
  BY <1>1, <1>13, Running DEF OnlySpace
<1>15. QED  BY <1>1, <1>6, <1>10, <1>12, <1>13, <1>14, UserStep, Running

(* CR3 is loaded: the translations go and nothing else.                    *)
LEMMA TlbEmptied ==
  ASSUME NEW m, NEW A, MemInv(m, A), NEW a, a = [m EXCEPT !.tlb = {}]
  PROVE  /\ MemInv(a, A) /\ a.vaddr = m.vaddr /\ a.pte = m.pte /\ a.pde = m.pde
         /\ a.bits = m.bits /\ a.oom = m.oom /\ a.fault = m.fault
<1>1. m \in MemRecord /\ MemTypeOK(m)
  BY DEF MemInv, MemTypeOK, MemRecord
<1>2. /\ a.vaddr = m.vaddr /\ a.pte = m.pte /\ a.pde = m.pde
      /\ a.bits = m.bits /\ a.oom = m.oom /\ a.fault = m.fault /\ a \in MemRecord
  BY <1>1 DEF MemRecord
<1>3. MemTypeOK(a)
  BY <1>1, <1>2 DEF MemTypeOK, MemRecord
<1>4. FramesInv(m, A) => FramesInv(a, A)
  BY <1>2, KernelSame, UserSame DEF FramesInv
<1>5. Covered(m, A) => Covered(a, A)
  BY <1>2 DEF Covered, Mapped
<1>6. \A s \in A \cup {kernel} : Mapped(a, s) = Mapped(m, s)
  BY <1>2 DEF Mapped
<1>7. QED  BY <1>2, <1>3, <1>4, <1>5, <1>6 DEF MemInv

\* Address v of s is marked.
PageMarked(m, m1, s, v) ==
  /\ MemTypeOK(m1) /\ m1.vaddr = [m.vaddr EXCEPT ![s] = @ \cup {v}]
  /\ m1.pte = m.pte /\ m1.pde = m.pde /\ m1.bits = m.bits
  /\ m1.oom = m.oom /\ m1.fault = m.fault

(* One page of a process is marked and mapped.                             *)
LEMMA PageAdded ==
  ASSUME NEW m, NEW A \in SUBSET Proc, MemInv(m, A), ~m.fault, NEW s \in A, NEW v \in UPage,
         m.pte[s][v] = None, NEW m1, PageMarked(m, m1, s, v), NEW a, a = MapPage(m1, s, v)
  PROVE  /\ MemInv(a.m, A) /\ OnlySpace(m, a.m, s) /\ (~a.ok => a.m.oom)
         /\ Mapped(m, s) \subseteq Mapped(a.m, s)
<1>1. /\ s \in Space /\ s \in Proc /\ Pages(s) = UPage /\ v \in Pages(s) /\ s \in A \cup {kernel}
      /\ MemTypeOK(m) /\ MemTypeOK(m1) /\ s # kernel
  BY Spaces DEF MemInv, PageMarked
<1>2. /\ m1.vaddr = [m.vaddr EXCEPT ![s] = @ \cup {v}] /\ m1.pte = m.pte /\ m1.pde = m.pde
      /\ m1.bits = m.bits /\ m1.oom = m.oom /\ m1.fault = m.fault
  BY DEF PageMarked
<1>3. MemTypeOK(a.m) /\ Maps(m1, a, s, v)
  BY <1>1, MapStep
<1>4. /\ a.m.vaddr = [m.vaddr EXCEPT ![s] = @ \cup {v}]
      /\ \A t \in Space : t # s => a.m.pte[t] = m.pte[t]
      /\ \A t \in Proc : t # s => a.m.pde[t] = m.pde[t]
      /\ \A w \in UPage : w # v => a.m.pte[s][w] = m.pte[s][w]
      /\ a.m.pte[s][v] # None \/ ~a.ok \/ a.m.fault
      /\ (m.oom => a.m.oom) /\ (m.fault => a.m.fault) /\ (~a.ok => a.m.oom)
      /\ (a.m.fault => a.m.oom)
  BY <1>1, <1>2, <1>3 DEF Maps
<1>5. m.vaddr \in [Space -> SUBSET (KPage \cup UPage)]
  BY <1>1 DEF MemTypeOK
<1>6. OnlySpace(m, a.m, s)
  BY <1>1, <1>4, <1>5 DEF OnlySpace
<1>7. Mapped(m, s) \subseteq Mapped(a.m, s) /\ Mapped(a.m, s) \subseteq Mapped(m, s) \cup {v}
  BY <1>1, <1>4 DEF Mapped
<1>8. ~a.m.fault => FramesInv(a.m, A)
  <2>1. FramesInv(m1, A)
    BY <1>2, KernelSame, UserSame DEF MemInv, FramesInv
  <2>2. m1.pte[s][v] = None
    BY <1>2
  <2>3. QED  BY <1>1, <2>1, <2>2, MapFrames
<1>9. ASSUME NEW t \in A \cup {kernel}
      PROVE  /\ ~a.m.fault => Mapped(a.m, t) \subseteq a.m.vaddr[t]
             /\ ~a.m.oom => a.m.vaddr[t] \subseteq Mapped(a.m, t)
  <2>1. t \in Space
    BY DEF Space
  <2>2. /\ Mapped(m, t) \subseteq m.vaddr[t]
        /\ ~m.oom => m.vaddr[t] \subseteq Mapped(m, t)
    BY DEF MemInv, Covered
  <2>3. CASE t = s
    <3>1. a.m.vaddr[t] = m.vaddr[t] \cup {v}
      BY <1>1, <1>4, <1>5, <2>3
    <3>2. ~a.m.oom => v \in Mapped(a.m, t)
      BY <1>1, <1>4, <2>3 DEF Mapped
    <3>3. QED  BY <1>4, <1>7, <2>2, <2>3, <3>1, <3>2
  <2>4. CASE t # s
    <3>1. a.m.vaddr[t] = m.vaddr[t] /\ Mapped(a.m, t) = Mapped(m, t)
      BY <1>6, <2>1, <2>4 DEF OnlySpace, Mapped
    <3>2. QED  BY <1>4, <2>2, <3>1
  <2>5. QED  BY <2>3, <2>4
<1>10. MemInv(a.m, A)
  BY <1>3, <1>4, <1>8, <1>9 DEF MemInv, Covered
<1>11. QED  BY <1>4, <1>6, <1>7, <1>10

(* Marking an address keeps the types.                                     *)
LEMMA MarkingTyped ==
  ASSUME NEW m, MemTypeOK(m), NEW s \in Proc, NEW v \in UPage, NEW T, T \in SUBSET (UPage \X UFrame),
         NEW m1, m1 = [m EXCEPT !.vaddr[s] = @ \cup {v}, !.tlb = T]
  PROVE  PageMarked(m, m1, s, v)
<1>1. m \in MemRecord /\ s \in Space /\ Pages(s) = UPage
  BY Spaces DEF MemTypeOK, MemRecord
<1>2. /\ m1.vaddr = [m.vaddr EXCEPT ![s] = @ \cup {v}] /\ m1.pte = m.pte /\ m1.tlb = T
      /\ m1.pde = m.pde /\ m1.bits = m.bits /\ m1.oom = m.oom /\ m1.fault = m.fault
  BY <1>1 DEF MemRecord
<1>3. /\ m1.vaddr \in [Space -> SUBSET (KPage \cup UPage)]
      /\ \A t \in Space : m1.vaddr[t] \subseteq Pages(t)
  BY <1>1, <1>2 DEF MemTypeOK
<1>4. m1 \in MemRecord
  BY <1>1, <1>3 DEF MemRecord
<1>5. MemTypeOK(m1)
  BY <1>1, <1>2, <1>3, <1>4 DEF MemTypeOK, MemRecord
<1>6. QED  BY <1>2, <1>5 DEF PageMarked

(* segment_load gets its first page.                                       *)
LEMMA PageLoaded ==
  ASSUME IInv, sys_execv, mem.pte[cur][Min(UPage)] = None
  PROVE  IInv'
<1> DEFINE code == Min(UPage)
           m1 == [mem EXCEPT !.vaddr[cur] = @ \cup {code}, !.tlb = {}]
<1>1. PICK a : a = MapPage(m1, cur, code)
  OBVIOUS
<1>2. /\ PoolOpen /\ ~mem.fault /\ mem.pte[cur][code] = None /\ mem' = a.m
      /\ user_lock' = IF a.ok THEN user_lock ELSE proc[cur].pcb
      /\ UNCHANGED << heap, proc, cur, asleep, used, lost >>
  BY <1>1 DEF sys_execv, PoolOpen, Runs
<1>3. code \in UPage
  <2>1. UPage \in SUBSET Nat /\ UPage # {}
    BY MemoryAssumption
  <2>2. QED  BY <2>1, LeastOfNats
<1> HIDE DEF code
<1>4. PageMarked(mem, m1, cur, code)
  <2>1. PICK x : x = m1
    OBVIOUS
  <2>2. PICK T : T = {}
    OBVIOUS
  <2>3. T \in SUBSET (UPage \X UFrame) /\ x = [mem EXCEPT !.vaddr[cur] = @ \cup {code}, !.tlb = T]
    BY <2>1, <2>2
  <2>4. PageMarked(mem, x, cur, code)
    BY <1>2, <1>3, <2>2, <2>3, MarkingTyped, Running
  <2>5. QED  BY <2>1, <2>4
<1> HIDE DEF m1
<1>5. /\ MemInv(a.m, Alive) /\ OnlySpace(mem, a.m, cur) /\ (~a.ok => a.m.oom)
      /\ Mapped(mem, cur) \subseteq Mapped(a.m, cur)
  BY <1>1, <1>2, <1>3, <1>4, PageAdded, Running
<1>6. heap[cur] \in Heaps /\ HeapInv(heap[cur], used[cur], Mapped(a.m, cur))
  <2>1. HeapInv(heap[cur], used[cur], Mapped(mem, cur)) /\ heap[cur] \in Heaps
    BY <1>2, Running
  <2>2. QED  BY <1>5, <2>1, MorePages
<1>7. user_lock' \in KPage \cup {None} /\ (~mem'.oom => user_lock' = None)
  <2>1. proc[cur].pcb \in KPage \cup {None}
    <3>1. cur \in Proc
      BY <1>2, Running
    <3>2. QED  BY <3>1 DEF IInv, TypeOK
  <2>2. mem.oom => a.m.oom
    BY <1>5 DEF OnlySpace
  <2>3. QED  BY <1>2, <1>5, <2>1, <2>2, Running
<1>8. QED
  BY <1>2, <1>5, <1>6, <1>7, UserStep, Running

(* The processor leaves the running process and comes back, or goes to     *)
(* another: nothing but the TLB changes.                                   *)
LEMMA OnlyTlb ==
  ASSUME IInv, ~mem.fault, mem' = [mem EXCEPT !.tlb = {}], cur' \in Alive, asleep' \subseteq Alive,
         UNCHANGED << heap, proc, user_lock, used, lost >>
  PROVE  IInv'
<1>1. /\ ~mem.fault /\ cur' \in Alive /\ mem' = [mem EXCEPT !.tlb = {}] /\ asleep' \subseteq Alive
      /\ heap' = heap /\ proc' = proc /\ user_lock' = user_lock /\ used' = used /\ lost' = lost
  OBVIOUS
<1>2. /\ MemInv(mem', Alive) /\ mem'.vaddr = mem.vaddr /\ mem'.pte = mem.pte
      /\ mem'.pde = mem.pde /\ mem'.oom = mem.oom /\ mem'.fault = mem.fault
  <2>1. PICK a : a = [mem EXCEPT !.tlb = {}]
    OBVIOUS
  <2>2. MemInv(mem, Alive) /\ mem' = a
    BY <1>1, <2>1 DEF IInv
  <2>3. /\ MemInv(a, Alive) /\ a.vaddr = mem.vaddr /\ a.pte = mem.pte
        /\ a.pde = mem.pde /\ a.oom = mem.oom /\ a.fault = mem.fault
    BY <2>1, <2>2, TlbEmptied
  <2>4. QED  BY <2>2, <2>3
<1>3. Alive' = Alive
  BY <1>1 DEF Alive
<1>4. TypeOK'
  <2>1. MemTypeOK(mem)'
    BY <1>2 DEF MemInv, MemTypeOK
  <2>2. QED  BY <1>1, <1>3, <2>1 DEF IInv, TypeOK
<1>5. UnusedEmpty'
  BY <1>1, <1>2 DEF IInv, UnusedEmpty
<1>6. KPagesInv'
  <2>1. KPagesInv
    BY <1>1 DEF IInv
  <2>2. QED  BY <1>1, <1>2, <2>1 DEF KPagesInv, KernelPagesOf, BitmapOf, Exists
<1>7. \A p \in Alive' : HeapInv(heap'[p], used'[p], Mapped(mem', p))
  <2>1. \A p \in Alive : HeapInv(heap[p], used[p], Mapped(mem, p)) /\ Mapped(mem', p) = Mapped(mem, p)
    BY <1>1, <1>2 DEF IInv, Mapped
  <2>2. QED  BY <1>1, <1>3, <2>1
<1>8. ~mem'.oom => user_lock' = None
  BY <1>1, <1>2 DEF IInv
<1>9. QED  BY <1>2, <1>3, <1>4, <1>5, <1>6, <1>7, <1>8 DEF IInv

(* A step that changes at most who sleeps.                                 *)
LEMMA Undisturbed ==
  ASSUME IInv, mem' = mem, proc' = proc, cur' = cur, heap' = heap, lost' = lost,
         user_lock' = user_lock, used' = used, asleep' \subseteq Alive
  PROVE  IInv'
<1>1. /\ mem' = mem /\ proc' = proc /\ cur' = cur /\ heap' = heap
      /\ lost' = lost /\ user_lock' = user_lock /\ used' = used
  OBVIOUS
<1>2. Alive' = Alive /\ Exists' = Exists
  BY <1>1 DEF Alive, Exists
<1>3. MemInv(mem', Alive') /\ (~mem'.oom => user_lock' = None)
  BY <1>1, <1>2 DEF IInv
<1>4. TypeOK'
  <2>1. MemTypeOK(mem)'
    BY <1>3 DEF MemInv, MemTypeOK
  <2>2. QED  BY <1>1, <1>2, <2>1 DEF IInv, TypeOK
<1>5. UnusedEmpty'
  BY <1>1 DEF IInv, UnusedEmpty
<1>6. ~mem'.fault => KPagesInv'
  <2>1. ASSUME ~mem'.fault PROVE KPagesInv
    BY <1>1, <2>1 DEF IInv
  <2>2. ASSUME KPagesInv PROVE KPagesInv'
    BY <1>1, <2>2 DEF KPagesInv, KernelPagesOf, BitmapOf, Exists
  <2>3. QED  BY <2>1, <2>2
<1>7. ~mem'.fault => \A p \in Alive' : HeapInv(heap'[p], used'[p], Mapped(mem', p))
  BY <1>1, <1>2 DEF IInv
<1>8. QED  BY <1>2, <1>3, <1>4, <1>5, <1>6, <1>7 DEF IInv

(* segment_load's first page.                                              *)
LEMMA ExecvStep == ASSUME IInv, sys_execv PROVE IInv'
<1>1. CASE mem.pte[cur][Min(UPage)] = None
  BY <1>1, PageLoaded
<1>2. CASE mem.pte[cur][Min(UPage)] # None
  <2>1. /\ ~mem.fault /\ mem' = [mem EXCEPT !.tlb = {}] /\ cur' = cur /\ asleep' = asleep
        /\ UNCHANGED << heap, proc, user_lock, used, lost >>
    BY <1>2 DEF sys_execv, Runs
  <2>2. cur \in Alive /\ asleep \subseteq Alive
    BY DEF IInv, TypeOK
  <2>3. QED  BY <2>1, <2>2, OnlyTlb
<1>3. QED  BY <1>1, <1>2

(* Another process is given the processor.                                 *)
LEMMA SwitchStep == ASSUME IInv, Switch PROVE IInv'
<1>1. /\ ~mem.fault /\ cur' \in Alive /\ mem' = [mem EXCEPT !.tlb = {}] /\ asleep' = asleep
      /\ UNCHANGED << heap, proc, user_lock, used, lost >>
  BY DEF Switch, RunNext
<1>2. asleep \subseteq Alive
  BY DEF IInv, TypeOK
<1>3. QED  BY <1>1, <1>2, OnlyTlb

(* The running process goes to sleep for the user pool's lock.             *)
LEMMA WaitForPoolStep == ASSUME IInv, WaitForPool PROVE IInv'
<1>1. /\ asleep' = asleep \cup {cur} /\ ~mem.fault
      /\ mem' = mem /\ proc' = proc /\ cur' = cur /\ heap' = heap
      /\ lost' = lost /\ user_lock' = user_lock /\ used' = used
  BY DEF WaitForPool, Runs
<1>2. asleep' \subseteq Alive /\ Alive' = Alive
  BY <1>1 DEF IInv, TypeOK, Alive
<1>3. QED  BY <1>1, <1>2, Undisturbed

-----------------------------------------------------------------------------
(***************************************************************************)
(* The kernel's pages: V are the marked ones, L the lost ones and K[p]     *)
(* those of process p.                                                     *)
(***************************************************************************)
Owned(V, L, K) ==
  /\ L \subseteq V
  /\ \A p \in Proc : K[p] \subseteq V
  /\ \A k \in V : k \in L \/ \E p \in Proc : k \in K[p]
  /\ \A p \in Proc : K[p] \cap L = {}
  /\ \A p, q \in Proc : p # q => K[p] \cap K[q] = {}

\* The part of KPagesInv that is about one process alone.
Distinct(p) == proc[p].pcb # proc[p].dir /\ {proc[p].pcb, proc[p].dir} \cap BitmapOf(p) = {}

\* K and K2 differ at q only.
OnlyAt(K, K2, q) == \A p \in Proc : p # q => K2[p] = K[p]

(* A process gets pages nobody has.                                        *)
LEMMA OwnedMore ==
  ASSUME NEW V, NEW L, NEW K, Owned(V, L, K), NEW q \in Proc, K[q] = {},
         NEW G, G \cap V = {}, NEW K2, OnlyAt(K, K2, q), K2[q] = G
  PROVE  Owned(V \cup G, L, K2)
<1>1. L \subseteq V \cup G /\ K2[q] \cap L = {}
  BY DEF Owned
<1>2. \A p \in Proc : K2[p] \subseteq V \cup G /\ K2[p] \cap L = {}
  BY DEF Owned, OnlyAt
<1>3. \A k \in V \cup G : k \in L \/ \E p \in Proc : k \in K2[p]
  BY DEF Owned, OnlyAt
<1>4. ASSUME NEW p \in Proc, NEW r \in Proc, p # r PROVE K2[p] \cap K2[r] = {}
  <2>1. K[p] \cap K[r] = {} /\ K[p] \subseteq V /\ K[r] \subseteq V
    BY <1>4 DEF Owned
  <2>2. QED  BY <1>4, <2>1 DEF OnlyAt
<1>5. QED  BY <1>1, <1>2, <1>3, <1>4 DEF Owned

(* Pages are marked that no process gets.                                  *)
LEMMA OwnedLost ==
  ASSUME NEW V, NEW L, NEW K, Owned(V, L, K), NEW V2, V \subseteq V2,
         NEW K2, \A p \in Proc : K2[p] = K[p]
  PROVE  Owned(V2, L \cup (V2 \ V), K2)
<1>1. \A p \in Proc : K2[p] \subseteq V2 /\ K2[p] \cap (L \cup (V2 \ V)) = {}
  BY DEF Owned
<1>2. \A k \in V2 : k \in L \cup (V2 \ V) \/ \E p \in Proc : k \in K2[p]
  BY DEF Owned
<1>3. \A p, q \in Proc : p # q => K2[p] \cap K2[q] = {}
  BY DEF Owned
<1>4. L \cup (V2 \ V) \subseteq V2
  BY DEF Owned
<1>5. QED  BY <1>1, <1>2, <1>3, <1>4 DEF Owned

(* A process gives back pages, some of which are lost.                     *)
LEMMA OwnedLess ==
  ASSUME NEW V, NEW L, NEW K, Owned(V, L, K), NEW q \in Proc,
         NEW W, W \subseteq K[q], NEW X, X \subseteq W,
         NEW K2, OnlyAt(K, K2, q), K2[q] = K[q] \ W
  PROVE  Owned(V \ (W \ X), L \cup X, K2)
<1>1. W \subseteq V /\ W \cap L = {} /\ \A p \in Proc : p # q => W \cap K[p] = {}
  BY DEF Owned
<1>2. L \cup X \subseteq V \ (W \ X)
  BY <1>1 DEF Owned
<1>3. ASSUME NEW p \in Proc PROVE K2[p] \subseteq V \ (W \ X) /\ K2[p] \cap (L \cup X) = {}
  <2>1. K[p] \subseteq V /\ K[p] \cap L = {}
    BY DEF Owned
  <2>2. CASE p = q
    BY <2>1, <2>2
  <2>3. CASE p # q
    BY <1>1, <2>1, <2>3 DEF OnlyAt
  <2>4. QED  BY <2>2, <2>3
<1>4. ASSUME NEW k \in V \ (W \ X) PROVE k \in L \cup X \/ \E p \in Proc : k \in K2[p]
  <2>1. k \in L \/ \E p \in Proc : k \in K[p]
    BY DEF Owned
  <2>2. CASE k \in L
    BY <2>2
  <2>3. ASSUME NEW p \in Proc, k \in K[p] PROVE k \in X \/ k \in K2[p]
    <3>1. CASE p = q
      BY <2>3, <3>1
    <3>2. CASE p # q
      BY <2>3, <3>2 DEF OnlyAt
    <3>3. QED  BY <3>1, <3>2
  <2>4. QED  BY <2>1, <2>2, <2>3
<1>5. ASSUME NEW p \in Proc, NEW r \in Proc, p # r PROVE K2[p] \cap K2[r] = {}
  <2>1. K[p] \cap K[r] = {}
    BY <1>5 DEF Owned
  <2>2. K2[p] \subseteq K[p] /\ K2[r] \subseteq K[r]
    BY DEF OnlyAt
  <2>3. QED  BY <2>1, <2>2
<1>6. QED  BY <1>2, <1>3, <1>4, <1>5 DEF Owned

(* KPagesInv, taken apart.                                                 *)
KernelPages == [p \in Proc |-> KernelPagesOf(p)]

(* KPagesInv in these terms.                                               *)
LEMMA OwnedAll ==
  KPagesInv <=> Owned(mem.vaddr[kernel], lost, KernelPages) /\ \A p \in Exists : Distinct(p)
<1>1. \A p \in Proc : KernelPages[p] = KernelPagesOf(p)
  BY DEF KernelPages
<1>2. QED
  BY <1>1 DEF KPagesInv, Owned, Distinct

(* A process nothing happens to.                                           *)
Untouched(p) ==
  /\ proc'[p] = proc[p] /\ heap'[p] = heap[p] /\ used'[p] = used[p]
  /\ mem'.pte[p] = mem.pte[p] /\ mem'.pde[p] = mem.pde[p] /\ mem'.vaddr[p] = mem.vaddr[p]

(* For such a process everything stays true.                               *)
LEMMA Unaffected ==
  ASSUME IInv, NEW p \in Proc, Untouched(p), mem.fault => mem'.fault
  PROVE  /\ KernelPagesOf(p)' = KernelPagesOf(p) /\ (p \in Alive' <=> p \in Alive)
         /\ p \in Exists' <=> p \in Exists
         /\ Distinct(p)' <=> Distinct(p)
         /\ proc'[p].status = "none" => /\ mem'.pte[p] = [v \in UPage |-> None]
                                        /\ mem'.pde[p] = None /\ mem'.vaddr[p] = {}
         /\ ~mem'.fault /\ p \in Alive' => HeapInv(heap'[p], used'[p], Mapped(mem', p))
<1>1. /\ KernelPagesOf(p)' = KernelPagesOf(p) /\ BitmapOf(p)' = BitmapOf(p)
      /\ p \in Alive' <=> p \in Alive
      /\ p \in Exists' <=> p \in Exists
  BY DEF Untouched, KernelPagesOf, BitmapOf, Alive, Exists
<1>2. Distinct(p)' <=> Distinct(p)
  BY <1>1 DEF Untouched, Distinct
<1>3. proc'[p].status = "none" => /\ mem'.pte[p] = [v \in UPage |-> None]
                                  /\ mem'.pde[p] = None /\ mem'.vaddr[p] = {}
  BY DEF Untouched, IInv, UnusedEmpty
<1>4. Mapped(mem', p) = Mapped(mem, p)
  BY DEF Untouched, Mapped
<1>5. ~mem'.fault /\ p \in Alive' => HeapInv(heap'[p], used'[p], Mapped(mem', p))
  BY <1>1, <1>4 DEF Untouched, IInv
<1>6. QED  BY <1>1, <1>2, <1>3, <1>5

(* An empty address space changes no account.                              *)
LEMMA EmptyJoins ==
  ASSUME NEW m, NEW A \in SUBSET Proc, NEW q \in Proc, MemInv(m, A),
         m.pte[q] = [v \in UPage |-> None], m.pde[q] = None, m.vaddr[q] = {}
  PROVE  MemInv(m, A \cup {q}) /\ Mapped(m, q) = {}
<1>1. q # kernel /\ Pages(q) = UPage /\ None \notin KFrame \cup UFrame
  BY Spaces
<1>2. Mapped(m, q) = {}
  BY <1>1 DEF Mapped
<1>3. \A v \in UPage : m.pte[q][v] = None
  OBVIOUS
<1>4. UserPagesApart(m, A) => UserPagesApart(m, A \cup {q})
  BY <1>3 DEF UserPagesApart
<1>5. TablesApart(m, A) => TablesApart(m, A \cup {q})
  BY DEF TablesApart
<1>6. KernelMarks(m, A) => KernelMarks(m, A \cup {q})
  BY <1>1 DEF KernelMarks
<1>7. UserMarks(m, A) => UserMarks(m, A \cup {q})
  BY <1>1, <1>3 DEF UserMarks
<1>8. Covered(m, A) => Covered(m, A \cup {q})
  BY <1>2 DEF Covered
<1>9. QED
  BY <1>2, <1>4, <1>5, <1>6, <1>7, <1>8 DEF MemInv, FramesInv

-----------------------------------------------------------------------------
(***************************************************************************)
(* fork                                                                    *)
(***************************************************************************)
\* What a request of the kernel leaves alone.
KernelOnly(m, a) == OnlySpace(m, a, kernel) /\ m.vaddr[kernel] \subseteq a.vaddr[kernel]

\* The n kernel pages from v on are new.
Fresh(m, a, v, n) ==
  /\ v \in KPage /\ Run(v, n) \cap m.vaddr[kernel] = {}
  /\ a.vaddr[kernel] = m.vaddr[kernel] \cup Run(v, n)

(* An allocation of kernel pages.                                          *)
LEMMA KernelMalloc ==
  ASSUME NEW m, NEW A \in SUBSET Proc, MemInv(m, A), NEW n \in Nat \ {0},
         NEW a, a = malloc_page(m, kernel, n)
  PROVE  /\ MemInv(a.m, A) /\ KernelOnly(m, a.m)
         /\ a.ret \in KPage \cup {None} /\ (a.ret = None \/ Fresh(m, a.m, a.ret, n))
<1>1. MemInv(a.m, A) /\ Obtains(m, a, kernel, n)
  BY MallocPage
<1>2. kernel \in Space /\ Pages(kernel) = KPage /\ MemTypeOK(m)
  BY Spaces DEF MemInv
<1>3. OnlySpace(m, a.m, kernel)
  BY <1>1, <1>2, ObtainsOnly
<1>4. m.vaddr \in [Space -> SUBSET (KPage \cup UPage)]
  BY <1>2 DEF MemTypeOK
<1>5. CASE a.m = m /\ a.ret = None
  BY <1>1, <1>3, <1>5 DEF KernelOnly
<1>6. ASSUME NEW start \in KPage, Run(start, n) \subseteq KPage \ m.vaddr[kernel],
             a.m.vaddr = [m.vaddr EXCEPT ![kernel] = @ \cup Run(start, n)],
             a.ret = start \/ a.ret = None
      PROVE  /\ KernelOnly(m, a.m)
             /\ a.ret \in KPage \cup {None} /\ (a.ret = None \/ Fresh(m, a.m, a.ret, n))
  <2>1. a.m.vaddr[kernel] = m.vaddr[kernel] \cup Run(start, n)
    BY <1>2, <1>4, <1>6
  <2>2. Fresh(m, a.m, start, n)
    BY <1>6, <2>1 DEF Fresh
  <2>3. QED  BY <1>3, <1>6, <2>1, <2>2 DEF KernelOnly
<1>7. CASE \E start \in Nat :
        /\ start \in KPage /\ Run(start, n) \subseteq KPage \ m.vaddr[kernel]
        /\ a.m.vaddr = [m.vaddr EXCEPT ![kernel] = @ \cup Run(start, n)]
        /\ a.ret = start \/ a.ret = None
  <2>1. PICK start \in KPage :
          /\ Run(start, n) \subseteq KPage \ m.vaddr[kernel]
          /\ a.m.vaddr = [m.vaddr EXCEPT ![kernel] = @ \cup Run(start, n)]
          /\ a.ret = start \/ a.ret = None
    BY <1>7
  <2>2. QED  BY <1>1, <1>6, <2>1
<1>8. QED  BY <1>1, <1>2, <1>5, <1>7 DEF Obtains

(* One request of sys_fork.                                                *)
LEMMA RequestMade ==
  ASSUME NEW x, NEW A \in SUBSET Proc, MemInv(x.m, A), NEW n \in Nat \ {0},
         x.ret \in Seq(KPage \cup {None}), None \notin ToSet(x.ret), NEW y, y = Request(x, n)
  PROVE  /\ MemInv(y.m, A) /\ KernelOnly(x.m, y.m) /\ y.ret \in Seq(KPage \cup {None})
         /\ \E r \in KPage \cup {None} : /\ y.ret = Append(x.ret, r)
                                         /\ None \in ToSet(y.ret) <=> r = None
                                         /\ r = None \/ Fresh(x.m, y.m, r, n)
<1>1. PICK a : a = malloc_page(x.m, kernel, n)
  OBVIOUS
<1>2. PICK m : m = x.m
  OBVIOUS
<1>3. /\ MemInv(a.m, A) /\ KernelOnly(m, a.m)
      /\ a.ret \in KPage \cup {None} /\ (a.ret = None \/ Fresh(m, a.m, a.ret, n))
  BY <1>1, <1>2, KernelMalloc
<1>4. y = [m |-> a.m, ret |-> Append(x.ret, a.ret)]
  BY <1>1 DEF Request
<1>5. y.m = a.m /\ y.ret = Append(x.ret, a.ret)
  BY <1>4
<1>6. y.ret \in Seq(KPage \cup {None}) /\ ToSet(y.ret) = ToSet(x.ret) \cup {a.ret}
  BY <1>3, <1>5, AppendFacts
<1>7. None \in ToSet(y.ret) <=> a.ret = None
  BY <1>6
<1>8. QED  BY <1>2, <1>3, <1>5, <1>6, <1>7

(* Requests one after the other.                                           *)
LEMMA KernelOnlyTwice ==
  ASSUME NEW m, NEW a, NEW b, KernelOnly(m, a), KernelOnly(a, b)
  PROVE  KernelOnly(m, b)
BY DEF KernelOnly, OnlySpace

(* A request after a failed one does nothing.                              *)
LEMMA RequestSkipped ==
  ASSUME NEW x, NEW n, None \in ToSet(x.ret)
  PROVE  Request(x, n) = x
BY DEF Request

\* The four results of sys_fork's requests, all new and apart.
FourPages(m, y) ==
  \E a, b, c, d \in KPage :
    LET G == {a, d} \cup Run(c, BitmapPages) IN
    /\ y.ret[1] = a /\ y.ret[2] = b /\ y.ret[3] = c /\ y.ret[4] = d
    /\ a # d /\ {a, d} \cap Run(c, BitmapPages) = {} /\ b \notin G
    /\ b \notin m.vaddr[kernel] /\ G \cap m.vaddr[kernel] = {}
    /\ y.m.vaddr[kernel] = m.vaddr[kernel] \cup {b} \cup G

(* ForkPages: four new parts of the kernel's heap, or a failure.           *)
LEMMA ForkPagesGot ==
  ASSUME NEW m, NEW A \in SUBSET Proc, MemInv(m, A), NEW y, y = ForkPages(m)
  PROVE  /\ MemInv(y.m, A) /\ KernelOnly(m, y.m)
         /\ None \in ToSet(y.ret) \/ FourPages(m, y)
<1>0. BitmapPages \in Nat \ {0} /\ KPage \subseteq Nat /\ None \notin KPage /\ 1 \in Nat \ {0}
  BY MemoryAssumption, Spaces
<1>1. PICK x0 : x0 = [m |-> m, ret |-> << >>]
  OBVIOUS
<1>2. /\ x0.m = m /\ x0.ret = << >> /\ None \notin ToSet(x0.ret)
      /\ x0.ret \in Seq(KPage \cup {None})
  BY <1>1 DEF ToSet
<1>3. PICK x1 : x1 = Request(x0, 1)
  OBVIOUS
<1>4. PICK x2 : x2 = Request(x1, 1)
  OBVIOUS
<1>5. PICK x3 : x3 = Request(x2, BitmapPages)
  OBVIOUS
<1>6. y = Request(x3, 1)
  BY <1>1, <1>3, <1>4, <1>5 DEF ForkPages
<1>7. PICK a \in KPage \cup {None} :
        /\ MemInv(x1.m, A) /\ KernelOnly(m, x1.m) /\ x1.ret \in Seq(KPage \cup {None})
        /\ x1.ret = Append(<< >>, a) /\ (None \in ToSet(x1.ret) <=> a = None)
        /\ a = None \/ Fresh(m, x1.m, a, 1)
  BY <1>0, <1>2, <1>3, RequestMade
<1>8. CASE a = None
  <2>1. x2 = x1
    BY <1>4, <1>7, <1>8, RequestSkipped
  <2>2. x3 = x1
    BY <1>5, <1>7, <1>8, <2>1, RequestSkipped
  <2>3. y = x1
    BY <1>6, <1>7, <1>8, <2>2, RequestSkipped
  <2>4. QED  BY <1>7, <1>8, <2>3
<1>9. CASE a # None
  <2>1. PICK b \in KPage \cup {None} :
          /\ MemInv(x2.m, A) /\ KernelOnly(x1.m, x2.m) /\ x2.ret \in Seq(KPage \cup {None})
          /\ x2.ret = Append(x1.ret, b) /\ (None \in ToSet(x2.ret) <=> b = None)
          /\ b = None \/ Fresh(x1.m, x2.m, b, 1)
    BY <1>0, <1>4, <1>7, <1>9, RequestMade
  <2>2. KernelOnly(m, x2.m)
    BY <1>7, <2>1, KernelOnlyTwice
  <2>3. CASE b = None
    <3>1. x3 = x2
      BY <1>5, <2>1, <2>3, RequestSkipped
    <3>2. y = x2
      BY <1>6, <2>1, <2>3, <3>1, RequestSkipped
    <3>3. QED  BY <2>1, <2>2, <2>3, <3>2
  <2>4. CASE b # None
    <3>1. PICK c \in KPage \cup {None} :
            /\ MemInv(x3.m, A) /\ KernelOnly(x2.m, x3.m) /\ x3.ret \in Seq(KPage \cup {None})
            /\ x3.ret = Append(x2.ret, c) /\ (None \in ToSet(x3.ret) <=> c = None)
            /\ c = None \/ Fresh(x2.m, x3.m, c, BitmapPages)
      BY <1>0, <1>5, <2>1, <2>4, RequestMade
    <3>2. KernelOnly(m, x3.m)
      BY <2>2, <3>1, KernelOnlyTwice
    <3>3. CASE c = None
      <4>1. y = x3
        BY <1>6, <3>1, <3>3, RequestSkipped
      <4>2. QED  BY <3>1, <3>2, <3>3, <4>1
    <3>4. CASE c # None
      <4>1. PICK d \in KPage \cup {None} :
              /\ MemInv(y.m, A) /\ KernelOnly(x3.m, y.m)
              /\ y.ret = Append(x3.ret, d) /\ (None \in ToSet(y.ret) <=> d = None)
              /\ d = None \/ Fresh(x3.m, y.m, d, 1)
        BY <1>0, <1>6, <3>1, <3>4, RequestMade
      <4>2. KernelOnly(m, y.m)
        BY <3>2, <4>1, KernelOnlyTwice
      <4>3. CASE d = None
        BY <4>1, <4>2, <4>3
      <4>4. CASE d # None
        <5>1. /\ Fresh(m, x1.m, a, 1) /\ Fresh(x1.m, x2.m, b, 1)
              /\ Fresh(x2.m, x3.m, c, BitmapPages) /\ Fresh(x3.m, y.m, d, 1)
          BY <1>7, <1>9, <2>1, <2>4, <3>1, <3>4, <4>1, <4>4
        <5>2. a \in KPage /\ b \in KPage /\ c \in KPage /\ d \in KPage
          BY <5>1 DEF Fresh
        <5>3. Run(a, 1) = {a} /\ Run(b, 1) = {b} /\ Run(d, 1) = {d}
          BY <1>0, <5>2, RunOfOne
        <5>4. PICK C : C = Run(c, BitmapPages)
          OBVIOUS
        <5>5. /\ a \notin m.vaddr[kernel] /\ x1.m.vaddr[kernel] = m.vaddr[kernel] \cup {a}
              /\ b \notin x1.m.vaddr[kernel] /\ x2.m.vaddr[kernel] = x1.m.vaddr[kernel] \cup {b}
              /\ C \cap x2.m.vaddr[kernel] = {} /\ x3.m.vaddr[kernel] = x2.m.vaddr[kernel] \cup C
              /\ d \notin x3.m.vaddr[kernel] /\ y.m.vaddr[kernel] = x3.m.vaddr[kernel] \cup {d}
          BY <5>1, <5>3, <5>4 DEF Fresh
        <5> DEFINE G == {a, d} \cup C
        <5>6. /\ a # d /\ {a, d} \cap C = {} /\ b \notin G
              /\ b \notin m.vaddr[kernel] /\ G \cap m.vaddr[kernel] = {}
              /\ y.m.vaddr[kernel] = m.vaddr[kernel] \cup {b} \cup G
          BY <5>5
        <5>7. FourPages(m, y)
          <6>1. x1.ret \in Seq(KPage \cup {None}) /\ Len(x1.ret) = 1 /\ x1.ret[1] = a
            BY <1>7
          <6>2. x2.ret \in Seq(KPage \cup {None}) /\ Len(x2.ret) = 2 /\ x2.ret[1] = a /\ x2.ret[2] = b
            BY <2>1, <6>1
          <6>3. x3.ret \in Seq(KPage \cup {None}) /\ Len(x3.ret) = 3
                /\ x3.ret[1] = a /\ x3.ret[2] = b /\ x3.ret[3] = c
            BY <3>1, <6>2
          <6>4. y.ret[1] = a /\ y.ret[2] = b /\ y.ret[3] = c /\ y.ret[4] = d
            BY <4>1, <6>3
          <6>5. QED  BY <5>2, <5>4, <5>6, <6>4 DEF FourPages
        <5>8. QED  BY <4>1, <4>2, <5>7
      <4>5. QED  BY <4>3, <4>4
    <3>5. QED  BY <3>3, <3>4
  <2>5. QED  BY <2>3, <2>4
<1>10. QED  BY <1>8, <1>9

\* The records of proc.
ProcRecord == [status : {"none", "alive", "hanging"}, pcb : KPage \cup {None},
               bitmap : KPage \cup {None}, dir : KPage \cup {None}]

\* What a step that concerns process q only has to show of q.
Settled(q) ==
  /\ proc'[q].status = "none" => /\ mem'.pte[q] = [v \in UPage |-> None]
                                 /\ mem'.pde[q] = None /\ mem'.vaddr[q] = {}
  /\ ~mem'.fault /\ q \in Exists' => Distinct(q)'
  /\ ~mem'.fault /\ q \in Alive' => HeapInv(heap'[q], used'[q], Mapped(mem', q))

(* The invariant is kept when a step concerns one process and the kernel.  *)
LEMMA ProcessStep ==
  ASSUME IInv, NEW q \in Proc, \A p \in Proc : p # q => Untouched(p), Settled(q),
         mem.fault => mem'.fault, MemInv(mem', Alive'),
         heap' \in [Proc -> Heaps], used' \in [Proc -> SUBSET Block], proc' \in [Proc -> ProcRecord],
         cur' \in Alive', asleep' \subseteq Alive',
         user_lock' \in KPage \cup {None}, lost' \subseteq KPage,
         ~mem'.fault => Owned(mem'.vaddr[kernel], lost', KernelPages'),
         ~mem'.oom => user_lock' = None
  PROVE  IInv'
<1>1. TypeOK'
  <2>1. MemTypeOK(mem')
    BY DEF MemInv
  <2>2. QED  BY <2>1 DEF TypeOK, Heaps, ProcRecord
<1>2. UnusedEmpty'
  BY Unaffected DEF Settled, UnusedEmpty
<1>3. ~mem'.fault => KPagesInv'
  <2> SUFFICES ASSUME ~mem'.fault PROVE KPagesInv'
    OBVIOUS
  <2>1. \A p \in Proc : p # q => (Distinct(p)' <=> Distinct(p)) /\ (p \in Exists' <=> p \in Exists)
    BY Unaffected
  <2>2. \A p \in Exists : Distinct(p)
    BY OwnedAll DEF IInv
  <2>3. \A p \in Exists' : p \in Proc
    BY DEF Exists
  <2>4. \A p \in Exists' : Distinct(p)'
    BY <2>1, <2>2, <2>3 DEF Settled
  <2>5. Owned(mem'.vaddr[kernel], lost', KernelPages')
    OBVIOUS
  <2>6. (KPagesInv <=> Owned(mem.vaddr[kernel], lost, KernelPages) /\ \A p \in Exists : Distinct(p))'
    BY OwnedAll, PTL
  <2>7. QED  BY <2>4, <2>5, <2>6
<1>4. ~mem'.fault => \A p \in Alive' : HeapInv(heap'[p], used'[p], Mapped(mem', p))
  <2>1. \A p \in Alive' : p \in Proc
    BY DEF Alive
  <2>2. QED  BY <2>1, Unaffected DEF Settled
<1>5. QED  BY <1>1, <1>2, <1>3, <1>4 DEF IInv

(* Which process pages change when the kernel's pages do.                  *)
LEMMA KernelOnlySpaces ==
  ASSUME NEW m, NEW a, KernelOnly(m, a), NEW p \in Proc
  PROVE  a.pte[p] = m.pte[p] /\ a.pde[p] = m.pde[p] /\ a.vaddr[p] = m.vaddr[p]
BY Spaces DEF KernelOnly, OnlySpace

(* A fork that fails, or sleeps for ever: what it got is lost.             *)
LEMMA ForkFails ==
  ASSUME IInv, ~mem.fault, NEW a, MemInv(a, Alive), KernelOnly(mem, a), mem' = a,
         lost' = lost \cup (a.vaddr[kernel] \ mem.vaddr[kernel]),
         asleep' \subseteq Alive, UNCHANGED << heap, proc, used, cur, user_lock >>
  PROVE  IInv'
<1>1. Alive' = Alive /\ Exists' = Exists
  BY DEF Alive, Exists
<1>2. \A p \in Proc : Untouched(p)
  BY KernelOnlySpaces DEF Untouched
<1>3. /\ (mem.fault => mem'.fault) /\ (mem.oom => mem'.oom) /\ init \in Proc
      /\ mem.vaddr[kernel] \subseteq mem'.vaddr[kernel]
  BY Spaces DEF KernelOnly, OnlySpace
<1>4. Settled(init)
  <2>1. KPagesInv
    BY DEF IInv
  <2>2. \A p \in Exists : Distinct(p)
    BY <2>1, OwnedAll
  <2>3. QED  BY <1>2, <1>3, <2>2, Unaffected DEF Settled
<1>5. Owned(mem'.vaddr[kernel], lost', KernelPages')
  <2>1. Owned(mem.vaddr[kernel], lost, KernelPages)
    BY OwnedAll DEF IInv
  <2>2. \A p \in Proc : KernelPages'[p] = KernelPages[p]
    BY DEF KernelPages, KernelPagesOf, BitmapOf
  <2>3. QED  BY <1>3, <2>1, <2>2, OwnedLost
<1>6. lost' \subseteq KPage
  <2>1. a.vaddr[kernel] \subseteq KPage
    BY Spaces DEF MemInv, MemTypeOK
  <2>2. QED  BY <2>1 DEF IInv, TypeOK
<1>7. /\ heap' \in [Proc -> Heaps] /\ used' \in [Proc -> SUBSET Block] /\ proc' \in [Proc -> ProcRecord]
      /\ cur' \in Alive' /\ asleep' \subseteq Alive' /\ user_lock' \in KPage \cup {None}
  BY <1>1 DEF IInv, TypeOK, Heaps, ProcRecord
<1>8. (~mem'.oom => user_lock' = None) /\ MemInv(mem', Alive')
  BY <1>1, <1>3 DEF IInv
<1>9. QED
  BY <1>2, <1>3, <1>4, <1>5, <1>6, <1>7, <1>8, ProcessStep

(* The memory after a fork that succeeds.                                  *)
LEMMA ForkMemory ==
  ASSUME IInv, ~mem.fault, NEW q \in Proc, proc[q].status = "none",
         NEW g, MemInv(g, Alive), KernelOnly(mem, g), NEW b \in g.vaddr[kernel],
         NEW x, x = CopyBody(g, cur, q),
         NEW y, y = IF x.fault THEN x ELSE mfree_page(x, kernel, b, 1)
  PROVE  /\ MemInv(y, Alive \cup {q})
         /\ \A p \in Proc : p # q => /\ y.pte[p] = mem.pte[p] /\ y.pde[p] = mem.pde[p]
                                     /\ y.vaddr[p] = mem.vaddr[p]
         /\ (mem.fault => y.fault) /\ (mem.oom => y.oom)
         /\ ~y.fault => Mapped(y, q) = Mapped(mem, cur) /\ y.vaddr[kernel] = g.vaddr[kernel] \ {b}
<1> DEFINE A == Alive \cup {q}
<1>1. /\ cur \in Proc /\ cur \in A /\ cur # q /\ A \in SUBSET Proc /\ q # kernel /\ cur # kernel
      /\ q \in Space /\ cur \in Space /\ kernel \in Space /\ Pages(cur) = UPage /\ Pages(q) = UPage
      /\ \A p \in Proc : p \in Space /\ p # kernel
  <2>1. cur \in Proc /\ cur \in Alive
    BY Running
  <2>2. q \notin Alive
    BY DEF Alive
  <2>3. QED  BY <2>1, <2>2, Spaces DEF Alive
<1>2. g.pte[q] = [v \in UPage |-> None] /\ g.pde[q] = None /\ g.vaddr[q] = {}
  <2>1. mem.pte[q] = [v \in UPage |-> None] /\ mem.pde[q] = None /\ mem.vaddr[q] = {}
    BY DEF IInv, UnusedEmpty
  <2>2. QED  BY <2>1, KernelOnlySpaces
<1>3. MemInv(g, A) /\ Mapped(g, q) = {}
  <2>1. Alive \in SUBSET Proc
    BY DEF Alive
  <2>2. QED  BY <1>2, <2>1, EmptyJoins
<1> HIDE DEF A
<1>4. /\ MemInv(x, A) /\ x.vaddr = [g.vaddr EXCEPT ![q] = g.vaddr[cur]]
      /\ \A t \in Space : t # q => x.pte[t] = g.pte[t]
      /\ \A t \in Proc : t # q => x.pde[t] = g.pde[t]
      /\ ~x.fault => Mapped(x, q) = Mapped(g, cur)
      /\ (g.oom => x.oom) /\ (g.fault => x.fault)
  <2>1. q \in A /\ cur \in A /\ cur # q /\ A \in SUBSET Proc
    BY <1>1 DEF A
  <2>2. MemInv(g, A) /\ Mapped(g, q) = {} /\ x = CopyBody(g, cur, q)
    BY <1>3
  <2>3. QED  BY <2>1, <2>2, BodyCopied
<1>5. g.vaddr \in [Space -> SUBSET (KPage \cup UPage)] /\ g.vaddr[kernel] \subseteq KPage
  BY <1>1, <1>3, Spaces DEF MemInv, MemTypeOK
<1>6. x.vaddr[kernel] = g.vaddr[kernel]
  BY <1>1, <1>4, <1>5
<1>7. \A p \in Proc : p # q => x.pte[p] = mem.pte[p] /\ x.pde[p] = mem.pde[p] /\ x.vaddr[p] = mem.vaddr[p]
  <2>1. \A p \in Proc : p # q => x.pte[p] = g.pte[p] /\ x.pde[p] = g.pde[p] /\ x.vaddr[p] = g.vaddr[p]
    BY <1>1, <1>4, <1>5
  <2>2. QED  BY <2>1, KernelOnlySpaces
<1>8. Mapped(g, cur) = Mapped(mem, cur)
  BY <1>1, KernelOnlySpaces DEF Mapped
<1>9. (mem.fault => x.fault) /\ (mem.oom => x.oom)
  BY <1>4 DEF KernelOnly, OnlySpace
<1>10. CASE x.fault
  <2>1. y = x
    BY <1>10
  <2>2. QED  BY <1>4, <1>7, <1>9, <1>10, <2>1 DEF A
<1>11. CASE ~x.fault
  <2>1. y = mfree_page(x, kernel, b, 1)
    BY <1>11
  <2>2. b \in Nat /\ 1 \in Nat
    BY <1>5, Spaces
  <2>3. Run(b, 1) = {b}
    BY <2>2, RunOfOne
  <2>4. Run(b, 1) \subseteq x.vaddr[kernel]
    BY <1>6, <2>3
  <2>5. /\ MemInv(y, A)
        /\ \/ Frees(x, y, kernel, Run(b, 1))
           \/ y.fault /\ x.oom /\ y.oom /\ y.vaddr = x.vaddr /\ y.pte = x.pte /\ y.pde = x.pde
    <3>1. PICK W : W = Run(b, 1)
      OBVIOUS
    <3>2. kernel \in A \cup {kernel} /\ A \in SUBSET Proc /\ MemInv(x, A)
      BY <1>1, <1>4
    <3>3. /\ MemInv(y, A)
          /\ \/ Frees(x, y, kernel, W)
             \/ y.fault /\ x.oom /\ y.oom /\ y.vaddr = x.vaddr /\ y.pte = x.pte /\ y.pde = x.pde
      BY <2>1, <2>2, <2>4, <3>1, <3>2, MfreePage
    <3>4. QED  BY <3>1, <3>3
  <2>6. CASE Frees(x, y, kernel, Run(b, 1))
    <3>1. x.vaddr \in [Space -> SUBSET (KPage \cup UPage)]
      BY <1>4 DEF MemInv, MemTypeOK
    <3>2. /\ y.vaddr = [x.vaddr EXCEPT ![kernel] = @ \ {b}]
          /\ \A t \in Space : t # kernel => y.pte[t] = x.pte[t]
          /\ y.pde = x.pde /\ y.oom = x.oom /\ y.fault = x.fault
      BY <2>3, <2>6 DEF Frees
    <3>3. y.vaddr[kernel] = g.vaddr[kernel] \ {b}
      BY <1>1, <1>6, <3>1, <3>2
    <3>4. \A p \in Proc : y.pte[p] = x.pte[p] /\ y.pde[p] = x.pde[p] /\ y.vaddr[p] = x.vaddr[p]
      BY <1>1, <3>1, <3>2
    <3>5. Mapped(y, q) = Mapped(x, q)
      BY <3>4 DEF Mapped
    <3>6. QED  BY <1>4, <1>7, <1>8, <1>9, <1>11, <2>5, <3>2, <3>3, <3>4, <3>5 DEF A
  <2>7. CASE y.fault /\ x.oom /\ y.oom /\ y.vaddr = x.vaddr /\ y.pte = x.pte /\ y.pde = x.pde
    BY <1>7, <1>9, <2>5, <2>7 DEF A
  <2>8. QED  BY <2>5, <2>6, <2>7
<1>12. QED  BY <1>10, <1>11

(* A fork that succeeds.                                                   *)
LEMMA ForkWorks ==
  ASSUME IInv, ~mem.fault, NEW q \in Proc, proc[q].status = "none",
         NEW g, MemInv(g.m, Alive), KernelOnly(mem, g.m), FourPages(mem, g),
         mem' = LET copied == CopyBody(g.m, cur, q)
                IN IF copied.fault THEN copied ELSE mfree_page(copied, kernel, g.ret[2], 1),
         proc' = [proc EXCEPT ![q] = [status |-> "alive", pcb |-> g.ret[1],
                                      bitmap |-> g.ret[3], dir |-> g.ret[4]]],
         heap' = [heap EXCEPT ![q] = ChildHeap(cur)], used' = [used EXCEPT ![q] = used[cur]],
         UNCHANGED << lost, cur, user_lock, asleep >>
  PROVE  IInv'
<1>1. PICK a, b, c, d \in KPage :
        LET G == {a, d} \cup Run(c, BitmapPages) IN
        /\ g.ret[1] = a /\ g.ret[2] = b /\ g.ret[3] = c /\ g.ret[4] = d
        /\ a # d /\ {a, d} \cap Run(c, BitmapPages) = {} /\ b \notin G
        /\ b \notin mem.vaddr[kernel] /\ G \cap mem.vaddr[kernel] = {}
        /\ g.m.vaddr[kernel] = mem.vaddr[kernel] \cup {b} \cup G
  BY DEF FourPages
<1>2. PICK C : C = Run(c, BitmapPages)
  OBVIOUS
<1> DEFINE G == {a, d} \cup C
<1>3. /\ a # d /\ {a, d} \cap C = {} /\ b \notin G /\ b \notin mem.vaddr[kernel]
      /\ G \cap mem.vaddr[kernel] = {} /\ g.m.vaddr[kernel] = mem.vaddr[kernel] \cup {b} \cup G
  BY <1>1, <1>2
<1>4. cur \in Proc /\ cur # q /\ cur \in Alive
  <2>1. cur \in Proc /\ cur \in Alive
    BY Running
  <2>2. q \notin Alive
    BY DEF Alive
  <2>3. QED  BY <2>1, <2>2
<1>5. /\ MemInv(mem', Alive \cup {q})
      /\ \A p \in Proc : p # q => /\ mem'.pte[p] = mem.pte[p] /\ mem'.pde[p] = mem.pde[p]
                                  /\ mem'.vaddr[p] = mem.vaddr[p]
      /\ (mem.fault => mem'.fault) /\ (mem.oom => mem'.oom)
      /\ ~mem'.fault => /\ Mapped(mem', q) = Mapped(mem, cur)
                        /\ mem'.vaddr[kernel] = g.m.vaddr[kernel] \ {b}
  <2>1. PICK x : x = CopyBody(g.m, cur, q)
    OBVIOUS
  <2>2. PICK y : y = IF x.fault THEN x ELSE mfree_page(x, kernel, b, 1)
    OBVIOUS
  <2>3. mem' = y
    BY <1>1, <2>1, <2>2
  <2>4. PICK m : m = g.m
    OBVIOUS
  <2>5. b \in m.vaddr[kernel] /\ MemInv(m, Alive) /\ KernelOnly(mem, m) /\ x = CopyBody(m, cur, q)
    BY <1>3, <2>1, <2>4
  <2>6. /\ MemInv(y, Alive \cup {q})
        /\ \A p \in Proc : p # q => /\ y.pte[p] = mem.pte[p] /\ y.pde[p] = mem.pde[p]
                                    /\ y.vaddr[p] = mem.vaddr[p]
        /\ (mem.fault => y.fault) /\ (mem.oom => y.oom)
        /\ ~y.fault => Mapped(y, q) = Mapped(mem, cur) /\ y.vaddr[kernel] = m.vaddr[kernel] \ {b}
    BY <2>2, <2>5, ForkMemory
  <2>7. QED  BY <2>3, <2>4, <2>6
<1> DEFINE new == [status |-> "alive", pcb |-> a, bitmap |-> c, dir |-> d]
<1>6. /\ proc \in [Proc -> ProcRecord] /\ heap \in [Proc -> Heaps] /\ used \in [Proc -> SUBSET Block]
      /\ user_lock \in KPage \cup {None} /\ lost \subseteq KPage
  BY DEF IInv, TypeOK, ProcRecord, Heaps
<1>7. proc' = [proc EXCEPT ![q] = new] /\ new \in ProcRecord
  BY <1>1 DEF ProcRecord
<1>8. /\ proc' \in [Proc -> ProcRecord] /\ proc'[q] = new
      /\ \A p \in Proc : p # q => proc'[p] = proc[p]
  BY <1>6, <1>7
<1>9. PICK h : h = ChildHeap(cur)
  OBVIOUS
<1>10. h \in Heaps /\ (~mem'.fault => HeapInv(h, used[cur], Mapped(mem', q)))
  <2>1. PICK P : P = Mapped(mem, cur)
    OBVIOUS
  <2>2. HeapInv(heap[cur], used[cur], P) /\ heap[cur] \in Heaps
    BY <2>1, Running
  <2>3. h \in Heaps /\ HeapInv(h, used[cur], P)
    BY <1>4, <1>9, <2>2, HeapInherited DEF Heaps
  <2>4. QED  BY <1>5, <2>1, <2>3
<1>11. /\ heap' \in [Proc -> Heaps] /\ heap'[q] = h
       /\ \A p \in Proc : p # q => heap'[p] = heap[p]
  BY <1>6, <1>9, <1>10
<1>12. /\ used' \in [Proc -> SUBSET Block] /\ used'[q] = used[cur]
       /\ \A p \in Proc : p # q => used'[p] = used[p]
  BY <1>4, <1>6
<1>13. \A p \in Proc : p # q => Untouched(p)
  BY <1>5, <1>8, <1>11, <1>12 DEF Untouched
<1>14. Alive' = Alive \cup {q} /\ q \in Exists'
  BY <1>8 DEF Alive, Exists
<1>15. KernelPagesOf(q)' = G /\ BitmapOf(q)' = C /\ KernelPagesOf(q) = {}
  BY <1>2, <1>8 DEF KernelPagesOf, BitmapOf
<1>16. Settled(q)
  <2>1. Distinct(q)'
    BY <1>3, <1>8, <1>15 DEF Distinct
  <2>2. proc'[q].status # "none"
    BY <1>8
  <2>3. ~mem'.fault => HeapInv(heap'[q], used'[q], Mapped(mem', q))
    BY <1>10, <1>11, <1>12
  <2>4. QED  BY <2>1, <2>2, <2>3 DEF Settled
<1>17. ~mem'.fault => Owned(mem'.vaddr[kernel], lost', KernelPages')
  <2> SUFFICES ASSUME ~mem'.fault PROVE Owned(mem'.vaddr[kernel], lost', KernelPages')
    OBVIOUS
  <2>1. Owned(mem.vaddr[kernel], lost, KernelPages)
    BY OwnedAll DEF IInv
  <2>2. \A p \in Proc : p # q => KernelPagesOf(p)' = KernelPagesOf(p)
    BY <1>5, <1>13, Unaffected
  <2>3. OnlyAt(KernelPages, KernelPages', q) /\ KernelPages'[q] = G /\ KernelPages[q] = {}
    BY <1>15, <2>2 DEF OnlyAt, KernelPages
  <2>4. mem'.vaddr[kernel] = mem.vaddr[kernel] \cup G
    BY <1>3, <1>5
  <2>5. PICK K2 : K2 = KernelPages'
    OBVIOUS
  <2>6. PICK G2 : G2 = G
    OBVIOUS
  <2>7. G2 \cap mem.vaddr[kernel] = {} /\ OnlyAt(KernelPages, K2, q) /\ K2[q] = G2
    BY <1>3, <2>3, <2>5, <2>6
  <2>8. Owned(mem.vaddr[kernel] \cup G2, lost, K2)
    BY <2>1, <2>3, <2>7, OwnedMore
  <2>9. QED  BY <2>4, <2>5, <2>6, <2>8
<1>18. /\ (~mem'.oom => user_lock' = None) /\ cur' \in Alive' /\ MemInv(mem', Alive')
       /\ asleep' \subseteq Alive'
  BY <1>4, <1>5, <1>14 DEF IInv, TypeOK
<1>19. QED
  <2> HIDE DEF new, G
  <2>1. user_lock' \in KPage \cup {None} /\ lost' \subseteq KPage
    BY <1>6
  <2>2. QED
    BY <1>5, <1>8, <1>11, <1>12, <1>13, <1>16, <1>17, <1>18, <2>1, ProcessStep

\* a is m with an empty TLB, and with a fault if x.
Interrupted(m, a, x) == a = [m EXCEPT !.tlb = {}, !.fault = @ \/ x]

(* The memory of a fork that sleeps: CR3 has been loaded, and the parent's *)
(* page may not have been there.                                           *)
LEMMA ForkInterrupted ==
  ASSUME NEW m, NEW A, MemInv(m, A), m.oom, NEW x \in BOOLEAN, NEW a, Interrupted(m, a, x)
  PROVE  /\ MemInv(a, A) /\ a.vaddr = m.vaddr /\ a.pte = m.pte /\ a.pde = m.pde
         /\ a.oom = m.oom /\ (m.fault => a.fault)
<1>1. m \in MemRecord /\ MemTypeOK(m)
  BY DEF MemInv, MemTypeOK, MemRecord
<1>2. m.fault \in BOOLEAN
  BY <1>1 DEF MemRecord
<1>3. /\ a.vaddr = m.vaddr /\ a.pte = m.pte /\ a.pde = m.pde /\ a.bits = m.bits
      /\ a.oom = m.oom /\ a.fault = (m.fault \/ x) /\ a.tlb = {} /\ a \in MemRecord
  BY <1>1, <1>2 DEF MemRecord, Interrupted
<1>4. MemTypeOK(a)
  BY <1>1, <1>3 DEF MemTypeOK, MemRecord
<1>5. FramesInv(m, A) => FramesInv(a, A)
  BY <1>3, KernelSame, UserSame DEF FramesInv
<1>6. Covered(m, A) => Covered(a, A)
  BY <1>3 DEF Covered, Mapped
<1>7. QED  BY <1>3, <1>4, <1>5, <1>6 DEF MemInv

(* sys_fork.                                                               *)
LEMMA ForkStep == ASSUME IInv, NEW q \in Proc, sys_fork(q) PROVE IInv'
<1>1. ~mem.fault /\ proc[q].status = "none" /\ UNCHANGED << cur, user_lock >>
  BY DEF sys_fork, Runs
<1>2. PICK g : g = ForkPages(mem)
  OBVIOUS
<1>3. /\ MemInv(g.m, Alive) /\ KernelOnly(mem, g.m)
      /\ None \in ToSet(g.ret) \/ FourPages(mem, g)
  <2>1. MemInv(mem, Alive) /\ Alive \in SUBSET Proc
    BY DEF IInv, Alive
  <2>2. QED  BY <1>2, <2>1, ForkPagesGot
<1>4. cur \in Alive /\ asleep \subseteq Alive
  BY DEF IInv, TypeOK
<1>5. CASE None \in ToSet(g.ret)
  <2>1. /\ mem' = g.m /\ lost' = lost \cup (g.m.vaddr[kernel] \ mem.vaddr[kernel])
        /\ UNCHANGED << heap, proc, asleep, used >>
    BY <1>2, <1>5 DEF sys_fork
  <2>2. PICK a : a = g.m
    OBVIOUS
  <2>3. QED  BY <1>1, <1>3, <1>4, <2>1, <2>2, ForkFails
<1>6. CASE None \notin ToSet(g.ret) /\ PoolOpen
  <2>1. /\ mem' = LET copied == CopyBody(g.m, cur, q)
                  IN IF copied.fault THEN copied ELSE mfree_page(copied, kernel, g.ret[2], 1)
        /\ proc' = [proc EXCEPT ![q] = [status |-> "alive", pcb |-> g.ret[1],
                                        bitmap |-> g.ret[3], dir |-> g.ret[4]]]
        /\ heap' = [heap EXCEPT ![q] = ChildHeap(cur)] /\ used' = [used EXCEPT ![q] = used[cur]]
        /\ UNCHANGED << asleep, lost >>
    BY <1>2, <1>6 DEF sys_fork
  <2>2. QED  BY <1>1, <1>3, <1>6, <2>1, ForkWorks
<1>7. CASE None \notin ToSet(g.ret) /\ ~PoolOpen
  <2> DEFINE unmapped == Min(mem.vaddr[cur]) \notin Mapped(mem, cur)
  <2>1. /\ mem' = [g.m EXCEPT !.tlb = {}, !.fault = @ \/ unmapped]
        /\ lost' = lost \cup (g.m.vaddr[kernel] \ mem.vaddr[kernel])
        /\ asleep' = asleep \cup {cur} /\ UNCHANGED << heap, proc, used >>
    BY <1>2, <1>7 DEF sys_fork
  <2>2. PICK x \in BOOLEAN : x = unmapped
    OBVIOUS
  <2> HIDE DEF unmapped
  <2>3. PICK m : m = g.m
    OBVIOUS
  <2>4. PICK a : Interrupted(m, a, x)
    BY DEF Interrupted
  <2>5. user_lock # None
    BY <1>7 DEF PoolOpen, sys_fork
  <2>6. m.oom
    BY <1>3, <2>3, <2>5 DEF IInv, KernelOnly, OnlySpace
  <2>7. /\ MemInv(a, Alive) /\ a.vaddr = m.vaddr /\ a.pte = m.pte /\ a.pde = m.pde
        /\ a.oom = m.oom /\ (m.fault => a.fault)
    <3>1. PICK A : A = Alive
      OBVIOUS
    <3>2. MemInv(m, A)
      BY <1>3, <2>3, <3>1
    <3>3. /\ MemInv(a, A) /\ a.vaddr = m.vaddr /\ a.pte = m.pte /\ a.pde = m.pde
          /\ a.oom = m.oom /\ (m.fault => a.fault)
      BY <2>4, <2>6, <3>2, ForkInterrupted
    <3>4. QED  BY <3>1, <3>3
  <2>8. KernelOnly(mem, a)
    BY <1>3, <2>3, <2>7 DEF KernelOnly, OnlySpace
  <2>9. mem' = a /\ lost' = lost \cup (a.vaddr[kernel] \ mem.vaddr[kernel])
    BY <2>1, <2>2, <2>3, <2>4, <2>7 DEF Interrupted
  <2>10. asleep' \subseteq Alive
    BY <1>4, <2>1
  <2>11. QED  BY <1>1, <2>1, <2>7, <2>8, <2>9, <2>10, ForkFails
<1>8. QED  BY <1>5, <1>6, <1>7

-----------------------------------------------------------------------------
(***************************************************************************)
(* exit and wait                                                           *)
(***************************************************************************)
\* The frames of p and its page table are not marked any more.
Dropped(m, a, p) ==
  a = [m EXCEPT !.bits["user"] = @ \ {m.pte[p][v] : v \in Mapped(m, p)},
                !.bits["kernel"] = @ \ {m.pde[p]}]

(* What is left when a process gives back its frames is accounted for      *)
(* without it.                                                             *)
LEMMA SpaceDropped ==
  ASSUME NEW m, NEW A \in SUBSET Proc, MemInv(m, A), NEW p \in A, NEW a, Dropped(m, a, p)
  PROVE  /\ MemInv(a, A \ {p}) /\ a.pte = m.pte /\ a.pde = m.pde /\ a.vaddr = m.vaddr
         /\ a.oom = m.oom /\ a.fault = m.fault
<1> DEFINE frames == {m.pte[p][v] : v \in Mapped(m, p)}
           B == A \ {p}
<1>1. /\ MemTypeOK(m) /\ m \in MemRecord /\ Pages(p) = UPage /\ p # kernel /\ p \in Proc
      /\ None \notin KFrame \cup UFrame
  BY Spaces DEF MemInv, MemTypeOK, MemRecord
<1>2. a = [m EXCEPT !.bits["user"] = @ \ frames, !.bits["kernel"] = @ \ {m.pde[p]}]
  BY DEF Dropped
<1> HIDE DEF frames
<1>3. /\ a.pte = m.pte /\ a.pde = m.pde /\ a.vaddr = m.vaddr /\ a.tlb = m.tlb
      /\ a.oom = m.oom /\ a.fault = m.fault
      /\ a.bits["user"] = m.bits["user"] \ frames
      /\ a.bits["kernel"] = m.bits["kernel"] \ {m.pde[p]}
      /\ a.bits \in [{"kernel", "user"} -> SUBSET (KFrame \cup UFrame)]
  BY <1>1, <1>2 DEF MemRecord
<1>4. a \in MemRecord
  BY <1>1, <1>2, <1>3 DEF MemRecord
<1>5. MemTypeOK(a)
  BY <1>1, <1>3, <1>4 DEF MemTypeOK, MemRecord
<1>6. ASSUME ~m.fault PROVE FramesInv(a, B) /\ Covered(a, B)
  <2>1. FramesInv(m, A) /\ Covered(m, A)
    BY <1>6 DEF MemInv
  <2>2. KernelPagesApart(a) /\ UserPagesApart(a, B) /\ TablesApart(a, B)
    BY <1>3, <2>1 DEF FramesInv, KernelPagesApart, UserPagesApart, TablesApart
  <2>3. KernelMarks(a, B)
    <3> SUFFICES ASSUME NEW f \in KFrame
                 PROVE  f \in a.bits["kernel"] <=> \/ \E v \in KPage : a.pte[kernel][v] = f
                                                   \/ \E q \in B : a.pde[q] = f
      BY DEF KernelMarks
    <3>1. f \in m.bits["kernel"] <=> \/ \E v \in KPage : m.pte[kernel][v] = f
                                     \/ \E q \in A : m.pde[q] = f
      BY <2>1 DEF FramesInv, KernelMarks
    <3>2. CASE f # m.pde[p]
      BY <1>3, <3>1, <3>2
    <3>3. CASE f = m.pde[p]
      <4>1. /\ \A q \in A : m.pde[q] = f => q = p
            /\ \A v \in KPage : m.pte[kernel][v] # f
        BY <1>1, <2>1, <3>3 DEF FramesInv, TablesApart
      <4>2. QED  BY <1>3, <3>3, <4>1
    <3>4. QED  BY <3>2, <3>3
  <2>4. UserMarks(a, B)
    <3> SUFFICES ASSUME NEW f \in UFrame
                 PROVE  f \in a.bits["user"] <=> \E q \in B : \E v \in UPage : a.pte[q][v] = f
      BY DEF UserMarks
    <3>1. f \in m.bits["user"] <=> \E q \in A : \E v \in UPage : m.pte[q][v] = f
      BY <2>1 DEF FramesInv, UserMarks
    <3>2. f \in frames <=> \E v \in UPage : m.pte[p][v] = f
      BY <1>1 DEF frames, Mapped
    <3>3. f \in frames => ~\E q \in B : \E v \in UPage : m.pte[q][v] = f
      BY <1>1, <2>1, <3>2 DEF FramesInv, UserPagesApart
    <3>4. QED  BY <1>3, <3>1, <3>2, <3>3
  <2>5. Covered(a, B)
    BY <1>3, <2>1 DEF Covered, Mapped
  <2>6. QED  BY <2>2, <2>3, <2>4, <2>5 DEF FramesInv
<1>7. ~a.oom => ~a.fault /\ \A s \in B \cup {kernel} : a.vaddr[s] \subseteq Mapped(a, s)
  BY <1>3 DEF MemInv, Mapped
<1>8. QED  BY <1>3, <1>5, <1>6, <1>7 DEF MemInv

(* Where the pages of an address bitmap are.                               *)
LEMMA BitmapRun ==
  ASSUME NEW v, NEW S \in SUBSET KPage, v \in Nat \cup {None}, Run(v, BitmapPages) \subseteq S
  PROVE  /\ v \in Nat /\ BitmapPages - 1 \in Nat
         /\ v + BitmapPages - 1 \in Run(v, BitmapPages)
         /\ Run(v, BitmapPages - 1) = Run(v, BitmapPages) \ {v + BitmapPages - 1}
<1>1. BitmapPages \in Nat \ {0, 1} /\ KPage \subseteq Nat
  BY MemoryAssumption
<1>2. v \in Run(v, BitmapPages)
  BY <1>1 DEF Run, None
<1>3. v \in Nat
  BY <1>1, <1>2
<1>4. QED  BY <1>1, <1>3 DEF Run

\* What release_prog_resource and the switch to another process leave.
Released(m, z, p, v, n) ==
  \E x, y : Dropped(m, x, p) /\ y = mfree_page(x, kernel, v, n) /\ z = [y EXCEPT !.tlb = {}]

\* The memory z after an exit: the kernel pages W are free.
ExitLeaves(z, W) ==
  /\ MemInv(z, Alive \ {cur})
  /\ \A p \in Proc : z.pte[p] = mem.pte[p] /\ z.pde[p] = mem.pde[p] /\ z.vaddr[p] = mem.vaddr[p]
  /\ (mem.fault => z.fault) /\ (mem.oom => z.oom)
  /\ ~z.fault => z.vaddr[kernel] = mem.vaddr[kernel] \ W

(* The memory after an exit.                                               *)
LEMMA ExitMemory ==
  ASSUME IInv, ~mem.fault, NEW v \in Nat, NEW n \in Nat,
         NEW W, W = Run(v, n), W \subseteq mem.vaddr[kernel],
         NEW z, Released(mem, z, cur, v, n)
  PROVE  ExitLeaves(z, W)
<1> DEFINE A == Alive \ {cur}
<1>0. PICK x, y : Dropped(mem, x, cur) /\ y = mfree_page(x, kernel, v, n) /\ z = [y EXCEPT !.tlb = {}]
  BY DEF Released
<1>1. Alive \in SUBSET Proc /\ cur \in Alive /\ MemInv(mem, Alive)
  BY Running
<1>2. /\ MemInv(x, A) /\ x.pte = mem.pte /\ x.pde = mem.pde /\ x.vaddr = mem.vaddr
      /\ x.oom = mem.oom /\ x.fault = mem.fault
  BY <1>0, <1>1, SpaceDropped
<1>3. A \in SUBSET Proc /\ kernel \in A \cup {kernel} /\ Run(v, n) \subseteq x.vaddr[kernel]
  BY <1>1, <1>2
<1> HIDE DEF A
<1>4. /\ MemInv(y, A)
      /\ \/ Frees(x, y, kernel, W)
         \/ y.fault /\ x.oom /\ y.oom /\ y.vaddr = x.vaddr /\ y.pte = x.pte /\ y.pde = x.pde
  BY <1>0, <1>2, <1>3, MfreePage
<1>5. /\ MemInv(z, A) /\ z.vaddr = y.vaddr /\ z.pte = y.pte /\ z.pde = y.pde
      /\ z.oom = y.oom /\ z.fault = y.fault
  BY <1>0, <1>4, TlbEmptied
<1>6. x.vaddr \in [Space -> SUBSET (KPage \cup UPage)]
  BY <1>2 DEF MemInv, MemTypeOK
<1>7. \A p \in Proc : p \in Space /\ p # kernel
  BY Spaces
<1>8. CASE Frees(x, y, kernel, W)
  <2>1. /\ y.vaddr = [x.vaddr EXCEPT ![kernel] = @ \ W]
        /\ \A t \in Space : t # kernel => y.pte[t] = x.pte[t]
        /\ y.pde = x.pde /\ y.oom = x.oom /\ y.fault = x.fault
    BY <1>8 DEF Frees
  <2>2. y.vaddr[kernel] = x.vaddr[kernel] \ W
    BY <1>6, <2>1, Spaces
  <2>3. \A p \in Proc : y.pte[p] = x.pte[p] /\ y.pde[p] = x.pde[p] /\ y.vaddr[p] = x.vaddr[p]
    BY <1>6, <1>7, <2>1
  <2>4. QED  BY <1>2, <1>5, <2>1, <2>2, <2>3 DEF A, ExitLeaves
<1>9. CASE y.fault /\ x.oom /\ y.oom /\ y.vaddr = x.vaddr /\ y.pte = x.pte /\ y.pde = x.pde
  BY <1>2, <1>5, <1>9 DEF A, ExitLeaves
<1>10. QED  BY <1>4, <1>8, <1>9

(* sys_exit.                                                               *)
LEMMA ExitStep == ASSUME IInv, sys_exit PROVE IInv'
<1> DEFINE v == proc[cur].bitmap
           n == BitmapPages - 1
           last == v + BitmapPages - 1
<1>1. /\ ~mem.fault /\ cur \notin asleep /\ cur' \in Alive \ {cur} /\ asleep' = asleep
      /\ mem' = [release_prog_resource(cur) EXCEPT !.tlb = {}]
      /\ proc' = [proc EXCEPT ![cur].status = "hanging", ![cur].bitmap = None]
      /\ lost' = lost \cup {last}
      /\ heap' = heap /\ user_lock' = user_lock /\ used' = used
  BY DEF sys_exit, RunNext, Runs
<1>2. /\ cur \in Proc /\ cur \in Alive /\ MemInv(mem, Alive) /\ Alive \in SUBSET Proc
      /\ proc \in [Proc -> ProcRecord] /\ proc[cur].status = "alive" /\ MemTypeOK(mem)
      /\ proc[cur] \in ProcRecord
  BY <1>1, Running DEF IInv, TypeOK, ProcRecord, Alive
<1>3. /\ KernelPagesOf(cur) = {proc[cur].pcb, proc[cur].dir} \cup Run(v, BitmapPages)
      /\ BitmapOf(cur) = Run(v, BitmapPages)
  BY <1>2 DEF KernelPagesOf, BitmapOf
<1>4. KPagesInv
  BY <1>1 DEF IInv
<1>5. mem.vaddr[kernel] \in SUBSET KPage
  BY <1>2, Spaces DEF MemTypeOK
<1>6. Run(v, BitmapPages) \subseteq mem.vaddr[kernel]
  BY <1>2, <1>3, <1>4 DEF KPagesInv
<1>7. v \in Nat /\ n \in Nat /\ last \in Run(v, BitmapPages) /\ Run(v, n) = Run(v, BitmapPages) \ {last}
  <2>1. v \in Nat \cup {None}
    BY <1>2, Spaces DEF ProcRecord
  <2> HIDE DEF v
  <2>2. QED  BY <1>5, <1>6, <2>1, BitmapRun
<1> HIDE DEF v, n, last
<1>8. /\ MemInv(mem', Alive \ {cur})
      /\ \A p \in Proc : /\ mem'.pte[p] = mem.pte[p] /\ mem'.pde[p] = mem.pde[p]
                         /\ mem'.vaddr[p] = mem.vaddr[p]
      /\ (mem.fault => mem'.fault) /\ (mem.oom => mem'.oom)
      /\ ~mem'.fault => mem'.vaddr[kernel] = mem.vaddr[kernel] \ Run(v, n)
  <2>1. PICK x : Dropped(mem, x, cur)
    BY DEF Dropped
  <2>2. release_prog_resource(cur) = mfree_page(x, kernel, v, n)
    BY <2>1 DEF release_prog_resource, Dropped, v, n
  <2>3. Released(mem, mem', cur, v, n)
    BY <1>1, <2>1, <2>2 DEF Released
  <2>4. PICK z : z = mem'
    OBVIOUS
  <2>5. PICK W : W = Run(v, n)
    OBVIOUS
  <2>6. W \subseteq mem.vaddr[kernel] /\ Released(mem, z, cur, v, n) /\ ~mem.fault
    BY <1>1, <1>6, <1>7, <2>3, <2>4, <2>5
  <2>7. ExitLeaves(z, W)
    BY <1>7, <2>5, <2>6, ExitMemory
  <2>8. QED  BY <2>4, <2>5, <2>7 DEF ExitLeaves
<1>9. /\ proc' \in [Proc -> ProcRecord] /\ \A p \in Proc : p # cur => proc'[p] = proc[p]
      /\ proc'[cur].status = "hanging" /\ proc'[cur].pcb = proc[cur].pcb /\ proc'[cur].dir = proc[cur].dir
  <2>1. PICK r : r = [proc[cur] EXCEPT !.status = "hanging", !.bitmap = None]
    OBVIOUS
  <2>2. r \in ProcRecord /\ r.status = "hanging" /\ r.pcb = proc[cur].pcb /\ r.dir = proc[cur].dir
    BY <1>2, <2>1 DEF ProcRecord
  <2>3. proc' = [proc EXCEPT ![cur] = r]
    BY <1>1, <1>2, <2>1
  <2>4. QED  BY <1>2, <2>2, <2>3
<1>10. \A p \in Proc : p # cur => Untouched(p)
  BY <1>1, <1>8, <1>9 DEF Untouched
<1>11. Alive' = Alive \ {cur} /\ cur \notin Alive'
  BY <1>9 DEF Alive
<1>12. PICK c \in Proc : c = cur
  BY <1>2
<1>13. proc[c].pcb # proc[c].dir /\ {proc[c].pcb, proc[c].dir} \cap Run(v, BitmapPages) = {}
  BY <1>2, <1>3, <1>4, <1>12 DEF KPagesInv, Exists
<1>14. KernelPagesOf(c)' = {proc[c].pcb, proc[c].dir} /\ BitmapOf(c)' = {}
  BY <1>9, <1>12 DEF KernelPagesOf, BitmapOf
<1>15. Settled(c)
  <2>1. Distinct(c)'
    BY <1>9, <1>12, <1>13, <1>14 DEF Distinct
  <2>2. QED  BY <1>9, <1>11, <1>12, <2>1 DEF Settled
<1>16. ~mem'.fault => Owned(mem'.vaddr[kernel], lost', KernelPages')
  <2> SUFFICES ASSUME ~mem'.fault PROVE Owned(mem'.vaddr[kernel], lost', KernelPages')
    OBVIOUS
  <2>1. Owned(mem.vaddr[kernel], lost, KernelPages)
    BY <1>4, OwnedAll
  <2>2. \A p \in Proc : p # c => KernelPagesOf(p)' = KernelPagesOf(p)
    BY <1>8, <1>10, <1>12, Unaffected
  <2>3. PICK K2 : K2 = KernelPages'
    OBVIOUS
  <2>4. PICK W : W = Run(v, BitmapPages)
    OBVIOUS
  <2>5. KernelPages[c] = {proc[c].pcb, proc[c].dir} \cup W
    BY <1>3, <1>12, <2>4 DEF KernelPages
  <2>6. KernelPages'[c] = {proc[c].pcb, proc[c].dir}
    BY <1>14 DEF KernelPages
  <2>7. OnlyAt(KernelPages, K2, c)
    BY <2>2, <2>3 DEF OnlyAt, KernelPages
  <2>8. K2[c] = KernelPages[c] \ W /\ W \subseteq KernelPages[c] /\ {last} \subseteq W
    BY <1>7, <1>13, <2>3, <2>4, <2>5, <2>6
  <2>9. Owned(mem.vaddr[kernel] \ (W \ {last}), lost \cup {last}, K2)
    BY <2>1, <2>7, <2>8, OwnedLess
  <2>10. mem'.vaddr[kernel] = mem.vaddr[kernel] \ (W \ {last})
    BY <1>7, <1>8, <2>4
  <2>11. QED  BY <1>1, <2>3, <2>9, <2>10
<1>17. MemInv(mem', Alive') /\ cur' \in Alive' /\ asleep' \subseteq Alive'
  <2>1. asleep \subseteq Alive
    BY DEF IInv, TypeOK
  <2>2. QED  BY <1>1, <1>8, <1>11, <2>1
<1>18. /\ heap' \in [Proc -> Heaps] /\ used' \in [Proc -> SUBSET Block]
       /\ user_lock' \in KPage \cup {None} /\ (~mem'.oom => user_lock' = None)
  BY <1>1, <1>8, Running
<1>19. lost' \subseteq KPage
  BY <1>1, <1>5, <1>6, <1>7 DEF IInv, TypeOK
<1>20. QED
  BY <1>8, <1>9, <1>10, <1>12, <1>15, <1>16, <1>17, <1>18, <1>19, ProcessStep

\* The address space of q is empty in a, and a is m otherwise.
Cleared(m, a, q) ==
  a = [m EXCEPT !.pte[q] = [v \in UPage |-> None], !.pde[q] = None, !.vaddr[q] = {}]

(* An address space that nobody counts is cleared.                         *)
LEMMA SpaceCleared ==
  ASSUME NEW m, NEW A \in SUBSET Proc, MemInv(m, A), NEW q \in Proc, q \notin A,
         NEW a, Cleared(m, a, q)
  PROVE  /\ MemInv(a, A) /\ a.vaddr[kernel] = m.vaddr[kernel]
         /\ a.pte[q] = [v \in UPage |-> None] /\ a.pde[q] = None /\ a.vaddr[q] = {}
         /\ \A p \in Proc : p # q => /\ a.pte[p] = m.pte[p] /\ a.pde[p] = m.pde[p]
                                     /\ a.vaddr[p] = m.vaddr[p]
         /\ a.oom = m.oom /\ a.fault = m.fault
<1> DEFINE none == [v \in UPage |-> None]
<1>1. /\ MemTypeOK(m) /\ m \in MemRecord /\ q # kernel /\ Pages(q) = UPage /\ q \in Space
      /\ kernel \in Space /\ kernel \notin A /\ \A p \in Proc : p \in Space
      /\ Frames(q) = UFrame
  BY Spaces DEF MemInv, MemTypeOK, MemRecord
<1>2. none \in [UPage -> UFrame \cup {None}]
  OBVIOUS
<1> HIDE DEF none
<1>3. a = [m EXCEPT !.pte[q] = none, !.pde[q] = None, !.vaddr[q] = {}]
  BY DEF Cleared, none
<1>4. /\ a.bits = m.bits /\ a.tlb = m.tlb /\ a.oom = m.oom /\ a.fault = m.fault
      /\ a.pte = [m.pte EXCEPT ![q] = none] /\ a.pde = [m.pde EXCEPT ![q] = None]
      /\ a.vaddr = [m.vaddr EXCEPT ![q] = {}]
  BY <1>1, <1>3 DEF MemRecord
<1>5. /\ m.pte \in [Space -> PageMap] /\ m.vaddr \in [Space -> SUBSET (KPage \cup UPage)]
      /\ m.pde \in [Proc -> KFrame \cup {None}]
  BY <1>1 DEF MemRecord, PageMap
<1>6. none \in PageMap
  BY <1>2 DEF PageMap
<1>7. /\ a.pte \in [Space -> PageMap] /\ a.vaddr \in [Space -> SUBSET (KPage \cup UPage)]
      /\ a.pde \in [Proc -> KFrame \cup {None}]
      /\ a.pte[q] = none /\ a.pde[q] = None /\ a.vaddr[q] = {}
      /\ \A s \in Space : s # q => a.pte[s] = m.pte[s] /\ a.vaddr[s] = m.vaddr[s]
      /\ \A p \in Proc : p # q => a.pde[p] = m.pde[p]
  BY <1>1, <1>4, <1>5, <1>6
<1>8. a \in MemRecord
  BY <1>1, <1>3, <1>4, <1>7 DEF MemRecord, PageMap
<1>9. MemTypeOK(a)
  <2>1. a \in [bits  : [{"kernel", "user"} -> SUBSET (KFrame \cup UFrame)],
            vaddr : [Space -> SUBSET (KPage \cup UPage)],
            pte   : [Space -> [KPage -> KFrame \cup {None}] \cup [UPage -> UFrame \cup {None}]],
            pde   : [Proc -> KFrame \cup {None}],
            tlb   : SUBSET (UPage \X UFrame),
            oom   : BOOLEAN,
            fault : BOOLEAN]
    BY <1>8 DEF MemRecord
  <2>2. \A s \in Space : /\ a.vaddr[s] \subseteq Pages(s)
                         /\ a.pte[s] \in [Pages(s) -> Frames(s) \cup {None}]
    BY <1>1, <1>2, <1>7 DEF MemTypeOK
  <2>3. a.bits["kernel"] \subseteq KFrame /\ a.bits["user"] \subseteq UFrame
    BY <1>1, <1>4 DEF MemTypeOK
  <2>4. QED  BY <2>1, <2>2, <2>3 DEF MemTypeOK
<1>10. /\ a.pte[kernel] = m.pte[kernel] /\ a.vaddr[kernel] = m.vaddr[kernel]
       /\ \A p \in A : a.pte[p] = m.pte[p] /\ a.pde[p] = m.pde[p] /\ a.vaddr[p] = m.vaddr[p]
  BY <1>1, <1>7
<1>11. FramesInv(m, A) => FramesInv(a, A)
  BY <1>4, <1>10 DEF FramesInv, KernelPagesApart, UserPagesApart, TablesApart, KernelMarks, UserMarks
<1>12. \A s \in A \cup {kernel} : Mapped(a, s) = Mapped(m, s) /\ a.vaddr[s] = m.vaddr[s]
  BY <1>10 DEF Mapped
<1>13. Covered(m, A) => Covered(a, A)
  BY <1>12 DEF Covered
<1>14. MemInv(a, A)
  BY <1>4, <1>9, <1>11, <1>12, <1>13 DEF MemInv
<1>15. QED
  BY <1>1, <1>4, <1>7, <1>10, <1>14 DEF none

(* A page of the kernel is given back.                                     *)
LEMMA KernelPageBack ==
  ASSUME NEW m, NEW A \in SUBSET Proc, MemInv(m, A), NEW k \in m.vaddr[kernel],
         NEW a, a = mfree_page(m, kernel, k, 1)
  PROVE  /\ MemInv(a, A)
         /\ a.fault \/ a.vaddr[kernel] = m.vaddr[kernel] \ {k}
         /\ m.vaddr[kernel] \ {k} \subseteq a.vaddr[kernel]
         /\ \A p \in Proc : a.pte[p] = m.pte[p] /\ a.pde[p] = m.pde[p] /\ a.vaddr[p] = m.vaddr[p]
         /\ (m.fault => a.fault) /\ (m.oom => a.oom)
<1>1. m.vaddr \in [Space -> SUBSET (KPage \cup UPage)] /\ m.vaddr[kernel] \subseteq KPage
  BY Spaces DEF MemInv, MemTypeOK
<1>2. k \in Nat /\ 1 \in Nat /\ kernel \in A \cup {kernel}
  BY <1>1, Spaces
<1>3. PICK W : W = Run(k, 1)
  OBVIOUS
<1>4. W = {k} /\ Run(k, 1) \subseteq m.vaddr[kernel]
  BY <1>2, <1>3, RunOfOne
<1>5. /\ MemInv(a, A)
      /\ \/ Frees(m, a, kernel, W)
         \/ a.fault /\ m.oom /\ a.oom /\ a.vaddr = m.vaddr /\ a.pte = m.pte /\ a.pde = m.pde
  BY <1>2, <1>3, <1>4, MfreePage
<1>6. CASE Frees(m, a, kernel, W)
  <2>1. /\ a.vaddr = [m.vaddr EXCEPT ![kernel] = @ \ {k}]
        /\ \A t \in Space : t # kernel => a.pte[t] = m.pte[t]
        /\ a.pde = m.pde /\ a.oom = m.oom /\ a.fault = m.fault
    BY <1>4, <1>6 DEF Frees
  <2>2. a.vaddr[kernel] = m.vaddr[kernel] \ {k}
    BY <1>1, <2>1, Spaces
  <2>3. \A p \in Proc : a.pte[p] = m.pte[p] /\ a.pde[p] = m.pde[p] /\ a.vaddr[p] = m.vaddr[p]
    BY <1>1, <2>1, Spaces
  <2>4. QED  BY <1>5, <2>1, <2>2, <2>3
<1>7. CASE a.fault /\ m.oom /\ a.oom /\ a.vaddr = m.vaddr /\ a.pte = m.pte /\ a.pde = m.pde
  BY <1>5, <1>7
<1>8. QED  BY <1>5, <1>6, <1>7

(* sys_wait for child q, which has exited.                                 *)
LEMMA WaitStep == ASSUME IInv, NEW q \in Proc, sys_wait(q) PROVE IInv'
<1>1. ~mem.fault /\ proc[q].status = "hanging"
  BY DEF sys_wait, Runs
<1>2. PICK pcb, dir : pcb = proc[q].pcb /\ dir = proc[q].dir
  OBVIOUS
<1>3. PICK y : y = mfree_page(mem, kernel, dir, 1)
  OBVIOUS
<1>4. PICK z : z = mfree_page(y, kernel, pcb, 1)
  OBVIOUS
<1>5. /\ Cleared(z, mem', q)
      /\ proc' = [proc EXCEPT ![q] = NoProc] /\ heap' = [heap EXCEPT ![q] = EmptyHeap]
      /\ used' = [used EXCEPT ![q] = {}] /\ UNCHANGED << cur, user_lock, asleep, lost >>
  <2>1. EmptyMem.pte[q] = [v \in UPage |-> None]
    BY Spaces DEF EmptyMem
  <2>2. QED  BY <1>2, <1>3, <1>4, <2>1 DEF sys_wait, Cleared
<1>6. q \notin Alive /\ Alive \in SUBSET Proc /\ MemInv(mem, Alive) /\ q \in Exists
  BY <1>1 DEF IInv, Alive, Exists
<1>7. KPagesInv /\ KernelPagesOf(q) = {pcb, dir} /\ pcb # dir
  <2>1. KPagesInv
    BY <1>1 DEF IInv
  <2>2. QED  BY <1>1, <1>2, <1>6, <2>1 DEF KPagesInv, KernelPagesOf, BitmapOf
<1>8. dir \in mem.vaddr[kernel] /\ pcb \in mem.vaddr[kernel]
  BY <1>7 DEF KPagesInv
<1>9. /\ MemInv(y, Alive)
      /\ y.fault \/ y.vaddr[kernel] = mem.vaddr[kernel] \ {dir}
      /\ mem.vaddr[kernel] \ {dir} \subseteq y.vaddr[kernel]
      /\ \A p \in Proc : y.pte[p] = mem.pte[p] /\ y.pde[p] = mem.pde[p] /\ y.vaddr[p] = mem.vaddr[p]
      /\ (mem.fault => y.fault) /\ (mem.oom => y.oom)
  BY <1>3, <1>6, <1>8, KernelPageBack
<1>10. pcb \in y.vaddr[kernel]
  BY <1>7, <1>8, <1>9
<1>11. /\ MemInv(z, Alive)
       /\ z.fault \/ z.vaddr[kernel] = y.vaddr[kernel] \ {pcb}
       /\ \A p \in Proc : z.pte[p] = y.pte[p] /\ z.pde[p] = y.pde[p] /\ z.vaddr[p] = y.vaddr[p]
       /\ (y.fault => z.fault) /\ (y.oom => z.oom)
  BY <1>4, <1>6, <1>9, <1>10, KernelPageBack
<1>12. /\ MemInv(mem', Alive) /\ mem'.vaddr[kernel] = z.vaddr[kernel]
       /\ mem'.pte[q] = [v \in UPage |-> None] /\ mem'.pde[q] = None /\ mem'.vaddr[q] = {}
       /\ \A p \in Proc : p # q => /\ mem'.pte[p] = z.pte[p] /\ mem'.pde[p] = z.pde[p]
                                   /\ mem'.vaddr[p] = z.vaddr[p]
       /\ mem'.oom = z.oom /\ mem'.fault = z.fault
  <2>1. PICK a : a = mem'
    OBVIOUS
  <2>2. Cleared(z, a, q)
    BY <1>5, <2>1
  <2>3. PICK A : A = Alive
    OBVIOUS
  <2>4. /\ MemInv(a, A) /\ a.vaddr[kernel] = z.vaddr[kernel]
        /\ a.pte[q] = [v \in UPage |-> None] /\ a.pde[q] = None /\ a.vaddr[q] = {}
        /\ \A p \in Proc : p # q => /\ a.pte[p] = z.pte[p] /\ a.pde[p] = z.pde[p]
                                    /\ a.vaddr[p] = z.vaddr[p]
        /\ a.oom = z.oom /\ a.fault = z.fault
    BY <1>6, <1>11, <2>2, <2>3, SpaceCleared
  <2>5. QED  BY <2>1, <2>3, <2>4
<1>13. (mem.fault => mem'.fault) /\ (mem.oom => mem'.oom)
  BY <1>9, <1>11, <1>12
<1>14. ~mem'.fault => mem'.vaddr[kernel] = mem.vaddr[kernel] \ {pcb, dir}
  BY <1>9, <1>11, <1>12
<1>15. /\ proc \in [Proc -> ProcRecord] /\ heap \in [Proc -> Heaps] /\ used \in [Proc -> SUBSET Block]
       /\ user_lock \in KPage \cup {None} /\ lost \subseteq KPage /\ cur \in Alive
       /\ asleep \subseteq Alive
  BY DEF IInv, TypeOK, ProcRecord, Heaps
<1>16. NoProc \in ProcRecord /\ NoProc.status = "none" /\ EmptyHeap \in Heaps
  BY DEF NoProc, ProcRecord, EmptyHeap, Heaps, NoArena, Arena
<1>17. /\ proc' \in [Proc -> ProcRecord] /\ heap' \in [Proc -> Heaps]
       /\ used' \in [Proc -> SUBSET Block] /\ proc'[q].status = "none"
       /\ \A p \in Proc : p # q => proc'[p] = proc[p] /\ heap'[p] = heap[p] /\ used'[p] = used[p]
  BY <1>5, <1>15, <1>16
<1>18. \A p \in Proc : p # q => Untouched(p)
  BY <1>9, <1>11, <1>12, <1>17 DEF Untouched
<1>19. Alive' = Alive /\ q \notin Exists' /\ q \notin Alive'
  BY <1>6, <1>17 DEF Alive, Exists
<1>20. Settled(q)
  BY <1>12, <1>17, <1>19 DEF Settled
<1>21. ~mem'.fault => Owned(mem'.vaddr[kernel], lost', KernelPages')
  <2> SUFFICES ASSUME ~mem'.fault PROVE Owned(mem'.vaddr[kernel], lost', KernelPages')
    OBVIOUS
  <2>1. Owned(mem.vaddr[kernel], lost, KernelPages)
    BY <1>7, OwnedAll
  <2>2. \A p \in Proc : p # q => KernelPagesOf(p)' = KernelPagesOf(p)
    BY <1>13, <1>18, Unaffected
  <2>3. PICK K2 : K2 = KernelPages'
    OBVIOUS
  <2>4. PICK W : W = {pcb, dir}
    OBVIOUS
  <2>5. KernelPages[q] = W /\ KernelPages'[q] = {}
    BY <1>7, <1>17, <2>4 DEF KernelPages, KernelPagesOf
  <2>6. OnlyAt(KernelPages, K2, q)
    BY <2>2, <2>3 DEF OnlyAt, KernelPages
  <2>7. K2[q] = KernelPages[q] \ W /\ W \subseteq KernelPages[q] /\ {} \subseteq W
    BY <2>3, <2>5
  <2>8. Owned(mem.vaddr[kernel] \ (W \ {}), lost \cup {}, K2)
    BY <2>1, <2>6, <2>7, OwnedLess
  <2>9. mem'.vaddr[kernel] = mem.vaddr[kernel] \ (W \ {}) /\ lost' = lost \cup {}
    BY <1>5, <1>14, <2>4
  <2>10. QED  BY <2>3, <2>8, <2>9
<1>22. /\ MemInv(mem', Alive') /\ cur' \in Alive' /\ (~mem'.oom => user_lock' = None)
       /\ asleep' \subseteq Alive'
  BY <1>5, <1>12, <1>13, <1>15, <1>19 DEF IInv
<1>23. user_lock' \in KPage \cup {None} /\ lost' \subseteq KPage
  BY <1>5, <1>15
<1>24. QED
  BY <1>13, <1>17, <1>18, <1>20, <1>21, <1>22, <1>23, ProcessStep

-----------------------------------------------------------------------------
(***************************************************************************)
(* The initial state                                                       *)
(***************************************************************************)
(* Nothing is allocated.                                                   *)
LEMMA EmptyMemory ==
  /\ MemInv(EmptyMem, {}) /\ ~EmptyMem.fault /\ ~EmptyMem.oom /\ EmptyMem.vaddr[kernel] = {}
  /\ \A p \in Proc : /\ EmptyMem.pte[p] = [v \in UPage |-> None]
                     /\ EmptyMem.pde[p] = None /\ EmptyMem.vaddr[p] = {}
<1>1. /\ EmptyMem.bits = [pool \in {"kernel", "user"} |-> {}]
      /\ EmptyMem.vaddr = [s \in Space |-> {}]
      /\ EmptyMem.pte = [s \in Space |-> [v \in Pages(s) |-> None]]
      /\ EmptyMem.pde = [p \in Proc |-> None] /\ EmptyMem.tlb = {}
      /\ EmptyMem.oom = FALSE /\ EmptyMem.fault = FALSE
  BY DEF EmptyMem
<1>2. /\ kernel \in Space /\ Pages(kernel) = KPage /\ None \notin KFrame
      /\ \A p \in Proc : p \in Space /\ Pages(p) = UPage
  BY Spaces
<1>3. EmptyMem.pte \in [Space -> PageMap]
  <2>1. \A s \in Space : [v \in Pages(s) |-> None] \in PageMap
    <3>1. /\ [v \in KPage |-> None] \in [KPage -> KFrame \cup {None}]
          /\ [v \in UPage |-> None] \in [UPage -> UFrame \cup {None}]
      OBVIOUS
    <3>2. \A s \in Space : Pages(s) = KPage \/ Pages(s) = UPage
      BY DEF Pages
    <3>3. QED  BY <3>1, <3>2 DEF PageMap
  <2>2. QED  BY <1>1, <2>1
<1>4. /\ EmptyMem.bits \in [{"kernel", "user"} -> SUBSET (KFrame \cup UFrame)]
      /\ EmptyMem.vaddr \in [Space -> SUBSET (KPage \cup UPage)]
      /\ EmptyMem.pde \in [Proc -> KFrame \cup {None}]
      /\ EmptyMem.tlb \in SUBSET (UPage \X UFrame)
  BY <1>1
<1>5. EmptyMem \in MemRecord
  BY <1>1, <1>3, <1>4 DEF EmptyMem, MemRecord, PageMap
<1>6. MemTypeOK(EmptyMem)
  BY <1>1, <1>5 DEF MemTypeOK, MemRecord
<1>7. FramesInv(EmptyMem, {})
  BY <1>1, <1>2 DEF FramesInv, KernelPagesApart, UserPagesApart, TablesApart, KernelMarks, UserMarks
<1>8. Covered(EmptyMem, {}) /\ EmptyMem.vaddr[kernel] = {}
  BY <1>1, <1>2 DEF Covered, Mapped
<1>9. MemInv(EmptyMem, {})
  <2>1. \A s \in {} \cup {kernel} : EmptyMem.vaddr[s] \subseteq Mapped(EmptyMem, s)
    BY <1>8
  <2>2. EmptyMem.fault = FALSE
    BY <1>1
  <2>3. QED  BY <1>6, <1>7, <1>8, <2>1, <2>2 DEF MemInv
<1>10. QED  BY <1>1, <1>2, <1>8, <1>9

(* What process_execute has got for the first process.                     *)
LEMMA BootMade ==
  \E a, b, d \in KPage :
    LET G == {a, d} \cup Run(b, BitmapPages) IN
    /\ BootPcb.ret = a /\ BootBitmap.ret = b /\ BootDir.ret = d
    /\ a # d /\ {a, d} \cap Run(b, BitmapPages) = {}
    /\ BootDir.m.vaddr[kernel] = G
    /\ MemInv(BootDir.m, {}) /\ KernelOnly(EmptyMem, BootDir.m)
<1>0. /\ BitmapPages \in Nat \ {0} /\ 1 \in Nat \ {0} /\ KPage \subseteq Nat
      /\ None \notin {BootPcb.ret, BootBitmap.ret, BootDir.ret}
  BY MemoryAssumption, BootAssumption
<1>1. PICK m0 : m0 = EmptyMem
  OBVIOUS
<1>2. PICK r1 : r1 = BootPcb
  OBVIOUS
<1>3. PICK r2 : r2 = BootBitmap
  OBVIOUS
<1>4. PICK r3 : r3 = BootDir
  OBVIOUS
<1>5. r1 = malloc_page(m0, kernel, 1)
  BY <1>1, <1>2 DEF BootPcb
<1>6. r2 = malloc_page(r1.m, kernel, BitmapPages)
  BY <1>2, <1>3 DEF BootBitmap
<1>7. r3 = malloc_page(r2.m, kernel, 1)
  BY <1>3, <1>4 DEF BootDir
<1>8. MemInv(m0, {}) /\ m0.vaddr[kernel] = {} /\ {} \in SUBSET Proc
  BY <1>1, EmptyMemory
<1>9. /\ MemInv(r1.m, {}) /\ KernelOnly(m0, r1.m) /\ r1.ret \in KPage
      /\ Fresh(m0, r1.m, r1.ret, 1)
  BY <1>0, <1>2, <1>5, <1>8, KernelMalloc
<1>10. PICK m1 : m1 = r1.m
  OBVIOUS
<1>11. /\ MemInv(r2.m, {}) /\ KernelOnly(m1, r2.m) /\ r2.ret \in KPage
       /\ Fresh(m1, r2.m, r2.ret, BitmapPages)
  BY <1>0, <1>3, <1>6, <1>8, <1>9, <1>10, KernelMalloc
<1>12. PICK m2 : m2 = r2.m
  OBVIOUS
<1>13. /\ MemInv(r3.m, {}) /\ KernelOnly(m2, r3.m) /\ r3.ret \in KPage
       /\ Fresh(m2, r3.m, r3.ret, 1)
  BY <1>0, <1>4, <1>7, <1>8, <1>11, <1>12, KernelMalloc
<1>14. KernelOnly(m0, r3.m)
  BY <1>9, <1>10, <1>11, <1>12, <1>13, KernelOnlyTwice
<1>15. PICK a, b, d \in KPage : a = r1.ret /\ b = r2.ret /\ d = r3.ret
  BY <1>9, <1>11, <1>13
<1>16. PICK B : B = Run(b, BitmapPages)
  OBVIOUS
<1>17. Run(a, 1) = {a} /\ Run(d, 1) = {d}
  BY <1>0, RunOfOne
<1>18. /\ m1.vaddr[kernel] = {a} /\ B \cap m1.vaddr[kernel] = {}
       /\ m2.vaddr[kernel] = m1.vaddr[kernel] \cup B
       /\ d \notin m2.vaddr[kernel] /\ r3.m.vaddr[kernel] = m2.vaddr[kernel] \cup {d}
  BY <1>8, <1>9, <1>10, <1>11, <1>12, <1>13, <1>15, <1>16, <1>17 DEF Fresh
<1>19. a # d /\ {a, d} \cap B = {} /\ r3.m.vaddr[kernel] = {a, d} \cup B
  BY <1>18
<1>20. QED
  BY <1>1, <1>2, <1>3, <1>4, <1>13, <1>14, <1>15, <1>16, <1>19

(* The heap of a process before its first allocation.                      *)
LEMMA EmptyHeapSound ==
  ASSUME NEW P PROVE EmptyHeap \in Heaps /\ HeapInv(EmptyHeap, {}, P)
<1>1. /\ EmptyHeap.free = << >> /\ \A v \in UPage : EmptyHeap.arena[v] = NoArena
      /\ EmptyHeap \in Heaps
  BY DEF EmptyHeap, Heaps, Arena, NoArena
<1>2. NoArena.own = FALSE /\ NoArena.large = FALSE
  BY DEF NoArena
<1>3. IsInjective(EmptyHeap.free) /\ ToSet(EmptyHeap.free) = {}
  BY <1>1 DEF IsInjective, ToSet
<1>4. BlocksApart(EmptyHeap.arena, {}, {}, P) /\ RunsApart(EmptyHeap.arena, {}, P)
  BY <1>1, <1>2 DEF BlocksApart, RunsApart, Small
<1>5. QED  BY <1>1, <1>3, <1>4 DEF HeapInv

(* The memory when the first process starts.                               *)
LEMMA BootMemory ==
  /\ MemInv(BootMem, {init}) /\ ~BootMem.oom /\ BootMem.vaddr[kernel] = BootDir.m.vaddr[kernel]
  /\ \A p \in Proc : p # init => /\ BootMem.pte[p] = [v \in UPage |-> None]
                                 /\ BootMem.pde[p] = None /\ BootMem.vaddr[p] = {}
<1>1. PICK m : m = BootDir.m
  OBVIOUS
<1>2. MemInv(m, {}) /\ KernelOnly(EmptyMem, m)
  BY <1>1, BootMade
<1>3. \A p \in Proc : m.pte[p] = [v \in UPage |-> None] /\ m.pde[p] = None /\ m.vaddr[p] = {}
  BY <1>2, EmptyMemory, KernelOnlySpaces
<1>4. init \in Proc /\ init \in Space /\ kernel \in Space /\ init # kernel
  BY Spaces
<1>5. PICK A : A = {init}
  OBVIOUS
<1>6. MemInv(m, A) /\ A \in SUBSET Proc /\ init \in A
  <2>1. {} \in SUBSET Proc /\ {} \cup {init} = {init}
    OBVIOUS
  <2>2. MemInv(m, {} \cup {init})
    BY <1>2, <1>3, <1>4, <2>1, EmptyJoins
  <2>3. QED  BY <1>4, <1>5, <2>1, <2>2
<1>7. stack_page \in UPage
  BY StackPage
<1>8. PICK m1 : m1 = [m EXCEPT !.vaddr[init] = {stack_page}]
  OBVIOUS
<1>9. PageMarked(m, m1, init, stack_page)
  <2>1. MemTypeOK(m) /\ m \in MemRecord
    BY <1>2 DEF MemInv, MemTypeOK, MemRecord
  <2>2. PICK T : T = m.tlb
    OBVIOUS
  <2>3. T \in SUBSET (UPage \X UFrame)
    BY <2>1, <2>2 DEF MemRecord
  <2>4. m.vaddr[init] \cup {stack_page} = {stack_page}
    BY <1>3, <1>4
  <2>5. PICK x : x = [m EXCEPT !.vaddr[init] = @ \cup {stack_page}, !.tlb = T]
    OBVIOUS
  <2>6. PageMarked(m, x, init, stack_page)
    BY <1>4, <1>7, <2>1, <2>3, <2>5, MarkingTyped
  <2>7. x = m1
    BY <1>8, <2>1, <2>2, <2>4, <2>5 DEF MemRecord
  <2>8. QED  BY <2>6, <2>7
<1>10. PICK a : a = MapPage(m1, init, stack_page)
  OBVIOUS
<1>11. BootMem = a.m
  BY <1>1, <1>8, <1>10 DEF BootMem
<1>12. CASE ~m.fault
  <2>1. MemInv(a.m, A) /\ OnlySpace(m, a.m, init)
    <3>1. m.pte[init][stack_page] = None
      BY <1>3, <1>4, <1>7
    <3>2. PICK s : s = init
      OBVIOUS
    <3>3. PICK v : v = stack_page
      OBVIOUS
    <3>4. /\ v \in UPage /\ s \in A /\ m.pte[s][v] = None /\ PageMarked(m, m1, s, v)
          /\ a = MapPage(m1, s, v)
      BY <1>6, <1>7, <1>9, <1>10, <3>1, <3>2, <3>3
    <3>5. MemInv(a.m, A) /\ OnlySpace(m, a.m, s)
      BY <1>6, <1>12, <3>4, PageAdded
    <3>6. QED  BY <3>2, <3>5
  <2>2. a.m.vaddr[kernel] = m.vaddr[kernel]
    BY <1>4, <2>1 DEF OnlySpace
  <2>3. \A p \in Proc : p # init => /\ a.m.pte[p] = m.pte[p] /\ a.m.pde[p] = m.pde[p]
                                    /\ a.m.vaddr[p] = m.vaddr[p]
    BY <2>1, Spaces DEF OnlySpace
  <2>4. QED  BY <1>1, <1>3, <1>5, <1>11, <2>1, <2>2, <2>3, BootAssumption
<1>13. m.fault => a.m.oom
  <2>1. m.fault => m.oom
    BY <1>2 DEF MemInv
  <2>2. Maps(m1, a, init, stack_page)
    BY <1>4, <1>7, <1>9, <1>10, MapStep, Spaces DEF PageMarked
  <2>3. QED  BY <1>9, <2>1, <2>2 DEF Maps, PageMarked
<1>14. QED  BY <1>11, <1>12, <1>13, BootAssumption

(* The invariant holds initially.                                          *)
LEMMA InitIInv == Init => IInv
<1> SUFFICES ASSUME Init PROVE IInv
  OBVIOUS
<1>1. PICK a, b, d \in KPage :
        LET G == {a, d} \cup Run(b, BitmapPages) IN
        /\ BootPcb.ret = a /\ BootBitmap.ret = b /\ BootDir.ret = d
        /\ a # d /\ {a, d} \cap Run(b, BitmapPages) = {}
        /\ BootDir.m.vaddr[kernel] = G
  BY BootMade
<1>2. PICK B : B = Run(b, BitmapPages)
  OBVIOUS
<1> DEFINE first == [status |-> "alive", pcb |-> a, bitmap |-> b, dir |-> d]
<1>3. /\ mem = BootMem /\ heap = [p \in Proc |-> EmptyHeap] /\ cur = init /\ user_lock = None
      /\ proc = [p \in Proc |-> IF p # init THEN NoProc ELSE first]
      /\ used = [p \in Proc |-> {}] /\ lost = {} /\ asleep = {}
  BY <1>1 DEF Init
<1>4. init \in Proc
  BY Spaces
<1>5. NoProc \in ProcRecord /\ first \in ProcRecord /\ NoProc.status = "none" /\ first.status = "alive"
  BY DEF NoProc, ProcRecord
<1>6. /\ proc \in [Proc -> ProcRecord] /\ proc[init] = first
      /\ \A p \in Proc : p # init => proc[p].status = "none"
  BY <1>3, <1>4, <1>5
<1>7. Alive = {init} /\ Exists = {init}
  BY <1>4, <1>6 DEF Alive, Exists
<1>8. /\ MemInv(mem, {init}) /\ ~mem.oom /\ mem.vaddr[kernel] = {a, d} \cup B
      /\ \A p \in Proc : p # init => /\ mem.pte[p] = [v \in UPage |-> None]
                                     /\ mem.pde[p] = None /\ mem.vaddr[p] = {}
  BY <1>1, <1>2, <1>3, BootMemory
<1>9. TypeOK
  <2>1. EmptyHeap \in Heaps
    BY EmptyHeapSound
  <2>2. heap \in [Proc -> Heaps] /\ used \in [Proc -> SUBSET Block]
    BY <1>3, <2>1
  <2>3. MemTypeOK(mem)
    BY <1>8 DEF MemInv
  <2>4. QED  BY <1>3, <1>6, <1>7, <2>2, <2>3 DEF TypeOK, Heaps, ProcRecord
<1>10. UnusedEmpty
  BY <1>6, <1>8 DEF UnusedEmpty
<1>11. KPagesInv
  <2>1. KernelPagesOf(init) = {a, d} \cup B /\ BitmapOf(init) = B
    BY <1>2, <1>6 DEF KernelPagesOf, BitmapOf
  <2>2. \A p \in Proc : p # init => KernelPagesOf(p) = {}
    BY <1>6 DEF KernelPagesOf
  <2>3. Owned(mem.vaddr[kernel], lost, KernelPages)
    BY <1>3, <1>4, <1>8, <2>1, <2>2 DEF Owned, KernelPages
  <2>4. Distinct(init)
    BY <1>1, <1>2, <1>6, <2>1 DEF Distinct
  <2>5. QED  BY <1>7, <2>3, <2>4, OwnedAll
<1>12. \A p \in Alive : HeapInv(heap[p], used[p], Mapped(mem, p))
  BY <1>3, <1>4, <1>7, EmptyHeapSound
<1>13. QED
  BY <1>3, <1>7, <1>8, <1>9, <1>10, <1>11, <1>12 DEF IInv

(* Every step keeps the invariant.                                         *)
LEMMA NextIInv == IInv /\ [Next]_vars => IInv'
<1> SUFFICES ASSUME IInv, [Next]_vars PROVE IInv'
  OBVIOUS
<1>1. CASE sys_malloc_small
  BY <1>1, MallocSmallStep
<1>2. CASE sys_malloc_large
  BY <1>2, MallocLargeStep
<1>3. CASE sys_free_small
  BY <1>3, FreeSmallStep
<1>4. CASE sys_free_large
  BY <1>4, FreeLargeStep
<1>5. ASSUME NEW q \in Proc, sys_fork(q) PROVE IInv'
  BY <1>5, ForkStep
<1>6. CASE sys_execv
  BY <1>6, ExecvStep
<1>7. CASE sys_exit
  BY <1>7, ExitStep
<1>8. ASSUME NEW q \in Proc, sys_wait(q) PROVE IInv'
  BY <1>8, WaitStep
<1>9. CASE Switch
  BY <1>9, SwitchStep
<1>10. CASE WaitForPool
  BY <1>10, WaitForPoolStep
<1>11. CASE UNCHANGED vars
  <2>1. /\ mem' = mem /\ proc' = proc /\ cur' = cur /\ heap' = heap /\ asleep' = asleep
        /\ lost' = lost /\ user_lock' = user_lock /\ used' = used
    BY <1>11 DEF vars
  <2>2. asleep' \subseteq Alive
    BY <2>1 DEF IInv, TypeOK
  <2>3. QED  BY <2>1, <2>2, Undisturbed
<1>12. QED
  BY <1>1, <1>2, <1>3, <1>4, <1>5, <1>6, <1>7, <1>8, <1>9, <1>10, <1>11 DEF Next

(* The inductive invariant holds in every reachable state.                 *)
THEOREM MemoryInvariant == Spec => []IInv
BY InitIInv, NextIInv, PTL DEF Spec

-----------------------------------------------------------------------------
(***************************************************************************)
(* What the invariant says of the properties that the runs check           *)
(***************************************************************************)
(* The owners of frames, as they are listed in Holdings.                   *)
LEMMA HoldingKinds ==
  ASSUME IInv, NEW h
  PROVE  h \in Holdings <=>
           \/ \E v \in KPage : mem.pte[kernel][v] # None /\ h = << kernel, v, mem.pte[kernel][v] >>
           \/ \E p \in Alive : \E v \in UPage :
                mem.pte[p][v] # None /\ h = << p, v, mem.pte[p][v] >>
           \/ \E p \in Alive : mem.pde[p] # None /\ h = << p, None, mem.pde[p] >>
<1>1. Pages(kernel) = KPage /\ \A p \in Alive : Pages(p) = UPage
  BY Spaces DEF Alive
<1>2. h \in {<< kernel, v, mem.pte[kernel][v] >> : v \in Mapped(mem, kernel)}
        <=> \E v \in KPage : mem.pte[kernel][v] # None /\ h = << kernel, v, mem.pte[kernel][v] >>
  BY <1>1 DEF Mapped
<1>3. h \in UNION {{<< p, v, mem.pte[p][v] >> : v \in Mapped(mem, p)} : p \in Alive}
        <=> \E p \in Alive : \E v \in UPage : mem.pte[p][v] # None /\ h = << p, v, mem.pte[p][v] >>
  BY <1>1 DEF Mapped
<1>4. h \in {<< p, None, mem.pde[p] >> : p \in {q \in Alive : mem.pde[q] # None}}
        <=> \E p \in Alive : mem.pde[p] # None /\ h = << p, None, mem.pde[p] >>
  OBVIOUS
<1>5. QED  BY <1>2, <1>3, <1>4 DEF Holdings

(* Frames in use are marked and have one owner each.                       *)
LEMMA OwnersApart == ASSUME IInv PROVE FramesHaveOneOwner
<1> SUFFICES ASSUME ~mem.fault
             PROVE  /\ \A h1, h2 \in Holdings : h1[3] = h2[3] => h1 = h2
                    /\ Held \subseteq Marked
  BY DEF FramesHaveOneOwner
<1>1. FramesInv(mem, Alive) /\ MemTypeOK(mem) /\ \A p \in Alive : p \in Proc
  BY DEF IInv, MemInv, Alive
<1>2. /\ \A v \in KPage : mem.pte[kernel][v] # None => mem.pte[kernel][v] \in KFrame
      /\ \A p \in Alive : \A v \in UPage : mem.pte[p][v] # None => mem.pte[p][v] \in UFrame
      /\ \A p \in Alive : mem.pde[p] # None => mem.pde[p] \in KFrame
      /\ KFrame \cap UFrame = {}
  <2>1. /\ mem.pte[kernel] \in [KPage -> KFrame \cup {None}]
        /\ \A p \in Alive : mem.pte[p] \in [UPage -> UFrame \cup {None}]
    BY <1>1, Spaces DEF MemTypeOK
  <2>2. mem.pde \in [Proc -> KFrame \cup {None}]
    BY <1>1 DEF MemTypeOK
  <2>3. QED  BY <1>1, <2>1, <2>2, Spaces
<1>3. ASSUME NEW h1 \in Holdings, NEW h2 \in Holdings, h1[3] = h2[3] PROVE h1 = h2
  <2>1. ASSUME NEW v \in KPage, mem.pte[kernel][v] # None, h1 = << kernel, v, mem.pte[kernel][v] >>
        PROVE  h1 = h2
    <3>1. ASSUME NEW w \in KPage, mem.pte[kernel][w] # None, h2 = << kernel, w, mem.pte[kernel][w] >>
          PROVE  h1 = h2
      BY <1>1, <1>3, <2>1, <3>1 DEF FramesInv, KernelPagesApart
    <3>2. ASSUME NEW q \in Alive, NEW w \in UPage, mem.pte[q][w] # None, h2 = << q, w, mem.pte[q][w] >>
          PROVE  h1 = h2
      BY <1>2, <1>3, <2>1, <3>2
    <3>3. ASSUME NEW q \in Alive, mem.pde[q] # None, h2 = << q, None, mem.pde[q] >>
          PROVE  h1 = h2
      BY <1>1, <1>3, <2>1, <3>3 DEF FramesInv, TablesApart
    <3>4. QED  BY <3>1, <3>2, <3>3, HoldingKinds
  <2>2. ASSUME NEW p \in Alive, NEW v \in UPage, mem.pte[p][v] # None, h1 = << p, v, mem.pte[p][v] >>
        PROVE  h1 = h2
    <3>1. ASSUME NEW w \in KPage, mem.pte[kernel][w] # None, h2 = << kernel, w, mem.pte[kernel][w] >>
          PROVE  h1 = h2
      BY <1>2, <1>3, <2>2, <3>1
    <3>2. ASSUME NEW q \in Alive, NEW w \in UPage, mem.pte[q][w] # None, h2 = << q, w, mem.pte[q][w] >>
          PROVE  h1 = h2
      <4>1. mem.pte[p][v] = mem.pte[q][w]
        BY <1>3, <2>2, <3>2
      <4>2. p = q /\ v = w
        BY <1>1, <2>2, <4>1 DEF FramesInv, UserPagesApart
      <4>3. QED  BY <2>2, <3>2, <4>2
    <3>3. ASSUME NEW q \in Alive, mem.pde[q] # None, h2 = << q, None, mem.pde[q] >>
          PROVE  h1 = h2
      BY <1>2, <1>3, <2>2, <3>3
    <3>4. QED  BY <3>1, <3>2, <3>3, HoldingKinds
  <2>3. ASSUME NEW p \in Alive, mem.pde[p] # None, h1 = << p, None, mem.pde[p] >>
        PROVE  h1 = h2
    <3>1. ASSUME NEW w \in KPage, mem.pte[kernel][w] # None, h2 = << kernel, w, mem.pte[kernel][w] >>
          PROVE  h1 = h2
      BY <1>1, <1>3, <2>3, <3>1 DEF FramesInv, TablesApart
    <3>2. ASSUME NEW q \in Alive, NEW w \in UPage, mem.pte[q][w] # None, h2 = << q, w, mem.pte[q][w] >>
          PROVE  h1 = h2
      BY <1>2, <1>3, <2>3, <3>2
    <3>3. ASSUME NEW q \in Alive, mem.pde[q] # None, h2 = << q, None, mem.pde[q] >>
          PROVE  h1 = h2
      <4>1. mem.pde[p] = mem.pde[q]
        BY <1>3, <2>3, <3>3
      <4>2. p = q
        BY <1>1, <2>3, <4>1 DEF FramesInv, TablesApart
      <4>3. QED  BY <2>3, <3>3, <4>2
    <3>4. QED  BY <3>1, <3>2, <3>3, HoldingKinds
  <2>4. QED  BY <2>1, <2>2, <2>3, HoldingKinds
<1>4. ASSUME NEW h \in Holdings PROVE h[3] \in Marked
  <2>1. ASSUME NEW v \in KPage, mem.pte[kernel][v] # None, h = << kernel, v, mem.pte[kernel][v] >>
        PROVE  h[3] \in Marked
    BY <1>1, <1>2, <2>1 DEF FramesInv, KernelMarks, Marked
  <2>2. ASSUME NEW p \in Alive, NEW v \in UPage, mem.pte[p][v] # None, h = << p, v, mem.pte[p][v] >>
        PROVE  h[3] \in Marked
    BY <1>1, <1>2, <2>2 DEF FramesInv, UserMarks, Marked
  <2>3. ASSUME NEW p \in Alive, mem.pde[p] # None, h = << p, None, mem.pde[p] >>
        PROVE  h[3] \in Marked
    BY <1>1, <1>2, <2>3 DEF FramesInv, KernelMarks, Marked
  <2>4. QED  BY <2>1, <2>2, <2>3, HoldingKinds
<1>5. QED  BY <1>3, <1>4 DEF Held

(* Marked frames are in use.                                               *)
LEMMA NoneLost == ASSUME IInv PROVE NoFrameLost
<1> SUFFICES ASSUME ~mem.fault, NEW f \in Marked PROVE f \in Held
  BY DEF NoFrameLost
<1>1. /\ FramesInv(mem, Alive) /\ mem.bits["kernel"] \subseteq KFrame
      /\ mem.bits["user"] \subseteq UFrame /\ None \notin KFrame \cup UFrame
  BY Spaces DEF IInv, MemInv, MemTypeOK
<1>2. CASE f \in mem.bits["kernel"]
  <2>1. f \in KFrame /\ f # None
    BY <1>1, <1>2
  <2>2. CASE \E v \in KPage : mem.pte[kernel][v] = f
    <3>1. PICK v \in KPage : mem.pte[kernel][v] = f
      BY <2>2
    <3>2. << kernel, v, f >> \in Holdings
      BY <2>1, <3>1, HoldingKinds
    <3>3. f = << kernel, v, f >>[3]
      OBVIOUS
    <3>4. QED  BY <3>2, <3>3 DEF Held
  <2>3. CASE \E p \in Alive : mem.pde[p] = f
    <3>1. PICK p \in Alive : mem.pde[p] = f
      BY <2>3
    <3>2. << p, None, f >> \in Holdings
      BY <2>1, <3>1, HoldingKinds
    <3>3. f = << p, None, f >>[3]
      OBVIOUS
    <3>4. QED  BY <3>2, <3>3 DEF Held
  <2>4. QED  BY <1>1, <1>2, <2>1, <2>2, <2>3 DEF FramesInv, KernelMarks
<1>3. CASE f \in mem.bits["user"]
  <2>1. f \in UFrame /\ f # None
    BY <1>1, <1>3
  <2>2. PICK p \in Alive, v \in UPage : mem.pte[p][v] = f
    BY <1>1, <1>3, <2>1 DEF FramesInv, UserMarks
  <2>3. << p, v, f >> \in Holdings
    BY <2>1, <2>2, HoldingKinds
  <2>4. f = << p, v, f >>[3]
    OBVIOUS
  <2>5. QED  BY <2>3, <2>4 DEF Held
<1>4. QED  BY <1>2, <1>3 DEF Marked

(* A page frame has at most one owner and is marked exactly if it has one: *)
(* over any sequence of malloc, free, fork, exec, exit and wait, for any   *)
(* number of processes, pages and frames, also when an allocation fails    *)
(* half way.                                                               *)
THEOREM FramesAreAccounted == Spec => []FramesAccounted
<1>1. IInv => FramesAccounted
  <2>1. IInv => TypeOK
    BY DEF IInv
  <2>2. QED  BY <2>1, OwnersApart, NoneLost DEF FramesAccounted
<1>2. QED  BY <1>1, MemoryInvariant, PTL

(* The kernel's pages are those of the existing processes and the lost     *)
(* ones: what failed forks had got and one page for each exit.             *)
THEOREM KernelPagesAreAccounted == Spec => []KernelPagesAccounted
<1>1. IInv => KernelPagesAccounted
  <2> SUFFICES ASSUME IInv, ~mem.fault
               PROVE  mem.vaddr[kernel] =
                        lost \cup (UNION {{proc[p].pcb, proc[p].dir} : p \in Exists})
                             \cup (UNION {Run(proc[p].bitmap, BitmapPages) : p \in Alive})
    BY DEF KernelPagesAccounted
  <2>1. KPagesInv /\ \A p \in Proc : proc[p].status \in {"none", "alive", "hanging"}
    BY DEF IInv, TypeOK
  <2>2. ASSUME NEW k
        PROVE  (\E p \in Proc : k \in KernelPagesOf(p)) <=>
                 \/ \E p \in Exists : k \in {proc[p].pcb, proc[p].dir}
                 \/ \E p \in Alive : k \in Run(proc[p].bitmap, BitmapPages)
    BY DEF KernelPagesOf, BitmapOf, Exists, Alive
  <2>3. ASSUME NEW k
        PROVE  k \in mem.vaddr[kernel] <=> k \in lost \/ \E p \in Proc : k \in KernelPagesOf(p)
    BY <2>1 DEF KPagesInv
  <2>4. QED  BY <2>2, <2>3
<1>2. QED  BY <1>1, MemoryInvariant, PTL

(* Each block of a small arena that a process has made is either free or   *)
(* with the program, the arena counts the free ones, and its page is       *)
(* mapped: no block is handed out twice.                                   *)
THEOREM HeapIsConsistent == Spec => []HeapConsistent
<1>1. IInv => HeapConsistent
  BY DEF IInv, HeapConsistent, HeapInv, BlocksApart, Small
<1>2. QED  BY <1>1, MemoryInvariant, PTL

(* Until an allocation has failed, marked addresses are mapped ones, the   *)
(* kernel does not fault and the user pool's lock is free.                 *)
THEOREM IntactUntilExhausted == Spec => []IntactUnlessExhausted
<1>1. IInv => IntactUnlessExhausted
  <2> SUFFICES ASSUME IInv, ~mem.oom
               PROVE  /\ ~mem.fault /\ user_lock = None
                      /\ \A p \in Alive : mem.vaddr[p] = Mapped(mem, p)
    BY DEF IntactUnlessExhausted
  <2>1. ~mem.fault /\ user_lock = None /\ MemInv(mem, Alive)
    BY DEF IInv, MemInv
  <2>2. \A p \in Alive : mem.vaddr[p] = Mapped(mem, p)
    BY <2>1 DEF MemInv, Covered
  <2>3. QED  BY <2>1, <2>2
<1>2. QED  BY <1>1, MemoryInvariant, PTL
=============================================================================
