------------------------------ MODULE OpenFiles ------------------------------
(***************************************************************************)
(* Open files: descriptors of a process, the global file table, the inodes *)
(* in memory and their open counts, and pipes, over open, create, close,   *)
(* pipe, redirection, unlink, fork and exit (fs/fs.c, fs/file.c,           *)
(* fs/inode.c, shell/pipe.c, userprog/fork.c, userprog/wait_exit.c).       *)
(*                                                                         *)
(* A call may lose the cpu in the commands to the disk, and is cut at each *)
(* of them that another call could come between; call[p] holds what p read *)
(* before.  A call of a process runs with interrupts off: it loses the cpu *)
(* only where it sleeps, and takes the channel's lock again before a thread*)
(* it wakes has run.  Main has interrupts on, so calls of main and of a    *)
(* process meet at any command.  Calls without the disk (pipe, close, fork)*)
(* come between the commands of any other.  Both are allowed to any two.   *)
(*                                                                         *)
(* All files are in one directory of one block, all inodes in one sector   *)
(* of the inode table; contents and blocks of files are in FileBlocks,     *)
(* trees of directories and power failures in Directory.                   *)
(***************************************************************************)
EXTENDS Integers, Sequences, SequencesExt, FiniteSetsExt

CONSTANTS Process,     \* the processes
          shell,       \* the one that exists at the start and does not exit
          Name,        \* names of files
          Ino,         \* inode numbers but the root's, which is 0
          Entry,       \* positions of the directory's entries
          Slot,        \* slots 3 .. MAX_FILE_OPEN - 1 of file_table
          Fd,          \* descriptors 3 .. MAX_FILES_OPEN_PER_PROC - 1
          Obj, Page,   \* addresses of inodes and of pages of pipes
          MaxCnt,      \* bound: i_open_cnts
          MaxCalls,    \* bound: system calls in a behaviour
          NULL

ASSUME OpenFilesAssumption ==
  /\ shell \in Process /\ NULL \notin Obj \cup Page
  /\ \A S \in {Ino, Entry, Slot, Fd} : IsFiniteSet(S) /\ S \subseteq Nat
  /\ 0 \notin Ino /\ \A g \in Slot \cup Fd : g > 2
  /\ Obj \cap Page = {}

VARIABLES k,         \* the kernel's tables, see Init
          fd_table,  \* fd_table[p]: descriptor -> slot, 0 .. 2 or -1
          born,      \* the processes that exist
          call,      \* the system call each process is in
          calls,     \* system calls so far
          cause      \* history: why a table may be wrong, << kind, of what >>

vars == << k, fd_table, born, call, calls, cause >>

Std == 0 .. 2
None == -1
NoEntry == << >>
NoFds == [fd \in Std \cup Fd |-> IF fd \in Std THEN fd ELSE None]
Flags == {"r", "w", "pipe"}       \* "w": O_WRONLY or O_RDWR

\* Where a call sleeps, and what it holds meanwhile.
NoCall == [at |-> "user", name |-> NULL, no |-> None, flag |-> "r", slot |-> None,
           obj |-> NULL, buf |-> << >>, sector |-> {}]

FreeSlot == [fd_inode |-> NULL, fd_flag |-> "r", fd_pos |-> 0]
FreeObj == [i_no |-> None, cnts |-> 0, deny |-> FALSE]

(***************************************************************************)
(* k.table     file_table                                                  *)
(* k.inode     the inodes in the kernel's heap; i_no is None when free     *)
(* k.open      open_inodes, first element first                            *)
(* k.page      pages in use by pipes                                       *)
(* k.ibits     the inode bitmap in memory                                  *)
(* k.dir       the directory's block on the disk                           *)
(* k.itable    inode numbers whose inode on the disk is not zero           *)
(* k.halted    why the kernel stopped, or "no"                             *)
(***************************************************************************)
Init ==
  /\ k = [table  |-> [g \in Slot |-> FreeSlot],
          inode  |-> [o \in Obj |-> FreeObj],
          open   |-> << >>,
          page   |-> {},
          ibits  |-> {},
          dir    |-> [i \in Entry |-> NoEntry],
          itable |-> {},
          halted |-> "no"]
  /\ fd_table = [p \in Process |-> NoFds]
  /\ born = {shell}
  /\ call = [p \in Process |-> NoCall]
  /\ calls = 0
  /\ cause = {}

\* A process makes a call; a process goes on in its call.
User(p) ==
  /\ k.halted = "no" /\ p \in born /\ call[p].at = "user"
  /\ calls < MaxCalls /\ calls' = calls + 1
At(p, l) ==
  /\ k.halted = "no" /\ p \in born /\ call[p].at = l
  /\ UNCHANGED calls
Becomes(p, c) == call' = [call EXCEPT ![p] = c]
Others(p) == born \ {p}

-----------------------------------------------------------------------------
(***************************************************************************)
(* The tables                                                              *)
(***************************************************************************)
get_free_slot_in_global(t) ==
  LET free == {g \in Slot : t[g].fd_inode = NULL}
  IN IF free = {} THEN None ELSE Min(free)

\* The descriptor that pcb_fd_install finds, or None.
FreeFd(fds) ==
  LET free == {fd \in Fd : fds[fd] = None}
  IN IF free = {} THEN None ELSE Min(free)

pcb_fd_install(fds, g) ==
  IF FreeFd(fds) = None THEN fds ELSE [fds EXCEPT ![FreeFd(fds)] = g]

\* The inode of that number that a search of open_inodes meets first.
Cached(s, no) == SelectInSeq(s.open, LAMBDA o : s.inode[o].i_no = no)

FreeObjs(s) == {o \in Obj : s.inode[o].i_no = None}
NewObj(s) == CHOOSE o \in FreeObjs(s) : TRUE

\* An inode that was not yet written, or was removed, is all zero.
InodeOnDisk(s, no) == IF no \in s.itable THEN no ELSE 0

\* inode_open of an inode that is not in memory.
AddInode(s, o, no) ==
  [s EXCEPT !.inode[o] = [i_no |-> no, cnts |-> 1, deny |-> FALSE], !.open = << o >> \o @]

inode_close(s, o) ==
  IF s.inode[o].cnts = 1
  THEN [s EXCEPT !.inode[o] = FreeObj, !.open = SelectSeq(@, LAMBDA x : x # o)]
  ELSE [s EXCEPT !.inode[o].cnts = @ - 1]

\* Mutant of file_close: the slot is not freed.
file_close_KeepsSlot(s, g) ==
  LET o == s.table[g].fd_inode
  IN IF o = NULL THEN [s EXCEPT !.halted = "fault"]
     ELSE inode_close([s EXCEPT !.inode[o].deny = FALSE], o)

\* fd_inode is followed without a test for NULL.
file_close(s, g) ==
  LET o == s.table[g].fd_inode
  IN IF o = NULL THEN [s EXCEPT !.halted = "fault"]
     ELSE [inode_close([s EXCEPT !.inode[o].deny = FALSE], o)
             EXCEPT !.table[g].fd_inode = NULL]

\* The last count of a pipe frees its page.
PipeClose(s, g) ==
  IF s.table[g].fd_pos = 1
  THEN [s EXCEPT !.table[g].fd_pos = 0, !.table[g].fd_inode = NULL,
                 !.page = @ \ {s.table[g].fd_inode}]
  ELSE [s EXCEPT !.table[g].fd_pos = @ - 1]

is_pipe(s, g) == s.table[g].fd_flag = "pipe"

\* fork counts a descriptor of the child.
CountFd(s, g) ==
  LET o == s.table[g].fd_inode
  IN IF is_pipe(s, g) THEN [s EXCEPT !.table[g].fd_pos = @ + 1]
     ELSE IF o = NULL THEN [s EXCEPT !.halted = "fault"]
     ELSE [s EXCEPT !.inode[o].cnts = @ + 1]

CloseSlot(s, g) == IF is_pipe(s, g) THEN PipeClose(s, g) ELSE file_close(s, g)

-----------------------------------------------------------------------------
(***************************************************************************)
(* Directory and history                                                   *)
(***************************************************************************)
EntriesOf(dir, no) == {i \in Entry : dir[i] # NoEntry /\ dir[i].i_no = no}
Named(dir, name) == {i \in Entry : dir[i] # NoEntry /\ dir[i].name = name}

\* search_file in the one directory: the number, or None.
search_file(name) ==
  IF Named(k.dir, name) = {} THEN None ELSE k.dir[Min(Named(k.dir, name))].i_no

\* The inode is put in open_inodes a second time.
Twice(no) == IF Cached(k, no) # 0 THEN {<< "twice", no >>} ELSE {}

\* Another process is in the middle of a call on that inode.
Flux(p, no) ==
  IF \E q \in Others(p) : call[q].at # "user" /\ call[q].no = no
  THEN {<< "flux", no >>} ELSE {}

-----------------------------------------------------------------------------
(***************************************************************************)
(* inode_sync and inode_delete read the sector of the inode table, change  *)
(* one inode in it and write it back: s is k but for the table, which      *)
(* becomes itable, and inodes that changed meanwhile are remembered.       *)
(***************************************************************************)
LostInodes(p) == {<< "itable", n >> : n \in SymDiff(call[p].sector, k.itable)}

ReadSector(p, l, next) ==
  /\ At(p, l)
  /\ Becomes(p, [call[p] EXCEPT !.at = next, !.sector = k.itable])
  /\ UNCHANGED << k, fd_table, born, cause >>

WriteSector(p, l, s, itable) ==
  /\ At(p, l)
  /\ k' = [s EXCEPT !.itable = itable]
  /\ cause' = cause \cup LostInodes(p)
  /\ UNCHANGED << fd_table, born >>

(***************************************************************************)
(* sys_open without O_CREAT                                                *)
(***************************************************************************)
\* Mutant of Refused: write_deny is not looked at.
Refused_Never(s, o, flag) == FALSE
Refused(s, o, flag) == flag = "w" /\ s.inode[o].deny

(***************************************************************************)
(* The end of file_open: the slot, chosen before the inode was read, is    *)
(* filled and emptied again if a second writer is refused, the open count  *)
(* of the inode kept.  why: what else the history has to remember.         *)
(***************************************************************************)
Install(p, s, g, o, flag, why) ==
  LET refused == Refused(s, o, flag)
      filled == [fd_inode |-> IF refused THEN NULL ELSE o, fd_flag |-> flag, fd_pos |-> 0]
      reasons == [slot    |-> k.table[g].fd_inode # NULL,
                  refused |-> refused,
                  full    |-> ~refused /\ FreeFd(fd_table[p]) = None]
  IN /\ k' = [s EXCEPT !.table[g] = filled, !.inode[o].deny = @ \/ flag = "w"]
     /\ fd_table' = [fd_table EXCEPT ![p] = IF refused THEN @ ELSE pcb_fd_install(@, g)]
     /\ cause' = (cause \ {<< "create", g >>}) \cup why
          \cup {<< r, IF r = "refused" THEN s.inode[o].i_no ELSE g >> :
                  r \in {x \in DOMAIN reasons : reasons[x]}}
     /\ Becomes(p, NoCall)

\* file_open up to the place where it sleeps to read the inode.
file_open(p, no, flag) ==
  LET g == get_free_slot_in_global(k.table)
      i == Cached(k, no)
  IN \/ /\ g = None
        /\ Becomes(p, NoCall) /\ UNCHANGED << k, fd_table, cause >>
     \/ /\ g # None /\ no = None   \* ASSERT(inode_no < 4096)
        /\ k' = [k EXCEPT !.halted = "assert"]
        /\ UNCHANGED << fd_table, call, cause >>
     \/ /\ g # None /\ no # None /\ i # 0 /\ k.inode[k.open[i]].cnts < MaxCnt
        /\ Install(p, [k EXCEPT !.inode[k.open[i]].cnts = @ + 1], g, k.open[i],
                   flag, Flux(p, no))
     \/ /\ g # None /\ no # None /\ i = 0
        /\ Becomes(p, [NoCall EXCEPT !.at = "open", !.no = no, !.flag = flag, !.slot = g])
        /\ cause' = cause \cup Flux(p, no)
        /\ UNCHANGED << k, fd_table >>

sys_open(p, name, flag) ==
  /\ User(p) /\ search_file(name) # None
  /\ file_open(p, search_file(name), flag)
  /\ UNCHANGED born

\* inode_open has read the inode, and does not search open_inodes again.
OpenRead(p) ==
  LET c == call[p]
      o == NewObj(k)
  IN /\ At(p, "open") /\ FreeObjs(k) # {}
     /\ Install(p, AddInode(k, o, InodeOnDisk(k, c.no)), c.slot, o, c.flag, Twice(c.no))
     /\ UNCHANGED born

-----------------------------------------------------------------------------
(***************************************************************************)
(* sys_open with O_CREAT: file_create, then a second search and file_open  *)
(***************************************************************************)
\* The name is not found.  Inode, slot and memory are taken at once.
CreateBegin(p, name, flag) ==
  LET no == IF Ino \subseteq k.ibits THEN None ELSE Min(Ino \ k.ibits)
      g == get_free_slot_in_global(k.table)
      o == NewObj(k)
  IN /\ User(p) /\ search_file(name) = None /\ FreeObjs(k) # {}
     /\ IF no = None \/ g = None
        THEN /\ Becomes(p, [NoCall EXCEPT !.at = "lookup", !.name = name, !.flag = flag])
             /\ cause' = cause \cup {<< "failed", 0 >>} /\ UNCHANGED k
        ELSE /\ k' = [k EXCEPT !.ibits = @ \cup {no},
                              !.inode[o] = [i_no |-> no, cnts |-> 0, deny |-> FALSE],
                              !.table[g] = [fd_inode |-> o, fd_flag |-> flag, fd_pos |-> 0]]
             /\ Becomes(p, [NoCall EXCEPT !.at = "entry", !.name = name, !.no = no,
                                         !.flag = flag, !.slot = g, !.obj = o])
             /\ cause' = cause \cup {<< "create", g >>} \cup Flux(p, no)
     /\ UNCHANGED << fd_table, born >>

\* sync_dir_entry has read the block; the entry goes to the first free place.
CreateRead(p) ==
  /\ At(p, "entry") /\ \E i \in Entry : k.dir[i] = NoEntry
  /\ Becomes(p, [call[p] EXCEPT !.at = "write", !.buf = k.dir])
  /\ UNCHANGED << k, fd_table, born, cause >>

\* A block is written that somebody else has changed since it was read.
LostUpdate(p) == IF k.dir = call[p].buf THEN {} ELSE {<< "entry", 0 >>}

CreateWrite(p) ==
  LET c == call[p]
      i == Min({x \in Entry : c.buf[x] = NoEntry})
  IN /\ At(p, "write")
     /\ k' = [k EXCEPT !.dir = [c.buf EXCEPT ![i] = [name |-> c.name, i_no |-> c.no]]]
     /\ cause' = cause \cup LostUpdate(p)
     /\ Becomes(p, [c EXCEPT !.at = "parent", !.buf = << >>])
     /\ UNCHANGED << fd_table, born >>

\* inode_sync of the directory, and then of the new inode.
CreateSyncParent(p) ==
  \/ ReadSector(p, "parent", "put parent")
  \/ /\ WriteSector(p, "put parent", k, call[p].sector)
     /\ Becomes(p, [call[p] EXCEPT !.at = "sync", !.sector = {}])

CreateSync(p) ==
  \/ ReadSector(p, "sync", "put inode")
  \/ /\ WriteSector(p, "put inode", k, call[p].sector \cup {call[p].no})
     /\ Becomes(p, [call[p] EXCEPT !.at = "publish", !.sector = {}])

\* The inode bitmap is written.  The inode becomes visible in open_inodes;
\* the descriptor installed here is not the one that is returned.
CreatePublish(p) ==
  LET c == call[p]
  IN /\ At(p, "publish")
     /\ k' = [k EXCEPT !.open = << c.obj >> \o @, !.inode[c.obj].cnts = 1]
     /\ fd_table' = [fd_table EXCEPT ![p] = pcb_fd_install(@, c.slot)]
     /\ cause' = cause
          \cup (IF FreeFd(fd_table[p]) = None THEN {<< "full", c.slot >>} ELSE {})
          \cup Twice(c.no)
     /\ Becomes(p, [NoCall EXCEPT !.at = "lookup", !.name = c.name, !.flag = c.flag])
     /\ UNCHANGED born

CreateOpen(p) ==
  /\ At(p, "lookup")
  /\ file_open(p, search_file(call[p].name), call[p].flag)
  /\ UNCHANGED born

-----------------------------------------------------------------------------
(***************************************************************************)
(* sys_unlink                                                              *)
(***************************************************************************)
\* Mutant of InUse: the file table is not searched.
InUse_Never(no) == FALSE
InUse(no) ==
  \E g \in Slot : LET o == k.table[g].fd_inode IN o \in Obj /\ k.inode[o].i_no = no

UnlinkBegin(p, name) ==
  LET no == search_file(name)
  IN /\ User(p) /\ no # None /\ ~InUse(no)
     /\ Becomes(p, [NoCall EXCEPT !.at = "search", !.no = no])
     /\ cause' = cause \cup Flux(p, no)
     /\ UNCHANGED << k, fd_table, born >>

\* The rest of inode_release once the inode is open: its number is given back.
Release(p, s, o, why) ==
  /\ IF s.inode[o].i_no # call[p].no   \* ASSERT(inode_to_del->i_no == inode_no)
     THEN k' = [s EXCEPT !.halted = "assert"] /\ UNCHANGED call
     ELSE /\ k' = [s EXCEPT !.ibits = @ \ {call[p].no}]
          /\ Becomes(p, [call[p] EXCEPT !.at = "zero", !.obj = o,
                                        !.buf = << >>, !.sector = {}])
  /\ cause' = cause \cup why

\* inode_release up to where it sleeps: the inode is read unless it is in memory.
inode_release(p, s, why) ==
  LET i == Cached(s, call[p].no)
  IN \/ i # 0 /\ Release(p, [s EXCEPT !.inode[s.open[i]].cnts = @ + 1], s.open[i], why)
     \/ /\ i = 0 /\ k' = s /\ cause' = cause \cup why
        /\ Becomes(p, [call[p] EXCEPT !.at = "release", !.buf = << >>, !.sector = {}])

\* delete_dir_entry has read the block.  An entry that is not found is
\* reported, but sys_unlink does not look at the answer.
UnlinkRead(p) ==
  LET found == Cardinality(EntriesOf(k.dir, call[p].no))
  IN /\ At(p, "search") /\ UNCHANGED << fd_table, born >>
     /\ \/ /\ found > 1   \* ASSERT(dir_entry_found == NULL)
           /\ k' = [k EXCEPT !.halted = "assert"] /\ UNCHANGED << call, cause >>
        \/ /\ found = 1
           /\ Becomes(p, [call[p] EXCEPT !.at = "remove", !.buf = k.dir])
           /\ UNCHANGED << k, cause >>
        \/ found = 0 /\ inode_release(p, k, {})

UnlinkWrite(p) ==
  LET c == call[p]
  IN /\ At(p, "remove")
     /\ k' = [k EXCEPT !.dir = [i \in Entry |->
                  IF i \in EntriesOf(c.buf, c.no) THEN NoEntry ELSE c.buf[i]]]
     /\ cause' = cause \cup LostUpdate(p)
     /\ Becomes(p, [c EXCEPT !.at = "left", !.buf = << >>])
     /\ UNCHANGED << fd_table, born >>

\* inode_sync of the directory; after it inode_release begins at once.
UnlinkSyncParent(p) ==
  LET c == call[p]
  IN \/ ReadSector(p, "left", "put left")
     \/ /\ At(p, "put left") /\ UNCHANGED << fd_table, born >>
        /\ inode_release(p, [k EXCEPT !.itable = c.sector], LostInodes(p))

\* inode_open in inode_release has read the inode, and does not search again.
UnlinkOpen(p) ==
  LET no == call[p].no
  IN /\ At(p, "release") /\ FreeObjs(k) # {} /\ UNCHANGED << fd_table, born >>
     /\ Release(p, AddInode(k, NewObj(k), InodeOnDisk(k, no)), NewObj(k), Twice(no))

\* The inode bitmap is written and inode_delete reads the sector; it writes
\* the sector back, and inode_close follows.
UnlinkZero(p) ==
  LET c == call[p]
  IN \/ ReadSector(p, "zero", "put zero")
     \/ /\ WriteSector(p, "put zero", inode_close(k, c.obj), c.sector \ {c.no})
        /\ Becomes(p, NoCall)

-----------------------------------------------------------------------------
(***************************************************************************)
(* sys_close, sys_pipe, sys_fd_redirect, fork, exit                        *)
(***************************************************************************)
\* Another slot of the same inode is open for writing.
Undenied(g) ==
  LET o == k.table[g].fd_inode
  IN IF o \in Obj /\ \E h \in Slot \ {g} : k.table[h].fd_inode = o /\ k.table[h].fd_flag = "w"
     THEN {<< "close", k.inode[o].i_no >>} ELSE {}

\* A descriptor the process has.
sys_close(p, fd) ==
  LET g == fd_table[p][fd]
  IN /\ User(p) /\ g # None
     /\ k' = CloseSlot(k, g)
     /\ fd_table' = IF k'.halted = "no" THEN [fd_table EXCEPT ![p][fd] = None] ELSE fd_table
     /\ cause' = cause \cup Undenied(g)
     /\ UNCHANGED << born, call >>

\* The slot is not tested; a page that is not obtained is used before the test.
sys_pipe(p) ==
  LET g == get_free_slot_in_global(k.table)
      page == CHOOSE x \in Page \ k.page : TRUE
      once == pcb_fd_install(fd_table[p], g)
  IN /\ User(p)
     /\ IF g = None \/ Page \subseteq k.page
        THEN /\ k' = [k EXCEPT !.halted = IF g = None THEN "no slot" ELSE "no page"]
             /\ UNCHANGED << fd_table, cause >>
        ELSE /\ k' = [k EXCEPT !.page = @ \cup {page},
                              !.table[g] = [fd_inode |-> page, fd_flag |-> "pipe", fd_pos |-> 2]]
             /\ fd_table' = [fd_table EXCEPT ![p] = pcb_fd_install(once, g)]
             /\ cause' = cause \cup (IF FreeFd(once) = None THEN {<< "full", g >>} ELSE {})
     /\ UNCHANGED << born, call >>

\* As the shell uses it: standard input or output to a pipe, and back.
sys_fd_redirect(p, old, new) ==
  /\ User(p)
  /\ new = old \/ (new \in Fd /\ fd_table[p][new] # None /\ is_pipe(k, fd_table[p][new]))
  /\ fd_table' = [fd_table EXCEPT ![p][old] = IF new < 3 THEN new ELSE fd_table[p][new]]
  /\ UNCHANGED << k, born, call, cause >>

\* Mutant of update_inode_open_cnts: pipes are left out.
update_inode_open_cnts_FilesOnly(s, fds) ==
  FoldSet(LAMBDA fd, r : IF is_pipe(r, fds[fd]) THEN r ELSE CountFd(r, fds[fd]),
          s, {fd \in Fd : fds[fd] # None})

update_inode_open_cnts(s, fds) ==
  FoldSet(LAMBDA fd, r : CountFd(r, fds[fd]), s, {fd \in Fd : fds[fd] # None})

\* The child inherits the descriptors; 0, 1 and 2 are not counted.
sys_fork(p, q) ==
  LET fds == fd_table[p]
  IN /\ User(p) /\ q \notin born
     /\ \A g \in Slot : LET o == k.table[g].fd_inode IN o \in Obj => k.inode[o].cnts < MaxCnt
     /\ k' = update_inode_open_cnts(k, fds)
     /\ fd_table' = [fd_table EXCEPT ![q] = fds]
     /\ born' = born \cup {q}
     /\ cause' = cause \cup {<< "fork", fds[fd] >> :
                     fd \in {x \in Fd : fds[x] # None /\ ~is_pipe(k, fds[x])}}
     /\ UNCHANGED call

\* release_prog_resource closes 3 .. in order; the PCB goes when it is reaped.
sys_exit(p) ==
  LET fds == SetToSortSeq({fd \in Fd : fd_table[p][fd] # None}, <)
  IN /\ User(p) /\ p # shell
     /\ k' = FoldLeft(LAMBDA s, fd : IF s.halted # "no" THEN s ELSE CloseSlot(s, fd_table[p][fd]),
                      k, fds)
     /\ IF k'.halted = "no"
        THEN born' = born \ {p} /\ fd_table' = [fd_table EXCEPT ![p] = NoFds]
        ELSE UNCHANGED << born, fd_table >>
     /\ cause' = cause \cup UNION {Undenied(fd_table[p][fds[i]]) : i \in DOMAIN fds}
     /\ UNCHANGED call

Next ==
  \E p \in Process :
    \/ \E name \in Name, flag \in {"r", "w"} : sys_open(p, name, flag) \/ CreateBegin(p, name, flag)
    \/ OpenRead(p)
    \/ CreateRead(p) \/ CreateWrite(p) \/ CreateSyncParent(p) \/ CreateSync(p)
    \/ CreatePublish(p) \/ CreateOpen(p)
    \/ \E name \in Name : UnlinkBegin(p, name)
    \/ UnlinkRead(p) \/ UnlinkWrite(p) \/ UnlinkSyncParent(p) \/ UnlinkOpen(p) \/ UnlinkZero(p)
    \/ \E fd \in Fd : sys_close(p, fd)
    \/ sys_pipe(p)
    \/ \E old \in {0, 1}, new \in {0, 1} \cup Fd : sys_fd_redirect(p, old, new)
    \/ \E q \in Process : sys_fork(p, q)
    \/ sys_exit(p)

Spec == Init /\ [][Next]_vars

-----------------------------------------------------------------------------
(***************************************************************************)
(* Properties.  What may go wrong is named by cause:                       *)
(*   fork g     a child inherited a descriptor of a regular file (fork.c   *)
(*              counts the inode again, file_close frees the one slot)     *)
(*   slot g     two calls chose the same slot before either filled it      *)
(*   full g     a slot was filled, and no descriptor was left for it       *)
(*   refused n  a refused writer left the open count of inode n too high   *)
(*   twice n    two calls read inode n at once: it is in memory twice      *)
(*   create g   the slot filled by file_create, a writer without write_deny *)
(*   close n    a descriptor of n was closed while n is open for writing   *)
(*   flux n     n was opened while it was created or removed, or the like  *)
(*   failed     file_create found no number or no slot                     *)
(*   entry      two calls changed the directory's block at once            *)
(*   itable n   a sector of the inode table was written back that had been *)
(*              read before inode n was written or cleared in it           *)
(***************************************************************************)
Holders(g) == {<< p, fd >> \in born \X Fd : fd_table[p][fd] = g}
SlotsOf(o) == {g \in Slot : k.table[g].fd_inode = o}
Running == k.halted = "no"
Some(kinds) == \E c \in cause : c[1] \in kinds
Has(kinds, x) == \E c \in cause : c[1] \in kinds /\ c[2] = x
InodeSlot(g) == k.table[g].fd_inode \in Obj
NoOf(g) == k.inode[k.table[g].fd_inode].i_no

\* The open count of a pipe is the number of its descriptors above 2, over
\* pipe, fork, close and exit in any order, so its page is freed exactly when
\* the last is gone; standard input or output redirected to a pipe is not
\* counted, and is safe while its process keeps a counted descriptor.
PipeCounts ==
  Running => \A g \in Slot : ~Has({"fork", "slot", "full"}, g) =>
    /\ is_pipe(k, g) /\ k.table[g].fd_inode # NULL => k.table[g].fd_pos = Cardinality(Holders(g))
    /\ is_pipe(k, g) /\ Holders(g) # {} => k.table[g].fd_inode \in k.page

\* A descriptor of a live process leads to an open file, and a slot to an
\* inode that has not been freed: the kernel follows no null pointer, except
\* after a regular file's descriptor was inherited or a slot chosen twice.
DescriptorsLive ==
  /\ Running => \A p \in born, fd \in Fd : LET g == fd_table[p][fd] IN
       g = None \/ k.table[g].fd_inode # NULL \/ Has({"fork", "slot"}, g)
  /\ \A g \in Slot : InodeSlot(g) => NoOf(g) # None
  /\ k.halted = "fault" => Some({"fork", "slot"})

\* file.c:216 and 221 say that a second process cannot open a file to write.
\* Two processes do hold two slots of it with O_WRONLY or O_RDWR, and only when
\* one of the slots is the one file_create filled without setting write_deny
\* (file.c:149, 177), when a descriptor of the file was closed while another was
\* open for writing (file.c:243 clears write_deny), or when it is in memory
\* twice; no shared slot, fork or removal under way adds to these.
OneWriter ==
  \A g, h \in Slot :
    /\ g # h /\ InodeSlot(g) /\ InodeSlot(h) /\ NoOf(g) = NoOf(h) /\ NoOf(g) # 0
    /\ k.table[g].fd_flag = "w" /\ k.table[h].fd_flag = "w"
    /\ \E p, q \in born : p # q /\ (\E fd \in Fd : fd_table[p][fd] = g)
                                /\ (\E fd \in Fd : fd_table[q][fd] = h)
    => Has({"close", "twice"}, NoOf(g)) \/ Has({"create"}, g) \/ Has({"create"}, h)

\* What a slot holds exists: its number is allocated, its inode is on the
\* disk and has an entry, unless the calls that made or removed it overlapped
\* or a sector they share was written back stale.  An inode is in memory once,
\* counted once per slot.
OpenInodesExist ==
  /\ \A g \in Slot : LET n == NoOf(g) IN
       InodeSlot(g) /\ n # 0 /\ ~Has({"flux"}, n) /\ ~Some({"entry"}) =>
         /\ n \in k.ibits
         /\ Contains(k.open, k.table[g].fd_inode)
              => EntriesOf(k.dir, n) # {} /\ (n \in k.itable \/ Has({"itable"}, n))
  /\ \A i, j \in DOMAIN k.open : LET n == k.inode[k.open[i]].i_no IN
       i # j /\ n # 0 /\ k.inode[k.open[j]].i_no = n => Has({"twice", "refused"}, n)
  /\ Running => \A i \in DOMAIN k.open :
       ~Has({"twice", "refused", "flux"}, k.inode[k.open[i]].i_no) /\ ~Some({"fork", "slot"})
         => k.inode[k.open[i]].cnts = Cardinality(SlotsOf(k.open[i]))
               + Cardinality({p \in born : call[p].at \in {"zero", "put zero"} /\ call[p].obj = k.open[i]})
  /\ k.halted = "assert" => Some({"flux", "entry", "failed", "fork", "slot", "itable"})
=============================================================================
