------------------------------ MODULE Directory ------------------------------
(***************************************************************************)
(* The tree of directories on the disk and what the kernel keeps of it in  *)
(* memory: the format of the partition, creation and removal of files and  *)
(* directories, the entries' blocks with their indirect table, the bitmaps *)
(* (fs/dir.c, fs/fs.c, fs/inode.c, fs/file.c), and the shell's built-in    *)
(* commands with the paths they are given (shell/buildin_cmd.c).           *)
(*                                                                         *)
(* One process makes calls one after the other.  A call changes memory at  *)
(* once and leaves its writes to the disk in pending; Write does the next  *)
(* one, and a call starts when there is none.  So disk is in every state   *)
(* what a power failure at that moment leaves: there is no journal, and    *)
(* the boot reads the bitmaps and the inodes from it.  Calls of several    *)
(* processes on one directory are in OpenFiles, contents in FileBlocks.    *)
(***************************************************************************)
EXTENDS Integers, Sequences, SequencesExt, FiniteSetsExt

CONSTANTS Name,      \* names of files and directories
          Typed,     \* paths as they are typed: [abs : BOOLEAN, names : Seq(Name \cup Dots)]
          Made,      \* Init: sequences of files that are in the root already
          MaxIno,    \* inodes 0 .. MaxIno; the root is 0
          NoWidth,   \* inode_sync keeps a number % NoWidth (256, a uint8_t)
          sec_cnt, inode_table_sects,   \* sectors of the partition, and of the table
          BITS_PER_SECTOR, BITS_PER_BYTE,
          EPB,       \* entries in a block
          Direct,    \* direct blocks of an inode; i_sectors[Direct] is the table
          MaxCalls   \* bound: calls in a behaviour

ASSUME DirectoryAssumption ==
  /\ MaxIno \in Nat \ {0} /\ NoWidth \in Nat \ {0}
  /\ EPB \in Nat /\ EPB > 2 /\ Direct \in Nat \ {0}
  /\ sec_cnt \in Nat /\ inode_table_sects \in Nat /\ sec_cnt > inode_table_sects + 4
  /\ BITS_PER_BYTE \in Nat \ {0, 1} /\ BITS_PER_SECTOR % BITS_PER_BYTE = 0

VARIABLES mem,      \* what the kernel holds: bits, ibits, ino
          disk,     \* what the disk holds: bitmap, itab, blk
          pending,  \* writes of the call in progress
          halted,   \* why the kernel stopped, or "no"
          cwd,      \* cwd_inode_nr, and the path that chdir was given
          calls,    \* calls so far
          tree,     \* history: the paths after the call in progress
          prev,     \* history: the paths before it
          cause     \* history: what has damaged the tree, see Properties

vars == << mem, disk, pending, halted, cwd, calls, tree, prev, cause >>

-----------------------------------------------------------------------------
(***************************************************************************)
(* The layout of the partition.  Bit i of the block bitmap stands for the  *)
(* sector data_start_lba + i, called block i + 1 here: 1 is the root's     *)
(* first block and 0 is none.  The bits of the last byte that stand for a  *)
(* block are cleared again, and one more.                                  *)
(***************************************************************************)
DIV_ROUND_UP(x, step) == (x + step - 1) \div step
block_bitmap_bit_len ==
  LET free_sects == sec_cnt - (3 + inode_table_sects)
  IN free_sects - DIV_ROUND_UP(free_sects, BITS_PER_SECTOR)
block_bitmap_sects == DIV_ROUND_UP(block_bitmap_bit_len, BITS_PER_SECTOR)

ASSUME LayoutAssumption == block_bitmap_bit_len >= BITS_PER_BYTE

\* Mutant of FormatBits: what is beyond the last byte stays free.
FormatBits_NoMemset == {1}

\* The blocks that partition_format marks: the root's, and from the last byte
\* on all but the bits 0 .. last_bit of that byte.
FormatBits ==
  LET last_byte == (block_bitmap_bit_len \div BITS_PER_BYTE) * BITS_PER_BYTE
      last_bit == block_bitmap_bit_len % BITS_PER_BYTE
  IN {1} \cup (last_byte + last_bit + 2) .. (BITS_PER_SECTOR * block_bitmap_sects)

Ino == 0 .. MaxIno
Block == 1 .. BITS_PER_SECTOR * block_bitmap_sects
Sect == 0 .. Direct

\* Directory entries: a name or one of Dots; type "none" is FT_UNKNOWN.
Dots == {".", ".."}
Entry(name, no, type) == [name |-> name, no |-> no, type |-> type]
Free == Entry("", 0, "none")
Used(e) == e.type # "none"

\* A block holds entries or is an indirect table; the other part is zero.
ZeroTable == [i \in 1 .. EPB |-> 0]
ZeroEntries == [i \in 1 .. EPB |-> Free]
EntryBlock(es) == [e |-> [i \in 1 .. EPB |-> IF i <= Len(es) THEN es[i] ELSE Free],
                   t |-> ZeroTable]
TableBlock(b) == [e |-> ZeroEntries, t |-> [ZeroTable EXCEPT ![1] = b]]

\* An inode on the disk; cnts is i_open_cnts, 0 when it is not in open_inodes.
ZeroInode == [no |-> 0, size |-> 0, sect |-> [i \in Sect |-> 0]]
inode_init(no) == [ZeroInode EXCEPT !.no = no]
DirInode(no, b) == [no |-> no, size |-> 2, sect |-> [i \in Sect |-> IF i = 0 THEN b ELSE 0]]
Closed == [inode |-> ZeroInode, cnts |-> 0]

-----------------------------------------------------------------------------
(***************************************************************************)
(* A call works on s: memory, the disk as the call sees it, the log of     *)
(* what it writes, and why the kernel stops in it.                         *)
(***************************************************************************)
Write(s, to, at, val) ==
  [s EXCEPT !.disk[to][at] = val, !.log = Append(@, << to, at, val >>)]

\* The whole sector of a bitmap is written.
SyncBits(s) == Write(s, "bitmap", "block", s.bits)
SyncIbits(s) == Write(s, "bitmap", "inode", s.ibits)

FreeBit(s, b) == SyncBits([s EXCEPT !.bits = @ \ {b}])
NewBlock(s) == IF Block \subseteq s.bits THEN 0 ELSE Min(Block \ s.bits)
NewIno(s) == IF Ino \subseteq s.ibits THEN -1 ELSE Min(Ino \ s.ibits)

\* The inode a search of open_inodes, or else the inode table, gives.
InodeOf(s, no) == IF s.ino[no].cnts > 0 THEN s.ino[no].inode ELSE s.disk.itab[no]

inode_open(s, no) ==
  [s EXCEPT !.ino[no] = [inode |-> InodeOf(s, no), cnts |-> @.cnts + 1]]

inode_close(s, no) ==
  [s EXCEPT !.ino[no] = IF @.cnts = 1 THEN Closed ELSE [@ EXCEPT !.cnts = @ - 1]]

\* inode_sync keeps the number in a byte: a large one names another inode.
SyncInode(s, no, inode) ==
  [Write(s, "itab", no % NoWidth, inode) EXCEPT
     !.why = IF no < NoWidth THEN @ ELSE @ \cup {"wrap"}]
inode_sync(s, no) == SyncInode(s, no, s.ino[no].inode)

\* all_blocks: the direct blocks, then what the table holds.
AllBlocks(d, inode) ==
  [i \in 1 .. Direct |-> inode.sect[i - 1]] \o
    (IF inode.sect[Direct] = 0 THEN << >> ELSE d.blk[inode.sect[Direct]].t)

\* All entries, those of a block that is missing being free.
EntriesIn(d, inode) ==
  LET blocks == AllBlocks(d, inode)
  IN [k \in 1 .. EPB * Len(blocks) |->
        LET b == blocks[((k - 1) \div EPB) + 1]
        IN IF b = 0 THEN Free ELSE d.blk[b].e[((k - 1) % EPB) + 1]]

\* The first entry of the name, or Free.
search_dir_entry(s, no, name) ==
  LET es == EntriesIn(s.disk, InodeOf(s, no))
      i == SelectInSeq(es, LAMBDA e : e.name = name)
  IN IF i = 0 THEN Free ELSE es[i]

(***************************************************************************)
(* search_file: the path is followed as far as directories go.  A regular  *)
(* file ends the search wherever it is met; searched counts the names      *)
(* looked up, no is -1 if the last was not found.                          *)
(***************************************************************************)
search_file(s, path) ==
  LET root == [no |-> 0, type |-> "dir", parent |-> 0, searched |-> 0]
      walk[k \in 0 .. Len(path)] ==
        LET r == walk[k - 1]
            e == search_dir_entry(s, r.no, path[k])
        IN IF k = 0 THEN root
           ELSE IF r.type # "dir" THEN r
           ELSE [no |-> IF Used(e) THEN e.no ELSE -1, type |-> e.type,
                 parent |-> r.no, searched |-> k]
  IN walk[Len(path)]

-----------------------------------------------------------------------------
(***************************************************************************)
(* dir.c: entries of the directory d, whose inode is open.  ok is false if *)
(* there was no block.                                                     *)
(***************************************************************************)
HasRoom(s, b) == \E i \in 1 .. EPB : ~Used(s.disk.blk[b].e[i])

\* Mutant of PutEntry: the size of the directory stays.
PutEntry_KeepsSize(s, d, b, block) == Write(s, "blk", b, block)

\* The entry goes to the block, and the directory grows by one.
PutEntry(s, d, b, block) ==
  [Write(s, "blk", b, block) EXCEPT !.ino[d].inode.size = @ + 1]

InsertEntry(es, e) ==
  [es EXCEPT ![Min({i \in 1 .. EPB : ~Used(es[i])})] = e]

\* A first block for an empty place among the direct ones.
AddDirectBlock(s, d, i, e) ==
  LET b == NewBlock(s)
      s1 == SyncBits([s EXCEPT !.bits = @ \cup {b}, !.ino[d].inode.sect[i] = b])
  IN IF b = 0 THEN [s EXCEPT !.ok = FALSE] ELSE PutEntry(s1, d, b, EntryBlock(<< e >>))

(***************************************************************************)
(* The indirect table is never read, so its first block always seems to be *)
(* missing: a new table, with one block, takes the place of any other.     *)
(***************************************************************************)
AddIndirectBlock(s, d, e) ==
  LET t == NewBlock(s)
      s1 == SyncBits([s EXCEPT !.bits = @ \cup {t}, !.ino[d].inode.sect[Direct] = t])
      b == NewBlock(s1)
      s2 == Write(SyncBits([s1 EXCEPT !.bits = @ \cup {b}]), "blk", t, TableBlock(b))
      lost == IF s.ino[d].inode.sect[Direct] # 0 THEN {"table"} ELSE {}
  IN IF t = 0 THEN [s EXCEPT !.ok = FALSE]
     ELSE IF b = 0
     THEN [s1 EXCEPT !.ok = FALSE, !.bits = @ \ {t}, !.ino[d].inode.sect[Direct] = 0,
                     !.why = @ \cup {"full"} \cup lost]
     ELSE [PutEntry(s2, d, b, EntryBlock(<< e >>)) EXCEPT !.why = @ \cup lost]

sync_dir_entry(s, d, e) ==
  LET sect == s.ino[d].inode.sect
      i == Min({j \in Sect : j = Direct \/ sect[j] = 0 \/ HasRoom(s, sect[j])})
      b == sect[i]
  IN IF i = Direct THEN AddIndirectBlock(s, d, e)
     ELSE IF b = 0 THEN AddDirectBlock(s, d, i, e)
     ELSE PutEntry(s, d, b, [s.disk.blk[b] EXCEPT !.e = InsertEntry(@, e)])

\* The entries of a block that count, and those of a number.
Counted(es) == {i \in 1 .. EPB : Used(es[i]) /\ es[i].name \notin Dots}
OfNumber(es, no) == {i \in Counted(es) : es[i].no = no}
FirstBlock(es) == \E i \in 1 .. EPB : es[i].name = "."

DropBlock(s, d, i, b) == [FreeBit(s, b) EXCEPT !.ino[d].inode.sect[i] = 0]

(***************************************************************************)
(* delete_dir_entry: the first block with an entry of the number.  If it   *)
(* holds no other it is given back, unless it is the directory's first;    *)
(* in the table, the loop that counts the indirect blocks does not end.    *)
(***************************************************************************)
delete_dir_entry(s, d, no) ==
  LET blocks == AllBlocks(s.disk, s.ino[d].inode)
      i == SelectInSeq(blocks, LAMBDA b : b # 0 /\ OfNumber(s.disk.blk[b].e, no) # {})
      b == blocks[i]
      es == s.disk.blk[b].e
      last == Cardinality(Counted(es)) = 1 /\ ~FirstBlock(es)
      cleared == [es EXCEPT ![Min(OfNumber(es, no))] = Free]
      s1 == IF last THEN DropBlock(s, d, i - 1, b)
            ELSE Write(s, "blk", b, [e |-> cleared, t |-> s.disk.blk[b].t])
  IN IF i = 0 THEN s
     ELSE IF Cardinality(OfNumber(es, no)) > 1   \* ASSERT(dir_entry_found == NULL)
     THEN [s EXCEPT !.halted = "two entries"]
     ELSE IF last /\ i > Direct
     THEN [FreeBit(s, b) EXCEPT !.halted = "endless loop"]
     ELSE inode_sync([s1 EXCEPT !.ino[d].inode.size = @ - 1], d)

-----------------------------------------------------------------------------
(***************************************************************************)
(* inode.c: inode_release                                                  *)
(***************************************************************************)
\* Table and blocks are freed one by one, then the number; then the inode
\* is zeroed on the disk.
inode_release(s, no) ==
  LET s1 == inode_open(s, no)
      inode == s1.ino[no].inode
      blocks == (IF inode.sect[Direct] = 0 THEN << >> ELSE << inode.sect[Direct] >>) \o
                SelectSeq(AllBlocks(s.disk, inode), LAMBDA b : b # 0)
      s2 == FoldLeft(FreeBit, s1, blocks)
      s3 == SyncIbits([s2 EXCEPT !.ibits = @ \ {no}])
  IN IF inode.no # no   \* ASSERT(inode_to_del->i_no == inode_no)
     THEN [s1 EXCEPT !.halted = "zero inode"]
     ELSE inode_close(Write(s3, "itab", no, ZeroInode), no)

\* The inode that is removed was left open, and stays in open_inodes.
Stale(before, after, no) ==
  [after EXCEPT !.why = IF before.ino[no].cnts > 0 THEN @ \cup {"stale"} ELSE @]

-----------------------------------------------------------------------------
(***************************************************************************)
(* Calls, on a path whose search gave r                                    *)
(***************************************************************************)
Missing(r, path) == r.no = -1 /\ r.searched = Len(path)

(***************************************************************************)
(* sys_open with O_CREAT of a name that is missing: file_create, then a    *)
(* second search, whose parent directory is never closed, and file_open;   *)
(* the process that asked has closed its descriptors again.  If the file   *)
(* could not be made, file_open is given -1 and an ASSERT fails.           *)
(***************************************************************************)
Leak(s, d) == IF d = 0 THEN s ELSE inode_open(s, d)

file_create(s, d, name) ==
  LET no == NewIno(s)
      s1 == sync_dir_entry(inode_open([s EXCEPT !.ibits = @ \cup {no}], d), d,
                           Entry(name, no, "file"))
      s2 == SyncIbits(SyncInode(inode_sync(s1, d), no, inode_init(no)))
  IN IF no = -1 THEN [s EXCEPT !.halted = "not made"]
     ELSE IF ~s1.ok THEN [s1 EXCEPT !.halted = "not made"]
     ELSE inode_close(Leak(s2, d), d)

\* sys_open of a file that exists: the parent directory is never closed.
open_existing(s, r) == Leak(s, r.parent)

sys_unlink(s, r) ==
  LET s1 == delete_dir_entry(inode_open(s, r.parent), r.parent, r.no)
      s2 == inode_release(s1, r.no)
  IN IF s1.halted # "no" THEN s1 ELSE IF s2.halted # "no" THEN s2
     ELSE Stale(s, inode_close(s2, r.parent), r.no)

(***************************************************************************)
(* sys_mkdir: the directory's block first, then the entry, the inodes of   *)
(* parent and child, the number.  A rollback gives the number back only.   *)
(***************************************************************************)
sys_mkdir(s, d, name) ==
  LET no == NewIno(s)
      b == NewBlock(s)
      s1 == SyncBits([inode_open(s, d) EXCEPT !.ibits = @ \cup {no}, !.bits = @ \cup {b}])
      s2 == Write(s1, "blk", b, EntryBlock(<< Entry(".", no, "dir"), Entry("..", d, "dir") >>))
      s3 == sync_dir_entry(s2, d, Entry(name, no, "dir"))
      s4 == SyncIbits(SyncInode(inode_sync(s3, d), no, DirInode(no, b)))
  IN IF no = -1 \/ b = 0 THEN [s EXCEPT !.ok = FALSE]
     ELSE IF ~s3.ok
     THEN inode_close([s3 EXCEPT !.ibits = @ \ {no}, !.why = @ \cup {"rollback"}], d)
     ELSE inode_close(s4, d)

\* Mutant of dir_is_empty: one entry is overlooked.
dir_is_empty_OffByOne(inode) == inode.size <= 3
dir_is_empty(inode) == inode.size = 2

dir_remove(s, d, child) ==
  LET s1 == delete_dir_entry(s, d, child)
  IN IF \E i \in Sect \ {0} : s.ino[child].inode.sect[i] # 0   \* ASSERT
     THEN [s EXCEPT !.halted = "blocks left"]
     ELSE IF s1.halted # "no" THEN s1 ELSE inode_release(s1, child)

\* r is a directory.  One that is not empty is refused; being somebody's
\* working directory does not matter.
sys_rmdir(s, r) ==
  LET s1 == inode_open(inode_open(s, r.parent), r.no)
      s2 == dir_remove(s1, r.parent, r.no)
  IN IF ~dir_is_empty(s1.ino[r.no].inode) THEN [s EXCEPT !.ok = FALSE]
     ELSE IF s2.halted # "no" THEN s2
     ELSE Stale(s, inode_close(inode_close(s2, r.no), r.parent), r.no)

-----------------------------------------------------------------------------
(***************************************************************************)
(* What reads the tree                                                     *)
(***************************************************************************)
\* The entries that calls of readdir return one after the other: they stop
\* at the size of the directory.
dir_read(s, no) ==
  LET used == SelectSeq(EntriesIn(s.disk, InodeOf(s, no)), Used)
  IN SubSeq(used, 1, Min({Len(used), InodeOf(s, no).size}))

\* Its ASSERTs: the directory has a first block, and ".." leads to a directory.
HasParent(s, no) ==
  LET b == InodeOf(s, no).sect[0] IN b # 0 /\ s.disk.blk[b].e[2].type = "dir"
get_parent_dir_inode_nr(s, no) == s.disk.blk[InodeOf(s, no).sect[0]].e[2].no

Lost == "?"
\* The first entry of the number, whatever its type.
get_child_dir_name(s, parent, no) ==
  LET es == EntriesIn(s.disk, InodeOf(s, parent))
      i == SelectInSeq(es, LAMBDA e : e.no = no)
  IN IF i = 0 THEN Lost ELSE es[i].name

\* The path of a directory, from the bottom up; Lost is in it if an ASSERT
\* fails or a name is not found.
sys_getcwd(s, no) ==
  LET up[n \in Ino, depth \in 0 .. MaxIno] ==
        IF n = 0 THEN << >>
        ELSE IF depth = 0 \/ ~HasParent(s, n) THEN << Lost >>
        ELSE LET p == get_parent_dir_inode_nr(s, n)
             IN Append(up[p, depth - 1], get_child_dir_name(s, p, n))
  IN up[no, MaxIno]

-----------------------------------------------------------------------------
(***************************************************************************)
(* The paths the shell is given                                            *)
(***************************************************************************)
\* Mutant of Up: ".." is left out, as "." is.
Up_Stays(path) == path
Up(path) == IF path = << >> THEN path ELSE Front(path)

\* "." and ".." are taken out of the text; no directory is looked at.
wash_path(names) ==
  LET washed[k \in 0 .. Len(names)] ==
        IF k = 0 THEN << >>
        ELSE IF names[k] = ".." THEN Up(washed[k - 1])
        ELSE IF names[k] = "." THEN washed[k - 1]
        ELSE Append(washed[k - 1], names[k])
  IN washed[Len(names)]

\* getcwd stops the kernel if the working directory is gone.
make_clear_abs_path(s, no, p) ==
  wash_path(IF p.abs THEN p.names ELSE sys_getcwd(s, no) \o p.names)

\* buildin_ls: the names that readdir gives.
buildin_ls(s, path) == [i \in DOMAIN dir_read(s, search_file(s, path).no) |->
                          dir_read(s, search_file(s, path).no)[i].name]

-----------------------------------------------------------------------------
(***************************************************************************)
(* The machine                                                             *)
(***************************************************************************)
Path == [1 .. 1 -> Name] \cup [1 .. 2 -> Name]   \* bound: depth of the tree

\* After partition_format, mount_partition and open_root_dir.
Formatted ==
  [bits |-> FormatBits, ibits |-> {0},
   ino |-> [no \in Ino |-> IF no = 0 THEN [inode |-> DirInode(0, 1), cnts |-> 1] ELSE Closed],
   disk |-> [bitmap |-> [block |-> FormatBits, inode |-> {0}],
             itab |-> [no \in Ino |-> IF no = 0 THEN DirInode(0, 1) ELSE ZeroInode],
             blk |-> [b \in Block |-> IF b = 1
                        THEN EntryBlock(<< Entry(".", 0, "dir"), Entry("..", 0, "dir") >>)
                        ELSE EntryBlock(<< >>)]],
   log |-> << >>, ok |-> TRUE, halted |-> "no", why |-> {}]

Memory(s) == [bits |-> s.bits, ibits |-> s.ibits, ino |-> s.ino]

\* The paths of a disk, with what they are.
PathsOf(d) ==
  LET Entries(inode) == {e \in Range(EntriesIn(d, inode)) : Used(e) /\ e.name \notin Dots}
      Below(e) == IF e.type = "dir" THEN Entries(d.itab[e.no]) ELSE {}
  IN UNION {{<< << e.name >>, e.type >>} \cup
            {<< << e.name, f.name >>, f.type >> : f \in Below(e)} : e \in Entries(d.itab[0])}

Init ==
  \E names \in Made :
    LET s == FoldLeft(LAMBDA r, name : file_create(r, 0, name), Formatted, names)
    IN /\ mem = Memory(s) /\ disk = s.disk
       /\ tree = PathsOf(disk) /\ prev = tree
       /\ pending = << >> /\ halted = "no" /\ cwd = [no |-> 0, path |-> << >>]
       /\ calls = 0 /\ cause = {}

\* What a call starts from, and what it does.
Now == [bits |-> mem.bits, ibits |-> mem.ibits, ino |-> mem.ino, disk |-> disk,
        log |-> << >>, ok |-> TRUE, halted |-> "no", why |-> {}]

Idle == pending = << >> /\ halted = "no"

Call(s, after) ==
  /\ calls < MaxCalls /\ calls' = calls + 1
  /\ mem' = Memory(s)
  /\ pending' = s.log
  /\ halted' = s.halted
  /\ prev' = tree /\ tree' = IF s.ok /\ s.halted = "no" THEN after ELSE tree
  /\ cause' = cause \cup s.why
  /\ UNCHANGED disk

Create(path) ==
  LET r == search_file(Now, path)
  IN /\ Idle /\ Missing(r, path)
     /\ Call(file_create(Now, r.parent, Last(path)), tree \cup {<< path, "file" >>})
     /\ UNCHANGED cwd

Open(path) ==
  LET r == search_file(Now, path)
  IN /\ Idle /\ r.type = "file" /\ r.searched = Len(path) /\ r.parent # 0
     /\ mem.ino[r.parent].cnts < 2   \* bound: how often a directory is left open
     /\ Call(open_existing(Now, r), tree)
     /\ UNCHANGED cwd

(***************************************************************************)
(* The commands, each with the path as it was typed.  The root itself is   *)
(* refused by mkdir, rmdir and rm.                                         *)
(***************************************************************************)
Cleared(p) == make_clear_abs_path(Now, cwd.no, p)

\* rm; the path may go on after the file.
Unlink(p) ==
  LET path == Cleared(p)
      r == search_file(Now, path)
      through == IF r.searched < Len(path) THEN {"through"} ELSE {}
      s == sys_unlink(Now, r)
  IN /\ Idle /\ path \in Path /\ r.type = "file"
     /\ Call([s EXCEPT !.why = @ \cup through], tree \ {<< path, "file" >>})
     /\ UNCHANGED cwd

Mkdir(p) ==
  LET path == Cleared(p)
      r == search_file(Now, path)
  IN /\ Idle /\ path \in Path /\ Missing(r, path)
     /\ Call(sys_mkdir(Now, r.parent, Last(path)), tree \cup {<< path, "dir" >>})
     /\ UNCHANGED cwd

Rmdir(p) ==
  LET path == Cleared(p)
      r == search_file(Now, path)
      s == sys_rmdir(Now, r)
      lost == IF s.ok /\ r.no = cwd.no THEN {"cwd"} ELSE {}
  IN /\ Idle /\ path \in Path /\ r.type = "dir"
     /\ Call([s EXCEPT !.why = @ \cup lost], tree \ {<< path, "dir" >>})
     /\ UNCHANGED cwd

\* cd; without an argument it goes to the root.
Chdir(p) ==
  LET path == Cleared(p)
      r == search_file(Now, path)
  IN /\ Idle /\ path \in Path \cup {<< >>} /\ r.type = "dir"
     /\ cwd' = [no |-> r.no, path |-> path] /\ cwd' # cwd
     /\ Call(Now, tree)

\* A relative path, typed where the working directory is gone.
Getcwd(p) ==
  /\ Idle /\ Lost \in Range(Cleared(p))
  /\ Call([Now EXCEPT !.halted = "no cwd"], tree)
  /\ UNCHANGED cwd

\* The disk does the next write of the call.
WriteSector ==
  LET w == Head(pending)
  IN /\ pending # << >>
     /\ disk' = [disk EXCEPT ![w[1]][w[2]] = w[3]]
     /\ pending' = Tail(pending)
     /\ UNCHANGED << mem, halted, cwd, calls, tree, prev, cause >>

Next ==
  \/ \E path \in Path : Create(path) \/ Open(path)
  \/ \E p \in Typed : Unlink(p) \/ Mkdir(p) \/ Rmdir(p) \/ Chdir(p) \/ Getcwd(p)
  \/ WriteSector

Spec == Init /\ [][Next]_vars

-----------------------------------------------------------------------------
(***************************************************************************)
(* Properties.  What damages the tree is named by cause:                   *)
(*   table     an indirect table took the place of another (dir.c:160)     *)
(*   stale     an inode was removed that stays in open_inodes, because a   *)
(*             call that opened a file left its directory open (fs.c:469)  *)
(*   through   unlink of a path that goes on after a regular file          *)
(*   full      a table was allocated and no block for it was left          *)
(*   rollback  sys_mkdir failed after its block was allocated              *)
(*   cwd       the working directory was removed                           *)
(*   wrap      an inode's number did not fit in a byte (inode.c:35)        *)
(***************************************************************************)
Damaged == cause \cap {"table", "stale", "through", "wrap"} # {}

Directories(d) == {0} \cup {e.no : e \in {f \in UNION {Range(EntriesIn(d, d.itab[no])) :
                     no \in {0} \cup {g.no : g \in {h \in Range(EntriesIn(d, d.itab[0])) :
                                                    h.type = "dir"}}} : f.type = "dir"}}

\* A call adds or removes the path it names and no other, and reports what
\* it did; a power failure at any write leaves the paths as they were before
\* or as they are after, directories and their last blocks included.
NamesKept ==
  ~Damaged => /\ PathsOf(disk) \in {prev, tree}
              /\ Idle => PathsOf(disk) = tree

\* Between calls memory and disk agree: bitmaps, inodes in memory, and the
\* size of a directory, by which readdir stops and rmdir tells it empty, so
\* that ls shows every name once; and going up from the working directory
\* gives the path it was entered by.
MemoryAgrees ==
  Idle /\ ~Damaged =>
    /\ mem.ibits = disk.bitmap["inode"]
    /\ "full" \notin cause => mem.bits = disk.bitmap["block"]
    /\ \A no \in Ino : mem.ino[no].cnts > 0 => mem.ino[no].inode = disk.itab[no]
    /\ \A no \in Directories(disk) :
         Len(dir_read(Now, no)) = Len(SelectSeq(EntriesIn(disk, disk.itab[no]), Used))
         /\ Len(dir_read(Now, no)) = disk.itab[no].size
    /\ \A path \in {<< >>} \cup {x[1] : x \in {y \in tree : y[2] = "dir"}} :
         LET below == {x[1] : x \in {y \in tree : Front(y[1]) = path}}
             names == buildin_ls(Now, path)
         IN /\ Range(names) = Dots \cup {Last(x) : x \in below}
            /\ Len(names) = Cardinality(Range(names))
    /\ "cwd" \notin cause => sys_getcwd(Now, cwd.no) = cwd.path

\* Blocks of a directory on the disk, table included.
BlocksOf(no) ==
  (Range(AllBlocks(disk, disk.itab[no])) \cup {disk.itab[no].sect[Direct]}) \ {0}
Linked == UNION {BlocksOf(no) : no \in Directories(disk)}

\* At every moment no block belongs to two directories, and all but the one
\* block of a call in progress are marked in the bitmap on the disk, so the
\* boot after a power failure hands out at most that one again; none lies
\* beyond the partition, but for the sector after it (fs.c:94); between calls
\* no block and no number is lost or marked without an owner.
BlocksOwned ==
  ~Damaged =>
    /\ \A m, n \in Directories(disk) : m # n => BlocksOf(m) \cap BlocksOf(n) = {}
    /\ Cardinality(Linked \ disk.bitmap["block"]) <= 1
    /\ Linked \subseteq 1 .. block_bitmap_bit_len + 1
    /\ Idle => /\ Linked \subseteq mem.bits
               /\ cause \cap {"full", "rollback"} = {} => mem.bits = Linked \cup FormatBits
               /\ Cardinality(mem.ibits) = Cardinality(tree) + 1

\* The text of a path is as good as the directories: wherever the names, "."
\* and ".." lead one after the other, the washed path leads too.
TypedPathIsWalked ==
  Idle /\ ~Damaged /\ "cwd" \notin cause =>
    \A p \in Typed :
      LET start == [no |-> IF p.abs THEN 0 ELSE cwd.no, type |-> "dir"]
          walk[k \in 0 .. Len(p.names)] ==
            IF k = 0 THEN start
            ELSE IF walk[k - 1].type # "dir" THEN Free
            ELSE search_dir_entry(Now, walk[k - 1].no, p.names[k])
          r == walk[Len(p.names)]
      IN r.type # "none" => search_file(Now, Cleared(p)).no = r.no

=============================================================================
