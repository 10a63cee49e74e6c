------------------------------ MODULE FileBlocks ------------------------------
(***************************************************************************)
(* The contents of regular files: file_write, file_read, inode_release     *)
(* (fs/file.c, fs/inode.c) and the block bitmap, with a power failure      *)
(* between any two commands of the disk.                                   *)
(*                                                                         *)
(* A call is a function on a record c that collects in c.trail the         *)
(* contents the disk has after each of the call's commands.  An action     *)
(* takes the result; a crash takes any member of the trail, and memory is  *)
(* what mounting that disk gives.  One process uses the file system.       *)
(*                                                                         *)
(* A file stands for its inode number, and for its directory entry, which  *)
(* is written before (create) or removed before (unlink) the rest.  The    *)
(* byte a program writes at position p of file f is << f, p >>, so any     *)
(* byte that is out of place shows; what a block still holds when it is    *)
(* given back is no byte of any file.  Positions (fd_pos) are left to the  *)
(* reader: sys_lseek reaches each position inside the file.                *)
(***************************************************************************)
EXTENDS Integers, FiniteSetsExt

CONSTANTS File,
          Block,          \* data blocks but the root directory's, block 0
          BlockSize,      \* 512
          Direct,         \* direct blocks of an inode, 12
          Indirect,       \* entries of a table of indirect blocks, 128
          BitsPerSector,  \* bits in a sector of the block bitmap, 4096
          Counts          \* bound: bytes of one write

ASSUME BlocksAssumption ==
  /\ IsFiniteSet(File) /\ IsFiniteSet(Block) /\ Block \subseteq Nat \ {0}
  /\ {BlockSize, Direct, Indirect, BitsPerSector} \subseteq Nat \ {0}
  /\ IsFiniteSet(Counts) /\ Counts \subseteq Nat

VARIABLES mem,     \* block bitmap and open inodes
          disk,    \* block bitmap, inode table, blocks, directory entries
          halted,  \* the assertion that failed, or "no"
          full,    \* some block_bitmap_alloc has returned -1
          crashed, \* there was a power failure (bound: one)
          exposed  \* history: tables in use that the power failure made free

vars == << mem, disk, halted, full, crashed, exposed >>

MaxBlocks == Direct + Indirect
Index == 0 .. MaxBlocks - 1
Offset == 0 .. BlockSize - 1
MaxSize == BlockSize * MaxBlocks

NoBlock == 0
Sectors == [0 .. Direct -> Block \cup {NoBlock}]   \* the last is the table
Inode == [size : 0 .. MaxSize, sector : Sectors]
inode_init == [size |-> 0, sector |-> [i \in 0 .. Direct |-> NoBlock]]
Closed == [inode_init EXCEPT !.size = -1]

\* A block holds the bytes of a file or a table of blocks.
Byte == File \X (0 .. MaxSize - 1)
NoByte == << >>
Data == [is : {"data"}, at : [Offset -> Byte \cup {NoByte}]]
Table == [is : {"table"}, at : [0 .. Indirect - 1 -> Block \cup {NoBlock}]]
Blank == [is |-> "data", at |-> [j \in Offset |-> NoByte]]
ByteAt(content, j) == IF content.is = "data" THEN content.at[j] ELSE NoByte

Call == [mem |-> mem, disk |-> disk, trail |-> {}, halted |-> halted, full |-> FALSE]
Stopped(c) == c.halted # "no" \/ c.full

\* One command to the disk.
ide_write(c, d) == [c EXCEPT !.disk = d, !.trail = @ \cup {d}]

-----------------------------------------------------------------------------
(***************************************************************************)
(* The block bitmap                                                        *)
(***************************************************************************)
\* The sector of the bitmap that holds bit b.
bitmap_sync(c, b) ==
  LET sector == {x \in Block : x \div BitsPerSector = b \div BitsPerSector}
  IN ide_write(c, [c.disk EXCEPT !.bits = (@ \ sector) \cup (c.mem.bits \cap sector)])

\* The first free block.
block_bitmap_alloc(c) ==
  IF Block \subseteq c.mem.bits THEN NoBlock ELSE Min(Block \ c.mem.bits)

\* A block for position i of file f's sectors.  It must have been empty.
SetSector(c, f, i, b) ==
  IF b = NoBlock THEN [c EXCEPT !.full = TRUE]
  ELSE IF c.mem.inode[f].sector[i] # NoBlock
  THEN [c EXCEPT !.mem.bits = @ \cup {b}, !.halted = "sector in use"]
  ELSE [c EXCEPT !.mem.bits = @ \cup {b}, !.mem.inode[f].sector[i] = b]

inode_sync(c, f) ==
  ide_write(c, [c.disk EXCEPT !.inode[f] = c.mem.inode[f]])

\* The table of indirect blocks of an inode.  Where the code would take
\* something else for a table the model stops (HasNoTable).
TableOf(d, inode) == d.data[inode.sector[Direct]].at
HasNoTable(d, inode) ==
  inode.sector[Direct] = NoBlock \/ d.data[inode.sector[Direct]].is # "table"

-----------------------------------------------------------------------------
(***************************************************************************)
(* file_write.  blocks is all_blocks, the addresses the call has collected.*)
(***************************************************************************)
UsedBlocks(size) == size \div BlockSize + 1

\* A file that is written for the first time gets a block.
FirstBlock(c, f) ==
  IF c.mem.inode[f].sector[0] # NoBlock THEN c
  ELSE LET b == block_bitmap_alloc(c)
           s == SetSector(c, f, 0, b)
       IN IF Stopped(s) THEN s ELSE bitmap_sync(s, b)

\* The last block in use, or the table.
Collected(c, f, has) ==
  LET inode == c.mem.inode[f]
  IN [i \in Index |-> IF i < Direct THEN (IF i = has - 1 THEN inode.sector[i] ELSE NoBlock)
                      ELSE IF has > Direct THEN TableOf(c.disk, inode)[i - Direct]
                      ELSE NoBlock]

\* Mutant of NewTable: every write past the direct blocks makes a table.
NewTable_Always(c, f, has, will) ==
  IF has < will /\ will > Direct
  THEN SetSector(c, f, Direct, block_bitmap_alloc(c)) ELSE c

\* The table of indirect blocks, if the write is the first to need it.  Its
\* bit of the bitmap is not written to the disk here (file.c:370-379), against
\* the rule of the other allocations (file.c:354, 401): it gets there with the
\* next block of the same sector of the bitmap.
NewTable(c, f, has, will) ==
  IF has <= Direct /\ will > Direct
  THEN SetSector(c, f, Direct, block_bitmap_alloc(c)) ELSE c

\* One more block, at index i.
GrowOne(g, f, i) ==
  LET b == block_bitmap_alloc(g.c)
      s == IF i < Direct THEN SetSector(g.c, f, i, b)
           ELSE IF b = NoBlock THEN [g.c EXCEPT !.full = TRUE]
           ELSE [g.c EXCEPT !.mem.bits = @ \cup {b}]
  IN IF Stopped(g.c) THEN g
     ELSE IF Stopped(s) THEN [g EXCEPT !.c = s]
     ELSE [c |-> bitmap_sync(s, b), blocks |-> [g.blocks EXCEPT ![i] = b]]

\* The blocks for will instead of has blocks, then the table.
Grow(c, f, has, will) ==
  LET start == NewTable(c, f, has, will)
      step[i \in has - 1 .. will - 1] ==
        IF i = has - 1 THEN [c |-> start, blocks |-> Collected(c, f, has)]
        ELSE GrowOne(step[i - 1], f, i)
      grown == step[will - 1]
      table == [is |-> "table", at |-> [k \in 0 .. Indirect - 1 |-> grown.blocks[Direct + k]]]
  IN IF Stopped(grown.c) \/ has = will \/ will <= Direct THEN grown
     ELSE [grown EXCEPT !.c = ide_write(@, [@.disk EXCEPT
                           !.data[grown.c.mem.inode[f].sector[Direct]] = table])]

\* Mutant of Fill: the first block is not read before it is written.
Fill_NoRead(c, f, k, b, from, n) ==
  [is |-> "data",
   at |-> [j \in Offset |-> LET p == k * BlockSize + j
             IN IF p \in from .. from + n - 1 THEN << f, p >> ELSE NoByte]]

\* What block number k of the file has after n bytes from position from on:
\* only the first block is read from the disk, others start as zeros.
Fill(c, f, k, b, from, n) ==
  [is |-> "data",
   at |-> [j \in Offset |-> LET p == k * BlockSize + j
             IN IF p \in from .. from + n - 1 THEN << f, p >>
                ELSE IF k = from \div BlockSize THEN ByteAt(c.disk.data[b], j)
                ELSE NoByte]]

\* The data, block by block.
Append(g, f, n) ==
  LET from  == g.c.mem.inode[f].size
      first == from \div BlockSize
      last  == (from + n - 1) \div BlockSize
      step[k \in first - 1 .. last] ==
        IF k = first - 1 THEN g.c
        ELSE IF step[k - 1].halted # "no" THEN step[k - 1]
        ELSE LET b == g.blocks[k] IN
             IF b = NoBlock THEN [step[k - 1] EXCEPT !.halted = "block 0"]
             ELSE ide_write(step[k - 1], [step[k - 1].disk EXCEPT
                    !.data[b] = Fill(step[k - 1], f, k, b, from, n)])
  IN IF n = 0 THEN g.c ELSE [step[last] EXCEPT !.mem.inode[f].size = @ + n]

\* Mutant of file_write: the inode is written before the data.
file_write_InodeFirst(c, f, n) ==
  LET size  == c.mem.inode[f].size
      first == FirstBlock(c, f)
      grown == Grow(first, f, UsedBlocks(size), UsedBlocks(size + n))
      early == inode_sync([grown.c EXCEPT !.mem.inode[f].size = @ + n], f)
      done  == Append([grown EXCEPT !.c.disk = early.disk, !.c.trail = early.trail], f, n)
  IN IF size + n > MaxSize THEN c
     ELSE IF Stopped(first) THEN first
     ELSE IF UsedBlocks(size + n) > MaxBlocks THEN [first EXCEPT !.halted = "140 blocks"]
     ELSE IF Stopped(grown.c) THEN grown.c
     ELSE done

\* A failed allocation returns at once and undoes nothing.
file_write(c, f, n) ==
  LET size  == c.mem.inode[f].size
      first == FirstBlock(c, f)
      grown == Grow(first, f, UsedBlocks(size), UsedBlocks(size + n))
      done  == Append(grown, f, n)
  IN IF size + n > MaxSize THEN c
     ELSE IF Stopped(first) THEN first
     ELSE IF UsedBlocks(size + n) > MaxBlocks THEN [first EXCEPT !.halted = "140 blocks"]
     ELSE IF UsedBlocks(size) > Direct /\ HasNoTable(c.disk, c.mem.inode[f])
     THEN [first EXCEPT !.halted = "not a table"]
     ELSE IF Stopped(grown.c) THEN grown.c
     ELSE IF Stopped(done) THEN done
     ELSE inode_sync(done, f)

-----------------------------------------------------------------------------
(***************************************************************************)
(* file_read, from position pos of an open file                            *)
(***************************************************************************)
\* Direct blocks from the first to the last; the table if the last one, which
\* may be one past the data, is indirect.
ReadBlocks(inode, first, last) ==
  [i \in Index |-> IF i < Direct
                   THEN (IF i \in first .. last THEN inode.sector[i] ELSE NoBlock)
                   ELSE IF last >= Direct THEN TableOf(disk, inode)[i - Direct]
                   ELSE NoBlock]

file_read(f, pos, count) ==
  LET inode == mem.inode[f]
      size  == IF pos + count > inode.size THEN inode.size - pos ELSE count
      first == pos \div BlockSize
      last  == (pos + size) \div BlockSize
      blocks == ReadBlocks(inode, first, last)
  IN IF first >= MaxBlocks - 1 \/ last >= MaxBlocks - 1
     THEN [halted |-> "139 blocks", bytes |-> << >>]
     ELSE [halted |-> "no",
           bytes |-> [i \in 1 .. size |->
                        LET p == pos + i - 1
                        IN ByteAt(disk.data[blocks[p \div BlockSize]], p % BlockSize)]]

-----------------------------------------------------------------------------
(***************************************************************************)
(* inode_release, of a file that nobody has open                           *)
(***************************************************************************)
FreeBlock(c, b) ==
  IF b = NoBlock THEN c
  ELSE bitmap_sync([c EXCEPT !.mem.bits = @ \ {b}, !.disk.data[b] = Blank], b)

\* Mutant of inode_release: the table is not given back.
inode_release_KeepsTable(c, f) ==
  LET inode == c.disk.inode[f]
      table == inode.sector[Direct]
      BlockAt(i) == IF i < Direct THEN inode.sector[i]
                    ELSE IF table = NoBlock THEN NoBlock
                    ELSE TableOf(c.disk, inode)[i - Direct]
      step[i \in -1 .. MaxBlocks - 1] ==
        IF i = -1 THEN c ELSE FreeBlock(step[i - 1], BlockAt(i))
  IN ide_write(step[MaxBlocks - 1], [step[MaxBlocks - 1].disk EXCEPT !.inode[f] = inode_init])

\* The table, then every block, each with the bitmap; at last inode_delete.
inode_release(c, f) ==
  LET inode == c.disk.inode[f]
      table == inode.sector[Direct]
      BlockAt(i) == IF i < Direct THEN inode.sector[i]
                    ELSE IF table = NoBlock THEN NoBlock
                    ELSE TableOf(c.disk, inode)[i - Direct]
      step[i \in -1 .. MaxBlocks - 1] ==
        IF i = -1 THEN FreeBlock(c, table) ELSE FreeBlock(step[i - 1], BlockAt(i))
      freed == step[MaxBlocks - 1]
  IN IF table # NoBlock /\ HasNoTable(c.disk, inode)
     THEN [c EXCEPT !.halted = "not a table"]
     ELSE ide_write(freed, [freed.disk EXCEPT !.inode[f] = inode_init])

-----------------------------------------------------------------------------
(***************************************************************************)
(* Actions                                                                 *)
(***************************************************************************)
\* mount_partition: the bitmap is read, no inode is open.
Mounted(d) == [bits |-> d.bits, inode |-> [f \in File |-> Closed]]

Init ==
  /\ disk = [bits |-> {}, inode |-> [f \in File |-> inode_init],
             data |-> [b \in Block |-> Blank], entry |-> [f \in File |-> FALSE]]
  /\ mem = Mounted(disk)
  /\ halted = "no" /\ full = FALSE /\ crashed = FALSE /\ exposed = {}

\* The tables of files whose bit is not on the disk.
LateTables(d) ==
  {d.inode[f].sector[Direct] : f \in {g \in File : d.entry[g]}} \ (d.bits \cup {NoBlock})

\* The call c returns, or the power fails after any of its commands.
Return(c) ==
  /\ mem' = c.mem /\ disk' = c.disk /\ halted' = c.halted /\ full' = (full \/ c.full)
  /\ UNCHANGED << crashed, exposed >>
PowerFails(c) ==
  /\ ~crashed
  /\ \E d \in c.trail \cup {disk} : disk' = d /\ mem' = Mounted(d) /\ exposed' = LateTables(d)
  /\ crashed' = TRUE
  /\ UNCHANGED << halted, full >>

\* A table that the power failure made free is in use for something else.
Retaken == exposed \cap mem.bits # {}

\* A failed allocation leaves inodes behind that make later calls stop or
\* free blocks of other files, and so does a table that was taken away: what
\* happens then is not followed.
Running == halted = "no" /\ ~full /\ ~Retaken

\* The new inode is on the disk and open.
file_create(f) ==
  /\ Running /\ ~disk.entry[f]
  /\ disk' = [disk EXCEPT !.inode[f] = inode_init, !.entry[f] = TRUE]
  /\ mem' = [mem EXCEPT !.inode[f] = inode_init]
  /\ UNCHANGED << halted, full, crashed, exposed >>

inode_open(f) ==
  /\ Running /\ disk.entry[f] /\ mem.inode[f] = Closed
  /\ mem' = [mem EXCEPT !.inode[f] = disk.inode[f]]
  /\ UNCHANGED << disk, halted, full, crashed, exposed >>

inode_close(f) ==
  /\ Running /\ mem.inode[f] # Closed
  /\ mem' = [mem EXCEPT !.inode[f] = Closed]
  /\ UNCHANGED << disk, halted, full, crashed, exposed >>

sys_write(f) ==
  /\ Running /\ mem.inode[f] # Closed
  /\ \E n \in Counts :
       LET c == file_write(Call, f, n) IN Return(c) \/ PowerFails(c)

\* The directory entry goes first.
sys_unlink(f) ==
  /\ Running /\ disk.entry[f] /\ mem.inode[f] = Closed
  /\ LET removed == ide_write(Call, [disk EXCEPT !.entry[f] = FALSE])
         c == inode_release(removed, f)
     IN Return(c) \/ PowerFails(c)

Next ==
  \E f \in File : \/ file_create(f) \/ inode_open(f) \/ inode_close(f)
                  \/ sys_write(f) \/ sys_unlink(f)

Spec == Init /\ [][Next]_vars

-----------------------------------------------------------------------------
(***************************************************************************)
(* Properties                                                              *)
(***************************************************************************)
DiskTypeOK(d) ==
  /\ d.bits \subseteq Block
  /\ d.inode \in [File -> Inode]
  /\ \A b \in Block : d.data[b] \in (IF d.data[b].is = "data" THEN Data ELSE Table)
  /\ d.entry \in [File -> BOOLEAN]

TypeOK ==
  /\ mem.bits \subseteq Block /\ mem.inode \in [File -> Inode \cup {Closed}]
  /\ DiskTypeOK(disk)
  /\ {full, crashed} \subseteq BOOLEAN /\ exposed \subseteq Block
  /\ halted \in {"no", "sector in use", "140 blocks", "block 0", "not a table"}

\* Whatever part of an open file a program reads is what was written there,
\* also when blocks and inode numbers have been used before, until the table
\* of a file is Retaken.
ReadsBack ==
  ~Retaken => \A f \in File : mem.inode[f] # Closed =>
    \A pos \in 0 .. mem.inode[f].size - 1 : \A count \in 1 .. mem.inode[f].size - pos :
      LET r == file_read(f, pos, count) IN
      r.halted = "no" => r.bytes = [i \in 1 .. count |-> << f, pos + i - 1 >>]

\* The contents of a file on the disk are a prefix of what was written, at
\* any time and so after a power failure at any command of a write: what was
\* there before the write is still there.  What a call has written when it
\* returns is on the disk.  The exception is a file whose table's bit was not on
\* the disk when the power failed, from the time its table is Retaken.
CrashKeepsContents ==
  ~full /\ ~Retaken => \A f \in File : disk.entry[f] =>
    LET inode == disk.inode[f] IN
    /\ mem.inode[f] \in {inode, Closed}
    /\ inode.size > BlockSize * Direct => ~HasNoTable(disk, inode)
    /\ \A p \in 0 .. inode.size - 1 :
         LET i == p \div BlockSize
             b == IF i < Direct THEN inode.sector[i] ELSE TableOf(disk, inode)[i - Direct]
         IN b # NoBlock /\ ByteAt(disk.data[b], p % BlockSize) = << f, p >>

\* The blocks of the files on the disk, their tables, and the place of each.
Owned ==
  LET files == {f \in File : disk.entry[f]}
      place == files \X (0 .. Direct)
      more  == {f \in files : disk.inode[f].sector[Direct] # NoBlock} \X (0 .. Indirect - 1)
  IN {o \in {<< x[1], x[2], disk.inode[x[1]].sector[x[2]] >> : x \in place}
             \cup {<< x[1], Direct + 1 + x[2], TableOf(disk, disk.inode[x[1]])[x[2]] >> : x \in more}
        : o[3] # NoBlock}
OwnedBlocks == {o[3] : o \in Owned}

\* No block belongs to two files or is marked free while it is in use, in
\* memory and on the disk, also after power failures; and without a failure
\* none is lost.  The exception are tables: a table's bit may be missing on the
\* disk, and then in memory after a power failure, and the next block that is
\* allocated may be that table.
BlocksAccounted ==
  /\ TypeOK
  /\ ~full /\ ~Retaken =>
       /\ Cardinality(OwnedBlocks) = Cardinality(Owned)
       /\ OwnedBlocks \ exposed \subseteq mem.bits
       /\ OwnedBlocks \ LateTables(disk) \subseteq disk.bits
       /\ ~crashed => mem.bits = OwnedBlocks

\* No ASSERT of file_write or inode_release fails before an allocation has
\* failed or a table is Retaken, except that a file cannot reach the size
\* file_write allows.
AssertsHoldUnlessFull == ~full /\ ~Retaken => halted \in {"no", "140 blocks"}
=============================================================================
