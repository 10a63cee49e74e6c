SPECIFICATION Spec
CONSTANTS
  Name = {a, b, c}
  Typed <- MCTyped
  Made <- MCMade
  MaxIno = 6
  NoWidth = 6
  sec_cnt = 10
  inode_table_sects = 1
  BITS_PER_SECTOR = 8
  BITS_PER_BYTE = 2
  EPB = 3
  Direct = 2
  MaxCalls = 5
SYMMETRY MCSymmetry
INVARIANTS
  NamesKept
  MemoryAgrees
  BlocksOwned
  TypedPathIsWalked
  
CHECK_DEADLOCK FALSE
