SPECIFICATION Spec
CONSTANTS
  p1 = p1
  p2 = p2
  Process = {p1, p2}
  shell = p1
  Name = {n1, n2}
  Ino = {1, 2}
  Entry = {1, 2, 3}
  Slot = {3, 4, 5}
  Fd = {3, 4, 5}
  Obj = {o1, o2, o3}
  Page = {g1, g2}
  MaxCnt = 3
  MaxCalls = 6
  NULL = NULL
INVARIANTS
  PipeCounts
  DescriptorsLive
  OneWriter
  OpenInodesExist
SYMMETRY Names
CHECK_DEADLOCK FALSE
