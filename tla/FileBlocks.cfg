SPECIFICATION Spec
CONSTANTS
  f1 = f1
  f2 = f2
  File = {f1, f2}
  Block = {1, 2, 3, 4, 5, 6}
  BlockSize = 2
  Direct = 2
  Indirect = 2
  BitsPerSector = 4
  Counts = {0, 1, 3, 5}
SYMMETRY MCFiles
INVARIANTS
  ReadsBack
  CrashKeepsContents
  BlocksAccounted
  AssertsHoldUnlessFull
CHECK_DEADLOCK FALSE
