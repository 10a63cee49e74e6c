SPECIFICATION Spec
CONSTANTS
  init = init
  p1 = p1
  p2 = p2
  kernel = kernel
  Proc = {init, p1, p2}
  KPage = {1, 2, 3, 4, 5, 6, 7, 8, 9, 10, 11, 12}
  KFrame = {21, 22, 23, 24, 25, 26, 27, 28, 29, 30, 31, 32}
  UPage = {1, 2, 3}
  UFrame = {41, 42, 43, 44}
  BitmapPages = 2
  BlocksPerArena = 2
  LargeSizes = {2}
  TlbPages = {}
SYMMETRY MCProcs
INVARIANTS
  FramesAccounted
  KernelPagesAccounted
  HeapConsistent
  IntactUnlessExhausted
CHECK_DEADLOCK FALSE
