SPECIFICATION FairSpec
CONSTANTS
  r1 = r1
  w1 = w1
  w2 = w2
  idle_thread = idle
  shell = r1
  ioq = ioq
  NULL = NULL
  Thread = {r1, w1, w2, idle}
  Client = {r1, w1, w2}
  Reader = {r1}
  Writer = {w1, w2}
  Sema = {ioq}
  Lock = {ioq}
  Char = {"u", "U", "backspace", "enter", "ctrl-u"}
  Data <- MCData
  Key <- MCKey
  bufsize = 3
  cmd_len = 2
  MaxCount = 3
  priority <- MCPriority
INVARIANTS
  QueueRules
  TypedLine
PROPERTIES
  FifoRefinement
  ReaderIsServed
  SleepingWriterGoesOn
