SPECIFICATION Spec
CONSTANTS
  main = main
  p1 = p1
  p2 = p2
  idle_thread = idle
  channel = channel
  console = console
  NULL = NULL
  Thread = {main, p1, idle}
  Client = {main, p1}
  Preemptible = {main}
  Sema = {console}
  Lock = {console}
  IrqLock = {console}
  MaxRepeat = 1
  priority <- MCPriority
  Uses <- MCBootUses
INVARIANT NoAssertFails
