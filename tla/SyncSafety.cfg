SPECIFICATION Spec
CONSTANTS
  main = main
  p1 = p1
  p2 = p2
  idle_thread = idle
  channel = channel
  console = console
  NULL = NULL
  Thread = {main, p1, p2, idle}
  Client = {main, p1, p2}
  Preemptible = {main}
  Sema = {channel, console}
  Lock = {channel, console}
  IrqLock = {console}
  MaxRepeat = 2
  priority <- MCPriority
  Uses <- MCUses
INVARIANTS
  NoAssertFails
  MutualExclusion
  GeneralTagInOneList
  NoLostWakeup
PROPERTY LockRefinement
