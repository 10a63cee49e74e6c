SPECIFICATION FairSpec
CONSTANTS
  main = main
  p1 = p1
  p2 = p2
  idle_thread = idle
  NULL = NULL
  ch_lock = ch_lock
  disk_done = disk_done
  Thread = {main, p1, p2, idle}
  Process = {p1, p2}
  Sema = {ch_lock, disk_done}
  Lock = {ch_lock}
  PollDelay = {"write"}
  BootCommands <- MCBoot
  priority <- MCPriority
INVARIANTS
  NoAssertFails
  CommandsDoNotOverlap
  CompletionIsNotLost
PROPERTY RequestReturns
