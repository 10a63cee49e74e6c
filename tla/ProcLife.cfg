SPECIFICATION FairSpec
CONSTANTS
  main_thread = main
  init = init
  shell = shell
  idle_thread = idle
  p1 = p1
  p2 = p2
  NULL = NULL
  Thread = {main, init, shell, idle, p1, p2}
  MaxPid = 6
  priority <- MCPriority
INVARIANTS
  PidsUnique
  ParentCanReap
  NoLostExit
PROPERTIES
  ReapedByParent
  WaitReturns
