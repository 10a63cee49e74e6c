SPECIFICATION FairSpec
CONSTANTS
  main_thread = main
  init_process = init
  idle_thread = idle
  p1 = p1
  p2 = p2
  Thread = {main, init, idle, p1}
  priority <- MCPriority
INVARIANTS
  TypeOK
  NoAssertFails
  ReadyListConsistent
PROPERTY NoStarvation
