SPECIFICATION FairSpec
CONSTANTS
  main = main
  t1 = t1
  t2 = t2
  NULL = NULL
  threadLock = threadLock
  Thread = {main, t1, t2}
  Sem = {threadLock}
  Lock = {threadLock}
  Cond = {}
  MAX_THREAD_NUM = 3
  ExitStatus = {0, 1}
  Policy <- AllPolicies
INVARIANTS
  UniqueTIDs
  NoDoubleDelete
  NoUseAfterDelete
  JoinReturnsStatus
PROPERTIES
  JoinReturnsWithoutTimer
CHECK_DEADLOCK FALSE
