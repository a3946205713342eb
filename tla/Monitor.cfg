SPECIFICATION Spec
CONSTANTS
  t1 = t1
  t2 = t2
  t3 = t3
  t4 = t4
  NULL = NULL
  lock = lock
  Thread <- MCThread
  Sem = {lock}
  Lock = {lock}
  Cond = {notEmpty, notFull}
  Policy <- MCPolicy
INVARIANTS
  MutualExclusion
  WaitIsAtomic
PROPERTIES
  AtomicMonitor
CHECK_DEADLOCK FALSE
