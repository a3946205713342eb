SPECIFICATION FairSpec
CONSTANTS
  t1 = t1
  t2 = t2
  t3 = t3
  f1 = f1
  f2 = f2
  NULL = NULL
  readerLock = readerLock
  diskLock = diskLock
  done = done
  Thread = {t1, t2, t3}
  File = {f1, f2}
  Lock = {readerLock, diskLock}
  Sem = {f1, f2, readerLock, diskLock, done}
  Cond = {}
  MaxOps = 1
  SectorSize = 4
  FileLength = 6
  Requests <- MCRequests
  Policy <- MCPolicy
INVARIANTS OneRequestAtATime FileExclusion
PROPERTIES EveryCallReturns
CHECK_DEADLOCK FALSE
