SPECIFICATION FairSpec
CONSTANTS
  t1 = t1
  t2 = t2
  t3 = t3
  t4 = t4
  io = io
  mx = mx
  Thread <- MCThread
  Sem <- MCSem
  InitialValue <- MCInitialValue
  DeviceSem = {io}
  MaxValue = 2
  Policy <- AllPolicies
INVARIANTS
  TypeOK
  ListsKept
  WakeupsKept
  HandlersComplete
PROPERTIES
  AtomicSteps
  UnitsAreTaken
  ReadyThreadRuns
CHECK_DEADLOCK FALSE
