SPECIFICATION Spec
CONSTANTS
  t1 = t1
  t2 = t2
  t3 = t3
  t4 = t4
  NULL = NULL
  Mutex = Mutex
  barrier = barrier
  ReaderLock = ReaderLock
  WriterLock = WriterLock
  BufMutex = BufMutex
  Empty = Empty
  Full = Full
  Producer = Producer
  Consumer = Consumer
  Thread <- MCThread
  Sem = {Mutex, ReaderLock, WriterLock, BufMutex, Empty, Full}
  Lock = {Mutex, ReaderLock, BufMutex}
  Cond = {barrier, Producer, Consumer}
  Producers <- MCProducers
  Consumers <- MCConsumers
  BUF_LEN = 2
  iters <- MCIters
  Rounds = 3
  Policy <- MCPolicy
INVARIANTS NobodyPassesEarly ReadWriteExclusion ItemsAccounted
PROPERTIES SomeoneGetsIn TestsEnd
CHECK_DEADLOCK FALSE
