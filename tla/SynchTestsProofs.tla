--------------------------- MODULE SynchTestsProofs ---------------------------
(***************************************************************************)
(* Proofs about the programs of SynchTests, for every number of threads    *)
(* and under every policy, priorities included: nobody passes the barrier  *)
(* early, a writer under the ReadWriteLock is alone, and the buffers lose  *)
(* no item and hand none out twice.                                        *)
(***************************************************************************)
EXTENDS SynchTests, SemaphoreProofs

BarrierPlace ==
  {"outside", "acquire", "count", "broadcast", "wait", "waitRelease", "sleep", "reacquire",
   "leave", "leaving"}
ReadWritePlace ==
  {"outside", "rAcquire", "rCount", "rFirst", "rRelease", "rReleasing", "reading", "uAcquire",
   "uCount", "uLast", "uLastV", "uRelease", "uReleasing", "wAcquire", "writing", "wRelease"}
BufferPlace ==
  {"outside", "bGate", "bLock", "bLocking", "bTest", "bWaitRelease", "bSleep", "bSignal",
   "bRelease", "bReleasing", "bGive", "bGiving", "bEnd"}
-----------------------------------------------------------------------------
(***************************************************************************)
(* The barrier.  Who has the unit of Mutex; who may only be running; and   *)
(* who sleeps, on which queue.                                             *)
(***************************************************************************)
HasMutex(p) == p \in {"count", "broadcast", "wait", "waitRelease", "leave", "leaving"}

MutexUnit == OneUnit(value[Mutex], {t \in Thread : HasMutex(pc[t])})

\* Between its Release and its Sleep a thread in Wait keeps the processor.
SleepIsNext ==
  \A t \in Thread : pc[t] = "sleep" => t = currentThread /\ value[Mutex] # 0

Sleepers == Range(waitQueue[barrier])

Parked ==
  /\ IsInjective(queue[Mutex]) /\ IsInjective(waitQueue[barrier])
  /\ \A t \in Range(queue[Mutex]) : status[t] = "BLOCKED" /\ pc[t] \in {"acquire", "reacquire"}
  /\ \A t \in Sleepers : status[t] = "BLOCKED" /\ pc[t] = "reacquire"
  /\ Range(queue[Mutex]) \cap Sleepers = {}

\* The threads that the present round has counted, and that have to wait for
\* others; and whether the last one has come and is waking them.
Waiting == {t \in Thread : pc[t] \in {"wait", "waitRelease", "sleep"} \/ t \in Sleepers}
Released(t) == pc[t] \in {"leave", "leaving"} \/ (pc[t] = "reacquire" /\ t \notin Sleepers)
Opening == \E t \in Thread : pc[t] = "broadcast"

\* Everyone has come to r rounds and r of them are over: who is to leave the
\* r-th is behind, who has come to the next is ahead.
RoundIs(r) ==
  \A t \in Thread :
    /\ pc[t] = "outside" => passed[t] = r /\ arrived[t] = r
    /\ pc[t] \in {"acquire", "count", "broadcast"} \/ t \in Waiting =>
         passed[t] = r /\ arrived[t] = r + 1
    /\ Released(t) => /\ arrived[t] = passed[t] + 1
                      /\ passed[t] + 1 = IF Opening THEN r + 1 ELSE r

CountsLeft ==
  IF Opening THEN num_left = 0 /\ \A t \in Thread : pc[t] \in {"broadcast", "reacquire"}
  ELSE num_left \in Nat \ {0} /\ num_left + Cardinality(Waiting) = num_threads

\* What does not depend on the rounds.
QueuesInv ==
  /\ SchedTypeOK /\ SemTypeOK(BarrierPlace) /\ waitQueue \in [Cond -> Seq(Thread)]
  /\ Dispatch /\ MutexUnit /\ SleepIsNext /\ Parked

BarrierInv ==
  /\ QueuesInv
  /\ arrived \in [Thread -> Nat] /\ passed \in [Thread -> Nat]
  /\ CountsLeft
  /\ \E r \in Nat : RoundIs(r)
-----------------------------------------------------------------------------
(***************************************************************************)
(* The ReadWriteLock.  Who has the unit of ReaderLock, who is counted as a *)
(* reader, who has a share in the readers' unit of WriterLock, who has     *)
(* that unit as a writer.                                                  *)
(***************************************************************************)
HasReaderLock(p) ==
  p \in {"rCount", "rFirst", "rRelease", "rReleasing", "uCount", "uLast", "uLastV", "uRelease",
         "uReleasing"}
IsReader(p) == p \in {"rFirst", "rRelease", "rReleasing", "reading", "uAcquire", "uCount"}
Shares(p)   == p \in {"rRelease", "rReleasing", "reading", "uAcquire", "uCount", "uLast", "uLastV"}
Writes(p)   == p \in {"writing", "wRelease"}

Readers == {t \in Thread : IsReader(pc[t])}

ReaderUnit == OneUnit(value[ReaderLock], {t \in Thread : HasReaderLock(pc[t])})

CountRight ==
  /\ ReaderCnt = Cardinality(Readers)
  /\ \A t \in Thread : pc[t] = "rFirst" => Readers = {t}
  /\ \A t \in Thread : pc[t] \in {"uLast", "uLastV"} => Readers = {}

WriterUnit ==
  /\ OneUnit(value[WriterLock], {t \in Thread : Writes(pc[t])})
  /\ \A t \in Thread : Shares(pc[t]) =>
       value[WriterLock] = 0 /\ \A u \in Thread : ~Writes(pc[u])

ReadWriteTypeOK == SchedTypeOK /\ SemTypeOK(ReadWritePlace) /\ ReaderCnt \in Nat

ReadWriteInv == ReadWriteTypeOK /\ ReaderUnit /\ CountRight /\ WriterUnit
-----------------------------------------------------------------------------
(***************************************************************************)
(* The buffers.  Of a Buffer the values of Empty and Full, the threads     *)
(* between their P and their access, those between their access and their  *)
(* V, and the items add up.                                                *)
(***************************************************************************)
Before == {"bLock", "bLocking", "bTest"}
After  == {"bRelease", "bReleasing", "bGive", "bGiving"}

\* The places of the threads that share a Buffer.
GatePlace == {"outside", "bGate", "bEnd"} \cup Before \cup After

\* The places after the access in a turn.
Accessed(p) == p \in {"bSignal", "bEnd"} \cup After

AtPlaces(threads, places) == {t \in threads : pc[t] \in places}

Slots ==
  value[Empty] + Cardinality(AtPlaces(Producers, Before))
    + Cardinality(AtPlaces(Consumers, After)) + count = BUF_LEN
Items ==
  value[Full] + Cardinality(AtPlaces(Consumers, Before))
    + Cardinality(AtPlaces(Producers, After)) = count

Filled ==
  /\ program = "Buffer" => (\A t \in Thread : pc[t] \in GatePlace) /\ Slots /\ Items
  /\ program = "BufferCnd" => count <= BUF_LEN
  /\ program = "SynchList" => count = Len(list)

QueueTypes == SchedTypeOK /\ SemTypeOK(BufferPlace) /\ waitQueue \in [Cond -> Seq(Thread)]

BufferTypeOK ==
  /\ QueueTypes
  /\ list \in Seq(Producers \X Nat)
  /\ count \in Nat /\ count <= Len(list)
  /\ done \in [Thread -> Nat]
  /\ IsFiniteSet(taken) /\ IsFiniteSet(AccessesOf(Consumers))

\* ItemsAccounted, by the indices of the items.
Stored == {list[i] : i \in 1..count}

Accounted ==
  /\ \A i, j \in 1..count : list[i] = list[j] => i = j
  /\ Stored \cup taken = Produced
  /\ Stored \cap taken = {}
  /\ Cardinality(taken) = Cardinality(AccessesOf(Consumers))

InOrder ==
  program = "SynchList" =>
    /\ \A i \in 1..count : \A x \in taken : x[1] = list[i][1] => x[2] < list[i][2]
    /\ \A i, j \in 1..count : j < i /\ list[j][1] = list[i][1] => list[j][2] < list[i][2]

BufferInv == program \in Kinds /\ BufferTypeOK /\ Filled /\ Accounted /\ InOrder

\* What the lists are in a program that has none.
NoItems == list = <<>> /\ count = 0 /\ taken = {} /\ \A t \in Thread : done[t] = 0
-----------------------------------------------------------------------------
\* One program runs; the variables of the others stay as they were.
TestsInv ==
  /\ program = "barrier" => BarrierInv
  /\ program # "barrier" => \A t \in Thread : passed[t] = 0 /\ arrived[t] = 0
  /\ program = "readwrite" => ReadWriteInv
  /\ program \in Kinds => BufferInv
  /\ program \notin Kinds => NoItems
  /\ ThreadTest
-----------------------------------------------------------------------------
(***************************************************************************)
(* The queues of the barrier.                                              *)
(***************************************************************************)

\* Mutex is a semaphore and barrier a condition.
LEMMA BarrierObjects == Mutex \in Sem /\ barrier \in Cond
BY MonitorAssumption, BarrierAssumption

\* A thread that runs is in no queue.
LEMMA Running ==
  ASSUME QueuesInv, ~idle
  PROVE  /\ currentThread \in Thread /\ pc \in [Thread -> BarrierPlace] /\ value \in [Sem -> Nat]
         /\ queue[Mutex] \in Seq(Thread) /\ waitQueue[barrier] \in Seq(Thread)
         /\ currentThread \notin Range(queue[Mutex]) /\ currentThread \notin Sleepers
         /\ status[currentThread] # "BLOCKED"
         /\ \A t \in Thread : pc[t] = "sleep" => t = currentThread
         /\ \A t \in Range(queue[Mutex]) \cup Sleepers : t \in Thread
<1>1. /\ currentThread \in Thread /\ status[currentThread] = "RUNNING"
      /\ queue[Mutex] \in Seq(Thread) /\ waitQueue[barrier] \in Seq(Thread)
  BY BarrierObjects DEF QueuesInv, SchedTypeOK, SemTypeOK, Dispatch
<1>2. \A t \in Range(queue[Mutex]) \cup Sleepers : t \in Thread
  BY <1>1, RangeElements, ElementOfSeq DEF Sleepers
<1> QED
  BY <1>1, <1>2 DEF QueuesInv, SemTypeOK, Parked, SleepIsNext

\* currentThread moves to place p.
MovesTo(p) == \A t \in Thread : pc'[t] = IF t = currentThread THEN p ELSE pc[t]

\* The unit of Mutex stays, is taken, or is given back.
LEMMA MutexMoves ==
  ASSUME QueuesInv, ~idle, NEW p, MovesTo(p),
         \/ /\ value'[Mutex] = value[Mutex]
            /\ HasMutex(p) <=> HasMutex(pc[currentThread])
         \/ /\ value[Mutex] # 0 /\ value'[Mutex] = value[Mutex] - 1
            /\ HasMutex(p)
         \/ /\ value'[Mutex] = value[Mutex] + 1
            /\ HasMutex(pc[currentThread]) /\ ~HasMutex(p)
  PROVE  MutexUnit'
<1> DEFINE H == {t \in Thread : HasMutex(pc[t])}
           c == currentThread
<1>1. c \in Thread
  BY Running
<1>2. {t \in Thread : HasMutex(pc'[t])} = IF HasMutex(p) THEN H \cup {c} ELSE H \ {c}
  BY <1>1 DEF MovesTo
<1>3. OneUnit(value[Mutex], H) /\ (c \in H <=> HasMutex(pc[c]))
  BY <1>1 DEF QueuesInv, MutexUnit
<1> HIDE DEF H, c
<1>4. OneUnit(value'[Mutex], IF HasMutex(p) THEN H \cup {c} ELSE H \ {c})
  <2>1. CASE value'[Mutex] = value[Mutex] /\ (HasMutex(p) <=> c \in H)
    <3>1. (IF HasMutex(p) THEN H \cup {c} ELSE H \ {c}) = H
      BY <2>1
    <3> QED
      BY <1>3, <2>1, <3>1
  <2>2. CASE value[Mutex] # 0 /\ value'[Mutex] = value[Mutex] - 1 /\ HasMutex(p)
    BY <1>3, <2>2, UnitTaken
  <2>3. CASE value'[Mutex] = value[Mutex] + 1 /\ c \in H /\ ~HasMutex(p)
    BY <1>3, <2>3, UnitGiven
  <2> QED
    BY <1>3, <2>1, <2>2, <2>3 DEF c
<1> QED
  BY <1>2, <1>4 DEF MutexUnit

\* A turn of Acquire, from outside, from acquire or from reacquire.
LEMMA AcquireQueues ==
  ASSUME QueuesInv, ~idle, ~HasMutex(pc[currentThread]), pc[currentThread] # "sleep",
         NEW wait \in {"acquire", "reacquire"}, NEW next \in {"count", "leave"},
         Acquire(Mutex, wait, next)
  PROVE  /\ QueuesInv' /\ waitQueue' = waitQueue
         /\ MovesTo(wait) \/ (MovesTo(next) /\ value[Mutex] # 0)
<1> DEFINE c == currentThread
<1>0. /\ c \in Thread /\ pc \in [Thread -> BarrierPlace] /\ value \in [Sem -> Nat]
      /\ queue[Mutex] \in Seq(Thread) /\ Mutex \in Sem /\ queue \in [Sem -> Seq(Thread)]
      /\ c \notin Range(queue[Mutex]) /\ c \notin Sleepers
      /\ \A t \in Thread : pc[t] # "sleep"
      /\ \A t \in Range(queue[Mutex]) \cup Sleepers : t \in Thread
  BY Running, BarrierObjects DEF QueuesInv, SemTypeOK
<1>1. P(Mutex, wait, next) /\ waitQueue' = waitQueue
  BY DEF Acquire
<1>2. SchedTypeOK' /\ SemTypeOK(BarrierPlace)' /\ waitQueue' \in [Cond -> Seq(Thread)]
  <2>1. wait \in BarrierPlace /\ next \in BarrierPlace
    BY DEF BarrierPlace
  <2> QED
    BY <1>0, <1>1, <2>1, TypeP DEF QueuesInv
<1>3. CASE value[Mutex] = 0
  <2>1. /\ queue' = [queue EXCEPT ![Mutex] = Append(queue[Mutex], c)]
        /\ pc' = [pc EXCEPT ![c] = wait] /\ Sleep /\ value' = value
    BY <1>1, <1>3 DEF P, Goto
  <2>2. /\ Dispatch'
        /\ \A t \in Thread : status'[t] = "BLOCKED" <=> status[t] = "BLOCKED" \/ t = c
    BY <2>1, SleepBlocks DEF QueuesInv
  <2>3. MovesTo(wait)
    BY <1>0, <2>1 DEF MovesTo
  <2>4. IsInjective(queue'[Mutex]) /\ Range(queue'[Mutex]) = Range(queue[Mutex]) \cup {c}
    <3>1. queue'[Mutex] = Append(queue[Mutex], c)
      BY <1>0, <2>1
    <3> QED
      BY <1>0, <3>1, AppendOnce DEF QueuesInv, Parked
  <2>5. Sleepers' = Sleepers /\ IsInjective(waitQueue'[barrier])
    BY <1>1 DEF Sleepers, QueuesInv, Parked
  <2>6. Parked'
    BY <1>0, <2>2, <2>3, <2>4, <2>5 DEF QueuesInv, Parked, MovesTo
  <2>7. MutexUnit'
    BY <2>1, <2>3, MutexMoves DEF HasMutex
  <2>8. SleepIsNext'
    BY <1>0, <2>3 DEF SleepIsNext, MovesTo
  <2> QED
    BY <1>1, <1>2, <2>2, <2>3, <2>6, <2>7, <2>8 DEF QueuesInv
<1>4. CASE value[Mutex] # 0
  <2>1. /\ value' = [value EXCEPT ![Mutex] = value[Mutex] - 1]
        /\ pc' = [pc EXCEPT ![c] = next]
        /\ UNCHANGED <<queue, policy, currentThread, status, readyList, idle>>
    BY <1>1, <1>4 DEF P, Goto, schedVars
  <2>2. MovesTo(next) /\ value'[Mutex] = value[Mutex] - 1
    BY <1>0, <2>1 DEF MovesTo
  <2>3. MutexUnit'
    BY <1>4, <2>2, MutexMoves DEF HasMutex
  <2>4. SleepIsNext' /\ Dispatch'
    BY <1>0, <2>1, <2>2 DEF SleepIsNext, MovesTo, QueuesInv, Dispatch
  <2>5. Parked'
    BY <1>0, <1>1, <2>1, <2>2 DEF QueuesInv, Parked, MovesTo, Sleepers
  <2> QED
    BY <1>1, <1>2, <1>4, <2>2, <2>3, <2>4, <2>5 DEF QueuesInv
<1> QED
  BY <1>3, <1>4

\* V on Mutex takes its first waiter, if any, off the queue.
LEMMA VQueues ==
  ASSUME QueuesInv, ~idle, HasMutex(pc[currentThread]),
         NEW mid \in {"waitRelease", "leaving"}, NEW next \in {"sleep", "outside"},
         V(Mutex, mid, next), waitQueue' = waitQueue
  PROVE  /\ QueuesInv'
         /\ \/ MovesTo(mid) /\ value' = value
            \/ MovesTo(next)
<1> DEFINE c == currentThread
           q == queue[Mutex]
<1>0. /\ c \in Thread /\ pc \in [Thread -> BarrierPlace] /\ value \in [Sem -> Nat]
      /\ q \in Seq(Thread) /\ Mutex \in Sem /\ queue \in [Sem -> Seq(Thread)]
      /\ c \notin Range(q) /\ c \notin Sleepers
      /\ \A t \in Range(q) \cup Sleepers : t \in Thread
  BY Running, BarrierObjects DEF QueuesInv, SemTypeOK
<1>1. \A t \in Thread : pc[t] # "sleep"
  BY <1>0, Running DEF HasMutex
<1>2. SchedTypeOK' /\ SemTypeOK(BarrierPlace)' /\ waitQueue' \in [Cond -> Seq(Thread)]
  <2>1. mid \in BarrierPlace /\ next \in BarrierPlace
    BY DEF BarrierPlace
  <2> QED
    BY <1>0, <2>1, TypeV DEF QueuesInv
<1>3. value[Mutex] = 0
  BY <1>0 DEF QueuesInv, MutexUnit, OneUnit
<1>4. \/ /\ value' = [value EXCEPT ![Mutex] = value[Mutex] + 1]
         /\ pc' = [pc EXCEPT ![c] = next] /\ currentThread' = c
      \/ value' = value /\ pc' = [pc EXCEPT ![c] = mid]
  BY <1>0, EffectV
<1>5. \/ MovesTo(mid) /\ value' = value
      \/ MovesTo(next) /\ value'[Mutex] = value[Mutex] + 1 /\ currentThread' = c
  BY <1>0, <1>4 DEF MovesTo
<1>6. MutexUnit'
  BY <1>5, MutexMoves DEF HasMutex
<1>7. SleepIsNext'
  BY <1>1, <1>3, <1>5 DEF SleepIsNext, MovesTo
<1>8. PICK p \in {mid, next} : MovesTo(p)
  BY <1>5
<1>9. CASE q = <<>>
  <2>1. UNCHANGED <<queue, policy, currentThread, status, readyList, idle>>
    BY <1>9 DEF V, schedVars
  <2>2. Dispatch'
    BY <2>1 DEF QueuesInv, Dispatch
  <2>3. Parked'
    BY <1>0, <1>8, <2>1 DEF QueuesInv, Parked, MovesTo, Sleepers
  <2> QED
    BY <1>2, <1>5, <1>6, <1>7, <2>2, <2>3 DEF QueuesInv
<1>10. CASE q # <<>>
  <2> DEFINE h == Head(q)
  <2>1. MakeReady(h) \/ MakeReadyAndYield(h)
    BY <1>10 DEF V
  <2>2. /\ queue' = [queue EXCEPT ![Mutex] = Tail(q)] 
        /\ h \in Thread /\ h \in Range(q) /\ IsInjective(Tail(q)) /\ Range(Tail(q)) = Range(q) \ {h}
    BY <1>0, <1>10, TailOfInjective DEF V, QueuesInv, Parked
  <2>3. queue'[Mutex] = Tail(q)
    BY <1>0, <2>2
  <2>4. status[h] = "BLOCKED" /\ h \notin Sleepers
    BY <2>2 DEF QueuesInv, Parked
  <2> HIDE DEF h
  <2>5. /\ Dispatch'
        /\ \A t \in Thread : status'[t] = "BLOCKED" <=> status[t] = "BLOCKED" /\ t # h
    BY <2>1, <2>2, <2>4, ReadyUnblocks DEF QueuesInv
  <2>6. Sleepers' = Sleepers /\ IsInjective(waitQueue'[barrier])
    BY DEF Sleepers, QueuesInv, Parked
  <2>7. Range(queue'[Mutex]) = Range(q) \ {h} /\ IsInjective(queue'[Mutex])
    BY <2>2, <2>3
  <2>8. Parked'
    <3>1. \A t \in Range(q) \ {h} : status'[t] = "BLOCKED" /\ pc'[t] \in {"acquire", "reacquire"}
      BY <1>0, <1>8, <2>5 DEF QueuesInv, Parked, MovesTo
    <3>2. \A t \in Sleepers : status'[t] = "BLOCKED" /\ pc'[t] = "reacquire"
      BY <1>0, <1>8, <2>4, <2>5 DEF QueuesInv, Parked, MovesTo
    <3>3. Range(q) \cap Sleepers = {}
      BY DEF QueuesInv, Parked
    <3> QED
      BY <2>6, <2>7, <3>1, <3>2, <3>3 DEF Parked
  <2> QED
    BY <1>2, <1>5, <1>6, <1>7, <2>5, <2>8 DEF QueuesInv
<1> QED
  BY <1>9, <1>10

\* The late increment of a V that has yielded.
LEMMA FinishQueues ==
  ASSUME QueuesInv, ~idle, HasMutex(pc[currentThread]), NEW next \in {"sleep", "outside"},
         FinishRelease(Mutex, next)
  PROVE  QueuesInv' /\ waitQueue' = waitQueue /\ MovesTo(next)
<1>0. /\ currentThread \in Thread /\ pc \in [Thread -> BarrierPlace] /\ value \in [Sem -> Nat]
      /\ Mutex \in Sem
      /\ currentThread \notin Range(queue[Mutex]) /\ currentThread \notin Sleepers
      /\ \A t \in Range(queue[Mutex]) \cup Sleepers : t \in Thread
      /\ \A t \in Thread : pc[t] # "sleep"
      /\ value[Mutex] = 0
  BY Running, BarrierObjects DEF HasMutex, QueuesInv, MutexUnit, OneUnit
<1>1. /\ value' = [value EXCEPT ![Mutex] = value[Mutex] + 1]
      /\ pc' = [pc EXCEPT ![currentThread] = next]
      /\ UNCHANGED <<queue, policy, currentThread, status, readyList, idle, waitQueue>>
  BY DEF FinishRelease, Increment, Goto, schedVars, monVars
<1>2. MovesTo(next) /\ value'[Mutex] = value[Mutex] + 1
  BY <1>0, <1>1 DEF MovesTo
<1>3. SchedTypeOK' /\ SemTypeOK(BarrierPlace)' /\ waitQueue' \in [Cond -> Seq(Thread)]
  BY <1>0, <1>1 DEF QueuesInv, SchedTypeOK, SemTypeOK, BarrierPlace
<1>4. MutexUnit'
  BY <1>2, MutexMoves DEF HasMutex
<1>5. SleepIsNext' /\ Dispatch'
  BY <1>0, <1>1, <1>2 DEF SleepIsNext, MovesTo, QueuesInv, Dispatch
<1>6. Parked'
  BY <1>0, <1>1, <1>2 DEF QueuesInv, Parked, MovesTo, Sleepers
<1> QED
  BY <1>1, <1>2, <1>3, <1>4, <1>5, <1>6 DEF QueuesInv

\* Wait puts its caller to sleep on the condition.
LEMMA SleepOnQueues ==
  ASSUME QueuesInv, ~idle, pc[currentThread] = "sleep", SleepOn(barrier, "reacquire")
  PROVE  QueuesInv' /\ MovesTo("reacquire") /\ Sleepers' = Sleepers \cup {currentThread}
<1> DEFINE c == currentThread
<1>0. /\ c \in Thread /\ pc \in [Thread -> BarrierPlace] /\ waitQueue[barrier] \in Seq(Thread)
      /\ barrier \in Cond /\ waitQueue \in [Cond -> Seq(Thread)]
      /\ c \notin Range(queue[Mutex]) /\ c \notin Sleepers
      /\ \A t \in Thread : pc[t] = "sleep" => t = c
      /\ \A t \in Range(queue[Mutex]) \cup Sleepers : t \in Thread
  BY Running, BarrierObjects DEF QueuesInv
<1>1. /\ waitQueue' = [waitQueue EXCEPT ![barrier] = Append(waitQueue[barrier], c)]
      /\ pc' = [pc EXCEPT ![c] = "reacquire"] /\ Sleep /\ value' = value /\ queue' = queue
  BY DEF SleepOn, Goto
<1>2. /\ Dispatch' /\ SchedTypeOK'
      /\ \A t \in Thread : status'[t] = "BLOCKED" <=> status[t] = "BLOCKED" \/ t = c
  BY <1>1, SleepBlocks, TypeSleep DEF QueuesInv
<1>3. MovesTo("reacquire")
  BY <1>0, <1>1 DEF MovesTo
<1>4. /\ waitQueue'[barrier] = Append(waitQueue[barrier], c)
      /\ waitQueue' \in [Cond -> Seq(Thread)]
  <2>1. Append(waitQueue[barrier], c) \in Seq(Thread)
    BY <1>0, AppendProperties
  <2> QED
    BY <1>0, <1>1, <2>1
<1>5. Sleepers' = Sleepers \cup {c} /\ IsInjective(waitQueue'[barrier])
  BY <1>0, <1>4, AppendOnce DEF QueuesInv, Parked, Sleepers
<1>6. SemTypeOK(BarrierPlace)'
  BY <1>0, <1>1 DEF QueuesInv, SemTypeOK, BarrierPlace
<1>7. MutexUnit'
  BY <1>1, <1>3, MutexMoves DEF HasMutex
<1>8. SleepIsNext'
  BY <1>0, <1>3 DEF SleepIsNext, MovesTo
<1>9. Parked'
  BY <1>0, <1>1, <1>2, <1>3, <1>5 DEF QueuesInv, Parked, MovesTo
<1> QED
  BY <1>2, <1>3, <1>4, <1>5, <1>6, <1>7, <1>8, <1>9 DEF QueuesInv

\* Broadcast wakes the first sleeper.
LEMMA WakeQueues ==
  ASSUME QueuesInv, ~idle, pc[currentThread] = "broadcast", WakeFirst(barrier, "broadcast")
  PROVE  /\ QueuesInv' /\ pc' = pc
         /\ \E h \in Sleepers : Sleepers' = Sleepers \ {h}
<1> DEFINE c == currentThread
           w == waitQueue[barrier]
           h == Head(w)
<1>0. /\ c \in Thread /\ pc \in [Thread -> BarrierPlace] /\ w \in Seq(Thread)
      /\ barrier \in Cond /\ waitQueue \in [Cond -> Seq(Thread)]
      /\ c \notin Range(queue[Mutex]) /\ c \notin Sleepers
      /\ \A t \in Thread : pc[t] # "sleep"
      /\ \A t \in Range(queue[Mutex]) \cup Sleepers : t \in Thread
  BY Running, BarrierObjects DEF QueuesInv
<1>1. /\ w # <<>> /\ waitQueue' = [waitQueue EXCEPT ![barrier] = Tail(w)]
      /\ pc' = [pc EXCEPT ![c] = "broadcast"]
      /\ MakeReady(h) \/ MakeReadyAndYield(h)
      /\ value' = value /\ queue' = queue
  BY DEF WakeFirst, Goto
<1>2. pc' = pc /\ MovesTo("broadcast")
  BY <1>0, <1>1 DEF MovesTo
<1>3. /\ h \in Thread /\ h \in Sleepers /\ Tail(w) \in Seq(Thread) /\ IsInjective(Tail(w))
      /\ Range(Tail(w)) = Sleepers \ {h}
  BY <1>0, <1>1, TailOfInjective DEF QueuesInv, Parked, Sleepers
<1>4. /\ Sleepers' = Sleepers \ {h} /\ IsInjective(waitQueue'[barrier])
      /\ waitQueue' \in [Cond -> Seq(Thread)]
  <2>1. waitQueue'[barrier] = Tail(w)
    BY <1>0, <1>1
  <2> QED
    BY <1>0, <1>1, <1>3, <2>1 DEF Sleepers
<1>5. status[h] = "BLOCKED" /\ h \notin Range(queue[Mutex])
  BY <1>3 DEF QueuesInv, Parked
<1> HIDE DEF h
<1>6. /\ Dispatch' /\ SchedTypeOK'
      /\ \A t \in Thread : status'[t] = "BLOCKED" <=> status[t] = "BLOCKED" /\ t # h
  BY <1>1, <1>3, <1>5, ReadyUnblocks, TypeMakeReady DEF QueuesInv
<1>7. SemTypeOK(BarrierPlace)'
  BY <1>1, <1>2 DEF QueuesInv, SemTypeOK
<1>8. MutexUnit'
  BY <1>1, <1>2 DEF QueuesInv, MutexUnit
<1>9. SleepIsNext'
  BY <1>0, <1>2 DEF SleepIsNext
<1>10. Parked'
  BY <1>0, <1>1, <1>2, <1>4, <1>5, <1>6 DEF QueuesInv, Parked
<1> QED
  BY <1>2, <1>3, <1>4, <1>6, <1>7, <1>8, <1>9, <1>10 DEF QueuesInv

\* A step between two calls, with the unit of Mutex.
LEMMA StepQueues ==
  ASSUME QueuesInv, ~idle, NEW from, HasMutex(from), NEW to \in {"broadcast", "wait", "leave"},
         Step(from, to)
  PROVE  QueuesInv' /\ MovesTo(to) /\ waitQueue' = waitQueue
<1>0. /\ currentThread \in Thread /\ pc \in [Thread -> BarrierPlace]
      /\ currentThread \notin Range(queue[Mutex]) /\ currentThread \notin Sleepers
      /\ \A t \in Thread : pc[t] = "sleep" => t = currentThread
      /\ \A t \in Range(queue[Mutex]) \cup Sleepers : t \in Thread
  BY Running
<1>1. /\ pc[currentThread] = from /\ pc' = [pc EXCEPT ![currentThread] = to]
      /\ UNCHANGED <<value, queue, policy, currentThread, status, readyList, idle, waitQueue>>
  BY DEF Step, Goto, schedVars, monVars
<1>2. MovesTo(to)
  BY <1>0, <1>1 DEF MovesTo
<1>3. SchedTypeOK' /\ SemTypeOK(BarrierPlace)' /\ waitQueue' \in [Cond -> Seq(Thread)]
  BY <1>0, <1>1 DEF QueuesInv, SchedTypeOK, SemTypeOK, BarrierPlace
<1>4. MutexUnit'
  BY <1>1, <1>2, MutexMoves DEF HasMutex
<1>5. SleepIsNext' /\ Dispatch'
  BY <1>0, <1>1, <1>2 DEF SleepIsNext, MovesTo, QueuesInv, Dispatch
<1>6. Parked'
  BY <1>0, <1>1, <1>2 DEF QueuesInv, Parked, MovesTo, Sleepers
<1> QED
  BY <1>1, <1>2, <1>3, <1>4, <1>5, <1>6 DEF QueuesInv

\* The timer never takes the processor inside ArriveAndWait.
LEMMA YieldQueues ==
  ASSUME QueuesInv, ~idle, pc[currentThread] = "outside", readyList # <<>>,
         YieldFrom(readyList, status), UNCHANGED <<semVars, monVars>>
  PROVE  QueuesInv'
<1>0. /\ value' = value /\ queue' = queue /\ pc' = pc /\ waitQueue' = waitQueue
      /\ readyList \in Seq(Thread) /\ status \in [Thread -> ThreadStatus]
      /\ \A t \in Thread : pc[t] # "sleep"
      /\ \A t \in Range(queue[Mutex]) \cup Sleepers : t \in Thread
  BY Running DEF semVars, monVars, QueuesInv, SchedTypeOK
<1>1. SchedTypeOK'
  BY <1>0, TypeYield DEF QueuesInv
<1>2. Dispatch' /\ \A t \in Thread : status'[t] = "BLOCKED" <=> status[t] = "BLOCKED"
  BY <1>0, YieldDispatches DEF QueuesInv, Dispatch
<1>3. Parked'
  BY <1>0, <1>2 DEF QueuesInv, Parked, Sleepers
<1> QED
  BY <1>0, <1>1, <1>2, <1>3 DEF QueuesInv, SemTypeOK, MutexUnit, SleepIsNext
-----------------------------------------------------------------------------
(***************************************************************************)
(* The rounds of the barrier.                                              *)
(***************************************************************************)

\* While the barrier opens all others are behind it, one of them with Mutex.
LEMMA WhileOpening ==
  ASSUME BarrierInv, ~idle, Opening
  PROVE  pc[currentThread] \in {"broadcast", "reacquire"} /\ value[Mutex] = 0
<1>1. \A t \in Thread : pc[t] \in {"broadcast", "reacquire"}
  BY DEF BarrierInv, CountsLeft
<1>2. \E t \in Thread : HasMutex(pc[t])
  BY DEF Opening, HasMutex
<1> QED
  BY <1>1, <1>2, Running DEF BarrierInv, QueuesInv, MutexUnit, OneUnit

\* A step that changes no counter, and for nobody what the counters should be.
LEMMA RoundStays ==
  ASSUME BarrierInv, QueuesInv', UNCHANGED <<num_left, arrived, passed>>,
         \A t \in Thread :
           /\ pc'[t] = "outside" => pc[t] = "outside"
           /\ pc'[t] \in {"acquire", "count", "broadcast"} => pc[t] \in {"acquire", "count", "broadcast"}
           /\ t \in Waiting' <=> t \in Waiting
           /\ Released(t)' => Released(t)
           /\ pc'[t] = "broadcast" <=> pc[t] = "broadcast"
           /\ Opening => pc'[t] = pc[t]
  PROVE  BarrierInv'
<1>1. (Opening' <=> Opening)
  BY DEF Opening
<1>2. Waiting' = Waiting
  BY DEF Waiting
<1>3. CountsLeft'
  BY <1>1, <1>2 DEF BarrierInv, CountsLeft, num_threads
<1>4. PICK r \in Nat : RoundIs(r)
  BY DEF BarrierInv
<1>5. RoundIs(r)'
  BY <1>1, <1>4 DEF RoundIs
<1> QED
  BY <1>3, <1>5 DEF BarrierInv

\* A move of currentThread inside Acquire or inside Wait, to a place like its own.
LEMMA MoveKeepsRound ==
  ASSUME BarrierInv, ~idle, QueuesInv', UNCHANGED <<num_left, arrived, passed>>,
         NEW p, MovesTo(p), Sleepers' = Sleepers, Opening => p = pc[currentThread],
         \/ {p, pc[currentThread]} \subseteq {"acquire", "count"}
         \/ {p, pc[currentThread]} \subseteq {"wait", "waitRelease", "sleep"}
         \/ {p, pc[currentThread]} \subseteq {"reacquire", "leave", "leaving"}
  PROVE  BarrierInv'
<1>1. currentThread \in Thread /\ currentThread \notin Sleepers
  BY Running DEF BarrierInv
<1>2. \A t \in Thread : pc'[t] = IF t = currentThread THEN p ELSE pc[t]
  BY DEF MovesTo
<1>3. \A t \in Thread : t \in Waiting' <=> t \in Waiting
  BY <1>1, <1>2 DEF Waiting
<1>4. \A t \in Thread : Released(t)' => Released(t)
  BY <1>1, <1>2 DEF Released
<1> QED
  BY <1>1, <1>2, <1>3, <1>4, RoundStays

LEMMA ArriveKeeps ==
  ASSUME BarrierInv, Arrive
  PROVE  BarrierInv'
<1> DEFINE c == currentThread
<1>0. /\ ~idle /\ pc[c] = "outside" /\ Acquire(Mutex, "acquire", "count")
      /\ arrived' = [arrived EXCEPT ![c] = @ + 1] /\ num_left' = num_left /\ passed' = passed
      /\ QueuesInv
  BY DEF Arrive, Here, BarrierInv
<1>1. /\ QueuesInv' /\ waitQueue' = waitQueue
      /\ \E p \in {"acquire", "count"} : MovesTo(p)
  BY <1>0, AcquireQueues DEF HasMutex
<1>2. PICK p \in {"acquire", "count"} : MovesTo(p)
  BY <1>1
<1>3. c \in Thread /\ c \notin Sleepers /\ Sleepers' = Sleepers
  BY <1>0, <1>1, Running DEF Sleepers
<1>4. ~Opening /\ ~Opening'
  BY <1>0, <1>2, WhileOpening DEF Opening, MovesTo
<1>5. Waiting' = Waiting /\ c \notin Waiting
  BY <1>0, <1>2, <1>3 DEF Waiting, MovesTo
<1>6. CountsLeft'
  BY <1>0, <1>4, <1>5 DEF BarrierInv, CountsLeft, num_threads
<1>7. PICK r \in Nat : RoundIs(r)
  BY DEF BarrierInv
<1>8. arrived' \in [Thread -> Nat] /\ arrived'[c] = r + 1 /\ passed[c] = r
  BY <1>0, <1>3, <1>7 DEF BarrierInv, RoundIs
<1>9. RoundIs(r)'
  <2> SUFFICES ASSUME NEW t \in Thread
               PROVE  /\ pc'[t] = "outside" => passed'[t] = r /\ arrived'[t] = r
                      /\ pc'[t] \in {"acquire", "count", "broadcast"} \/ t \in Waiting' =>
                           passed'[t] = r /\ arrived'[t] = r + 1
                      /\ Released(t)' => /\ arrived'[t] = passed'[t] + 1
                                         /\ passed'[t] + 1 = IF Opening' THEN r + 1 ELSE r
    BY DEF RoundIs
  <2>1. CASE t = c
    BY <1>0, <1>2, <1>5, <1>8, <2>1 DEF MovesTo, Released
  <2>2. CASE t # c
    <3>1. /\ pc'[t] = pc[t] /\ arrived'[t] = arrived[t] /\ passed'[t] = passed[t]
          /\ (Released(t)' <=> Released(t))
      BY <1>0, <1>2, <1>3, <2>2 DEF MovesTo, BarrierInv, Released
    <3> QED
      BY <1>4, <1>5, <1>7, <3>1 DEF RoundIs
  <2> QED
    BY <2>1, <2>2
<1> QED
  BY <1>0, <1>1, <1>6, <1>8, <1>9 DEF BarrierInv

\* The last thread to be counted finds all others asleep.
LEMMA LastIsLast ==
  ASSUME BarrierInv, ~idle, pc[currentThread] = "count", num_left = 1
  PROVE  \A t \in Thread : t # currentThread => t \in Sleepers /\ pc[t] = "reacquire"
<1> DEFINE c == currentThread
<1>0. /\ c \in Thread /\ c \notin Sleepers /\ IsFiniteSet(Thread)
      /\ \A t \in Thread : pc[t] = "sleep" => t = c
  BY Running, SchedulerAssumption DEF BarrierInv
<1>1. ~Opening /\ c \notin Waiting /\ Waiting \subseteq Thread
  BY <1>0, WhileOpening DEF Waiting
<1>2. 1 + Cardinality(Waiting) = Cardinality(Thread)
  BY <1>1 DEF BarrierInv, CountsLeft, num_threads
<1>3. IsFiniteSet(Waiting) /\ Cardinality(Waiting) \in Nat
  BY <1>0, <1>1, FS_Subset, FS_CardinalityType
<1>4. /\ IsFiniteSet(Waiting \cup {c})
      /\ Cardinality(Waiting \cup {c}) = Cardinality(Waiting) + 1
  BY <1>1, <1>3, FS_AddElement
<1>5. Cardinality(Waiting \cup {c}) = Cardinality(Thread)
  BY <1>2, <1>3, <1>4
<1>6. Waiting \cup {c} \subseteq Thread
  BY <1>0, <1>1
<1>7. Waiting \cup {c} = Thread
  BY <1>0, <1>5, <1>6, FS_Subset
<1>8. \A t \in Thread : HasMutex(pc[t]) => t = c
  BY <1>0 DEF BarrierInv, QueuesInv, MutexUnit, OneUnit, HasMutex
<1> SUFFICES ASSUME NEW t \in Thread, t # c
             PROVE  t \in Sleepers /\ pc[t] = "reacquire"
  OBVIOUS
<1>9. t \in Sleepers
  BY <1>0, <1>7, <1>8 DEF Waiting, HasMutex
<1> QED
  BY <1>9 DEF BarrierInv, QueuesInv, Parked

LEMMA CountKeeps ==
  ASSUME BarrierInv, Count
  PROVE  BarrierInv'
<1> DEFINE c == currentThread
           p == IF num_left = 1 THEN "broadcast" ELSE "wait"
<1>0. /\ ~idle /\ pc[c] = "count" /\ Step("count", p) /\ num_left' = num_left - 1
      /\ arrived' = arrived /\ passed' = passed /\ QueuesInv
  BY DEF Count, Step, BarrierInv
<1>1. QueuesInv' /\ MovesTo(p) /\ waitQueue' = waitQueue
  BY <1>0, StepQueues DEF HasMutex
<1>2. c \in Thread /\ c \notin Sleepers /\ Sleepers' = Sleepers
  BY <1>0, <1>1, Running DEF Sleepers
<1>3. ~Opening /\ c \notin Waiting
  BY <1>0, <1>2, WhileOpening DEF Waiting
<1>4. num_left \in Nat \ {0} /\ num_left + Cardinality(Waiting) = num_threads
  BY <1>3 DEF BarrierInv, CountsLeft
<1>5. PICK r \in Nat : RoundIs(r)
  BY DEF BarrierInv
<1>6. passed[c] = r /\ arrived[c] = r + 1
  BY <1>0, <1>2, <1>5 DEF RoundIs
<1>7. \A t \in Thread : t # c => /\ pc'[t] = pc[t]
                                 /\ (Released(t)' <=> Released(t))
                                 /\ (t \in Waiting' <=> t \in Waiting)
  BY <1>1, <1>2 DEF MovesTo, Released, Waiting
<1>8. pc'[c] = p
  BY <1>1, <1>2 DEF MovesTo
<1>9. CASE num_left = 1
  <2>1. \A t \in Thread : t # c => t \in Sleepers /\ pc[t] = "reacquire"
    BY <1>0, <1>9, LastIsLast
  <2>2. Opening'
    BY <1>2, <1>8, <1>9 DEF Opening
  <2>3. \A t \in Thread : pc'[t] \in {"broadcast", "reacquire"}
    BY <1>7, <1>8, <1>9, <2>1
  <2>4. CountsLeft'
    BY <1>0, <1>9, <2>2, <2>3 DEF CountsLeft
  <2>5. RoundIs(r)'
    <3>1. \A t \in Thread : pc'[t] # "outside" /\ passed[t] = r /\ arrived[t] = r + 1
      BY <1>5, <1>6, <2>1, <2>3 DEF RoundIs, Waiting
    <3>2. \A t \in Thread : ~Released(t)'
      BY <1>2, <1>8, <1>9, <2>1, <2>3 DEF Released
    <3> QED
      BY <1>0, <3>1, <3>2 DEF RoundIs
  <2> QED
    BY <1>0, <1>1, <2>4, <2>5 DEF BarrierInv
<1>10. CASE num_left # 1
  <2>1. ~Opening'
    BY <1>3, <1>7, <1>8, <1>10 DEF Opening
  <2>2. Waiting' = Waiting \cup {c}
    BY <1>1, <1>2, <1>10 DEF Waiting, MovesTo
  <2>3. IsFiniteSet(Waiting) /\ Cardinality(Waiting) \in Nat
    BY SchedulerAssumption, FS_Subset, FS_CardinalityType DEF Waiting
  <2>4. Cardinality(Waiting') = Cardinality(Waiting) + 1
    BY <1>3, <2>2, <2>3, FS_AddElement
  <2>5. num_left' \in Nat \ {0} /\ num_left' + Cardinality(Waiting') = num_threads
    BY <1>0, <1>4, <1>10, <2>3, <2>4
  <2>6. CountsLeft'
    BY <2>1, <2>5 DEF CountsLeft, num_threads
  <2>7. RoundIs(r)'
    <3> SUFFICES ASSUME NEW t \in Thread
                 PROVE  /\ pc'[t] = "outside" => passed[t] = r /\ arrived[t] = r
                        /\ pc'[t] \in {"acquire", "count", "broadcast"} \/ t \in Waiting' =>
                             passed[t] = r /\ arrived[t] = r + 1
                        /\ Released(t)' => /\ arrived[t] = passed[t] + 1
                                           /\ passed[t] + 1 = IF Opening' THEN r + 1 ELSE r
      BY <1>0 DEF RoundIs
    <3>1. CASE t = c
      BY <1>6, <1>8, <1>10, <3>1 DEF Released
    <3>2. CASE t # c
      BY <1>3, <1>5, <1>7, <2>1, <3>2 DEF RoundIs
    <3> QED
      BY <3>1, <3>2
  <2> QED
    BY <1>0, <1>1, <2>6, <2>7 DEF BarrierInv
<1> QED
  BY <1>9, <1>10

LEMMA BroadcastKeeps ==
  ASSUME BarrierInv, BroadcastOne
  PROVE  BarrierInv'
<1>0. /\ ~idle /\ pc[currentThread] = "broadcast" /\ WakeFirst(barrier, "broadcast")
      /\ UNCHANGED <<num_left, arrived, passed>> /\ QueuesInv
  BY DEF BroadcastOne, Here, BarrierInv
<1>1. QueuesInv' /\ pc' = pc
  BY <1>0, WakeQueues
<1>2. PICK h \in Sleepers : Sleepers' = Sleepers \ {h}
  BY <1>0, WakeQueues
<1>3. Opening /\ Opening'
  BY <1>0, <1>1, Running DEF Opening
<1>4. CountsLeft'
  BY <1>0, <1>1, <1>3 DEF BarrierInv, CountsLeft
<1>5. PICK r \in Nat : RoundIs(r)
  BY DEF BarrierInv
<1>6. RoundIs(r)'
  <2> SUFFICES ASSUME NEW t \in Thread
               PROVE  /\ pc[t] = "outside" => passed[t] = r /\ arrived[t] = r
                      /\ pc[t] \in {"acquire", "count", "broadcast"} \/ t \in Waiting' =>
                           passed[t] = r /\ arrived[t] = r + 1
                      /\ Released(t)' => /\ arrived[t] = passed[t] + 1
                                         /\ passed[t] + 1 = r + 1
    BY <1>0, <1>1, <1>3 DEF RoundIs
  <2>1. t \in Waiting' => t \in Waiting
    BY <1>1, <1>2 DEF Waiting
  <2>2. Released(t)' => Released(t) \/ t \in Waiting
    BY <1>1, <1>2 DEF Waiting, Released
  <2> QED
    BY <1>3, <1>5, <2>1, <2>2 DEF RoundIs
<1> QED
  BY <1>0, <1>1, <1>4, <1>6 DEF BarrierInv

LEMMA EndBroadcastKeeps ==
  ASSUME BarrierInv, EndBroadcast
  PROVE  BarrierInv'
<1> DEFINE c == currentThread
<1>0. /\ ~idle /\ pc[c] = "broadcast" /\ Step("broadcast", "leave") /\ num_left' = num_threads
      /\ waitQueue[barrier] = <<>> /\ arrived' = arrived /\ passed' = passed /\ QueuesInv
  BY DEF EndBroadcast, Step, BarrierInv
<1>1. QueuesInv' /\ MovesTo("leave") /\ waitQueue' = waitQueue
  BY <1>0, StepQueues DEF HasMutex
<1>2. c \in Thread /\ Sleepers = {} /\ Sleepers' = {}
  BY <1>0, <1>1, Running DEF Sleepers, Range
<1>3. Opening
  BY <1>0, <1>2 DEF Opening
<1>4. \A t \in Thread : t # c => pc[t] = "reacquire"
  <2>1. \A t \in Thread : HasMutex(pc[t]) => t = c
    BY <1>0, <1>2 DEF QueuesInv, MutexUnit, OneUnit, HasMutex
  <2>2. \A t \in Thread : pc[t] \in {"broadcast", "reacquire"}
    BY <1>3 DEF BarrierInv, CountsLeft
  <2> QED
    BY <2>1, <2>2 DEF HasMutex
<1>5. \A t \in Thread : pc'[t] = IF t = c THEN "leave" ELSE "reacquire"
  BY <1>1, <1>4 DEF MovesTo
<1>6. ~Opening' /\ Waiting' = {}
  BY <1>2, <1>5 DEF Opening, Waiting
<1>7. num_threads \in Nat \ {0} /\ num_threads + Cardinality(Waiting') = num_threads
  <2>1. IsFiniteSet(Thread) /\ Thread # {}
    BY <1>2, SchedulerAssumption
  <2>2. num_threads \in Nat /\ num_threads # 0
    BY <2>1, FS_CardinalityType, FS_EmptySet DEF num_threads
  <2>3. Cardinality(Waiting') = 0
    BY <1>6, FS_EmptySet
  <2> QED
    BY <2>2, <2>3
<1>8. CountsLeft'
  BY <1>0, <1>6, <1>7 DEF CountsLeft, num_threads
<1>9. PICK r \in Nat : RoundIs(r)
  BY DEF BarrierInv
<1>10. \A t \in Thread : passed[t] = r /\ arrived[t] = r + 1
  BY <1>0, <1>2, <1>3, <1>4, <1>9 DEF RoundIs, Released, BarrierInv
<1>11. RoundIs(r + 1)'
  BY <1>0, <1>5, <1>6, <1>10 DEF RoundIs
<1> QED
  BY <1>0, <1>1, <1>8, <1>11 DEF BarrierInv

LEMMA WaitKeeps ==
  ASSUME BarrierInv, Wait \/ ResumeWaitRelease
  PROVE  BarrierInv'
<1> DEFINE c == currentThread
<1>0. /\ ~idle /\ pc[c] \in {"wait", "waitRelease"} /\ QueuesInv
      /\ UNCHANGED <<num_left, arrived, passed>>
      /\ Release(Mutex, "waitRelease", "sleep") \/ FinishRelease(Mutex, "sleep")
  BY DEF Wait, ResumeWaitRelease, Here, BarrierInv
<1>1. /\ QueuesInv' /\ waitQueue' = waitQueue
      /\ \E p \in {"waitRelease", "sleep"} : MovesTo(p)
  BY <1>0, VQueues, FinishQueues DEF HasMutex, Release
<1>2. PICK p \in {"waitRelease", "sleep"} : MovesTo(p)
  BY <1>1
<1>3. ~Opening /\ Sleepers' = Sleepers
  BY <1>0, <1>1, WhileOpening DEF Sleepers
<1> QED
  BY <1>0, <1>1, <1>2, <1>3, MoveKeepsRound

LEMMA WaitSleepKeeps ==
  ASSUME BarrierInv, WaitSleep
  PROVE  BarrierInv'
<1> DEFINE c == currentThread
<1>0. /\ ~idle /\ pc[c] = "sleep" /\ QueuesInv /\ SleepOn(barrier, "reacquire")
      /\ UNCHANGED <<num_left, arrived, passed>>
  BY DEF WaitSleep, Here, BarrierInv
<1>1. QueuesInv' /\ MovesTo("reacquire") /\ Sleepers' = Sleepers \cup {c}
  BY <1>0, SleepOnQueues
<1>2. ~Opening /\ c \in Thread
  BY <1>0, WhileOpening, Running
<1>3. \A t \in Thread : t \in Waiting' <=> t \in Waiting
  BY <1>0, <1>1, <1>2 DEF Waiting, MovesTo
<1>4. \A t \in Thread : Released(t)' => Released(t)
  BY <1>0, <1>1, <1>2 DEF Released, MovesTo
<1> QED
  BY <1>0, <1>1, <1>2, <1>3, <1>4, RoundStays DEF MovesTo

LEMMA AcquireKeeps ==
  ASSUME BarrierInv, ResumeAcquire \/ Reacquire
  PROVE  BarrierInv'
<1> DEFINE c == currentThread
<1>0. /\ ~idle /\ QueuesInv /\ UNCHANGED <<num_left, arrived, passed>>
      /\ \/ pc[c] = "acquire" /\ Acquire(Mutex, "acquire", "count")
         \/ pc[c] = "reacquire" /\ Acquire(Mutex, "reacquire", "leave")
  BY DEF ResumeAcquire, Reacquire, Here, BarrierInv
<1>1. CASE pc[c] = "acquire" /\ Acquire(Mutex, "acquire", "count")
  <2>1. /\ QueuesInv' /\ waitQueue' = waitQueue
        /\ \E p \in {"acquire", "count"} : MovesTo(p)
    BY <1>0, <1>1, AcquireQueues DEF HasMutex
  <2>2. ~Opening /\ Sleepers' = Sleepers
    BY <1>0, <1>1, <2>1, WhileOpening DEF Sleepers
  <2> QED
    BY <1>0, <1>1, <2>1, <2>2, MoveKeepsRound
<1>2. CASE pc[c] = "reacquire" /\ Acquire(Mutex, "reacquire", "leave")
  <2>1. /\ QueuesInv' /\ waitQueue' = waitQueue
        /\ MovesTo("reacquire") \/ (MovesTo("leave") /\ value[Mutex] # 0)
    BY <1>0, <1>2, AcquireQueues DEF HasMutex
  <2>2. Opening => value[Mutex] = 0
    BY <1>0, WhileOpening
  <2>3. PICK p \in {"reacquire", "leave"} : MovesTo(p) /\ (p = "leave" => value[Mutex] # 0)
    BY <2>1
  <2>4. Sleepers' = Sleepers
    BY <2>1 DEF Sleepers
  <2> QED
    BY <1>0, <1>2, <2>1, <2>2, <2>3, <2>4, MoveKeepsRound
<1> QED
  BY <1>0, <1>1, <1>2

\* The return from ArriveAndWait.
LEMMA ReturnKeeps ==
  ASSUME BarrierInv, ~idle, pc[currentThread] \in {"leave", "leaving"}, QueuesInv',
         MovesTo("outside"), waitQueue' = waitQueue, Passed(currentThread),
         num_left' = num_left, arrived' = arrived
  PROVE  BarrierInv'
<1> DEFINE c == currentThread
<1>1. c \in Thread /\ c \notin Sleepers /\ Sleepers' = Sleepers
  BY Running DEF Sleepers, BarrierInv
<1>2. ~Opening /\ ~Opening'
  BY WhileOpening DEF Opening, MovesTo
<1>3. Waiting' = Waiting /\ c \notin Waiting
  BY <1>1 DEF Waiting, MovesTo
<1>4. CountsLeft'
  BY <1>2, <1>3 DEF BarrierInv, CountsLeft, num_threads
<1>5. PICK r \in Nat : RoundIs(r)
  BY DEF BarrierInv
<1>6. arrived[c] = r /\ passed[c] + 1 = r
  BY <1>1, <1>2, <1>5 DEF RoundIs, Released
<1>7. passed' \in [Thread -> Nat] /\ passed'[c] = r
  BY <1>1, <1>6 DEF Passed, BarrierInv
<1>8. RoundIs(r)'
  <2> SUFFICES ASSUME NEW t \in Thread
               PROVE  /\ pc'[t] = "outside" => passed'[t] = r /\ arrived[t] = r
                      /\ pc'[t] \in {"acquire", "count", "broadcast"} \/ t \in Waiting' =>
                           passed'[t] = r /\ arrived[t] = r + 1
                      /\ Released(t)' => /\ arrived[t] = passed'[t] + 1
                                         /\ passed'[t] + 1 = IF Opening' THEN r + 1 ELSE r
    BY DEF RoundIs
  <2>1. CASE t = c
    BY <1>3, <1>6, <1>7, <2>1 DEF MovesTo, Released
  <2>2. CASE t # c
    <3>1. pc'[t] = pc[t] /\ passed'[t] = passed[t] /\ (Released(t)' <=> Released(t))
      BY <1>1, <2>2 DEF MovesTo, Passed, BarrierInv, Released
    <3> QED
      BY <1>2, <1>3, <1>5, <3>1 DEF RoundIs
  <2> QED
    BY <2>1, <2>2
<1> QED
  BY <1>4, <1>7, <1>8 DEF BarrierInv

LEMMA LeaveKeeps ==
  ASSUME BarrierInv, Leave \/ ResumeLeave
  PROVE  BarrierInv'
<1> DEFINE c == currentThread
<1>0. ~idle /\ QueuesInv /\ num_left' = num_left /\ arrived' = arrived /\ c \in Thread
  BY Running DEF Leave, ResumeLeave, Here, BarrierInv
<1>1. CASE Leave
  <2>0. /\ pc[c] = "leave" /\ V(Mutex, "leaving", "outside") /\ waitQueue' = waitQueue
        /\ IF pc'[c] = "outside" THEN Passed(c) ELSE passed' = passed
    BY <1>1 DEF Leave, Here, Release
  <2>1. QueuesInv' /\ (MovesTo("leaving") \/ MovesTo("outside"))
    BY <1>0, <2>0, VQueues DEF HasMutex
  <2>2. CASE MovesTo("leaving")
    <3>1. pc'[c] = "leaving" /\ passed' = passed
      BY <1>0, <2>0, <2>2 DEF MovesTo
    <3>2. ~Opening /\ Sleepers' = Sleepers
      BY <1>0, <2>0, WhileOpening DEF Sleepers
    <3> QED
      BY <1>0, <2>0, <2>1, <2>2, <3>1, <3>2, MoveKeepsRound
  <2>3. CASE MovesTo("outside")
    <3>1. Passed(c)
      BY <1>0, <2>0, <2>3 DEF MovesTo
    <3> QED
      BY <1>0, <2>0, <2>1, <2>3, <3>1, ReturnKeeps
  <2> QED
    BY <2>1, <2>2, <2>3
<1>2. CASE ResumeLeave
  <2>0. pc[c] = "leaving" /\ FinishRelease(Mutex, "outside") /\ Passed(c)
    BY <1>2 DEF ResumeLeave, Here
  <2>1. QueuesInv' /\ waitQueue' = waitQueue /\ MovesTo("outside")
    BY <1>0, <2>0, FinishQueues DEF HasMutex
  <2> QED
    BY <1>0, <2>0, <2>1, ReturnKeeps
<1> QED
  BY <1>1, <1>2

\* A timer interrupt, which no thread inside ArriveAndWait notices.
LEMMA BarrierYieldKeeps ==
  ASSUME BarrierInv, program = "barrier", Yield
  PROVE  BarrierInv'
<1>0. /\ ~idle /\ pc[currentThread] \in Interruptible /\ readyList # <<>>
      /\ YieldFrom(readyList, status) /\ UNCHANGED <<semVars, monVars>>
      /\ UNCHANGED <<num_left, arrived, passed>> /\ QueuesInv
  BY DEF Yield, YieldAt, barVars, BarrierInv
<1>1. pc' = pc /\ waitQueue' = waitQueue /\ Sleepers' = Sleepers
  BY <1>0 DEF semVars, monVars, Sleepers
<1>2. pc[currentThread] = "outside"
  <2>1. pc[currentThread] \in BarrierPlace
    BY <1>0, Running
  <2> QED
    BY <1>0, <2>1 DEF Interruptible, BarrierPlace, Kinds
<1>3. QueuesInv'
  BY <1>0, <1>2, YieldQueues
<1>4. \A t \in Thread : (t \in Waiting' <=> t \in Waiting) /\ (Released(t)' => Released(t))
  BY <1>1 DEF Waiting, Released
<1> QED
  BY <1>0, <1>1, <1>3, <1>4, RoundStays

LEMMA BarrierStepKeeps ==
  ASSUME BarrierInv, BarrierStep
  PROVE  BarrierInv'
BY ArriveKeeps, CountKeeps, BroadcastKeeps, EndBroadcastKeeps, WaitKeeps, WaitSleepKeeps,
   AcquireKeeps, LeaveKeeps DEF BarrierStep

LEMMA BarrierStart ==
  ASSUME Init, program = "barrier"
  PROVE  BarrierInv
<1>1. Semaphores(Mutex) = 1 /\ Semaphores(Mutex) \in Nat /\ \A s \in Sem : Semaphores(s) \in Nat
  BY BarrierAssumption, BuffersAssumption DEF Semaphores
<1>2. /\ policy \in Policy /\ currentThread \in Thread /\ idle = FALSE
      /\ status = [t \in Thread |-> IF t = currentThread THEN "RUNNING" ELSE "READY"]
      /\ readyList \in [1..(Cardinality(Thread) - 1) -> Thread \ {currentThread}]
      /\ IsInjective(readyList) /\ value = [s \in Sem |-> Semaphores(s)]
      /\ queue = [s \in Sem |-> <<>>] /\ pc = [t \in Thread |-> "outside"]
      /\ waitQueue = [cv \in Cond |-> <<>>]
  BY DEF Init, MonitorInit
<1>3. Cardinality(Thread) \in Nat \ {0} /\ IsFiniteSet(Thread)
  BY <1>2, SchedulerAssumption, FS_CardinalityType, FS_EmptySet
<1>4. readyList \in Seq(Thread)
  <2>1. Cardinality(Thread) - 1 \in Nat
    BY <1>3
  <2> QED
    BY <1>2, <2>1, SeqDef
<1>5. SchedTypeOK
  BY <1>2, <1>4 DEF SchedTypeOK, ThreadStatus
<1>6. SemTypeOK(BarrierPlace) /\ waitQueue \in [Cond -> Seq(Thread)]
  <2>1. <<>> \in Seq(Thread) /\ "outside" \in BarrierPlace
    BY EmptySeq DEF BarrierPlace
  <2>2. value \in [Sem -> Nat]
    BY <1>1, <1>2
  <2> QED
    BY <1>2, <2>1, <2>2 DEF SemTypeOK
<1>7. Dispatch
  <2>1. \A t \in Range(readyList) : t \in Thread \ {currentThread}
    BY <1>2 DEF Range
  <2> QED
    BY <1>2, <2>1 DEF Dispatch
<1>8. \A t \in Thread : pc[t] = "outside"
  BY <1>2
<1>9. MutexUnit /\ SleepIsNext
  <2>1. value[Mutex] = 1
    BY <1>1, <1>2, BarrierObjects
  <2> QED
    BY <1>8, <2>1 DEF MutexUnit, SleepIsNext, OneUnit, HasMutex
<1>10. Parked /\ Sleepers = {}
  <2>1. queue[Mutex] = <<>> /\ waitQueue[barrier] = <<>>
    BY <1>2, BarrierObjects
  <2>2. Range(<<>>) = {} /\ IsInjective(<<>>)
    BY DEF Range, IsInjective
  <2> QED
    BY <2>1, <2>2 DEF Parked, Sleepers
<1>11. QueuesInv
  BY <1>5, <1>6, <1>7, <1>9, <1>10 DEF QueuesInv
<1>12. /\ num_left = num_threads /\ arrived = [t \in Thread |-> 0] /\ passed = [t \in Thread |-> 0]
  BY DEF Init, BarrierInit
<1>13. ~Opening /\ Waiting = {} /\ \A t \in Thread : ~Released(t)
  BY <1>8, <1>10 DEF Opening, Waiting, Released
<1>14. CountsLeft
  <2>1. Cardinality(Waiting) = 0
    BY <1>13, FS_EmptySet
  <2> QED
    BY <1>3, <1>12, <1>13, <2>1 DEF CountsLeft, num_threads
<1>15. RoundIs(0)
  BY <1>8, <1>12, <1>13 DEF RoundIs
<1> QED
  BY <1>11, <1>12, <1>14, <1>15 DEF BarrierInv
-----------------------------------------------------------------------------
(***************************************************************************)
(* The ReadWriteLock.                                                      *)
(***************************************************************************)

\* The two semaphores are different ones, and there are finitely many threads.
LEMMA ReadWriteObjects ==
  ReaderLock \in Sem /\ WriterLock \in Sem /\ ReaderLock # WriterLock /\ IsFiniteSet(Thread)
BY MonitorAssumption, ReadWriteLockAssumption, SchedulerAssumption

\* A unit stays where it is, is taken, or is given back.
LEMMA UnitMoves ==
  ASSUME NEW v, NEW w, NEW H, NEW G, NEW t, OneUnit(v, H),
         \/ w = v /\ G = H
         \/ v # 0 /\ w = v - 1 /\ G = H \cup {t}
         \/ w = v + 1 /\ t \in H /\ G = H \ {t}
  PROVE  OneUnit(w, G)
<1>1. CASE v # 0 /\ w = v - 1 /\ G = H \cup {t}
  BY <1>1, UnitTaken
<1>2. CASE w = v + 1 /\ t \in H /\ G = H \ {t}
  BY <1>2, UnitGiven
<1> QED
  BY <1>1, <1>2

\* The unit of ReaderLock.
LEMMA ReaderUnitMoves ==
  ASSUME ReadWriteInv, NEW p, MovesTo(p),
         \/ /\ value'[ReaderLock] = value[ReaderLock]
            /\ HasReaderLock(p) <=> HasReaderLock(pc[currentThread])
         \/ /\ value[ReaderLock] # 0 /\ value'[ReaderLock] = value[ReaderLock] - 1
            /\ HasReaderLock(p)
         \/ /\ value'[ReaderLock] = value[ReaderLock] + 1
            /\ HasReaderLock(pc[currentThread]) /\ ~HasReaderLock(p)
  PROVE  ReaderUnit'
<1> DEFINE H == {t \in Thread : HasReaderLock(pc[t])}
           G == {t \in Thread : HasReaderLock(pc'[t])}
           c == currentThread
<1>1. c \in Thread /\ OneUnit(value[ReaderLock], H)
  BY DEF ReadWriteInv, ReadWriteTypeOK, SchedTypeOK, ReaderUnit
<1>2. /\ (HasReaderLock(p) <=> HasReaderLock(pc[c])) => G = H
      /\ HasReaderLock(p) => G = H \cup {c}
      /\ ~HasReaderLock(p) => G = H \ {c}
      /\ HasReaderLock(pc[c]) => c \in H
  BY <1>1 DEF MovesTo
<1> HIDE DEF H, G
<1>3. OneUnit(value'[ReaderLock], G)
  BY <1>1, <1>2, UnitMoves
<1> QED
  BY <1>3 DEF ReaderUnit, G

\* The readers stay the same.
LEMMA CountStays ==
  ASSUME ReadWriteInv, NEW p, MovesTo(p), ReaderCnt' = ReaderCnt,
         IsReader(p) <=> IsReader(pc[currentThread]),
         p = "rFirst" => pc[currentThread] = "rFirst",
         p \in {"uLast", "uLastV"} => pc[currentThread] \in {"uLast", "uLastV"}
  PROVE  CountRight'
<1>1. Readers' = Readers
  BY DEF Readers, MovesTo
<1> QED
  BY <1>1 DEF ReadWriteInv, CountRight, MovesTo

\* So do those who have the unit of WriterLock.
LEMMA WriterStays ==
  ASSUME ReadWriteInv, NEW p, MovesTo(p), value'[WriterLock] = value[WriterLock],
         Writes(p) <=> Writes(pc[currentThread]),
         Shares(p) => Shares(pc[currentThread])
  PROVE  WriterUnit'
<1>1. \A t \in Thread : (Writes(pc'[t]) <=> Writes(pc[t])) /\ (Shares(pc'[t]) => Shares(pc[t]))
  BY DEF MovesTo
<1>2. {t \in Thread : Writes(pc'[t])} = {t \in Thread : Writes(pc[t])}
  BY <1>1
<1> QED
  BY <1>1, <1>2 DEF ReadWriteInv, WriterUnit

\* Only the thread that has the unit of ReaderLock is between two of its calls.
LEMMA OneHolder ==
  ASSUME ReadWriteInv, HasReaderLock(pc[currentThread])
  PROVE  \A t \in Thread : HasReaderLock(pc[t]) => t = currentThread
BY DEF ReadWriteInv, ReadWriteTypeOK, SchedTypeOK, ReaderUnit, OneUnit

\* What a turn of P does to the values and to the places.
LEMMA MovesP ==
  ASSUME NEW places, SchedTypeOK, SemTypeOK(places), NEW s \in Sem,
         NEW wait \in places, NEW next \in places, P(s, wait, next)
  PROVE  /\ SchedTypeOK' /\ SemTypeOK(places)'
         /\ \A q \in Sem \ {s} : value'[q] = value[q]
         /\ \/ value'[s] = value[s] /\ MovesTo(wait)
            \/ value[s] # 0 /\ value'[s] = value[s] - 1 /\ MovesTo(next)
<1>1. value \in [Sem -> Nat] /\ pc \in [Thread -> places] /\ currentThread \in Thread
  BY DEF SemTypeOK, SchedTypeOK
<1>2. SchedTypeOK' /\ SemTypeOK(places)'
  BY TypeP
<1>3. CASE value' = value /\ pc' = [pc EXCEPT ![currentThread] = wait]
  BY <1>1, <1>2, <1>3 DEF MovesTo
<1>4. CASE /\ value[s] # 0 /\ value' = [value EXCEPT ![s] = value[s] - 1]
           /\ pc' = [pc EXCEPT ![currentThread] = next]
  BY <1>1, <1>2, <1>4 DEF MovesTo
<1> QED
  BY <1>3, <1>4, EffectP

\* What V does, or the end of one that has yielded.
LEMMA MovesV ==
  ASSUME NEW places, SchedTypeOK, SemTypeOK(places), NEW s \in Sem,
         NEW mid \in places, NEW next \in places, V(s, mid, next) \/ FinishRelease(s, next)
  PROVE  /\ SchedTypeOK' /\ SemTypeOK(places)'
         /\ \A q \in Sem \ {s} : value'[q] = value[q]
         /\ \/ value'[s] = value[s] /\ MovesTo(mid)
            \/ value'[s] = value[s] + 1 /\ MovesTo(next)
<1>1. value \in [Sem -> Nat] /\ pc \in [Thread -> places] /\ currentThread \in Thread
  BY DEF SemTypeOK, SchedTypeOK
<1>2. SchedTypeOK' /\ SemTypeOK(places)'
  <2>1. CASE V(s, mid, next)
    BY <2>1, TypeV
  <2>2. CASE FinishRelease(s, next)
    <3>1. SchedTypeOK'
      BY <2>2 DEF FinishRelease, SchedTypeOK, schedVars
    <3>2. SemTypeOK(places)'
      BY <1>1, <2>2 DEF FinishRelease, Increment, Goto, SemTypeOK
    <3> QED
      BY <3>1, <3>2
  <2> QED
    BY <2>1, <2>2
<1>3. CASE value' = value /\ pc' = [pc EXCEPT ![currentThread] = mid]
  BY <1>1, <1>2, <1>3 DEF MovesTo
<1>4. CASE /\ value' = [value EXCEPT ![s] = value[s] + 1]
           /\ pc' = [pc EXCEPT ![currentThread] = next]
  BY <1>1, <1>2, <1>4 DEF MovesTo
<1>5. FinishRelease(s, next) => /\ value' = [value EXCEPT ![s] = value[s] + 1]
                                /\ pc' = [pc EXCEPT ![currentThread] = next]
  BY DEF FinishRelease, Increment, Goto
<1> QED
  BY <1>3, <1>4, <1>5, EffectV

\* The same for the routines of the ReadWriteLock.
LEMMA ReadWriteP ==
  ASSUME ReadWriteTypeOK, NEW s \in Sem, NEW wait \in ReadWritePlace, NEW next \in ReadWritePlace,
         P(s, wait, next), UNCHANGED ReaderCnt
  PROVE  /\ ReadWriteTypeOK'
         /\ \A q \in Sem \ {s} : value'[q] = value[q]
         /\ \/ value'[s] = value[s] /\ MovesTo(wait)
            \/ value[s] # 0 /\ value'[s] = value[s] - 1 /\ MovesTo(next)
BY MovesP DEF ReadWriteTypeOK

LEMMA ReadWriteV ==
  ASSUME ReadWriteTypeOK, NEW s \in Sem, NEW mid \in ReadWritePlace, NEW next \in ReadWritePlace,
         V(s, mid, next) \/ FinishRelease(s, next), UNCHANGED ReaderCnt
  PROVE  /\ ReadWriteTypeOK'
         /\ \A q \in Sem \ {s} : value'[q] = value[q]
         /\ \/ value'[s] = value[s] /\ MovesTo(mid)
            \/ value'[s] = value[s] + 1 /\ MovesTo(next)
BY MovesV DEF ReadWriteTypeOK

\* A place at which a thread has of WriterLock, and of the count, what it had.
Alike(p, q) ==
  /\ IsReader(p) <=> IsReader(q)
  /\ Writes(p) <=> Writes(q)
  /\ Shares(p) => Shares(q)
  /\ p = "rFirst" => q = "rFirst"
  /\ p \in {"uLast", "uLastV"} => q \in {"uLast", "uLastV"}

\* A turn of Acquire on ReaderLock.
LEMMA AcquireReader ==
  ASSUME ReadWriteInv, NEW wait \in ReadWritePlace, NEW next \in ReadWritePlace,
         Acquire(ReaderLock, wait, next), UNCHANGED ReaderCnt,
         ~HasReaderLock(pc[currentThread]), ~HasReaderLock(wait), HasReaderLock(next),
         Alike(wait, pc[currentThread]), Alike(next, pc[currentThread])
  PROVE  ReadWriteInv'
<1>1. P(ReaderLock, wait, next) /\ ReadWriteTypeOK
  BY DEF Acquire, ReadWriteInv
<1>2. /\ ReadWriteTypeOK' /\ value'[WriterLock] = value[WriterLock]
      /\ \/ value'[ReaderLock] = value[ReaderLock] /\ MovesTo(wait)
         \/ /\ value[ReaderLock] # 0 /\ value'[ReaderLock] = value[ReaderLock] - 1
            /\ MovesTo(next)
  BY <1>1, ReadWriteP, ReadWriteObjects
<1>3. ReaderUnit'
  BY <1>2, ReaderUnitMoves
<1>4. CountRight' /\ WriterUnit'
  BY <1>2, CountStays, WriterStays DEF Alike
<1> QED
  BY <1>2, <1>3, <1>4 DEF ReadWriteInv

\* Release of ReaderLock, or its end.
LEMMA ReleaseReader ==
  ASSUME ReadWriteInv, NEW mid \in ReadWritePlace, NEW next \in ReadWritePlace,
         Release(ReaderLock, mid, next) \/ FinishRelease(ReaderLock, next), UNCHANGED ReaderCnt,
         HasReaderLock(pc[currentThread]), HasReaderLock(mid), ~HasReaderLock(next),
         Alike(mid, pc[currentThread]), Alike(next, pc[currentThread])
  PROVE  ReadWriteInv'
<1>1. /\ V(ReaderLock, mid, next) \/ FinishRelease(ReaderLock, next)
      /\ ReadWriteTypeOK
  BY DEF Release, ReadWriteInv
<1>2. /\ ReadWriteTypeOK' /\ value'[WriterLock] = value[WriterLock]
      /\ \/ value'[ReaderLock] = value[ReaderLock] /\ MovesTo(mid)
         \/ value'[ReaderLock] = value[ReaderLock] + 1 /\ MovesTo(next)
  BY <1>1, ReadWriteV, ReadWriteObjects
<1>3. ReaderUnit'
  BY <1>2, ReaderUnitMoves
<1>4. CountRight' /\ WriterUnit'
  BY <1>2, CountStays, WriterStays DEF Alike
<1> QED
  BY <1>2, <1>3, <1>4 DEF ReadWriteInv

\* AcquireReaderLock and ReleaseReaderLock up to their counts, and after them.
LEMMA ReaderLockKeeps ==
  ASSUME ReadWriteInv,
         \/ ReaderAcquire \/ ReaderUnacquire
         \/ ReaderEnter \/ ResumeReaderEnter \/ ReaderLeave \/ ResumeReaderLeave
  PROVE  ReadWriteInv'
<1>0. ReaderCnt' = ReaderCnt
  BY DEF ReaderAcquire, ReaderUnacquire, ReaderEnter, ResumeReaderEnter, ReaderLeave,
         ResumeReaderLeave
<1>1. CASE ReaderAcquire
  <2>1. /\ pc[currentThread] \in {"outside", "rAcquire"}
        /\ Acquire(ReaderLock, "rAcquire", "rCount")
    BY <1>1 DEF ReaderAcquire, Here
  <2>2. \A p \in {"rAcquire", "rCount"} : p \in ReadWritePlace /\ Alike(p, pc[currentThread])
    BY <2>1 DEF ReadWritePlace, Alike, IsReader, Writes, Shares
  <2>3. /\ ~HasReaderLock(pc[currentThread]) /\ ~HasReaderLock("rAcquire")
        /\ HasReaderLock("rCount")
    BY <2>1 DEF HasReaderLock
  <2> QED
    BY <1>0, <2>1, <2>2, <2>3, AcquireReader
<1>2. CASE ReaderUnacquire
  <2>1. /\ pc[currentThread] \in {"reading", "uAcquire"}
        /\ Acquire(ReaderLock, "uAcquire", "uCount")
    BY <1>2 DEF ReaderUnacquire, Here
  <2>2. \A p \in {"uAcquire", "uCount"} : p \in ReadWritePlace /\ Alike(p, pc[currentThread])
    BY <2>1 DEF ReadWritePlace, Alike, IsReader, Writes, Shares
  <2>3. /\ ~HasReaderLock(pc[currentThread]) /\ ~HasReaderLock("uAcquire")
        /\ HasReaderLock("uCount")
    BY <2>1 DEF HasReaderLock
  <2> QED
    BY <1>0, <2>1, <2>2, <2>3, AcquireReader
<1>3. CASE ReaderEnter \/ ResumeReaderEnter
  <2>1. /\ pc[currentThread] \in {"rRelease", "rReleasing"}
        /\ \/ Release(ReaderLock, "rReleasing", "reading")
           \/ FinishRelease(ReaderLock, "reading")
    BY <1>3 DEF ReaderEnter, ResumeReaderEnter, Here
  <2>2. \A p \in {"rReleasing", "reading"} : p \in ReadWritePlace /\ Alike(p, pc[currentThread])
    BY <2>1 DEF ReadWritePlace, Alike, IsReader, Writes, Shares
  <2>3. /\ HasReaderLock(pc[currentThread]) /\ HasReaderLock("rReleasing")
        /\ ~HasReaderLock("reading")
    BY <2>1 DEF HasReaderLock
  <2> QED
    BY <1>0, <2>1, <2>2, <2>3, ReleaseReader
<1>4. CASE ReaderLeave \/ ResumeReaderLeave
  <2>1. /\ pc[currentThread] \in {"uRelease", "uReleasing"}
        /\ \/ Release(ReaderLock, "uReleasing", "outside")
           \/ FinishRelease(ReaderLock, "outside")
    BY <1>4 DEF ReaderLeave, ResumeReaderLeave, Here
  <2>2. \A p \in {"uReleasing", "outside"} : p \in ReadWritePlace /\ Alike(p, pc[currentThread])
    BY <2>1 DEF ReadWritePlace, Alike, IsReader, Writes, Shares
  <2>3. /\ HasReaderLock(pc[currentThread]) /\ HasReaderLock("uReleasing")
        /\ ~HasReaderLock("outside")
    BY <2>1 DEF HasReaderLock
  <2> QED
    BY <1>0, <2>1, <2>2, <2>3, ReleaseReader
<1> QED
  BY <1>1, <1>2, <1>3, <1>4

\* A reader that is counted, and is not waiting for WriterLock, has a share in it.
LEMMA ReadersShare ==
  ASSUME ReadWriteInv, HasReaderLock(pc[currentThread]), pc[currentThread] # "rFirst",
         NEW t \in Readers
  PROVE  Shares(pc[t])
<1>1. t \in Thread /\ IsReader(pc[t])
  BY DEF Readers
<1>2. pc[t] # "rFirst"
  BY <1>1, OneHolder DEF HasReaderLock
<1> QED
  BY <1>1, <1>2 DEF IsReader, Shares

\* A step between two calls of the reader's routines.
LEMMA StepMoves ==
  ASSUME ReadWriteInv, NEW from, NEW to \in ReadWritePlace, HasReaderLock(from), HasReaderLock(to),
         Step(from, to), ReaderCnt' \in Nat
  PROVE  /\ ReadWriteTypeOK' /\ ReaderUnit' /\ MovesTo(to)
         /\ value' = value /\ pc[currentThread] = from /\ currentThread \in Thread
<1>1. /\ SchedTypeOK /\ SemTypeOK(ReadWritePlace) /\ currentThread \in Thread
      /\ pc \in [Thread -> ReadWritePlace]
  BY DEF ReadWriteInv, ReadWriteTypeOK, SchedTypeOK, SemTypeOK
<1>2. /\ pc[currentThread] = from /\ pc' = [pc EXCEPT ![currentThread] = to]
      /\ value' = value /\ queue' = queue /\ UNCHANGED schedVars
  BY DEF Step, Goto
<1>3. ReadWriteTypeOK'
  BY <1>1, <1>2 DEF ReadWriteTypeOK, SchedTypeOK, SemTypeOK, schedVars
<1>4. MovesTo(to)
  BY <1>1, <1>2 DEF MovesTo
<1> QED
  BY <1>1, <1>2, <1>3, <1>4, ReaderUnitMoves

\* ReaderCnt++: only the first reader goes on to wait for WriterLock; another one
\* gets a share in the unit that the readers have.
LEMMA ReaderCountKeeps ==
  ASSUME ReadWriteInv, ReaderCount
  PROVE  ReadWriteInv'
<1> DEFINE c == currentThread
           to == IF ReaderCnt = 0 THEN "rFirst" ELSE "rRelease"
<1>0. Step("rCount", to) /\ ReaderCnt' = ReaderCnt + 1 /\ ReaderCnt \in Nat /\ to \in ReadWritePlace
  BY DEF ReaderCount, ReadWriteInv, ReadWriteTypeOK, ReadWritePlace
<1>1. HasReaderLock("rCount") /\ HasReaderLock(to)
  BY DEF HasReaderLock
<1>2. /\ ReadWriteTypeOK' /\ ReaderUnit' /\ MovesTo(to)
      /\ value' = value /\ pc[c] = "rCount" /\ c \in Thread
  BY <1>0, <1>1, StepMoves
<1>3. IsFiniteSet(Readers) /\ ReaderCnt = Cardinality(Readers) /\ c \notin Readers
  BY <1>2, ReadWriteObjects, FS_Subset DEF Readers, ReadWriteInv, CountRight, IsReader
<1>4. Readers' = Readers \cup {c}
  BY <1>2 DEF Readers, MovesTo, IsReader
<1>5. ReaderCnt' = Cardinality(Readers')
  BY <1>0, <1>3, <1>4, FS_AddElement
<1>6. \A t \in Thread : t # c => pc'[t] \notin {"rFirst", "uLast", "uLastV"}
  BY <1>2, OneHolder DEF MovesTo, HasReaderLock
<1>7. ReaderCnt = 0 => Readers = {}
  BY <1>3, FS_EmptySet
<1>8. CountRight'
  <2>1. \A t \in Thread : pc'[t] = "rFirst" => Readers' = {t}
    BY <1>2, <1>4, <1>6, <1>7 DEF MovesTo
  <2>2. \A t \in Thread : pc'[t] \notin {"uLast", "uLastV"}
    BY <1>2, <1>6 DEF MovesTo
  <2> QED
    BY <1>5, <2>1, <2>2 DEF CountRight
<1>9. WriterUnit'
  <2>1. CASE ReaderCnt = 0
    BY <1>2, <2>1, WriterStays DEF Shares, Writes
  <2>2. CASE ReaderCnt # 0
    <3>1. PICK u \in Readers : TRUE
      BY <1>3, <2>2, FS_EmptySet
    <3>2. Shares(pc[u]) /\ u \in Thread
      BY <1>2, <3>1, ReadersShare DEF HasReaderLock, Readers
    <3>3. value[WriterLock] = 0 /\ \A t \in Thread : ~Writes(pc[t])
      BY <3>2 DEF ReadWriteInv, WriterUnit
    <3>4. \A t \in Thread : ~Writes(pc'[t])
      BY <1>2, <3>3 DEF MovesTo, Writes
    <3>5. {t \in Thread : Writes(pc'[t])} = {}
      BY <3>4
    <3> QED
      BY <1>2, <3>3, <3>4, <3>5 DEF WriterUnit, OneUnit
  <2> QED
    BY <2>1, <2>2
<1> QED
  BY <1>2, <1>8, <1>9 DEF ReadWriteInv

\* ReaderCnt--: the last one goes on to give WriterLock back.
LEMMA ReaderUncountKeeps ==
  ASSUME ReadWriteInv, ReaderUncount
  PROVE  ReadWriteInv'
<1> DEFINE c == currentThread
           to == IF ReaderCnt = 1 THEN "uLast" ELSE "uRelease"
<1>0. Step("uCount", to) /\ ReaderCnt' = ReaderCnt - 1 /\ ReaderCnt \in Nat /\ to \in ReadWritePlace
  BY DEF ReaderUncount, ReadWriteInv, ReadWriteTypeOK, ReadWritePlace
<1>1. HasReaderLock("uCount") /\ HasReaderLock(to)
  BY DEF HasReaderLock
<1>2. pc[c] = "uCount" /\ c \in Thread
  BY <1>0 DEF Step, ReadWriteInv, ReadWriteTypeOK, SchedTypeOK
<1>3. IsFiniteSet(Readers) /\ ReaderCnt = Cardinality(Readers) /\ c \in Readers
  BY <1>2, ReadWriteObjects, FS_Subset DEF Readers, ReadWriteInv, CountRight, IsReader
<1>4. /\ IsFiniteSet(Readers \ {c}) /\ Cardinality(Readers \ {c}) = ReaderCnt - 1
      /\ ReaderCnt - 1 \in Nat
  <2>1. /\ IsFiniteSet(Readers \ {c})
        /\ Cardinality(Readers \ {c}) = Cardinality(Readers) - 1
    BY <1>3, FS_RemoveElement
  <2> QED
    BY <1>3, <2>1, FS_CardinalityType
<1>5. /\ ReadWriteTypeOK' /\ ReaderUnit' /\ MovesTo(to) /\ value' = value
  BY <1>0, <1>1, <1>4, StepMoves
<1>6. Readers' = Readers \ {c}
  BY <1>2, <1>5 DEF Readers, MovesTo, IsReader
<1>7. \A t \in Thread : t # c => pc'[t] \notin {"rFirst", "uLast", "uLastV"}
  BY <1>2, <1>5, OneHolder DEF MovesTo, HasReaderLock
<1>8. ReaderCnt = 1 => Readers' = {}
  BY <1>4, <1>6, FS_EmptySet
<1>9. CountRight'
  <2>1. \A t \in Thread : pc'[t] # "rFirst"
    BY <1>5, <1>7 DEF MovesTo
  <2>2. \A t \in Thread : pc'[t] \in {"uLast", "uLastV"} => Readers' = {}
    BY <1>5, <1>7, <1>8 DEF MovesTo
  <2> QED
    BY <1>0, <1>4, <1>6, <2>1, <2>2 DEF CountRight
<1>10. WriterUnit'
  BY <1>2, <1>5, WriterStays DEF Shares, Writes
<1> QED
  BY <1>5, <1>9, <1>10 DEF ReadWriteInv

\* The first reader takes the unit of WriterLock for all of them.
LEMMA FirstReaderKeeps ==
  ASSUME ReadWriteInv, FirstReader
  PROVE  ReadWriteInv'
<1> DEFINE c == currentThread
<1>1. /\ pc[c] = "rFirst" /\ P(WriterLock, "rFirst", "rRelease") /\ UNCHANGED ReaderCnt
      /\ ReadWriteTypeOK /\ c \in Thread
  BY DEF FirstReader, Here, ReadWriteInv, ReadWriteTypeOK, SchedTypeOK
<1>2. /\ ReadWriteTypeOK' /\ value'[ReaderLock] = value[ReaderLock]
      /\ \/ value'[WriterLock] = value[WriterLock] /\ MovesTo("rFirst")
         \/ /\ value[WriterLock] # 0 /\ value'[WriterLock] = value[WriterLock] - 1
            /\ MovesTo("rRelease")
  <2>1. "rFirst" \in ReadWritePlace /\ "rRelease" \in ReadWritePlace
    BY DEF ReadWritePlace
  <2> QED
    BY <1>1, <2>1, ReadWriteP, ReadWriteObjects
<1>3. ReaderUnit'
  BY <1>1, <1>2, ReaderUnitMoves DEF HasReaderLock
<1>4. CountRight'
  BY <1>1, <1>2, CountStays DEF IsReader
<1>5. WriterUnit'
  <2>1. CASE value'[WriterLock] = value[WriterLock] /\ MovesTo("rFirst")
    BY <1>1, <2>1, WriterStays DEF Writes, Shares
  <2>2. CASE /\ value[WriterLock] # 0 /\ value'[WriterLock] = value[WriterLock] - 1
             /\ MovesTo("rRelease")
    <3>1. value[WriterLock] = 1 /\ \A t \in Thread : ~Writes(pc[t])
      BY <2>2 DEF ReadWriteInv, WriterUnit, OneUnit
    <3>2. value'[WriterLock] = 0 /\ \A t \in Thread : ~Writes(pc'[t])
      BY <2>2, <3>1 DEF MovesTo, Writes
    <3>3. {t \in Thread : Writes(pc'[t])} = {}
      BY <3>2
    <3> QED
      BY <3>2, <3>3 DEF WriterUnit, OneUnit
  <2> QED
    BY <1>2, <2>1, <2>2
<1> QED
  BY <1>2, <1>3, <1>4, <1>5 DEF ReadWriteInv

\* The last reader gives it back, when nobody has a share any more.
LEMMA LastReaderKeeps ==
  ASSUME ReadWriteInv, LastReader \/ ResumeLastReader
  PROVE  ReadWriteInv'
<1> DEFINE c == currentThread
<1>1. /\ pc[c] \in {"uLast", "uLastV"} /\ UNCHANGED ReaderCnt /\ ReadWriteTypeOK /\ c \in Thread
      /\ V(WriterLock, "uLastV", "uRelease") \/ FinishRelease(WriterLock, "uRelease")
  BY DEF LastReader, ResumeLastReader, Here, ReadWriteInv, ReadWriteTypeOK, SchedTypeOK
<1>2. /\ ReadWriteTypeOK' /\ value'[ReaderLock] = value[ReaderLock]
      /\ \/ value'[WriterLock] = value[WriterLock] /\ MovesTo("uLastV")
         \/ value'[WriterLock] = value[WriterLock] + 1 /\ MovesTo("uRelease")
  <2>1. "uLastV" \in ReadWritePlace /\ "uRelease" \in ReadWritePlace
    BY DEF ReadWritePlace
  <2> QED
    BY <1>1, <2>1, ReadWriteV, ReadWriteObjects
<1>3. ReaderUnit'
  BY <1>1, <1>2, ReaderUnitMoves DEF HasReaderLock
<1>4. CountRight'
  BY <1>1, <1>2, CountStays DEF IsReader
<1>5. WriterUnit'
  <2>1. CASE value'[WriterLock] = value[WriterLock] /\ MovesTo("uLastV")
    BY <1>1, <2>1, WriterStays DEF Writes, Shares
  <2>2. CASE value'[WriterLock] = value[WriterLock] + 1 /\ MovesTo("uRelease")
    <3>1. value[WriterLock] = 0 /\ \A t \in Thread : ~Writes(pc[t])
      BY <1>1 DEF ReadWriteInv, WriterUnit, Shares
    <3>2. \A t \in Thread : t # c => ~Shares(pc[t])
      <4>1. Readers = {}
        BY <1>1 DEF ReadWriteInv, CountRight
      <4>2. \A t \in Thread : ~IsReader(pc[t])
        BY <4>1 DEF Readers
      <4>3. \A t \in Thread : t # c => pc[t] \notin {"uLast", "uLastV"}
        BY <1>1, OneHolder DEF HasReaderLock
      <4> QED
        BY <4>2, <4>3 DEF Shares, IsReader
    <3>3. \A t \in Thread : ~Writes(pc'[t]) /\ ~Shares(pc'[t])
      BY <2>2, <3>1, <3>2 DEF MovesTo, Writes, Shares
    <3>4. value'[WriterLock] = 1 /\ {t \in Thread : Writes(pc'[t])} = {}
      BY <2>2, <3>1, <3>3
    <3> QED
      BY <3>3, <3>4 DEF WriterUnit, OneUnit
  <2> QED
    BY <1>2, <2>1, <2>2
<1> QED
  BY <1>2, <1>3, <1>4, <1>5 DEF ReadWriteInv

\* A writer takes the unit of WriterLock when no reader has a share in it ...
LEMMA WriterAcquireKeeps ==
  ASSUME ReadWriteInv, WriterAcquire
  PROVE  ReadWriteInv'
<1> DEFINE c == currentThread
           H == {t \in Thread : Writes(pc[t])}
<1>1. /\ pc[c] \in {"outside", "wAcquire"} /\ UNCHANGED ReaderCnt /\ ReadWriteTypeOK /\ c \in Thread
      /\ P(WriterLock, "wAcquire", "writing")
  BY DEF WriterAcquire, Here, ReadWriteInv, ReadWriteTypeOK, SchedTypeOK
<1>2. /\ ReadWriteTypeOK' /\ value'[ReaderLock] = value[ReaderLock]
      /\ \/ value'[WriterLock] = value[WriterLock] /\ MovesTo("wAcquire")
         \/ /\ value[WriterLock] # 0 /\ value'[WriterLock] = value[WriterLock] - 1
            /\ MovesTo("writing")
  <2>1. "wAcquire" \in ReadWritePlace /\ "writing" \in ReadWritePlace
    BY DEF ReadWritePlace
  <2> QED
    BY <1>1, <2>1, ReadWriteP, ReadWriteObjects
<1>3. ReaderUnit'
  BY <1>1, <1>2, ReaderUnitMoves DEF HasReaderLock
<1>4. CountRight'
  BY <1>1, <1>2, CountStays DEF IsReader
<1>5. WriterUnit'
  <2>1. CASE value'[WriterLock] = value[WriterLock] /\ MovesTo("wAcquire")
    BY <1>1, <2>1, WriterStays DEF Writes, Shares
  <2>2. CASE /\ value[WriterLock] # 0 /\ value'[WriterLock] = value[WriterLock] - 1
             /\ MovesTo("writing")
    <3>1. OneUnit(value[WriterLock], H) /\ \A t \in Thread : ~Shares(pc[t])
      BY <2>2 DEF ReadWriteInv, WriterUnit
    <3>2. {t \in Thread : Writes(pc'[t])} = H \cup {c}
      BY <1>1, <2>2 DEF MovesTo, Writes
    <3>3. \A t \in Thread : ~Shares(pc'[t])
      BY <2>2, <3>1 DEF MovesTo, Shares
    <3> HIDE DEF H
    <3>4. OneUnit(value'[WriterLock], H \cup {c})
      BY <2>2, <3>1, UnitTaken
    <3> QED
      BY <3>2, <3>3, <3>4 DEF WriterUnit
  <2> QED
    BY <1>2, <2>1, <2>2
<1> QED
  BY <1>2, <1>3, <1>4, <1>5 DEF ReadWriteInv

\* ... and gives it back.
LEMMA WriterReleaseKeeps ==
  ASSUME ReadWriteInv, WriterRelease \/ ResumeWriterRelease
  PROVE  ReadWriteInv'
<1> DEFINE c == currentThread
           H == {t \in Thread : Writes(pc[t])}
<1>1. /\ pc[c] \in {"writing", "wRelease"} /\ UNCHANGED ReaderCnt /\ ReadWriteTypeOK /\ c \in Thread
      /\ V(WriterLock, "wRelease", "outside") \/ FinishRelease(WriterLock, "outside")
  BY DEF WriterRelease, ResumeWriterRelease, Here, ReadWriteInv, ReadWriteTypeOK, SchedTypeOK
<1>2. /\ ReadWriteTypeOK' /\ value'[ReaderLock] = value[ReaderLock]
      /\ \/ value'[WriterLock] = value[WriterLock] /\ MovesTo("wRelease")
         \/ value'[WriterLock] = value[WriterLock] + 1 /\ MovesTo("outside")
  <2>1. "wRelease" \in ReadWritePlace /\ "outside" \in ReadWritePlace
    BY DEF ReadWritePlace
  <2> QED
    BY <1>1, <2>1, ReadWriteV, ReadWriteObjects
<1>3. ReaderUnit'
  BY <1>1, <1>2, ReaderUnitMoves DEF HasReaderLock
<1>4. CountRight'
  BY <1>1, <1>2, CountStays DEF IsReader
<1>5. WriterUnit'
  <2>1. CASE value'[WriterLock] = value[WriterLock] /\ MovesTo("wRelease")
    BY <1>1, <2>1, WriterStays DEF Writes, Shares
  <2>2. CASE value'[WriterLock] = value[WriterLock] + 1 /\ MovesTo("outside")
    <3>1. c \in H /\ OneUnit(value[WriterLock], H) /\ \A t \in Thread : ~Shares(pc[t])
      BY <1>1 DEF ReadWriteInv, WriterUnit, Writes
    <3>2. {t \in Thread : Writes(pc'[t])} = H \ {c}
      BY <1>1, <2>2 DEF MovesTo, Writes
    <3>3. \A t \in Thread : ~Shares(pc'[t])
      BY <2>2, <3>1 DEF MovesTo, Shares
    <3> HIDE DEF H
    <3>4. OneUnit(value'[WriterLock], H \ {c})
      BY <2>2, <3>1, UnitGiven
    <3> QED
      BY <3>2, <3>3, <3>4 DEF WriterUnit
  <2> QED
    BY <1>2, <2>1, <2>2
<1> QED
  BY <1>2, <1>3, <1>4, <1>5 DEF ReadWriteInv

LEMMA ReadWriteStepKeeps ==
  ASSUME ReadWriteInv, ReadWriteStep
  PROVE  ReadWriteInv'
BY ReaderLockKeeps, ReaderCountKeeps, ReaderUncountKeeps, FirstReaderKeeps, LastReaderKeeps,
   WriterAcquireKeeps, WriterReleaseKeeps DEF ReadWriteStep

\* The timer moves nobody.
LEMMA ReadWriteYieldKeeps ==
  ASSUME ReadWriteInv, Yield
  PROVE  ReadWriteInv'
<1>1. /\ readyList # <<>> /\ YieldFrom(readyList, status)
      /\ value' = value /\ queue' = queue /\ pc' = pc /\ ReaderCnt' = ReaderCnt
      /\ SchedTypeOK /\ readyList \in Seq(Thread) /\ status \in [Thread -> ThreadStatus]
  BY DEF Yield, YieldAt, semVars, ReadWriteInv, ReadWriteTypeOK, SchedTypeOK
<1>2. SchedTypeOK'
  BY <1>1, TypeYield
<1>3. ReadWriteTypeOK'
  BY <1>1, <1>2 DEF ReadWriteInv, ReadWriteTypeOK, SemTypeOK
<1> QED
  BY <1>1, <1>3 DEF ReadWriteInv, ReaderUnit, CountRight, Readers, WriterUnit

LEMMA ReadWriteStart ==
  ASSUME Init, program = "readwrite"
  PROVE  ReadWriteInv
<1>1. /\ Semaphores(ReaderLock) = 1 /\ Semaphores(WriterLock) = 1
      /\ \A s \in Sem : Semaphores(s) \in Nat
  BY ReadWriteLockAssumption, BuffersAssumption, SynchTestsAssumption DEF Semaphores
<1>2. /\ policy \in Policy /\ currentThread \in Thread /\ idle = FALSE
      /\ status = [t \in Thread |-> IF t = currentThread THEN "RUNNING" ELSE "READY"]
      /\ readyList \in [1..(Cardinality(Thread) - 1) -> Thread \ {currentThread}]
      /\ value = [s \in Sem |-> Semaphores(s)]
      /\ queue = [s \in Sem |-> <<>>] /\ pc = [t \in Thread |-> "outside"] /\ ReaderCnt = 0
  BY DEF Init, MonitorInit, ReadWriteInit
<1>3. readyList \in Seq(Thread)
  <2>1. Cardinality(Thread) - 1 \in Nat
    BY <1>2, ReadWriteObjects, FS_CardinalityType, FS_EmptySet
  <2> QED
    BY <1>2, <2>1, SeqDef
<1>4. SchedTypeOK
  BY <1>2, <1>3 DEF SchedTypeOK, ThreadStatus
<1>5. SemTypeOK(ReadWritePlace)
  <2>1. <<>> \in Seq(Thread) /\ "outside" \in ReadWritePlace
    BY EmptySeq DEF ReadWritePlace
  <2>2. value \in [Sem -> Nat]
    BY <1>1, <1>2
  <2> QED
    BY <1>2, <2>1, <2>2 DEF SemTypeOK
<1>6. \A t \in Thread : pc[t] = "outside"
  BY <1>2
<1>7. value[ReaderLock] = 1 /\ value[WriterLock] = 1
  BY <1>1, <1>2, ReadWriteObjects
<1>8. ReaderUnit /\ WriterUnit
  BY <1>6, <1>7 DEF ReaderUnit, WriterUnit, OneUnit, HasReaderLock, Writes, Shares
<1>9. Readers = {}
  BY <1>6 DEF Readers, IsReader
<1>10. CountRight
  BY <1>2, <1>6, <1>9, FS_EmptySet DEF CountRight
<1> QED
  BY <1>2, <1>4, <1>5, <1>8, <1>10 DEF ReadWriteInv, ReadWriteTypeOK
-----------------------------------------------------------------------------
(***************************************************************************)
(* The buffers.                                                            *)
(***************************************************************************)

\* The objects of the buffers are different ones, and every thread is of one kind.
LEMMA BufferObjects ==
  /\ BufMutex \in Sem /\ Empty \in Sem /\ Full \in Sem
  /\ BufMutex # Empty /\ BufMutex # Full /\ Empty # Full
  /\ Producer \in Cond /\ Consumer \in Cond
  /\ Producers \subseteq Thread /\ Consumers \subseteq Thread
  /\ \A t \in Thread : t \in Producers <=> t \notin Consumers
  /\ BUF_LEN \in Nat \ {0} /\ IsFiniteSet(Thread)
BY BuffersAssumption, MonitorAssumption, SchedulerAssumption

\* How many threads of some kind stand at some places, when currentThread moves.
LEMMA CountMoves ==
  ASSUME NEW T, T \subseteq Thread, NEW L, NEW p, currentThread \in Thread, MovesTo(p)
  PROVE  /\ Cardinality(AtPlaces(T, L)) \in Nat
         /\ Cardinality(AtPlaces(T, L)') =
              Cardinality(AtPlaces(T, L))
                + (IF currentThread \in T /\ p \in L THEN 1 ELSE 0)
                - (IF currentThread \in T /\ pc[currentThread] \in L THEN 1 ELSE 0)
         /\ currentThread \in T /\ pc[currentThread] \in L => Cardinality(AtPlaces(T, L)) > 0
<1>0. PICK c \in Thread : c = currentThread
  OBVIOUS
<1>1. PICK S : S = AtPlaces(T, L)
  OBVIOUS
<1>2. IsFiniteSet(S) /\ Cardinality(S) \in Nat /\ (c \in S <=> c \in T /\ pc[c] \in L)
  <2>1. S \subseteq Thread
    BY <1>1 DEF AtPlaces
  <2>2. IsFiniteSet(S)
    BY <2>1, FS_Subset, BufferObjects
  <2> QED
    BY <1>1, <2>2, FS_CardinalityType DEF AtPlaces
<1>3. AtPlaces(T, L)' = IF c \in T /\ p \in L THEN S \cup {c} ELSE S \ {c}
  BY <1>0, <1>1 DEF AtPlaces, MovesTo
<1>4. Cardinality(S) = 0 <=> S = {}
  BY <1>2, FS_EmptySet
<1>5. PICK R : R = AtPlaces(T, L)'
  OBVIOUS
<1>6. R = IF c \in T /\ p \in L THEN S \cup {c} ELSE S \ {c}
  BY <1>3, <1>5
<1>7. /\ Cardinality(S \cup {c}) = IF c \in S THEN Cardinality(S) ELSE Cardinality(S) + 1
      /\ Cardinality(S \ {c}) = IF c \in S THEN Cardinality(S) - 1 ELSE Cardinality(S)
  BY <1>2, FS_AddElement, FS_RemoveElement
<1>8. Cardinality(R) = Cardinality(S) + (IF c \in T /\ p \in L THEN 1 ELSE 0)
                                    - (IF c \in T /\ pc[c] \in L THEN 1 ELSE 0)
  BY <1>2, <1>6, <1>7
<1>9. c \in T /\ pc[c] \in L => Cardinality(S) > 0
  BY <1>2, <1>4
<1> QED
  BY <1>0, <1>1, <1>2, <1>5, <1>8, <1>9

\* The accesses of some threads, one by one.
LEMMA AccessIn ==
  ASSUME NEW T, NEW x
  PROVE  x \in AccessesOf(T) <=> \E t \in T : \E i \in 0..(Accesses(t) - 1) : x = <<t, i>>
<1> DEFINE mine(t) == {<<t, i>> : i \in 0..(Accesses(t) - 1)}
<1>1. AccessesOf(T) = UNION {mine(t) : t \in T}
  BY DEF AccessesOf
<1>2. x \in UNION {mine(t) : t \in T} <=> \E t \in T : x \in mine(t)
  <2> HIDE DEF mine
  <2> QED
    OBVIOUS
<1>3. \A t : x \in mine(t) <=> \E i \in 0..(Accesses(t) - 1) : x = <<t, i>>
  OBVIOUS
<1> HIDE DEF mine
<1> QED
  BY <1>1, <1>2, <1>3

\* A turn that is not over and has made its access counts as one.
LEMMA AccessesBy ==
  ASSUME BufferInv, NEW t \in Thread
  PROVE  /\ Accesses(t) \in Nat /\ done[t] \in Nat
         /\ Accesses(t) = IF Accessed(pc[t]) THEN done[t] + 1 ELSE done[t]
BY DEF BufferInv, BufferTypeOK, Accesses, Accessed, After

\* Steps that are no accesses leave them as they were ...
LEMMA AccessesStay ==
  ASSUME NEW T, \A t \in T : Accesses(t)' = Accesses(t)
  PROVE  AccessesOf(T)' = AccessesOf(T)
BY DEF AccessesOf

\* ... and an access of currentThread is one more.
LEMMA AccessMade ==
  ASSUME BufferInv, ~Accessed(pc[currentThread]), NEW p, Accessed(p), MovesTo(p), done' = done,
         NEW T, T \subseteq Thread
  PROVE  LET x == ProduceItem(currentThread)
         IN  /\ x \notin AccessesOf(T)
             /\ AccessesOf(T)' = IF currentThread \in T THEN AccessesOf(T) \cup {x} ELSE AccessesOf(T)
<1>0. PICK c \in Thread : c = currentThread
  BY DEF BufferInv, BufferTypeOK, QueueTypes, SchedTypeOK
<1>1. PICK n \in Nat : n = done[c] /\ Accesses(c) = n
  BY <1>0, AccessesBy
<1>2. ProduceItem(currentThread) = <<c, n>>
  BY <1>0, <1>1 DEF ProduceItem
<1>3. Accesses(c)' = n + 1
  BY <1>0, <1>1 DEF MovesTo, Accesses, Accessed, After
<1>4. \A t \in T : t # c => Accesses(t)' = Accesses(t)
  BY <1>0 DEF MovesTo, Accesses
<1>5. <<c, n>> \notin AccessesOf(T)
  BY <1>1, AccessIn
<1>6. ASSUME NEW x
      PROVE  x \in AccessesOf(T)' <=> \E t \in T : \E i \in 0..(Accesses(t)' - 1) : x = <<t, i>>
  <2> DEFINE mine(t) == {<<t, i>> : i \in 0..(Accesses(t)' - 1)}
  <2>1. AccessesOf(T)' = UNION {mine(t) : t \in T}
    BY DEF AccessesOf
  <2>2. x \in UNION {mine(t) : t \in T} <=> \E t \in T : x \in mine(t)
    <3> HIDE DEF mine
    <3> QED
      OBVIOUS
  <2>3. \A t : x \in mine(t) <=> \E i \in 0..(Accesses(t)' - 1) : x = <<t, i>>
    OBVIOUS
  <2> HIDE DEF mine
  <2> QED
    BY <2>1, <2>2, <2>3
<1>7. ASSUME NEW x
      PROVE  x \in AccessesOf(T)' <=> x \in AccessesOf(T) \/ (c \in T /\ x = <<c, n>>)
  <2>1. \A i : i \in 0..(n + 1 - 1) <=> i \in 0..(n - 1) \/ i = n
    OBVIOUS
  <2>2. \A t \in T : (\E i \in 0..(Accesses(t)' - 1) : x = <<t, i>>) <=>
                       (\E i \in 0..(Accesses(t) - 1) : x = <<t, i>>) \/ (t = c /\ x = <<c, n>>)
    BY <1>1, <1>3, <1>4, <2>1
  <2> QED
    BY <1>6, <2>2, AccessIn
<1> QED
  BY <1>0, <1>2, <1>5, <1>7

\* What a thread of a Buffer may do apart from its access: stay where it is between
\* its P and its V, come through its P, or go through its V.
GateMoves(p) ==
  LET c    == currentThread
      gate == IF IsProducer THEN Empty ELSE Full
  IN  /\ p \in GatePlace
      /\ \/ /\ value'[gate] = value[gate] /\ value'[Given] = value[Given]
            /\ p \in Before <=> pc[c] \in Before
            /\ p \in After <=> pc[c] \in After
         \/ /\ value'[gate] = value[gate] - 1 /\ value'[Given] = value[Given]
            /\ pc[c] \notin Before \cup After /\ p \in Before
         \/ /\ value'[gate] = value[gate] /\ value'[Given] = value[Given] + 1
            /\ pc[c] \in After /\ p \notin Before \cup After

\* That, and the access itself, leaves the balance of the Buffer.
LEMMA GateKeeps ==
  ASSUME BufferInv, program = "Buffer", NEW p, MovesTo(p),
         \/ GateMoves(p) /\ count' = count
         \/ /\ pc[currentThread] \in Before /\ p \in After
            /\ value'[Empty] = value[Empty] /\ value'[Full] = value[Full]
            /\ count' = IF IsProducer THEN count + 1 ELSE count - 1
  PROVE  (\A t \in Thread : pc'[t] \in GatePlace) /\ Slots' /\ Items'
<1>0. PICK c \in Thread : c = currentThread
  BY DEF BufferInv, BufferTypeOK, QueueTypes, SchedTypeOK
<1>1. /\ value[Empty] \in Nat /\ value[Full] \in Nat /\ count \in Nat
      /\ (\A t \in Thread : pc[t] \in GatePlace) /\ Slots /\ Items
      /\ Before \cap After = {} /\ After \subseteq GatePlace
  BY BufferObjects DEF BufferInv, BufferTypeOK, QueueTypes, SemTypeOK, Filled, Before, After,
        GatePlace
<1>2. (c \in Producers <=> IsProducer) /\ (c \in Consumers <=> ~IsProducer)
  BY <1>0, BufferObjects DEF IsProducer
<1>3. /\ Cardinality(AtPlaces(Producers, Before)) \in Nat
      /\ Cardinality(AtPlaces(Producers, Before)') =
           Cardinality(AtPlaces(Producers, Before))
             + (IF IsProducer /\ p \in Before THEN 1 ELSE 0)
             - (IF IsProducer /\ pc[c] \in Before THEN 1 ELSE 0)
  BY <1>0, <1>2, CountMoves, BufferObjects
<1>4. /\ Cardinality(AtPlaces(Producers, After)) \in Nat
      /\ Cardinality(AtPlaces(Producers, After)') =
           Cardinality(AtPlaces(Producers, After))
             + (IF IsProducer /\ p \in After THEN 1 ELSE 0)
             - (IF IsProducer /\ pc[c] \in After THEN 1 ELSE 0)
  BY <1>0, <1>2, CountMoves, BufferObjects
<1>5. /\ Cardinality(AtPlaces(Consumers, Before)) \in Nat
      /\ Cardinality(AtPlaces(Consumers, Before)') =
           Cardinality(AtPlaces(Consumers, Before))
             + (IF ~IsProducer /\ p \in Before THEN 1 ELSE 0)
             - (IF ~IsProducer /\ pc[c] \in Before THEN 1 ELSE 0)
  BY <1>0, <1>2, CountMoves, BufferObjects
<1>6. /\ Cardinality(AtPlaces(Consumers, After)) \in Nat
      /\ Cardinality(AtPlaces(Consumers, After)') =
           Cardinality(AtPlaces(Consumers, After))
             + (IF ~IsProducer /\ p \in After THEN 1 ELSE 0)
             - (IF ~IsProducer /\ pc[c] \in After THEN 1 ELSE 0)
  BY <1>0, <1>2, CountMoves, BufferObjects
<1>7. p \in GatePlace /\ (p \in Before => p \notin After) /\ (pc[c] \in Before => pc[c] \notin After)
  BY <1>1 DEF GateMoves
<1>8. \A t \in Thread : pc'[t] \in GatePlace
  BY <1>1, <1>7 DEF MovesTo
<1>9. Slots' /\ Items'
  <2>1. CASE IsProducer
    <3>1. \/ /\ value'[Empty] = value[Empty] /\ value'[Full] = value[Full] /\ count' = count
             /\ p \in Before <=> pc[c] \in Before
             /\ p \in After <=> pc[c] \in After
          \/ /\ value'[Empty] = value[Empty] - 1 /\ value'[Full] = value[Full] /\ count' = count
             /\ pc[c] \notin Before \cup After /\ p \in Before
          \/ /\ value'[Empty] = value[Empty] /\ value'[Full] = value[Full] + 1 /\ count' = count
             /\ pc[c] \in After /\ p \notin Before \cup After
          \/ /\ value'[Empty] = value[Empty] /\ value'[Full] = value[Full] /\ count' = count + 1
             /\ pc[c] \in Before /\ p \in After
      BY <1>0, <2>1 DEF GateMoves, Given
    <3>2. /\ Cardinality(AtPlaces(Consumers, Before)') = Cardinality(AtPlaces(Consumers, Before))
          /\ Cardinality(AtPlaces(Consumers, After)') = Cardinality(AtPlaces(Consumers, After))
      BY <1>5, <1>6, <2>1
    <3>3. Slots'
      BY <1>1, <1>3, <1>5, <1>6, <1>7, <2>1, <3>1, <3>2, BufferObjects DEF Slots
    <3>4. Items'
      BY <1>1, <1>4, <1>5, <1>6, <1>7, <2>1, <3>1, <3>2 DEF Items
    <3> QED
      BY <3>3, <3>4
  <2>2. CASE ~IsProducer
    BY <1>0, <1>1, <1>3, <1>4, <1>5, <1>6, <1>7, <2>2, BufferObjects
       DEF GateMoves, Given, Slots, Items
  <2> QED
    BY <2>1, <2>2
<1> QED
  BY <1>8, <1>9

\* A step that is no access keeps the invariant.
LEMMA MoveKeeps ==
  ASSUME BufferInv, NEW p, MovesTo(p), QueueTypes', UNCHANGED <<program, list, count, taken>>,
         \/ done' = done /\ (Accessed(p) <=> Accessed(pc[currentThread]))
         \/ /\ pc[currentThread] = "bEnd" /\ p = "outside"
            /\ done' = [done EXCEPT ![currentThread] = @ + 1],
         program = "Buffer" => GateMoves(p)
  PROVE  BufferInv'
<1>0. PICK c \in Thread : c = currentThread
  BY DEF BufferInv, BufferTypeOK, QueueTypes, SchedTypeOK
<1>1. done' \in [Thread -> Nat]
  BY <1>0 DEF BufferInv, BufferTypeOK
<1>2. ASSUME NEW t \in Thread
      PROVE  Accesses(t)' = Accesses(t)
  <2>1. CASE done' = done /\ (Accessed(p) <=> Accessed(pc[c]))
    BY <1>0, <2>1 DEF MovesTo, Accesses, Accessed, After
  <2>2. CASE pc[c] = "bEnd" /\ p = "outside" /\ done' = [done EXCEPT ![c] = @ + 1]
    <3>1. done[t] \in Nat /\ done'[t] = IF t = c THEN done[t] + 1 ELSE done[t]
      BY <2>2 DEF BufferInv, BufferTypeOK
    <3> QED
      BY <1>0, <2>2, <3>1 DEF MovesTo, Accesses
  <2> QED
    BY <1>0, <2>1, <2>2
<1>3. AccessesOf(Producers)' = AccessesOf(Producers) /\ AccessesOf(Consumers)' = AccessesOf(Consumers)
  BY <1>2, AccessesStay, BufferObjects
<1>4. BufferTypeOK'
  BY <1>1, <1>3 DEF BufferInv, BufferTypeOK
<1>5. Stored' = Stored
  BY DEF Stored
<1>6. Accounted'
  BY <1>3, <1>5 DEF BufferInv, Accounted, Produced
<1>7. InOrder'
  BY DEF BufferInv, InOrder
<1>8. Filled'
  BY GateKeeps DEF BufferInv, Filled
<1> QED
  BY <1>4, <1>6, <1>7, <1>8 DEF BufferInv

\* The parts of the invariant that the steps below use.
LEMMA BufferFacts ==
  ASSUME BufferInv
  PROVE  /\ SchedTypeOK /\ SemTypeOK(BufferPlace) /\ waitQueue \in [Cond -> Seq(Thread)]
         /\ currentThread \in Thread /\ value \in [Sem -> Nat] /\ pc \in [Thread -> BufferPlace]
         /\ program = "Buffer" => pc[currentThread] \in GatePlace
BY DEF BufferInv, BufferTypeOK, QueueTypes, SchedTypeOK, SemTypeOK, Filled

\* P and V on the two gates of a Buffer.
LEMMA GateStepKeeps ==
  ASSUME BufferInv, EnterGate \/ LeaveGate \/ ResumeLeaveGate
  PROVE  BufferInv'
<1> DEFINE c == currentThread
           gate == IF IsProducer THEN Empty ELSE Full
<1>1. gate \in Sem /\ Given \in Sem /\ gate # Given
  BY BufferObjects DEF Given
<1>2. {"bGate", "bLock", "bGiving", "bEnd"} \subseteq BufferPlace
  BY DEF BufferPlace
<1>3. CASE EnterGate
  <2>1. /\ pc[c] \in {"outside", "bGate"} /\ P(gate, "bGate", "bLock")
        /\ UNCHANGED <<program, list, count, taken, done, waitQueue>>
    BY <1>3 DEF EnterGate, Here, ListUnchanged, bufVars, monVars
  <2>2. /\ SchedTypeOK' /\ SemTypeOK(BufferPlace)' /\ value'[Given] = value[Given]
        /\ \/ value'[gate] = value[gate] /\ MovesTo("bGate")
           \/ value'[gate] = value[gate] - 1 /\ MovesTo("bLock")
    BY <1>1, <1>2, <2>1, BufferFacts, MovesP
  <2>3. QueueTypes'
    BY <2>1, <2>2, BufferFacts DEF QueueTypes
  <2>4. CASE value'[gate] = value[gate] /\ MovesTo("bGate")
    <3>1. GateMoves("bGate")
      BY <2>1, <2>2, <2>4 DEF GateMoves, GatePlace, Before, After
    <3> QED
      BY <2>1, <2>3, <2>4, <3>1, MoveKeeps DEF Accessed, After
  <2>5. CASE value'[gate] = value[gate] - 1 /\ MovesTo("bLock")
    <3>1. GateMoves("bLock")
      BY <2>1, <2>2, <2>5 DEF GateMoves, GatePlace, Before, After
    <3> QED
      BY <2>1, <2>3, <2>5, <3>1, MoveKeeps DEF Accessed, After
  <2> QED
    BY <2>2, <2>4, <2>5
<1>4. CASE LeaveGate \/ ResumeLeaveGate
  <2>1. /\ pc[c] \in {"bGive", "bGiving"}
        /\ V(Given, "bGiving", "bEnd") \/ FinishRelease(Given, "bEnd")
        /\ UNCHANGED <<program, list, count, taken, done, waitQueue>>
    BY <1>4 DEF LeaveGate, ResumeLeaveGate, Here, FinishRelease, ListUnchanged, bufVars, monVars
  <2>2. /\ SchedTypeOK' /\ SemTypeOK(BufferPlace)' /\ value'[gate] = value[gate]
        /\ \/ value'[Given] = value[Given] /\ MovesTo("bGiving")
           \/ value'[Given] = value[Given] + 1 /\ MovesTo("bEnd")
    BY <1>1, <1>2, <2>1, BufferFacts, MovesV
  <2>3. QueueTypes'
    BY <2>1, <2>2, BufferFacts DEF QueueTypes
  <2>4. CASE value'[Given] = value[Given] /\ MovesTo("bGiving")
    <3>1. GateMoves("bGiving")
      BY <2>1, <2>2, <2>4 DEF GateMoves, GatePlace, Before, After
    <3> QED
      BY <2>1, <2>3, <2>4, <3>1, MoveKeeps DEF Accessed, After
  <2>5. CASE value'[Given] = value[Given] + 1 /\ MovesTo("bEnd")
    <3>1. GateMoves("bEnd")
      BY <2>1, <2>2, <2>5 DEF GateMoves, GatePlace, Before, After
    <3> QED
      BY <2>1, <2>3, <2>5, <3>1, MoveKeeps DEF Accessed, After
  <2> QED
    BY <2>2, <2>4, <2>5
<1> QED
  BY <1>3, <1>4

\* A step that leaves the gates and the items alone.
LEMMA OtherKeeps ==
  ASSUME BufferInv, QueueTypes', UNCHANGED <<program, list, count, taken, done>>,
         NEW p, MovesTo(p), Accessed(p) <=> Accessed(pc[currentThread]),
         program = "Buffer" =>
           /\ value'[Empty] = value[Empty] /\ value'[Full] = value[Full]
           /\ \/ p \in Before /\ pc[currentThread] \in Before
              \/ p \in After /\ pc[currentThread] \in After
  PROVE  BufferInv'
<1>1. program = "Buffer" => GateMoves(p)
  BY DEF GateMoves, GatePlace, Before, After, Given
<1> QED
  BY <1>1, MoveKeeps

\* The lock of the list.
LEMMA LockStepKeeps ==
  ASSUME BufferInv,
         LockList \/ BeginWait \/ ResumeBeginWait \/ UnlockList \/ ResumeUnlockList
  PROVE  BufferInv'
<1> DEFINE c == currentThread
<1>1. /\ UNCHANGED <<program, list, count, taken, done, waitQueue>>
  BY DEF LockList, BeginWait, ResumeBeginWait, UnlockList, ResumeUnlockList, Acquire, Release,
         FinishRelease, ListUnchanged, bufVars, monVars
<1>2. {"bLocking", "bTest", "bWaitRelease", "bSleep", "bReleasing", "bGive", "bEnd"} \subseteq BufferPlace
  BY DEF BufferPlace
<1>3. CASE LockList
  <2>1. /\ P(BufMutex, "bLocking", "bTest") /\ pc[c] \in {"outside", "bLock", "bLocking"}
        /\ program = "Buffer" => pc[c] # "outside"
    BY <1>3 DEF LockList, Acquire, Here, Uses
  <2>2. /\ SchedTypeOK' /\ SemTypeOK(BufferPlace)'
        /\ value'[Empty] = value[Empty] /\ value'[Full] = value[Full]
        /\ MovesTo("bLocking") \/ MovesTo("bTest")
    BY <1>2, <2>1, BufferFacts, BufferObjects, MovesP
  <2>3. QueueTypes'
    BY <1>1, <2>2, BufferFacts DEF QueueTypes
  <2> QED
    BY <1>1, <2>1, <2>2, <2>3, OtherKeeps DEF Before, Accessed, After
<1>4. CASE BeginWait \/ ResumeBeginWait
  <2>1. /\ V(BufMutex, "bWaitRelease", "bSleep") \/ FinishRelease(BufMutex, "bSleep")
        /\ pc[c] \in {"bTest", "bWaitRelease"} /\ program # "Buffer"
    BY <1>4, BufferFacts DEF BeginWait, ResumeBeginWait, Release, Here, MustWait, Uses, GatePlace,
                             Before, After
  <2>2. /\ SchedTypeOK' /\ SemTypeOK(BufferPlace)'
        /\ MovesTo("bWaitRelease") \/ MovesTo("bSleep")
    BY <1>2, <2>1, BufferFacts, BufferObjects, MovesV
  <2>3. QueueTypes'
    BY <1>1, <2>2, BufferFacts DEF QueueTypes
  <2> QED
    BY <1>1, <2>1, <2>2, <2>3, OtherKeeps DEF Accessed, After
<1>5. CASE UnlockList \/ ResumeUnlockList
  <2>1. /\ V(BufMutex, "bReleasing", AfterRelease) \/ FinishRelease(BufMutex, AfterRelease)
        /\ pc[c] \in {"bRelease", "bReleasing"}
    BY <1>5 DEF UnlockList, ResumeUnlockList, Release, Here
  <2>2. PICK e \in {"bGive", "bEnd"} : e = AfterRelease /\ (program = "Buffer" => e = "bGive")
    BY DEF AfterRelease, Uses
  <2>3. V(BufMutex, "bReleasing", e) \/ FinishRelease(BufMutex, e)
    BY <2>1, <2>2
  <2>4. /\ SchedTypeOK' /\ SemTypeOK(BufferPlace)'
        /\ value'[Empty] = value[Empty] /\ value'[Full] = value[Full]
        /\ MovesTo("bReleasing") \/ MovesTo(e)
    BY <1>2, <2>2, <2>3, BufferFacts, BufferObjects, MovesV
  <2>5. QueueTypes'
    BY <1>1, <2>4, BufferFacts DEF QueueTypes
  <2> QED
    BY <1>1, <2>1, <2>2, <2>4, <2>5, OtherKeeps DEF Accessed, After
<1> QED
  BY <1>3, <1>4, <1>5

\* The conditions.
LEMMA ConditionStepKeeps ==
  ASSUME BufferInv, SleepInWait \/ SignalOther \/ NobodyToSignal
  PROVE  BufferInv'
<1> DEFINE c == currentThread
<1>1. /\ UNCHANGED <<program, list, count, taken, done>>
      /\ pc[c] \in {"bSleep", "bSignal"} /\ program # "Buffer"
      /\ value' = value /\ queue' = queue
  BY BufferFacts DEF SleepInWait, SignalOther, NobodyToSignal, SleepOn, WakeFirst, Step, Here,
                     ListUnchanged, bufVars, GatePlace, Before, After
<1>2. {"bLocking", "bRelease"} \subseteq BufferPlace /\ WaitsOn \in Cond /\ Signals \in Cond
  BY BufferObjects DEF BufferPlace, WaitsOn, Signals
<1>3. CASE SleepInWait
  <2>1. /\ pc[c] = "bSleep" /\ pc' = [pc EXCEPT ![c] = "bLocking"] /\ Sleep
        /\ waitQueue' = [waitQueue EXCEPT ![WaitsOn] = Append(waitQueue[WaitsOn], c)]
    BY <1>3 DEF SleepInWait, SleepOn, Here, Goto
  <2>2. SchedTypeOK'
    BY <2>1, BufferFacts, TypeSleep
  <2>3. Append(waitQueue[WaitsOn], c) \in Seq(Thread)
    BY <1>2, BufferFacts
  <2>4. waitQueue' \in [Cond -> Seq(Thread)]
    BY <1>2, <2>1, <2>3, BufferFacts
  <2>5. SemTypeOK(BufferPlace)' /\ MovesTo("bLocking")
    BY <1>1, <1>2, <2>1, BufferFacts DEF SemTypeOK, MovesTo
  <2>6. QueueTypes'
    BY <2>2, <2>4, <2>5 DEF QueueTypes
  <2> QED
    BY <1>1, <2>1, <2>5, <2>6, OtherKeeps DEF Accessed, After
<1>4. CASE SignalOther
  <2>1. PICK h : h = Head(waitQueue[Signals])
    OBVIOUS
  <2>2. /\ pc[c] = "bSignal" /\ pc' = [pc EXCEPT ![c] = "bRelease"]
        /\ waitQueue[Signals] # <<>>
        /\ MakeReady(h) \/ MakeReadyAndYield(h)
        /\ waitQueue' = [waitQueue EXCEPT ![Signals] = Tail(waitQueue[Signals])]
    BY <1>4, <2>1 DEF SignalOther, WakeFirst, Here, Goto
  <2>3. h \in Thread /\ Tail(waitQueue[Signals]) \in Seq(Thread)
    <3>1. waitQueue[Signals] \in Seq(Thread) /\ waitQueue[Signals] # <<>>
      BY <1>2, <2>2, BufferFacts
    <3>2. PICK q \in Seq(Thread) : q = waitQueue[Signals] /\ q # <<>>
      BY <3>1
    <3>3. Head(q) \in Thread /\ Tail(q) \in Seq(Thread)
      BY <3>2, TailOfInjective
    <3> QED
      BY <2>1, <3>2, <3>3
  <2>4. SchedTypeOK'
    BY <2>2, <2>3, BufferFacts, TypeMakeReady
  <2>5. waitQueue' \in [Cond -> Seq(Thread)]
    BY <1>2, <2>2, <2>3, BufferFacts
  <2>6. SemTypeOK(BufferPlace)' /\ MovesTo("bRelease")
    BY <1>1, <1>2, <2>2, BufferFacts DEF SemTypeOK, MovesTo
  <2>7. QueueTypes'
    BY <2>4, <2>5, <2>6 DEF QueueTypes
  <2> QED
    BY <1>1, <2>2, <2>6, <2>7, OtherKeeps DEF Accessed, After
<1>5. CASE NobodyToSignal
  <2>1. /\ pc[c] = "bSignal" /\ pc' = [pc EXCEPT ![c] = "bRelease"]
        /\ UNCHANGED <<schedVars, waitQueue>>
    BY <1>5 DEF NobodyToSignal, Step, Goto, monVars
  <2>2. SchedTypeOK' /\ SemTypeOK(BufferPlace)' /\ MovesTo("bRelease")
    BY <1>1, <1>2, <2>1, BufferFacts DEF SemTypeOK, SchedTypeOK, schedVars, MovesTo
  <2>3. QueueTypes'
    BY <2>1, <2>2, BufferFacts DEF QueueTypes
  <2> QED
    BY <1>1, <2>1, <2>2, <2>3, OtherKeeps DEF Accessed, After
<1> QED
  BY <1>3, <1>4, <1>5

\* The end of a turn.
LEMMA EndTurnKeeps ==
  ASSUME BufferInv, ProducerThread \/ ConsumerThread
  PROVE  BufferInv'
<1> DEFINE c == currentThread
<1>1. /\ pc[c] = "bEnd" /\ pc' = [pc EXCEPT ![c] = "outside"]
      /\ UNCHANGED <<value, queue, schedVars, waitQueue, program, list, count, taken>>
      /\ done' = [done EXCEPT ![c] = @ + 1]
  BY DEF ProducerThread, ConsumerThread, EndTurn, Step, Goto, monVars
<1>2. SchedTypeOK' /\ SemTypeOK(BufferPlace)' /\ MovesTo("outside")
  BY <1>1, BufferFacts DEF SemTypeOK, SchedTypeOK, schedVars, MovesTo, BufferPlace
<1>3. QueueTypes'
  BY <1>1, <1>2, BufferFacts DEF QueueTypes
<1>4. program = "Buffer" => GateMoves("outside")
  BY <1>1, BufferObjects DEF GateMoves, Given, GatePlace, Before, After
<1> QED
  BY <1>1, <1>2, <1>3, <1>4, MoveKeeps

\* Nothing of the buffers depends on the ready list alone.
LEMMA BufferStays ==
  ASSUME BufferInv, SchedTypeOK',
         UNCHANGED <<value, queue, pc, waitQueue, program, list, count, done, taken>>
  PROVE  BufferInv'
<1>1. QueueTypes'
  BY BufferFacts DEF QueueTypes, SemTypeOK
<1>2. Slots' = Slots /\ Items' = Items /\ Stored' = Stored
  BY DEF Slots, Items, Stored, AtPlaces
<1>3. AccessesOf(Producers)' = AccessesOf(Producers) /\ AccessesOf(Consumers)' = AccessesOf(Consumers)
  BY DEF AccessesOf, Accesses
<1>4. BufferTypeOK' /\ Filled'
  BY <1>1, <1>2, <1>3 DEF BufferInv, BufferTypeOK, Filled
<1>5. Accounted' /\ InOrder'
  BY <1>2, <1>3 DEF BufferInv, Accounted, Produced, InOrder
<1> QED
  BY <1>4, <1>5 DEF BufferInv

\* The timer moves nobody.
LEMMA BufferYieldKeeps ==
  ASSUME BufferInv, Yield
  PROVE  BufferInv'
<1>1. /\ readyList # <<>> /\ YieldFrom(readyList, status)
      /\ UNCHANGED <<value, queue, pc, waitQueue, program, list, count, done, taken>>
      /\ SchedTypeOK /\ readyList \in Seq(Thread) /\ status \in [Thread -> ThreadStatus]
  BY BufferFacts DEF Yield, YieldAt, semVars, monVars, bufVars, SchedTypeOK
<1>2. SchedTypeOK'
  BY <1>1, TypeYield
<1> QED
  BY <1>1, <1>2, BufferStays

\* The access itself, up to what it does to the list.
LEMMA AccessMoves ==
  ASSUME BufferInv, Put \/ Take
  PROVE  \E p \in {"bSignal", "bRelease"} :
           /\ pc[currentThread] = "bTest" /\ MovesTo(p) /\ QueueTypes' /\ program' = program
           /\ done' = done /\ UNCHANGED value
           /\ program = "Buffer" => p = "bRelease"
<1> DEFINE c == currentThread
<1>1. PICK p \in {"bSignal", "bRelease"} : p = AfterAccess /\ (program = "Buffer" => p = "bRelease")
  BY DEF AfterAccess, CallsSignal, Uses
<1>2. /\ pc[c] = "bTest" /\ pc' = [pc EXCEPT ![c] = p]
      /\ UNCHANGED <<value, queue, schedVars, waitQueue, program, done>>
  BY <1>1 DEF Put, Take, Step, Goto, monVars
<1>3. SchedTypeOK' /\ SemTypeOK(BufferPlace)' /\ MovesTo(p)
  BY <1>1, <1>2, BufferFacts DEF SemTypeOK, SchedTypeOK, schedVars, MovesTo, BufferPlace
<1>4. QueueTypes'
  BY <1>2, <1>3, BufferFacts DEF QueueTypes
<1> QED
  BY <1>1, <1>2, <1>3, <1>4

\* What a producer stores is new, and comes after what it stored before.
LEMMA PutKeeps ==
  ASSUME BufferInv, Put
  PROVE  BufferInv'
<1>0. PICK c \in Thread : c = currentThread
  BY BufferFacts
<1>1. PICK p \in {"bSignal", "bRelease"} :
        /\ pc[c] = "bTest" /\ MovesTo(p) /\ QueueTypes' /\ program' = program
        /\ done' = done /\ UNCHANGED value
        /\ program = "Buffer" => p = "bRelease"
  BY <1>0, AccessMoves
<1>2. PICK n \in Nat : n = count /\ n <= Len(list)
  BY DEF BufferInv, BufferTypeOK
<1>3. PICK d \in Nat : d = done[c] /\ Accesses(c) = d
  BY <1>0, <1>1, AccessesBy DEF Accessed, After
<1>4. PICK x : x = ProduceItem(currentThread)
  OBVIOUS
<1>5. c \in Producers /\ c \notin Consumers /\ x = <<c, d>> /\ IsProducer /\ x \in Producers \X Nat
  BY <1>0, <1>3, <1>4, BufferObjects DEF Put, IsProducer, ProduceItem
<1>6. /\ count' = n + 1 /\ taken' = taken
      /\ list' = IF n < Len(list) THEN [list EXCEPT ![n + 1] = x] ELSE Append(list, x)
      /\ program = "BufferCnd" => n # BUF_LEN
  BY <1>2, <1>4, <1>5 DEF Put, MustWait, Uses, ListAppend
<1>7. /\ list' \in Seq(Producers \X Nat) /\ n + 1 <= Len(list')
      /\ n = Len(list) => Len(list') = n + 1
      /\ \A i \in 1..n : list'[i] = list[i]
      /\ list'[n + 1] = x
  <2>1. PICK l \in Seq(Producers \X Nat) : l = list
    BY DEF BufferInv, BufferTypeOK
  <2>2. CASE n < Len(l)
    <3>1. list' = [l EXCEPT ![n + 1] = x]
      BY <1>6, <2>1, <2>2
    <3>2. n + 1 \in 1..Len(l)
      BY <1>2, <2>1, <2>2
    <3>3. /\ list' \in Seq(Producers \X Nat) /\ Len(list') = Len(l)
          /\ \A i \in 1..Len(l) : list'[i] = IF i = n + 1 THEN x ELSE l[i]
      BY <1>5, <2>1, <3>1, <3>2, ExceptSeq
    <3> QED
      BY <1>2, <2>1, <2>2, <3>2, <3>3
  <2>3. CASE n = Len(l)
    <3>1. list' = Append(l, x)
      BY <1>6, <2>1, <2>3
    <3> QED
      BY <1>2, <1>5, <2>1, <2>3, <3>1, AppendProperties
  <2> QED
    BY <1>2, <2>1, <2>2, <2>3
<1>8. x \notin Produced /\ Produced' = Produced \cup {x}
      /\ AccessesOf(Consumers)' = AccessesOf(Consumers)
  BY <1>0, <1>1, <1>4, <1>5, AccessMade, BufferObjects DEF Produced, Accessed, After
<1>9. x \notin Stored /\ x \notin taken
  BY <1>8 DEF BufferInv, Accounted
<1>10. Stored' = Stored \cup {x}
  BY <1>2, <1>6, <1>7 DEF Stored
<1>11. BufferTypeOK'
  BY <1>1, <1>6, <1>7, <1>8 DEF BufferInv, BufferTypeOK
<1>12. Filled'
  <2>1. program = "Buffer" => (\A t \in Thread : pc'[t] \in GatePlace) /\ Slots' /\ Items'
    BY <1>0, <1>1, <1>2, <1>5, <1>6, GateKeeps DEF Before, After
  <2>2. program = "BufferCnd" => count' <= BUF_LEN
    BY <1>2, <1>6, BufferObjects DEF BufferInv, Filled
  <2>3. program = "SynchList" => count' = Len(list')
    BY <1>2, <1>6, <1>7 DEF BufferInv, Filled
  <2> QED
    BY <1>1, <2>1, <2>2, <2>3 DEF Filled
<1>13. Accounted'
  <2>1. \A i \in 1..n : list[i] # x
    BY <1>2, <1>9 DEF Stored
  <2>2. \A i, j \in 1..(n + 1) : list'[i] = list'[j] => i = j
    <3>1. \A i, j \in 1..n : list[i] = list[j] => i = j
      BY <1>2 DEF BufferInv, Accounted
    <3>2. \A i \in 1..(n + 1) : i \in 1..n \/ i = n + 1
      OBVIOUS
    <3> QED
      BY <1>7, <2>1, <3>1, <3>2
  <2> QED
    BY <1>6, <1>8, <1>9, <1>10, <2>2 DEF BufferInv, Accounted
<1>14. InOrder'
  <2> SUFFICES ASSUME program = "SynchList"
               PROVE  InOrder'
    BY <1>1 DEF InOrder
  <2>1. \A y \in Produced : y[1] = c => y[2] < d
    <3> SUFFICES ASSUME NEW y \in Produced, y[1] = c
                 PROVE  y[2] < d
      OBVIOUS
    <3>1. PICK t \in Producers : \E i \in 0..(Accesses(t) - 1) : y = <<t, i>>
      BY AccessIn DEF Produced
    <3>2. PICK i \in 0..(Accesses(t) - 1) : y = <<t, i>>
      BY <3>1
    <3> QED
      BY <1>3, <3>2
  <2>2. \A y \in taken : y[1] = c => y[2] < d
    BY <2>1 DEF BufferInv, Accounted
  <2>3. \A i \in 1..n : list[i][1] = c => list[i][2] < d
    BY <1>2, <2>1 DEF BufferInv, Accounted, Stored
  <2>4. /\ \A i \in 1..n : \A y \in taken : y[1] = list[i][1] => y[2] < list[i][2]
        /\ \A i, j \in 1..n : j < i /\ list[j][1] = list[i][1] => list[j][2] < list[i][2]
    BY <1>2 DEF BufferInv, InOrder
  <2>5. x[1] = c /\ x[2] = d
    BY <1>5
  <2>6. \A i \in 1..(n + 1) : i \in 1..n \/ i = n + 1
    OBVIOUS
  <2>7. \A i \in 1..(n + 1) : \A y \in taken : y[1] = list'[i][1] => y[2] < list'[i][2]
    BY <1>7, <2>2, <2>4, <2>5, <2>6
  <2>8. ASSUME NEW i \in 1..(n + 1), NEW j \in 1..(n + 1), j < i, list'[j][1] = list'[i][1]
        PROVE  list'[j][2] < list'[i][2]
    <3>1. j \in 1..n /\ list'[j] = list[j]
      BY <1>7, <2>8
    <3>2. CASE i \in 1..n
      BY <1>7, <2>4, <2>8, <3>1, <3>2
    <3>3. CASE i = n + 1
      BY <1>7, <2>3, <2>5, <2>8, <3>1, <3>3
    <3> QED
      BY <2>6, <3>2, <3>3
  <2> QED
    BY <1>6, <2>7, <2>8 DEF InOrder
<1> QED
  BY <1>1, <1>11, <1>12, <1>13, <1>14 DEF BufferInv

\* What a consumer takes off was stored and not yet taken; of a SynchList it comes
\* before what is left of its producer's.
LEMMA TakeKeeps ==
  ASSUME BufferInv, Take
  PROVE  BufferInv'
<1>0. PICK c \in Thread : c = currentThread
  BY BufferFacts
<1>1. PICK p \in {"bSignal", "bRelease"} :
        /\ pc[c] = "bTest" /\ MovesTo(p) /\ QueueTypes' /\ program' = program
        /\ done' = done /\ UNCHANGED value
        /\ program = "Buffer" => p = "bRelease"
  BY <1>0, AccessMoves
<1>2. c \notin Producers /\ c \in Consumers /\ ~IsProducer /\ ~MustWait /\ count' = count - 1
  BY <1>0, BufferObjects DEF Take, IsProducer
<1>3. PICK n \in Nat : n = count /\ n > 0 /\ n <= Len(list)
  <2>1. count \in Nat /\ count <= Len(list)
    BY DEF BufferInv, BufferTypeOK
  <2>2. CASE program = "Buffer"
    <3>0. pc[c] \in Before /\ Consumers \subseteq Thread /\ Producers \subseteq Thread
      BY <1>1, BufferObjects DEF Before
    <3>1. /\ Cardinality(AtPlaces(Consumers, Before)) \in Nat
          /\ Cardinality(AtPlaces(Consumers, Before)) > 0
      BY <1>0, <1>1, <1>2, <3>0, CountMoves
    <3>2. Cardinality(AtPlaces(Producers, After)) \in Nat
      BY <1>0, <1>1, <3>0, CountMoves
    <3>3. value[Full] \in Nat /\ Items
      BY <2>2, BufferFacts, BufferObjects DEF BufferInv, Filled
    <3> QED
      BY <2>1, <3>1, <3>2, <3>3 DEF Items
  <2>3. CASE program # "Buffer"
    BY <1>2, <2>1, <2>3 DEF MustWait, Uses, BufferInv, Kinds
  <2> QED
    BY <2>1, <2>2, <2>3
<1>4. PICK l \in Seq(Producers \X Nat) : l = list
  BY DEF BufferInv, BufferTypeOK
<1>5. PICK k \in 1..n : k = IF program = "SynchList" THEN 1 ELSE n
  BY <1>3
<1>6. PICK y : y = l[k]
  OBVIOUS
<1>7. count' = n - 1 /\ taken' = taken \cup {y}
  BY <1>2, <1>3, <1>4, <1>5, <1>6 DEF Take, Uses
<1>8. /\ list' \in Seq(Producers \X Nat) /\ n - 1 <= Len(list')
      /\ program = "SynchList" => Len(list') = Len(l) - 1
      /\ \A i \in 1..(n - 1) : list'[i] = l[IF program = "SynchList" THEN i + 1 ELSE i]
  <2>1. CASE program = "SynchList"
    <3>1. list' = Tail(l) /\ l # <<>>
      BY <1>3, <1>4, <2>1 DEF Take, Uses, ListRemove
    <3>2. /\ Tail(l) \in Seq(Producers \X Nat) /\ Len(Tail(l)) = Len(l) - 1
          /\ \A i \in 1..(Len(l) - 1) : Tail(l)[i] = l[i + 1]
      BY <3>1, HeadTailProperties
    <3> QED
      BY <1>3, <1>4, <2>1, <3>1, <3>2
  <2>2. CASE program # "SynchList"
    BY <1>3, <1>4, <2>2 DEF Take, Uses
  <2> QED
    BY <2>1, <2>2
<1>9. PICK x : x = ProduceItem(currentThread)
  OBVIOUS
<1>10. /\ x \notin AccessesOf(Consumers) /\ AccessesOf(Consumers)' = AccessesOf(Consumers) \cup {x}
       /\ Produced' = Produced
  BY <1>0, <1>1, <1>2, <1>9, AccessMade, BufferObjects DEF Produced, Accessed, After
<1>11. /\ \A i, j \in 1..n : l[i] = l[j] => i = j
       /\ Stored = {l[i] : i \in 1..n} /\ y \in Stored /\ y \notin taken
  BY <1>3, <1>4, <1>5, <1>6 DEF BufferInv, Accounted, Stored
<1>12. Stored' = Stored \ {y}
  <2>1. Stored' = {list'[i] : i \in 1..(n - 1)}
    BY <1>7 DEF Stored
  <2>2. \A z : /\ z \in Stored' <=> \E i \in 1..(n - 1) : z = list'[i]
               /\ z \in Stored <=> \E i \in 1..n : z = l[i]
    BY <1>11, <2>1
  <2>3. CASE program = "SynchList"
    <3>1. k = 1
      BY <1>5, <2>3
    <3>2. ASSUME NEW i \in 1..(n - 1)
          PROVE  list'[i] = l[i + 1] /\ i + 1 \in 1..n /\ l[i + 1] # y
      <4>1. list'[i] = l[i + 1]
        BY <1>8, <2>3
      <4>2. i + 1 \in 1..n /\ 1 \in 1..n /\ i + 1 # 1
        OBVIOUS
      <4>3. l[i + 1] # l[1]
        BY <1>11, <4>2
      <4> QED
        BY <1>6, <3>1, <4>1, <4>2, <4>3
    <3>3. ASSUME NEW i \in 1..n, l[i] # y
          PROVE  i - 1 \in 1..(n - 1) /\ list'[i - 1] = l[i]
      <4>1. i # 1
        BY <1>6, <3>1, <3>3
      <4>2. i - 1 \in 1..(n - 1) /\ (i - 1) + 1 = i
        BY <4>1
      <4>3. list'[i - 1] = l[(i - 1) + 1]
        BY <1>8, <2>3, <4>2
      <4> QED
        BY <4>2, <4>3
    <3>4. ASSUME NEW z \in Stored'
          PROVE  z \in Stored /\ z # y
      <4>1. PICK i \in 1..(n - 1) : z = list'[i]
        BY <2>2
      <4> QED
        BY <2>2, <3>2, <4>1
    <3>5. ASSUME NEW z \in Stored, z # y
          PROVE  z \in Stored'
      <4>1. PICK i \in 1..n : z = l[i]
        BY <2>2
      <4>2. i - 1 \in 1..(n - 1) /\ z = list'[i - 1]
        BY <3>2, <3>3, <3>5, <4>1
      <4> QED
        BY <2>2, <4>2
    <3> QED
      BY <3>4, <3>5
  <2>4. CASE program # "SynchList"
    <3>1. k = n
      BY <1>5, <2>4
    <3>2. ASSUME NEW i \in 1..(n - 1)
          PROVE  list'[i] = l[i] /\ i \in 1..n /\ l[i] # y
      <4>1. list'[i] = l[i]
        BY <1>8, <2>4
      <4>2. i \in 1..n /\ n \in 1..n /\ i # n
        BY <1>3
      <4> QED
        BY <1>6, <1>11, <3>1, <4>1, <4>2
    <3>3. ASSUME NEW i \in 1..n, l[i] # y
          PROVE  i \in 1..(n - 1)
      BY <1>6, <3>1, <3>3
    <3>4. ASSUME NEW z \in Stored'
          PROVE  z \in Stored /\ z # y
      <4>1. PICK i \in 1..(n - 1) : z = list'[i]
        BY <2>2
      <4> QED
        BY <2>2, <3>2, <4>1
    <3>5. ASSUME NEW z \in Stored, z # y
          PROVE  z \in Stored'
      <4>1. PICK i \in 1..n : z = l[i]
        BY <2>2
      <4>2. i \in 1..(n - 1) /\ z = list'[i]
        BY <3>2, <3>3, <3>5, <4>1
      <4> QED
        BY <2>2, <4>2
    <3> QED
      BY <3>4, <3>5
  <2> QED
    BY <2>3, <2>4
<1>13. /\ IsFiniteSet(taken') /\ IsFiniteSet(AccessesOf(Consumers)')
       /\ Cardinality(taken') = Cardinality(AccessesOf(Consumers)')
  <2>1. PICK T, A : /\ T = taken /\ A = AccessesOf(Consumers)
                    /\ IsFiniteSet(T) /\ IsFiniteSet(A) /\ Cardinality(T) = Cardinality(A)
    BY DEF BufferInv, BufferTypeOK, Accounted
  <2>2. taken' = T \cup {y} /\ y \notin T
    BY <1>7, <1>11, <2>1
  <2>3. AccessesOf(Consumers)' = A \cup {x} /\ x \notin A
    BY <1>10, <2>1
  <2>4. /\ IsFiniteSet(T \cup {y}) /\ Cardinality(T \cup {y}) = Cardinality(T) + 1
        /\ IsFiniteSet(A \cup {x}) /\ Cardinality(A \cup {x}) = Cardinality(A) + 1
    BY <2>1, <2>2, <2>3, FS_AddElement
  <2> QED
    BY <2>1, <2>2, <2>3, <2>4
<1>14. BufferTypeOK'
  BY <1>1, <1>3, <1>7, <1>8, <1>13 DEF BufferInv, BufferTypeOK
<1>15. Filled'
  <2>1. program = "Buffer" => (\A t \in Thread : pc'[t] \in GatePlace) /\ Slots' /\ Items'
    BY <1>0, <1>1, <1>2, GateKeeps DEF Before, After
  <2>2. program = "BufferCnd" => count' <= BUF_LEN
    BY <1>3, <1>7, BufferObjects DEF BufferInv, Filled
  <2>3. program = "SynchList" => count' = Len(list')
    BY <1>3, <1>4, <1>7, <1>8 DEF BufferInv, Filled
  <2> QED
    BY <1>1, <2>1, <2>2, <2>3 DEF Filled
<1>16. Accounted'
  <2>1. \A i, j \in 1..(n - 1) : list'[i] = list'[j] => i = j
    <3> SUFFICES ASSUME NEW i \in 1..(n - 1), NEW j \in 1..(n - 1), list'[i] = list'[j]
                 PROVE  i = j
      OBVIOUS
    <3>1. CASE program = "SynchList"
      <4>0. list'[i] = l[i + 1] /\ list'[j] = l[j + 1]
        BY <1>8, <3>1
      <4>1. i + 1 \in 1..n /\ j + 1 \in 1..n
        OBVIOUS
      <4>2. l[i + 1] = l[j + 1]
        BY <4>0
      <4>3. i + 1 = j + 1
        BY <1>11, <4>1, <4>2
      <4> QED
        BY <4>3
    <3>2. CASE program # "SynchList"
      <4>1. l[i] = l[j] /\ i \in 1..n /\ j \in 1..n
        BY <1>8, <3>2
      <4> QED
        BY <1>11, <4>1
    <3> QED
      BY <3>1, <3>2
  <2>2. Stored' \cup taken' = Produced' /\ Stored' \cap taken' = {}
    BY <1>7, <1>10, <1>11, <1>12 DEF BufferInv, Accounted
  <2> QED
    BY <1>7, <1>13, <2>1, <2>2 DEF Accounted
<1>17. InOrder'
  <2> SUFFICES ASSUME program = "SynchList"
               PROVE  InOrder'
    BY <1>1 DEF InOrder
  <2>1. /\ \A i \in 1..n : \A z \in taken : z[1] = l[i][1] => z[2] < l[i][2]
        /\ \A i, j \in 1..n : j < i /\ l[j][1] = l[i][1] => l[j][2] < l[i][2]
    BY <1>3, <1>4 DEF BufferInv, InOrder
  <2>2. ASSUME NEW i \in 1..(n - 1)
        PROVE  list'[i] = l[i + 1] /\ i + 1 \in 1..n /\ 1 \in 1..n /\ 1 < i + 1
    <3>1. list'[i] = l[i + 1]
      BY <1>8
    <3> QED
      BY <1>3, <3>1
  <2>3. y = l[1]
    BY <1>5, <1>6
  <2>4. \A i \in 1..(n - 1) : \A z \in taken' : z[1] = list'[i][1] => z[2] < list'[i][2]
    BY <1>7, <2>1, <2>2, <2>3
  <2>5. \A i, j \in 1..(n - 1) : j < i /\ list'[j][1] = list'[i][1] => list'[j][2] < list'[i][2]
    <3> SUFFICES ASSUME NEW i \in 1..(n - 1), NEW j \in 1..(n - 1),
                        j < i, list'[j][1] = list'[i][1]
                 PROVE  list'[j][2] < list'[i][2]
      OBVIOUS
    <3>1. j + 1 < i + 1
      OBVIOUS
    <3>2. /\ list'[i] = l[i + 1] /\ i + 1 \in 1..n
          /\ list'[j] = l[j + 1] /\ j + 1 \in 1..n
      BY <2>2
    <3> QED
      BY <2>1, <3>1, <3>2
  <2> QED
    BY <1>7, <2>4, <2>5 DEF InOrder
<1> QED
  BY <1>1, <1>14, <1>15, <1>16, <1>17 DEF BufferInv

\* Every step of the threads that share a list.
LEMMA BuffersStepKeeps ==
  ASSUME BufferInv, BuffersStep
  PROVE  BufferInv'
BY GateStepKeeps, LockStepKeeps, ConditionStepKeeps, EndTurnKeeps, PutKeeps, TakeKeeps
   DEF BuffersStep

\* At the start every slot is free and nobody has come.
LEMMA BufferStart ==
  ASSUME Init, program \in Kinds
  PROVE  BufferInv
<1>1. /\ Semaphores(Empty) = BUF_LEN /\ Semaphores(Full) = 0
      /\ \A s \in Sem : Semaphores(s) \in Nat
  BY BuffersAssumption DEF Semaphores
<1>2. /\ policy \in Policy /\ currentThread \in Thread /\ idle = FALSE
      /\ status = [t \in Thread |-> IF t = currentThread THEN "RUNNING" ELSE "READY"]
      /\ readyList \in [1..(Cardinality(Thread) - 1) -> Thread \ {currentThread}]
      /\ value = [s \in Sem |-> Semaphores(s)] /\ waitQueue = [cv \in Cond |-> <<>>]
      /\ queue = [s \in Sem |-> <<>>] /\ pc = [t \in Thread |-> "outside"]
      /\ list = <<>> /\ count = 0 /\ taken = {} /\ done = [t \in Thread |-> 0]
  BY DEF Init, MonitorInit, BuffersInit
<1>3. readyList \in Seq(Thread)
  <2>1. Cardinality(Thread) - 1 \in Nat
    BY <1>2, ReadWriteObjects, FS_CardinalityType, FS_EmptySet
  <2> QED
    BY <1>2, <2>1, SeqDef
<1>4. SchedTypeOK
  BY <1>2, <1>3 DEF SchedTypeOK, ThreadStatus
<1>5. QueueTypes
  <2>1. <<>> \in Seq(Thread) /\ "outside" \in BufferPlace
    BY EmptySeq DEF BufferPlace
  <2>2. value \in [Sem -> Nat]
    BY <1>1, <1>2
  <2> QED
    BY <1>2, <1>4, <2>1, <2>2 DEF QueueTypes, SemTypeOK
<1>6. \A t \in Thread : pc[t] = "outside" /\ done[t] = 0
  BY <1>2
<1>7. \A t \in Thread : 0..(Accesses(t) - 1) = {}
  BY <1>6 DEF Accesses
<1>8. AccessesOf(Producers) = {} /\ AccessesOf(Consumers) = {}
  <2>1. \A x : x \notin AccessesOf(Producers) /\ x \notin AccessesOf(Consumers)
    BY <1>7, AccessIn, BufferObjects
  <2> QED
    BY <2>1
<1>9. BufferTypeOK
  <2>1. <<>> \in Seq(Producers \X Nat) /\ Len(<<>>) = 0
    BY EmptySeq
  <2> QED
    BY <1>2, <1>5, <1>8, <2>1, FS_EmptySet DEF BufferTypeOK
<1>10. Filled
  <2>1. /\ AtPlaces(Producers, Before) = {} /\ AtPlaces(Consumers, Before) = {}
        /\ AtPlaces(Producers, After) = {} /\ AtPlaces(Consumers, After) = {}
    BY <1>6, BufferObjects DEF AtPlaces, Before, After
  <2>2. value[Empty] = BUF_LEN /\ value[Full] = 0
    BY <1>1, <1>2, BufferObjects
  <2>3. Slots /\ Items
    BY <1>2, <2>1, <2>2, FS_EmptySet, BufferObjects DEF Slots, Items
  <2>4. \A t \in Thread : pc[t] \in GatePlace
    BY <1>6 DEF GatePlace
  <2> QED
    BY <1>2, <2>3, <2>4, BufferObjects DEF Filled
<1>11. Accounted
  <2>1. Stored = {}
    BY <1>2 DEF Stored
  <2> QED
    BY <1>2, <1>8, <2>1 DEF Accounted, Produced
<1>12. InOrder
  BY <1>2 DEF InOrder
<1> QED
  BY <1>9, <1>10, <1>11, <1>12 DEF BufferInv
-----------------------------------------------------------------------------
(***************************************************************************)
(* The programs together.                                                  *)
(***************************************************************************)

LEMMA TestsStart ==
  ASSUME Init
  PROVE  TestsInv
<1>1. /\ ThreadTest /\ passed = [t \in Thread |-> 0] /\ arrived = [t \in Thread |-> 0]
      /\ list = <<>> /\ count = 0 /\ taken = {} /\ done = [t \in Thread |-> 0]
  BY DEF Init, BarrierInit, BuffersInit
<1> QED
  BY <1>1, BarrierStart, ReadWriteStart, BufferStart DEF TestsInv, NoItems

LEMMA TestsStep ==
  ASSUME TestsInv, [Next]_vars
  PROVE  TestsInv'
<1> USE DEF Kinds
<1>1. CASE UNCHANGED vars
  <2>1. UNCHANGED <<policy, currentThread, status, readyList, idle, value, queue, pc, owner,
                    waitQueue, num_left, arrived, passed, ReaderCnt, program, list, count,
                    done, taken>>
    BY <1>1 DEF vars, schedVars, semVars, monVars, barVars, bufVars
  <2>2. BarrierInv => BarrierInv'
    <3>1. QueuesInv => QueuesInv'
      BY <2>1 DEF QueuesInv, SchedTypeOK, SemTypeOK, Dispatch, MutexUnit, SleepIsNext, Parked,
                  Sleepers
    <3>2. \A t \in Thread : (t \in Waiting' <=> t \in Waiting) /\ (Released(t)' <=> Released(t))
      BY <2>1 DEF Waiting, Released, Sleepers
    <3> QED
      BY <2>1, <3>1, <3>2, RoundStays DEF BarrierInv
  <2>3. ReadWriteInv => ReadWriteInv'
    BY <2>1 DEF ReadWriteInv, ReadWriteTypeOK, SchedTypeOK, SemTypeOK, ReaderUnit, CountRight,
                Readers, WriterUnit
  <2>4. BufferInv => BufferInv'
    BY <2>1, BufferStays DEF BufferInv, BufferTypeOK, QueueTypes, SchedTypeOK
  <2> QED
    BY <2>1, <2>2, <2>3, <2>4 DEF TestsInv, NoItems, ThreadTest, Lab3Test4_1, Lab3Test4_2, Lab3Challenge1,
                            Lab3Challenge2
<1>2. CASE program = "barrier" /\ BarrierStep /\ UNCHANGED <<ReaderCnt, bufVars>>
  <2>1. BarrierInv' /\ UNCHANGED <<program, list, count, taken, done>>
    BY <1>2, BarrierStepKeeps DEF TestsInv, bufVars
  <2> QED
    BY <1>2, <2>1 DEF TestsInv, NoItems, ThreadTest, Lab3Challenge1
<1>3. CASE program = "readwrite" /\ ReadWriteStep /\ UNCHANGED <<barVars, bufVars>>
  <2>1. ReadWriteInv' /\ UNCHANGED <<program, passed, arrived, list, count, taken, done>>
    BY <1>3, ReadWriteStepKeeps DEF TestsInv, bufVars, barVars
  <2> QED
    BY <1>3, <2>1 DEF TestsInv, NoItems, ThreadTest, Lab3Challenge2
<1>4. CASE program \in Kinds /\ BuffersStep /\ UNCHANGED <<barVars, ReaderCnt>>
  <2>1. BufferInv' /\ passed' = passed /\ arrived' = arrived
    BY <1>4, BuffersStepKeeps DEF TestsInv, barVars
  <2>2. program' \in Kinds
    BY <2>1 DEF BufferInv
  <2> QED
    BY <2>1, <2>2, <1>4 DEF TestsInv, ThreadTest, Lab3Test4_1, Lab3Test4_2
<1>5. CASE Yield
  <2>1. UNCHANGED <<program, passed, arrived, list, count, taken, done>>
    BY <1>5 DEF Yield, barVars, bufVars
  <2>2. program = "barrier" => BarrierInv'
    BY <1>5, BarrierYieldKeeps DEF TestsInv
  <2>3. program = "readwrite" => ReadWriteInv'
    BY <1>5, ReadWriteYieldKeeps DEF TestsInv
  <2>4. program \in Kinds => BufferInv'
    BY <1>5, BufferYieldKeeps DEF TestsInv
  <2> QED
    BY <2>1, <2>2, <2>3, <2>4 DEF TestsInv, NoItems, ThreadTest, Lab3Test4_1, Lab3Test4_2, Lab3Challenge1,
                            Lab3Challenge2
<1> QED
  BY <1>1, <1>2, <1>3, <1>4, <1>5 DEF Next, Work

\* In the barrier a thread that has passed a round has arrived at it, and so have
\* all others.
LEMMA RoundsMeet ==
  ASSUME BarrierInv
  PROVE  NobodyPassesEarly
<1>1. PICK r \in Nat : RoundIs(r)
  BY DEF BarrierInv
<1>2. ASSUME NEW t \in Thread
      PROVE  passed[t] <= r /\ r <= arrived[t]
  <2>1. pc[t] \in BarrierPlace
    BY DEF BarrierInv, QueuesInv, SemTypeOK
  <2>2. \/ pc[t] = "outside" \/ pc[t] \in {"acquire", "count", "broadcast"} \/ t \in Waiting
        \/ Released(t)
    BY <2>1 DEF BarrierPlace, Waiting, Released
  <2>3. passed[t] \in Nat /\ arrived[t] \in Nat
    BY DEF BarrierInv
  <2>4. CASE pc[t] = "outside" \/ pc[t] \in {"acquire", "count", "broadcast"} \/ t \in Waiting
    BY <1>1, <2>4 DEF RoundIs
  <2>5. CASE Released(t)
    <3>1. arrived[t] = passed[t] + 1 /\ passed[t] + 1 \in {r, r + 1}
      BY <1>1, <2>5 DEF RoundIs
    <3>2. Opening => passed[t] + 1 = r + 1
      BY <1>1, <2>5 DEF RoundIs
    <3> QED
      BY <1>1, <2>3, <3>1, <3>2
  <2> QED
    BY <2>2, <2>4, <2>5
<1>3. \A t \in Thread : passed[t] \in Nat /\ arrived[t] \in Nat
  BY DEF BarrierInv
<1> QED
  BY <1>2, <1>3 DEF NobodyPassesEarly

(***************************************************************************)
(* Barrier::ArriveAndWait lets nobody out of a round that somebody has not *)
(* come to: for every number of threads and of rounds, under every policy, *)
(* with a V, or a wakeup, that hands the processor over in the middle.     *)
(***************************************************************************)
THEOREM NobodyPassesBarrierEarly == Spec => []NobodyPassesEarly
<1>1. Init => TestsInv
  BY TestsStart
<1>2. TestsInv /\ [Next]_vars => TestsInv'
  BY TestsStep
<1>3. TestsInv => NobodyPassesEarly
  BY RoundsMeet DEF TestsInv, NobodyPassesEarly
<1> QED
  BY <1>1, <1>2, <1>3, PTL DEF Spec

(***************************************************************************)
(* Under ReadWriteLock nobody reads while another writes, and no two write *)
(* at once, however many threads there are: the one unit of WriterLock is  *)
(* in its value, with one writer, or with all the readers from the P of    *)
(* the first to the V of the last.                                         *)
(***************************************************************************)
THEOREM WriterIsAlone == Spec => []ReadWriteExclusion
<1>1. Init => TestsInv
  BY TestsStart
<1>2. TestsInv /\ [Next]_vars => TestsInv'
  BY TestsStep
<1>3. TestsInv => ReadWriteExclusion
  <2>1. CASE program = "readwrite" /\ TestsInv
    BY <2>1 DEF TestsInv, ReadWriteInv, WriterUnit, OneUnit, ReadWriteExclusion, Writes, Shares
  <2>2. CASE program = "barrier" /\ TestsInv
    <3>1. \A t \in Thread : pc[t] \in BarrierPlace
      BY <2>2 DEF TestsInv, BarrierInv, QueuesInv, SemTypeOK
    <3> QED
      BY <3>1 DEF BarrierPlace, ReadWriteExclusion
  <2>3. CASE program \in Kinds /\ TestsInv
    <3>1. \A t \in Thread : pc[t] \in BufferPlace
      BY <2>3, BufferFacts DEF TestsInv
    <3> QED
      BY <3>1 DEF BufferPlace, ReadWriteExclusion
  <2> QED
    BY <2>1, <2>2, <2>3 DEF TestsInv, ThreadTest, Lab3Test4_1, Lab3Test4_2, Lab3Challenge1,
                            Lab3Challenge2, Kinds
<1> QED
  BY <1>1, <1>2, <1>3, PTL DEF Spec

\* The balance of the items, by the operators of ItemsAccounted.
LEMMA BufferAccounts ==
  ASSUME BufferInv
  PROVE  ItemsAccounted
<1>1. PICK n \in Nat, l \in Seq(Producers \X Nat) : n = count /\ l = list /\ n <= Len(l)
  BY DEF BufferInv, BufferTypeOK
<1>2. PICK held : held = SubSeq(l, 1, n)
  OBVIOUS
<1>3. /\ held \in Seq(Producers \X Nat) /\ Len(held) = n /\ DOMAIN held = 1..n
      /\ \A i \in 1..n : held[i] = l[i]
  BY <1>1, <1>2, SubSeqProperties
<1>4. ToSet(held) = Stored
  BY <1>1, <1>3 DEF ToSet, Stored
<1>5. IsInjective(held)
  BY <1>1, <1>3 DEF IsInjective, BufferInv, Accounted
<1>6. program # "SynchList" => n <= BUF_LEN
  <2>1. CASE program = "Buffer"
    <3>1. /\ Cardinality(AtPlaces(Producers, Before)) \in Nat
          /\ Cardinality(AtPlaces(Consumers, After)) \in Nat
      <4>1. IsFiniteSet(AtPlaces(Producers, Before)) /\ IsFiniteSet(AtPlaces(Consumers, After))
        <5>1. AtPlaces(Producers, Before) \subseteq Thread /\ AtPlaces(Consumers, After) \subseteq Thread
          BY BufferObjects DEF AtPlaces
        <5> QED
          BY <5>1, FS_Subset, BufferObjects
      <4> QED
        BY <4>1, FS_CardinalityType
    <3>2. value[Empty] \in Nat /\ Slots
      BY <2>1, BufferFacts, BufferObjects DEF BufferInv, Filled
    <3>3. value[Empty] + Cardinality(AtPlaces(Producers, Before))
            + Cardinality(AtPlaces(Consumers, After)) + n = BUF_LEN
      BY <1>1, <3>2 DEF Slots
    <3> QED
      BY <3>1, <3>2, <3>3
  <2>2. CASE program = "BufferCnd"
    BY <1>1, <2>2 DEF BufferInv, Filled
  <2> QED
    BY <2>1, <2>2 DEF BufferInv, Kinds
<1>7. ASSUME program = "SynchList", NEW i \in 1..n,
             NEW p \in taken \cup ToSet(SubSeq(held, 1, i - 1)), p[1] = held[i][1]
      PROVE  p[2] < held[i][2]
  <2>1. held[i] = list[i]
    BY <1>1, <1>3
  <2>2. CASE p \in taken
    BY <1>1, <1>7, <2>1, <2>2 DEF BufferInv, InOrder
  <2>3. CASE p \in ToSet(SubSeq(held, 1, i - 1))
    <3>1. /\ Len(SubSeq(held, 1, i - 1)) = i - 1 /\ DOMAIN SubSeq(held, 1, i - 1) = 1..(i - 1)
          /\ \A j \in 1..(i - 1) : SubSeq(held, 1, i - 1)[j] = held[j]
      BY <1>3, SubSeqProperties
    <3>2. PICK j \in 1..(i - 1) : p = held[j]
      BY <2>3, <3>1 DEF ToSet
    <3>3. j \in 1..n /\ j < i /\ p = list[j]
      BY <1>1, <1>3, <3>2
    <3> QED
      BY <1>1, <1>7, <2>1, <3>3 DEF BufferInv, InOrder
  <2> QED
    BY <2>2, <2>3
<1>8. /\ Stored \cup taken = Produced /\ Stored \cap taken = {}
      /\ Cardinality(taken) = Cardinality(AccessesOf(Consumers))
  BY DEF BufferInv, Accounted
<1>9. count >= 0 /\ SubSeq(list, 1, count) = held
  BY <1>1, <1>2
<1> QED
  BY <1>1, <1>3, <1>4, <1>5, <1>6, <1>7, <1>8, <1>9 DEF ItemsAccounted

\* The other programs have no items.
LEMMA NoItemsAccounted ==
  ASSUME TestsInv, program \notin Kinds
  PROVE  ItemsAccounted
<1>1. NoItems /\ program \in {"barrier", "readwrite"}
  BY DEF TestsInv, ThreadTest, Lab3Test4_1, Lab3Test4_2, Lab3Challenge1, Lab3Challenge2, Kinds
<1>2. \A t \in Thread : pc[t] \in BarrierPlace \cup ReadWritePlace
  BY <1>1 DEF TestsInv, BarrierInv, QueuesInv, ReadWriteInv, ReadWriteTypeOK, SemTypeOK
<1>3. \A t \in Thread : 0..(Accesses(t) - 1) = {}
  BY <1>1, <1>2 DEF Accesses, NoItems, BarrierPlace, ReadWritePlace
<1>4. AccessesOf(Producers) = {} /\ AccessesOf(Consumers) = {}
  <2>1. \A x : x \notin AccessesOf(Producers) /\ x \notin AccessesOf(Consumers)
    BY <1>3, AccessIn, BufferObjects
  <2> QED
    BY <2>1
<1>5. SubSeq(list, 1, count) = <<>>
  BY <1>1, SubSeqEmpty DEF NoItems
<1>6. IsInjective(<<>>) /\ ToSet(<<>>) = {}
  BY DEF IsInjective, ToSet
<1>7. PICK held : held = SubSeq(list, 1, count)
  OBVIOUS
<1>8. IsInjective(held) /\ ToSet(held) = {}
  BY <1>5, <1>6, <1>7
<1>9. /\ count = 0 /\ 0 <= BUF_LEN /\ program # "SynchList"
      /\ taken = {} /\ Produced = {} /\ AccessesOf(Consumers) = {}
  BY <1>1, <1>4, BufferObjects DEF NoItems, Produced
<1> QED
  BY <1>7, <1>8, <1>9 DEF ItemsAccounted

(***************************************************************************)
(* WriteBuffer, ReadBuffer, SynchList::Append and Remove neither lose an   *)
(* item nor hand one out twice, and keep within BUF_LEN, for every number  *)
(* of producers and consumers and under every policy: in a Buffer the      *)
(* values of Empty and Full, the threads between a P and a V on them and   *)
(* the items always add up.                                                *)
(***************************************************************************)
THEOREM ItemsAreAccounted == Spec => []ItemsAccounted
<1>1. Init => TestsInv
  BY TestsStart
<1>2. TestsInv /\ [Next]_vars => TestsInv'
  BY TestsStep
<1>3. TestsInv => ItemsAccounted
  BY BufferAccounts, NoItemsAccounted DEF TestsInv
<1> QED
  BY <1>1, <1>2, <1>3, PTL DEF Spec
===============================================================================
