---------------------------- MODULE SemaphoreProofs ----------------------------
(***************************************************************************)
(* Facts about the lists of threads and the fragments of Scheduler and     *)
(* Semaphore that the proofs of every module built on them need.           *)
(***************************************************************************)
EXTENDS Semaphore, TLAPS, SequenceTheorems, FiniteSetTheorems

(***************************************************************************)
(* Lists of threads.                                                       *)
(***************************************************************************)

\* SortedInsert's position is inside the list or just after it.
LEMMA InsertPosition ==
  ASSUME NEW list \in Seq(Thread), NEW t \in Thread
  PROVE  Cardinality(NotAfter(list, t)) + 1 \in 1..(Len(list) + 1)
<1>1. Len(list) \in Nat /\ DOMAIN list = 1..Len(list)
  BY LenProperties
<1>2. IsFiniteSet(1..Len(list)) /\ Cardinality(1..Len(list)) = Len(list)
  BY <1>1, FS_Interval
<1>3. NotAfter(list, t) \subseteq 1..Len(list)
  BY <1>1 DEF NotAfter
<1>4. /\ IsFiniteSet(NotAfter(list, t))
      /\ Cardinality(NotAfter(list, t)) <= Len(list)
  BY <1>2, <1>3, FS_Subset
<1>5. Cardinality(NotAfter(list, t)) \in Nat
  BY <1>4, FS_CardinalityType
<1> QED
  BY <1>1, <1>4, <1>5

\* Inserting an element: the new list and its elements.
LEMMA InsertAtProperties ==
  ASSUME NEW list \in Seq(Thread), NEW t \in Thread, NEW k \in 1..(Len(list) + 1)
  PROVE  /\ InsertAt(list, k, t) \in Seq(Thread)
         /\ Len(InsertAt(list, k, t)) = Len(list) + 1
         /\ \A i \in 1..(Len(list) + 1) :
              InsertAt(list, k, t)[i] = IF i < k THEN list[i]
                                        ELSE IF i = k THEN t ELSE list[i - 1]
<1> DEFINE a == SubSeq(list, 1, k - 1)
           b == SubSeq(list, k, Len(list))
<1>0. Len(list) \in Nat /\ \A i \in 1..Len(list) : list[i] \in Thread
  BY LenProperties, ElementOfSeq
<1>1. /\ a \in Seq(Thread)
      /\ Len(a) = k - 1
      /\ \A i \in 1..(k - 1) : a[i] = list[i]
  <2>1. \A i \in 1..(k - 1) : list[i] \in Thread
    BY <1>0
  <2> QED
    BY <1>0, <2>1, SubSeqProperties
<1>2. /\ b \in Seq(Thread)
      /\ Len(b) = Len(list) + 1 - k
      /\ \A i \in 1..(Len(list) + 1 - k) : b[i] = list[k + i - 1]
  <2>1. \A i \in k..Len(list) : list[i] \in Thread
    BY <1>0
  <2> QED
    BY <1>0, <2>1, SubSeqProperties
<1> HIDE DEF a, b
<1>3. InsertAt(list, k, t) = (a \o <<t>>) \o b
  BY DEF InsertAt, a, b
<1>4. <<t>> \in Seq(Thread) /\ Len(<<t>>) = 1 /\ <<t>>[1] = t
  OBVIOUS
<1> DEFINE d == a \o <<t>>
<1>5. /\ d \in Seq(Thread)
      /\ Len(d) = k
      /\ \A i \in 1..k : d[i] = IF i <= k - 1 THEN a[i] ELSE <<t>>[i - (k - 1)]
  BY <1>0, <1>1, <1>4, ConcatProperties
<1> HIDE DEF d
<1>6. /\ d \o b \in Seq(Thread)
      /\ Len(d \o b) = Len(list) + 1
      /\ \A i \in 1..(Len(list) + 1) : (d \o b)[i] = IF i <= k THEN d[i] ELSE b[i - k]
  BY <1>0, <1>2, <1>5, ConcatProperties
<1>7. ASSUME NEW i \in 1..(Len(list) + 1)
      PROVE  (d \o b)[i] = IF i < k THEN list[i] ELSE IF i = k THEN t ELSE list[i - 1]
  <2>1. CASE i < k
    BY <2>1, <1>0, <1>1, <1>5, <1>6
  <2>2. CASE i = k
    BY <2>2, <1>0, <1>4, <1>5, <1>6
  <2>3. CASE i > k
    <3>1. i - k \in 1..(Len(list) + 1 - k) /\ k + (i - k) - 1 = i - 1
      BY <2>3, <1>0
    <3>2. b[i - k] = list[k + (i - k) - 1]
      BY <3>1, <1>2
    <3> QED
      BY <2>3, <3>1, <3>2, <1>0, <1>6
  <2>4. i < k \/ i = k \/ i > k
    BY <1>0
  <2> QED
    BY <2>1, <2>2, <2>3, <2>4
<1> QED
  BY <1>3, <1>6, <1>7 DEF d

\* Every element of a list is an element of its range, and conversely.
LEMMA RangeElements ==
  ASSUME NEW list \in Seq(Thread), NEW x
  PROVE  x \in Range(list) <=> \E i \in 1..Len(list) : list[i] = x
BY LenProperties DEF Range

\* Queued adds t to the list, once.
LEMMA QueuedProperties ==
  ASSUME NEW list \in Seq(Thread), NEW t \in Thread
  PROVE  /\ Queued(list, t) \in Seq(Thread)
         /\ Queued(list, t) # <<>>
         /\ Range(Queued(list, t)) = Range(list) \cup {t}
         /\ IsInjective(list) /\ t \notin Range(list) => IsInjective(Queued(list, t))
<1> DEFINE k == IF RoundRobbin THEN Len(list) + 1 ELSE Cardinality(NotAfter(list, t)) + 1
           q == Queued(list, t)
<1>0. Len(list) \in Nat /\ DOMAIN list = 1..Len(list)
  BY LenProperties
<1>1. k \in 1..(Len(list) + 1)
  BY <1>0, InsertPosition
<1> HIDE DEF k
<1>2. /\ q \in Seq(Thread)
      /\ Len(q) = Len(list) + 1
      /\ \A i \in 1..(Len(list) + 1) :
           q[i] = IF i < k THEN list[i] ELSE IF i = k THEN t ELSE list[i - 1]
  <2>1. CASE RoundRobbin
    <3>1. q = Append(list, t) /\ k = Len(list) + 1
      BY <2>1 DEF Queued, k
    <3>2. /\ Append(list, t) \in Seq(Thread)
          /\ Len(Append(list, t)) = Len(list) + 1
          /\ \A i \in 1..Len(list) : Append(list, t)[i] = list[i]
          /\ Append(list, t)[Len(list) + 1] = t
      BY <1>0, AppendProperties
    <3> QED
      BY <3>1, <3>2, <1>0
  <2>2. CASE ~RoundRobbin
    <3>1. q = InsertAt(list, k, t)
      BY <2>2 DEF Queued, SortedInsert, k
    <3> HIDE DEF q
    <3>2. /\ InsertAt(list, k, t) \in Seq(Thread)
          /\ Len(InsertAt(list, k, t)) = Len(list) + 1
          /\ \A i \in 1..(Len(list) + 1) :
               InsertAt(list, k, t)[i] = IF i < k THEN list[i]
                                         ELSE IF i = k THEN t ELSE list[i - 1]
      BY <1>1, InsertAtProperties
    <3> QED
      BY <3>1, <3>2
  <2> QED
    BY <2>1, <2>2
<1> HIDE DEF q
<1>3. DOMAIN q = 1..(Len(list) + 1)
  BY <1>2, LenProperties
<1>4. q # <<>>
  BY <1>0, <1>2
<1>5. Range(q) = Range(list) \cup {t}
  <2>1. ASSUME NEW x \in Range(q) PROVE x \in Range(list) \cup {t}
    <3>1. PICK i \in 1..(Len(list) + 1) : q[i] = x
      BY <1>3 DEF Range
    <3>2. i < k => i \in DOMAIN list
      BY <1>0, <1>1
    <3>3. i > k => i - 1 \in DOMAIN list
      BY <1>0, <1>1
    <3> QED
      BY <3>1, <3>2, <3>3, <1>0, <1>1, <1>2 DEF Range
  <2>2. ASSUME NEW x \in Range(list) PROVE x \in Range(q)
    <3>1. PICK i \in 1..Len(list) : list[i] = x
      BY <1>0 DEF Range
    <3>2. CASE i < k
      BY <3>1, <3>2, <1>0, <1>2, <1>3 DEF Range
    <3>3. CASE i >= k
      <4>1. i + 1 \in 1..(Len(list) + 1) /\ i + 1 > k /\ (i + 1) - 1 = i
        BY <3>3, <1>0, <1>1
      <4>2. q[i + 1] = x
        BY <4>1, <3>1, <1>1, <1>2
      <4> QED
        BY <4>1, <4>2, <1>3 DEF Range
    <3> QED
      BY <3>2, <3>3, <1>1
  <2>3. t \in Range(q)
    <3>1. q[k] = t
      BY <1>1, <1>2
    <3> QED
      BY <3>1, <1>1, <1>3 DEF Range
  <2> QED
    BY <2>1, <2>2, <2>3
<1>6. ASSUME IsInjective(list), t \notin Range(list)
      PROVE  IsInjective(q)
  <2> SUFFICES ASSUME NEW i \in 1..(Len(list) + 1), NEW j \in 1..(Len(list) + 1), i < j
               PROVE  q[i] # q[j]
    BY <1>0, <1>3 DEF IsInjective
  <2>1. \A m, n \in 1..Len(list) : list[m] = list[n] => m = n
    BY <1>6, <1>0 DEF IsInjective
  <2>2. \A m \in 1..Len(list) : list[m] # t
    BY <1>6, <1>0 DEF Range
  <2>3. CASE j < k
    BY <2>3, <2>1, <1>0, <1>1, <1>2
  <2>4. CASE j = k
    BY <2>4, <2>2, <1>0, <1>1, <1>2
  <2>5. CASE j > k
    <3>1. j - 1 \in 1..Len(list) /\ q[j] = list[j - 1]
      BY <2>5, <1>0, <1>1, <1>2
    <3>2. CASE i < k
      BY <3>1, <3>2, <2>1, <2>5, <1>0, <1>1, <1>2
    <3>3. CASE i = k
      BY <3>1, <3>3, <2>2, <1>1, <1>2
    <3>4. CASE i > k
      <4>1. i - 1 \in 1..Len(list) /\ q[i] = list[i - 1]
        BY <3>4, <1>0, <1>1, <1>2
      <4> QED
        BY <3>1, <4>1, <2>1, <1>0
    <3> QED
      BY <3>2, <3>3, <3>4, <1>1
  <2> QED
    BY <2>3, <2>4, <2>5, <1>1
<1> QED
  BY <1>2, <1>4, <1>5, <1>6 DEF q

\* Removing the head of a list takes it out of the range.
LEMMA TailOfInjective ==
  ASSUME NEW list \in Seq(Thread), list # <<>>
  PROVE  /\ Head(list) \in Thread
         /\ Head(list) \in Range(list)
         /\ Tail(list) \in Seq(Thread)
         /\ IsInjective(list) => /\ IsInjective(Tail(list))
                                 /\ Range(Tail(list)) = Range(list) \ {Head(list)}
<1> DEFINE r == Tail(list)
<1>0. Len(list) \in Nat /\ DOMAIN list = 1..Len(list) /\ Len(list) # 0
  BY LenProperties, EmptySeq
<1>1. /\ Head(list) \in Thread
      /\ r \in Seq(Thread)
      /\ Len(r) = Len(list) - 1
      /\ \A i \in 1..Len(r) : r[i] = list[i + 1]
  BY HeadTailProperties
<1>2. Head(list) = list[1]
  OBVIOUS
<1>3. DOMAIN r = 1..(Len(list) - 1)
  BY <1>1, LenProperties
<1> HIDE DEF r
<1>4. Head(list) \in Range(list)
  BY <1>0, <1>2 DEF Range
<1>5. ASSUME IsInjective(list)
      PROVE  IsInjective(r) /\ Range(r) = Range(list) \ {Head(list)}
  <2>1. \A m, n \in 1..Len(list) : list[m] = list[n] => m = n
    BY <1>5, <1>0 DEF IsInjective
  <2>2. IsInjective(r)
    <3> SUFFICES ASSUME NEW i \in 1..(Len(list) - 1), NEW j \in 1..(Len(list) - 1), r[i] = r[j]
                 PROVE  i = j
      BY <1>3 DEF IsInjective
    <3>1. list[i + 1] = list[j + 1]
      BY <1>0, <1>1
    <3>2. i + 1 \in 1..Len(list) /\ j + 1 \in 1..Len(list)
      BY <1>0
    <3> QED
      BY <3>1, <3>2, <2>1
  <2>3. ASSUME NEW x \in Range(r) PROVE x \in Range(list) \ {Head(list)}
    <3>1. PICK i \in 1..(Len(list) - 1) : r[i] = x
      BY <1>3 DEF Range
    <3>2. i + 1 \in 1..Len(list) /\ list[i + 1] = x /\ i + 1 # 1 /\ 1 \in 1..Len(list)
      BY <3>1, <1>0, <1>1
    <3> QED
      BY <3>2, <2>1, <1>0, <1>2 DEF Range
  <2>4. ASSUME NEW x \in Range(list) \ {Head(list)} PROVE x \in Range(r)
    <3>1. PICK i \in 1..Len(list) : list[i] = x
      BY <1>0 DEF Range
    <3>2. i # 1
      BY <3>1, <1>2
    <3>3. i - 1 \in 1..(Len(list) - 1) /\ (i - 1) + 1 = i
      BY <3>2, <1>0
    <3>4. r[i - 1] = list[(i - 1) + 1]
      BY <3>3, <1>0, <1>1
    <3> QED
      BY <3>1, <3>3, <3>4, <1>3 DEF Range
  <2> QED
    BY <2>2, <2>3, <2>4
<1> QED
  BY <1>1, <1>4, <1>5 DEF r

\* Append puts a thread at the end of a wait queue, once.
LEMMA AppendOnce ==
  ASSUME NEW list \in Seq(Thread), NEW t \in Thread
  PROVE  /\ Range(Append(list, t)) = Range(list) \cup {t}
         /\ IsInjective(list) /\ t \notin Range(list) => IsInjective(Append(list, t))
<1> DEFINE q == Append(list, t)
<1>0. Len(list) \in Nat /\ DOMAIN list = 1..Len(list)
  BY LenProperties
<1>1. /\ q \in Seq(Thread)
      /\ Len(q) = Len(list) + 1
      /\ \A i \in 1..Len(list) : q[i] = list[i]
      /\ q[Len(list) + 1] = t
  BY AppendProperties
<1>2. DOMAIN q = 1..(Len(list) + 1)
  BY <1>1, LenProperties
<1> HIDE DEF q
<1>3. Range(q) = Range(list) \cup {t}
  <2>1. ASSUME NEW x \in Range(q) PROVE x \in Range(list) \cup {t}
    <3>1. PICK i \in 1..(Len(list) + 1) : q[i] = x
      BY <1>2 DEF Range
    <3>2. i \in 1..Len(list) \/ i = Len(list) + 1
      BY <1>0
    <3> QED
      BY <3>1, <3>2, <1>0, <1>1 DEF Range
  <2>2. ASSUME NEW x \in Range(list) PROVE x \in Range(q)
    <3>1. PICK i \in 1..Len(list) : list[i] = x
      BY <1>0 DEF Range
    <3>2. i \in DOMAIN q
      BY <1>0, <1>2
    <3> QED
      BY <3>1, <3>2, <1>1 DEF Range
  <2>3. t \in Range(q)
    <3>1. Len(list) + 1 \in DOMAIN q
      BY <1>0, <1>2
    <3> QED
      BY <3>1, <1>1 DEF Range
  <2> QED
    BY <2>1, <2>2, <2>3
<1>4. ASSUME IsInjective(list), t \notin Range(list) PROVE IsInjective(q)
  <2>1. \A m, n \in 1..Len(list) : list[m] = list[n] => m = n
    BY <1>4, <1>0 DEF IsInjective
  <2>2. \A m \in 1..Len(list) : list[m] # t
    BY <1>4, <1>0 DEF Range
  <2> QED
    BY <2>1, <2>2, <1>0, <1>1, <1>2 DEF IsInjective
<1> QED
  BY <1>3, <1>4 DEF q
-----------------------------------------------------------------------------
(***************************************************************************)
(* Type correctness.                                                       *)
(***************************************************************************)

\* Yield keeps the types of the scheduler's variables ...
LEMMA TypeYield ==
  ASSUME SchedTypeOK, NEW list \in Seq(Thread), list # <<>>,
         NEW st \in [Thread -> ThreadStatus], YieldFrom(list, st)
  PROVE  SchedTypeOK'
<1>1. Head(list) \in Thread /\ Tail(list) \in Seq(Thread)
  BY TailOfInjective
<1>2. currentThread \in Thread
  BY DEF SchedTypeOK
<1>3. Queued(Tail(list), currentThread) \in Seq(Thread)
  BY <1>1, <1>2, QueuedProperties
<1> QED
  BY <1>1, <1>2, <1>3 DEF SchedTypeOK, YieldFrom, ThreadStatus

\* ... so does ReadyToRun ...
LEMMA TypeMakeReady ==
  ASSUME SchedTypeOK, NEW t \in Thread, MakeReady(t) \/ MakeReadyAndYield(t)
  PROVE  SchedTypeOK'
<1>1. Queued(readyList, t) \in Seq(Thread) /\ Queued(readyList, t) # <<>>
  BY QueuedProperties DEF SchedTypeOK
<1>2. CASE MakeReady(t)
  BY <1>1, <1>2 DEF SchedTypeOK, MakeReady, ThreadStatus
<1>3. CASE MakeReadyAndYield(t)
  <2>1. [status EXCEPT ![t] = "READY"] \in [Thread -> ThreadStatus]
    BY DEF SchedTypeOK, ThreadStatus
  <2> QED
    BY <1>1, <1>3, <2>1, TypeYield DEF MakeReadyAndYield
<1> QED
  BY <1>2, <1>3

\* ... Run ...
LEMMA TypeRun ==
  ASSUME SchedTypeOK, readyList # <<>>,
         NEW st \in [Thread -> ThreadStatus], Run(readyList, st)
  PROVE  SchedTypeOK'
<1>1. Head(readyList) \in Thread /\ Tail(readyList) \in Seq(Thread)
  BY TailOfInjective DEF SchedTypeOK
<1> QED
  BY <1>1 DEF SchedTypeOK, Run, ThreadStatus

\* ... and Sleep.
LEMMA TypeSleep ==
  ASSUME SchedTypeOK, Sleep
  PROVE  SchedTypeOK'
<1> DEFINE blocked == [status EXCEPT ![currentThread] = "BLOCKED"]
<1>1. blocked \in [Thread -> ThreadStatus]
  BY DEF SchedTypeOK, ThreadStatus
<1>2. CASE readyList = <<>>
  BY <1>1, <1>2 DEF SchedTypeOK, Sleep
<1>3. CASE readyList # <<>>
  BY <1>1, <1>3, TypeRun DEF Sleep
<1> QED
  BY <1>2, <1>3

\* The types of the semaphores' own variables.
SemTypeOK(places) ==
  /\ value \in [Sem -> Nat]
  /\ queue \in [Sem -> Seq(Thread)]
  /\ pc \in [Thread -> places]

\* A turn of P keeps the types: it takes a unit only from a positive value.
LEMMA TypeP ==
  ASSUME NEW places, SchedTypeOK, SemTypeOK(places), NEW s \in Sem,
         NEW wait \in places, NEW next \in places, P(s, wait, next)
  PROVE  SchedTypeOK' /\ SemTypeOK(places)'
<1>0. currentThread \in Thread
  BY DEF SchedTypeOK
<1>1. CASE value[s] = 0
  <2>1. /\ queue' = [queue EXCEPT ![s] = Append(@, currentThread)]
        /\ pc' = [pc EXCEPT ![currentThread] = wait]
        /\ Sleep
        /\ value' = value
    BY <1>1 DEF P, Goto
  <2>2. Append(queue[s], currentThread) \in Seq(Thread)
    BY <1>0, AppendProperties DEF SemTypeOK
  <2> QED
    BY <1>0, <2>1, <2>2, TypeSleep DEF SemTypeOK
<1>2. CASE value[s] # 0
  <2>1. /\ value' = [value EXCEPT ![s] = @ - 1]
        /\ pc' = [pc EXCEPT ![currentThread] = next]
        /\ queue' = queue
        /\ UNCHANGED schedVars
    BY <1>2 DEF P, Goto
  <2>2. value[s] - 1 \in Nat
    BY <1>2 DEF SemTypeOK
  <2> QED
    BY <1>0, <2>1, <2>2 DEF SemTypeOK, SchedTypeOK, schedVars
<1> QED
  BY <1>1, <1>2

\* V keeps the types, whether or not it yields to the thread it wakes.
LEMMA TypeV ==
  ASSUME NEW places, SchedTypeOK, SemTypeOK(places), NEW s \in Sem,
         NEW mid \in places, NEW next \in places, V(s, mid, next)
  PROVE  SchedTypeOK' /\ SemTypeOK(places)'
<1>0. currentThread \in Thread /\ queue[s] \in Seq(Thread) /\ value[s] + 1 \in Nat
  BY DEF SchedTypeOK, SemTypeOK
<1>1. CASE queue[s] = <<>>
  BY <1>0, <1>1 DEF V, Increment, Goto, SemTypeOK, SchedTypeOK, schedVars
<1>2. CASE queue[s] # <<>>
  <2>1. Head(queue[s]) \in Thread /\ Tail(queue[s]) \in Seq(Thread)
    BY <1>0, <1>2, TailOfInjective
  <2>2. SchedTypeOK'
    BY <1>2, <2>1, TypeMakeReady DEF V
  <2>3. queue' = [queue EXCEPT ![s] = Tail(@)]
    BY <1>2 DEF V
  <2>4. /\ value' \in [Sem -> Nat]
        /\ pc' \in [Thread -> places]
    BY <1>0, <1>2 DEF V, Increment, Goto, SemTypeOK
  <2> QED
    BY <1>0, <2>1, <2>2, <2>3, <2>4 DEF SemTypeOK
<1> QED
  BY <1>1, <1>2
-----------------------------------------------------------------------------
(***************************************************************************)
(* What P and V do to the value and to the place of the caller.            *)
(***************************************************************************)

\* A turn of P waits at `wait', or takes a unit and goes on.
LEMMA EffectP ==
  ASSUME NEW places, SchedTypeOK, SemTypeOK(places), NEW s \in Sem,
         NEW wait, NEW next, P(s, wait, next)
  PROVE  \/ /\ value[s] = 0 /\ value' = value
            /\ pc' = [pc EXCEPT ![currentThread] = wait]
         \/ /\ value[s] # 0 /\ value' = [value EXCEPT ![s] = value[s] - 1]
            /\ pc' = [pc EXCEPT ![currentThread] = next]
BY DEF P, Goto

\* V adds a unit, at once or, when it has yielded to the thread it woke, later.
LEMMA EffectV ==
  ASSUME NEW s \in Sem, NEW mid, NEW next, V(s, mid, next)
  PROVE  \/ /\ value' = [value EXCEPT ![s] = value[s] + 1]
            /\ pc' = [pc EXCEPT ![currentThread] = next]
            /\ currentThread' = currentThread
         \/ /\ value' = value
            /\ pc' = [pc EXCEPT ![currentThread] = mid]
            /\ queue[s] # <<>> /\ Preempts(Head(queue[s]))
BY DEF V, Increment, Goto, MakeReady, schedVars

\* A unit that is either in the value v of a semaphore or with one holder of H.
OneUnit(v, H) ==
  /\ v \in {0, 1}
  /\ H # {} => v = 0
  /\ \A t, u \in H : t = u

\* Taking the unit makes the taker its one holder ...
LEMMA UnitTaken ==
  ASSUME NEW v, NEW H, NEW t, OneUnit(v, H), v # 0
  PROVE  OneUnit(v - 1, H \cup {t}) /\ H = {} /\ v = 1
BY DEF OneUnit

\* ... and only the holder can give it back.
LEMMA UnitGiven ==
  ASSUME NEW v, NEW H, NEW t \in H, OneUnit(v, H)
  PROVE  OneUnit(v + 1, H \ {t}) /\ H = {t} /\ v = 0
BY DEF OneUnit
-----------------------------------------------------------------------------
(***************************************************************************)
(* The dispatcher: the thread that runs is not on the ready list, and the  *)
(* status tells the blocked threads from the others.                       *)
(***************************************************************************)
Dispatch ==
  /\ IsInjective(readyList)
  /\ \A t \in Range(readyList) : status[t] = "READY"
  /\ ~idle => status[currentThread] = "RUNNING"

\* Yield blocks nobody.
LEMMA YieldDispatches ==
  ASSUME SchedTypeOK, NEW list \in Seq(Thread), list # <<>>, IsInjective(list),
         NEW st \in [Thread -> ThreadStatus], \A t \in Range(list) : st[t] = "READY",
         st[currentThread] = "RUNNING", YieldFrom(list, st)
  PROVE  Dispatch' /\ \A t \in Thread : status'[t] = "BLOCKED" <=> st[t] = "BLOCKED"
<1> DEFINE h == Head(list)
           c == currentThread
           rest == Tail(list)
<1>1. /\ h \in Thread /\ h \in Range(list) /\ rest \in Seq(Thread) /\ IsInjective(rest)
      /\ Range(rest) = Range(list) \ {h}
  BY TailOfInjective
<1>2. c \in Thread
  BY DEF SchedTypeOK
<1>3. /\ status' = [st EXCEPT ![c] = "READY", ![h] = "RUNNING"]
      /\ currentThread' = h /\ readyList' = Queued(rest, c)
  BY DEF YieldFrom
<1> HIDE DEF h, c, rest
<1>4. st[h] = "READY" /\ st[c] = "RUNNING" /\ c \notin Range(list)
  BY <1>1 DEF c
<1>5. IsInjective(readyList') /\ Range(readyList') = (Range(list) \ {h}) \cup {c}
  BY <1>1, <1>2, <1>3, <1>4, QueuedProperties
<1>6. \A t \in Thread : status'[t] = IF t = h THEN "RUNNING" ELSE IF t = c THEN "READY" ELSE st[t]
  BY <1>1, <1>2, <1>3
<1>7. \A t \in Range(list) : t \in Thread
  BY RangeElements, ElementOfSeq
<1>8. \A t \in Range(readyList') : status'[t] = "READY"
  BY <1>2, <1>4, <1>5, <1>6, <1>7
<1> QED
  BY <1>1, <1>3, <1>4, <1>5, <1>6, <1>8 DEF Dispatch

\* Sleep blocks currentThread.
LEMMA SleepBlocks ==
  ASSUME SchedTypeOK, Dispatch, ~idle, Sleep
  PROVE  /\ Dispatch'
         /\ \A t \in Thread : status'[t] = "BLOCKED" <=> status[t] = "BLOCKED" \/ t = currentThread
<1>0. /\ currentThread \in Thread /\ status \in [Thread -> ThreadStatus] /\ readyList \in Seq(Thread)
      /\ status[currentThread] = "RUNNING"
  BY DEF SchedTypeOK, Dispatch
<1>1. CASE readyList = <<>>
  <2>1. /\ status' = [status EXCEPT ![currentThread] = "BLOCKED"]
        /\ idle' = TRUE /\ readyList' = <<>>
    BY <1>1 DEF Sleep
  <2>2. Range(readyList) = {}
    BY <1>1 DEF Range
  <2>3. \A t \in Thread : status'[t] = IF t = currentThread THEN "BLOCKED" ELSE status[t]
    BY <1>0, <2>1
  <2> QED
    BY <1>1, <2>1, <2>2, <2>3 DEF Dispatch
<1>2. CASE readyList # <<>>
  <2> DEFINE h == Head(readyList)
             rest == Tail(readyList)
  <2>1. /\ h \in Thread /\ h \in Range(readyList) /\ IsInjective(rest)
        /\ Range(rest) = Range(readyList) \ {h}
    BY <1>0, <1>2, TailOfInjective DEF Dispatch
  <2>2. /\ status' = [status EXCEPT ![currentThread] = "BLOCKED", ![h] = "RUNNING"]
        /\ idle' = FALSE /\ currentThread' = h /\ readyList' = rest
    BY <1>2 DEF Sleep, Run
  <2> HIDE DEF h, rest
  <2>3. status[h] = "READY" /\ h # currentThread /\ currentThread \notin Range(readyList)
    BY <1>0, <2>1 DEF Dispatch
  <2>4. \A t \in Thread : status'[t] = IF t = h THEN "RUNNING"
                                       ELSE IF t = currentThread THEN "BLOCKED" ELSE status[t]
    BY <1>0, <2>1, <2>2
  <2>5. \A t \in Range(readyList) : t \in Thread
    BY <1>0, RangeElements, ElementOfSeq
  <2>6. \A t \in Range(readyList') : status'[t] = "READY"
    BY <2>1, <2>2, <2>3, <2>4, <2>5 DEF Dispatch
  <2> QED
    BY <1>0, <2>1, <2>2, <2>3, <2>4, <2>6 DEF Dispatch
<1> QED
  BY <1>1, <1>2

\* ReadyToRun unblocks the thread it is given.
LEMMA ReadyUnblocks ==
  ASSUME SchedTypeOK, Dispatch, ~idle, NEW h \in Thread, status[h] = "BLOCKED",
         MakeReady(h) \/ MakeReadyAndYield(h)
  PROVE  /\ Dispatch'
         /\ \A t \in Thread : status'[t] = "BLOCKED" <=> status[t] = "BLOCKED" /\ t # h
<1> DEFINE list == Queued(readyList, h)
           st == [status EXCEPT ![h] = "READY"]
<1>0. /\ currentThread \in Thread /\ status \in [Thread -> ThreadStatus] /\ readyList \in Seq(Thread)
      /\ status[currentThread] = "RUNNING" /\ h # currentThread /\ h \notin Range(readyList)
  BY DEF SchedTypeOK, Dispatch
<1>1. /\ list \in Seq(Thread) /\ list # <<>> /\ IsInjective(list)
      /\ Range(list) = Range(readyList) \cup {h}
  BY <1>0, QueuedProperties DEF Dispatch
<1>2. st \in [Thread -> ThreadStatus] /\ st[currentThread] = "RUNNING"
  BY <1>0 DEF ThreadStatus
<1>3. \A t \in Thread : st[t] = IF t = h THEN "READY" ELSE status[t]
  BY <1>0
<1>4. \A t \in Range(readyList) : t \in Thread
  BY <1>0, RangeElements, ElementOfSeq
<1>5. \A t \in Range(list) : st[t] = "READY"
  BY <1>1, <1>3, <1>4 DEF Dispatch
<1>6. CASE MakeReady(h)
  <2>1. readyList' = list /\ status' = st /\ currentThread' = currentThread /\ idle' = idle
    BY <1>6 DEF MakeReady
  <2> HIDE DEF list, st
  <2> QED
    BY <1>1, <1>2, <1>3, <1>5, <2>1 DEF Dispatch
<1>7. CASE MakeReadyAndYield(h)
  <2>1. YieldFrom(list, st)
    BY <1>7 DEF MakeReadyAndYield
  <2> HIDE DEF list, st
  <2> QED
    BY <1>1, <1>2, <1>3, <1>5, <2>1, YieldDispatches
<1> QED
  BY <1>6, <1>7
===============================================================================
