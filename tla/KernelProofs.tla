----------------------------- MODULE KernelProofs -----------------------------
(***************************************************************************)
(* Proofs about Kernel: type correctness under every scheduling policy,    *)
(* and, when no thread preempts another (round robin, or equal             *)
(* priorities), that no wakeup is lost and handlers run to completion.     *)
(***************************************************************************)
EXTENDS Kernel, SemaphoreProofs

\* The initial states are type correct.
LEMMA TypeInit == Init => TypeOK
<1> SUFFICES ASSUME Init PROVE TypeOK
  OBVIOUS
<1>1. Cardinality(Thread) - 1 \in Nat
  <2>1. Cardinality(Thread) \in Nat
    BY SchedulerAssumption, FS_CardinalityType
  <2>2. Cardinality(Thread) # 0
    BY SchedulerAssumption, FS_EmptySet
  <2> QED
    BY <2>1, <2>2
<1>2. readyList \in Seq(Thread)
  <2>1. readyList \in [1..(Cardinality(Thread) - 1) -> Thread]
    BY DEF Init
  <2> QED
    BY <1>1, <2>1, SeqDef
<1>3. SchedTypeOK
  BY <1>2 DEF Init, SchedTypeOK, ThreadStatus
<1>4. queue \in [Sem -> Seq(Thread)]
  BY EmptySeq DEF Init
<1> QED
  BY <1>3, <1>4, KernelAssumption DEF Init, TypeOK, Place

\* Under every policy and for every choice of threads and semaphores, the
\* variables keep their types; in particular no semaphore goes below 0
\* (synch.h: "semaphore value, always >= 0").
THEOREM TypeCorrect == Spec => []TypeOK
<1>1. Init => TypeOK
  BY TypeInit
<1>2. TypeOK /\ [Next]_vars => TypeOK'
  <2> SUFFICES ASSUME TypeOK, [Next]_vars PROVE TypeOK'
    OBVIOUS
  <2>0. SchedTypeOK /\ SemTypeOK(Place) /\ c \in Thread
    BY DEF TypeOK, SemTypeOK, SchedTypeOK, c
  <2> DEFINE HandlerType == inHandler' \in BOOLEAN /\ handler' \in [Thread -> SUBSET DeviceSem]
  <2>1. ASSUME NEW s \in Sem, CallP(s) \/ ResumeP(s) PROVE TypeOK'
    <3>1. P(s, InP(s), Own) /\ HandlerType
      BY <2>1 DEF CallP, ResumeP, TypeOK
    <3>2. InP(s) \in Place /\ Own \in Place
      BY DEF Place
    <3> QED
      BY <2>0, <3>1, <3>2, TypeP DEF TypeOK, SemTypeOK
  <2>2. ASSUME NEW s \in Sem, CallV(s) PROVE TypeOK'
    <3>1. V(s, InV(s), Own) /\ HandlerType
      BY <2>2 DEF CallV, TypeOK
    <3>2. InV(s) \in Place /\ Own \in Place
      BY DEF Place
    <3> QED
      BY <2>0, <3>1, <3>2, TypeV DEF TypeOK, SemTypeOK
  <2>3. ASSUME NEW s \in Sem, ResumeV(s) PROVE TypeOK'
    <3>1. Own \in Place /\ value[s] + 1 \in Nat
      BY <2>0 DEF Place, SemTypeOK
    <3>2. /\ value' = [value EXCEPT ![s] = value[s] + 1]
          /\ pc' = [pc EXCEPT ![c] = Own]
          /\ UNCHANGED <<queue, policy, currentThread, status, readyList, idle, inHandler, handler>>
      BY <2>3 DEF ResumeV, Increment, Goto, schedVars, c
    <3> QED
      BY <2>0, <3>1, <3>2 DEF TypeOK, SchedTypeOK
  <2>4. CASE Yield
    <3>1. YieldFrom(readyList, status) /\ readyList # <<>> /\ UNCHANGED semVars /\ HandlerType
      BY <2>4 DEF Yield, TypeOK
    <3>2. SchedTypeOK'
      BY <2>0, <3>1, TypeYield DEF SchedTypeOK
    <3> QED
      BY <3>1, <3>2 DEF TypeOK, semVars
  <2>5. ASSUME NEW s \in DeviceSem, DeviceInterrupt(s) PROVE TypeOK'
    <3>0. s \in Sem /\ pc[c] \in Place
      BY <2>0, KernelAssumption DEF TypeOK
    <3>1. V(s, pc[c], pc[c])
      BY <2>5 DEF DeviceInterrupt
    <3>2. HandlerType
      BY <2>0, <2>5 DEF DeviceInterrupt, TypeOK
    <3> QED
      BY <2>0, <3>0, <3>1, <3>2, TypeV DEF TypeOK, SemTypeOK
  <2>6. ASSUME NEW s \in DeviceSem, ResumeHandler(s) PROVE TypeOK'
    <3>0. s \in Sem /\ pc[c] \in Place
      BY <2>0, KernelAssumption DEF TypeOK
    <3>1. value[s] + 1 \in Nat
      BY <2>0, <3>0 DEF SemTypeOK
    <3>2. /\ value' = [value EXCEPT ![s] = value[s] + 1]
          /\ pc' = [pc EXCEPT ![c] = pc[c]]
          /\ idle' \in BOOLEAN
          /\ inHandler' = FALSE
          /\ handler' = [handler EXCEPT ![c] = {}]
          /\ UNCHANGED <<queue, policy, currentThread, status, readyList>>
      BY <2>6 DEF ResumeHandler, Increment, Goto, c
    <3> QED
      BY <2>0, <3>0, <3>1, <3>2 DEF TypeOK, SchedTypeOK
  <2>7. CASE LeaveIdle
    <3>1. Run(readyList, status) /\ readyList # <<>> /\ UNCHANGED semVars /\ HandlerType
      BY <2>7 DEF LeaveIdle, TypeOK
    <3>2. SchedTypeOK'
      BY <2>0, <3>1, TypeRun DEF SchedTypeOK
    <3> QED
      BY <3>1, <3>2 DEF TypeOK, semVars
  <2>8. CASE UNCHANGED vars
    BY <2>8 DEF vars, schedVars, semVars, TypeOK, SchedTypeOK, Place
  <2> QED
    BY <2>1, <2>2, <2>3, <2>4, <2>5, <2>6, <2>7, <2>8 DEF Next
<1> QED
  BY <1>1, <1>2, PTL DEF Spec
-----------------------------------------------------------------------------
(***************************************************************************)
(* The kernel without preemption.                                          *)
(***************************************************************************)

\* Handlers never yield and no thread stops inside V.
NoneInV ==
  /\ ~inHandler
  /\ \A t \in Thread : handler[t] = {}
  /\ \A t \in Thread, s \in Sem : pc[t] # InV(s)

KernelInv == TypeOK /\ OnOneList /\ NoLostWakeup /\ NoneInV

\* The places of a thread are different from each other.
LEMMA Labels ==
  /\ \A s \in Sem : InP(s) # Own /\ InV(s) # Own
  /\ \A s, r \in Sem : InP(s) # InV(r)
  /\ \A s, r \in Sem : InP(s) = InP(r) => s = r
BY DEF InP, InV, Own

\* Under NoPreemption ReadyToRun does not yield.
LEMMA NeverPreempts ==
  ASSUME NoPreemption, SchedTypeOK, NEW t \in Thread
  PROVE  ~Preempts(t)
BY SchedulerAssumption DEF NoPreemption, Preempts, SchedTypeOK, RoundRobbin, Priority

\* The woken threads can be counted.
LEMMA WokenFinite ==
  ASSUME NEW s \in Sem
  PROVE  IsFiniteSet(Woken(s)) /\ Cardinality(Woken(s)) \in Nat
<1>1. Woken(s) \subseteq Thread
  BY DEF Woken
<1>2. IsFiniteSet(Woken(s))
  BY <1>1, SchedulerAssumption, FS_Subset
<1> QED
  BY <1>2, FS_CardinalityType

\* A step that changes neither values nor queues nor the woken threads
\* keeps NoLostWakeup.
LEMMA SameWoken ==
  ASSUME NoLostWakeup, value' = value, queue' = queue,
         \A s \in Sem : Woken(s)' = Woken(s)
  PROVE  NoLostWakeup'
BY DEF NoLostWakeup

\* Taking a unit of s.
LEMMA TakeStep ==
  ASSUME KernelInv, NEW s \in Sem, ~idle, pc[c] \in {Own, InP(s)}, value[s] # 0,
         P(s, InP(s), Own)
  PROVE  OnOneList' /\ NoLostWakeup' /\ \A t \in Thread, r \in Sem : pc'[t] # InV(r)
<1>0. /\ c \in Thread /\ status[c] = "RUNNING" /\ pc \in [Thread -> Place]
      /\ value \in [Sem -> Nat]
  BY DEF KernelInv, TypeOK, SchedTypeOK, OnOneList, c
<1>1. /\ value' = [value EXCEPT ![s] = @ - 1]
      /\ pc' = [pc EXCEPT ![c] = Own]
      /\ UNCHANGED <<queue, currentThread, status, readyList, idle>>
  BY DEF P, Goto, schedVars, c
<1>2. OnOneList'
  BY <1>0, <1>1, Labels DEF KernelInv, OnOneList, c
<1>3. NoLostWakeup'
  <2> SUFFICES ASSUME NEW r \in Sem, queue[r] # <<>>
               PROVE  value'[r] <= Cardinality(Woken(r)')
    BY <1>1 DEF NoLostWakeup
  <2>0. value[r] <= Cardinality(Woken(r)) /\ value[r] \in Nat
    BY <1>0 DEF KernelInv, NoLostWakeup
  <2>1. Woken(r)' = IF pc[c] = InP(r) THEN Woken(r) \ {c} ELSE Woken(r)
    BY <1>0, <1>1, Labels DEF Woken
  <2>2. CASE pc[c] = InP(r)
    <3>1. r = s /\ c \in Woken(r)
      BY <2>2, <1>0, Labels DEF Woken
    <3>2. Cardinality(Woken(r) \ {c}) = Cardinality(Woken(r)) - 1
      BY <3>1, WokenFinite, FS_RemoveElement
    <3>3. value'[r] = value[r] - 1 /\ Cardinality(Woken(r)) \in Nat
      BY <3>1, <1>0, <1>1, WokenFinite
    <3> QED
      BY <2>0, <2>1, <2>2, <3>2, <3>3
  <2>3. CASE pc[c] # InP(r)
    <3>1. value'[r] <= value[r] /\ value'[r] \in Int
      BY <1>0, <1>1
    <3> QED
      BY <2>0, <2>1, <2>3, <3>1, WokenFinite
  <2> QED
    BY <2>2, <2>3
<1> QED
  BY <1>0, <1>1, <1>2, <1>3, Labels DEF KernelInv, NoneInV

\* Going to sleep on s.
LEMMA SleepStep ==
  ASSUME KernelInv, NEW s \in Sem, ~idle, pc[c] \in {Own, InP(s)}, value[s] = 0,
         P(s, InP(s), Own)
  PROVE  OnOneList' /\ NoLostWakeup' /\ \A t \in Thread, r \in Sem : pc'[t] # InV(r)
<1>0. /\ c \in Thread /\ status[c] = "RUNNING" /\ pc \in [Thread -> Place]
      /\ status \in [Thread -> ThreadStatus] /\ readyList \in Seq(Thread)
      /\ queue \in [Sem -> Seq(Thread)] /\ value \in [Sem -> Nat]
  BY DEF KernelInv, TypeOK, SchedTypeOK, OnOneList, c
<1>1. /\ queue' = [queue EXCEPT ![s] = Append(queue[s], c)]
      /\ pc' = [pc EXCEPT ![c] = InP(s)]
      /\ value' = value
      /\ Sleep
  BY DEF P, Goto, c
<1>2. /\ IsInjective(queue'[s])
      /\ Range(queue'[s]) = Range(queue[s]) \cup {c}
  <2>1. IsInjective(queue[s]) /\ c \notin Range(queue[s]) /\ queue[s] \in Seq(Thread)
    BY <1>0 DEF KernelInv, OnOneList
  <2>2. queue'[s] = Append(queue[s], c)
    BY <1>0, <1>1
  <2> QED
    BY <1>0, <2>1, <2>2, AppendOnce
<1>3. /\ \A t \in Thread : status'[t] = "BLOCKED" <=> t = c \/ status[t] = "BLOCKED"
      /\ IsInjective(readyList')
      /\ \A t \in Thread : t \in Range(readyList') <=> status'[t] = "READY"
      /\ \A t \in Thread : status'[t] = "RUNNING" <=> ~idle' /\ t = currentThread'
  <2>1. CASE readyList = <<>>
    <3>1. /\ status' = [status EXCEPT ![c] = "BLOCKED"]
          /\ idle' = TRUE /\ currentThread' = currentThread /\ readyList' = readyList
      BY <1>1, <2>1 DEF Sleep, c
    <3> QED
      BY <1>0, <3>1 DEF KernelInv, OnOneList
  <2>2. CASE readyList # <<>>
    <3> DEFINE h == Head(readyList)
    <3>1. /\ status' = [status EXCEPT ![c] = "BLOCKED", ![h] = "RUNNING"]
          /\ idle' = FALSE /\ currentThread' = h /\ readyList' = Tail(readyList)
      BY <1>1, <2>2 DEF Sleep, Run, c
    <3>2. /\ h \in Thread /\ h \in Range(readyList)
          /\ IsInjective(readyList')
          /\ Range(readyList') = Range(readyList) \ {h}
      BY <1>0, <2>2, <3>1, TailOfInjective DEF KernelInv, OnOneList
    <3> HIDE DEF h
    <3>3. status[h] = "READY" /\ h # c
      BY <1>0, <3>2 DEF KernelInv, OnOneList
    <3> QED
      BY <1>0, <3>1, <3>2, <3>3 DEF KernelInv, OnOneList
  <2> QED
    BY <2>1, <2>2
<1>4. OnOneList'
  <2>1. ASSUME NEW r \in Sem
        PROVE  /\ IsInjective(queue'[r])
               /\ \A t \in Thread :
                    t \in Range(queue'[r]) <=> status'[t] = "BLOCKED" /\ pc'[t] = InP(r)
    <3>1. CASE r = s
      BY <3>1, <1>0, <1>1, <1>2, <1>3, Labels DEF KernelInv, OnOneList
    <3>2. CASE r # s
      <4>1. queue'[r] = queue[r]
        BY <3>2, <1>0, <1>1
      <4>2. pc'[c] # InP(r) /\ pc[c] # InP(r)
        BY <3>2, <1>0, <1>1, Labels
      <4> QED
        BY <4>1, <4>2, <1>0, <1>1, <1>3 DEF KernelInv, OnOneList
    <3> QED
      BY <3>1, <3>2
  <2> QED
    BY <1>3, <2>1 DEF OnOneList, c
<1>5. NoLostWakeup'
  <2> SUFFICES ASSUME NEW r \in Sem, queue'[r] # <<>>
               PROVE  value'[r] <= Cardinality(Woken(r)')
    BY DEF NoLostWakeup
  <2>1. CASE r = s
    <3>1. Cardinality(Woken(r)') \in Nat
      <4>1. Woken(r)' \subseteq Thread
        BY DEF Woken
      <4>2. IsFiniteSet(Woken(r)')
        BY <4>1, SchedulerAssumption, FS_Subset
      <4> QED
        BY <4>2, FS_CardinalityType
    <3> QED
      BY <2>1, <3>1, <1>1
  <2>2. CASE r # s
    <3>1. pc[c] # InP(r) /\ pc'[c] # InP(r) /\ queue'[r] = queue[r]
      BY <2>2, <1>0, <1>1, Labels
    <3>2. Woken(r)' = Woken(r)
      BY <3>1, <1>0, <1>1, <1>3 DEF Woken
    <3> QED
      BY <3>1, <3>2, <1>1 DEF KernelInv, NoLostWakeup
  <2> QED
    BY <2>1, <2>2
<1> QED
  BY <1>0, <1>1, <1>4, <1>5, Labels DEF KernelInv, NoneInV

\* V of s, by a thread or by an interrupt handler.
LEMMA VStep ==
  ASSUME NoPreemption, KernelInv, NEW s \in Sem, NEW mid, V(s, mid, pc[c])
  PROVE  /\ OnOneList' /\ NoLostWakeup'
         /\ UNCHANGED <<pc, currentThread>>
<1>0. /\ c \in Thread /\ pc \in [Thread -> Place]
      /\ status \in [Thread -> ThreadStatus] /\ readyList \in Seq(Thread)
      /\ queue \in [Sem -> Seq(Thread)] /\ value \in [Sem -> Nat]
  BY DEF KernelInv, TypeOK, SchedTypeOK, c
<1>1. CASE queue[s] = <<>>
  <2>1. /\ value' = [value EXCEPT ![s] = @ + 1]
        /\ pc' = [pc EXCEPT ![c] = pc[c]]
        /\ UNCHANGED <<queue, currentThread, status, readyList, idle>>
    BY <1>1 DEF V, Increment, Goto, schedVars, c
  <2>2. pc' = pc
    BY <1>0, <2>1
  <2>3. OnOneList'
    BY <2>1, <2>2 DEF KernelInv, OnOneList, c
  <2>4. ASSUME NEW r \in Sem, queue'[r] # <<>>
        PROVE  value'[r] <= Cardinality(Woken(r)')
    <3>1. r # s /\ value'[r] = value[r] /\ queue'[r] = queue[r]
      BY <2>1, <2>4, <1>0, <1>1
    <3>2. Woken(r)' = Woken(r)
      BY <2>1, <2>2 DEF Woken
    <3> QED
      BY <2>4, <3>1, <3>2 DEF KernelInv, NoLostWakeup
  <2> QED
    BY <2>1, <2>2, <2>3, <2>4 DEF NoLostWakeup
<1>2. CASE queue[s] # <<>>
  <2> DEFINE h == Head(queue[s])
  <2>1. /\ h \in Thread /\ h \in Range(queue[s])
        /\ Tail(queue[s]) \in Seq(Thread)
        /\ IsInjective(Tail(queue[s]))
        /\ Range(Tail(queue[s])) = Range(queue[s]) \ {h}
    <3>1. queue[s] \in Seq(Thread) /\ IsInjective(queue[s])
      BY <1>0 DEF KernelInv, OnOneList
    <3> QED
      BY <1>2, <3>1, TailOfInjective
  <2>2. ~Preempts(h)
    BY <2>1, NeverPreempts DEF KernelInv, TypeOK
  <2>3. /\ value' = [value EXCEPT ![s] = @ + 1]
        /\ pc' = [pc EXCEPT ![c] = pc[c]]
        /\ queue' = [queue EXCEPT ![s] = Tail(queue[s])]
        /\ readyList' = Queued(readyList, h)
        /\ status' = [status EXCEPT ![h] = "READY"]
        /\ UNCHANGED <<currentThread, idle>>
    BY <1>2, <2>2 DEF V, MakeReady, Increment, Goto, c
  <2> HIDE DEF h
  <2>4. pc' = pc
    BY <1>0, <2>3
  <2>5. status[h] = "BLOCKED" /\ pc[h] = InP(s) /\ h \notin Range(readyList)
    BY <2>1 DEF KernelInv, OnOneList
  <2>6. IsInjective(readyList') /\ Range(readyList') = Range(readyList) \cup {h}
    BY <1>0, <2>1, <2>3, <2>5, QueuedProperties DEF KernelInv, OnOneList
  <2>7. OnOneList'
    <3>1. \A t \in Thread : t \in Range(readyList') <=> status'[t] = "READY"
      BY <1>0, <2>1, <2>3, <2>6 DEF KernelInv, OnOneList
    <3>2. \A t \in Thread : status'[t] = "RUNNING" <=> ~idle' /\ t = currentThread'
      BY <1>0, <2>1, <2>3, <2>5 DEF KernelInv, OnOneList, c
    <3>3. ASSUME NEW r \in Sem
          PROVE  /\ IsInjective(queue'[r])
                 /\ \A t \in Thread :
                      t \in Range(queue'[r]) <=> status'[t] = "BLOCKED" /\ pc'[t] = InP(r)
      <4>1. CASE r = s
        <5>1. queue'[r] = Tail(queue[s])
          BY <4>1, <1>0, <2>3
        <5> QED
          BY <4>1, <5>1, <1>0, <2>1, <2>3, <2>4, <2>5 DEF KernelInv, OnOneList
      <4>2. CASE r # s
        <5>1. queue'[r] = queue[r] /\ pc[h] # InP(r)
          BY <4>2, <1>0, <2>3, <2>5, Labels
        <5> QED
          BY <5>1, <1>0, <2>1, <2>3, <2>4 DEF KernelInv, OnOneList
      <4> QED
        BY <4>1, <4>2
    <3> QED
      BY <2>6, <3>1, <3>2, <3>3 DEF OnOneList, c
  <2>8. ASSUME NEW r \in Sem, queue'[r] # <<>>
        PROVE  value'[r] <= Cardinality(Woken(r)')
    <3>1. CASE r = s
      <4>1. Woken(r)' = Woken(r) \cup {h} /\ h \notin Woken(r)
        BY <3>1, <1>0, <2>1, <2>3, <2>4, <2>5 DEF Woken
      <4>2. Cardinality(Woken(r)') = Cardinality(Woken(r)) + 1
        BY <4>1, WokenFinite, FS_AddElement
      <4>3. value[r] <= Cardinality(Woken(r)) /\ value[r] \in Nat /\ value'[r] = value[r] + 1
        BY <3>1, <1>0, <1>2, <2>3 DEF KernelInv, NoLostWakeup
      <4> QED
        BY <4>2, <4>3, WokenFinite
    <3>2. CASE r # s
      <4>1. value'[r] = value[r] /\ queue'[r] = queue[r] /\ pc[h] # InP(r)
        BY <3>2, <1>0, <2>3, <2>5, Labels
      <4>2. Woken(r)' = Woken(r)
        BY <4>1, <1>0, <2>1, <2>3, <2>4 DEF Woken
      <4> QED
        BY <2>8, <4>1, <4>2 DEF KernelInv, NoLostWakeup
    <3> QED
      BY <3>1, <3>2
  <2> QED
    BY <2>3, <2>4, <2>7, <2>8 DEF NoLostWakeup
<1> QED
  BY <1>1, <1>2

\* Yield.
LEMMA YieldStep ==
  ASSUME KernelInv, ~idle, readyList # <<>>, YieldFrom(readyList, status), UNCHANGED semVars
  PROVE  OnOneList' /\ NoLostWakeup'
<1> DEFINE h == Head(readyList)
<1>0. /\ c \in Thread /\ status[c] = "RUNNING" /\ pc \in [Thread -> Place]
      /\ status \in [Thread -> ThreadStatus] /\ readyList \in Seq(Thread)
  BY DEF KernelInv, TypeOK, SchedTypeOK, OnOneList, c
<1>1. /\ h \in Thread /\ h \in Range(readyList)
      /\ Tail(readyList) \in Seq(Thread)
      /\ IsInjective(Tail(readyList))
      /\ Range(Tail(readyList)) = Range(readyList) \ {h}
  BY <1>0, TailOfInjective DEF KernelInv, OnOneList
<1>2. /\ status' = [status EXCEPT ![c] = "READY", ![h] = "RUNNING"]
      /\ idle' = FALSE /\ currentThread' = h
      /\ readyList' = Queued(Tail(readyList), c)
      /\ value' = value /\ queue' = queue /\ pc' = pc
  BY DEF YieldFrom, semVars, c
<1> HIDE DEF h
<1>3. status[h] = "READY" /\ h # c /\ c \notin Range(readyList)
  BY <1>0, <1>1 DEF KernelInv, OnOneList
<1>4. IsInjective(readyList') /\ Range(readyList') = (Range(readyList) \ {h}) \cup {c}
  BY <1>0, <1>1, <1>2, <1>3, QueuedProperties
<1>5. OnOneList'
  <2>1. \A t \in Thread : t \in Range(readyList') <=> status'[t] = "READY"
    BY <1>0, <1>1, <1>2, <1>3, <1>4 DEF KernelInv, OnOneList
  <2>2. \A t \in Thread : status'[t] = "RUNNING" <=> ~idle' /\ t = currentThread'
    BY <1>0, <1>1, <1>2, <1>3 DEF KernelInv, OnOneList, c
  <2>3. \A t \in Thread : status'[t] = "BLOCKED" <=> status[t] = "BLOCKED"
    BY <1>0, <1>1, <1>2, <1>3
  <2> QED
    BY <1>2, <1>4, <2>1, <2>2, <2>3 DEF KernelInv, OnOneList, c
<1>6. NoLostWakeup'
  <2>1. \A s \in Sem : Woken(s)' = Woken(s)
    BY <1>0, <1>1, <1>2, <1>3 DEF Woken
  <2> QED
    BY <1>2, <2>1, SameWoken DEF KernelInv
<1> QED
  BY <1>5, <1>6

\* The end of the idle loop.
LEMMA LeaveIdleStep ==
  ASSUME KernelInv, idle, readyList # <<>>, Run(readyList, status), UNCHANGED semVars
  PROVE  OnOneList' /\ NoLostWakeup'
<1> DEFINE h == Head(readyList)
<1>0. /\ pc \in [Thread -> Place]
      /\ status \in [Thread -> ThreadStatus] /\ readyList \in Seq(Thread)
  BY DEF KernelInv, TypeOK, SchedTypeOK, OnOneList
<1>1. /\ h \in Thread /\ h \in Range(readyList)
      /\ IsInjective(Tail(readyList))
      /\ Range(Tail(readyList)) = Range(readyList) \ {h}
  BY <1>0, TailOfInjective DEF KernelInv, OnOneList
<1>2. /\ status' = [status EXCEPT ![h] = "RUNNING"]
      /\ idle' = FALSE /\ currentThread' = h /\ readyList' = Tail(readyList)
      /\ value' = value /\ queue' = queue /\ pc' = pc
  BY DEF Run, semVars
<1> HIDE DEF h
<1>3. status[h] = "READY"
  BY <1>1 DEF KernelInv, OnOneList
<1>5. OnOneList'
  <2>1. \A t \in Thread : t \in Range(readyList') <=> status'[t] = "READY"
    BY <1>0, <1>1, <1>2 DEF KernelInv, OnOneList
  <2>2. \A t \in Thread : status'[t] = "RUNNING" <=> ~idle' /\ t = currentThread'
    BY <1>0, <1>1, <1>2 DEF KernelInv, OnOneList
  <2>3. \A t \in Thread : status'[t] = "BLOCKED" <=> status[t] = "BLOCKED"
    BY <1>0, <1>1, <1>2, <1>3
  <2> QED
    BY <1>1, <1>2, <2>1, <2>2, <2>3 DEF KernelInv, OnOneList, c
<1>6. NoLostWakeup'
  <2>1. \A s \in Sem : Woken(s)' = Woken(s)
    BY <1>0, <1>1, <1>2, <1>3 DEF Woken
  <2> QED
    BY <1>2, <2>1, SameWoken DEF KernelInv
<1> QED
  BY <1>5, <1>6

\* The invariant holds at the start.
LEMMA KernelInvInit == Init => KernelInv
<1> SUFFICES ASSUME Init PROVE KernelInv
  OBVIOUS
<1>1. TypeOK
  BY TypeInit
<1>2. OnOneList
  <2>1. \A s \in Sem : queue[s] = <<>> /\ IsInjective(<<>>) /\ Range(<<>>) = {}
    BY DEF Init, IsInjective, Range
  <2>2. \A t \in Thread : status[t] = IF t = currentThread THEN "RUNNING" ELSE "READY"
    BY DEF Init
  <2> QED
    BY <2>1, <2>2 DEF Init, OnOneList, c
<1>3. NoLostWakeup
  BY DEF Init, NoLostWakeup
<1>4. NoneInV
  BY Labels DEF Init, NoneInV
<1> QED
  BY <1>1, <1>2, <1>3, <1>4 DEF KernelInv

\* Without preemption every step keeps the invariant.
LEMMA KernelInvStep ==
  ASSUME NoPreemption, KernelInv, TypeOK', [Next]_vars
  PROVE  KernelInv'
<1> SUFFICES OnOneList' /\ NoLostWakeup' /\ NoneInV'
  BY DEF KernelInv
<1>0. /\ c \in Thread
      /\ handler[c] = {} /\ ~inHandler
      /\ handler \in [Thread -> SUBSET DeviceSem]
      /\ \A t \in Thread, s \in Sem : pc[t] # InV(s)
  BY DEF KernelInv, TypeOK, SchedTypeOK, NoneInV, c
<1>1. ASSUME NEW s \in Sem, CallP(s) \/ ResumeP(s)
      PROVE  OnOneList' /\ NoLostWakeup' /\ NoneInV'
  <2>1. /\ ~idle /\ pc[c] \in {Own, InP(s)} /\ P(s, InP(s), Own)
        /\ UNCHANGED <<inHandler, handler>>
    BY <1>1 DEF CallP, ResumeP, InterruptsOn, AtOwnCode
  <2> QED
    BY <2>1, TakeStep, SleepStep DEF KernelInv, NoneInV
<1>2. ASSUME NEW s \in Sem, CallV(s)
      PROVE  OnOneList' /\ NoLostWakeup' /\ NoneInV'
  <2>1. pc[c] = Own /\ V(s, InV(s), pc[c]) /\ UNCHANGED <<inHandler, handler>>
    BY <1>2 DEF CallV, InterruptsOn, AtOwnCode
  <2> QED
    BY <2>1, VStep DEF KernelInv, NoneInV
<1>3. ASSUME NEW s \in Sem, ResumeV(s)
      PROVE  FALSE
  BY <1>0, <1>3 DEF ResumeV
<1>4. CASE Yield
  BY <1>4, YieldStep DEF Yield, InterruptsOn, AtOwnCode, semVars, KernelInv, NoneInV
<1>5. ASSUME NEW s \in DeviceSem, DeviceInterrupt(s)
      PROVE  OnOneList' /\ NoLostWakeup' /\ NoneInV'
  <2>0. s \in Sem
    BY KernelAssumption
  <2>1. V(s, pc[c], pc[c])
    BY <1>5 DEF DeviceInterrupt
  <2>2. OnOneList' /\ NoLostWakeup' /\ pc' = pc /\ currentThread' = c
    BY <2>0, <2>1, VStep DEF c
  <2>3. inHandler' = FALSE /\ handler' = handler
    BY <1>5, <2>2 DEF DeviceInterrupt
  <2> QED
    BY <2>2, <2>3 DEF KernelInv, NoneInV
<1>6. ASSUME NEW s \in DeviceSem, ResumeHandler(s)
      PROVE  FALSE
  BY <1>0, <1>6 DEF ResumeHandler
<1>7. CASE LeaveIdle
  BY <1>7, LeaveIdleStep DEF LeaveIdle, semVars, KernelInv, NoneInV
<1>8. CASE UNCHANGED vars
  <2>1. /\ UNCHANGED <<currentThread, status, readyList, idle>>
        /\ UNCHANGED <<value, queue, pc, inHandler, handler>>
    BY <1>8 DEF vars, schedVars, semVars
  <2>2. \A s \in Sem : Woken(s)' = Woken(s)
    BY <2>1 DEF Woken
  <2> QED
    BY <2>1, <2>2, SameWoken DEF KernelInv, OnOneList, NoneInV, c
<1> QED
  BY <1>1, <1>2, <1>3, <1>4, <1>5, <1>6, <1>7, <1>8 DEF Next

\* No step changes the policy.
LEMMA PolicyStays ==
  ASSUME TypeOK, [Next]_vars
  PROVE  policy' = policy /\ NoPreemption' = NoPreemption
<1>1. policy' = policy
  <2>1. ASSUME NEW s, NEW wait, NEW next, P(s, wait, next) PROVE policy' = policy
    BY <2>1 DEF P, Sleep, Run, schedVars
  <2>2. ASSUME NEW s, NEW mid, NEW next, V(s, mid, next) PROVE policy' = policy
    BY <2>2 DEF V, MakeReady, MakeReadyAndYield, YieldFrom, schedVars
  <2>3. ASSUME NEW s \in Sem, CallP(s) \/ ResumeP(s) PROVE policy' = policy
    BY <2>1, <2>3 DEF CallP, ResumeP
  <2>4. ASSUME NEW s \in Sem, CallV(s) \/ ResumeV(s) PROVE policy' = policy
    BY <2>2, <2>4 DEF CallV, ResumeV, schedVars
  <2>5. ASSUME NEW s \in DeviceSem, DeviceInterrupt(s) \/ ResumeHandler(s) PROVE policy' = policy
    BY <2>2, <2>5 DEF DeviceInterrupt, ResumeHandler
  <2>6. CASE Yield \/ LeaveIdle \/ UNCHANGED vars
    BY <2>6 DEF Yield, LeaveIdle, YieldFrom, Run, vars, schedVars
  <2> QED
    BY <2>3, <2>4, <2>5, <2>6 DEF Next
<1> QED
  BY <1>1 DEF NoPreemption, RoundRobbin, Priority

\* The invariant holds in every behaviour whose policy does not preempt.
LEMMA KernelInvariant == Spec => [](NoPreemption => KernelInv)
<1>1. Init => (NoPreemption => KernelInv)
  BY KernelInvInit
<1>2. (NoPreemption => KernelInv) /\ TypeOK /\ TypeOK' /\ [Next]_vars
        => (NoPreemption => KernelInv)'
  <2> SUFFICES ASSUME NoPreemption => KernelInv, TypeOK, TypeOK', [Next]_vars, NoPreemption'
               PROVE  KernelInv'
    OBVIOUS
  <2>1. NoPreemption
    BY PolicyStays
  <2> QED
    BY <2>1, KernelInvStep
<1> QED
  BY <1>1, <1>2, TypeCorrect, PTL DEF Spec

\* Without preemption V never strands a sleeping thread: each unit of a
\* semaphore that has sleepers has a woken thread on its way to take it.
THEOREM WakeupsAreNotLost == Spec => []WakeupsKept
<1>1. (NoPreemption => KernelInv) => WakeupsKept
  BY DEF KernelInv, WakeupsKept
<1> QED
  BY <1>1, KernelInvariant, PTL

\* Without preemption every thread is on the one list its status names:
\* Run, Sleep, Yield and V never lose a thread nor list it twice.
THEOREM ThreadsAreOnOneList == Spec => []ListsKept
<1>1. (NoPreemption => KernelInv) => ListsKept
  BY DEF KernelInv, ListsKept
<1> QED
  BY <1>1, KernelInvariant, PTL

\* Without preemption the assertion of Interrupt::SetLevel never fails.
THEOREM SetLevelAssertion == Spec => []HandlersComplete
<1>1. (NoPreemption => KernelInv) => HandlersComplete
  BY DEF KernelInv, NoneInV, HandlersRunToCompletion, HandlersComplete
<1> QED
  BY <1>1, KernelInvariant, PTL
-----------------------------------------------------------------------------
(***************************************************************************)
(* The semaphores implement the contract of synch.h, under every policy.   *)
(***************************************************************************)

\* The semaphore that t waits for in P, as the contract sees it.
Wants == [t \in Thread |-> {s \in Sem : pc[t] = InP(s)}]

\* The waits are read off the places of the threads.
LEMMA WantsByPlace ==
  ASSUME pc \in [Thread -> Place], NEW t \in Thread
  PROVE  /\ pc[t] = Own => Wants[t] = {}
         /\ \A s \in Sem : pc[t] = InP(s) => Wants[t] = {s}
BY Labels DEF Wants

\* A thread that moves changes its own entry only.
LEMMA WantsMoved ==
  ASSUME pc \in [Thread -> Place], NEW t \in Thread, NEW w, pc' = [pc EXCEPT ![t] = w]
  PROVE  /\ w = Own => Wants' = [Wants EXCEPT ![t] = {}]
         /\ \A s \in Sem : w = InP(s) => Wants' = [Wants EXCEPT ![t] = {s}]
         /\ w = pc[t] => Wants' = Wants
<1>1. \A u \in Thread : u # t => pc'[u] = pc[u]
  OBVIOUS
<1>2. pc'[t] = w
  OBVIOUS
<1>3. ASSUME w = Own PROVE Wants' = [Wants EXCEPT ![t] = {}]
  BY <1>1, <1>2, <1>3, Labels DEF Wants
<1>4. ASSUME NEW s \in Sem, w = InP(s) PROVE Wants' = [Wants EXCEPT ![t] = {s}]
  BY <1>1, <1>2, <1>4, Labels DEF Wants
<1>5. ASSUME w = pc[t] PROVE Wants' = Wants
  <2>1. pc' = pc
    BY <1>5
  <2> QED
    BY <2>1 DEF Wants
<1> QED
  BY <1>3, <1>4, <1>5

\* A turn of the loop of P is the beginning or the end of the contract's P, or
\* nothing when the thread goes back to sleep.
LEMMA PContract ==
  ASSUME TypeOK, NEW s \in Sem, pc[c] \in {Own, InP(s)}, P(s, InP(s), Own)
  PROVE  Semaphores!ContractNext \/ UNCHANGED <<value, Wants>>
<1>0. c \in Thread /\ pc \in [Thread -> Place] /\ value \in [Sem -> Nat]
      /\ SchedTypeOK /\ SemTypeOK(Place)
  BY DEF TypeOK, SchedTypeOK, SemTypeOK, c
<1>1. PICK t \in Thread : t = c
  BY <1>0
<1>2. CASE value[s] = 0
  <2>1. value' = value /\ pc' = [pc EXCEPT ![c] = InP(s)]
    BY <1>0, <1>2, EffectP DEF c
  <2>2. Wants' = [Wants EXCEPT ![c] = {s}]
    BY <1>0, <2>1, WantsMoved
  <2>3. CASE pc[c] = Own
    <3>1. Wants[c] = {}
      BY <1>0, <2>3, WantsByPlace
    <3>2. Semaphores!BeginP(t, s)
      BY <1>1, <2>1, <2>2, <3>1 DEF Semaphores!BeginP, Wants
    <3> QED
      BY <3>2 DEF Semaphores!ContractNext
  <2>4. CASE pc[c] = InP(s)
    BY <1>0, <2>1, <2>4, WantsMoved
  <2> QED
    BY <2>3, <2>4
<1>3. CASE value[s] # 0
  <2>1. value' = [value EXCEPT ![s] = value[s] - 1] /\ pc' = [pc EXCEPT ![c] = Own]
    BY <1>0, <1>3, EffectP DEF c
  <2>2. Wants' = [Wants EXCEPT ![c] = {}]
    BY <1>0, <2>1, WantsMoved
  <2>3. Wants[c] \subseteq {s}
    BY <1>0, WantsByPlace
  <2>4. value[s] > 0
    BY <1>0, <1>3
  <2>5. Semaphores!EndP(t, s)
    BY <1>1, <2>1, <2>2, <2>3, <2>4 DEF Semaphores!EndP, Wants
  <2> QED
    BY <2>5 DEF Semaphores!ContractNext
<1> QED
  BY <1>2, <1>3

\* V of a thread or of a handler is the contract's V; a V that has yielded
\* before the increment does nothing yet.
LEMMA VContract ==
  ASSUME TypeOK, NEW s \in Sem, NEW mid \in {InV(s), pc[c]}, V(s, mid, pc[c]),
         mid = pc[c] \/ pc[c] = Own
  PROVE  Semaphores!ContractNext \/ UNCHANGED <<value, Wants>>
<1>0. c \in Thread /\ pc \in [Thread -> Place]
  BY DEF TypeOK, SchedTypeOK, c
<1>1. \/ /\ value' = [value EXCEPT ![s] = value[s] + 1]
         /\ pc' = [pc EXCEPT ![c] = pc[c]]
      \/ /\ value' = value
         /\ pc' = [pc EXCEPT ![c] = mid]
  BY EffectV DEF c
<1>2. CASE value' = [value EXCEPT ![s] = value[s] + 1] /\ pc' = [pc EXCEPT ![c] = pc[c]]
  <2>1. Wants' = Wants
    BY <1>0, <1>2, WantsMoved
  <2>2. Semaphores!AtomicV(s)
    BY <1>2, <2>1 DEF Semaphores!AtomicV, Wants
  <2> QED
    BY <2>2 DEF Semaphores!ContractNext
<1>3. CASE value' = value /\ pc' = [pc EXCEPT ![c] = mid]
  <2>1. CASE mid = pc[c]
    BY <1>0, <1>3, <2>1, WantsMoved
  <2>2. CASE mid = InV(s) /\ pc[c] = Own
    BY <1>0, <1>3, <2>2, Labels DEF Wants
  <2> QED
    BY <1>3, <2>1, <2>2
<1> QED
  BY <1>1, <1>2, <1>3

\* Back from the yield, the increment is the contract's V.
LEMMA IncrementContract ==
  ASSUME TypeOK, NEW s \in Sem, NEW next, Increment(s, next),
         next = pc[c] \/ (next = Own /\ pc[c] = InV(s))
  PROVE  Semaphores!ContractNext
<1>0. c \in Thread /\ pc \in [Thread -> Place]
  BY DEF TypeOK, SchedTypeOK, c
<1>1. value' = [value EXCEPT ![s] = value[s] + 1] /\ pc' = [pc EXCEPT ![c] = next]
  BY DEF Increment, Goto, c
<1>2. Wants' = Wants
  BY <1>0, <1>1, Labels DEF Wants
<1>3. Semaphores!AtomicV(s)
  BY <1>1, <1>2 DEF Semaphores!AtomicV, Wants
<1> QED
  BY <1>3 DEF Semaphores!ContractNext

\* Every step of the kernel is at most one P or one V of the contract, under
\* every policy and wherever the routines are interrupted: the refinement of
\* SemaphoreContract, for every choice of threads, semaphores and priorities.
THEOREM SemaphoresAreAtomic == Spec => AtomicSteps
<1>1. Init => Semaphores!ContractInit
  BY Labels DEF Init, Semaphores!ContractInit
<1>2. TypeOK /\ [Next]_vars => [Semaphores!ContractNext]_<<value, Wants>>
  <2> SUFFICES ASSUME TypeOK, [Next]_vars
               PROVE  Semaphores!ContractNext \/ UNCHANGED <<value, Wants>>
    OBVIOUS
  <2>1. ASSUME NEW s \in Sem, CallP(s) \/ ResumeP(s)
        PROVE  Semaphores!ContractNext \/ UNCHANGED <<value, Wants>>
    BY <2>1, PContract DEF CallP, ResumeP, InterruptsOn, AtOwnCode
  <2>2. ASSUME NEW s \in Sem, CallV(s)
        PROVE  Semaphores!ContractNext \/ UNCHANGED <<value, Wants>>
    BY <2>2, VContract DEF CallV, InterruptsOn, AtOwnCode
  <2>3. ASSUME NEW s \in Sem, ResumeV(s) PROVE Semaphores!ContractNext
    BY <2>3, IncrementContract DEF ResumeV
  <2>4. ASSUME NEW s \in DeviceSem, DeviceInterrupt(s)
        PROVE  Semaphores!ContractNext \/ UNCHANGED <<value, Wants>>
    <3>1. s \in Sem
      BY KernelAssumption
    <3>2. V(s, pc[c], pc[c])
      BY <2>4 DEF DeviceInterrupt
    <3> QED
      BY <3>1, <3>2, VContract
  <2>5. ASSUME NEW s \in DeviceSem, ResumeHandler(s) PROVE Semaphores!ContractNext
    <3>1. s \in Sem
      BY KernelAssumption
    <3> QED
      BY <2>5, <3>1, IncrementContract DEF ResumeHandler
  <2>6. CASE Yield \/ LeaveIdle \/ UNCHANGED vars
    BY <2>6 DEF Yield, LeaveIdle, vars, semVars, Wants
  <2> QED
    BY <2>1, <2>2, <2>3, <2>4, <2>5, <2>6 DEF Next
<1> QED
  BY <1>1, <1>2, TypeCorrect, PTL
     DEF Spec, AtomicSteps, Semaphores!AtomicContract, Semaphores!contractVars, Wants
==============================================================================
