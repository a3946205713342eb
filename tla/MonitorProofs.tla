----------------------------- MODULE MonitorProofs -----------------------------
(***************************************************************************)
(* Proofs about MonitorUse, for every number of threads and conditions and *)
(* under every scheduling policy: the lock excludes, Wait is atomic, and   *)
(* both, with Signal and Broadcast, implement MonitorContract.             *)
(***************************************************************************)
EXTENDS MonitorUse, SemaphoreProofs

\* The lock is one of the semaphores.
LEMMA LockIsSem == lock \in Sem /\ lock \in Lock
BY MonitorAssumption, MonitorUseAssumption

\* What a place says of the thread that is there: it is inside; it has taken
\* the unit of the lock's semaphore; it has released the lock in Wait.
IsHold(p)     == p = Inside \/ \E cv \in Cond : p = Broadcasting(cv)
IsUnit(p)     == IsHold(p) \/ p = Releasing \/ \E cv \in Cond : p = WaitReleasing(cv)
IsReleased(p) == \E cv \in Cond : p = WaitReleased(cv)
IsNeutral(p)  == ~IsUnit(p) /\ ~IsReleased(p)

\* Of which kind each place is.
LEMMA Kinds ==
  /\ IsNeutral(Outside) /\ IsNeutral(Acquiring) /\ IsNeutral(Reacquiring)
  /\ IsHold(Inside) /\ ~IsReleased(Inside)
  /\ IsUnit(Releasing) /\ ~IsHold(Releasing) /\ ~IsReleased(Releasing)
  /\ \A cv \in Cond :
       /\ IsNeutral(Asleep(cv))
       /\ IsHold(Broadcasting(cv)) /\ ~IsReleased(Broadcasting(cv))
       /\ IsUnit(WaitReleasing(cv)) /\ ~IsHold(WaitReleasing(cv)) /\ ~IsReleased(WaitReleasing(cv))
       /\ IsReleased(WaitReleased(cv)) /\ ~IsUnit(WaitReleased(cv))
BY DEF IsNeutral, IsHold, IsUnit, IsReleased, Outside, Inside, Acquiring, Releasing, Reacquiring,
       Asleep, Broadcasting, WaitReleasing, WaitReleased
-----------------------------------------------------------------------------
(***************************************************************************)
(* Type correctness.                                                       *)
(***************************************************************************)

\* The places are members of Place.
LEMMA Places ==
  /\ Outside \in Place /\ Inside \in Place /\ Acquiring \in Place
  /\ Releasing \in Place /\ Reacquiring \in Place
  /\ \A cv \in Cond : /\ WaitReleasing(cv) \in Place /\ WaitReleased(cv) \in Place
                      /\ Asleep(cv) \in Place /\ Broadcasting(cv) \in Place
BY DEF Place

MonTypeOK ==
  /\ owner \in [Lock -> Thread \cup {NULL}]
  /\ waitQueue \in [Cond -> Seq(Thread)]

\* The type invariant, as the parts that the lemmas on P and V use.
LEMMA TypeParts == TypeOK <=> SchedTypeOK /\ SemTypeOK(Place) /\ MonTypeOK
BY DEF TypeOK, MonitorTypeOK, SemTypeOK, MonTypeOK

\* A turn of the loop of Acquire keeps the types ...
LEMMA TypeAcquire ==
  ASSUME TypeOK, NEW wait \in Place, NEW next \in Place, Acquire(lock, wait, next)
  PROVE  TypeOK'
<1>1. SchedTypeOK /\ SemTypeOK(Place) /\ MonTypeOK
  BY TypeParts
<1>2. SchedTypeOK' /\ SemTypeOK(Place)'
  BY <1>1, LockIsSem, TypeP DEF Acquire
<1>3. MonTypeOK'
  BY <1>1 DEF Acquire, MonTypeOK, SchedTypeOK
<1> QED
  BY <1>2, <1>3 DEF TypeOK, MonitorTypeOK, SemTypeOK, MonTypeOK

\* ... so does Release ...
LEMMA TypeRelease ==
  ASSUME TypeOK, NEW mid \in Place, NEW next \in Place, Release(lock, mid, next)
  PROVE  TypeOK'
<1>1. SchedTypeOK /\ SemTypeOK(Place) /\ MonTypeOK
  BY TypeParts
<1>2. SchedTypeOK' /\ SemTypeOK(Place)'
  BY <1>1, LockIsSem, TypeV DEF Release
<1>3. MonTypeOK'
  BY <1>1 DEF Release, MonTypeOK
<1> QED
  BY <1>2, <1>3 DEF TypeOK, MonitorTypeOK, SemTypeOK, MonTypeOK

\* ... the increment of a V that has yielded ...
LEMMA TypeFinishRelease ==
  ASSUME TypeOK, NEW next \in Place, FinishRelease(lock, next)
  PROVE  TypeOK'
<1>1. SchedTypeOK /\ SemTypeOK(Place) /\ MonTypeOK
  BY TypeParts
<1>2. value[lock] + 1 \in Nat
  BY <1>1, LockIsSem DEF SemTypeOK
<1> QED
  BY <1>1, <1>2 DEF FinishRelease, Increment, Goto, schedVars, monVars, TypeOK, MonitorTypeOK,
                    SchedTypeOK, SemTypeOK, MonTypeOK

\* ... the sleep of Wait ...
LEMMA TypeSleepOn ==
  ASSUME TypeOK, NEW cv \in Cond, NEW wake \in Place, SleepOn(cv, wake)
  PROVE  TypeOK'
<1>1. SchedTypeOK /\ SemTypeOK(Place) /\ MonTypeOK
  BY TypeParts
<1>2. SchedTypeOK'
  BY <1>1, TypeSleep DEF SleepOn
<1>3. currentThread \in Thread /\ waitQueue[cv] \in Seq(Thread)
  BY <1>1 DEF SchedTypeOK, MonTypeOK
<1>4. Append(waitQueue[cv], currentThread) \in Seq(Thread)
  BY <1>3, AppendProperties
<1> QED
  BY <1>1, <1>2, <1>3, <1>4 DEF SleepOn, Goto, TypeOK, MonitorTypeOK, SemTypeOK, MonTypeOK

\* ... a wakeup by Signal or Broadcast ...
LEMMA TypeWakeFirst ==
  ASSUME TypeOK, NEW cv \in Cond, NEW next \in Place, WakeFirst(cv, next)
  PROVE  TypeOK'
<1>1. SchedTypeOK /\ SemTypeOK(Place) /\ MonTypeOK
  BY TypeParts
<1>2. Head(waitQueue[cv]) \in Thread /\ Tail(waitQueue[cv]) \in Seq(Thread)
  BY <1>1, TailOfInjective DEF WakeFirst, MonTypeOK
<1>3. MakeReady(Head(waitQueue[cv])) \/ MakeReadyAndYield(Head(waitQueue[cv]))
  BY DEF WakeFirst
<1>4. SchedTypeOK'
  BY <1>1, <1>2, <1>3, TypeMakeReady
<1>5. currentThread \in Thread
  BY <1>1 DEF SchedTypeOK
<1> QED
  BY <1>1, <1>2, <1>4, <1>5 DEF WakeFirst, Goto, TypeOK, MonitorTypeOK, SemTypeOK, MonTypeOK

\* ... a step between two calls ...
LEMMA TypeStep ==
  ASSUME TypeOK, NEW from, NEW to \in Place, Step(from, to)
  PROVE  TypeOK'
BY DEF Step, Goto, schedVars, monVars, TypeOK, MonitorTypeOK, SchedTypeOK

\* ... and a yield.
LEMMA TypeYieldAt ==
  ASSUME TypeOK, NEW labels, YieldAt(labels)
  PROVE  TypeOK'
<1>1. SchedTypeOK'
  BY TypeYield DEF YieldAt, TypeOK, MonitorTypeOK, SchedTypeOK
<1> QED
  BY <1>1 DEF YieldAt, semVars, monVars, TypeOK, MonitorTypeOK

\* The initial states are type correct.
LEMMA TypeInit == Init => TypeOK
<1> SUFFICES ASSUME Init PROVE TypeOK
  OBVIOUS
<1>1. Cardinality(Thread) - 1 \in Nat
  <2>1. Cardinality(Thread) \in Nat
    BY SchedulerAssumption, FS_CardinalityType
  <2>2. Cardinality(Thread) # 0
    BY SchedulerAssumption, FS_EmptySet
  <2> QED
    BY <2>1, <2>2
<1>2. readyList \in Seq(Thread)
  <2>1. readyList \in [1..(Cardinality(Thread) - 1) -> Thread]
    BY DEF Init, MonitorInit
  <2> QED
    BY <1>1, <2>1, SeqDef
<1>3. SchedTypeOK
  BY <1>2 DEF Init, MonitorInit, SchedTypeOK, ThreadStatus
<1>4. queue \in [Sem -> Seq(Thread)] /\ waitQueue \in [Cond -> Seq(Thread)]
  BY EmptySeq DEF Init, MonitorInit
<1> QED
  BY <1>3, <1>4, Places DEF Init, MonitorInit, TypeOK, MonitorTypeOK

\* Every step keeps the types.
LEMMA TypeNext == TypeOK /\ [Next]_vars => TypeOK'
<1> SUFFICES ASSUME TypeOK, [Next]_vars PROVE TypeOK'
  OBVIOUS
<1>1. CASE CallAcquire \/ ResumeAcquire \/ ResumeReacquire
  BY <1>1, TypeAcquire, Places DEF CallAcquire, ResumeAcquire, ResumeReacquire
<1>2. CASE CallRelease
  BY <1>2, TypeRelease, Places DEF CallRelease
<1>3. CASE ResumeRelease
  BY <1>3, TypeFinishRelease, Places DEF ResumeRelease
<1>4. CASE Yield
  BY <1>4, TypeYieldAt DEF Yield
<1>5. ASSUME NEW cv \in Cond, CallWait(cv) PROVE TypeOK'
  BY <1>5, TypeRelease, Places DEF CallWait
<1>6. ASSUME NEW cv \in Cond, ResumeWaitRelease(cv) PROVE TypeOK'
  BY <1>6, TypeFinishRelease, Places DEF ResumeWaitRelease
<1>7. ASSUME NEW cv \in Cond, WaitSleep(cv) PROVE TypeOK'
  BY <1>7, TypeSleepOn, Places DEF WaitSleep
<1>8. ASSUME NEW cv \in Cond, ResumeWait(cv) PROVE TypeOK'
  BY <1>8, TypeAcquire, Places DEF ResumeWait
<1>9. ASSUME NEW cv \in Cond, Signal(cv) \/ BroadcastOne(cv) PROVE TypeOK'
  BY <1>9, TypeWakeFirst, Places DEF Signal, BroadcastOne
<1>10. ASSUME NEW cv \in Cond, Broadcast(cv) \/ EndBroadcast(cv) PROVE TypeOK'
  BY <1>10, TypeStep, Places DEF Broadcast, EndBroadcast
<1>11. CASE UNCHANGED vars
  BY <1>11 DEF vars, schedVars, semVars, monVars, TypeOK, MonitorTypeOK, SchedTypeOK
<1> QED
  BY <1>1, <1>2, <1>3, <1>4, <1>5, <1>6, <1>7, <1>8, <1>9, <1>10, <1>11 DEF Next
-----------------------------------------------------------------------------
(***************************************************************************)
(* The unit of the lock's semaphore.  A thread still has it inside V,      *)
(* where it may have yielded to the thread it woke: MutualExclusion alone  *)
(* is not inductive, for it says nothing of that thread.                   *)
(***************************************************************************)
LockUnit ==
  /\ value[lock] \in {0, 1}
  /\ \A t \in Thread : IsUnit(pc[t]) => value[lock] = 0
  /\ \A t, u \in Thread : IsUnit(pc[t]) /\ IsUnit(pc[u]) => t = u

OwnerHolds == \A t \in Thread : IsHold(pc[t]) <=> owner[lock] = t

\* Between its Release and its Sleep a thread in Wait keeps the processor.
ReleasedIsCurrent ==
  \A t \in Thread : IsReleased(pc[t]) => t = currentThread /\ value[lock] = 1

LockInv == TypeOK /\ LockUnit /\ OwnerHolds /\ ReleasedIsCurrent

\* The facts about currentThread that the steps below start from.
LEMMA CurrentFacts ==
  ASSUME LockInv
  PROVE  /\ currentThread \in Thread
         /\ pc \in [Thread -> Place]
         /\ value \in [Sem -> Nat]
         /\ owner \in [Lock -> Thread \cup {NULL}]
         /\ lock \in Sem /\ lock \in Lock
         /\ NULL \notin Thread
BY LockIsSem, MonitorAssumption DEF LockInv, TypeOK, MonitorTypeOK, SchedTypeOK

\* Acquire keeps the lock's invariant: it takes the unit or goes to sleep.
LEMMA AcquireKeeps ==
  ASSUME LockInv, IsNeutral(pc[currentThread]),
         NEW wait, IsNeutral(wait), Acquire(lock, wait, Inside)
  PROVE  LockUnit' /\ OwnerHolds' /\ ReleasedIsCurrent'
<1>0. /\ currentThread \in Thread /\ pc \in [Thread -> Place] /\ value \in [Sem -> Nat]
      /\ owner \in [Lock -> Thread \cup {NULL}] /\ lock \in Sem /\ lock \in Lock
  BY CurrentFacts
<1>1. \A t \in Thread : ~IsReleased(pc[t])
  BY DEF LockInv, ReleasedIsCurrent, IsNeutral
<1>2. CASE value[lock] = 0
  <2>1. value' = value /\ owner' = owner /\ pc' = [pc EXCEPT ![currentThread] = wait]
    BY <1>0, <1>2 DEF Acquire, P, Goto
  <2>2. \A t \in Thread : pc'[t] = IF t = currentThread THEN wait ELSE pc[t]
    BY <1>0, <2>1
  <2>3. LockUnit'
    BY <2>1, <2>2 DEF LockInv, LockUnit, IsNeutral
  <2>4. OwnerHolds'
    BY <1>0, <2>1, <2>2 DEF LockInv, OwnerHolds, IsNeutral, IsUnit
  <2> QED
    BY <1>1, <2>2, <2>3, <2>4 DEF ReleasedIsCurrent, IsNeutral
<1>3. CASE value[lock] # 0
  <2>1. /\ value' = [value EXCEPT ![lock] = value[lock] - 1]
        /\ owner' = [owner EXCEPT ![lock] = currentThread]
        /\ pc' = [pc EXCEPT ![currentThread] = Inside]
    BY <1>0, <1>3 DEF Acquire, P, Goto
  <2>2. /\ \A t \in Thread : pc'[t] = IF t = currentThread THEN Inside ELSE pc[t]
        /\ owner'[lock] = currentThread
        /\ value'[lock] = value[lock] - 1
    BY <1>0, <2>1
  <2>3. value[lock] = 1 /\ \A t \in Thread : ~IsUnit(pc[t])
    BY <1>3 DEF LockInv, LockUnit
  <2>4. IsHold(Inside) /\ ~IsReleased(Inside)
    BY Kinds
  <2>5. LockUnit'
    BY <2>2, <2>3 DEF LockUnit
  <2>6. OwnerHolds'
    BY <1>0, <2>2, <2>3, <2>4 DEF OwnerHolds, IsUnit
  <2> QED
    BY <1>1, <2>2, <2>4, <2>5, <2>6 DEF ReleasedIsCurrent
<1> QED
  BY <1>2, <1>3

\* Release keeps it: the owner lets go before the unit does.
LEMMA ReleaseKeeps ==
  ASSUME LockInv, pc[currentThread] = Inside,
         NEW mid, IsUnit(mid), ~IsHold(mid), ~IsReleased(mid),
         NEW next, ~IsUnit(next), Release(lock, mid, next)
  PROVE  LockUnit' /\ OwnerHolds' /\ ReleasedIsCurrent'
<1>0. /\ currentThread \in Thread /\ pc \in [Thread -> Place] /\ value \in [Sem -> Nat]
      /\ owner \in [Lock -> Thread \cup {NULL}] /\ lock \in Sem /\ lock \in Lock
      /\ NULL \notin Thread
  BY CurrentFacts
<1>1. /\ IsUnit(pc[currentThread]) /\ value[lock] = 0
      /\ \A t \in Thread : IsUnit(pc[t]) => t = currentThread
  BY <1>0, Kinds DEF LockInv, LockUnit, IsUnit
<1>2. \A t \in Thread : ~IsReleased(pc[t])
  BY <1>1 DEF LockInv, ReleasedIsCurrent
<1>3. owner'[lock] = NULL
  BY <1>0 DEF Release
<1>4. CASE UNCHANGED value
  <2>1. pc' = [pc EXCEPT ![currentThread] = mid]
    BY <1>0, <1>1, <1>4 DEF Release, V, Increment, Goto
  <2>2. \A t \in Thread : pc'[t] = IF t = currentThread THEN mid ELSE pc[t]
    BY <1>0, <2>1
  <2>3. LockUnit'
    BY <1>1, <1>4, <2>2 DEF LockUnit
  <2>4. OwnerHolds'
    BY <1>0, <1>1, <1>3, <2>2 DEF OwnerHolds, IsUnit
  <2> QED
    BY <1>2, <2>2, <2>3, <2>4 DEF ReleasedIsCurrent
<1>5. CASE Increment(lock, next)
  <2>1. pc' = [pc EXCEPT ![currentThread] = next] /\ value' = [value EXCEPT ![lock] = value[lock] + 1]
    BY <1>5 DEF Increment, Goto
  <2>2. /\ \A t \in Thread : pc'[t] = IF t = currentThread THEN next ELSE pc[t]
        /\ value'[lock] = 1
    BY <1>0, <1>1, <2>1
  <2>3. currentThread' = currentThread
    <3>1. value' # value
      BY <1>0, <1>1, <2>2
    <3> QED
      BY <3>1 DEF Release, V, MakeReady, schedVars
  <2>4. LockUnit'
    BY <1>1, <2>2 DEF LockUnit
  <2>5. OwnerHolds'
    BY <1>0, <1>1, <1>3, <2>2 DEF OwnerHolds, IsUnit
  <2> QED
    BY <1>2, <2>2, <2>3, <2>4, <2>5 DEF ReleasedIsCurrent
<1> QED
  BY <1>4, <1>5 DEF Release, V

\* The late increment of a V that has yielded keeps it.
LEMMA FinishReleaseKeeps ==
  ASSUME LockInv, IsUnit(pc[currentThread]), ~IsHold(pc[currentThread]),
         NEW next, ~IsUnit(next), FinishRelease(lock, next)
  PROVE  LockUnit' /\ OwnerHolds' /\ ReleasedIsCurrent'
<1>0. /\ currentThread \in Thread /\ pc \in [Thread -> Place] /\ value \in [Sem -> Nat]
      /\ lock \in Sem
  BY CurrentFacts
<1>1. /\ value[lock] = 0
      /\ \A t \in Thread : IsUnit(pc[t]) => t = currentThread
  BY <1>0 DEF LockInv, LockUnit
<1>2. \A t \in Thread : ~IsReleased(pc[t])
  BY <1>1 DEF LockInv, ReleasedIsCurrent
<1>3. /\ pc' = [pc EXCEPT ![currentThread] = next]
      /\ value' = [value EXCEPT ![lock] = value[lock] + 1]
      /\ currentThread' = currentThread /\ owner' = owner
  BY DEF FinishRelease, Increment, Goto, schedVars, monVars
<1>4. /\ \A t \in Thread : pc'[t] = IF t = currentThread THEN next ELSE pc[t]
      /\ value'[lock] = 1
  BY <1>0, <1>1, <1>3
<1>5. LockUnit'
  BY <1>1, <1>4 DEF LockUnit
<1>6. OwnerHolds'
  BY <1>0, <1>3, <1>4 DEF LockInv, OwnerHolds, IsUnit
<1> QED
  BY <1>2, <1>3, <1>4, <1>5, <1>6 DEF ReleasedIsCurrent

\* A step that leaves the lock alone and moves currentThread, which may lose
\* the processor, from `from' to `to'.
LEMMA LockUntouched ==
  ASSUME LockInv, NEW to, ~IsReleased(to),
         IsHold(to) <=> IsHold(pc[currentThread]),
         IsUnit(to) <=> IsUnit(pc[currentThread]),
         pc' = [pc EXCEPT ![currentThread] = to], value' = value, owner' = owner
  PROVE  LockUnit' /\ OwnerHolds' /\ ReleasedIsCurrent'
<1>0. currentThread \in Thread /\ pc \in [Thread -> Place]
  BY CurrentFacts
<1>1. \A t \in Thread : pc'[t] = IF t = currentThread THEN to ELSE pc[t]
  BY <1>0
<1>2. LockUnit'
  BY <1>0, <1>1 DEF LockInv, LockUnit
<1>3. OwnerHolds'
  BY <1>0, <1>1 DEF LockInv, OwnerHolds
<1> QED
  BY <1>0, <1>1, <1>2, <1>3 DEF LockInv, ReleasedIsCurrent
-----------------------------------------------------------------------------
\* The lock's invariant holds at the start.
LEMMA LockInvInit == Init => LockInv
<1> SUFFICES ASSUME Init PROVE LockInv
  OBVIOUS
<1>1. TypeOK
  BY TypeInit
<1>2. /\ \A t \in Thread : pc[t] = Outside
      /\ value[lock] = 1 /\ owner[lock] = NULL
  BY LockIsSem DEF Init, MonitorInit
<1>3. \A t \in Thread : ~IsUnit(pc[t]) /\ ~IsReleased(pc[t]) /\ ~IsHold(pc[t])
  BY <1>2, Kinds DEF IsNeutral, IsUnit
<1> QED
  BY <1>1, <1>2, <1>3, MonitorAssumption DEF LockInv, LockUnit, OwnerHolds, ReleasedIsCurrent

\* Every step keeps the lock's invariant, under every policy.
LEMMA LockInvStep == LockInv /\ [Next]_vars => LockInv'
<1> SUFFICES ASSUME LockInv, [Next]_vars PROVE LockInv'
  OBVIOUS
<1> DEFINE Keeps == LockUnit' /\ OwnerHolds' /\ ReleasedIsCurrent'
<1>0. TypeOK'
  BY TypeNext DEF LockInv
<1>1. ASSUME CallAcquire \/ ResumeAcquire \/ ResumeReacquire PROVE Keeps
  BY <1>1, AcquireKeeps, Kinds DEF CallAcquire, ResumeAcquire, ResumeReacquire, At
<1>2. ASSUME CallRelease PROVE Keeps
  BY <1>2, ReleaseKeeps, Kinds DEF CallRelease, At, IsNeutral
<1>3. ASSUME ResumeRelease PROVE Keeps
  BY <1>3, FinishReleaseKeeps, Kinds DEF ResumeRelease, At, IsNeutral
<1>4. ASSUME Yield PROVE Keeps
  <2>1. value' = value /\ owner' = owner /\ pc' = pc /\ pc[currentThread] \in {Outside, Inside}
    BY <1>4 DEF Yield, YieldAt, semVars, monVars
  <2>2. pc' = [pc EXCEPT ![currentThread] = pc[currentThread]]
    BY <2>1, CurrentFacts
  <2>3. ~IsReleased(pc[currentThread])
    BY <2>1, Kinds DEF IsNeutral
  <2> QED
    BY <2>1, <2>2, <2>3, LockUntouched
<1>5. ASSUME NEW cv \in Cond, CallWait(cv) PROVE Keeps
  BY <1>5, ReleaseKeeps, Kinds DEF CallWait, At
<1>6. ASSUME NEW cv \in Cond, ResumeWaitRelease(cv) PROVE Keeps
  BY <1>6, FinishReleaseKeeps, Kinds DEF ResumeWaitRelease, At
<1>7. ASSUME NEW cv \in Cond, WaitSleep(cv) PROVE Keeps
  <2>1. /\ value' = value /\ owner' = owner /\ pc[currentThread] = WaitReleased(cv)
        /\ pc' = [pc EXCEPT ![currentThread] = Asleep(cv)]
    BY <1>7 DEF WaitSleep, At, SleepOn, Goto
  <2> QED
    BY <2>1, LockUntouched, Kinds DEF IsNeutral, IsUnit
<1>8. ASSUME NEW cv \in Cond, ResumeWait(cv) PROVE Keeps
  BY <1>8, AcquireKeeps, Kinds DEF ResumeWait, At
<1>9. ASSUME NEW cv \in Cond, Signal(cv) \/ BroadcastOne(cv) PROVE Keeps
  <2>1. PICK to \in {Inside, Broadcasting(cv)} : pc[currentThread] = to /\ WakeFirst(cv, to)
    BY <1>9 DEF Signal, BroadcastOne, At
  <2>2. value' = value /\ owner' = owner /\ pc' = [pc EXCEPT ![currentThread] = to]
    BY <2>1 DEF WakeFirst, Goto
  <2> QED
    BY <2>1, <2>2, LockUntouched, Kinds
<1>10. ASSUME NEW cv \in Cond, Broadcast(cv) \/ EndBroadcast(cv) PROVE Keeps
  <2>1. PICK from \in {Inside, Broadcasting(cv)}, to \in {Inside, Broadcasting(cv)} : Step(from, to)
    BY <1>10 DEF Broadcast, EndBroadcast
  <2>2. /\ value' = value /\ owner' = owner /\ pc[currentThread] = from
        /\ pc' = [pc EXCEPT ![currentThread] = to]
    BY <2>1 DEF Step, Goto, monVars
  <2> QED
    BY <2>1, <2>2, LockUntouched, Kinds DEF IsUnit
<1>11. ASSUME UNCHANGED vars PROVE Keeps
  BY <1>11 DEF vars, schedVars, semVars, monVars, LockInv, LockUnit, OwnerHolds, ReleasedIsCurrent
<1> QED
  BY <1>0, <1>1, <1>2, <1>3, <1>4, <1>5, <1>6, <1>7, <1>8, <1>9, <1>10, <1>11
     DEF Next, LockInv

\* The lock's invariant holds in every behaviour.
LEMMA LockInvariant == Spec => []LockInv
BY LockInvInit, LockInvStep, PTL DEF Spec

\* The variables of the monitor keep their types.
THEOREM MonitorTypeCorrect == Spec => []TypeOK
BY TypeInit, TypeNext, PTL DEF Spec

\* For every number of threads and conditions and under every policy, Lock
\* excludes and its Owner is the one thread inside: a waiter that Release
\* wakes competes with newcomers, and still only one gets in.
THEOREM LockExcludes == Spec => []MutualExclusion
<1>1. LockInv => MutualExclusion
  BY DEF LockInv, LockUnit, OwnerHolds, MutualExclusion, IsUnit, IsHold, Holds
<1> QED
  BY <1>1, LockInvariant, PTL

\* No signal can fall between the Release and the Sleep of Wait, under every
\* policy: although Release may yield to a more urgent thread, that happens
\* before the unit of the lock is back, so no thread can be inside to signal.
THEOREM WaitReleasesAtomically == Spec => []WaitIsAtomic
<1>1. LockInv => WaitIsAtomic
  <2> SUFFICES ASSUME LockInv, NEW t \in Thread, NEW u \in Thread, NEW cv \in Cond,
                      pc[t] \in {WaitReleasing(cv), WaitReleased(cv)}, Holds(u)
               PROVE  FALSE
    BY DEF WaitIsAtomic
  <2>1. IsUnit(pc[u]) /\ IsHold(pc[u])
    BY DEF Holds, IsUnit, IsHold
  <2>2. CASE pc[t] = WaitReleasing(cv)
    BY <2>1, <2>2, Kinds DEF LockInv, LockUnit
  <2>3. CASE pc[t] = WaitReleased(cv)
    BY <2>1, <2>3, Kinds DEF LockInv, LockUnit, ReleasedIsCurrent
  <2> QED
    BY <2>2, <2>3
<1> QED
  BY <1>1, LockInvariant, PTL
-----------------------------------------------------------------------------
(***************************************************************************)
(* Who sleeps where.  A thread on the lock's queue or on a wait queue is   *)
(* BLOCKED at the place in P or in Wait where it went to sleep, so it is   *)
(* on one queue only, once, and does not run.                              *)
(***************************************************************************)
LockQueueKept ==
  /\ IsInjective(queue[lock])
  /\ \A t \in Range(queue[lock]) : status[t] = "BLOCKED" /\ pc[t] \in {Acquiring, Reacquiring}

WaitQueueKept(cv) ==
  /\ IsInjective(waitQueue[cv])
  /\ \A t \in Range(waitQueue[cv]) : status[t] = "BLOCKED" /\ pc[t] = Asleep(cv)

QueuesKept == Dispatch /\ LockQueueKept /\ \A cv \in Cond : WaitQueueKept(cv)

ContractInv == LockInv /\ QueuesKept

\* What the conjuncts say about the processor and the queues.
LEMMA QueueFacts ==
  ASSUME ContractInv
  PROVE  /\ SchedTypeOK /\ SemTypeOK(Place)
         /\ currentThread \in Thread /\ pc \in [Thread -> Place]
         /\ status \in [Thread -> ThreadStatus]
         /\ queue \in [Sem -> Seq(Thread)] /\ queue[lock] \in Seq(Thread)
         /\ waitQueue \in [Cond -> Seq(Thread)]
         /\ lock \in Sem
         /\ \A t \in Range(queue[lock]) : t \in Thread
         /\ \A cv \in Cond : \A t \in Range(waitQueue[cv]) : t \in Thread
         /\ ~idle => /\ status[currentThread] = "RUNNING"
                     /\ currentThread \notin Range(queue[lock])
                     /\ \A cv \in Cond : currentThread \notin Range(waitQueue[cv])
<1>1. /\ SchedTypeOK /\ SemTypeOK(Place) /\ lock \in Sem
      /\ currentThread \in Thread /\ pc \in [Thread -> Place]
      /\ status \in [Thread -> ThreadStatus]
      /\ queue \in [Sem -> Seq(Thread)] /\ queue[lock] \in Seq(Thread)
      /\ waitQueue \in [Cond -> Seq(Thread)]
  BY LockIsSem DEF ContractInv, LockInv, TypeOK, MonitorTypeOK, SemTypeOK, SchedTypeOK
<1>2. \A t \in Range(queue[lock]) : t \in Thread
  BY <1>1 DEF Range
<1>3. ASSUME NEW cv \in Cond PROVE \A t \in Range(waitQueue[cv]) : t \in Thread
  <2>1. waitQueue[cv] \in Seq(Thread)
    BY <1>1
  <2> QED
    BY <2>1 DEF Range
<1>4. ~idle => status[currentThread] = "RUNNING"
  BY DEF ContractInv, QueuesKept, Dispatch
<1> QED
  BY <1>1, <1>2, <1>3, <1>4 DEF ContractInv, QueuesKept, LockQueueKept, WaitQueueKept

\* A step of currentThread that leaves the scheduler and all queues alone.
LEMMA QuietQueues ==
  ASSUME ContractInv, ~idle, NEW to, pc' = [pc EXCEPT ![currentThread] = to],
         UNCHANGED <<queue, waitQueue, schedVars>>
  PROVE  QueuesKept'
<1>1. \A t \in Thread : t # currentThread => pc'[t] = pc[t]
  BY QueueFacts
<1>2. Dispatch' /\ status' = status /\ queue' = queue /\ waitQueue' = waitQueue
  BY DEF ContractInv, QueuesKept, Dispatch, schedVars
<1>3. LockQueueKept'
  BY <1>1, <1>2, QueueFacts DEF ContractInv, QueuesKept, LockQueueKept
<1>4. ASSUME NEW cv \in Cond PROVE WaitQueueKept(cv)'
  BY <1>1, <1>2, QueueFacts DEF ContractInv, QueuesKept, WaitQueueKept
<1> QED
  BY <1>2, <1>3, <1>4 DEF QueuesKept

\* A turn of the loop of Acquire takes the unit or goes to sleep.
LEMMA AcquireQueues ==
  ASSUME ContractInv, ~idle, NEW wait \in {Acquiring, Reacquiring}, NEW next,
         Acquire(lock, wait, next)
  PROVE  QueuesKept'
<1> DEFINE c == currentThread
<1>0. /\ c \in Thread /\ pc \in [Thread -> Place] /\ queue \in [Sem -> Seq(Thread)]
      /\ queue[lock] \in Seq(Thread) /\ lock \in Sem
      /\ c \notin Range(queue[lock]) /\ \A cv \in Cond : c \notin Range(waitQueue[cv])
  BY QueueFacts
<1>1. P(lock, wait, next) /\ waitQueue' = waitQueue
  BY DEF Acquire
<1>2. CASE value[lock] = 0
  <2>1. /\ queue' = [queue EXCEPT ![lock] = Append(queue[lock], c)]
        /\ pc' = [pc EXCEPT ![c] = wait] /\ Sleep
    BY <1>1, <1>2 DEF P, Goto
  <2>2. /\ Dispatch'
        /\ \A t \in Thread : status'[t] = "BLOCKED" <=> status[t] = "BLOCKED" \/ t = c
    BY <2>1, SleepBlocks, QueueFacts DEF ContractInv, QueuesKept
  <2>3. \A t \in Thread : pc'[t] = IF t = c THEN wait ELSE pc[t]
    BY <1>0, <2>1
  <2>4. IsInjective(queue'[lock]) /\ Range(queue'[lock]) = Range(queue[lock]) \cup {c}
    <3>1. queue'[lock] = Append(queue[lock], c)
      BY <1>0, <2>1
    <3> QED
      BY <1>0, <3>1, AppendOnce DEF ContractInv, QueuesKept, LockQueueKept
  <2>5. LockQueueKept'
    BY <1>0, <2>2, <2>3, <2>4, QueueFacts DEF ContractInv, QueuesKept, LockQueueKept
  <2>6. ASSUME NEW cv \in Cond PROVE WaitQueueKept(cv)'
    BY <1>0, <1>1, <2>2, <2>3, QueueFacts DEF ContractInv, QueuesKept, WaitQueueKept
  <2> QED
    BY <2>2, <2>5, <2>6 DEF QueuesKept
<1>3. CASE value[lock] # 0
  <2>1. pc' = [pc EXCEPT ![c] = next] /\ UNCHANGED <<queue, waitQueue, schedVars>>
    BY <1>1, <1>3 DEF P, Goto
  <2> QED
    BY <2>1, QuietQueues
<1> QED
  BY <1>2, <1>3

\* V wakes the first thread on the lock's queue, if any.
LEMMA ReleaseQueues ==
  ASSUME ContractInv, ~idle, NEW mid, NEW next, Release(lock, mid, next)
  PROVE  QueuesKept'
<1> DEFINE c == currentThread
           q == queue[lock]
           h == Head(q)
<1>0. /\ c \in Thread /\ pc \in [Thread -> Place] /\ queue \in [Sem -> Seq(Thread)]
      /\ q \in Seq(Thread) /\ lock \in Sem
      /\ c \notin Range(q) /\ \A cv \in Cond : c \notin Range(waitQueue[cv])
  BY QueueFacts
<1>1. V(lock, mid, next) /\ waitQueue' = waitQueue
  BY DEF Release
<1>2. PICK to \in {mid, next} : pc' = [pc EXCEPT ![c] = to]
  BY <1>0, <1>1, EffectV
<1>3. CASE q = <<>>
  <2>1. UNCHANGED <<queue, waitQueue, schedVars>>
    BY <1>1, <1>3 DEF V
  <2> QED
    BY <1>2, <2>1, QuietQueues
<1>4. CASE q # <<>>
  <2>1. (MakeReady(h) \/ MakeReadyAndYield(h)) /\ queue' = [queue EXCEPT ![lock] = Tail(q)]
    BY <1>1, <1>4 DEF V
  <2>2. queue'[lock] = Tail(q)
    BY <1>0, <2>1
  <2>3. /\ h \in Thread /\ h \in Range(q)
        /\ IsInjective(Tail(q)) /\ Range(Tail(q)) = Range(q) \ {h}
    BY <1>0, <1>4, TailOfInjective DEF ContractInv, QueuesKept, LockQueueKept
  <2> HIDE DEF h
  <2>4. status[h] = "BLOCKED" /\ pc[h] \in {Acquiring, Reacquiring}
    BY <2>3 DEF ContractInv, QueuesKept, LockQueueKept
  <2>5. /\ Dispatch'
        /\ \A t \in Thread : status'[t] = "BLOCKED" <=> status[t] = "BLOCKED" /\ t # h
    BY <2>1, <2>3, <2>4, ReadyUnblocks, QueueFacts DEF ContractInv, QueuesKept
  <2>6. \A t \in Thread : t # c => pc'[t] = pc[t]
    BY <1>0, <1>2
  <2>7. LockQueueKept'
    BY <1>0, <2>2, <2>3, <2>5, <2>6, QueueFacts DEF ContractInv, QueuesKept, LockQueueKept
  <2>8. ASSUME NEW cv \in Cond PROVE WaitQueueKept(cv)'
    <3>1. Asleep(cv) \notin {Acquiring, Reacquiring}
      BY DEF Asleep, Acquiring, Reacquiring
    <3>2. \A t \in Range(waitQueue[cv]) : status[t] = "BLOCKED" /\ pc[t] = Asleep(cv) /\ t # h
      BY <2>4, <3>1 DEF ContractInv, QueuesKept, WaitQueueKept
    <3> QED
      BY <1>0, <1>1, <2>5, <2>6, <3>2, QueueFacts DEF ContractInv, QueuesKept, WaitQueueKept
  <2> QED
    BY <2>5, <2>7, <2>8 DEF QueuesKept
<1> QED
  BY <1>3, <1>4

\* Two conditions have different places to sleep.
LEMMA AsleepOnOne == \A cv, d \in Cond : Asleep(cv) = Asleep(d) => cv = d
BY DEF Asleep

\* Wait puts its caller on the condition's queue.
LEMMA SleepOnQueues ==
  ASSUME ContractInv, ~idle, NEW cv \in Cond, SleepOn(cv, Asleep(cv))
  PROVE  QueuesKept' /\ Range(waitQueue'[cv]) = Range(waitQueue[cv]) \cup {currentThread}
<1> DEFINE c == currentThread
<1>0. /\ c \in Thread /\ pc \in [Thread -> Place] /\ waitQueue \in [Cond -> Seq(Thread)]
      /\ waitQueue[cv] \in Seq(Thread)
      /\ c \notin Range(queue[lock]) /\ \A d \in Cond : c \notin Range(waitQueue[d])
  BY QueueFacts
<1>1. /\ waitQueue' = [waitQueue EXCEPT ![cv] = Append(waitQueue[cv], c)]
      /\ pc' = [pc EXCEPT ![c] = Asleep(cv)] /\ Sleep /\ queue' = queue
  BY DEF SleepOn, Goto
<1>2. /\ Dispatch'
      /\ \A t \in Thread : status'[t] = "BLOCKED" <=> status[t] = "BLOCKED" \/ t = c
  BY <1>1, SleepBlocks, QueueFacts DEF ContractInv, QueuesKept
<1>3. \A t \in Thread : pc'[t] = IF t = c THEN Asleep(cv) ELSE pc[t]
  BY <1>0, <1>1
<1>4. IsInjective(waitQueue'[cv]) /\ Range(waitQueue'[cv]) = Range(waitQueue[cv]) \cup {c}
  <2>1. waitQueue'[cv] = Append(waitQueue[cv], c)
    BY <1>0, <1>1
  <2> QED
    BY <1>0, <2>1, AppendOnce DEF ContractInv, QueuesKept, WaitQueueKept
<1>5. LockQueueKept'
  BY <1>0, <1>1, <1>2, <1>3, QueueFacts DEF ContractInv, QueuesKept, LockQueueKept
<1>6. ASSUME NEW d \in Cond PROVE WaitQueueKept(d)'
  <2>1. CASE d = cv
    BY <1>0, <1>2, <1>3, <1>4, <2>1, QueueFacts DEF ContractInv, QueuesKept, WaitQueueKept
  <2>2. CASE d # cv
    <3>1. waitQueue'[d] = waitQueue[d]
      BY <1>0, <1>1, <2>2
    <3> QED
      BY <1>0, <1>2, <1>3, <3>1, QueueFacts DEF ContractInv, QueuesKept, WaitQueueKept
  <2> QED
    BY <2>1, <2>2
<1> QED
  BY <1>2, <1>4, <1>5, <1>6 DEF QueuesKept

\* Signal and Broadcast take the first waiter off the condition's queue.
LEMMA WakeQueues ==
  ASSUME ContractInv, ~idle, NEW cv \in Cond, NEW next, WakeFirst(cv, next)
  PROVE  /\ QueuesKept'
         /\ \E h \in Range(waitQueue[cv]) : Range(waitQueue'[cv]) = Range(waitQueue[cv]) \ {h}
<1> DEFINE c == currentThread
           w == waitQueue[cv]
           h == Head(w)
<1>0. /\ c \in Thread /\ pc \in [Thread -> Place] /\ waitQueue \in [Cond -> Seq(Thread)]
      /\ w \in Seq(Thread)
      /\ c \notin Range(queue[lock]) /\ \A d \in Cond : c \notin Range(waitQueue[d])
  BY QueueFacts
<1>1. /\ w # <<>> /\ waitQueue' = [waitQueue EXCEPT ![cv] = Tail(w)]
      /\ pc' = [pc EXCEPT ![c] = next]
      /\ MakeReady(h) \/ MakeReadyAndYield(h)
      /\ queue' = queue
  BY DEF WakeFirst, Goto
<1>2. waitQueue'[cv] = Tail(w)
  BY <1>0, <1>1
<1>3. /\ h \in Thread /\ h \in Range(w)
      /\ IsInjective(Tail(w)) /\ Range(Tail(w)) = Range(w) \ {h}
  BY <1>0, <1>1, TailOfInjective DEF ContractInv, QueuesKept, WaitQueueKept
<1> HIDE DEF h
<1>4. status[h] = "BLOCKED" /\ pc[h] = Asleep(cv)
  BY <1>3 DEF ContractInv, QueuesKept, WaitQueueKept
<1>5. /\ Dispatch'
      /\ \A t \in Thread : status'[t] = "BLOCKED" <=> status[t] = "BLOCKED" /\ t # h
  BY <1>1, <1>3, <1>4, ReadyUnblocks, QueueFacts DEF ContractInv, QueuesKept
<1>6. \A t \in Thread : t # c => pc'[t] = pc[t]
  BY <1>0, <1>1
<1>7. LockQueueKept'
  <2>1. Asleep(cv) \notin {Acquiring, Reacquiring}
    BY DEF Asleep, Acquiring, Reacquiring
  <2>2. h \notin Range(queue[lock])
    BY <1>4, <2>1 DEF ContractInv, QueuesKept, LockQueueKept
  <2> QED
    BY <1>0, <1>1, <1>5, <1>6, <2>2, QueueFacts DEF ContractInv, QueuesKept, LockQueueKept
<1>8. ASSUME NEW d \in Cond PROVE WaitQueueKept(d)'
  <2>1. CASE d = cv
    BY <1>0, <1>2, <1>3, <1>5, <1>6, <2>1, QueueFacts DEF ContractInv, QueuesKept, WaitQueueKept
  <2>2. CASE d # cv
    <3>1. waitQueue'[d] = waitQueue[d]
      BY <1>0, <1>1, <2>2
    <3>2. h \notin Range(waitQueue[d])
      BY <1>4, <2>2, AsleepOnOne DEF ContractInv, QueuesKept, WaitQueueKept
    <3> QED
      BY <1>0, <1>5, <1>6, <3>1, <3>2, QueueFacts DEF ContractInv, QueuesKept, WaitQueueKept
  <2> QED
    BY <2>1, <2>2
<1> QED
  BY <1>2, <1>3, <1>5, <1>7, <1>8 DEF QueuesKept

\* A yield readies nobody who sleeps.
LEMMA YieldQueues ==
  ASSUME ContractInv, NEW labels, YieldAt(labels)
  PROVE  QueuesKept'
<1>1. /\ queue' = queue /\ pc' = pc /\ waitQueue' = waitQueue
      /\ ~idle /\ readyList # <<>> /\ YieldFrom(readyList, status)
  BY DEF YieldAt, semVars, monVars
<1>2. readyList \in Seq(Thread) /\ status \in [Thread -> ThreadStatus]
  BY QueueFacts DEF SchedTypeOK
<1>3. Dispatch' /\ \A t \in Thread : status'[t] = "BLOCKED" <=> status[t] = "BLOCKED"
  BY <1>1, <1>2, YieldDispatches, QueueFacts DEF ContractInv, QueuesKept, Dispatch
<1>4. LockQueueKept'
  BY <1>1, <1>3, QueueFacts DEF ContractInv, QueuesKept, LockQueueKept
<1>5. ASSUME NEW cv \in Cond PROVE WaitQueueKept(cv)'
  BY <1>1, <1>3, QueueFacts DEF ContractInv, QueuesKept, WaitQueueKept
<1> QED
  BY <1>3, <1>4, <1>5 DEF QueuesKept

\* At the start nobody sleeps.
LEMMA ContractInvInit == Init => ContractInv
<1> SUFFICES ASSUME Init PROVE ContractInv
  OBVIOUS
<1>1. LockInv
  BY LockInvInit
<1>2. queue[lock] = <<>> /\ \A cv \in Cond : waitQueue[cv] = <<>>
  BY LockIsSem DEF Init, MonitorInit
<1>3. IsInjective(<<>>) /\ Range(<<>>) = {}
  BY DEF IsInjective, Range
<1>4. LockQueueKept /\ \A cv \in Cond : WaitQueueKept(cv)
  BY <1>2, <1>3 DEF LockQueueKept, WaitQueueKept
<1>5. Dispatch
  <2>1. /\ status = [t \in Thread |-> IF t = currentThread THEN "RUNNING" ELSE "READY"]
        /\ readyList \in [1..(Cardinality(Thread) - 1) -> Thread \ {currentThread}]
        /\ IsInjective(readyList) /\ currentThread \in Thread
    BY DEF Init, MonitorInit
  <2>2. \A t \in Range(readyList) : t \in Thread \ {currentThread}
    BY <2>1 DEF Range
  <2> QED
    BY <2>1, <2>2 DEF Dispatch
<1> QED
  BY <1>1, <1>4, <1>5 DEF ContractInv, QueuesKept

\* Every step keeps the queues.
LEMMA ContractInvStep == ContractInv /\ [Next]_vars => ContractInv'
<1> SUFFICES ASSUME ContractInv, [Next]_vars PROVE ContractInv'
  OBVIOUS
<1>0. LockInv'
  BY LockInvStep DEF ContractInv
<1>1. ASSUME CallAcquire \/ ResumeAcquire \/ ResumeReacquire PROVE QueuesKept'
  BY <1>1, AcquireQueues DEF CallAcquire, ResumeAcquire, ResumeReacquire, At
<1>2. ASSUME CallRelease PROVE QueuesKept'
  BY <1>2, ReleaseQueues DEF CallRelease, At
<1>3. ASSUME NEW next, ~idle, FinishRelease(lock, next) PROVE QueuesKept'
  BY <1>3, QuietQueues DEF FinishRelease, Increment, Goto, monVars
<1>4. ASSUME Yield PROVE QueuesKept'
  BY <1>4, YieldQueues DEF Yield
<1>5. ASSUME NEW cv \in Cond, CallWait(cv) PROVE QueuesKept'
  BY <1>5, ReleaseQueues DEF CallWait, At
<1>6. ASSUME NEW cv \in Cond, ResumeWaitRelease(cv) PROVE QueuesKept'
  BY <1>3, <1>6 DEF ResumeWaitRelease, At
<1>7. ASSUME NEW cv \in Cond, WaitSleep(cv) PROVE QueuesKept'
  BY <1>7, SleepOnQueues DEF WaitSleep, At
<1>8. ASSUME NEW cv \in Cond, ResumeWait(cv) PROVE QueuesKept'
  BY <1>8, AcquireQueues DEF ResumeWait, At
<1>9. ASSUME NEW cv \in Cond, Signal(cv) \/ BroadcastOne(cv) PROVE QueuesKept'
  BY <1>9, WakeQueues DEF Signal, BroadcastOne, At
<1>10. ASSUME NEW from, NEW to, ~idle, Step(from, to) PROVE QueuesKept'
  BY <1>10, QuietQueues DEF Step, Goto, semVars, monVars
<1>11. ASSUME NEW cv \in Cond, Broadcast(cv) \/ EndBroadcast(cv) PROVE QueuesKept'
  BY <1>10, <1>11 DEF Broadcast, EndBroadcast, At
<1>12. ASSUME UNCHANGED vars PROVE QueuesKept'
  <2>1. /\ queue' = queue /\ waitQueue' = waitQueue /\ pc' = pc /\ status' = status
        /\ readyList' = readyList /\ idle' = idle /\ currentThread' = currentThread
    BY <1>12 DEF vars, schedVars, semVars, monVars
  <2>2. Dispatch' /\ LockQueueKept'
    BY <2>1 DEF ContractInv, QueuesKept, Dispatch, LockQueueKept
  <2>3. ASSUME NEW cv \in Cond PROVE WaitQueueKept(cv)'
    BY <2>1 DEF ContractInv, QueuesKept, WaitQueueKept
  <2> QED
    BY <2>2, <2>3 DEF QueuesKept
<1>13. ASSUME ResumeRelease PROVE QueuesKept'
  BY <1>3, <1>13 DEF ResumeRelease, At
<1>14. QueuesKept'
  BY <1>1, <1>2, <1>4, <1>5, <1>6, <1>7, <1>8, <1>9, <1>11, <1>12, <1>13 DEF Next
<1> QED
  BY <1>0, <1>14 DEF ContractInv

\* So the queues are kept in every behaviour.
LEMMA ContractInvariant == Spec => []ContractInv
BY ContractInvInit, ContractInvStep, PTL DEF Spec
-----------------------------------------------------------------------------
(***************************************************************************)
(* Lock and Condition implement MonitorContract.                           *)
(***************************************************************************)
IsWait(p, cv) == p \in {WaitReleasing(cv), WaitReleased(cv)}

\* Which places matter to WaitingOn, and for which condition.
LEMMA WaitPlaces ==
  \A cv \in Cond :
    /\ \A p \in {Outside, Inside, Acquiring, Releasing, Reacquiring} :
         p # Broadcasting(cv) /\ ~IsWait(p, cv)
    /\ \A d \in Cond :
         /\ Asleep(d) # Broadcasting(cv) /\ ~IsWait(Asleep(d), cv) /\ ~IsWait(Broadcasting(d), cv)
         /\ WaitReleasing(d) # Broadcasting(cv) /\ WaitReleased(d) # Broadcasting(cv)
         /\ Broadcasting(d) = Broadcasting(cv) => d = cv
         /\ IsWait(WaitReleasing(d), cv) => d = cv
         /\ IsWait(WaitReleased(d), cv) => d = cv
BY DEF IsWait, Outside, Inside, Acquiring, Releasing, Reacquiring, Asleep, Broadcasting,
       WaitReleasing, WaitReleased

\* While somebody is inside nobody is in Wait with the lock released, and
\* nobody else broadcasts.
LEMMA HolderFacts ==
  ASSUME ContractInv, IsHold(pc[currentThread])
  PROVE  /\ \A cv \in Cond : InWait(cv) = {}
         /\ \A t \in Thread, cv \in Cond : pc[t] = Broadcasting(cv) => t = currentThread
         /\ owner[lock] = currentThread
<1>1. currentThread \in Thread
  BY QueueFacts
<1>2. value[lock] = 0 /\ \A t \in Thread : IsUnit(pc[t]) => t = currentThread
  BY <1>1 DEF ContractInv, LockInv, LockUnit, IsUnit
<1>3. \A t \in Thread : ~IsReleased(pc[t])
  BY <1>2 DEF ContractInv, LockInv, ReleasedIsCurrent
<1>4. ASSUME NEW cv \in Cond PROVE InWait(cv) = {}
  BY <1>2, <1>3, Kinds DEF InWait
<1> QED
  BY <1>1, <1>2, <1>4, Kinds DEF ContractInv, LockInv, OwnerHolds, IsUnit

\* A step that leaves the conditions' queues alone and moves currentThread
\* between two places of the same meaning for cv.
LEMMA WaitingOnSame ==
  ASSUME ContractInv, NEW cv \in Cond, NEW to, pc' = [pc EXCEPT ![currentThread] = to],
         waitQueue'[cv] = waitQueue[cv],
         to = Broadcasting(cv) <=> pc[currentThread] = Broadcasting(cv),
         IsWait(to, cv) <=> IsWait(pc[currentThread], cv)
  PROVE  WaitingOn(cv)' = WaitingOn(cv)
<1>1. \A t \in Thread : pc'[t] = IF t = currentThread THEN to ELSE pc[t]
  BY QueueFacts
<1>2. InWait(cv)' = InWait(cv)
  BY <1>1 DEF InWait, IsWait
<1>3. (\E t \in Thread : pc'[t] = Broadcasting(cv)) <=> \E t \in Thread : pc[t] = Broadcasting(cv)
  BY <1>1
<1> QED
  BY <1>2, <1>3 DEF WaitingOn

\* A step that changes it for no condition.
LEMMA WaitingSame ==
  ASSUME \A cv \in Cond : WaitingOn(cv)' = WaitingOn(cv)
  PROVE  Waiting' = Waiting
BY DEF Waiting

\* Acquire is the contract's, or waits on.
LEMMA AcquireContract ==
  ASSUME ContractInv, ~idle, NEW wait \in {Acquiring, Reacquiring},
         \/ pc[currentThread] \in {Outside, Acquiring, Reacquiring}
         \/ \E cv \in Cond : pc[currentThread] = Asleep(cv),
         Acquire(lock, wait, Inside)
  PROVE  Contract!ContractNext \/ UNCHANGED <<owner[lock], Waiting>>
<1> DEFINE c == currentThread
<1>0. /\ c \in Thread /\ lock \in Sem /\ owner \in [Lock -> Thread \cup {NULL}] /\ lock \in Lock
      /\ value \in [Sem -> Nat] /\ SchedTypeOK /\ SemTypeOK(Place) /\ NULL \notin Thread
  BY QueueFacts, CurrentFacts DEF ContractInv
<1>1. P(lock, wait, Inside) /\ waitQueue' = waitQueue
  BY DEF Acquire
<1>2. PICK to \in {wait, Inside} : pc' = [pc EXCEPT ![c] = to]
  BY <1>0, <1>1, EffectP
<1>3. ASSUME NEW cv \in Cond PROVE c \notin WaitingOn(cv) /\ WaitingOn(cv)' = WaitingOn(cv)
  <2>1. pc[c] # Broadcasting(cv) /\ ~IsWait(pc[c], cv)
    BY WaitPlaces
  <2>2. c \notin WaitingOn(cv)
    BY <2>1, QueueFacts DEF WaitingOn, InWait, IsWait
  <2>3. to # Broadcasting(cv) /\ ~IsWait(to, cv)
    BY WaitPlaces
  <2> QED
    BY <1>1, <1>2, <2>1, <2>2, <2>3, WaitingOnSame
<1>4. Waiting' = Waiting /\ \A cv \in Cond : c \notin Waiting[cv]
  BY <1>3, WaitingSame DEF Waiting
<1>5. CASE value[lock] = 0
  BY <1>0, <1>4, <1>5 DEF Acquire
<1>6. CASE value[lock] # 0
  <2>1. owner'[lock] = c
    BY <1>0, <1>6 DEF Acquire
  <2>2. \A t \in Thread : ~IsHold(pc[t])
    BY <1>6 DEF ContractInv, LockInv, LockUnit, IsUnit
  <2>3. owner[lock] = NULL
    BY <1>0, <2>2 DEF ContractInv, LockInv, OwnerHolds
  <2>4. PICK t \in Thread : t = c
    BY <1>0
  <2>5. Contract!AtomicAcquire(t)
    BY <1>4, <2>1, <2>3, <2>4 DEF Contract!AtomicAcquire
  <2> QED
    BY <2>5 DEF Contract!ContractNext
<1> QED
  BY <1>5, <1>6

\* Release is the contract's, when it is called: the holder lets go before
\* the unit comes back.
LEMMA ReleaseContract ==
  ASSUME ContractInv, CallRelease
  PROVE  Contract!ContractNext
<1> DEFINE c == currentThread
<1>0. /\ c \in Thread /\ lock \in Sem /\ lock \in Lock /\ owner \in [Lock -> Thread \cup {NULL}]
      /\ pc[c] = Inside /\ IsHold(pc[c])
  BY QueueFacts, CurrentFacts, Kinds DEF ContractInv, CallRelease, At
<1>1. /\ V(lock, Releasing, Outside) /\ waitQueue' = waitQueue /\ owner'[lock] = NULL
      /\ owner[lock] = c
  BY <1>0, HolderFacts DEF CallRelease, Release
<1>2. PICK to \in {Releasing, Outside} : pc' = [pc EXCEPT ![c] = to]
  BY <1>0, <1>1, EffectV
<1>3. ASSUME NEW cv \in Cond PROVE WaitingOn(cv)' = WaitingOn(cv)
  <2>1. to # Broadcasting(cv) /\ ~IsWait(to, cv) /\ pc[c] # Broadcasting(cv) /\ ~IsWait(pc[c], cv)
    BY <1>0, WaitPlaces
  <2> QED
    BY <1>1, <1>2, <2>1, WaitingOnSame
<1>4. Waiting' = Waiting
  BY <1>3, WaitingSame
<1>5. PICK t \in Thread : t = c
  BY <1>0
<1>6. Contract!AtomicRelease(t)
  BY <1>1, <1>4, <1>5 DEF Contract!AtomicRelease
<1> QED
  BY <1>6 DEF Contract!ContractNext

\* The Release of Wait already starts the wait ...
LEMMA WaitContract ==
  ASSUME ContractInv, NEW cv \in Cond, CallWait(cv)
  PROVE  Contract!ContractNext
<1> DEFINE c == currentThread
<1>0. /\ c \in Thread /\ lock \in Sem /\ lock \in Lock /\ owner \in [Lock -> Thread \cup {NULL}]
      /\ pc[c] = Inside /\ IsHold(pc[c])
  BY QueueFacts, CurrentFacts, Kinds DEF ContractInv, CallWait, At
<1>1. /\ V(lock, WaitReleasing(cv), WaitReleased(cv)) /\ waitQueue' = waitQueue
      /\ owner'[lock] = NULL /\ owner[lock] = c
  BY <1>0, HolderFacts DEF CallWait, Release
<1>2. PICK to \in {WaitReleasing(cv), WaitReleased(cv)} : pc' = [pc EXCEPT ![c] = to]
  BY <1>0, <1>1, EffectV
<1>3. \A t \in Thread : pc'[t] = IF t = c THEN to ELSE pc[t]
  BY <1>2, QueueFacts
<1>4. WaitingOn(cv)' = WaitingOn(cv) \cup {c}
  <2>1. \A t \in Thread : pc[t] # Broadcasting(cv)
    BY <1>0, HolderFacts, WaitPlaces
  <2>2. \A t \in Thread : pc'[t] # Broadcasting(cv)
    BY <1>3, <2>1, WaitPlaces
  <2>3. InWait(cv)' = InWait(cv) \cup {c}
    BY <1>0, <1>3 DEF InWait
  <2> QED
    BY <1>1, <2>1, <2>2, <2>3 DEF WaitingOn
<1>5. ASSUME NEW d \in Cond, d # cv PROVE WaitingOn(d)' = WaitingOn(d)
  <2>1. to # Broadcasting(d) /\ ~IsWait(to, d) /\ pc[c] # Broadcasting(d) /\ ~IsWait(pc[c], d)
    BY <1>0, <1>5, WaitPlaces
  <2> QED
    BY <1>1, <1>2, <2>1, WaitingOnSame
<1>6. Waiting' = [Waiting EXCEPT ![cv] = Waiting[cv] \cup {c}]
  BY <1>4, <1>5 DEF Waiting
<1>7. PICK t \in Thread : t = c
  BY <1>0
<1>8. Contract!AtomicWait(t, cv)
  BY <1>1, <1>6, <1>7 DEF Contract!AtomicWait
<1> QED
  BY <1>8 DEF Contract!ContractNext

\* ... and the rest of Wait, up to the sleep, changes nothing.
LEMMA FinishContract ==
  ASSUME ContractInv, ResumeRelease \/ \E cv \in Cond : ResumeWaitRelease(cv)
  PROVE  UNCHANGED <<owner[lock], Waiting>>
<1>1. PICK to : FinishRelease(lock, to) /\ \A cv \in Cond :
        /\ to # Broadcasting(cv) /\ pc[currentThread] # Broadcasting(cv)
        /\ IsWait(to, cv) <=> IsWait(pc[currentThread], cv)
  <2>1. CASE ResumeRelease
    <3>1. FinishRelease(lock, Outside) /\ pc[currentThread] = Releasing
      BY <2>1 DEF ResumeRelease, At
    <3> QED
      BY <3>1, WaitPlaces
  <2>2. ASSUME NEW d \in Cond, ResumeWaitRelease(d)
        PROVE  FinishRelease(lock, WaitReleased(d)) /\ \A cv \in Cond :
                 /\ WaitReleased(d) # Broadcasting(cv) /\ pc[currentThread] # Broadcasting(cv)
                 /\ IsWait(WaitReleased(d), cv) <=> IsWait(pc[currentThread], cv)
    <3>1. FinishRelease(lock, WaitReleased(d)) /\ pc[currentThread] = WaitReleasing(d)
      BY <2>2 DEF ResumeWaitRelease, At
    <3>2. IsWait(WaitReleased(d), d) /\ IsWait(WaitReleasing(d), d)
      BY DEF IsWait
    <3> QED
      BY <3>1, <3>2, WaitPlaces
  <2> QED
    BY <2>1, <2>2
<1>2. /\ pc' = [pc EXCEPT ![currentThread] = to] /\ waitQueue' = waitQueue /\ owner' = owner
  BY <1>1 DEF FinishRelease, Increment, Goto, monVars
<1>3. ASSUME NEW cv \in Cond PROVE WaitingOn(cv)' = WaitingOn(cv)
  BY <1>1, <1>2, WaitingOnSame
<1> QED
  BY <1>2, <1>3, WaitingSame

\* Neither does the sleep: the thread goes onto the queue.
LEMMA SleepContract ==
  ASSUME ContractInv, NEW cv \in Cond, WaitSleep(cv)
  PROVE  UNCHANGED <<owner[lock], Waiting>>
<1> DEFINE c == currentThread
<1>0. /\ c \in Thread /\ pc[c] = WaitReleased(cv) /\ SleepOn(cv, Asleep(cv)) /\ ~idle
      /\ pc' = [pc EXCEPT ![c] = Asleep(cv)] /\ owner' = owner
      /\ waitQueue' = [waitQueue EXCEPT ![cv] = Append(waitQueue[cv], c)]
  BY QueueFacts DEF WaitSleep, At, SleepOn, Goto
<1>1. \A t \in Thread : pc'[t] = IF t = c THEN Asleep(cv) ELSE pc[t]
  BY <1>0, QueueFacts
<1>2. WaitingOn(cv)' = WaitingOn(cv)
  <2>1. \A t \in Thread : ~IsUnit(pc[t])
    BY <1>0, Kinds DEF ContractInv, LockInv, LockUnit, ReleasedIsCurrent
  <2>2. \A t \in Thread : pc[t] # Broadcasting(cv)
    BY <2>1, Kinds DEF IsUnit
  <2>3. \A t \in Thread : pc'[t] # Broadcasting(cv)
    BY <1>1, <2>2, WaitPlaces
  <2>4. InWait(cv) = InWait(cv)' \cup {c}
    BY <1>0, <1>1, WaitPlaces DEF InWait, IsWait
  <2>5. Range(waitQueue'[cv]) = Range(waitQueue[cv]) \cup {c}
    BY <1>0, SleepOnQueues
  <2> QED
    BY <2>2, <2>3, <2>4, <2>5 DEF WaitingOn
<1>3. ASSUME NEW d \in Cond, d # cv PROVE WaitingOn(d)' = WaitingOn(d)
  <2>1. /\ Asleep(cv) # Broadcasting(d) /\ ~IsWait(Asleep(cv), d)
        /\ pc[c] # Broadcasting(d) /\ ~IsWait(pc[c], d)
    BY <1>0, <1>3, WaitPlaces
  <2>2. waitQueue'[d] = waitQueue[d]
    BY <1>0, <1>3, QueueFacts
  <2> QED
    BY <1>0, <2>1, <2>2, WaitingOnSame
<1>4. Waiting' = Waiting
  BY <1>2, <1>3, WaitingSame
<1> QED
  BY <1>0, <1>4

\* A signal ends one wait.
LEMMA SignalContract ==
  ASSUME ContractInv, NEW cv \in Cond, Signal(cv)
  PROVE  Contract!ContractNext
<1> DEFINE c == currentThread
<1>0. /\ c \in Thread /\ pc[c] = Inside /\ IsHold(pc[c]) /\ WakeFirst(cv, Inside) /\ ~idle
      /\ owner' = owner /\ waitQueue' = [waitQueue EXCEPT ![cv] = Tail(waitQueue[cv])]
  BY QueueFacts, Kinds DEF Signal, At, WakeFirst
<1>1. pc' = pc
  BY <1>0, QueueFacts DEF WakeFirst, Goto
<1>2. \A t \in Thread, d \in Cond : pc[t] # Broadcasting(d)
  BY <1>0, HolderFacts, WaitPlaces
<1>3. \A d \in Cond : InWait(d) = {} /\ InWait(d)' = {}
  BY <1>0, <1>1, HolderFacts DEF InWait
<1>4. \A d \in Cond : WaitingOn(d) = Range(waitQueue[d]) /\ WaitingOn(d)' = Range(waitQueue'[d])
  BY <1>1, <1>2, <1>3 DEF WaitingOn
<1>5. PICK h \in Range(waitQueue[cv]) : Range(waitQueue'[cv]) = Range(waitQueue[cv]) \ {h}
  BY <1>0, WakeQueues
<1>6. \A d \in Cond : d # cv => waitQueue'[d] = waitQueue[d]
  BY <1>0, QueueFacts
<1>7. h \in Waiting[cv] /\ Waiting' = [Waiting EXCEPT ![cv] = Waiting[cv] \ {h}]
  BY <1>4, <1>5, <1>6 DEF Waiting
<1>8. PICK t \in Thread : t = c
  BY <1>0
<1>9. Contract!AtomicSignal(t, cv)
  BY <1>0, <1>7, <1>8, HolderFacts DEF Contract!AtomicSignal
<1> QED
  BY <1>9 DEF Contract!ContractNext

\* A broadcast ends all waits when it begins ...
LEMMA BroadcastContract ==
  ASSUME ContractInv, NEW cv \in Cond, Broadcast(cv)
  PROVE  Contract!ContractNext
<1> DEFINE c == currentThread
<1>0. /\ c \in Thread /\ pc[c] = Inside /\ IsHold(pc[c])
      /\ pc' = [pc EXCEPT ![c] = Broadcasting(cv)] /\ owner' = owner /\ waitQueue' = waitQueue
  BY QueueFacts, Kinds DEF Broadcast, At, Step, Goto, monVars
<1>1. WaitingOn(cv)' = {}
  <2>1. pc'[c] = Broadcasting(cv)
    BY <1>0, QueueFacts
  <2> QED
    BY <1>0, <2>1 DEF WaitingOn
<1>2. ASSUME NEW d \in Cond, d # cv PROVE WaitingOn(d)' = WaitingOn(d)
  <2>1. /\ Broadcasting(cv) # Broadcasting(d) /\ ~IsWait(Broadcasting(cv), d)
        /\ pc[c] # Broadcasting(d) /\ ~IsWait(pc[c], d)
    BY <1>0, <1>2, WaitPlaces
  <2> QED
    BY <1>0, <2>1, WaitingOnSame
<1>3. Waiting' = [Waiting EXCEPT ![cv] = {}]
  BY <1>1, <1>2 DEF Waiting
<1>4. PICK t \in Thread : t = c
  BY <1>0
<1>5. Contract!AtomicBroadcast(t, cv)
  BY <1>0, <1>3, <1>4, HolderFacts DEF Contract!AtomicBroadcast
<1> QED
  BY <1>5 DEF Contract!ContractNext

\* ... a turn of its loop changes nothing, wherever it loses the processor ...
LEMMA BroadcastOneContract ==
  ASSUME ContractInv, NEW cv \in Cond, BroadcastOne(cv)
  PROVE  UNCHANGED <<owner[lock], Waiting>>
<1> DEFINE c == currentThread
<1>0. /\ c \in Thread /\ pc[c] = Broadcasting(cv) /\ WakeFirst(cv, Broadcasting(cv))
      /\ pc' = [pc EXCEPT ![c] = Broadcasting(cv)] /\ owner' = owner
      /\ waitQueue' = [waitQueue EXCEPT ![cv] = Tail(waitQueue[cv])]
  BY QueueFacts DEF BroadcastOne, At, WakeFirst, Goto
<1>1. pc' = pc
  BY <1>0, QueueFacts
<1>2. WaitingOn(cv) = {} /\ WaitingOn(cv)' = {}
  BY <1>0, <1>1 DEF WaitingOn
<1>3. ASSUME NEW d \in Cond, d # cv PROVE WaitingOn(d)' = WaitingOn(d)
  <2>1. waitQueue'[d] = waitQueue[d]
    BY <1>0, <1>3, QueueFacts
  <2> QED
    BY <1>0, <2>1, WaitingOnSame
<1>4. Waiting' = Waiting
  BY <1>2, <1>3, WaitingSame
<1> QED
  BY <1>0, <1>4

\* ... and when the loop ends the queue is empty, and still nobody waits.
LEMMA EndBroadcastContract ==
  ASSUME ContractInv, NEW cv \in Cond, EndBroadcast(cv)
  PROVE  UNCHANGED <<owner[lock], Waiting>>
<1> DEFINE c == currentThread
<1>0. /\ c \in Thread /\ pc[c] = Broadcasting(cv) /\ waitQueue[cv] = <<>>
      /\ pc' = [pc EXCEPT ![c] = Inside] /\ owner' = owner /\ waitQueue' = waitQueue
      /\ IsHold(pc[c])
  BY QueueFacts, Kinds DEF EndBroadcast, Step, Goto, monVars
<1>1. \A t \in Thread : pc'[t] = IF t = c THEN Inside ELSE pc[t]
  BY <1>0, QueueFacts
<1>2. WaitingOn(cv) = {}
  BY <1>0 DEF WaitingOn
<1>3. WaitingOn(cv)' = {}
  <2>1. Range(waitQueue'[cv]) = {}
    BY <1>0 DEF Range
  <2>2. InWait(cv)' = {}
    BY <1>0, <1>1, HolderFacts, WaitPlaces DEF InWait, IsWait
  <2> QED
    BY <2>1, <2>2 DEF WaitingOn
<1>4. ASSUME NEW d \in Cond, d # cv PROVE WaitingOn(d)' = WaitingOn(d)
  <2>1. /\ Inside # Broadcasting(d) /\ ~IsWait(Inside, d)
        /\ pc[c] # Broadcasting(d) /\ ~IsWait(pc[c], d)
    BY <1>0, <1>4, WaitPlaces
  <2> QED
    BY <1>0, <2>1, WaitingOnSame
<1>5. Waiting' = Waiting
  BY <1>2, <1>3, <1>4, WaitingSame
<1> QED
  BY <1>0, <1>5

\* The initial states are the contract's.
LEMMA ContractInits == Init => Contract!ContractInit
<1> SUFFICES ASSUME Init PROVE Contract!ContractInit
  OBVIOUS
<1>1. /\ owner[lock] = NULL /\ \A cv \in Cond : waitQueue[cv] = <<>>
      /\ \A t \in Thread : pc[t] = Outside
  BY LockIsSem DEF Init, MonitorInit
<1>2. ASSUME NEW cv \in Cond PROVE WaitingOn(cv) = {}
  <2>1. InWait(cv) = {}
    BY <1>1, WaitPlaces DEF InWait, IsWait
  <2>2. Range(waitQueue[cv]) = {}
    BY <1>1 DEF Range
  <2> QED
    BY <2>1, <2>2 DEF WaitingOn
<1> QED
  BY <1>1, <1>2 DEF Contract!ContractInit, Waiting

\* Every step of Lock and Condition is at most one operation of the contract,
\* under every policy: the refinement of MonitorContract, for every number of
\* threads and conditions.
THEOREM MonitorIsAtomic == Spec => AtomicMonitor
<1>1. ContractInv /\ [Next]_vars => [Contract!ContractNext]_<<owner[lock], Waiting>>
  <2> SUFFICES ASSUME ContractInv, [Next]_vars
               PROVE  Contract!ContractNext \/ UNCHANGED <<owner[lock], Waiting>>
    OBVIOUS
  <2>1. ASSUME CallAcquire \/ ResumeAcquire \/ ResumeReacquire
        PROVE  Contract!ContractNext \/ UNCHANGED <<owner[lock], Waiting>>
    BY <2>1, AcquireContract DEF CallAcquire, ResumeAcquire, ResumeReacquire, At
  <2>2. ASSUME NEW cv \in Cond, ResumeWait(cv)
        PROVE  Contract!ContractNext \/ UNCHANGED <<owner[lock], Waiting>>
    BY <2>2, AcquireContract DEF ResumeWait, At
  <2>3. CASE Yield \/ UNCHANGED vars
    <3>1. pc' = pc /\ waitQueue' = waitQueue /\ owner' = owner
      BY <2>3 DEF Yield, YieldAt, vars, semVars, monVars
    <3> QED
      BY <3>1 DEF Waiting, WaitingOn, InWait
  <2> QED
    BY <2>1, <2>2, <2>3, ReleaseContract, WaitContract, FinishContract, SleepContract,
       SignalContract, BroadcastContract, BroadcastOneContract, EndBroadcastContract DEF Next
<1> QED
  BY <1>1, ContractInits, ContractInvariant, PTL
     DEF Spec, AtomicMonitor, Contract!AtomicContract, Contract!contractVars
===============================================================================
