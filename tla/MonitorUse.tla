------------------------------ MODULE MonitorUse ------------------------------
(***************************************************************************)
(* Threads that use one lock and its condition variables in any order that *)
(* the assertions of threads/synch.cc allow: Acquire outside, and inside   *)
(* Release, Wait, Signal and Broadcast.  The timer may take the processor  *)
(* from a thread wherever its interrupts are on.                           *)
(***************************************************************************)
EXTENDS Monitor

CONSTANT lock

ASSUME MonitorUseAssumption == lock \in Lock

vars == <<schedVars, semVars, monVars>>

\* Where a thread is.  In the first two places its interrupts are on.
Outside == <<"outside">>
Inside  == <<"inside">>
Acquiring        == <<"acquire">>          \* in P of Acquire
Releasing        == <<"release">>          \* in V of Release
WaitReleasing(cv) == <<"waitRelease", cv>> \* in V of the Release of Wait
WaitReleased(cv) == <<"waitReleased", cv>> \* in Wait, after Release
Asleep(cv)       == <<"asleep", cv>>       \* in Wait, on the wait queue
Reacquiring      == <<"reacquire">>        \* in P of the Acquire of Wait
Broadcasting(cv) == <<"broadcast", cv>>    \* in the loop of Broadcast

Place ==
  {Outside, Inside, Acquiring, Releasing, Reacquiring} \cup
  UNION {{WaitReleasing(cv), WaitReleased(cv), Asleep(cv), Broadcasting(cv)} : cv \in Cond}

At(label) == ~idle /\ pc[currentThread] = label

Init == MonitorInit(Outside, [s \in Sem |-> 1])
-----------------------------------------------------------------------------
CallAcquire   == At(Outside) /\ Acquire(lock, Acquiring, Inside)
ResumeAcquire == At(Acquiring) /\ Acquire(lock, Acquiring, Inside)

CallRelease   == At(Inside) /\ Release(lock, Releasing, Outside)
ResumeRelease == At(Releasing) /\ FinishRelease(lock, Outside)

\* Condition::Wait, step 1 ...
CallWait(cv)  == At(Inside) /\ Release(lock, WaitReleasing(cv), WaitReleased(cv))
ResumeWaitRelease(cv) == At(WaitReleasing(cv)) /\ FinishRelease(lock, WaitReleased(cv))

\* ... step 2 ...
WaitSleep(cv) == At(WaitReleased(cv)) /\ SleepOn(cv, Asleep(cv))

\* ... and, once signalled, step 3.
ResumeWait(cv)  == At(Asleep(cv)) /\ Acquire(lock, Reacquiring, Inside)
ResumeReacquire == At(Reacquiring) /\ Acquire(lock, Reacquiring, Inside)

\* Signal returns at once when nobody waits: then it changes nothing.
Signal(cv) ==
  /\ At(Inside)
  /\ isHeldByCurrentThread(lock)
  /\ WakeFirst(cv, Inside)

Broadcast(cv) ==
  /\ At(Inside)
  /\ isHeldByCurrentThread(lock)
  /\ Step(Inside, Broadcasting(cv))
BroadcastOne(cv) == At(Broadcasting(cv)) /\ WakeFirst(cv, Broadcasting(cv))
\* A wrong Broadcast: stops after the waiters that it has woken so far.
EndBroadcastEarly(cv) == ~idle /\ Step(Broadcasting(cv), Inside)

EndBroadcast(cv) ==
  /\ ~idle
  /\ waitQueue[cv] = <<>>
  /\ Step(Broadcasting(cv), Inside)

\* A wrong Wait: runs with interrupts on.
YieldInWait == YieldAt({Outside, Inside} \cup {WaitReleased(cv) : cv \in Cond})

Yield == YieldAt({Outside, Inside})

\* There is no device here: when the last thread goes to sleep nobody can
\* ready another one, and Interrupt::Idle halts the machine.
Next ==
  \/ CallAcquire \/ ResumeAcquire \/ CallRelease \/ ResumeRelease
  \/ ResumeReacquire \/ Yield
  \/ \E cv \in Cond :
       \/ CallWait(cv) \/ ResumeWaitRelease(cv) \/ WaitSleep(cv) \/ ResumeWait(cv)
       \/ Signal(cv) \/ Broadcast(cv) \/ BroadcastOne(cv) \/ EndBroadcast(cv)

Spec == Init /\ [][Next]_vars
-----------------------------------------------------------------------------
\* The variables keep their types, and P never takes the lock's semaphore
\* below 0.
TypeOK == MonitorTypeOK(Place)

\* t is between the return of Acquire and the call of Release.
Holds(t) == pc[t] = Inside \/ \E cv \in Cond : pc[t] = Broadcasting(cv)

(***************************************************************************)
(* The lock excludes, and Owner is its holder: no two threads are inside,  *)
(* whichever of Acquire and Wait let them in, and the assertions on        *)
(* isHeldByCurrentThread in Release, Wait, Signal and Broadcast never fail *)
(* for a thread that is.                                                   *)
(***************************************************************************)
MutualExclusion ==
  /\ \A t, u \in Thread : Holds(t) /\ Holds(u) => t = u
  /\ \A t \in Thread : Holds(t) <=> owner[lock] = t

(***************************************************************************)
(* Wait releases the lock and goes to sleep in one atomic step, as synch.h *)
(* demands: nobody is inside, where it could signal, while a thread has    *)
(* given the lock up in Wait and is not yet on the wait queue.  Not even   *)
(* when the V in Release hands the processor to a more urgent thread.      *)
(***************************************************************************)
WaitIsAtomic ==
  \A t, u \in Thread, cv \in Cond :
    pc[t] \in {WaitReleasing(cv), WaitReleased(cv)} => ~Holds(u)
-----------------------------------------------------------------------------
(***************************************************************************)
(* A thread waits from its Release in Wait until it is taken off the wait  *)
(* queue.  A Broadcast ends all waits when it begins: nobody can see the   *)
(* queue before the loop has emptied it.                                   *)
(***************************************************************************)
InWait(cv) == {t \in Thread : pc[t] \in {WaitReleasing(cv), WaitReleased(cv)}}

WaitingOn(cv) ==
  IF \E t \in Thread : pc[t] = Broadcasting(cv)
  THEN {}
  ELSE Range(waitQueue[cv]) \cup InWait(cv)

Waiting == [cv \in Cond |-> WaitingOn(cv)]

Contract == INSTANCE MonitorContract WITH holder <- owner[lock], waiting <- Waiting

(***************************************************************************)
(* Every step of Lock and Condition is at most one atomic operation of the *)
(* contract, under every policy: nobody gets the lock while it waits for a *)
(* signal, and none of the threads that wait when a Broadcast begins is    *)
(* still waiting when it ends, wherever its loop loses the processor.      *)
(***************************************************************************)
AtomicMonitor == Contract!AtomicContract
==============================================================================
