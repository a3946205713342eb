------------------------------- MODULE Monitor -------------------------------
(***************************************************************************)
(* Lock and Condition of threads/synch.cc, as action fragments of          *)
(* currentThread.  A lock is a semaphore with an owner.  All of a routine  *)
(* runs with interrupts off, so again the processor changes hands only     *)
(* inside Sleep and inside ReadyToRun.                                     *)
(***************************************************************************)
EXTENDS Semaphore

CONSTANTS
  Lock,      \* the semaphores that are a Lock::lockSemaphore
  Cond,      \* the condition variables
  NULL

ASSUME MonitorAssumption ==
  /\ Lock \subseteq Sem
  /\ NULL \notin Thread

VARIABLES
  owner,     \* Lock::Owner
  waitQueue  \* Condition::waitQueue

monVars == <<owner, waitQueue>>

\* currentThread stands at a place of its program.
Here(label) == ~idle /\ pc[currentThread] = label

isHeldByCurrentThread(l) == owner[l] = currentThread

\* A turn of the loop of Acquire: P on the lock's semaphore, then the owner.
Acquire(l, wait, next) ==
  /\ P(l, wait, next)
  /\ owner' = IF value[l] > 0 THEN [owner EXCEPT ![l] = currentThread] ELSE owner
  /\ UNCHANGED waitQueue

\* A wrong Release: signals the semaphore and keeps the owner.
ReleaseKeepingOwner(l, mid, next) ==
  /\ isHeldByCurrentThread(l)
  /\ V(l, mid, next)
  /\ UNCHANGED <<owner, waitQueue>>

\* Release; `mid' is the place inside V before the increment.
Release(l, mid, next) ==
  /\ isHeldByCurrentThread(l)
  /\ owner' = [owner EXCEPT ![l] = NULL]
  /\ V(l, mid, next)
  /\ UNCHANGED waitQueue

\* V, back from a yield to the thread it has woken.
FinishRelease(l, next) ==
  /\ Increment(l, next)
  /\ UNCHANGED <<queue, schedVars, monVars>>

\* Step 2 of Wait: onto the condition's queue and asleep.
SleepOn(cv, wake) ==
  /\ waitQueue' = [waitQueue EXCEPT ![cv] = Append(@, currentThread)]
  /\ Goto(currentThread, wake)
  /\ Sleep
  /\ UNCHANGED <<value, queue, owner>>

\* Signal, and one turn of the loop of Broadcast: ready the first waiter.
WakeFirst(cv, next) ==
  /\ waitQueue[cv] # <<>>
  /\ waitQueue' = [waitQueue EXCEPT ![cv] = Tail(@)]
  /\ Goto(currentThread, next)
  /\ LET first == Head(waitQueue[cv])
     IN  IF Preempts(first) THEN MakeReadyAndYield(first) ELSE MakeReady(first)
  /\ UNCHANGED <<value, queue, owner>>

\* A step of currentThread between two calls, its interrupts still off.
Step(from, to) ==
  /\ pc[currentThread] = from
  /\ Goto(currentThread, to)
  /\ UNCHANGED <<value, queue, schedVars, monVars>>

\* Thread::Yield of a thread that runs with interrupts on, called by itself
\* or by OneTick for the timer.
YieldAt(labels) ==
  /\ ~idle
  /\ pc[currentThread] \in labels
  /\ readyList # <<>>
  /\ YieldFrom(readyList, status)
  /\ UNCHANGED <<semVars, monVars>>

(***************************************************************************)
(* The start: every thread has been forked and stands at `label', and the  *)
(* semaphores have their initial values (1 for a lock).                    *)
(***************************************************************************)
MonitorInit(label, initial) ==
  /\ policy \in Policy
  /\ currentThread \in Thread
  /\ status = [t \in Thread |-> IF t = currentThread THEN "RUNNING" ELSE "READY"]
  /\ readyList \in [1..(Cardinality(Thread) - 1) -> Thread \ {currentThread}]
  /\ IsInjective(readyList)
  /\ \A i, j \in DOMAIN readyList :
       i < j => RoundRobbin \/ Priority[readyList[i]] <= Priority[readyList[j]]
  /\ idle = FALSE
  /\ value = initial
  /\ queue = [s \in Sem |-> <<>>]
  /\ pc = [t \in Thread |-> label]
  /\ owner = [l \in Lock |-> NULL]
  /\ waitQueue = [cv \in Cond |-> <<>>]

MonitorTypeOK(labels) ==
  /\ SchedTypeOK
  /\ value \in [Sem -> Nat]
  /\ queue \in [Sem -> Seq(Thread)]
  /\ pc \in [Thread -> labels]
  /\ owner \in [Lock -> Thread \cup {NULL}]
  /\ waitQueue \in [Cond -> Seq(Thread)]
==============================================================================
