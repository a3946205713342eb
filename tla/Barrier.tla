-------------------------------- MODULE Barrier --------------------------------
(***************************************************************************)
(* Barrier::ArriveAndWait of threads/synch.cc, called by the same          *)
(* num_threads threads round after round (threads/threadtest.cc,           *)
(* BarrierThread).  The whole routine runs with interrupts off, so a       *)
(* thread inside it gives the processor away only where it sleeps or       *)
(* readies a more urgent thread.                                           *)
(***************************************************************************)
EXTENDS Monitor

CONSTANTS
  Mutex,     \* Barrier::Mutex
  barrier,   \* Barrier::barrier, the condition
  Rounds     \* bound: how often each thread calls ArriveAndWait

ASSUME BarrierAssumption ==
  /\ Mutex \in Lock
  /\ barrier \in Cond
  /\ Rounds \in Nat

VARIABLES
  num_left,  \* Barrier::num_left
  arrived,   \* arrived[t]: how many calls of ArriveAndWait t has begun
  passed     \* passed[t]: how many it has returned from

barVars == <<num_left, arrived, passed>>

num_threads == Cardinality(Thread)

BarrierInit ==
  /\ num_left = num_threads
  /\ arrived = [t \in Thread |-> 0]
  /\ passed = [t \in Thread |-> 0]
-----------------------------------------------------------------------------
Arrive ==
  /\ Here("outside")
  /\ arrived[currentThread] < Rounds
  /\ arrived' = [arrived EXCEPT ![currentThread] = @ + 1]
  /\ Acquire(Mutex, "acquire", "count")
  /\ UNCHANGED <<num_left, passed>>

ResumeAcquire ==
  /\ Here("acquire")
  /\ Acquire(Mutex, "acquire", "count")
  /\ UNCHANGED <<num_left, arrived, passed>>

\* A wrong count: opens the barrier one thread too soon.
CountEarly ==
  /\ ~idle
  /\ num_left' = num_left - 1
  /\ Step("count", IF num_left = 2 THEN "broadcast" ELSE "wait")
  /\ UNCHANGED <<arrived, passed>>

\* num_left--, and the branch on it.
Count ==
  /\ ~idle
  /\ num_left' = num_left - 1
  /\ Step("count", IF num_left = 1 THEN "broadcast" ELSE "wait")
  /\ UNCHANGED <<arrived, passed>>

BroadcastOne ==
  /\ Here("broadcast")
  /\ WakeFirst(barrier, "broadcast")
  /\ UNCHANGED <<num_left, arrived, passed>>

EndBroadcast ==
  /\ ~idle
  /\ waitQueue[barrier] = <<>>
  /\ num_left' = num_threads
  /\ Step("broadcast", "leave")
  /\ UNCHANGED <<arrived, passed>>

\* Condition::Wait: Release ...
Wait ==
  /\ Here("wait")
  /\ Release(Mutex, "waitRelease", "sleep")
  /\ UNCHANGED <<num_left, arrived, passed>>

ResumeWaitRelease ==
  /\ Here("waitRelease")
  /\ FinishRelease(Mutex, "sleep")
  /\ UNCHANGED <<num_left, arrived, passed>>

\* ... Sleep ...
WaitSleep ==
  /\ Here("sleep")
  /\ SleepOn(barrier, "reacquire")
  /\ UNCHANGED <<num_left, arrived, passed>>

\* ... and Acquire again, when it is signalled.
Reacquire ==
  /\ Here("reacquire")
  /\ Acquire(Mutex, "reacquire", "leave")
  /\ UNCHANGED <<num_left, arrived, passed>>

\* The return of ArriveAndWait, by the currentThread that has released Mutex.
Passed(t) == passed' = [passed EXCEPT ![t] = @ + 1]

Leave ==
  /\ Here("leave")
  /\ Release(Mutex, "leaving", "outside")
  /\ IF pc'[currentThread] = "outside" THEN Passed(currentThread) ELSE UNCHANGED passed
  /\ UNCHANGED <<num_left, arrived>>

ResumeLeave ==
  /\ Here("leaving")
  /\ FinishRelease(Mutex, "outside")
  /\ Passed(currentThread)
  /\ UNCHANGED <<num_left, arrived>>

BarrierStep ==
  \/ Arrive \/ ResumeAcquire \/ Count \/ BroadcastOne \/ EndBroadcast
  \/ Wait \/ ResumeWaitRelease \/ WaitSleep \/ Reacquire
  \/ Leave \/ ResumeLeave
-----------------------------------------------------------------------------
(***************************************************************************)
(* Nobody leaves a round that somebody has not come to, however far ahead  *)
(* a fast thread gets: the condition's queue is emptied and num_left reset *)
(* under one hold of Mutex, so no thread of the next round mixes with the  *)
(* sleepers of the last.                                                   *)
(***************************************************************************)
NobodyPassesEarly ==
  \A t, u \in Thread : passed[t] <= arrived[u]
================================================================================
