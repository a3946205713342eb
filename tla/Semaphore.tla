------------------------------ MODULE Semaphore ------------------------------
(***************************************************************************)
(* Semaphore::P and Semaphore::V of threads/synch.cc, as action fragments  *)
(* of currentThread.  Both run with interrupts off, so the processor       *)
(* changes hands only at the calls of Sleep and of ReadyToRun: pc[t] is    *)
(* the place where t goes on when it gets the processor back.              *)
(***************************************************************************)
EXTENDS Scheduler

CONSTANT Sem   \* the semaphores

VARIABLES
  value,       \* Semaphore::value
  queue,       \* Semaphore::queue, the threads asleep in P
  pc           \* where each thread resumes

semVars == <<value, queue, pc>>

Goto(t, label) == pc' = [pc EXCEPT ![t] = label]

\* A wrong P: a woken thread takes the value without testing it again.
PWithoutRetest(s, wait, next) ==
  IF value[s] = 0 /\ pc[currentThread] # wait
  THEN /\ queue' = [queue EXCEPT ![s] = Append(@, currentThread)]
       /\ Goto(currentThread, wait)
       /\ Sleep
       /\ UNCHANGED value
  ELSE /\ value' = [value EXCEPT ![s] = @ - 1]
       /\ Goto(currentThread, next)
       /\ UNCHANGED <<queue, schedVars>>

(***************************************************************************)
(* One turn of the while loop of P: go to sleep on the queue, to resume at *)
(* `wait' and test again, or take a unit of the value and go on at `next'. *)
(***************************************************************************)
P(s, wait, next) ==
  IF value[s] = 0
  THEN /\ queue' = [queue EXCEPT ![s] = Append(@, currentThread)]
       /\ Goto(currentThread, wait)
       /\ Sleep
       /\ UNCHANGED value
  ELSE /\ value' = [value EXCEPT ![s] = @ - 1]
       /\ Goto(currentThread, next)
       /\ UNCHANGED <<queue, schedVars>>

\* The last lines of V: value++ and return to `next'.
Increment(s, next) ==
  /\ value' = [value EXCEPT ![s] = @ + 1]
  /\ Goto(currentThread, next)

\* A wrong V: looks for a waiter only when the value is 0.
VOnlyFromZero(s, mid, next) ==
  /\ Increment(s, next)
  /\ IF queue[s] = <<>> \/ value[s] > 0
     THEN UNCHANGED <<queue, schedVars>>
     ELSE /\ queue' = [queue EXCEPT ![s] = Tail(@)]
          /\ MakeReady(Head(queue[s]))

(***************************************************************************)
(* V: take the first waiter off the queue, make it ready, increment.  When *)
(* ReadyToRun yields to that waiter the increment is still to come: the    *)
(* calling thread goes on at `mid'.                                        *)
(***************************************************************************)
V(s, mid, next) ==
  \/ /\ queue[s] = <<>>
     /\ Increment(s, next)
     /\ UNCHANGED <<queue, schedVars>>
  \/ /\ queue[s] # <<>>
     /\ queue' = [queue EXCEPT ![s] = Tail(@)]
     /\ \/ /\ ~Preempts(Head(queue[s]))
           /\ MakeReady(Head(queue[s]))
           /\ Increment(s, next)
        \/ /\ Preempts(Head(queue[s]))
           /\ MakeReadyAndYield(Head(queue[s]))
           /\ Goto(currentThread, mid)
           /\ UNCHANGED value
=============================================================================
