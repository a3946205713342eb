-------------------------------- MODULE Kernel --------------------------------
(***************************************************************************)
(* The Nachos kernel as threads and devices see it: threads that call P, V *)
(* and Yield, the timer, and devices whose interrupt handlers call V       *)
(* (machine/interrupt.cc, machine/timer.cc, threads/scheduler.cc,          *)
(* threads/thread.cc and the semaphores of threads/synch.cc).              *)
(*                                                                         *)
(* Interrupts are off for the whole of P and of V.  They are on exactly    *)
(* when currentThread runs its own code, and it is on the way back there   *)
(* (SetLevel(IntOn), which calls OneTick) that pending interrupts fire.    *)
(***************************************************************************)
EXTENDS Semaphore

CONSTANTS
  DeviceSem,     \* the semaphores that interrupt handlers call V on
  InitialValue,  \* the constructor argument of each semaphore
  MaxValue       \* bound: no thread or device calls V at this value

ASSUME KernelAssumption ==
  /\ DeviceSem \subseteq Sem
  /\ InitialValue \in [Sem -> Nat]
  /\ MaxValue \in Nat

VARIABLES
  inHandler,     \* Interrupt::inHandler
  handler        \* handler[t]: the device semaphore whose V an interrupt
                 \* handler that runs on t's stack has left unfinished

vars == <<schedVars, semVars, inHandler, handler>>

\* The places where a thread can be when it does not hold the processor.
Own      == <<"run">>        \* in its own code
InP(s)   == <<"P", s>>       \* asleep in P, or woken and about to test again
InV(s)   == <<"V", s>>       \* in V, before the increment
Place    == {Own} \cup {InP(s) : s \in Sem} \cup {InV(s) : s \in Sem}

c == currentThread

\* currentThread is back in its own code, where interrupts are enabled.
AtOwnCode == ~idle /\ handler[c] = {} /\ pc[c] = Own

\* SetLevel(IntOn) asserts that no handler is running; if one is, the
\* assertion aborts Nachos and currentThread does not get any further.
InterruptsOn == AtOwnCode /\ ~inHandler

Init ==
  /\ policy \in Policy
  /\ currentThread \in Thread
  /\ status = [t \in Thread |-> IF t = currentThread THEN "RUNNING" ELSE "READY"]
  /\ readyList \in [1..(Cardinality(Thread) - 1) -> Thread \ {currentThread}]
  /\ IsInjective(readyList)
  /\ Range(readyList) = Thread \ {currentThread}
  /\ \A i, j \in DOMAIN readyList :
       i < j => RoundRobbin \/ Priority[readyList[i]] <= Priority[readyList[j]]
  /\ idle = FALSE
  /\ value = InitialValue
  /\ queue = [s \in Sem |-> <<>>]
  /\ pc = [t \in Thread |-> Own]
  /\ inHandler = FALSE
  /\ handler = [t \in Thread |-> {}]
-----------------------------------------------------------------------------
(* Operations of currentThread.                                            *)

CallP(s) ==
  /\ InterruptsOn
  /\ P(s, InP(s), Own)
  /\ UNCHANGED <<inHandler, handler>>

\* Back from Sleep, the while loop of P tests the value again.
ResumeP(s) ==
  /\ ~idle
  /\ handler[c] = {}
  /\ pc[c] = InP(s)
  /\ P(s, InP(s), Own)
  /\ UNCHANGED <<inHandler, handler>>

CallV(s) ==
  /\ InterruptsOn
  /\ value[s] < MaxValue
  /\ V(s, InV(s), Own)
  /\ UNCHANGED <<inHandler, handler>>

\* Back from the Yield inside ReadyToRun, V increments the value.
ResumeV(s) ==
  /\ ~idle
  /\ handler[c] = {}
  /\ pc[c] = InV(s)
  /\ Increment(s, Own)
  /\ UNCHANGED <<queue, schedVars, inHandler, handler>>

\* Thread::Yield, called by the thread itself or by OneTick when the timer's
\* handler has asked for it with YieldOnReturn.
Yield ==
  /\ InterruptsOn
  /\ readyList # <<>>
  /\ YieldFrom(readyList, status)
  /\ UNCHANGED <<semVars, inHandler, handler>>
-----------------------------------------------------------------------------
(* Interrupts.                                                             *)

\* CheckIfDue fires a device's handler, from OneTick or from Idle; the handler
\* calls V.  If V yields, the handler stays unfinished on c's stack.
DeviceInterrupt(s) ==
  /\ InterruptsOn \/ (idle /\ handler[c] = {})
  /\ value[s] < MaxValue
  /\ V(s, pc[c], pc[c])
  /\ LET switched == currentThread' # c
     IN  /\ inHandler' = switched
         /\ handler' = IF switched THEN [handler EXCEPT ![c] = {s}] ELSE handler

\* The unfinished handler gets the processor back: value++, and CheckIfDue
\* clears inHandler.  A handler fired from Idle returns into Sleep's loop.
ResumeHandler(s) ==
  /\ ~idle
  /\ s \in handler[c]
  /\ Increment(s, pc[c])
  /\ idle' = (pc[c] # Own)
  /\ inHandler' = FALSE
  /\ handler' = [handler EXCEPT ![c] = {}]
  /\ UNCHANGED <<policy, currentThread, status, readyList, queue>>

\* The loop of Sleep finds a ready thread.
LeaveIdle ==
  /\ idle
  /\ readyList # <<>>
  /\ Run(readyList, status)
  /\ UNCHANGED <<semVars, inHandler, handler>>
-----------------------------------------------------------------------------
Next ==
  \/ \E s \in Sem : CallP(s) \/ ResumeP(s) \/ CallV(s) \/ ResumeV(s)
  \/ Yield
  \/ \E s \in DeviceSem : DeviceInterrupt(s) \/ ResumeHandler(s)
  \/ LeaveIdle

Spec == Init /\ [][Next]_vars

\* Under -rr and -rs the timer yields again and again; a running thread and
\* the loop of Sleep go on.  Nothing obliges a thread to call P or V.
FairSpec ==
  /\ Spec
  /\ SF_vars(Yield)
  /\ WF_vars(LeaveIdle)
  /\ \A s \in Sem : WF_vars(ResumeP(s)) /\ WF_vars(ResumeV(s))
-----------------------------------------------------------------------------
\* The variables keep their types; a semaphore's value is never negative
\* (synch.h: "semaphore value, always >= 0"), since P tests it in a loop.
TypeOK ==
  /\ SchedTypeOK
  /\ value \in [Sem -> Nat]
  /\ queue \in [Sem -> Seq(Thread)]
  /\ pc \in [Thread -> Place]
  /\ inHandler \in BOOLEAN
  /\ handler \in [Thread -> SUBSET DeviceSem]

(***************************************************************************)
(* Each thread is in one place, and its status says where: the ready list  *)
(* holds the READY threads, once each; the queue of s holds, once each,    *)
(* the BLOCKED threads that are in P of s; and the RUNNING thread is the   *)
(* current one.  Otherwise V would wake, or Run would dispatch, a thread   *)
(* that does not wait for it.                                              *)
(***************************************************************************)
OnOneList ==
  /\ IsInjective(readyList)
  /\ \A t \in Thread : t \in Range(readyList) <=> status[t] = "READY"
  /\ \A s \in Sem :
       /\ IsInjective(queue[s])
       /\ \A t \in Thread :
            t \in Range(queue[s]) <=> status[t] = "BLOCKED" /\ pc[t] = InP(s)
  /\ \A t \in Thread : status[t] = "RUNNING" <=> ~idle /\ t = c

\* What the code keeps of it.  (A handler that readies a more urgent thread
\* from the idle loop makes a thread yield that is asleep, and lists it twice.)
ListsKept == NoPreemption => OnOneList

\* The threads V has woken that have not tested the value of s again.
Woken(s) == {t \in Thread : pc[t] = InP(s) /\ status[t] # "BLOCKED"}

(***************************************************************************)
(* No wakeup is lost: while threads sleep on s, every unit of its value    *)
(* has a woken thread on the way to it.  A unit without one would stay     *)
(* unused with threads asleep for it (synch.h: V wakes up a thread waiting *)
(* in P if necessary).                                                     *)
(***************************************************************************)
NoLostWakeup ==
  \A s \in Sem : queue[s] # <<>> => value[s] <= Cardinality(Woken(s))

\* What the code keeps of it: priorities can break it (V increments only after
\* ReadyToRun has yielded), nothing else can.
WakeupsKept == NoPreemption => NoLostWakeup

\* The assertion of Interrupt::SetLevel: no thread ever enables interrupts
\* while an interrupt handler is unfinished.
HandlersRunToCompletion == AtOwnCode => ~inHandler

\* What the code keeps of it: a handler is only ever left unfinished for a
\* more urgent thread.
HandlersComplete == NoPreemption => HandlersRunToCompletion

(***************************************************************************)
(* The semaphores implement the contract of synch.h.                       *)
(***************************************************************************)
Semaphores == INSTANCE SemaphoreContract
  WITH units <- value,
       wants <- [t \in Thread |-> {s \in Sem : pc[t] = InP(s)}]

\* Every step is at most one P or one V of the contract, under every policy
\* and wherever the routines are interrupted.
AtomicSteps == Semaphores!AtomicContract

\* Without preemption no semaphore lets a unit lie unused forever while a
\* thread waits for it in P.
UnitsAreTaken == NoPreemption => \A s \in Sem : Semaphores!UnitsTaken(s)

\* Without preemption, and with a timer, no ready thread is passed over forever.
ReadyThreadRuns ==
  \A t \in Thread : NoPreemption /\ status[t] = "READY" ~> status[t] = "RUNNING"
=============================================================================
