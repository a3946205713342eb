------------------------------ MODULE SynchTests -------------------------------
(***************************************************************************)
(* The programs of threads/threadtest.cc that use the primitives: threads  *)
(* that meet at a barrier, read and write under a ReadWriteLock, or share  *)
(* a buffer.  One of them runs, as ThreadTest selects it; SynchList, which *)
(* has no test, runs as the buffers do.                                    *)
(***************************************************************************)
EXTENDS Barrier, ReadWriteLock, Buffers

ASSUME SynchTestsAssumption == WriterLock \notin {Empty, Full}

vars == <<schedVars, semVars, monVars, barVars, ReaderCnt, bufVars>>

\* The tests; their threads may be forked in any order.
Lab3Test4_1    == program = "Buffer"
Lab3Test4_2    == program = "BufferCnd"
Lab3Challenge1 == program = "barrier"
Lab3Challenge2 == program = "readwrite"

ThreadTest ==
  Lab3Test4_1 \/ Lab3Test4_2 \/ Lab3Challenge1 \/ Lab3Challenge2 \/ program = "SynchList"

Init ==
  /\ ThreadTest
  /\ MonitorInit("outside", [s \in Sem |-> Semaphores(s)])
  /\ BarrierInit /\ ReadWriteInit /\ BuffersInit

\* The places at which the timer may take the processor from a thread.  The clock
\* ticks when interrupts are enabled again, so those are where the thread outside
\* goes on, and where it returns from a routine of a primitive.  All of a barrier
\* runs with interrupts off.
Interruptible ==
  {"outside", "reading", "writing", "bLock", "bTest", "bGive", "bEnd"}
    \cup IF program \in Kinds /\ CallsSignal THEN {"bRelease"} ELSE {}

Yield == YieldAt(Interruptible) /\ UNCHANGED <<barVars, ReaderCnt, bufVars>>

\* What the running thread does by itself.
Work ==
  \/ program = "barrier"   /\ BarrierStep   /\ UNCHANGED <<ReaderCnt, bufVars>>
  \/ program = "readwrite" /\ ReadWriteStep /\ UNCHANGED <<barVars, bufVars>>
  \/ program \in Kinds     /\ BuffersStep   /\ UNCHANGED <<barVars, ReaderCnt>>

Next == Work \/ Yield

\* The processor does not stop while some thread can go on, and the timer, which
\* waits at least a tick, does not keep a thread from ever doing its next step.
Spec ==
  /\ Init /\ [][Next]_vars
  /\ WF_vars(Next)
  /\ \A t \in Thread : SF_vars(currentThread = t /\ Work)
-----------------------------------------------------------------------------
(***************************************************************************)
(* The tests come to their end: every thread gets through every round of   *)
(* the barrier, and every producer and consumer through its loop.  In the  *)
(* barrier Wait is not in a loop, and in the buffers Signal wakes one      *)
(* thread only, so this rests on each wakeup reaching a thread that can    *)
(* use it.  With priorities a V may strand a waiter.                       *)
(***************************************************************************)
TestsEnd ==
  NoPreemption =>
    /\ program = "barrier" => <>(\A t \in Thread : passed[t] = Rounds)
    /\ program \in Kinds => <>(\A t \in Thread : done[t] = iters[t])
================================================================================
