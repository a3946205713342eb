------------------------------ MODULE Scheduler ------------------------------
(***************************************************************************)
(* The ready list and the dispatcher of threads/scheduler.cc, and the      *)
(* context-switch routines Yield and Sleep of threads/thread.cc.           *)
(*                                                                         *)
(* Nachos runs on one processor: only currentThread executes, and another  *)
(* thread gets the processor only inside Scheduler::Run.  The operators    *)
(* below are the fragments of an action that touch the scheduler; the      *)
(* modules of the synchronization primitives combine them.                 *)
(*                                                                         *)
(* The command line and the priorities make the policy.  A priority is set *)
(* before its thread is forked (constructor argument or setPriority) and   *)
(* stays, so a behaviour begins with some policy and keeps it.  Of two     *)
(* priorities the smaller number is the more urgent one.                   *)
(***************************************************************************)
EXTENDS Naturals, Sequences, FiniteSets, SequencesExt

CONSTANTS
  Thread,        \* the threads
  Policy         \* the policies under which Nachos may be run

ASSUME SchedulerAssumption ==
  /\ IsFiniteSet(Thread)
  /\ Thread # {}
  /\ Policy \subseteq [roundRobbin : BOOLEAN, timer : BOOLEAN, priority : [Thread -> Nat]]
  /\ \A p \in Policy : p.roundRobbin => p.timer

VARIABLES
  policy,        \* the flags -rr and -rs, and the priorities
  currentThread, \* the thread that holds the processor
  status,        \* Thread::status
  readyList,     \* Scheduler::readyList, head first
  idle           \* currentThread is in the loop of Thread::Sleep

schedVars == <<policy, currentThread, status, readyList, idle>>

RoundRobbin == policy.roundRobbin   \* -rr
Timer       == policy.timer         \* -rr or -rs: a timer makes threads yield
Priority    == policy.priority      \* Thread::priority

\* No thread is ever more urgent than another, so ReadyToRun never yields.
NoPreemption == RoundRobbin \/ \A t, u \in Thread : Priority[t] = Priority[u]

ThreadStatus == {"JUST_CREATED", "RUNNING", "READY", "BLOCKED"}

SchedTypeOK ==
  /\ policy \in Policy
  /\ currentThread \in Thread
  /\ status \in [Thread -> ThreadStatus]
  /\ readyList \in Seq(Thread)
  /\ idle \in BOOLEAN

(***************************************************************************)
(* threads/list.cc: SortedInsert walks past every element whose key is not *)
(* larger, so elements of equal key stay first-in first-out.               *)
(***************************************************************************)
NotAfter(list, t) == {i \in DOMAIN list : Priority[list[i]] <= Priority[t]}

\* A wrong SortedInsert: `<=' for `<', so a thread overtakes its equals.
SortedInsertLIFO(list, t) ==
  InsertAt(list, Cardinality({i \in DOMAIN list : Priority[list[i]] < Priority[t]}) + 1, t)

SortedInsert(list, t) == InsertAt(list, Cardinality(NotAfter(list, t)) + 1, t)

\* The list ReadyToRun leaves behind when it queues t.
Queued(list, t) == IF RoundRobbin THEN Append(list, t) ELSE SortedInsert(list, t)

\* A wrong ReadyToRun: yields to a thread that is not more urgent, too.
PreemptsOnTie(t) == Priority[t] <= Priority[currentThread]

\* ReadyToRun makes currentThread yield on the spot to a more urgent thread.
Preempts(t) == ~RoundRobbin /\ Priority[t] < Priority[currentThread]

(***************************************************************************)
(* Scheduler::Run to the head of list, everything else as in st.           *)
(***************************************************************************)
Run(list, st) ==
  /\ currentThread' = Head(list)
  /\ status' = [st EXCEPT ![Head(list)] = "RUNNING"]
  /\ readyList' = Tail(list)
  /\ idle' = FALSE
  /\ UNCHANGED policy

\* A wrong Yield: takes the head without removing it from the list.
YieldToListed(list, st) ==
  /\ currentThread' = Head(list)
  /\ status' = [st EXCEPT ![currentThread] = "READY", ![Head(list)] = "RUNNING"]
  /\ readyList' = Queued(list, currentThread)
  /\ idle' = FALSE
  /\ UNCHANGED policy

(***************************************************************************)
(* Thread::Yield, when list is the ready list and is not empty: the next   *)
(* thread is taken off the list before currentThread is put on it, so a    *)
(* yield always gives the processor away, to a less urgent thread too.     *)
(***************************************************************************)
YieldFrom(list, st) ==
  /\ currentThread' = Head(list)
  /\ status' = [st EXCEPT ![currentThread] = "READY", ![Head(list)] = "RUNNING"]
  /\ readyList' = Queued(Tail(list), currentThread)
  /\ idle' = FALSE
  /\ UNCHANGED policy

\* Scheduler::ReadyToRun when t is not more urgent than currentThread ...
MakeReady(t) ==
  /\ readyList' = Queued(readyList, t)
  /\ status' = [status EXCEPT ![t] = "READY"]
  /\ UNCHANGED <<policy, currentThread, idle>>

\* ... and when it is: currentThread yields before ReadyToRun returns.
MakeReadyAndYield(t) ==
  YieldFrom(Queued(readyList, t), [status EXCEPT ![t] = "READY"])

(***************************************************************************)
(* Thread::Sleep.  With an empty ready list the thread stays current and   *)
(* loops in Interrupt::Idle until an interrupt readies someone.            *)
(***************************************************************************)
Sleep ==
  LET blocked == [status EXCEPT ![currentThread] = "BLOCKED"]
  IN  IF readyList = <<>>
      THEN status' = blocked /\ idle' = TRUE /\ UNCHANGED <<policy, currentThread, readyList>>
      ELSE Run(readyList, blocked)
=============================================================================
