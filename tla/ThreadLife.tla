------------------------------ MODULE ThreadLife ------------------------------
(***************************************************************************)
(* The life of a thread: construction and Fork, the Exec, Exit, Join and   *)
(* Yield system calls of userprog/exception.cc, Finish, and the destructor *)
(* that Scheduler::Run calls for a finished thread.                        *)
(*                                                                         *)
(* A thread cannot delete itself.  Finish leaves it in threadToBeDestroyed *)
(* and the next thread to come out of SWITCH, inside its own old call of   *)
(* Run, deletes it there.  The destructor takes threadLock: it may sleep,  *)
(* and be entered again, below whatever the thread was doing.  saved[t]    *)
(* holds the places to which t returns from such calls.                    *)
(*                                                                         *)
(* A thread that runs for the first time does not come out of SWITCH: it   *)
(* starts in ThreadRoot.  Address spaces and open files are left out.      *)
(***************************************************************************)
EXTENDS Monitor, Integers

CONSTANTS
  main,           \* the thread Initialize makes
  threadLock,     \* guards used_TID and end_state
  MAX_THREAD_NUM,
  ExitStatus      \* the arguments of Exit

\* The threads of user programs all have the default priority, so that no
\* ReadyToRun yields.
ASSUME ThreadLifeAssumption ==
  /\ main \in Thread
  /\ threadLock \in Lock
  /\ MAX_THREAD_NUM \in Nat \ {0}
  /\ ExitStatus \subseteq Nat
  /\ \A p \in Policy : p.roundRobbin \/ \A t, u \in Thread : p.priority[t] = p.priority[u]

VARIABLES
  allocated,           \* the Thread objects that exist
  tid,                 \* Thread::TID
  used_TID, end_state, Thread_Pointer,
  threadToBeDestroyed,
  saved,               \* saved[t]: the places below the destructors on t's stack
  inRun,               \* currentThread has just come out of SWITCH, inside Run
  kids,                \* kids[t]: what Exec told t, as records of thread and id
  exited,              \* exited[t]: the status t has passed to Exit
  joined               \* what the last Join to return told its caller

lifeVars == <<allocated, tid, used_TID, end_state, Thread_Pointer, threadToBeDestroyed,
              saved, kids, exited, joined>>
vars == <<schedVars, semVars, monVars, lifeVars, inRun>>

TID == 0..(MAX_THREAD_NUM - 1)

Unborn   == <<"unborn">>
Root     == <<"ThreadRoot">>
User     == <<"user">>
Finished == <<"finished">>

\* Where a thread is in Exec (before and after Fork), in Exit and in Join.
\* In all these places but the P of an Acquire its interrupts are on.
Forking(u)     == <<"fork", u>>
Forked(u)      == <<"forked", u>>
ExitLock(s)    == <<"exitAcquire", s>>
ExitRecord(s)  == <<"exitRecord", s>>
ExitDone       == <<"exitDone">>
JoinLock(k)    == <<"joinAcquire", k>>
JoinTest(k)    == <<"joinTest", k>>
JoinYield(k)   == <<"joinYield", k>>
JoinOver(k)    == <<"joinOver", k>>
JoinReadLock(k) == <<"joinReadAcquire", k>>
JoinRead(k)    == <<"joinRead", k>>

\* In the destructor of v, in P of Acquire and after it.
DeleteLock(v)  == <<"deleteAcquire", v>>
Deleting(v)    == <<"delete", v>>

Kid == [thread : Thread, id : TID]

InterruptsOn ==
  {User, ExitDone}
  \cup (UNION {{Forking(u), Forked(u)} : u \in Thread})
  \cup {ExitRecord(s) : s \in ExitStatus}
  \cup (UNION {{JoinTest(k), JoinYield(k), JoinOver(k), JoinRead(k)} : k \in Kid})

c == currentThread

At(label) == ~idle /\ ~inRun /\ pc[c] = label

\* A thread that gets the processor back is still inside Run; one that gets
\* it for the first time is in ThreadRoot.
MaybeSwitch == inRun' = (currentThread' # c /\ pc[currentThread'] # Root)

Init ==
  /\ policy \in Policy
  /\ currentThread = main
  /\ status = [t \in Thread |-> IF t = main THEN "RUNNING" ELSE "JUST_CREATED"]
  /\ readyList = <<>>
  /\ idle = FALSE
  /\ value = [s \in Sem |-> 1]
  /\ queue = [s \in Sem |-> <<>>]
  /\ pc = [t \in Thread |-> IF t = main THEN User ELSE Unborn]
  /\ owner = [l \in Lock |-> NULL]
  /\ waitQueue = [cv \in Cond |-> <<>>]
  /\ allocated = {main}
  /\ tid = [t \in Thread |-> IF t = main THEN 0 ELSE -1]
  /\ used_TID = [i \in TID |-> i = 0]
  /\ end_state = [i \in TID |-> -1]
  /\ Thread_Pointer = [i \in TID |-> IF i = 0 THEN main ELSE NULL]
  /\ threadToBeDestroyed = NULL
  /\ saved = [t \in Thread |-> <<>>]
  /\ inRun = FALSE
  /\ kids = [t \in Thread |-> {}]
  /\ exited = [t \in Thread |-> {}]
  /\ joined = {}
-----------------------------------------------------------------------------
(* Exec                                                                    *)

FreeTIDs == {i \in TID : ~used_TID[i]}

\* A wrong constructor: takes the last id it finds used.
FirstFreeWrong == CHOOSE i \in TID : used_TID[i] /\ \A j \in TID : used_TID[j] => j <= i

\* The constructor takes the first free id; without one its assertion fails.
FirstFree == CHOOSE i \in FreeTIDs : \A j \in FreeTIDs : i <= j

NewThread(u) ==
  /\ At(User)
  /\ pc[u] = Unborn
  /\ FreeTIDs # {}
  /\ allocated' = allocated \cup {u}
  /\ tid' = [tid EXCEPT ![u] = FirstFree]
  /\ used_TID' = [used_TID EXCEPT ![FirstFree] = TRUE]
  /\ Thread_Pointer' = [Thread_Pointer EXCEPT ![FirstFree] = u]
  /\ pc' = [pc EXCEPT ![c] = Forking(u), ![u] = Root]
  /\ UNCHANGED <<schedVars, value, queue, monVars, end_state, threadToBeDestroyed, saved,
                 inRun, kids, exited, joined>>

Fork(u) ==
  /\ At(Forking(u))
  /\ MakeReady(u)
  /\ Goto(c, Forked(u))
  /\ UNCHANGED <<value, queue, monVars, lifeVars, inRun>>

\* ExecHandler asks the child for its id and returns it.
ExecReturn(u) ==
  /\ At(Forked(u))
  /\ kids' = [kids EXCEPT ![c] = @ \cup {[thread |-> u, id |-> tid[u]]}]
  /\ Goto(c, User)
  /\ UNCHANGED <<schedVars, value, queue, monVars, allocated, tid, used_TID, end_state,
                 Thread_Pointer, threadToBeDestroyed, saved, inRun, exited, joined>>

\* ThreadRoot enables interrupts and calls the forked procedure.
Start ==
  /\ At(Root)
  /\ Goto(c, User)
  /\ UNCHANGED <<schedVars, value, queue, monVars, lifeVars, inRun>>
-----------------------------------------------------------------------------
(* Exit and Finish                                                         *)

Exit(s) ==
  /\ At(User) \/ At(ExitLock(s))
  /\ Acquire(threadLock, ExitLock(s), ExitRecord(s))
  /\ exited' = [exited EXCEPT ![c] = {s}]
  /\ MaybeSwitch
  /\ UNCHANGED <<allocated, tid, used_TID, end_state, Thread_Pointer, threadToBeDestroyed,
                 saved, kids, joined>>

RecordExit(s) ==
  /\ At(ExitRecord(s))
  /\ end_state' = [end_state EXCEPT ![tid[c]] = s]
  /\ Release(threadLock, ExitDone, ExitDone)
  /\ MaybeSwitch
  /\ UNCHANGED <<allocated, tid, used_TID, Thread_Pointer, threadToBeDestroyed, saved, kids,
                 exited, joined>>

\* A wrong Finish: yields in place of going to sleep.
FinishYields ==
  /\ At(ExitDone)
  /\ threadToBeDestroyed' = c
  /\ Goto(c, Finished)
  /\ readyList # <<>>
  /\ YieldFrom(readyList, status)
  /\ MaybeSwitch
  /\ UNCHANGED <<value, queue, monVars, allocated, tid, used_TID, end_state, Thread_Pointer,
                 saved, kids, exited, joined>>

Finish ==
  /\ At(ExitDone)
  /\ threadToBeDestroyed' = c
  /\ Goto(c, Finished)
  /\ Sleep
  /\ MaybeSwitch
  /\ UNCHANGED <<value, queue, monVars, allocated, tid, used_TID, end_state, Thread_Pointer,
                 saved, kids, exited, joined>>
-----------------------------------------------------------------------------
(* Join                                                                    *)

JoinAcquire(k) ==
  /\ At(User) \/ At(JoinLock(k))
  /\ Acquire(threadLock, JoinLock(k), JoinTest(k))
  /\ MaybeSwitch
  /\ UNCHANGED lifeVars

\* A wrong Join: waits while the thread has not recorded its exit status.
JoinTestStatus(k) ==
  /\ At(JoinTest(k))
  /\ LET next == IF end_state[k.id] = -1 THEN JoinYield(k) ELSE JoinOver(k)
     IN  Release(threadLock, next, next)
  /\ MaybeSwitch
  /\ UNCHANGED lifeVars

JoinTestUsed(k) ==
  /\ At(JoinTest(k))
  /\ LET next == IF used_TID[k.id] THEN JoinYield(k) ELSE JoinOver(k)
     IN  Release(threadLock, next, next)
  /\ MaybeSwitch
  /\ UNCHANGED lifeVars

\* Yield, if there is anyone to yield to, and test again.
JoinAgain(k) ==
  /\ At(JoinYield(k))
  /\ Goto(c, JoinLock(k))
  /\ IF readyList # <<>> THEN YieldFrom(readyList, status) ELSE UNCHANGED schedVars
  /\ MaybeSwitch
  /\ UNCHANGED <<value, queue, monVars, lifeVars>>

JoinReadAcquire(k) ==
  /\ At(JoinOver(k)) \/ At(JoinReadLock(k))
  /\ Acquire(threadLock, JoinReadLock(k), JoinRead(k))
  /\ MaybeSwitch
  /\ UNCHANGED lifeVars

\* `joined' remembers the caller, whom it asked for, whether that thread's id
\* has been given to another one since, and the answer.
JoinReturn(k) ==
  /\ At(JoinRead(k))
  /\ Release(threadLock, User, User)
  /\ joined' = {[thread |-> k.thread, reused |-> Thread_Pointer[k.id] # k.thread,
                 status |-> end_state[k.id]]}
  /\ MaybeSwitch
  /\ UNCHANGED <<allocated, tid, used_TID, end_state, Thread_Pointer, threadToBeDestroyed,
                 saved, kids, exited>>
-----------------------------------------------------------------------------
(* The end of Scheduler::Run, and Thread::~Thread                          *)

RunReturns ==
  /\ inRun
  /\ threadToBeDestroyed = NULL
  /\ inRun' = FALSE
  /\ UNCHANGED <<schedVars, semVars, monVars, lifeVars>>

\* The destructor takes threadLock.  Called from Run it starts on top of the
\* place to which Run returns; back from Sleep in P it tests again.
DeleteAcquire(v) ==
  /\ (inRun /\ threadToBeDestroyed = v) \/ At(DeleteLock(v))
  /\ saved' = IF inRun THEN [saved EXCEPT ![c] = <<pc[c]>> \o @] ELSE saved
  /\ Acquire(threadLock, DeleteLock(v), Deleting(v))
  /\ MaybeSwitch
  /\ UNCHANGED <<allocated, tid, used_TID, end_state, Thread_Pointer, threadToBeDestroyed,
                 kids, exited, joined>>

\* A wrong Run: forgets to clear threadToBeDestroyed.
DeleteAgain(v) ==
  /\ At(Deleting(v))
  /\ used_TID' = [used_TID EXCEPT ![tid[v]] = FALSE]
  /\ Release(threadLock, Head(saved[c]), Head(saved[c]))
  /\ allocated' = allocated \ {v}
  /\ saved' = [saved EXCEPT ![c] = Tail(@)]
  /\ MaybeSwitch
  /\ UNCHANGED <<tid, end_state, Thread_Pointer, threadToBeDestroyed, kids, exited, joined>>

\* A wrong destructor: keeps the id.
DeleteKeepingTID(v) ==
  /\ At(Deleting(v))
  /\ Release(threadLock, Head(saved[c]), Head(saved[c]))
  /\ allocated' = allocated \ {v}
  /\ threadToBeDestroyed' = NULL
  /\ saved' = [saved EXCEPT ![c] = Tail(@)]
  /\ MaybeSwitch
  /\ UNCHANGED <<tid, used_TID, end_state, Thread_Pointer, kids, exited, joined>>

\* The rest of the destructor, and of Run, with interrupts off.
Delete(v) ==
  /\ At(Deleting(v))
  /\ used_TID' = [used_TID EXCEPT ![tid[v]] = FALSE]
  /\ Release(threadLock, Head(saved[c]), Head(saved[c]))
  /\ allocated' = allocated \ {v}
  /\ threadToBeDestroyed' = NULL
  /\ saved' = [saved EXCEPT ![c] = Tail(@)]
  /\ MaybeSwitch
  /\ UNCHANGED <<tid, end_state, Thread_Pointer, kids, exited, joined>>
-----------------------------------------------------------------------------
\* The Yield system call, and the timer wherever interrupts are on.
Yield ==
  /\ ~inRun
  /\ YieldAt(IF Timer THEN InterruptsOn ELSE {User})
  /\ MaybeSwitch
  /\ UNCHANGED lifeVars

Next ==
  \/ \E u \in Thread : NewThread(u) \/ Fork(u) \/ ExecReturn(u)
  \/ Start
  \/ \E s \in ExitStatus : Exit(s) \/ RecordExit(s)
  \/ Finish
  \/ \E k \in kids[c] : JoinAcquire(k) \/ JoinTestUsed(k) \/ JoinAgain(k)
                          \/ JoinReadAcquire(k) \/ JoinReturn(k)
  \/ RunReturns
  \/ \E v \in Thread : DeleteAcquire(v) \/ Delete(v)
  \/ Yield

Spec == Init /\ [][Next]_vars

\* The processor does not stop while some thread can go on, and a thread in
\* its own code calls the kernel sooner or later.
FairSpec == Spec /\ WF_vars(Next)
-----------------------------------------------------------------------------
(***************************************************************************)
(* An id belongs to one thread at a time: from the constructor to the end  *)
(* of the destructor it is marked used and no other thread has it, though  *)
(* the constructor does not take the lock that the destructor takes.       *)
(***************************************************************************)
UniqueTIDs ==
  \A t \in allocated :
    /\ used_TID[tid[t]]
    /\ \A u \in allocated : tid[t] = tid[u] => t = u

\* The destructors of v on the stacks of all threads.
Destructors(v) ==
  {d \in Thread \X (0..Cardinality(Thread)) :
     LET t == d[1]
         i == d[2]
     IN  /\ i <= Len(saved[t])
         /\ (IF i = 0 THEN pc[t] ELSE saved[t][i]) \in {DeleteLock(v), Deleting(v)}}

(***************************************************************************)
(* A thread is destroyed once: its destructor never starts again while it  *)
(* runs, nor when it has returned.  It may sleep on threadLock, and until  *)
(* it returns every thread that comes out of SWITCH finds the same thread  *)
(* in threadToBeDestroyed.                                                 *)
(***************************************************************************)
DestroyedOnce ==
  \A v \in Thread :
    /\ Cardinality(Destructors(v)) <= 1
    /\ Destructors(v) # {} => v \in allocated

\* What the code keeps of it: only a timer can take the processor from a
\* thread that holds threadLock, and make a destructor sleep.
NoDoubleDelete == ~Timer => DestroyedOnce

\* Nobody uses a Thread object that has been deleted: not the scheduler, not
\* a semaphore's queue, and not ExecHandler, which asks the child for its id
\* after Fork, when the child may have come and gone.
NoDeletedThreadUsed ==
  /\ {c} \cup Range(readyList) \cup Range(queue[threadLock]) \subseteq allocated
  /\ \A t, u \in Thread : pc[t] \in {Forking(u), Forked(u)} => u \in allocated

\* What the code keeps of it: without a timer the child cannot run before
\* Exec has returned.
NoUseAfterDelete == ~Timer => NoDeletedThreadUsed

(***************************************************************************)
(* Every finished thread is destroyed later on: until then it stays in     *)
(* threadToBeDestroyed (thread.cc, Finish: "so that Scheduler::Run() will  *)
(* call the destructor").                                                  *)
(***************************************************************************)
NoCarcassLost ==
  \A t \in allocated : pc[t] = Finished => threadToBeDestroyed = t

\* Join returns the status that the thread it waited for has passed to Exit,
\* unless the id has meanwhile been given to another thread.
JoinReturnsStatus ==
  \A j \in joined : ~j.reused => exited[j.thread] = {j.status}

JoinPlaces(k) ==
  {JoinLock(k), JoinTest(k), JoinYield(k), JoinOver(k), JoinReadLock(k), JoinRead(k)}

JoinsFinished(t, k) == pc[t] \in JoinPlaces(k) /\ pc[k.thread] = Finished

\* What the code keeps of it: Join returns if there is no timer, no finished
\* thread is forgotten before it is destroyed, and nobody takes over the id.
JoinReturnsWithoutTimer ==
  \A t \in Thread, k \in Kid :
    ~Timer /\ JoinsFinished(t, k)
      ~> pc[t] = User \/ ~NoCarcassLost \/ Thread_Pointer[k.id] # k.thread
===============================================================================
