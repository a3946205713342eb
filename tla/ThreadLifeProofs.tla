--------------------------- MODULE ThreadLifeProofs ---------------------------
(***************************************************************************)
(* Proofs about ThreadLife, for every number of threads and of ids: an id  *)
(* belongs to one thread at a time, and Join tells the status that the     *)
(* thread has passed to Exit, with and without a timer; without one no     *)
(* thread is deleted twice and no deleted thread is used.                  *)
(***************************************************************************)
EXTENDS ThreadLife, SemaphoreProofs

(***************************************************************************)
(* The invariant.                                                          *)
(***************************************************************************)

\* The places outside the destructor at which a thread has run its own code.
Active ==
  {User, ExitDone}
  \cup {Forking(u) : u \in Thread} \cup {Forked(u) : u \in Thread}
  \cup {ExitLock(s) : s \in ExitStatus} \cup {ExitRecord(s) : s \in ExitStatus}
  \cup {JoinLock(k) : k \in Kid} \cup {JoinTest(k) : k \in Kid} \cup {JoinYield(k) : k \in Kid}
  \cup {JoinOver(k) : k \in Kid} \cup {JoinReadLock(k) : k \in Kid} \cup {JoinRead(k) : k \in Kid}

DeletePlaces == {DeleteLock(v) : v \in Thread} \cup {Deleting(v) : v \in Thread}

Places == {Unborn, Root, Finished} \cup Active \cup DeletePlaces

LifeTypeOK ==
  /\ SchedTypeOK
  /\ SemTypeOK(Places)
  /\ allocated \subseteq Thread
  /\ tid \in [Thread -> TID \cup {-1}]
  /\ used_TID \in [TID -> BOOLEAN]
  /\ end_state \in [TID -> Int]
  /\ Thread_Pointer \in [TID -> Thread \cup {NULL}]
  /\ threadToBeDestroyed \in Thread \cup {NULL}
  /\ saved \in [Thread -> {<<>>} \cup {<<p>> : p \in Active}]
  /\ inRun \in BOOLEAN
  /\ kids \in [Thread -> SUBSET Kid]
  /\ exited \in [Thread -> SUBSET ExitStatus]
  /\ \A j \in joined : j.thread \in Thread

\* Where t is, below the destructor it may be in.
Under(t) == IF saved[t] = <<>> THEN pc[t] ELSE saved[t][1]

(***************************************************************************)
(* The status of a thread tells whether it can be dispatched: a thread in  *)
(* a queue, a finished one and one asleep in a destructor are blocked, and *)
(* a thread that has not been forked has just been created.                *)
(***************************************************************************)
Lists ==
  /\ Dispatch
  /\ idle => ~inRun
  /\ inRun => pc[c] # Root
  /\ IsInjective(queue[threadLock])
  /\ \A t \in Range(queue[threadLock]) : status[t] = "BLOCKED" /\ pc[t] # Finished
  /\ \A t \in Thread :
       /\ pc[t] = Unborn => status[t] = "JUST_CREATED"
       /\ status[t] = "JUST_CREATED" => pc[t] \in {Unborn, Root}
       /\ pc[t] = Finished => status[t] = "BLOCKED"

\* One thread forks u, and until then u is not scheduled.
Forks ==
  \A t, u \in Thread :
    /\ Under(t) = Forking(u) =>
         /\ status[u] = "JUST_CREATED"
         /\ pc[u] = Root
         /\ \A w \in Thread : Under(w) = Forking(u) => w = t
    /\ Under(t) = Forked(u) => pc[u] # Unborn

\* What a thread that has been forked and has not yet given the processor
\* away can be doing.
Fresh == {Root, User} \cup {Forking(u) : u \in Thread} \cup {Forked(u) : u \in Thread}

(***************************************************************************)
(* Destructors.  The one that holds threadLock runs, and is about to clear *)
(* threadToBeDestroyed.  As soon as one has gone to sleep, threadLock is   *)
(* never released again: its holder is not running, and every thread that  *)
(* comes out of SWITCH, the holder too, starts the destructor of the same  *)
(* thread and goes to sleep there.                                         *)
(***************************************************************************)
Destruction ==
  /\ \A t \in Thread : saved[t] # <<>> <=> pc[t] \in DeletePlaces
  /\ \A t, v \in Thread : pc[t] = Deleting(v) =>
       t = c /\ ~idle /\ ~inRun /\ threadToBeDestroyed = v
  /\ threadToBeDestroyed # NULL =>
       pc[threadToBeDestroyed] = Finished /\ threadToBeDestroyed \in allocated
  /\ \A t, v \in Thread : pc[t] = DeleteLock(v) =>
       /\ status[t] = "BLOCKED"
       /\ value[threadLock] = 0
       /\ threadToBeDestroyed # NULL
       /\ ~idle /\ ~inRun => pc[c] \in Fresh

\* The table of ids: an allocated thread is the one its id points to.
Ids ==
  /\ c \in allocated
  /\ \A t \in Thread :
       /\ pc[t] # Unborn /\ pc[t] # Finished => t \in allocated
       /\ pc[t] # Unborn => tid[t] \in TID
  /\ \A t \in allocated :
       pc[t] # Unborn /\ used_TID[tid[t]] /\ Thread_Pointer[tid[t]] = t

\* What Exit has been told is what the table says, as long as the id is not reused.
Exits ==
  /\ \A t \in Thread : \A k \in kids[t] : pc[k.thread] # Unborn /\ tid[k.thread] = k.id
  /\ \A t \in Thread, k \in Kid :
       Under(t) \in {JoinOver(k), JoinReadLock(k), JoinRead(k)} => pc[k.thread] = Finished
  /\ \A t \in Thread, s \in ExitStatus :
       Under(t) \in {ExitLock(s), ExitRecord(s)} => exited[t] = {s}
  /\ \A t \in Thread :
       Under(t) \in {ExitDone, Finished} /\ Thread_Pointer[tid[t]] = t
         => exited[t] = {end_state[tid[t]]}
  /\ \A j \in joined : ~j.reused => pc[j.thread] = Finished /\ exited[j.thread] = {j.status}

\* The places at which threadLock is held.
Holding ==
  {ExitRecord(s) : s \in ExitStatus}
  \cup {JoinTest(k) : k \in Kid} \cup {JoinRead(k) : k \in Kid}
  \cup {Deleting(v) : v \in Thread}

\* Without a timer the processor never changes hands inside Exec, nor while
\* threadLock is held.
Timerless ==
  ~Timer =>
    /\ value[threadLock] = 0 => ~idle /\ ~inRun /\ pc[c] \in Holding
    /\ \A t, v \in Thread : pc[t] # DeleteLock(v)
    /\ \A t, u \in Thread : pc[t] \in {Forking(u), Forked(u)} =>
         t = c /\ ~idle /\ ~inRun /\ pc[u] = Root
    /\ \A t, u \in Thread : saved[t] # <<Forking(u)>> /\ saved[t] # <<Forked(u)>>

LifeInv == LifeTypeOK /\ Lists /\ Forks /\ Destruction /\ Ids /\ Exits /\ Timerless
-----------------------------------------------------------------------------
(***************************************************************************)
(* Labels, and the steps of the scheduler.                                 *)
(***************************************************************************)

\* Every place has a tag of its own, and the tag's argument can be read off.
LEMMA Tags ==
  /\ Unborn[1] = "unborn" /\ Root[1] = "ThreadRoot" /\ User[1] = "user"
  /\ Finished[1] = "finished" /\ ExitDone[1] = "exitDone"
  /\ \A u : Forking(u)[1] = "fork" /\ Forking(u)[2] = u
  /\ \A u : Forked(u)[1] = "forked" /\ Forked(u)[2] = u
  /\ \A s : ExitLock(s)[1] = "exitAcquire" /\ ExitLock(s)[2] = s
  /\ \A s : ExitRecord(s)[1] = "exitRecord" /\ ExitRecord(s)[2] = s
  /\ \A k : JoinLock(k)[1] = "joinAcquire" /\ JoinLock(k)[2] = k
  /\ \A k : JoinTest(k)[1] = "joinTest" /\ JoinTest(k)[2] = k
  /\ \A k : JoinYield(k)[1] = "joinYield" /\ JoinYield(k)[2] = k
  /\ \A k : JoinOver(k)[1] = "joinOver" /\ JoinOver(k)[2] = k
  /\ \A k : JoinReadLock(k)[1] = "joinReadAcquire" /\ JoinReadLock(k)[2] = k
  /\ \A k : JoinRead(k)[1] = "joinRead" /\ JoinRead(k)[2] = k
  /\ \A v : DeleteLock(v)[1] = "deleteAcquire" /\ DeleteLock(v)[2] = v
  /\ \A v : Deleting(v)[1] = "delete" /\ Deleting(v)[2] = v
BY DEF Unborn, Root, User, Finished, ExitDone, Forking, Forked, ExitLock, ExitRecord, JoinLock,
       JoinTest, JoinYield, JoinOver, JoinReadLock, JoinRead, DeleteLock, Deleting

\* The sets of places do not overlap.
LEMMA PlacesApart ==
  /\ \A p \in Active : p \notin {Unborn, Root, Finished} /\ p \notin DeletePlaces
  /\ \A p \in DeletePlaces : p \notin {Unborn, Root, Finished} /\ p \notin Fresh
  /\ \A p \in Fresh : p \notin Holding /\ p \notin {Unborn, Finished, ExitDone}
  /\ \A p \in Holding : p # User
  /\ Unborn # Root /\ Unborn # Finished /\ Root # Finished
<1>1. \A p \in Active : p[1] \in {"user", "exitDone", "fork", "forked", "exitAcquire", "exitRecord",
        "joinAcquire", "joinTest", "joinYield", "joinOver", "joinReadAcquire", "joinRead"}
  <2> SUFFICES ASSUME NEW p \in Active
               PROVE  p[1] \in {"user", "exitDone", "fork", "forked", "exitAcquire", "exitRecord",
                        "joinAcquire", "joinTest", "joinYield", "joinOver", "joinReadAcquire", "joinRead"}
    OBVIOUS
  <2>1. \/ p = User \/ p = ExitDone
        \/ \E u \in Thread : p = Forking(u) \/ p = Forked(u)
        \/ \E s \in ExitStatus : p = ExitLock(s) \/ p = ExitRecord(s)
        \/ \E k \in Kid : p \in {JoinLock(k), JoinTest(k), JoinYield(k), JoinOver(k),
                                JoinReadLock(k), JoinRead(k)}
    BY DEF Active
  <2> QED
    BY <2>1, Tags
<1>2. \A p \in DeletePlaces : p[1] \in {"deleteAcquire", "delete"}
  BY Tags DEF DeletePlaces
<1>3. \A p \in Fresh : p[1] \in {"ThreadRoot", "user", "fork", "forked"}
  BY Tags DEF Fresh
<1>4. \A p \in Holding : p[1] \in {"exitRecord", "joinTest", "joinRead", "delete"}
  <2> SUFFICES ASSUME NEW p \in Holding
               PROVE  p[1] \in {"exitRecord", "joinTest", "joinRead", "delete"}
    OBVIOUS
  <2>1. \/ \E s \in ExitStatus : p = ExitRecord(s)
        \/ \E k \in Kid : p = JoinTest(k) \/ p = JoinRead(k)
        \/ \E v \in Thread : p = Deleting(v)
    BY DEF Holding
  <2> QED
    BY <2>1, Tags
<1>5. \A p \in Active : p \notin {Unborn, Root, Finished} /\ p \notin DeletePlaces
  BY <1>1, <1>2, Tags
<1>6. \A p \in DeletePlaces : p \notin {Unborn, Root, Finished} /\ p \notin Fresh
  BY <1>2, <1>3, Tags
<1>7. \A p \in Fresh : p \notin Holding /\ p \notin {Unborn, Finished, ExitDone}
  BY <1>3, <1>4, Tags
<1>8. \A p \in Holding : p # User
  BY <1>4, Tags
<1> QED
  BY <1>5, <1>6, <1>7, <1>8, Tags

\* ReadyToRun never yields: all threads have the same priority.
LEMMA NeverPreempts ==
  ASSUME SchedTypeOK, NEW t \in Thread
  PROVE  ~Preempts(t)
BY SchedulerAssumption, ThreadLifeAssumption
   DEF Preempts, SchedTypeOK, RoundRobbin, Priority

\* c has given the processor away: nobody can run, or another thread is in
\* Run, or starts in ThreadRoot.
GivenAway ==
  /\ currentThread' # c \/ idle'
  /\ idle' => currentThread' = c
  /\ inRun' = (currentThread' # c /\ pc[currentThread'] # Root)

\* Sleep ...
LEMMA SleepEffect ==
  ASSUME SchedTypeOK, Dispatch, ~idle, Sleep, MaybeSwitch
  PROVE  /\ SchedTypeOK' /\ Dispatch' /\ GivenAway /\ policy' = policy
         /\ \A t \in Thread :
              /\ status'[t] = "BLOCKED" <=> status[t] = "BLOCKED" \/ t = c
              /\ status'[t] = "JUST_CREATED" <=> status[t] = "JUST_CREATED"
<1>0. /\ c \in Thread /\ status \in [Thread -> ThreadStatus] /\ readyList \in Seq(Thread)
      /\ status[c] = "RUNNING"
  BY DEF SchedTypeOK, Dispatch, c
<1>1. /\ SchedTypeOK' /\ Dispatch'
      /\ \A t \in Thread : status'[t] = "BLOCKED" <=> status[t] = "BLOCKED" \/ t = c
  BY TypeSleep, SleepBlocks DEF c
<1>2. CASE readyList = <<>>
  <2>1. /\ status' = [status EXCEPT ![c] = "BLOCKED"]
        /\ idle' = TRUE /\ currentThread' = c /\ policy' = policy
    BY <1>2 DEF Sleep, c
  <2>2. GivenAway
    BY <2>1 DEF GivenAway, MaybeSwitch
  <2>3. \A t \in Thread : status'[t] = "JUST_CREATED" <=> status[t] = "JUST_CREATED"
    BY <1>0, <2>1
  <2> QED
    BY <1>1, <2>1, <2>2, <2>3
<1>3. CASE readyList # <<>>
  <2> DEFINE h == Head(readyList)
  <2>1. h \in Thread /\ status[h] = "READY"
    BY <1>0, <1>3, TailOfInjective DEF Dispatch
  <2>2. /\ status' = [status EXCEPT ![c] = "BLOCKED", ![h] = "RUNNING"]
        /\ idle' = FALSE /\ currentThread' = h /\ policy' = policy
    BY <1>3 DEF Sleep, Run, c
  <2> HIDE DEF h
  <2>3. h # c
    BY <1>0, <2>1
  <2>4. GivenAway
    BY <2>2, <2>3 DEF GivenAway, MaybeSwitch
  <2>5. \A t \in Thread : status'[t] = "JUST_CREATED" <=> status[t] = "JUST_CREATED"
    BY <1>0, <2>1, <2>2
  <2> QED
    BY <1>1, <2>2, <2>4, <2>5
<1> QED
  BY <1>2, <1>3

\* ... and Yield give the processor away;
LEMMA YieldEffect ==
  ASSUME SchedTypeOK, Dispatch, ~idle, readyList # <<>>, YieldFrom(readyList, status), MaybeSwitch
  PROVE  /\ SchedTypeOK' /\ Dispatch' /\ GivenAway /\ policy' = policy /\ ~idle'
         /\ \A t \in Thread :
              /\ status'[t] = "BLOCKED" <=> status[t] = "BLOCKED"
              /\ status'[t] = "JUST_CREATED" <=> status[t] = "JUST_CREATED"
<1> DEFINE h == Head(readyList)
<1>0. /\ c \in Thread /\ status \in [Thread -> ThreadStatus] /\ readyList \in Seq(Thread)
      /\ status[c] = "RUNNING"
  BY DEF SchedTypeOK, Dispatch, c
<1>1. SchedTypeOK'
  BY <1>0, TypeYield
<1>2. Dispatch' /\ \A t \in Thread : status'[t] = "BLOCKED" <=> status[t] = "BLOCKED"
  BY <1>0, YieldDispatches DEF Dispatch, c
<1>3. h \in Thread /\ status[h] = "READY"
  BY <1>0, TailOfInjective DEF Dispatch
<1>4. /\ status' = [status EXCEPT ![c] = "READY", ![h] = "RUNNING"]
      /\ idle' = FALSE /\ currentThread' = h /\ policy' = policy
  BY DEF YieldFrom, c
<1> HIDE DEF h
<1>5. h # c
  BY <1>0, <1>3
<1>6. GivenAway
  BY <1>4, <1>5 DEF GivenAway, MaybeSwitch
<1>7. \A t \in Thread : status'[t] = "JUST_CREATED" <=> status[t] = "JUST_CREATED"
  BY <1>0, <1>3, <1>4
<1> QED
  BY <1>1, <1>2, <1>4, <1>6, <1>7

\* ReadyToRun changes the status of the thread it readies only.
LEMMA ReadyEffect ==
  ASSUME SchedTypeOK, Dispatch, ~idle, NEW h \in Thread, MakeReady(h),
         status[h] \in {"BLOCKED", "JUST_CREATED"}
  PROVE  /\ SchedTypeOK' /\ Dispatch' /\ UNCHANGED <<policy, currentThread, idle>>
         /\ \A t \in Thread :
              /\ status'[t] = "BLOCKED" <=> status[t] = "BLOCKED" /\ t # h
              /\ status'[t] = "JUST_CREATED" <=> status[t] = "JUST_CREATED" /\ t # h
<1>0. /\ c \in Thread /\ status \in [Thread -> ThreadStatus] /\ readyList \in Seq(Thread)
      /\ status[c] = "RUNNING" /\ h # c /\ h \notin Range(readyList)
  BY DEF SchedTypeOK, Dispatch, c
<1>1. SchedTypeOK'
  BY TypeMakeReady
<1>2. /\ status' = [status EXCEPT ![h] = "READY"] /\ readyList' = Queued(readyList, h)
      /\ UNCHANGED <<policy, currentThread, idle>>
  BY DEF MakeReady
<1>3. IsInjective(readyList') /\ Range(readyList') = Range(readyList) \cup {h}
  BY <1>0, <1>2, QueuedProperties DEF Dispatch
<1>4. \A t \in Thread : status'[t] = IF t = h THEN "READY" ELSE status[t]
  BY <1>0, <1>2
<1>5. Range(readyList) \subseteq Thread
  BY <1>0, RangeElements, ElementOfSeq
<1>6. Dispatch'
  BY <1>0, <1>2, <1>3, <1>4, <1>5 DEF Dispatch, c
<1> QED
  BY <1>1, <1>2, <1>4, <1>6

\* The lock is one of the semaphores.
LEMMA LockIsSem == threadLock \in Sem
BY MonitorAssumption, ThreadLifeAssumption

\* What the invariant says of the thread that runs.
LEMMA RunningFacts ==
  ASSUME LifeInv, ~idle
  PROVE  /\ c \in Thread /\ status[c] = "RUNNING" /\ pc[c] \in Places
         /\ pc[c] # Unborn /\ pc[c] # Finished
         /\ \A v \in Thread : pc[c] # DeleteLock(v)
         /\ inRun => pc[c] \in Active
         /\ pc[c] \notin DeletePlaces => saved[c] = <<>>
<1>1. /\ c \in Thread /\ status[c] = "RUNNING" /\ pc \in [Thread -> Places]
  BY DEF LifeInv, LifeTypeOK, SchedTypeOK, SemTypeOK, Lists, Dispatch, c
<1>2. pc[c] \in Places /\ pc[c] # Unborn /\ pc[c] # Finished
  BY <1>1 DEF LifeInv, Lists
<1>3. \A v \in Thread : pc[c] # DeleteLock(v)
  BY <1>1 DEF LifeInv, Destruction
<1>4. ASSUME inRun PROVE pc[c] \in Active
  <2>1. pc[c] # Root
    BY <1>4 DEF LifeInv, Lists
  <2>2. \A v \in Thread : pc[c] # Deleting(v)
    BY <1>1, <1>4 DEF LifeInv, Destruction
  <2> QED
    BY <1>2, <1>3, <2>1, <2>2 DEF Places, DeletePlaces
<1>5. pc[c] \notin DeletePlaces => saved[c] = <<>>
  BY <1>1 DEF LifeInv, Destruction
<1> QED
  BY <1>1, <1>2, <1>3, <1>4, <1>5
-----------------------------------------------------------------------------
(***************************************************************************)
(* The lists, when the running thread goes on at p.                        *)
(***************************************************************************)

\* A step that does not touch the scheduler.
LEMMA ListsStay ==
  ASSUME LifeInv, ~idle, NEW p, p # Unborn, p # Finished, pc' = [pc EXCEPT ![c] = p],
         UNCHANGED <<schedVars, queue>>, inRun' = FALSE
  PROVE  Lists' /\ SchedTypeOK'
<1>0. c \in Thread /\ status[c] = "RUNNING" /\ pc \in [Thread -> Places]
  BY RunningFacts DEF LifeInv, LifeTypeOK, SemTypeOK
<1>1. SchedTypeOK'
  BY DEF LifeInv, LifeTypeOK, SchedTypeOK, schedVars
<1>2. Dispatch'
  BY DEF LifeInv, Lists, Dispatch, schedVars
<1>3. UNCHANGED <<currentThread, status, idle>>
  BY DEF schedVars
<1>4. \A t \in Thread : pc'[t] = IF t = c THEN p ELSE pc[t]
  BY <1>0
<1>5. Range(queue[threadLock]) \subseteq Thread
  <2>1. queue[threadLock] \in Seq(Thread)
    BY LockIsSem DEF LifeInv, LifeTypeOK, SemTypeOK
  <2> QED
    BY <2>1, RangeElements, ElementOfSeq
<1>6. \A t \in Range(queue'[threadLock]) : status'[t] = "BLOCKED" /\ pc'[t] # Finished
  BY <1>3, <1>4, <1>5 DEF LifeInv, Lists
<1>7. \A t \in Thread :
        /\ pc'[t] = Unborn => status'[t] = "JUST_CREATED"
        /\ status'[t] = "JUST_CREATED" => pc'[t] \in {Unborn, Root}
        /\ pc'[t] = Finished => status'[t] = "BLOCKED"
  BY <1>0, <1>3, <1>4 DEF LifeInv, Lists
<1> QED
  BY <1>1, <1>2, <1>3, <1>6, <1>7 DEF LifeInv, Lists

\* P that goes to sleep.
LEMMA ListsSleep ==
  ASSUME LifeInv, ~idle, NEW p, p # Unborn, p # Finished, pc' = [pc EXCEPT ![c] = p],
         queue' = [queue EXCEPT ![threadLock] = Append(@, currentThread)], Sleep, MaybeSwitch
  PROVE  /\ Lists' /\ SchedTypeOK' /\ GivenAway /\ policy' = policy
         /\ queue' \in [Sem -> Seq(Thread)]
         /\ \A t \in Thread :
              /\ status'[t] = "BLOCKED" <=> status[t] = "BLOCKED" \/ t = c
              /\ status'[t] = "JUST_CREATED" <=> status[t] = "JUST_CREATED"
<1> DEFINE L == threadLock
<1>0. /\ c \in Thread /\ status[c] = "RUNNING" /\ pc \in [Thread -> Places] /\ L \in Sem
      /\ queue \in [Sem -> Seq(Thread)] /\ queue[L] \in Seq(Thread)
      /\ SchedTypeOK /\ Dispatch
  BY RunningFacts, LockIsSem DEF LifeInv, LifeTypeOK, SemTypeOK, Lists
<1>1. /\ SchedTypeOK' /\ Dispatch' /\ GivenAway /\ policy' = policy
      /\ \A t \in Thread :
           /\ status'[t] = "BLOCKED" <=> status[t] = "BLOCKED" \/ t = c
           /\ status'[t] = "JUST_CREATED" <=> status[t] = "JUST_CREATED"
  BY <1>0, SleepEffect
<1>2. queue'[L] = Append(queue[L], c)
  BY <1>0 DEF c
<1>3. Range(queue[L]) \subseteq Thread
  BY <1>0, RangeElements, ElementOfSeq
<1>4. c \notin Range(queue[L]) /\ IsInjective(queue[L])
  BY <1>0 DEF LifeInv, Lists
<1>5. IsInjective(queue'[L]) /\ Range(queue'[L]) = Range(queue[L]) \cup {c}
  BY <1>0, <1>2, <1>4, AppendOnce
<1>6. \A t \in Thread : pc'[t] = IF t = c THEN p ELSE pc[t]
  BY <1>0
<1>7. \A t \in Range(queue'[L]) : status'[t] = "BLOCKED" /\ pc'[t] # Finished
  BY <1>0, <1>1, <1>3, <1>5, <1>6 DEF LifeInv, Lists
<1>8. \A t \in Thread :
        /\ pc'[t] = Unborn => status'[t] = "JUST_CREATED"
        /\ status'[t] = "JUST_CREATED" => pc'[t] \in {Unborn, Root}
        /\ pc'[t] = Finished => status'[t] = "BLOCKED"
  BY <1>0, <1>1, <1>6 DEF LifeInv, Lists
<1>9. (idle' => ~inRun') /\ (inRun' => pc'[currentThread'] # Root)
  <2>1. currentThread' \in Thread
    BY <1>1 DEF SchedTypeOK
  <2> QED
    BY <1>1, <1>6, <2>1 DEF GivenAway
<1>10. queue' \in [Sem -> Seq(Thread)]
  BY <1>0, AppendProperties DEF c
<1> QED
  BY <1>1, <1>5, <1>7, <1>8, <1>9, <1>10 DEF Lists, c

\* Yield.
LEMMA ListsYield ==
  ASSUME LifeInv, ~idle, NEW p, p # Unborn, p # Finished, pc' = [pc EXCEPT ![c] = p],
         queue' = queue, readyList # <<>>, YieldFrom(readyList, status), MaybeSwitch
  PROVE  /\ Lists' /\ SchedTypeOK' /\ GivenAway /\ policy' = policy
         /\ \A t \in Thread :
              /\ status'[t] = "BLOCKED" <=> status[t] = "BLOCKED"
              /\ status'[t] = "JUST_CREATED" <=> status[t] = "JUST_CREATED"
<1>0. /\ c \in Thread /\ status[c] = "RUNNING" /\ pc \in [Thread -> Places]
      /\ queue[threadLock] \in Seq(Thread) /\ SchedTypeOK /\ Dispatch
  BY RunningFacts, LockIsSem DEF LifeInv, LifeTypeOK, SemTypeOK, Lists
<1>1. /\ SchedTypeOK' /\ Dispatch' /\ GivenAway /\ policy' = policy
      /\ \A t \in Thread :
           /\ status'[t] = "BLOCKED" <=> status[t] = "BLOCKED"
           /\ status'[t] = "JUST_CREATED" <=> status[t] = "JUST_CREATED"
  BY <1>0, YieldEffect
<1>3. Range(queue[threadLock]) \subseteq Thread
  BY <1>0, RangeElements, ElementOfSeq
<1>6. \A t \in Thread : pc'[t] = IF t = c THEN p ELSE pc[t]
  BY <1>0
<1>7. \A t \in Range(queue'[threadLock]) : status'[t] = "BLOCKED" /\ pc'[t] # Finished
  BY <1>0, <1>1, <1>3, <1>6 DEF LifeInv, Lists
<1>8. \A t \in Thread :
        /\ pc'[t] = Unborn => status'[t] = "JUST_CREATED"
        /\ status'[t] = "JUST_CREATED" => pc'[t] \in {Unborn, Root}
        /\ pc'[t] = Finished => status'[t] = "BLOCKED"
  BY <1>0, <1>1, <1>6 DEF LifeInv, Lists
<1>9. (idle' => ~inRun') /\ (inRun' => pc'[currentThread'] # Root)
  <2>1. currentThread' \in Thread
    BY <1>1 DEF SchedTypeOK
  <2> QED
    BY <1>1, <1>6, <2>1 DEF GivenAway
<1> QED
  BY <1>1, <1>7, <1>8, <1>9 DEF Lists, LifeInv, c

\* V: the first waiter, if there is one, becomes ready.
LEMMA ListsV ==
  ASSUME LifeInv, ~idle, NEW p, p # Unborn, p # Finished, V(threadLock, p, p), MaybeSwitch
  PROVE  /\ Lists' /\ SchedTypeOK' /\ queue' \in [Sem -> Seq(Thread)]
         /\ pc' = [pc EXCEPT ![c] = p]
         /\ value' = [value EXCEPT ![threadLock] = value[threadLock] + 1]
         /\ UNCHANGED <<policy, currentThread, idle>> /\ inRun' = FALSE
         /\ \A t \in Thread : status'[t] = "JUST_CREATED" <=> status[t] = "JUST_CREATED"
<1> DEFINE L == threadLock
<1>0. /\ c \in Thread /\ status[c] = "RUNNING" /\ pc \in [Thread -> Places] /\ L \in Sem
      /\ queue \in [Sem -> Seq(Thread)] /\ queue[L] \in Seq(Thread)
      /\ SchedTypeOK /\ Dispatch
  BY RunningFacts, LockIsSem DEF LifeInv, LifeTypeOK, SemTypeOK, Lists
<1>1. CASE queue[L] = <<>>
  <2>1. /\ value' = [value EXCEPT ![L] = value[L] + 1] /\ pc' = [pc EXCEPT ![c] = p]
        /\ UNCHANGED <<queue, schedVars>>
    BY <1>1 DEF V, Increment, Goto, c
  <2>2. UNCHANGED <<policy, currentThread, idle, status>>
    BY <2>1 DEF schedVars
  <2>3. inRun' = FALSE
    BY <2>2 DEF MaybeSwitch, c
  <2> QED
    BY <1>0, <2>1, <2>2, <2>3, ListsStay
<1>2. CASE queue[L] # <<>>
  <2> DEFINE h == Head(queue[L])
  <2>1. /\ h \in Thread /\ h \in Range(queue[L]) /\ Tail(queue[L]) \in Seq(Thread)
        /\ IsInjective(Tail(queue[L])) /\ Range(Tail(queue[L])) = Range(queue[L]) \ {h}
    BY <1>0, <1>2, TailOfInjective DEF LifeInv, Lists
  <2>2. ~Preempts(h)
    BY <1>0, <2>1, NeverPreempts
  <2>3. /\ value' = [value EXCEPT ![L] = value[L] + 1] /\ pc' = [pc EXCEPT ![c] = p]
        /\ queue' = [queue EXCEPT ![L] = Tail(queue[L])] /\ MakeReady(h)
    BY <1>2, <2>2 DEF V, Increment, Goto, c
  <2> HIDE DEF h
  <2>4. status[h] = "BLOCKED" /\ pc[h] # Finished
    BY <2>1 DEF LifeInv, Lists
  <2>5. /\ SchedTypeOK' /\ Dispatch' /\ UNCHANGED <<policy, currentThread, idle>>
        /\ \A t \in Thread :
             /\ status'[t] = "BLOCKED" <=> status[t] = "BLOCKED" /\ t # h
             /\ status'[t] = "JUST_CREATED" <=> status[t] = "JUST_CREATED" /\ t # h
    BY <1>0, <2>1, <2>3, <2>4, ReadyEffect
  <2>6. inRun' = FALSE
    BY <2>5 DEF MaybeSwitch, c
  <2>7. queue'[L] = Tail(queue[L]) /\ queue' \in [Sem -> Seq(Thread)]
    BY <1>0, <2>1, <2>3
  <2>8. Range(queue[L]) \subseteq Thread
    BY <1>0, RangeElements, ElementOfSeq
  <2>9. \A t \in Thread : pc'[t] = IF t = c THEN p ELSE pc[t]
    BY <1>0, <2>3
  <2>10. \A t \in Range(queue'[L]) : status'[t] = "BLOCKED" /\ pc'[t] # Finished
    BY <1>0, <2>1, <2>5, <2>7, <2>8, <2>9 DEF LifeInv, Lists
  <2>11. \A t \in Thread :
          /\ pc'[t] = Unborn => status'[t] = "JUST_CREATED"
          /\ status'[t] = "JUST_CREATED" => pc'[t] \in {Unborn, Root}
          /\ pc'[t] = Finished => status'[t] = "BLOCKED"
    BY <1>0, <2>4, <2>5, <2>9 DEF LifeInv, Lists
  <2>12. Lists'
    BY <2>1, <2>5, <2>6, <2>7, <2>10, <2>11 DEF Lists
  <2>13. \A t \in Thread : status'[t] = "JUST_CREATED" <=> status[t] = "JUST_CREATED"
    BY <2>4, <2>5
  <2> QED
    BY <2>3, <2>5, <2>6, <2>7, <2>12, <2>13
<1> QED
  BY <1>1, <1>2
-----------------------------------------------------------------------------
(***************************************************************************)
(* The other parts of the invariant, when the running thread goes on at p. *)
(***************************************************************************)

\* Outside the destructor a thread is where its pc says.
LEMMA UnderMoved ==
  ASSUME LifeInv, ~idle, pc[c] \notin DeletePlaces, NEW p, pc' = [pc EXCEPT ![c] = p],
         saved' = saved
  PROVE  /\ \A t \in Thread : pc'[t] = IF t = c THEN p ELSE pc[t]
         /\ \A t \in Thread : Under(t)' = IF t = c THEN p ELSE Under(t)
         /\ Under(c) = pc[c]
<1>0. c \in Thread /\ pc \in [Thread -> Places] /\ saved[c] = <<>>
  BY RunningFacts DEF LifeInv, LifeTypeOK, SemTypeOK
<1>1. \A t \in Thread : pc'[t] = IF t = c THEN p ELSE pc[t]
  BY <1>0
<1> QED
  BY <1>0, <1>1 DEF Under

\* Only Exec changes what is known of the threads that are being forked.
LEMMA ForksKept ==
  ASSUME Forks,
         \A t \in Thread : status[t] = "JUST_CREATED" => status'[t] = "JUST_CREATED" /\ pc'[t] = pc[t],
         \A t \in Thread : pc[t] # Unborn => pc'[t] # Unborn,
         \A t, u \in Thread : Under(t)' \in {Forking(u), Forked(u)} => Under(t)' = Under(t)
  PROVE  Forks'
BY DEF Forks

\* The table of ids stays, and so do the threads it has.
LEMMA IdsKept ==
  ASSUME LifeInv, SchedTypeOK', Lists', idle' => currentThread' = c,
         UNCHANGED <<allocated, tid, used_TID, Thread_Pointer>>,
         \A t \in Thread : pc'[t] = Unborn <=> pc[t] = Unborn,
         \A t \in Thread : pc[t] = Finished => pc'[t] = Finished
  PROVE  Ids'
<1>1. \A t \in Thread :
        /\ pc'[t] # Unborn /\ pc'[t] # Finished => t \in allocated'
        /\ pc'[t] # Unborn => tid'[t] \in TID
  BY DEF LifeInv, Ids
<1>2. \A t \in allocated' :
        pc'[t] # Unborn /\ used_TID'[tid'[t]] /\ Thread_Pointer'[tid'[t]] = t
  BY DEF LifeInv, LifeTypeOK, Ids
<1>3. currentThread' \in allocated'
  <2>1. CASE idle'
    BY <2>1 DEF LifeInv, Ids, c
  <2>2. CASE ~idle'
    <3>1. currentThread' \in Thread /\ status'[currentThread'] = "RUNNING"
      BY <2>2 DEF SchedTypeOK, Lists, Dispatch
    <3>2. pc'[currentThread'] # Unborn /\ pc'[currentThread'] # Finished
      BY <3>1 DEF Lists
    <3> QED
      BY <1>1, <3>1, <3>2
  <2> QED
    BY <2>1, <2>2
<1> QED
  BY <1>1, <1>2, <1>3 DEF Ids, c

\* A step that reports no exit status keeps what is known of them.
LEMMA ExitsKept ==
  ASSUME LifeInv, NEW p, UNCHANGED <<kids, tid, Thread_Pointer, joined, exited, end_state>>,
         \A t \in Thread : pc[t] # Unborn => pc'[t] # Unborn,
         \A t \in Thread : pc[t] = Finished => pc'[t] = Finished,
         \A t \in Thread : Under(t)' = IF t = c THEN p ELSE Under(t),
         \A k \in Kid : p \in {JoinOver(k), JoinReadLock(k), JoinRead(k)} => pc[k.thread] = Finished,
         \A s \in ExitStatus : p \in {ExitLock(s), ExitRecord(s)} => exited[c] = {s},
         p \in {ExitDone, Finished} /\ Thread_Pointer[tid[c]] = c => exited[c] = {end_state[tid[c]]}
  PROVE  Exits'
<1>0. \A k \in Kid : k.thread \in Thread
  BY DEF Kid
<1>1. \A t \in Thread : \A k \in kids'[t] : pc'[k.thread] # Unborn /\ tid'[k.thread] = k.id
  <2>1. \A t \in Thread : \A k \in kids[t] : k \in Kid
    BY DEF LifeInv, LifeTypeOK
  <2> QED
    BY <1>0, <2>1 DEF LifeInv, Exits
<1>2. \A t \in Thread, k \in Kid :
        Under(t)' \in {JoinOver(k), JoinReadLock(k), JoinRead(k)} => pc'[k.thread] = Finished
  BY <1>0 DEF LifeInv, Exits
<1>3. \A t \in Thread, s \in ExitStatus :
        Under(t)' \in {ExitLock(s), ExitRecord(s)} => exited'[t] = {s}
  BY DEF LifeInv, Exits
<1>4. \A t \in Thread :
        Under(t)' \in {ExitDone, Finished} /\ Thread_Pointer'[tid'[t]] = t
          => exited'[t] = {end_state'[tid'[t]]}
  BY DEF LifeInv, Exits
<1>5. \A j \in joined' : ~j.reused => pc'[j.thread] = Finished /\ exited'[j.thread] = {j.status}
  BY DEF LifeInv, LifeTypeOK, Exits
<1> QED
  BY <1>1, <1>2, <1>3, <1>4, <1>5 DEF Exits

\* Destructors, when c is not in one.
LEMMA DestructionMoved ==
  ASSUME LifeInv, ~idle, ~inRun, pc[c] \notin DeletePlaces, NEW p \in Active,
         pc' = [pc EXCEPT ![c] = p], UNCHANGED <<saved, threadToBeDestroyed, allocated>>,
         pc[c] \in Fresh /\ value[threadLock] = 0 =>
           /\ value'[threadLock] = 0
           /\ \A t \in Thread : status[t] = "BLOCKED" => status'[t] = "BLOCKED"
           /\ ~idle' /\ ~inRun' => pc'[currentThread'] \in Fresh
  PROVE  Destruction'
<1>0. /\ c \in Thread /\ saved[c] = <<>> /\ pc[c] # Finished
      /\ \A t \in Thread : pc'[t] = IF t = c THEN p ELSE pc[t]
  BY RunningFacts, UnderMoved
<1>1. p \notin DeletePlaces /\ p # Finished
  BY PlacesApart
<1>2. \A t \in Thread : saved'[t] # <<>> <=> pc'[t] \in DeletePlaces
  BY <1>0, <1>1 DEF LifeInv, Destruction
<1>3. \A t, v \in Thread : pc'[t] # Deleting(v)
  <2>1. \A v \in Thread : Deleting(v) \in DeletePlaces
    BY DEF DeletePlaces
  <2> QED
    BY <1>0, <1>1, <2>1 DEF LifeInv, Destruction
<1>4. threadToBeDestroyed' # NULL =>
        pc'[threadToBeDestroyed'] = Finished /\ threadToBeDestroyed' \in allocated'
  <2>1. threadToBeDestroyed # NULL => threadToBeDestroyed \in Thread
    BY DEF LifeInv, LifeTypeOK
  <2> QED
    BY <1>0, <2>1 DEF LifeInv, Destruction
<1>5. ASSUME NEW t \in Thread, NEW v \in Thread, pc'[t] = DeleteLock(v)
      PROVE  /\ status'[t] = "BLOCKED"
             /\ value'[threadLock] = 0
             /\ threadToBeDestroyed' # NULL
             /\ ~idle' /\ ~inRun' => pc'[currentThread'] \in Fresh
  <2>1. DeleteLock(v) \in DeletePlaces
    BY DEF DeletePlaces
  <2>2. pc[t] = DeleteLock(v)
    BY <1>0, <1>1, <1>5, <2>1
  <2>3. /\ status[t] = "BLOCKED" /\ value[threadLock] = 0 /\ threadToBeDestroyed # NULL
        /\ pc[c] \in Fresh
    BY <2>2 DEF LifeInv, Destruction
  <2> QED
    BY <2>3
<1> QED
  BY <1>2, <1>3, <1>4, <1>5 DEF Destruction, c

\* After a switch the next thread starts, or comes out of SWITCH.
LEMMA GivenAwayFresh ==
  ASSUME SchedTypeOK', GivenAway, NEW p, pc \in [Thread -> Places], pc' = [pc EXCEPT ![c] = p]
  PROVE  /\ ~idle' /\ ~inRun' => pc'[currentThread'] \in Fresh
         /\ idle' => currentThread' = c
<1>1. currentThread' \in Thread
  BY DEF SchedTypeOK
<1>2. ~idle' /\ ~inRun' => currentThread' # c /\ pc[currentThread'] = Root
  BY DEF GivenAway
<1>3. Root \in Fresh
  BY DEF Fresh
<1>4. ~idle' /\ ~inRun' => pc'[currentThread'] = pc[currentThread']
  BY <1>1, <1>2
<1> QED
  BY <1>2, <1>3, <1>4 DEF GivenAway

\* Without a timer: a step that keeps the processor ...
LEMMA TimerlessStay ==
  ASSUME LifeInv, ~idle, NEW p, pc' = [pc EXCEPT ![c] = p],
         UNCHANGED <<policy, currentThread, idle>>, inRun' = FALSE,
         saved' = saved, \A v \in Thread : p # DeleteLock(v) /\ p # Forking(v) /\ p # Forked(v),
         ~Timer /\ value'[threadLock] = 0 => p \in Holding
  PROVE  Timerless'
<1>0. c \in Thread /\ \A t \in Thread : pc'[t] = IF t = c THEN p ELSE pc[t]
  BY RunningFacts DEF LifeInv, LifeTypeOK, SemTypeOK
<1> SUFFICES ASSUME ~Timer
             PROVE  /\ value'[threadLock] = 0 => pc'[c] \in Holding
                    /\ \A t, v \in Thread : pc'[t] # DeleteLock(v)
                    /\ \A t, u \in Thread : pc'[t] \notin {Forking(u), Forked(u)}
  BY DEF LifeInv, Timerless, Timer, c
<1>1. /\ \A t, v \in Thread : pc[t] # DeleteLock(v)
      /\ \A t, u \in Thread : pc[t] \in {Forking(u), Forked(u)} => t = c
  BY DEF LifeInv, Timerless
<1> QED
  BY <1>0, <1>1

\* ... and one that gives it away.
LEMMA TimerlessGiven ==
  ASSUME LifeInv, ~idle, NEW p, pc' = [pc EXCEPT ![c] = p], policy' = policy, saved' = saved,
         ~Timer => /\ value'[threadLock] # 0
                   /\ \A v \in Thread : p # DeleteLock(v) /\ p # Forking(v) /\ p # Forked(v)
  PROVE  Timerless'
<1>0. c \in Thread /\ \A t \in Thread : pc'[t] = IF t = c THEN p ELSE pc[t]
  BY RunningFacts DEF LifeInv, LifeTypeOK, SemTypeOK
<1> SUFFICES ASSUME ~Timer
             PROVE  /\ value'[threadLock] # 0
                    /\ \A t, v \in Thread : pc'[t] # DeleteLock(v)
                    /\ \A t, u \in Thread : pc'[t] \notin {Forking(u), Forked(u)}
  BY DEF LifeInv, Timerless, Timer
<1>1. /\ \A t, v \in Thread : pc[t] # DeleteLock(v)
      /\ \A t, u \in Thread : pc[t] \in {Forking(u), Forked(u)} => t = c
  BY DEF LifeInv, Timerless
<1> QED
  BY <1>0, <1>1
-----------------------------------------------------------------------------
(***************************************************************************)
(* The kinds of steps outside the destructor.                              *)
(***************************************************************************)

Core == SchedTypeOK /\ SemTypeOK(Places) /\ Lists /\ Forks /\ Destruction /\ Timerless

\* p is a place that a thread reaches outside Exec.
Elsewhere(p) == p \in Active /\ \A u \in Thread : p # Forking(u) /\ p # Forked(u)

\* The places after Exec, and the threads that are being forked.
LEMMA ForksMoved ==
  ASSUME LifeInv, ~idle, pc[c] \notin DeletePlaces, NEW p \in Active,
         Elsewhere(p) \/ p = pc[c], pc' = [pc EXCEPT ![c] = p], saved' = saved,
         \A t \in Thread : status[t] = "JUST_CREATED" => status'[t] = "JUST_CREATED"
  PROVE  /\ Forks'
         /\ \A t \in Thread : pc'[t] = Unborn <=> pc[t] = Unborn
         /\ \A t \in Thread : pc'[t] = Finished <=> pc[t] = Finished
         /\ \A t \in Thread : Under(t)' = IF t = c THEN p ELSE Under(t)
<1>0. /\ c \in Thread /\ status[c] = "RUNNING" /\ pc[c] # Unborn /\ pc[c] # Finished
      /\ p # Unborn /\ p # Finished /\ Forks
  BY RunningFacts, PlacesApart DEF LifeInv
<1>1. /\ \A t \in Thread : pc'[t] = IF t = c THEN p ELSE pc[t]
      /\ \A t \in Thread : Under(t)' = IF t = c THEN p ELSE Under(t)
      /\ Under(c) = pc[c]
  BY UnderMoved
<1>2. \A t \in Thread : status[t] = "JUST_CREATED" => status'[t] = "JUST_CREATED" /\ pc'[t] = pc[t]
  BY <1>0, <1>1
<1>3. \A t, u \in Thread : Under(t)' \in {Forking(u), Forked(u)} => Under(t)' = Under(t)
  BY <1>0, <1>1 DEF Elsewhere
<1>4. \A t \in Thread : pc[t] # Unborn => pc'[t] # Unborn
  BY <1>0, <1>1
<1>5. Forks'
  BY <1>0, <1>2, <1>3, <1>4, ForksKept
<1> QED
  BY <1>0, <1>1, <1>5

\* A step that keeps the processor, and may take threadLock.
LEMMA StayMove ==
  ASSUME LifeInv, ~idle, ~inRun, pc[c] \notin DeletePlaces, NEW p, Elsewhere(p),
         pc' = [pc EXCEPT ![c] = p], value' \in [Sem -> Nat], inRun' = FALSE,
         UNCHANGED <<schedVars, queue, saved, threadToBeDestroyed, allocated>>,
         \/ value' = value /\ pc[c] \notin Holding /\ (pc[c] \in Fresh => p \in Fresh)
         \/ value[threadLock] # 0 /\ p \in Holding
  PROVE  Core'
<1>0. /\ p \in Active /\ p \in Places /\ p # Unborn /\ p # Finished /\ p \notin DeletePlaces
      /\ pc \in [Thread -> Places] /\ queue \in [Sem -> Seq(Thread)]
      /\ c \in Thread /\ \A t \in Thread : pc'[t] = IF t = c THEN p ELSE pc[t]
  BY PlacesApart, RunningFacts DEF Elsewhere, Places, LifeInv, LifeTypeOK, SemTypeOK
<1>1. UNCHANGED <<policy, currentThread, status, idle>>
  BY DEF schedVars
<1>2. Lists' /\ SchedTypeOK'
  BY <1>0, ListsStay
<1>3. SemTypeOK(Places)'
  BY <1>0 DEF SemTypeOK
<1>4. Forks'
  BY <1>0, <1>1, ForksMoved
<1>5. Destruction'
  <2>1. pc'[currentThread'] = p
    BY <1>0, <1>1 DEF c
  <2> QED
    BY <1>0, <1>1, <2>1, DestructionMoved
<1>6. Timerless'
  <2>1. \A v \in Thread : p # DeleteLock(v) /\ p # Forking(v) /\ p # Forked(v)
    BY <1>0 DEF Elsewhere, DeletePlaces
  <2>2. ~Timer /\ value'[threadLock] = 0 => p \in Holding
    BY DEF LifeInv, Timerless
  <2> QED
    BY <1>1, <2>1, <2>2, TimerlessStay
<1> QED
  BY <1>2, <1>3, <1>4, <1>5, <1>6 DEF Core

\* A step that yields.
LEMMA YieldMove ==
  ASSUME LifeInv, ~idle, ~inRun, pc[c] \notin DeletePlaces, NEW p \in Active,
         Elsewhere(p) \/ (p = pc[c] /\ Timer), Timer \/ pc[c] \notin Holding,
         pc' = [pc EXCEPT ![c] = p], readyList # <<>>, YieldFrom(readyList, status), MaybeSwitch,
         UNCHANGED <<value, queue, saved, threadToBeDestroyed, allocated>>
  PROVE  Core' /\ (idle' => currentThread' = c)
<1>0. /\ p \in Places /\ p # Unborn /\ p # Finished /\ p \notin DeletePlaces
      /\ pc \in [Thread -> Places] /\ queue \in [Sem -> Seq(Thread)] /\ value \in [Sem -> Nat]
      /\ c \in Thread
  BY PlacesApart, RunningFacts DEF Places, LifeInv, LifeTypeOK, SemTypeOK
<1>2. /\ Lists' /\ SchedTypeOK' /\ GivenAway /\ policy' = policy
      /\ \A t \in Thread :
           /\ status'[t] = "BLOCKED" <=> status[t] = "BLOCKED"
           /\ status'[t] = "JUST_CREATED" <=> status[t] = "JUST_CREATED"
  BY <1>0, ListsYield
<1>3. SemTypeOK(Places)'
  BY <1>0 DEF SemTypeOK
<1>4. Forks'
  BY <1>0, <1>2, ForksMoved
<1>5. (~idle' /\ ~inRun' => pc'[currentThread'] \in Fresh) /\ (idle' => currentThread' = c)
  BY <1>0, <1>2, GivenAwayFresh
<1>6. Destruction'
  BY <1>0, <1>2, <1>5, DestructionMoved
<1>7. Timerless'
  <2>1. ~Timer => /\ value'[threadLock] # 0
                  /\ \A v \in Thread : p # DeleteLock(v) /\ p # Forking(v) /\ p # Forked(v)
    BY <1>0 DEF LifeInv, Timerless, Elsewhere, DeletePlaces
  <2> QED
    BY <1>2, <2>1, TimerlessGiven
<1> QED
  BY <1>2, <1>3, <1>4, <1>5, <1>6, <1>7 DEF Core

\* A turn of the loop of Acquire.
LEMMA AcquireMove ==
  ASSUME LifeInv, ~idle, ~inRun, pc[c] \in Active, pc[c] \notin Holding,
         NEW wait, Elsewhere(wait), NEW next, Elsewhere(next), next \in Holding,
         Acquire(threadLock, wait, next), MaybeSwitch,
         UNCHANGED <<saved, threadToBeDestroyed, allocated>>
  PROVE  /\ Core' /\ (idle' => currentThread' = c)
         /\ pc' = [pc EXCEPT ![c] = wait] \/ pc' = [pc EXCEPT ![c] = next]
<1> DEFINE L == threadLock
<1>0. /\ wait \in Active /\ wait \in Places /\ wait # Unborn /\ wait # Finished
      /\ wait \notin DeletePlaces /\ pc[c] \notin DeletePlaces
      /\ pc \in [Thread -> Places] /\ queue \in [Sem -> Seq(Thread)] /\ value \in [Sem -> Nat]
      /\ c \in Thread /\ L \in Sem
  BY PlacesApart, RunningFacts, LockIsSem DEF Elsewhere, Places, LifeInv, LifeTypeOK, SemTypeOK
<1>1. CASE value[L] # 0
  <2>1. /\ value' = [value EXCEPT ![L] = value[L] - 1] /\ pc' = [pc EXCEPT ![c] = next]
        /\ UNCHANGED <<queue, schedVars>>
    BY <1>1 DEF Acquire, P, Goto, c
  <2>2. value' \in [Sem -> Nat]
    BY <1>0, <1>1, <2>1
  <2>3. inRun' = FALSE /\ idle' = idle
    BY <2>1 DEF MaybeSwitch, schedVars, c
  <2>4. Core'
    BY <1>0, <1>1, <2>1, <2>2, <2>3, StayMove
  <2> QED
    BY <2>1, <2>3, <2>4
<1>2. CASE value[L] = 0
  <2>1. /\ value' = value /\ pc' = [pc EXCEPT ![c] = wait] /\ Sleep
        /\ queue' = [queue EXCEPT ![L] = Append(@, currentThread)]
    BY <1>2 DEF Acquire, P, Goto, c
  <2>2. /\ Lists' /\ SchedTypeOK' /\ GivenAway /\ policy' = policy
        /\ queue' \in [Sem -> Seq(Thread)]
        /\ \A t \in Thread :
             /\ status'[t] = "BLOCKED" <=> status[t] = "BLOCKED" \/ t = c
             /\ status'[t] = "JUST_CREATED" <=> status[t] = "JUST_CREATED"
    BY <1>0, <2>1, ListsSleep
  <2>3. SemTypeOK(Places)'
    BY <1>0, <2>1, <2>2 DEF SemTypeOK
  <2>4. Forks'
    BY <1>0, <2>1, <2>2, ForksMoved
  <2>5. (~idle' /\ ~inRun' => pc'[currentThread'] \in Fresh) /\ (idle' => currentThread' = c)
    BY <1>0, <2>1, <2>2, GivenAwayFresh
  <2>6. Destruction'
    BY <1>0, <2>1, <2>2, <2>5, DestructionMoved
  <2>7. Timerless'
    <3>1. Timer
      BY <1>2 DEF LifeInv, Timerless
    <3> QED
      BY <2>1, <2>2, <3>1, TimerlessGiven
  <2> QED
    BY <2>1, <2>2, <2>3, <2>4, <2>5, <2>6, <2>7 DEF Core
<1> QED
  BY <1>1, <1>2

\* Release.
LEMMA ReleaseMove ==
  ASSUME LifeInv, ~idle, ~inRun, pc[c] \in Active, pc[c] \in Holding,
         NEW p, Elsewhere(p), Release(threadLock, p, p), MaybeSwitch,
         UNCHANGED <<saved, threadToBeDestroyed, allocated>>
  PROVE  Core' /\ pc' = [pc EXCEPT ![c] = p] /\ UNCHANGED <<currentThread, idle>>
<1> DEFINE L == threadLock
<1>0. /\ p \in Active /\ p \in Places /\ p # Unborn /\ p # Finished
      /\ p \notin DeletePlaces /\ pc[c] \notin DeletePlaces
      /\ pc \in [Thread -> Places] /\ value \in [Sem -> Nat]
      /\ c \in Thread /\ L \in Sem
  BY PlacesApart, RunningFacts, LockIsSem DEF Elsewhere, Places, LifeInv, LifeTypeOK, SemTypeOK
<1>1. V(L, p, p)
  BY DEF Release
<1>2. /\ Lists' /\ SchedTypeOK' /\ queue' \in [Sem -> Seq(Thread)]
      /\ pc' = [pc EXCEPT ![c] = p]
      /\ value' = [value EXCEPT ![L] = value[L] + 1]
      /\ UNCHANGED <<policy, currentThread, idle>> /\ inRun' = FALSE
      /\ \A t \in Thread : status'[t] = "JUST_CREATED" <=> status[t] = "JUST_CREATED"
  BY <1>0, <1>1, ListsV
<1>3. value' \in [Sem -> Nat] /\ value'[L] # 0
  BY <1>0, <1>2
<1>4. SemTypeOK(Places)'
  BY <1>0, <1>2, <1>3 DEF SemTypeOK
<1>5. Forks'
  BY <1>0, <1>2, ForksMoved
<1>6. Destruction'
  <2>1. pc[c] \notin Fresh
    BY PlacesApart
  <2> QED
    BY <1>0, <1>2, <2>1, DestructionMoved
<1>7. Timerless'
  <2>1. \A v \in Thread : p # DeleteLock(v) /\ p # Forking(v) /\ p # Forked(v)
    BY <1>0 DEF Elsewhere, DeletePlaces
  <2> QED
    BY <1>2, <1>3, <2>1, TimerlessStay
<1> QED
  BY <1>2, <1>4, <1>5, <1>6, <1>7 DEF Core
-----------------------------------------------------------------------------
(***************************************************************************)
(* Exec.                                                                   *)
(***************************************************************************)

\* A set of numbers has a least element.
LEMMA LeastElement ==
  ASSUME NEW S, S \subseteq Nat, S # {}
  PROVE  \E i \in S : \A j \in S : i <= j
<1>1. IsWellFoundedOn(OpToRel(<, Nat), Nat)
  BY NatLessThanWellFounded
<1>2. PICK i \in S : \A j \in S : ~ (<<j, i>> \in OpToRel(<, Nat))
  BY <1>1, WFMin
<1>3. \A j \in S : ~ (j < i)
  BY <1>2 DEF OpToRel
<1> QED
  BY <1>3

\* The constructor's search ends at an id that is not used.
LEMMA FirstFreeIsFree ==
  ASSUME FreeTIDs # {}
  PROVE  FirstFree \in TID /\ ~used_TID[FirstFree]
<1>1. FreeTIDs \subseteq Nat
  BY ThreadLifeAssumption DEF FreeTIDs, TID
<1>2. \E i \in FreeTIDs : \A j \in FreeTIDs : i <= j
  BY <1>1, LeastElement
<1>3. FirstFree \in FreeTIDs
  BY <1>2 DEF FirstFree
<1> QED
  BY <1>3 DEF FreeTIDs

\* The constructor: the id it takes is nobody's, and the child stays out of
\* the scheduler's reach until Fork.
LEMMA NewThreadStep ==
  ASSUME LifeInv, NEW u \in Thread, NewThread(u)
  PROVE  LifeInv'
<1>0. /\ ~idle /\ ~inRun /\ pc[c] = User /\ pc[u] = Unborn
      /\ c \in Thread /\ status[c] = "RUNNING" /\ pc \in [Thread -> Places]
      /\ status[u] = "JUST_CREATED" /\ u # c
  BY RunningFacts, Tags DEF NewThread, At, LifeInv, LifeTypeOK, SemTypeOK, Lists
<1>1. PICK i \in TID : i = FirstFree /\ ~used_TID[i]
  BY FirstFreeIsFree DEF NewThread
<1>2. /\ allocated' = allocated \cup {u}
      /\ tid' = [tid EXCEPT ![u] = i]
      /\ used_TID' = [used_TID EXCEPT ![i] = TRUE]
      /\ Thread_Pointer' = [Thread_Pointer EXCEPT ![i] = u]
      /\ pc' = [pc EXCEPT ![c] = Forking(u), ![u] = Root]
      /\ UNCHANGED <<schedVars, value, queue, end_state, threadToBeDestroyed, saved,
                     inRun, kids, exited, joined>>
  BY <1>1 DEF NewThread
<1>3. UNCHANGED <<policy, currentThread, status, readyList, idle>>
  BY <1>2 DEF schedVars
<1>4. \A t \in Thread : pc'[t] = IF t = u THEN Root ELSE IF t = c THEN Forking(u) ELSE pc[t]
  BY <1>0, <1>2
<1>5. saved[c] = <<>> /\ saved[u] = <<>>
  <2>1. User \notin DeletePlaces /\ Unborn \notin DeletePlaces
    BY PlacesApart, Tags DEF Active
  <2> QED
    BY <1>0, <2>1 DEF LifeInv, Destruction
<1>6. \A t \in Thread : Under(t)' = IF t = u THEN Root ELSE IF t = c THEN Forking(u) ELSE Under(t)
  BY <1>0, <1>2, <1>4, <1>5 DEF Under
<1>7. Forking(u) \in Active /\ Forking(u) \in Places /\ Root \in Places /\ Forking(u) \in Fresh
  BY DEF Active, Places, Fresh
<1>8. /\ Forking(u) \notin {Unborn, Root, Finished} /\ Forking(u) \notin DeletePlaces
      /\ Root \notin DeletePlaces /\ Root # Unborn /\ Root # Finished
  <2>1. Root \in Fresh
    BY DEF Fresh
  <2> QED
    BY <1>7, <2>1, PlacesApart
<1>9. LifeTypeOK'
  <2>1. SchedTypeOK'
    BY <1>3 DEF LifeInv, LifeTypeOK, SchedTypeOK
  <2>2. SemTypeOK(Places)'
    BY <1>2, <1>7 DEF LifeInv, LifeTypeOK, SemTypeOK
  <2>3. /\ tid' \in [Thread -> TID \cup {-1}]
        /\ used_TID' \in [TID -> BOOLEAN]
        /\ Thread_Pointer' \in [TID -> Thread \cup {NULL}]
    BY <1>2 DEF LifeInv, LifeTypeOK
  <2> QED
    BY <1>2, <2>1, <2>2, <2>3 DEF LifeInv, LifeTypeOK
<1>10. Lists'
  <2>1. Range(queue[threadLock]) \subseteq Thread
    BY LockIsSem, RangeElements, ElementOfSeq DEF LifeInv, LifeTypeOK, SemTypeOK
  <2>2. \A t \in Range(queue[threadLock]) : pc'[t] # Finished
    BY <1>4, <1>8, <2>1 DEF LifeInv, Lists
  <2>3. Dispatch'
    BY <1>3 DEF LifeInv, Lists, Dispatch
  <2>4. \A t \in Thread :
          /\ pc'[t] = Unborn => status[t] = "JUST_CREATED"
          /\ status[t] = "JUST_CREATED" => pc'[t] \in {Unborn, Root}
          /\ pc'[t] = Finished => status[t] = "BLOCKED"
    BY <1>0, <1>4, <1>8 DEF LifeInv, Lists
  <2> QED
    BY <1>0, <1>2, <1>3, <2>2, <2>3, <2>4 DEF LifeInv, Lists, c
<1>11. Forks'
  <2>1. \A t \in Thread : Under(t) # Forking(u) /\ Under(t) # Forked(u)
    BY <1>0, <1>8 DEF LifeInv, Forks
  <2>2. ASSUME NEW t \in Thread, NEW w \in Thread, Under(t)' = Forking(w)
        PROVE  /\ status[w] = "JUST_CREATED"
               /\ pc'[w] = Root
               /\ \A x \in Thread : Under(x)' = Forking(w) => x = t
    <3>0. t # u /\ Root # Forking(w)
      BY <1>6, <2>2, Tags
    <3>1. CASE w = u
      <4>1. \A x \in Thread : Under(x)' = Forking(w) => x = c
        BY <1>6, <2>1, <3>0, <3>1
      <4> QED
        BY <1>0, <1>4, <2>2, <3>1, <4>1
    <3>2. CASE w # u
      <4>1. Forking(w) # Forking(u)
        BY <3>2, Tags
      <4>2. Under(t) = Forking(w) /\ \A x \in Thread : Under(x)' = Forking(w) => Under(x) = Forking(w)
        BY <1>6, <2>2, <3>0, <4>1
      <4>3. status[w] = "JUST_CREATED" /\ pc[w] = Root /\ w # c
        BY <1>0, <4>2 DEF LifeInv, Forks
      <4> QED
        BY <1>4, <3>2, <4>2, <4>3 DEF LifeInv, Forks
    <3> QED
      BY <3>1, <3>2
  <2>3. ASSUME NEW t \in Thread, NEW w \in Thread, Under(t)' = Forked(w) PROVE pc'[w] # Unborn
    <3>1. Under(t) = Forked(w)
      BY <1>6, <2>3, Tags
    <3> QED
      BY <1>4, <1>8, <3>1 DEF LifeInv, Forks
  <2> QED
    BY <1>3, <2>2, <2>3 DEF Forks
<1>12. Destruction'
  <2>1. \A t \in Thread : saved'[t] # <<>> <=> pc'[t] \in DeletePlaces
    BY <1>2, <1>4, <1>5, <1>8 DEF LifeInv, Destruction
  <2>2. \A v \in Thread : Deleting(v) \in DeletePlaces /\ DeleteLock(v) \in DeletePlaces
    BY DEF DeletePlaces
  <2>3. \A t, v \in Thread : pc'[t] # Deleting(v)
    BY <1>0, <1>4, <1>8, <2>2, Tags DEF LifeInv, Destruction
  <2>4. threadToBeDestroyed # NULL =>
          threadToBeDestroyed \in Thread /\ pc'[threadToBeDestroyed] = Finished
    <3>1. threadToBeDestroyed # NULL =>
            threadToBeDestroyed \in Thread /\ pc[threadToBeDestroyed] = Finished
      BY DEF LifeInv, LifeTypeOK, Destruction
    <3> QED
      BY <1>0, <1>4, <3>1, Tags
  <2>5. \A t, v \in Thread : pc'[t] = DeleteLock(v) => pc[t] = DeleteLock(v)
    BY <1>4, <1>8, <2>2
  <2>6. pc'[c] \in Fresh
    BY <1>0, <1>4, <1>7
  <2> QED
    BY <1>0, <1>2, <1>3, <2>1, <2>3, <2>4, <2>5, <2>6 DEF LifeInv, Destruction, c
<1>13. Ids'
  <2>1. \A t \in allocated : t # u /\ t \in Thread /\ tid[t] # i /\ tid[t] \in TID
    BY <1>0, <1>1 DEF LifeInv, LifeTypeOK, Ids
  <2>2. \A t \in Thread : tid'[t] = IF t = u THEN i ELSE tid[t]
    BY <1>2 DEF LifeInv, LifeTypeOK
  <2>3. \A j \in TID : /\ used_TID'[j] <=> j = i \/ used_TID[j]
                       /\ Thread_Pointer'[j] = IF j = i THEN u ELSE Thread_Pointer[j]
    BY <1>1, <1>2 DEF LifeInv, LifeTypeOK
  <2>4. \A t \in allocated :
          pc'[t] # Unborn /\ used_TID'[tid'[t]] /\ Thread_Pointer'[tid'[t]] = t
    <3> SUFFICES ASSUME NEW t \in allocated
                 PROVE  pc'[t] # Unborn /\ used_TID'[tid'[t]] /\ Thread_Pointer'[tid'[t]] = t
      OBVIOUS
    <3>1. pc[t] # Unborn /\ used_TID[tid[t]] /\ Thread_Pointer[tid[t]] = t
      BY DEF LifeInv, Ids
    <3>2. tid'[t] = tid[t] /\ tid[t] \in TID /\ tid[t] # i
      BY <2>1, <2>2
    <3>3. used_TID'[tid[t]] /\ Thread_Pointer'[tid[t]] = t
      BY <2>3, <3>1, <3>2
    <3>4. pc'[t] # Unborn
      BY <1>4, <1>8, <2>1, <3>1
    <3> QED
      BY <3>2, <3>3, <3>4
  <2>5. pc'[u] # Unborn /\ used_TID'[tid'[u]] /\ Thread_Pointer'[tid'[u]] = u
    BY <1>4, <1>8, <2>2, <2>3
  <2>6. \A t \in Thread :
          /\ pc'[t] # Unborn /\ pc'[t] # Finished => t \in allocated'
          /\ pc'[t] # Unborn => tid'[t] \in TID
    BY <1>0, <1>2, <1>4, <2>2, Tags DEF LifeInv, Ids
  <2> QED
    BY <1>2, <1>3, <2>4, <2>5, <2>6 DEF LifeInv, Ids, c
<1>14. Exits'
  <2>0. \A k \in Kid : k.thread \in Thread
    BY DEF Kid
  <2>1. \A t \in Thread : \A k \in kids[t] : pc'[k.thread] # Unborn /\ tid'[k.thread] = k.id
    <3>1. \A t \in Thread : \A k \in kids[t] :
            k.thread \in Thread /\ k.thread # u /\ pc[k.thread] # Unborn /\ tid[k.thread] = k.id
      BY <1>0, <2>0 DEF LifeInv, LifeTypeOK, Exits
    <3>2. \A t \in Thread : t # u => tid'[t] = tid[t]
      BY <1>2 DEF LifeInv, LifeTypeOK
    <3> QED
      BY <1>4, <1>8, <3>1, <3>2
  <2>2. \A t \in Thread, k \in Kid :
          Under(t)' \in {JoinOver(k), JoinReadLock(k), JoinRead(k)} => pc'[k.thread] = Finished
    <3>1. \A t \in Thread, k \in Kid :
            Under(t)' \in {JoinOver(k), JoinReadLock(k), JoinRead(k)} => pc[k.thread] = Finished
      BY <1>6, Tags DEF LifeInv, Exits
    <3> QED
      BY <1>0, <1>4, <2>0, <3>1, Tags
  <2>3. \A t \in Thread, s \in ExitStatus :
          Under(t)' \in {ExitLock(s), ExitRecord(s)} => exited[t] = {s}
    BY <1>6, Tags DEF LifeInv, Exits
  <2>4. \A t \in Thread :
          Under(t)' \in {ExitDone, Finished} /\ Thread_Pointer'[tid'[t]] = t
            => exited[t] = {end_state[tid'[t]]}
    <3> SUFFICES ASSUME NEW t \in Thread, Under(t)' \in {ExitDone, Finished},
                        Thread_Pointer'[tid'[t]] = t
                 PROVE  exited[t] = {end_state[tid'[t]]}
      OBVIOUS
    <3>1. t # u /\ Under(t) \in {ExitDone, Finished}
      BY <1>6, Tags
    <3>2. tid'[t] = tid[t]
      BY <1>2, <3>1 DEF LifeInv, LifeTypeOK
    <3>3. pc[t] # Unborn
      BY <3>1, <1>5, Tags, PlacesApart DEF LifeInv, Destruction, Under
    <3>4. tid[t] \in TID
      BY <3>3 DEF LifeInv, Ids
    <3>5. Thread_Pointer[tid[t]] = t
      BY <1>1, <1>2, <3>1, <3>2, <3>4 DEF LifeInv, LifeTypeOK
    <3> QED
      BY <3>1, <3>2, <3>5 DEF LifeInv, Exits
  <2>5. \A j \in joined : ~j.reused => pc'[j.thread] = Finished /\ exited[j.thread] = {j.status}
    <3>1. \A j \in joined : ~j.reused => j.thread \in Thread /\ pc[j.thread] = Finished
                                         /\ exited[j.thread] = {j.status}
      BY DEF LifeInv, LifeTypeOK, Exits
    <3> QED
      BY <1>0, <1>4, <3>1, Tags
  <2> QED
    BY <1>2, <2>1, <2>2, <2>3, <2>4, <2>5 DEF Exits
<1>15. Timerless'
  <2> SUFFICES ASSUME ~Timer
               PROVE  /\ value[threadLock] # 0
                      /\ \A t, v \in Thread : pc'[t] # DeleteLock(v)
                      /\ \A t, w \in Thread : pc'[t] \in {Forking(w), Forked(w)} =>
                           t = c /\ pc'[w] = Root
    BY <1>0, <1>2, <1>3 DEF LifeInv, Timerless, Timer, c
  <2>1. /\ value[threadLock] = 0 => pc[c] \in Holding
        /\ \A t, v \in Thread : pc[t] # DeleteLock(v)
        /\ \A t, w \in Thread : pc[t] \in {Forking(w), Forked(w)} => t = c
    BY DEF LifeInv, Timerless
  <2>2. value[threadLock] # 0
    BY <1>0, <2>1, PlacesApart
  <2>3. \A t, v \in Thread : pc'[t] # DeleteLock(v)
    BY <1>4, <2>1, Tags
  <2>4. \A t, w \in Thread : pc'[t] \in {Forking(w), Forked(w)} => t = c /\ w = u
    BY <1>0, <1>4, <2>1, Tags
  <2> QED
    BY <1>4, <2>2, <2>3, <2>4
<1> QED
  BY <1>9, <1>10, <1>11, <1>12, <1>13, <1>14, <1>15 DEF LifeInv

\* Fork readies the child, which nobody else can have readied.
LEMMA ForkStep ==
  ASSUME LifeInv, NEW u \in Thread, Fork(u)
  PROVE  LifeInv'
<1> DEFINE p == Forked(u)
<1>0. /\ ~idle /\ ~inRun /\ pc[c] = Forking(u) /\ c \in Thread /\ status[c] = "RUNNING"
      /\ pc \in [Thread -> Places] /\ SchedTypeOK /\ Dispatch
  BY RunningFacts DEF Fork, At, LifeInv, LifeTypeOK, SemTypeOK, Lists
<1>1. /\ MakeReady(u) /\ pc' = [pc EXCEPT ![c] = p] /\ saved' = saved
      /\ UNCHANGED <<value, queue, lifeVars, inRun>>
  BY DEF Fork, Goto, lifeVars
<1>2. UNCHANGED <<allocated, tid, used_TID, end_state, Thread_Pointer, threadToBeDestroyed,
                  saved, kids, exited, joined, inRun, value, queue>>
  BY <1>1 DEF lifeVars
<1>3. /\ p \in Active /\ p \in Places /\ p \in Fresh /\ p # Unborn /\ p # Finished
      /\ Forking(u) \notin DeletePlaces /\ Forking(u) \notin Holding
  <2>1. p \in Active /\ p \in Places /\ p \in Fresh /\ Forking(u) \in Active /\ Forking(u) \in Fresh
    BY DEF Active, Places, Fresh
  <2> QED
    BY <2>1, PlacesApart
<1>4. /\ \A t \in Thread : pc'[t] = IF t = c THEN p ELSE pc[t]
      /\ \A t \in Thread : Under(t)' = IF t = c THEN p ELSE Under(t)
      /\ Under(c) = Forking(u)
  BY <1>0, <1>1, <1>3, UnderMoved
<1>5. /\ status[u] = "JUST_CREATED" /\ pc[u] = Root
      /\ \A w \in Thread : Under(w) = Forking(u) => w = c
  BY <1>0, <1>4 DEF LifeInv, Forks
<1> HIDE DEF p
<1>6. /\ SchedTypeOK' /\ Dispatch' /\ UNCHANGED <<policy, currentThread, idle>>
      /\ \A t \in Thread :
           /\ status'[t] = "BLOCKED" <=> status[t] = "BLOCKED"
           /\ status'[t] = "JUST_CREATED" <=> status[t] = "JUST_CREATED" /\ t # u
  BY <1>0, <1>1, <1>5, ReadyEffect
<1>7. SemTypeOK(Places)'
  BY <1>1, <1>2, <1>3 DEF LifeInv, LifeTypeOK, SemTypeOK
<1>8. Lists'
  <2>1. Range(queue[threadLock]) \subseteq Thread
    BY LockIsSem, RangeElements, ElementOfSeq DEF LifeInv, LifeTypeOK, SemTypeOK
  <2>2. \A t \in Range(queue[threadLock]) : status'[t] = "BLOCKED" /\ pc'[t] # Finished
    BY <1>3, <1>4, <1>6, <2>1 DEF LifeInv, Lists
  <2>3. \A t \in Thread :
          /\ pc'[t] = Unborn => status'[t] = "JUST_CREATED"
          /\ status'[t] = "JUST_CREATED" => pc'[t] \in {Unborn, Root}
          /\ pc'[t] = Finished => status'[t] = "BLOCKED"
    BY <1>0, <1>3, <1>4, <1>5, <1>6, PlacesApart DEF LifeInv, Lists
  <2> QED
    BY <1>0, <1>2, <1>6, <2>2, <2>3 DEF LifeInv, Lists
<1>9. Forks'
  <2>1. ASSUME NEW t \in Thread, NEW w \in Thread, Under(t)' = Forking(w)
        PROVE  /\ status'[w] = "JUST_CREATED"
               /\ pc'[w] = Root
               /\ \A x \in Thread : Under(x)' = Forking(w) => x = t
    <3>1. t # c /\ Under(t) = Forking(w) /\ p # Forking(w)
      BY <1>4, <2>1, Tags DEF p
    <3>2. w # u
      BY <1>5, <3>1
    <3>3. /\ status[w] = "JUST_CREATED" /\ pc[w] = Root
          /\ \A x \in Thread : Under(x) = Forking(w) => x = t
      BY <3>1 DEF LifeInv, Forks
    <3> QED
      BY <1>0, <1>4, <1>6, <3>1, <3>2, <3>3
  <2>2. ASSUME NEW t \in Thread, NEW w \in Thread, Under(t)' = Forked(w) PROVE pc'[w] # Unborn
    <3>1. CASE t = c
      <4>1. w = u
        BY <1>4, <2>2, <3>1, Tags DEF p
      <4> QED
        BY <1>3, <1>4, <1>5, <4>1, PlacesApart
    <3>2. CASE t # c
      BY <1>3, <1>4, <2>2, <3>2 DEF LifeInv, Forks
    <3> QED
      BY <3>1, <3>2
  <2> QED
    BY <2>1, <2>2 DEF Forks
<1>10. Destruction'
  <2>1. pc'[currentThread'] \in Fresh
    BY <1>0, <1>3, <1>4, <1>6 DEF c
  <2> QED
    BY <1>0, <1>1, <1>2, <1>3, <1>6, <2>1, DestructionMoved
<1>11. Timerless'
  <2> SUFFICES ASSUME ~Timer
               PROVE  /\ value[threadLock] # 0
                      /\ \A t, v \in Thread : pc'[t] # DeleteLock(v)
                      /\ \A t, w \in Thread : pc'[t] \in {Forking(w), Forked(w)} =>
                           t = c /\ pc'[w] = Root
    BY <1>0, <1>2, <1>6 DEF LifeInv, Timerless, Timer, c
  <2>1. /\ value[threadLock] = 0 => pc[c] \in Holding
        /\ \A t, v \in Thread : pc[t] # DeleteLock(v)
        /\ \A t, w \in Thread : pc[t] \in {Forking(w), Forked(w)} => t = c
    BY DEF LifeInv, Timerless
  <2>2. value[threadLock] # 0
    BY <1>0, <1>3, <2>1
  <2>3. \A t, v \in Thread : pc'[t] # DeleteLock(v)
    BY <1>4, <2>1, Tags DEF p
  <2>4. \A t, w \in Thread : pc'[t] \in {Forking(w), Forked(w)} => t = c /\ w = u
    BY <1>0, <1>4, <2>1, Tags DEF p
  <2>5. u # c
    BY <1>0, <1>5
  <2> QED
    BY <1>4, <1>5, <2>2, <2>3, <2>4, <2>5
<1>12. Ids'
  <2>1. \A t \in Thread : pc'[t] = Unborn <=> pc[t] = Unborn
    BY <1>0, <1>3, <1>4, RunningFacts
  <2>2. \A t \in Thread : pc[t] = Finished => pc'[t] = Finished
    BY <1>0, <1>4, RunningFacts
  <2> QED
    BY <1>2, <1>6, <1>8, <2>1, <2>2, IdsKept DEF c
<1>13. Exits'
  <2>1. \A t \in Thread : pc[t] # Unborn => pc'[t] # Unborn
    BY <1>3, <1>4
  <2>2. \A t \in Thread : pc[t] = Finished => pc'[t] = Finished
    BY <1>0, <1>4, RunningFacts
  <2>3. /\ \A k : p \notin {JoinOver(k), JoinReadLock(k), JoinRead(k)}
        /\ \A s : p \notin {ExitLock(s), ExitRecord(s)}
        /\ p \notin {ExitDone, Finished}
    BY Tags DEF p
  <2> QED
    BY <1>2, <1>4, <2>1, <2>2, <2>3, ExitsKept
<1> QED
  BY <1>2, <1>6, <1>7, <1>8, <1>9, <1>10, <1>11, <1>12, <1>13 DEF LifeInv, LifeTypeOK

\* A step outside the destructor that changes none of the tables.
LEMMA PlainStep ==
  ASSUME LifeInv, ~idle, pc[c] \notin DeletePlaces, NEW p \in Active, pc' = [pc EXCEPT ![c] = p],
         Core', idle' => currentThread' = c, inRun' \in BOOLEAN,
         UNCHANGED <<allocated, tid, used_TID, end_state, Thread_Pointer, threadToBeDestroyed,
                     saved, kids, exited, joined>>,
         \A k \in Kid : p \in {JoinOver(k), JoinReadLock(k), JoinRead(k)} => pc[k.thread] = Finished,
         \A s \in ExitStatus : p \in {ExitLock(s), ExitRecord(s)} => exited[c] = {s},
         p = ExitDone /\ Thread_Pointer[tid[c]] = c => exited[c] = {end_state[tid[c]]}
  PROVE  LifeInv'
<1>0. c \in Thread /\ pc[c] # Unborn /\ pc[c] # Finished /\ p # Unborn /\ p # Finished
  BY RunningFacts, PlacesApart
<1>1. /\ \A t \in Thread : pc'[t] = IF t = c THEN p ELSE pc[t]
      /\ \A t \in Thread : Under(t)' = IF t = c THEN p ELSE Under(t)
  BY UnderMoved
<1>2. /\ \A t \in Thread : pc'[t] = Unborn <=> pc[t] = Unborn
      /\ \A t \in Thread : pc[t] = Finished => pc'[t] = Finished
  BY <1>0, <1>1
<1>3. Ids'
  BY <1>2, IdsKept DEF Core
<1>4. Exits'
  BY <1>0, <1>1, <1>2, ExitsKept
<1> QED
  BY <1>3, <1>4 DEF Core, LifeInv, LifeTypeOK

\* Exec returns: the child it tells of has got the id it tells.
LEMMA ExecReturnStep ==
  ASSUME LifeInv, NEW u \in Thread, ExecReturn(u)
  PROVE  LifeInv'
<1> DEFINE kid == [thread |-> u, id |-> tid[u]]
<1>0. /\ ~idle /\ ~inRun /\ pc[c] = Forked(u) /\ c \in Thread /\ Forked(u) \notin DeletePlaces
      /\ Forked(u) \notin Holding
  <2>1. Forked(u) \in Active /\ Forked(u) \in Fresh
    BY DEF Active, Fresh
  <2> QED
    BY <2>1, RunningFacts, PlacesApart DEF ExecReturn, At
<1>1. /\ pc' = [pc EXCEPT ![c] = User] /\ kids' = [kids EXCEPT ![c] = kids[c] \cup {kid}]
      /\ UNCHANGED <<schedVars, value, queue, allocated, tid, used_TID, end_state,
                     Thread_Pointer, threadToBeDestroyed, saved, inRun, exited, joined>>
  BY DEF ExecReturn, Goto
<1>2. Elsewhere(User) /\ User \in Active /\ User \in Fresh /\ User # Unborn /\ User # Finished
  BY Tags DEF Elsewhere, Active, Fresh
<1>3. Core'
  <2>1. value' \in [Sem -> Nat]
    BY <1>1 DEF LifeInv, LifeTypeOK, SemTypeOK
  <2>2. inRun' = FALSE
    BY <1>0, <1>1 DEF LifeInv, LifeTypeOK
  <2> QED
    BY <1>0, <1>1, <1>2, <2>1, <2>2, StayMove
<1>4. /\ \A t \in Thread : pc'[t] = IF t = c THEN User ELSE pc[t]
      /\ \A t \in Thread : Under(t)' = IF t = c THEN User ELSE Under(t)
      /\ Under(c) = Forked(u)
  BY <1>0, <1>1, UnderMoved
<1>5. /\ \A t \in Thread : pc'[t] = Unborn <=> pc[t] = Unborn
      /\ \A t \in Thread : pc[t] = Finished <=> pc'[t] = Finished
  BY <1>0, <1>2, <1>4, RunningFacts
<1>6. Ids'
  <2>1. currentThread' = c
    BY <1>1 DEF schedVars, c
  <2> QED
    BY <1>1, <1>3, <1>5, <2>1, IdsKept DEF Core
<1>7. pc[u] # Unborn /\ kid \in Kid /\ kid.thread = u /\ kid.id = tid[u]
  <2>1. pc[u] # Unborn
    BY <1>0, <1>4 DEF LifeInv, Forks
  <2>2. tid[u] \in TID
    BY <2>1 DEF LifeInv, Ids
  <2> QED
    BY <2>1, <2>2 DEF Kid
<1> HIDE DEF kid
<1>8. kids' \in [Thread -> SUBSET Kid]
  BY <1>1, <1>7 DEF LifeInv, LifeTypeOK
<1>9. Exits'
  <2>0. \A k \in Kid : k.thread \in Thread
    BY DEF Kid
  <2>1. \A t \in Thread : \A k \in kids'[t] : k = kid \/ (k \in Kid /\ k \in kids[t])
    BY <1>0, <1>1 DEF LifeInv, LifeTypeOK
  <2>2. \A t \in Thread : \A k \in kids'[t] : pc'[k.thread] # Unborn /\ tid'[k.thread] = k.id
    BY <1>1, <1>5, <1>7, <2>0, <2>1 DEF LifeInv, Exits
  <2>3. \A t \in Thread, k \in Kid :
          Under(t)' \in {JoinOver(k), JoinReadLock(k), JoinRead(k)} => pc'[k.thread] = Finished
    BY <1>4, <1>5, <2>0, Tags DEF LifeInv, Exits
  <2>4. \A t \in Thread, s \in ExitStatus :
          Under(t)' \in {ExitLock(s), ExitRecord(s)} => exited[t] = {s}
    BY <1>4, Tags DEF LifeInv, Exits
  <2>5. \A t \in Thread :
          Under(t)' \in {ExitDone, Finished} /\ Thread_Pointer[tid[t]] = t
            => exited[t] = {end_state[tid[t]]}
    BY <1>4, Tags DEF LifeInv, Exits
  <2>6. \A j \in joined : ~j.reused => pc'[j.thread] = Finished /\ exited[j.thread] = {j.status}
    BY <1>5 DEF LifeInv, LifeTypeOK, Exits
  <2> QED
    BY <1>1, <2>2, <2>3, <2>4, <2>5, <2>6 DEF Exits
<1> QED
  BY <1>1, <1>3, <1>6, <1>8, <1>9 DEF Core, LifeInv, LifeTypeOK

\* A thread starts in ThreadRoot, in no destructor.
LEMMA StartStep ==
  ASSUME LifeInv, Start
  PROVE  LifeInv'
<1>0. /\ ~idle /\ ~inRun /\ pc[c] = Root /\ Root \notin DeletePlaces /\ Root \notin Holding
  <2>1. Root \in Fresh
    BY DEF Fresh
  <2> QED
    BY <2>1, PlacesApart DEF Start, At
<1>1. /\ pc' = [pc EXCEPT ![c] = User] /\ UNCHANGED <<schedVars, value, queue, lifeVars, inRun>>
  BY DEF Start, Goto
<1>2. UNCHANGED <<allocated, tid, used_TID, end_state, Thread_Pointer, threadToBeDestroyed,
                  saved, kids, exited, joined, currentThread>>
  BY <1>1 DEF lifeVars, schedVars
<1>3. Elsewhere(User) /\ User \in Active /\ User \in Fresh
  BY Tags DEF Elsewhere, Active, Fresh
<1>4. value' \in [Sem -> Nat] /\ inRun' = FALSE
  BY <1>0, <1>1 DEF LifeInv, LifeTypeOK, SemTypeOK
<1>5. Core'
  BY <1>0, <1>1, <1>2, <1>3, <1>4, StayMove
<1>6. /\ \A k : User \notin {JoinOver(k), JoinReadLock(k), JoinRead(k)}
      /\ \A s : User \notin {ExitLock(s), ExitRecord(s)} /\ User # ExitDone
  BY Tags
<1> QED
  BY <1>0, <1>1, <1>2, <1>3, <1>4, <1>5, <1>6, PlainStep DEF c
-----------------------------------------------------------------------------
(***************************************************************************)
(* Exit and Finish.                                                        *)
(***************************************************************************)

\* Exit, up to the lock, notes the status it has been passed.
LEMMA ExitStep ==
  ASSUME LifeInv, NEW s \in ExitStatus, Exit(s)
  PROVE  LifeInv'
<1>0. ~idle /\ ~inRun /\ pc[c] \in {User, ExitLock(s)} /\ c \in Thread
  BY RunningFacts DEF Exit, At
<1>1. /\ pc[c] \in Active /\ pc[c] \notin Holding /\ pc[c] \notin DeletePlaces
      /\ Elsewhere(ExitLock(s)) /\ Elsewhere(ExitRecord(s)) /\ ExitRecord(s) \in Holding
  <2>1. User \in Active /\ ExitLock(s) \in Active /\ ExitRecord(s) \in Active /\ ExitRecord(s) \in Holding
    BY DEF Active, Holding
  <2>2. \A u : ExitLock(s) # Forking(u) /\ ExitLock(s) # Forked(u)
               /\ ExitRecord(s) # Forking(u) /\ ExitRecord(s) # Forked(u)
    BY Tags
  <2>3. User \notin Holding /\ ExitLock(s) \notin Holding
    BY Tags DEF Holding
  <2> QED
    BY <1>0, <2>1, <2>2, <2>3, PlacesApart DEF Elsewhere
<1>2. /\ Acquire(threadLock, ExitLock(s), ExitRecord(s)) /\ MaybeSwitch
      /\ exited' = [exited EXCEPT ![c] = {s}]
      /\ UNCHANGED <<allocated, tid, used_TID, end_state, Thread_Pointer, threadToBeDestroyed,
                     saved, kids, joined>>
  BY DEF Exit
<1>3. Core' /\ (idle' => currentThread' = c)
      /\ (pc' = [pc EXCEPT ![c] = ExitLock(s)] \/ pc' = [pc EXCEPT ![c] = ExitRecord(s)])
  BY <1>0, <1>1, <1>2, AcquireMove
<1>4. PICK p \in {ExitLock(s), ExitRecord(s)} : pc' = [pc EXCEPT ![c] = p]
  BY <1>3
<1>5. /\ \A t \in Thread : pc'[t] = IF t = c THEN p ELSE pc[t]
      /\ \A t \in Thread : Under(t)' = IF t = c THEN p ELSE Under(t)
  BY <1>0, <1>1, <1>2, <1>4, UnderMoved
<1>6. /\ \A t \in Thread : pc'[t] = Unborn <=> pc[t] = Unborn
      /\ \A t \in Thread : pc[t] = Finished <=> pc'[t] = Finished
  BY <1>0, <1>1, <1>5, RunningFacts, PlacesApart DEF Elsewhere
<1>7. Ids'
  BY <1>2, <1>3, <1>6, IdsKept DEF Core
<1>8. \A t \in Thread : exited'[t] = IF t = c THEN {s} ELSE exited[t]
  BY <1>0, <1>2 DEF LifeInv, LifeTypeOK
<1>9. Exits'
  <2>0. \A k \in Kid : k.thread \in Thread
    BY DEF Kid
  <2>1. \A t \in Thread : \A k \in kids[t] : pc'[k.thread] # Unborn /\ tid[k.thread] = k.id
    BY <1>6, <2>0 DEF LifeInv, LifeTypeOK, Exits
  <2>2. \A t \in Thread, k \in Kid :
          Under(t)' \in {JoinOver(k), JoinReadLock(k), JoinRead(k)} => pc'[k.thread] = Finished
    BY <1>4, <1>5, <1>6, <2>0, Tags DEF LifeInv, Exits
  <2>3. ASSUME NEW t \in Thread, NEW r \in ExitStatus, Under(t)' \in {ExitLock(r), ExitRecord(r)}
        PROVE  exited'[t] = {r}
    <3>1. CASE t = c
      <4>1. r = s
        BY <1>4, <1>5, <2>3, <3>1, Tags
      <4> QED
        BY <1>8, <3>1, <4>1
    <3>2. CASE t # c
      BY <1>5, <1>8, <2>3, <3>2 DEF LifeInv, Exits
    <3> QED
      BY <3>1, <3>2
  <2>4. \A t \in Thread :
          Under(t)' \in {ExitDone, Finished} /\ Thread_Pointer[tid[t]] = t
            => exited'[t] = {end_state[tid[t]]}
    BY <1>4, <1>5, <1>8, Tags DEF LifeInv, Exits
  <2>5. \A j \in joined : ~j.reused => pc'[j.thread] = Finished /\ exited'[j.thread] = {j.status}
    <3>1. \A j \in joined : ~j.reused => /\ j.thread \in Thread /\ pc[j.thread] = Finished
                                         /\ exited[j.thread] = {j.status} /\ j.thread # c
      BY <1>0, RunningFacts DEF LifeInv, LifeTypeOK, Exits
    <3> QED
      BY <1>6, <1>8, <3>1
  <2> QED
    BY <1>2, <2>1, <2>2, <2>3, <2>4, <2>5 DEF Exits
<1>10. exited' \in [Thread -> SUBSET ExitStatus] /\ inRun' \in BOOLEAN
  BY <1>2 DEF LifeInv, LifeTypeOK, MaybeSwitch
<1> QED
  BY <1>2, <1>3, <1>7, <1>9, <1>10 DEF Core, LifeInv, LifeTypeOK

\* Exit writes the status into the entry of its own id.
LEMMA RecordExitStep ==
  ASSUME LifeInv, NEW s \in ExitStatus, RecordExit(s)
  PROVE  LifeInv'
<1>0. ~idle /\ ~inRun /\ pc[c] = ExitRecord(s) /\ c \in Thread
  BY RunningFacts DEF RecordExit, At
<1>1. /\ pc[c] \in Active /\ pc[c] \in Holding /\ pc[c] \notin DeletePlaces /\ Elsewhere(ExitDone)
  <2>1. ExitDone \in Active /\ ExitRecord(s) \in Active /\ ExitRecord(s) \in Holding
    BY DEF Active, Holding
  <2>2. \A u : ExitDone # Forking(u) /\ ExitDone # Forked(u)
    BY Tags
  <2> QED
    BY <1>0, <2>1, <2>2, PlacesApart DEF Elsewhere
<1>2. /\ Release(threadLock, ExitDone, ExitDone) /\ MaybeSwitch
      /\ end_state' = [end_state EXCEPT ![tid[c]] = s]
      /\ UNCHANGED <<allocated, tid, used_TID, Thread_Pointer, threadToBeDestroyed,
                     saved, kids, exited, joined>>
  BY DEF RecordExit
<1>3. Core' /\ pc' = [pc EXCEPT ![c] = ExitDone] /\ UNCHANGED <<currentThread, idle>>
  BY <1>0, <1>1, <1>2, ReleaseMove
<1>4. /\ \A t \in Thread : pc'[t] = IF t = c THEN ExitDone ELSE pc[t]
      /\ \A t \in Thread : Under(t)' = IF t = c THEN ExitDone ELSE Under(t)
      /\ Under(c) = ExitRecord(s)
  BY <1>0, <1>1, <1>2, <1>3, UnderMoved
<1>5. /\ \A t \in Thread : pc'[t] = Unborn <=> pc[t] = Unborn
      /\ \A t \in Thread : pc[t] = Finished <=> pc'[t] = Finished
  BY <1>0, <1>1, <1>4, RunningFacts, PlacesApart DEF Elsewhere
<1>6. Ids'
  BY <1>2, <1>3, <1>5, IdsKept DEF Core, c
<1>7. tid[c] \in TID /\ Thread_Pointer[tid[c]] = c /\ exited[c] = {s}
  BY <1>0, <1>4, RunningFacts DEF LifeInv, Ids, Exits
<1>8. /\ end_state' \in [TID -> Int]
      /\ end_state'[tid[c]] = s
      /\ \A i \in TID : i # tid[c] => end_state'[i] = end_state[i]
  BY <1>2, <1>7, ThreadLifeAssumption DEF LifeInv, LifeTypeOK
<1>9. Exits'
  <2>0. \A k \in Kid : k.thread \in Thread
    BY DEF Kid
  <2>1. \A t \in Thread : \A k \in kids[t] : pc'[k.thread] # Unborn /\ tid[k.thread] = k.id
    BY <1>5, <2>0 DEF LifeInv, LifeTypeOK, Exits
  <2>2. \A t \in Thread, k \in Kid :
          Under(t)' \in {JoinOver(k), JoinReadLock(k), JoinRead(k)} => pc'[k.thread] = Finished
    BY <1>4, <1>5, <2>0, Tags DEF LifeInv, Exits
  <2>3. \A t \in Thread, r \in ExitStatus : Under(t)' \in {ExitLock(r), ExitRecord(r)} => exited[t] = {r}
    BY <1>4, Tags DEF LifeInv, Exits
  <2>4. ASSUME NEW t \in Thread, Under(t)' \in {ExitDone, Finished}, Thread_Pointer[tid[t]] = t
        PROVE  exited[t] = {end_state'[tid[t]]}
    <3>1. CASE t = c
      BY <1>7, <1>8, <3>1
    <3>2. CASE t # c
      <4>1. tid[t] # tid[c]
        BY <1>7, <2>4, <3>2
      <4>2. Under(t) \in {ExitDone, Finished}
        BY <1>4, <2>4, <3>2
      <4>3. pc[t] # Unborn
        BY <4>2, Tags, PlacesApart DEF LifeInv, Destruction, Under
      <4>4. tid[t] \in TID
        BY <4>3 DEF LifeInv, Ids
      <4> QED
        BY <1>8, <2>4, <4>1, <4>2, <4>4 DEF LifeInv, Exits
    <3> QED
      BY <3>1, <3>2
  <2>5. \A j \in joined : ~j.reused => pc'[j.thread] = Finished /\ exited[j.thread] = {j.status}
    BY <1>5 DEF LifeInv, LifeTypeOK, Exits
  <2> QED
    BY <1>2, <2>1, <2>2, <2>3, <2>4, <2>5 DEF Exits
<1>10. inRun' \in BOOLEAN
  BY <1>2 DEF MaybeSwitch
<1> QED
  BY <1>2, <1>3, <1>6, <1>8, <1>9, <1>10 DEF Core, LifeInv, LifeTypeOK

\* The finished thread goes to sleep for good, and is to be destroyed.
LEMMA FinishStep ==
  ASSUME LifeInv, Finish
  PROVE  LifeInv'
<1>0. /\ ~idle /\ ~inRun /\ pc[c] = ExitDone /\ c \in Thread /\ status[c] = "RUNNING"
      /\ pc \in [Thread -> Places] /\ SchedTypeOK /\ Dispatch
  BY RunningFacts DEF Finish, At, LifeInv, LifeTypeOK, SemTypeOK, Lists
<1>1. /\ threadToBeDestroyed' = c /\ pc' = [pc EXCEPT ![c] = Finished] /\ Sleep /\ MaybeSwitch
      /\ UNCHANGED <<value, queue, allocated, tid, used_TID, end_state, Thread_Pointer,
                     saved, kids, exited, joined>>
  BY DEF Finish, Goto
<1>2. /\ ExitDone \notin DeletePlaces /\ ExitDone \notin Fresh /\ ExitDone \notin Holding
      /\ Finished \notin DeletePlaces /\ Finished # Unborn /\ Finished # Root /\ Finished \in Places
  <2>1. ExitDone \in Active /\ Finished \in Places
    BY DEF Active, Places
  <2>2. ExitDone \notin Holding
    BY Tags DEF Holding
  <2> QED
    BY <2>1, <2>2, PlacesApart
<1>3. /\ \A t \in Thread : pc'[t] = IF t = c THEN Finished ELSE pc[t]
      /\ \A t \in Thread : Under(t)' = IF t = c THEN Finished ELSE Under(t)
      /\ Under(c) = ExitDone
  BY <1>0, <1>1, <1>2, UnderMoved
<1>4. /\ SchedTypeOK' /\ Dispatch' /\ GivenAway /\ policy' = policy
      /\ \A t \in Thread :
           /\ status'[t] = "BLOCKED" <=> status[t] = "BLOCKED" \/ t = c
           /\ status'[t] = "JUST_CREATED" <=> status[t] = "JUST_CREATED"
  BY <1>0, <1>1, SleepEffect
<1>5. SemTypeOK(Places)'
  BY <1>1, <1>2 DEF LifeInv, LifeTypeOK, SemTypeOK
<1>6. Lists'
  <2>1. Range(queue[threadLock]) \subseteq Thread
    BY LockIsSem, RangeElements, ElementOfSeq DEF LifeInv, LifeTypeOK, SemTypeOK
  <2>2. \A t \in Range(queue[threadLock]) : status'[t] = "BLOCKED" /\ pc'[t] # Finished
    BY <1>0, <1>3, <1>4, <2>1 DEF LifeInv, Lists
  <2>3. \A t \in Thread :
          /\ pc'[t] = Unborn => status'[t] = "JUST_CREATED"
          /\ status'[t] = "JUST_CREATED" => pc'[t] \in {Unborn, Root}
          /\ pc'[t] = Finished => status'[t] = "BLOCKED"
    BY <1>0, <1>2, <1>3, <1>4 DEF LifeInv, Lists
  <2>4. (idle' => ~inRun') /\ (inRun' => pc'[currentThread'] # Root)
    <3>1. currentThread' \in Thread
      BY <1>4 DEF SchedTypeOK
    <3> QED
      BY <1>3, <1>4, <3>1 DEF GivenAway
  <2> QED
    BY <1>1, <1>4, <2>2, <2>3, <2>4 DEF LifeInv, Lists, c
<1>7. Forks'
  <2>1. \A t \in Thread : status[t] = "JUST_CREATED" => status'[t] = "JUST_CREATED" /\ pc'[t] = pc[t]
    BY <1>0, <1>3, <1>4
  <2>2. \A t \in Thread : pc[t] # Unborn => pc'[t] # Unborn
    BY <1>2, <1>3
  <2>3. \A t, u \in Thread : Under(t)' \in {Forking(u), Forked(u)} => Under(t)' = Under(t)
    BY <1>3, Tags
  <2> QED
    BY <2>1, <2>2, <2>3, ForksKept DEF LifeInv
<1>8. \A t, v \in Thread : pc'[t] # DeleteLock(v) /\ pc'[t] # Deleting(v)
  <2>1. \A t, v \in Thread : pc[t] # DeleteLock(v) /\ pc[t] # Deleting(v)
    BY <1>0, <1>2, Tags DEF LifeInv, Destruction
  <2> QED
    BY <1>3, <2>1, Tags
<1>9. c \in allocated
  BY DEF LifeInv, Ids
<1>10. Destruction'
  <2>1. \A t \in Thread : saved'[t] # <<>> <=> pc'[t] \in DeletePlaces
    BY <1>0, <1>1, <1>2, <1>3 DEF LifeInv, Destruction
  <2>2. threadToBeDestroyed' # NULL =>
          pc'[threadToBeDestroyed'] = Finished /\ threadToBeDestroyed' \in allocated'
    BY <1>0, <1>1, <1>3, <1>9
  <2> QED
    BY <1>8, <2>1, <2>2 DEF Destruction
<1>11. Timerless'
  <2>1. ~Timer => value'[threadLock] # 0
    BY <1>0, <1>1, <1>2 DEF LifeInv, Timerless
  <2>2. \A v \in Thread : Finished # DeleteLock(v) /\ Finished # Forking(v) /\ Finished # Forked(v)
    BY Tags
  <2> QED
    BY <1>0, <1>1, <1>4, <2>1, <2>2, TimerlessGiven
<1>12. /\ \A t \in Thread : pc'[t] = Unborn <=> pc[t] = Unborn
       /\ \A t \in Thread : pc[t] = Finished => pc'[t] = Finished
  BY <1>0, <1>2, <1>3, Tags
<1>13. Ids'
  BY <1>1, <1>4, <1>6, <1>12, IdsKept DEF GivenAway
<1>14. Exits'
  <2>1. /\ \A k : Finished \notin {JoinOver(k), JoinReadLock(k), JoinRead(k)}
        /\ \A s : Finished \notin {ExitLock(s), ExitRecord(s)}
    BY Tags
  <2>2. Thread_Pointer[tid[c]] = c => exited[c] = {end_state[tid[c]]}
    BY <1>0, <1>3 DEF LifeInv, Exits
  <2> QED
    BY <1>1, <1>3, <1>12, <2>1, <2>2, ExitsKept
<1>15. inRun' \in BOOLEAN
  BY <1>1 DEF MaybeSwitch
<1> QED
  BY <1>0, <1>1, <1>4, <1>5, <1>6, <1>7, <1>10, <1>11, <1>13, <1>14, <1>15
     DEF LifeInv, LifeTypeOK
-----------------------------------------------------------------------------
(***************************************************************************)
(* Join and Yield.                                                         *)
(***************************************************************************)

\* The places of Join.
LEMMA JoinPlacesApart ==
  ASSUME NEW k \in Kid
  PROVE  /\ Elsewhere(JoinLock(k)) /\ Elsewhere(JoinTest(k)) /\ Elsewhere(JoinYield(k))
         /\ Elsewhere(JoinOver(k)) /\ Elsewhere(JoinReadLock(k)) /\ Elsewhere(JoinRead(k))
         /\ Elsewhere(User)
         /\ JoinTest(k) \in Holding /\ JoinRead(k) \in Holding
         /\ User \notin Holding /\ JoinLock(k) \notin Holding /\ JoinYield(k) \notin Holding
         /\ JoinOver(k) \notin Holding /\ JoinReadLock(k) \notin Holding
<1>1. /\ User \in Active /\ JoinLock(k) \in Active /\ JoinTest(k) \in Active /\ JoinYield(k) \in Active
      /\ JoinOver(k) \in Active /\ JoinReadLock(k) \in Active /\ JoinRead(k) \in Active
  BY DEF Active
<1>2. \A u : /\ User # Forking(u) /\ User # Forked(u)
             /\ JoinLock(k) # Forking(u) /\ JoinLock(k) # Forked(u)
             /\ JoinTest(k) # Forking(u) /\ JoinTest(k) # Forked(u)
             /\ JoinYield(k) # Forking(u) /\ JoinYield(k) # Forked(u)
             /\ JoinOver(k) # Forking(u) /\ JoinOver(k) # Forked(u)
             /\ JoinReadLock(k) # Forking(u) /\ JoinReadLock(k) # Forked(u)
             /\ JoinRead(k) # Forking(u) /\ JoinRead(k) # Forked(u)
  BY Tags
<1>3. JoinTest(k) \in Holding /\ JoinRead(k) \in Holding
  BY DEF Holding
<1>4. /\ User \notin Holding /\ JoinLock(k) \notin Holding /\ JoinYield(k) \notin Holding
      /\ JoinOver(k) \notin Holding /\ JoinReadLock(k) \notin Holding
  BY Tags DEF Holding
<1> QED
  BY <1>1, <1>2, <1>3, <1>4 DEF Elsewhere

\* The kids of the running thread.
LEMMA KidFacts ==
  ASSUME LifeInv, NEW k \in kids[c]
  PROVE  k \in Kid /\ k.thread \in Thread /\ pc[k.thread] # Unborn /\ tid[k.thread] = k.id
<1>1. c \in Thread
  BY DEF LifeInv, LifeTypeOK, SchedTypeOK, c
<1> QED
  BY <1>1 DEF LifeInv, LifeTypeOK, Exits, Kid

\* Join takes threadLock to look at the id.
LEMMA JoinAcquireStep ==
  ASSUME LifeInv, NEW k \in kids[c], JoinAcquire(k)
  PROVE  LifeInv'
<1>0. ~idle /\ ~inRun /\ pc[c] \in {User, JoinLock(k)} /\ k \in Kid
  BY KidFacts DEF JoinAcquire, At
<1>1. /\ pc[c] \in Active /\ pc[c] \notin Holding /\ pc[c] \notin DeletePlaces
      /\ Elsewhere(JoinLock(k)) /\ Elsewhere(JoinTest(k)) /\ JoinTest(k) \in Holding
  BY <1>0, JoinPlacesApart, PlacesApart DEF Elsewhere
<1>2. /\ Acquire(threadLock, JoinLock(k), JoinTest(k)) /\ MaybeSwitch
      /\ UNCHANGED <<allocated, tid, used_TID, end_state, Thread_Pointer, threadToBeDestroyed,
                     saved, kids, exited, joined>>
  BY DEF JoinAcquire, lifeVars
<1>3. Core' /\ (idle' => currentThread' = c)
      /\ (pc' = [pc EXCEPT ![c] = JoinLock(k)] \/ pc' = [pc EXCEPT ![c] = JoinTest(k)])
  BY <1>0, <1>1, <1>2, AcquireMove
<1>4. PICK p \in {JoinLock(k), JoinTest(k)} : pc' = [pc EXCEPT ![c] = p]
  BY <1>3
<1>5. /\ p \in Active
      /\ \A i : p \notin {JoinOver(i), JoinReadLock(i), JoinRead(i)}
      /\ \A s : p \notin {ExitLock(s), ExitRecord(s)}
      /\ p # ExitDone
  BY <1>1, Tags DEF Elsewhere
<1>6. inRun' \in BOOLEAN
  BY <1>2 DEF MaybeSwitch
<1> QED
  BY <1>0, <1>1, <1>2, <1>3, <1>4, <1>5, <1>6, PlainStep

\* An id that is not used any more was that of a finished thread.
LEMMA JoinTestStep ==
  ASSUME LifeInv, NEW k \in kids[c], JoinTestUsed(k)
  PROVE  LifeInv'
<1>0. ~idle /\ ~inRun /\ pc[c] = JoinTest(k) /\ k \in Kid
  BY KidFacts DEF JoinTestUsed, At
<1>1. pc[c] \in Active /\ pc[c] \in Holding /\ pc[c] \notin DeletePlaces
  BY <1>0, JoinPlacesApart, PlacesApart DEF Elsewhere
<1>2. PICK p \in {JoinYield(k), JoinOver(k)} :
        /\ p = JoinOver(k) => ~used_TID[k.id]
        /\ Release(threadLock, p, p)
  <2>1. CASE used_TID[k.id]
    BY <2>1, Tags DEF JoinTestUsed
  <2>2. CASE ~used_TID[k.id]
    BY <2>2 DEF JoinTestUsed
  <2> QED
    BY <2>1, <2>2
<1>3. /\ MaybeSwitch
      /\ UNCHANGED <<allocated, tid, used_TID, end_state, Thread_Pointer, threadToBeDestroyed,
                     saved, kids, exited, joined>>
  BY DEF JoinTestUsed, lifeVars
<1>4. Elsewhere(p)
  BY <1>0, <1>2, JoinPlacesApart
<1>5. Core' /\ pc' = [pc EXCEPT ![c] = p] /\ UNCHANGED <<currentThread, idle>>
  BY <1>0, <1>1, <1>2, <1>3, <1>4, ReleaseMove
<1>6. p = JoinOver(k) => pc[k.thread] = Finished
  <2>1. ~used_TID[k.id] => k.thread \notin allocated
    BY KidFacts DEF LifeInv, Ids
  <2> QED
    BY <1>2, <2>1, KidFacts DEF LifeInv, Ids
<1>7. /\ p \in Active
      /\ \A i : p \in {JoinOver(i), JoinReadLock(i), JoinRead(i)} => p = JoinOver(k) /\ i = k
      /\ \A s : p \notin {ExitLock(s), ExitRecord(s)}
      /\ p # ExitDone
  BY <1>4, Tags DEF Elsewhere
<1>8. inRun' \in BOOLEAN
  BY <1>3 DEF MaybeSwitch
<1>9. \A i \in Kid : p \in {JoinOver(i), JoinReadLock(i), JoinRead(i)} => pc[i.thread] = Finished
  BY <1>6, <1>7
<1>10. idle' => currentThread' = c
  BY <1>5 DEF c
<1> QED
  BY <1>0, <1>1, <1>3, <1>5, <1>7, <1>8, <1>9, <1>10, PlainStep

\* Join lets the others run and looks again.
LEMMA JoinAgainStep ==
  ASSUME LifeInv, NEW k \in kids[c], JoinAgain(k)
  PROVE  LifeInv'
<1> DEFINE p == JoinLock(k)
<1>0. ~idle /\ ~inRun /\ pc[c] = JoinYield(k) /\ k \in Kid
  BY KidFacts DEF JoinAgain, At
<1>1. /\ pc[c] \in Active /\ pc[c] \notin Holding /\ pc[c] \notin DeletePlaces /\ pc[c] \notin Fresh
      /\ Elsewhere(p) /\ p \in Active
  <2>1. JoinYield(k) \notin Fresh
    BY Tags DEF Fresh
  <2> QED
    BY <1>0, <2>1, JoinPlacesApart, PlacesApart DEF Elsewhere
<1>2. /\ pc' = [pc EXCEPT ![c] = p] /\ MaybeSwitch
      /\ UNCHANGED <<value, queue, allocated, tid, used_TID, end_state, Thread_Pointer,
                     threadToBeDestroyed, saved, kids, exited, joined>>
  BY DEF JoinAgain, lifeVars, Goto
<1>3. /\ \A i : p \notin {JoinOver(i), JoinReadLock(i), JoinRead(i)}
      /\ \A s : p \notin {ExitLock(s), ExitRecord(s)}
      /\ p # ExitDone
  BY Tags
<1> HIDE DEF p
<1>4. Core' /\ (idle' => currentThread' = c)
  <2>1. CASE readyList # <<>>
    <3>1. YieldFrom(readyList, status)
      BY <2>1 DEF JoinAgain
    <3> QED
      BY <1>0, <1>1, <1>2, <2>1, <3>1, YieldMove
  <2>2. CASE readyList = <<>>
    <3>1. UNCHANGED schedVars
      BY <2>2 DEF JoinAgain
    <3>2. value' \in [Sem -> Nat]
      BY <1>2 DEF LifeInv, LifeTypeOK, SemTypeOK
    <3>3. currentThread' = c /\ inRun' = FALSE
      BY <1>2, <3>1 DEF schedVars, c, MaybeSwitch
    <3> QED
      BY <1>0, <1>1, <1>2, <3>1, <3>2, <3>3, StayMove
  <2> QED
    BY <2>1, <2>2
<1>5. inRun' \in BOOLEAN
  BY <1>2 DEF MaybeSwitch
<1> QED
  BY <1>0, <1>1, <1>2, <1>3, <1>4, <1>5, PlainStep

\* Join takes threadLock again; the thread it waited for stays finished.
LEMMA JoinReadStep ==
  ASSUME LifeInv, NEW k \in kids[c], JoinReadAcquire(k)
  PROVE  LifeInv'
<1>0. ~idle /\ ~inRun /\ pc[c] \in {JoinOver(k), JoinReadLock(k)} /\ k \in Kid /\ c \in Thread
  BY KidFacts, RunningFacts DEF JoinReadAcquire, At
<1>1. /\ pc[c] \in Active /\ pc[c] \notin Holding /\ pc[c] \notin DeletePlaces
      /\ Elsewhere(JoinReadLock(k)) /\ Elsewhere(JoinRead(k)) /\ JoinRead(k) \in Holding
  BY <1>0, JoinPlacesApart, PlacesApart DEF Elsewhere
<1>2. /\ Acquire(threadLock, JoinReadLock(k), JoinRead(k)) /\ MaybeSwitch
      /\ UNCHANGED <<allocated, tid, used_TID, end_state, Thread_Pointer, threadToBeDestroyed,
                     saved, kids, exited, joined>>
  BY DEF JoinReadAcquire, lifeVars
<1>3. Core' /\ (idle' => currentThread' = c)
      /\ (pc' = [pc EXCEPT ![c] = JoinReadLock(k)] \/ pc' = [pc EXCEPT ![c] = JoinRead(k)])
  BY <1>0, <1>1, <1>2, AcquireMove
<1>4. PICK p \in {JoinReadLock(k), JoinRead(k)} : pc' = [pc EXCEPT ![c] = p]
  BY <1>3
<1>5. /\ p \in Active
      /\ \A i : p \in {JoinOver(i), JoinReadLock(i), JoinRead(i)} => i = k
      /\ \A s : p \notin {ExitLock(s), ExitRecord(s)}
      /\ p # ExitDone
  BY <1>1, Tags DEF Elsewhere
<1>6. pc[k.thread] = Finished
  <2>1. Under(c) = pc[c]
    BY <1>0, <1>1, RunningFacts DEF Under
  <2> QED
    BY <1>0, <2>1 DEF LifeInv, Exits
<1>7. inRun' \in BOOLEAN
  BY <1>2 DEF MaybeSwitch
<1>8. \A i \in Kid : p \in {JoinOver(i), JoinReadLock(i), JoinRead(i)} => pc[i.thread] = Finished
  BY <1>5, <1>6
<1> QED
  BY <1>0, <1>1, <1>2, <1>3, <1>4, <1>5, <1>7, <1>8, PlainStep

\* What Join tells its caller.
LEMMA JoinReturnStep ==
  ASSUME LifeInv, NEW k \in kids[c], JoinReturn(k)
  PROVE  LifeInv'
<1> DEFINE told == [thread |-> k.thread, reused |-> Thread_Pointer[k.id] # k.thread,
                    status |-> end_state[k.id]]
<1>0. ~idle /\ ~inRun /\ pc[c] = JoinRead(k) /\ k \in Kid /\ c \in Thread
  BY KidFacts, RunningFacts DEF JoinReturn, At
<1>1. /\ pc[c] \in Active /\ pc[c] \in Holding /\ pc[c] \notin DeletePlaces
      /\ Elsewhere(User) /\ User \in Active
  BY <1>0, JoinPlacesApart, PlacesApart DEF Elsewhere
<1>2. /\ Release(threadLock, User, User) /\ MaybeSwitch /\ joined' = {told}
      /\ UNCHANGED <<allocated, tid, used_TID, end_state, Thread_Pointer, threadToBeDestroyed,
                     saved, kids, exited>>
  BY DEF JoinReturn
<1>3. Core' /\ pc' = [pc EXCEPT ![c] = User] /\ UNCHANGED <<currentThread, idle>>
  BY <1>0, <1>1, <1>2, ReleaseMove
<1>4. /\ \A t \in Thread : pc'[t] = IF t = c THEN User ELSE pc[t]
      /\ \A t \in Thread : Under(t)' = IF t = c THEN User ELSE Under(t)
      /\ Under(c) = JoinRead(k)
  BY <1>0, <1>1, <1>2, <1>3, UnderMoved
<1>5. /\ \A t \in Thread : pc'[t] = Unborn <=> pc[t] = Unborn
      /\ \A t \in Thread : pc[t] = Finished <=> pc'[t] = Finished
  BY <1>0, <1>1, <1>4, RunningFacts, PlacesApart
<1>6. Ids'
  BY <1>2, <1>3, <1>5, IdsKept DEF Core, c
<1>7. /\ told.thread = k.thread /\ told.status = end_state[k.id]
      /\ told.reused <=> Thread_Pointer[k.id] # k.thread
  OBVIOUS
<1>8. /\ k.thread \in Thread /\ pc[k.thread] = Finished
      /\ ~told.reused => exited[k.thread] = {end_state[k.id]}
  <2>1. k.thread \in Thread /\ tid[k.thread] = k.id
    BY KidFacts
  <2>2. pc[k.thread] = Finished
    BY <1>0, <1>4 DEF LifeInv, Exits
  <2>3. Under(k.thread) = Finished
    BY <2>1, <2>2, PlacesApart DEF LifeInv, Destruction, Under
  <2>4. Thread_Pointer[k.id] = k.thread => exited[k.thread] = {end_state[k.id]}
    BY <2>1, <2>3 DEF LifeInv, Exits
  <2> QED
    BY <1>7, <2>1, <2>2, <2>4
<1> HIDE DEF told
<1>9. Exits'
  <2>0. \A i \in Kid : i.thread \in Thread
    BY DEF Kid
  <2>1. \A t \in Thread : \A i \in kids[t] : pc'[i.thread] # Unborn /\ tid[i.thread] = i.id
    BY <1>5, <2>0 DEF LifeInv, LifeTypeOK, Exits
  <2>2. \A t \in Thread, i \in Kid :
          Under(t)' \in {JoinOver(i), JoinReadLock(i), JoinRead(i)} => pc'[i.thread] = Finished
    BY <1>4, <1>5, <2>0, Tags DEF LifeInv, Exits
  <2>3. \A t \in Thread, r \in ExitStatus : Under(t)' \in {ExitLock(r), ExitRecord(r)} => exited[t] = {r}
    BY <1>4, Tags DEF LifeInv, Exits
  <2>4. \A t \in Thread :
          Under(t)' \in {ExitDone, Finished} /\ Thread_Pointer[tid[t]] = t
            => exited[t] = {end_state[tid[t]]}
    BY <1>4, Tags DEF LifeInv, Exits
  <2>5. \A j \in {told} : ~j.reused => pc'[j.thread] = Finished /\ exited[j.thread] = {j.status}
    BY <1>5, <1>7, <1>8
  <2> QED
    BY <1>2, <2>1, <2>2, <2>3, <2>4, <2>5 DEF Exits
<1>10. inRun' \in BOOLEAN
  BY <1>2 DEF MaybeSwitch
<1>11. \A j \in joined' : j.thread \in Thread
  BY <1>2, <1>7, <1>8
<1> QED
  BY <1>2, <1>3, <1>6, <1>9, <1>10, <1>11 DEF Core, LifeInv, LifeTypeOK

\* The Yield system call, and the timer: the running thread stays where it is.
LEMMA YieldStep ==
  ASSUME LifeInv, Yield
  PROVE  LifeInv'
<1>0. /\ ~idle /\ ~inRun /\ readyList # <<>> /\ YieldFrom(readyList, status) /\ MaybeSwitch
      /\ UNCHANGED <<value, queue, pc>>
      /\ UNCHANGED <<allocated, tid, used_TID, end_state, Thread_Pointer, threadToBeDestroyed,
                     saved, kids, exited, joined>>
  BY DEF Yield, YieldAt, semVars, lifeVars
<1>1. pc[c] \in IF Timer THEN InterruptsOn ELSE {User}
  BY DEF Yield, YieldAt, c
<1>2. c \in Thread /\ pc \in [Thread -> Places] /\ (saved[c] = <<>> \/ pc[c] \in DeletePlaces)
  BY <1>0, RunningFacts DEF LifeInv, LifeTypeOK, SemTypeOK
<1>3. InterruptsOn \subseteq Active
  BY DEF InterruptsOn, Active
<1>4. User \in Active /\ User \notin Holding /\ Elsewhere(User)
  BY PlacesApart, Tags DEF Active, Elsewhere
<1>5. PICK p \in Active : p = pc[c]
  BY <1>1, <1>3, <1>4
<1>6. p \notin DeletePlaces
  BY PlacesApart
<1>7. pc' = [pc EXCEPT ![c] = p]
  BY <1>0, <1>2, <1>5, <1>6
<1>8. (Elsewhere(p) \/ (p = pc[c] /\ Timer)) /\ (Timer \/ pc[c] \notin Holding)
  BY <1>1, <1>4, <1>5
<1>9. Core' /\ (idle' => currentThread' = c)
  BY <1>0, <1>5, <1>6, <1>7, <1>8, YieldMove
<1>10. /\ \A k \in Kid : p \in {JoinOver(k), JoinReadLock(k), JoinRead(k)} => pc[k.thread] = Finished
       /\ \A s \in ExitStatus : p \in {ExitLock(s), ExitRecord(s)} => exited[c] = {s}
       /\ p = ExitDone /\ Thread_Pointer[tid[c]] = c => exited[c] = {end_state[tid[c]]}
  <2>1. Under(c) = p /\ c \in Thread
    BY <1>0, <1>5, <1>6, RunningFacts DEF Under
  <2> QED
    BY <2>1 DEF LifeInv, Exits
<1>11. inRun' \in BOOLEAN
  BY <1>0 DEF MaybeSwitch
<1> QED
  BY <1>0, <1>5, <1>6, <1>7, <1>9, <1>10, <1>11, PlainStep
-----------------------------------------------------------------------------
(***************************************************************************)
(* The end of Run, and the destructor.                                     *)
(***************************************************************************)

\* With nothing to destroy, no thread is in a destructor when Run returns.
LEMMA RunReturnsStep ==
  ASSUME LifeInv, RunReturns
  PROVE  LifeInv'
<1>0. /\ inRun /\ threadToBeDestroyed = NULL /\ inRun' = FALSE
      /\ UNCHANGED <<policy, currentThread, status, readyList, idle, value, queue, pc>>
      /\ UNCHANGED <<allocated, tid, used_TID, end_state, Thread_Pointer, threadToBeDestroyed,
                     saved, kids, exited, joined>>
  BY DEF RunReturns, schedVars, semVars, lifeVars
<1>1. LifeTypeOK'
  BY <1>0 DEF LifeInv, LifeTypeOK, SchedTypeOK, SemTypeOK
<1>2. Lists'
  <2>1. Dispatch'
    BY <1>0 DEF LifeInv, Lists, Dispatch
  <2> QED
    BY <1>0, <2>1 DEF LifeInv, Lists
<1>3. Forks'
  BY <1>0 DEF LifeInv, Forks, Under
<1>4. Destruction'
  <2>1. \A t, v \in Thread : pc[t] # Deleting(v) /\ pc[t] # DeleteLock(v)
    BY <1>0 DEF LifeInv, Destruction
  <2> QED
    BY <1>0, <2>1 DEF LifeInv, Destruction
<1>5. Ids'
  BY <1>0 DEF LifeInv, Ids, c
<1>6. Exits'
  BY <1>0 DEF LifeInv, Exits, Under
<1>7. Timerless'
  <2>1. ~Timer => value[threadLock] # 0 /\ \A t, u \in Thread : pc[t] \notin {Forking(u), Forked(u)}
    BY <1>0 DEF LifeInv, Timerless
  <2> QED
    BY <1>0, <2>1 DEF LifeInv, Timerless, Timer
<1> QED
  BY <1>1, <1>2, <1>3, <1>4, <1>5, <1>6, <1>7 DEF LifeInv

\* The destructor starts at the end of Run, and only there: one that has gone
\* to sleep is never woken.  While another one sleeps this one sleeps too.
LEMMA DeleteAcquireStep ==
  ASSUME LifeInv, NEW v \in Thread, DeleteAcquire(v)
  PROVE  LifeInv'
<1> DEFINE L == threadLock
           q == pc[c]
<1>0. inRun /\ ~idle /\ threadToBeDestroyed = v
  <2>1. ~At(DeleteLock(v))
    BY RunningFacts DEF At
  <2> QED
    BY <2>1 DEF DeleteAcquire, LifeInv, Lists
<1>1. /\ c \in Thread /\ q \in Active /\ saved[c] = <<>> /\ pc \in [Thread -> Places]
      /\ queue \in [Sem -> Seq(Thread)] /\ value \in [Sem -> Nat] /\ L \in Sem
      /\ status[c] = "RUNNING" /\ q # Unborn /\ q # Finished /\ q \notin DeletePlaces
  BY <1>0, RunningFacts, LockIsSem, PlacesApart DEF LifeInv, LifeTypeOK, SemTypeOK
<1>2. /\ saved' = [saved EXCEPT ![c] = <<q>>]
      /\ Acquire(L, DeleteLock(v), Deleting(v)) /\ MaybeSwitch
      /\ UNCHANGED <<allocated, tid, used_TID, end_state, Thread_Pointer, threadToBeDestroyed,
                     kids, exited, joined>>
  <2>1. <<q>> \o saved[c] = <<q>>
    BY <1>1
  <2> QED
    BY <1>0, <1>1, <2>1 DEF DeleteAcquire
<1>3. PICK p \in {DeleteLock(v), Deleting(v)} :
        /\ pc' = [pc EXCEPT ![c] = p]
        /\ \/ /\ p = Deleting(v) /\ value[L] # 0 /\ value' = [value EXCEPT ![L] = value[L] - 1]
              /\ UNCHANGED <<queue, schedVars>>
           \/ /\ p = DeleteLock(v) /\ value[L] = 0 /\ value' = value /\ Sleep
              /\ queue' = [queue EXCEPT ![L] = Append(@, currentThread)]
  BY <1>2 DEF Acquire, P, Goto, c
<1>4. p \in DeletePlaces /\ p \in Places /\ p # Unborn /\ p # Finished /\ p # Root
  BY <1>3, PlacesApart DEF DeletePlaces, Places
<1>5. /\ \A t \in Thread : pc'[t] = IF t = c THEN p ELSE pc[t]
      /\ \A t \in Thread : saved'[t] = IF t = c THEN <<q>> ELSE saved[t]
  BY <1>1, <1>2, <1>3 DEF LifeInv, LifeTypeOK
<1>6. <<q>> # <<>> /\ <<q>>[1] = q
  OBVIOUS
<1> HIDE DEF q
<1>7. \A t \in Thread : Under(t)' = Under(t)
  BY <1>1, <1>5, <1>6 DEF Under, q
<1>8. /\ Lists' /\ SchedTypeOK' /\ policy' = policy /\ value' \in [Sem -> Nat]
      /\ queue' \in [Sem -> Seq(Thread)] /\ (idle' => currentThread' = c) /\ inRun' \in BOOLEAN
      /\ p = Deleting(v) => currentThread' = c /\ ~idle' /\ ~inRun'
      /\ p = DeleteLock(v) => (~idle' /\ ~inRun' => pc'[currentThread'] \in Fresh)
      /\ \A t \in Thread : status[t] = "BLOCKED" => status'[t] = "BLOCKED"
      /\ p = DeleteLock(v) => status'[c] = "BLOCKED" /\ value[L] = 0 /\ value' = value
      /\ p = Deleting(v) => value[L] # 0
      /\ \A t \in Thread : status'[t] = "JUST_CREATED" <=> status[t] = "JUST_CREATED"
  <2>0. Deleting(v) # DeleteLock(v)
    BY Tags
  <2>1. CASE p = Deleting(v)
    <3>1. /\ value[L] # 0 /\ value' = [value EXCEPT ![L] = value[L] - 1]
          /\ UNCHANGED <<queue, policy, currentThread, status, idle>> /\ UNCHANGED schedVars
      BY <1>3, <2>0, <2>1 DEF schedVars
    <3>2. inRun' = FALSE
      BY <1>2, <3>1 DEF MaybeSwitch, c
    <3>3. Lists' /\ SchedTypeOK'
      BY <1>0, <1>3, <1>4, <3>1, <3>2, ListsStay
    <3>4. value' \in [Sem -> Nat]
      BY <1>1, <3>1
    <3> QED
      BY <1>0, <1>1, <2>0, <2>1, <3>1, <3>2, <3>3, <3>4 DEF c
  <2>2. CASE p = DeleteLock(v)
    <3>1. /\ value[L] = 0 /\ value' = value /\ Sleep
          /\ queue' = [queue EXCEPT ![L] = Append(@, currentThread)]
      BY <1>3, <2>0, <2>2
    <3>2. /\ Lists' /\ SchedTypeOK' /\ GivenAway /\ policy' = policy
          /\ queue' \in [Sem -> Seq(Thread)]
          /\ \A t \in Thread :
               /\ status'[t] = "BLOCKED" <=> status[t] = "BLOCKED" \/ t = c
               /\ status'[t] = "JUST_CREATED" <=> status[t] = "JUST_CREATED"
      BY <1>0, <1>2, <1>3, <1>4, <3>1, ListsSleep
    <3>3. (~idle' /\ ~inRun' => pc'[currentThread'] \in Fresh) /\ (idle' => currentThread' = c)
      BY <1>1, <1>3, <3>2, GivenAwayFresh
    <3>4. inRun' \in BOOLEAN
      BY <1>2 DEF MaybeSwitch
    <3> QED
      BY <1>1, <2>0, <2>2, <3>1, <3>2, <3>3, <3>4
  <2> QED
    BY <1>3, <2>1, <2>2
<1>9. LifeTypeOK'
  <2>1. saved' \in [Thread -> {<<>>} \cup {<<x>> : x \in Active}]
    BY <1>1, <1>2 DEF LifeInv, LifeTypeOK
  <2>2. SemTypeOK(Places)'
    BY <1>1, <1>3, <1>4, <1>8 DEF SemTypeOK
  <2> QED
    BY <1>2, <1>8, <2>1, <2>2 DEF LifeInv, LifeTypeOK
<1>10. /\ \A t \in Thread : pc'[t] = Unborn <=> pc[t] = Unborn
       /\ \A t \in Thread : pc'[t] = Finished <=> pc[t] = Finished
  BY <1>1, <1>4, <1>5 DEF q
<1>11. Forks'
  <2>1. \A t \in Thread : status[t] = "JUST_CREATED" => status'[t] = "JUST_CREATED" /\ pc'[t] = pc[t]
    BY <1>1, <1>5, <1>8
  <2> QED
    BY <1>7, <1>10, <2>1, ForksKept DEF LifeInv
<1>12. Destruction'
  <2>1. \A t \in Thread : saved'[t] # <<>> <=> pc'[t] \in DeletePlaces
    BY <1>4, <1>5, <1>6 DEF LifeInv, Destruction
  <2>2. \A t, w \in Thread : pc[t] # Deleting(w)
    BY <1>0 DEF LifeInv, Destruction
  <2>3. ASSUME NEW t \in Thread, NEW w \in Thread, pc'[t] = Deleting(w)
        PROVE  t = currentThread' /\ ~idle' /\ ~inRun' /\ threadToBeDestroyed' = w
    <3>1. t = c /\ p = Deleting(w)
      BY <1>5, <2>2, <2>3
    <3>2. p = Deleting(v) /\ w = v
      BY <1>3, <3>1, Tags
    <3> QED
      BY <1>0, <1>2, <1>8, <3>1, <3>2
  <2>4. pc'[v] = Finished /\ v \in allocated'
    BY <1>0, <1>2, <1>10, <1>1, MonitorAssumption DEF LifeInv, Destruction
  <2>5. ASSUME NEW t \in Thread, NEW w \in Thread, pc'[t] = DeleteLock(w)
        PROVE  /\ status'[t] = "BLOCKED"
               /\ value'[threadLock] = 0
               /\ threadToBeDestroyed' # NULL
               /\ ~idle' /\ ~inRun' => pc'[currentThread'] \in Fresh
    <3>1. CASE t = c
      <4>1. p = DeleteLock(v)
        BY <1>3, <1>5, <2>5, <3>1, Tags
      <4> QED
        BY <1>0, <1>2, <1>8, <3>1, <4>1, MonitorAssumption
    <3>2. CASE t # c
      <4>1. pc[t] = DeleteLock(w)
        BY <1>5, <2>5, <3>2
      <4>2. status[t] = "BLOCKED" /\ value[L] = 0
        BY <4>1 DEF LifeInv, Destruction
      <4>3. p = DeleteLock(v)
        BY <1>3, <4>2
      <4> QED
        BY <1>0, <1>2, <1>8, <4>2, <4>3, MonitorAssumption
    <3> QED
      BY <3>1, <3>2
  <2> QED
    BY <1>0, <1>2, <2>1, <2>3, <2>4, <2>5 DEF Destruction, c
<1>13. Ids'
  BY <1>2, <1>8, <1>10, IdsKept
<1>14. Exits'
  <2>1. PICK x : x = Under(c)
    OBVIOUS
  <2>2. \A t \in Thread : Under(t)' = IF t = c THEN x ELSE Under(t)
    BY <1>7, <2>1
  <2>3. /\ \A k \in Kid : x \in {JoinOver(k), JoinReadLock(k), JoinRead(k)} => pc[k.thread] = Finished
        /\ \A s \in ExitStatus : x \in {ExitLock(s), ExitRecord(s)} => exited[c] = {s}
        /\ x \in {ExitDone, Finished} /\ Thread_Pointer[tid[c]] = c => exited[c] = {end_state[tid[c]]}
    BY <1>1, <2>1 DEF LifeInv, Exits
  <2> QED
    BY <1>2, <1>10, <2>2, <2>3, ExitsKept
<1>15. Timerless'
  <2> SUFFICES ASSUME ~Timer
               PROVE  /\ value'[threadLock] = 0 => ~idle' /\ ~inRun' /\ pc'[currentThread'] \in Holding
                      /\ \A t, w \in Thread : pc'[t] # DeleteLock(w)
                      /\ \A t, u \in Thread : pc'[t] \notin {Forking(u), Forked(u)}
                      /\ \A t, u \in Thread : saved'[t] # <<Forking(u)>> /\ saved'[t] # <<Forked(u)>>
    BY <1>8 DEF Timerless, Timer, c
  <2>1. /\ value[L] # 0
        /\ \A t, w \in Thread : pc[t] # DeleteLock(w)
        /\ \A t, u \in Thread : pc[t] \notin {Forking(u), Forked(u)}
        /\ \A t, u \in Thread : saved[t] # <<Forking(u)>> /\ saved[t] # <<Forked(u)>>
    BY <1>0 DEF LifeInv, Timerless
  <2>2. p = Deleting(v) /\ p \in Holding
    BY <1>3, <2>1 DEF Holding
  <2>3. \A u : p # DeleteLock(u) /\ p # Forking(u) /\ p # Forked(u)
    BY <2>2, Tags
  <2>4. \A u \in Thread : <<q>> # <<Forking(u)>> /\ <<q>> # <<Forked(u)>>
    BY <1>1, <2>1 DEF q
  <2>5. ~idle' /\ ~inRun' /\ pc'[currentThread'] \in Holding
    BY <1>1, <1>5, <1>8, <2>2
  <2>6. \A t, w \in Thread : pc'[t] # DeleteLock(w) /\ pc'[t] # Forking(w) /\ pc'[t] # Forked(w)
    BY <1>5, <2>1, <2>3
  <2>7. \A t, u \in Thread : saved'[t] # <<Forking(u)>> /\ saved'[t] # <<Forked(u)>>
    <3> HIDE DEF q
    <3> SUFFICES ASSUME NEW t \in Thread, NEW u \in Thread
                 PROVE  saved'[t] # <<Forking(u)>> /\ saved'[t] # <<Forked(u)>>
      OBVIOUS
    <3>1. CASE t = c
      BY <1>5, <2>4, <3>1
    <3>2. CASE t # c
      BY <1>5, <2>1, <3>2
    <3> QED
      BY <3>1, <3>2
  <2> QED
    BY <2>5, <2>6, <2>7
<1> QED
  BY <1>8, <1>9, <1>11, <1>12, <1>13, <1>14, <1>15 DEF LifeInv

\* The destructor that holds threadLock gives the id back, and leaves no
\* thread to be destroyed: no other destructor has started meanwhile.
LEMMA DeleteStep ==
  ASSUME LifeInv, NEW v \in Thread, Delete(v)
  PROVE  LifeInv'
<1> DEFINE L == threadLock
<1>0. ~idle /\ ~inRun /\ pc[c] = Deleting(v)
  BY DEF Delete, At
<1>1. /\ c \in Thread /\ pc \in [Thread -> Places] /\ value \in [Sem -> Nat] /\ L \in Sem
      /\ threadToBeDestroyed = v /\ pc[v] = Finished /\ v \in allocated /\ v # c
  BY <1>0, RunningFacts, LockIsSem, MonitorAssumption
     DEF LifeInv, LifeTypeOK, SemTypeOK, Destruction
<1>2. pc[c] \in DeletePlaces /\ pc[c] \notin Fresh
  BY <1>0, PlacesApart DEF DeletePlaces
<1>3. PICK q \in Active : saved[c] = <<q>>
  BY <1>1, <1>2 DEF LifeInv, LifeTypeOK, Destruction
<1>4. Head(saved[c]) = q /\ Tail(saved[c]) = <<>> /\ saved[c] # <<>> /\ saved[c][1] = q
  BY <1>3
<1>5. /\ V(L, q, q) /\ MaybeSwitch
      /\ used_TID' = [used_TID EXCEPT ![tid[v]] = FALSE]
      /\ allocated' = allocated \ {v}
      /\ threadToBeDestroyed' = NULL
      /\ saved' = [saved EXCEPT ![c] = <<>>]
      /\ UNCHANGED <<tid, end_state, Thread_Pointer, kids, exited, joined>>
  BY <1>4 DEF Delete, Release
<1>6. q \in Places /\ q # Unborn /\ q # Finished /\ q # Root /\ q \notin DeletePlaces
  BY PlacesApart DEF Places
<1>7. /\ Lists' /\ SchedTypeOK' /\ queue' \in [Sem -> Seq(Thread)]
      /\ pc' = [pc EXCEPT ![c] = q]
      /\ value' = [value EXCEPT ![L] = value[L] + 1]
      /\ UNCHANGED <<policy, currentThread, idle>> /\ inRun' = FALSE
      /\ \A t \in Thread : status'[t] = "JUST_CREATED" <=> status[t] = "JUST_CREATED"
  BY <1>0, <1>5, <1>6, ListsV
<1>8. value' \in [Sem -> Nat] /\ value'[L] # 0
  BY <1>1, <1>7
<1>9. /\ \A t \in Thread : pc'[t] = IF t = c THEN q ELSE pc[t]
      /\ \A t \in Thread : saved'[t] = IF t = c THEN <<>> ELSE saved[t]
  BY <1>1, <1>5, <1>7 DEF LifeInv, LifeTypeOK
<1>10. \A t \in Thread : Under(t)' = Under(t)
  BY <1>1, <1>4, <1>9 DEF Under
<1>11. /\ \A t \in Thread : pc'[t] = Unborn <=> pc[t] = Unborn
       /\ \A t \in Thread : pc'[t] = Finished <=> pc[t] = Finished
  BY <1>0, <1>1, <1>6, <1>9, RunningFacts
<1>12. LifeTypeOK'
  <2>1. saved' \in [Thread -> {<<>>} \cup {<<x>> : x \in Active}]
    BY <1>1, <1>5 DEF LifeInv, LifeTypeOK
  <2>2. SemTypeOK(Places)'
    BY <1>1, <1>6, <1>7, <1>8 DEF SemTypeOK
  <2>3. used_TID' \in [TID -> BOOLEAN] /\ allocated' \subseteq Thread
    BY <1>5 DEF LifeInv, LifeTypeOK
  <2> QED
    BY <1>5, <1>7, <2>1, <2>2, <2>3 DEF LifeInv, LifeTypeOK
<1>13. Forks'
  <2>1. \A t \in Thread : status[t] = "JUST_CREATED" => status'[t] = "JUST_CREATED" /\ pc'[t] = pc[t]
    BY <1>0, <1>7, <1>9, RunningFacts
  <2> QED
    BY <1>10, <1>11, <2>1, ForksKept DEF LifeInv
<1>14. Destruction'
  <2>1. \A t, w \in Thread : pc[t] # DeleteLock(w)
    BY <1>0, <1>2 DEF LifeInv, Destruction
  <2>2. \A t, w \in Thread : pc[t] = Deleting(w) => t = c
    BY DEF LifeInv, Destruction
  <2>3. \A w \in Thread : q # DeleteLock(w) /\ q # Deleting(w)
    BY <1>6 DEF DeletePlaces
  <2>4. \A t, w \in Thread : pc'[t] # DeleteLock(w) /\ pc'[t] # Deleting(w)
    BY <1>9, <2>1, <2>2, <2>3
  <2>5. \A t \in Thread : saved'[t] # <<>> <=> pc'[t] \in DeletePlaces
    BY <1>6, <1>9 DEF LifeInv, Destruction
  <2> QED
    BY <1>5, <2>4, <2>5 DEF Destruction
<1>15. Ids'
  <2>1. tid[v] \in TID /\ Thread_Pointer[tid[v]] = v
    BY <1>1 DEF LifeInv, LifeTypeOK, Ids
  <2>2. \A t \in allocated' : t \in Thread /\ t # v /\ tid[t] \in TID /\ Thread_Pointer[tid[t]] = t
                                /\ pc[t] # Unborn /\ used_TID[tid[t]]
    BY <1>5 DEF LifeInv, LifeTypeOK, Ids
  <2>3. \A t \in allocated' : used_TID'[tid[t]]
    BY <1>5, <2>1, <2>2 DEF LifeInv, LifeTypeOK
  <2>4. \A t \in Thread :
          /\ pc'[t] # Unborn /\ pc'[t] # Finished => t \in allocated'
          /\ pc'[t] # Unborn => tid[t] \in TID
    BY <1>1, <1>5, <1>11 DEF LifeInv, Ids
  <2>5. currentThread' \in allocated'
    BY <1>1, <1>5, <1>7 DEF LifeInv, Ids, c
  <2> QED
    BY <1>5, <1>11, <2>2, <2>3, <2>4, <2>5 DEF Ids, c, LifeInv, LifeTypeOK
<1>16. Exits'
  <2>1. PICK x : x = Under(c)
    OBVIOUS
  <2>2. \A t \in Thread : Under(t)' = IF t = c THEN x ELSE Under(t)
    BY <1>10, <2>1
  <2>3. /\ \A k \in Kid : x \in {JoinOver(k), JoinReadLock(k), JoinRead(k)} => pc[k.thread] = Finished
        /\ \A s \in ExitStatus : x \in {ExitLock(s), ExitRecord(s)} => exited[c] = {s}
        /\ x \in {ExitDone, Finished} /\ Thread_Pointer[tid[c]] = c => exited[c] = {end_state[tid[c]]}
    BY <1>1, <2>1 DEF LifeInv, Exits
  <2> QED
    BY <1>5, <1>11, <2>2, <2>3, ExitsKept
<1>17. Timerless'
  <2> SUFFICES ASSUME ~Timer
               PROVE  /\ \A t, w \in Thread : pc'[t] # DeleteLock(w)
                      /\ \A t, u \in Thread : pc'[t] \notin {Forking(u), Forked(u)}
                      /\ \A t, u \in Thread : saved'[t] # <<Forking(u)>> /\ saved'[t] # <<Forked(u)>>
    BY <1>7, <1>8 DEF Timerless, Timer, c
  <2>1. /\ \A t, w \in Thread : pc[t] # DeleteLock(w)
        /\ \A t, u \in Thread : pc[t] \in {Forking(u), Forked(u)} => t = c
        /\ \A t, u \in Thread : saved[t] # <<Forking(u)>> /\ saved[t] # <<Forked(u)>>
    BY DEF LifeInv, Timerless
  <2>2. \A u \in Thread : q # Forking(u) /\ q # Forked(u) /\ q # DeleteLock(u)
    BY <1>1, <1>3, <1>6, <2>1 DEF DeletePlaces
  <2>3. \A t, u \in Thread : pc'[t] # DeleteLock(u) /\ pc'[t] # Forking(u) /\ pc'[t] # Forked(u)
    BY <1>9, <2>1, <2>2
  <2>4. \A t, u \in Thread : saved'[t] # <<Forking(u)>> /\ saved'[t] # <<Forked(u)>>
    <3>1. \A u : <<>> # <<Forking(u)>> /\ <<>> # <<Forked(u)>>
      OBVIOUS
    <3> QED
      BY <1>9, <2>1, <3>1
  <2> QED
    BY <2>3, <2>4
<1> QED
  BY <1>7, <1>12, <1>13, <1>14, <1>15, <1>16, <1>17 DEF LifeInv
-----------------------------------------------------------------------------
(***************************************************************************)
(* The invariant holds.                                                    *)
(***************************************************************************)

\* Main runs, and no other thread exists.
LEMMA LifeInvInit ==
  ASSUME Init
  PROVE  LifeInv
<1>0. /\ main \in Thread /\ threadLock \in Sem /\ MAX_THREAD_NUM \in Nat \ {0} /\ 0 \in TID
      /\ NULL \notin Thread
  BY ThreadLifeAssumption, MonitorAssumption, LockIsSem DEF TID
<1>1. /\ c = main /\ ~idle /\ ~inRun
      /\ \A t \in Thread : pc[t] = IF t = main THEN User ELSE Unborn
      /\ \A t \in Thread : status[t] = IF t = main THEN "RUNNING" ELSE "JUST_CREATED"
      /\ \A t \in Thread : saved[t] = <<>> /\ kids[t] = {} /\ exited[t] = {}
      /\ readyList = <<>> /\ queue[threadLock] = <<>> /\ value[threadLock] = 1
  BY <1>0 DEF Init, c
<1>2. /\ User \in Active /\ User \in Places /\ Unborn \in Places
      /\ User # Unborn /\ User # Root /\ User # Finished /\ Unborn # Finished /\ Unborn # ExitDone
      /\ User # ExitDone /\ User \notin DeletePlaces /\ Unborn \notin DeletePlaces
  BY PlacesApart, Tags DEF Active, Places
<1>3. \A t \in Thread : Under(t) \in {User, Unborn}
  BY <1>1 DEF Under
<1>4. LifeTypeOK
  <2>1. SchedTypeOK
    <3>1. status \in [Thread -> ThreadStatus]
      BY DEF Init, ThreadStatus
    <3>2. readyList \in Seq(Thread)
      BY <1>1, EmptySeq
    <3> QED
      BY <1>0, <3>1, <3>2 DEF Init, SchedTypeOK
  <2>2. SemTypeOK(Places)
    BY <1>2 DEF Init, SemTypeOK
  <2>3. /\ tid \in [Thread -> TID \cup {-1}]
        /\ used_TID \in [TID -> BOOLEAN]
        /\ end_state \in [TID -> Int]
        /\ Thread_Pointer \in [TID -> Thread \cup {NULL}]
    BY <1>0 DEF Init
  <2>4. /\ saved \in [Thread -> {<<>>} \cup {<<p>> : p \in Active}]
        /\ kids \in [Thread -> SUBSET Kid]
        /\ exited \in [Thread -> SUBSET ExitStatus]
    BY DEF Init
  <2> QED
    BY <1>0, <2>1, <2>2, <2>3, <2>4 DEF Init, LifeTypeOK
<1>5. Lists
  <2>1. IsInjective(<<>>) /\ Range(<<>>) = {}
    BY DEF IsInjective, Range
  <2> QED
    BY <1>0, <1>1, <1>2, <2>1 DEF Lists, Dispatch, c
<1>6. Forks
  BY <1>3, Tags DEF Forks
<1>7. Destruction
  BY <1>1, <1>2, Tags DEF Destruction, Init
<1>8. Ids
  BY <1>0, <1>1, <1>2 DEF Init, Ids
<1>9. Exits
  BY <1>1, <1>2, <1>3, Tags DEF Exits, Init
<1>10. Timerless
  <2>1. \A u : User # DeleteLock(u) /\ User # Forking(u) /\ User # Forked(u)
               /\ Unborn # DeleteLock(u) /\ Unborn # Forking(u) /\ Unborn # Forked(u)
    BY Tags
  <2>2. \A u : <<>> # <<Forking(u)>> /\ <<>> # <<Forked(u)>>
    OBVIOUS
  <2>3. \A t, u \in Thread : /\ pc[t] # DeleteLock(u) /\ pc[t] # Forking(u) /\ pc[t] # Forked(u)
                             /\ saved[t] # <<Forking(u)>> /\ saved[t] # <<Forked(u)>>
    BY <1>1, <2>1, <2>2
  <2> QED
    BY <1>1, <2>3 DEF Timerless
<1> QED
  BY <1>4, <1>5, <1>6, <1>7, <1>8, <1>9, <1>10 DEF LifeInv

\* Every step keeps it.
LEMMA LifeInvStep ==
  ASSUME LifeInv, [Next]_vars
  PROVE  LifeInv'
<1>1. ASSUME NEW u \in Thread, NewThread(u) \/ Fork(u) \/ ExecReturn(u)
      PROVE  LifeInv'
  BY <1>1, NewThreadStep, ForkStep, ExecReturnStep
<1>2. ASSUME NEW s \in ExitStatus, Exit(s) \/ RecordExit(s)
      PROVE  LifeInv'
  BY <1>2, ExitStep, RecordExitStep
<1>3. ASSUME NEW k \in kids[c],
             JoinAcquire(k) \/ JoinTestUsed(k) \/ JoinAgain(k) \/ JoinReadAcquire(k) \/ JoinReturn(k)
      PROVE  LifeInv'
  BY <1>3, JoinAcquireStep, JoinTestStep, JoinAgainStep, JoinReadStep, JoinReturnStep
<1>4. ASSUME NEW v \in Thread, DeleteAcquire(v) \/ Delete(v)
      PROVE  LifeInv'
  BY <1>4, DeleteAcquireStep, DeleteStep
<1>5. ASSUME Start \/ Finish \/ RunReturns \/ Yield
      PROVE  LifeInv'
  BY <1>5, StartStep, FinishStep, RunReturnsStep, YieldStep
<1>6. ASSUME UNCHANGED vars
      PROVE  LifeInv'
  <2>1. /\ UNCHANGED <<policy, currentThread, status, readyList, idle, value, queue, pc>>
        /\ UNCHANGED <<allocated, tid, used_TID, end_state, Thread_Pointer, threadToBeDestroyed,
                       saved, kids, exited, joined, inRun>>
    BY <1>6 DEF vars, schedVars, semVars, lifeVars
  <2>2. LifeTypeOK'
    BY <2>1 DEF LifeInv, LifeTypeOK, SchedTypeOK, SemTypeOK
  <2>3. Lists'
    BY <2>1 DEF LifeInv, Lists, Dispatch, c
  <2>4. Forks'
    BY <2>1 DEF LifeInv, Forks, Under
  <2>5. Destruction'
    BY <2>1 DEF LifeInv, Destruction, c
  <2>6. Ids'
    BY <2>1 DEF LifeInv, Ids, c
  <2>7. Exits'
    BY <2>1 DEF LifeInv, Exits, Under
  <2>8. Timerless'
    BY <2>1 DEF LifeInv, Timerless, Timer, c
  <2> QED
    BY <2>2, <2>3, <2>4, <2>5, <2>6, <2>7, <2>8 DEF LifeInv
<1> QED
  BY <1>1, <1>2, <1>3, <1>4, <1>5, <1>6 DEF Next

(***************************************************************************)
(* The invariant holds in every state of the threads' lives.               *)
(***************************************************************************)
THEOREM LifeInvariant == Spec => []LifeInv
<1>1. Init => LifeInv
  BY LifeInvInit
<1>2. LifeInv /\ [Next]_vars => LifeInv'
  BY LifeInvStep
<1> QED
  BY <1>1, <1>2, PTL DEF Spec
-----------------------------------------------------------------------------
(***************************************************************************)
(* UniqueTIDs: from the constructor to the end of the destructor a         *)
(* thread's id is marked used and no other thread has it, though the       *)
(* constructor (Thread::Thread) searches used_TID without the lock that    *)
(* Thread::~Thread takes to clear its entry.                               *)
(***************************************************************************)
THEOREM IdsAreUnique == Spec => []UniqueTIDs
<1>1. LifeInv => UniqueTIDs
  BY DEF LifeInv, Ids, UniqueTIDs
<1> QED
  BY <1>1, LifeInvariant, PTL

(***************************************************************************)
(* JoinReturnsStatus: what JoinHandler reads in end_state is the status    *)
(* that the thread has passed to Exit, unless its id has been reused: no   *)
(* second thread writes to the entry of the first, and Join does not read  *)
(* it before Exit has written it.                                          *)
(***************************************************************************)
THEOREM JoinTellsTheStatus == Spec => []JoinReturnsStatus
<1>1. LifeInv => JoinReturnsStatus
  BY DEF LifeInv, Exits, JoinReturnsStatus
<1> QED
  BY <1>1, LifeInvariant, PTL

(***************************************************************************)
(* NoDoubleDelete: without a timer at most one call of the destructor of a *)
(* thread is on a stack, and the object still exists: Scheduler::Run       *)
(* clears threadToBeDestroyed before anybody else can come out of SWITCH.  *)
(***************************************************************************)
THEOREM DestructorsRunOnce == Spec => []NoDoubleDelete
<1>1. LifeInv => NoDoubleDelete
  <2> SUFFICES ASSUME LifeInv, ~Timer, NEW v \in Thread
               PROVE  /\ Cardinality(Destructors(v)) <= 1
                      /\ Destructors(v) # {} => v \in allocated
    BY DEF NoDoubleDelete, DestroyedOnce
  <2>1. ASSUME NEW d \in Destructors(v)
        PROVE  d = <<c, 0>> /\ v \in allocated
    <3>1. PICK t \in Thread, i \in 0..Cardinality(Thread) :
            /\ d = <<t, i>> /\ i <= Len(saved[t])
            /\ (IF i = 0 THEN pc[t] ELSE saved[t][i]) \in {DeleteLock(v), Deleting(v)}
      BY <2>1 DEF Destructors
    <3>2. CASE i = 0
      <4>1. pc[t] = Deleting(v)
        BY <3>1, <3>2 DEF LifeInv, Timerless
      <4>2. t = c /\ threadToBeDestroyed = v
        BY <4>1 DEF LifeInv, Destruction
      <4> QED
        BY <3>1, <3>2, <4>2, MonitorAssumption DEF LifeInv, Destruction
    <3>3. CASE i # 0
      <4>1. CASE saved[t] = <<>>
        BY <3>1, <3>3, <4>1
      <4>2. CASE saved[t] # <<>>
        <5>1. PICK p \in Active : saved[t] = <<p>>
          BY <4>2 DEF LifeInv, LifeTypeOK
        <5>2. i = 1 /\ saved[t][1] = p
          BY <3>1, <3>3, <5>1
        <5>3. DeleteLock(v) \in DeletePlaces /\ Deleting(v) \in DeletePlaces
          BY DEF DeletePlaces
        <5> QED
          BY <3>1, <5>2, <5>3, PlacesApart
      <4> QED
        BY <4>1, <4>2
    <3> QED
      BY <3>2, <3>3
  <2>2. Destructors(v) \subseteq {<<c, 0>>}
    BY <2>1
  <2>3. IsFiniteSet({<<c, 0>>}) /\ Cardinality({<<c, 0>>}) = 1
    BY FS_Singleton
  <2>4. /\ Cardinality(Destructors(v)) \in Nat
        /\ Cardinality(Destructors(v)) <= Cardinality({<<c, 0>>})
    BY <2>2, <2>3, FS_Subset, FS_CardinalityType
  <2> QED
    BY <2>1, <2>3, <2>4
<1> QED
  BY <1>1, LifeInvariant, PTL

(***************************************************************************)
(* NoUseAfterDelete: without a timer no deleted Thread is current, ready   *)
(* or in the queue of threadLock, and ExecHandler still has the child whose *)
(* id it asks for after Fork.                                              *)
(***************************************************************************)
THEOREM DeletedThreadsAreNotUsed == Spec => []NoUseAfterDelete
<1>1. LifeInv => NoUseAfterDelete
  <2> SUFFICES ASSUME LifeInv, ~Timer
               PROVE  NoDeletedThreadUsed
    BY DEF NoUseAfterDelete
  <2>1. Range(readyList) \subseteq Thread /\ Range(queue[threadLock]) \subseteq Thread
    <3>1. readyList \in Seq(Thread) /\ queue[threadLock] \in Seq(Thread)
      BY LockIsSem DEF LifeInv, LifeTypeOK, SchedTypeOK, SemTypeOK
    <3> QED
      BY <3>1, RangeElements, ElementOfSeq
  <2>2. \A t \in Thread : pc[t] # Unborn /\ pc[t] # Finished => t \in allocated
    BY DEF LifeInv, Ids
  <2>3. Range(readyList) \subseteq allocated
    BY <2>1, <2>2 DEF LifeInv, Lists, Dispatch
  <2>4. Range(queue[threadLock]) \subseteq allocated
    BY <2>1, <2>2 DEF LifeInv, Lists
  <2>5. \A t, u \in Thread : pc[t] \in {Forking(u), Forked(u)} => u \in allocated
    BY <2>2, PlacesApart DEF LifeInv, Timerless
  <2> QED
    BY <2>3, <2>4, <2>5 DEF NoDeletedThreadUsed, LifeInv, Ids
<1> QED
  BY <1>1, LifeInvariant, PTL
==============================================================================
