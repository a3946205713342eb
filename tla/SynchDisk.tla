------------------------------- MODULE SynchDisk -------------------------------
(***************************************************************************)
(* The disk and its users: OpenFile::Read and Write (filesys/openfile.cc)  *)
(* on top of the readers' and writers' locks and of the one-request-at-a-  *)
(* time interface of SynchDisk (filesys/synchdisk.cc), on top of the       *)
(* asynchronous disk of machine/disk.cc with its completion interrupt.     *)
(*                                                                         *)
(* A file is known by the sector of its header.  The data itself moves at  *)
(* the moment of the request; what takes time is the completion.  ReadAt   *)
(* and WriteAt are a number of sector transfers, each with its own lock.   *)
(* Writes stay within the file: module FileSystem has the growing ones.    *)
(***************************************************************************)
EXTENDS Monitor

CONSTANTS
  File,        \* header sectors; also the names of their semaphores mutex[]
  readerLock,  \* SynchDisk::readerLock, one for all files
  diskLock,    \* SynchDisk::lock
  done,        \* SynchDisk::semaphore
  MaxOps,      \* bound: how many Reads and Writes a thread calls
  SectorSize,  \* bytes of a sector
  FileLength,  \* bytes of each file
  Requests     \* the positions and byte counts that are asked for

\* Threads of user programs have equal priorities, so no ReadyToRun yields.
ASSUME SynchDiskAssumption ==
  /\ {readerLock, diskLock} \subseteq Lock /\ readerLock # diskLock
  /\ Sem = File \cup {readerLock, diskLock, done}
  /\ Lock \cap (File \cup {done}) = {}
  /\ done \notin File
  /\ MaxOps \in Nat
  /\ SectorSize \in Nat \ {0}
  /\ FileLength \in Nat
  /\ Requests \subseteq Nat \X Nat
  /\ \A p \in Policy : p.roundRobbin \/ \A t, u \in Thread : p.priority[t] = p.priority[u]

VARIABLES
  readerCnt,   \* SynchDisk::readerCnt
  active,      \* Disk::active; the completion interrupt is pending
  ops,         \* ops[t]: how many calls t has begun
  left         \* left[t]: the sectors that t's call has still to transfer

vars == <<schedVars, semVars, monVars, readerCnt, active, ops, left>>

Op == {"read", "write"}

\* Places in Read and Write of file f.  Where interrupts are on the timer may
\* take the processor, with the locks held.
User           == <<"user">>
At1(name, f)   == <<name, f>>
At2(name, o, f) == <<name, o, f>>

OnePlaces == {"plusAcquire", "plusCount", "plusFirst", "plusRelease",
              "minusAcquire", "minusCount", "minusLast", "minusRelease", "writerWait"}
TwoPlaces == {"io", "ioAcquire", "ioRequest", "ioWait", "ioDone"}

InterruptsOn ==
  {User} \cup {At1(n, f) : n \in {"plusCount", "plusRelease", "minusCount", "minusRelease"}, f \in File}
         \cup {At2(n, o, f) : n \in {"io", "ioRequest", "ioDone"}, o \in Op, f \in File}

At(label) == ~idle /\ pc[currentThread] = label

Init ==
  /\ MonitorInit(User, [s \in Sem |-> IF s = done THEN 0 ELSE 1])
  /\ readerCnt = [f \in File |-> 0]
  /\ active = FALSE
  /\ ops = [t \in Thread |-> 0]
  /\ left = [t \in Thread |-> 0]
-----------------------------------------------------------------------------
(* ReadAt and WriteAt, by the number of sectors they transfer              *)

\* How many sectors hold numBytes bytes from position on.
SectorsOf(position, numBytes) ==
  1 + (position + numBytes - 1) \div SectorSize - position \div SectorSize

\* A read is cut off at the end of the file.
ReadAt(position, numBytes) ==
  IF numBytes = 0 \/ position >= FileLength THEN 0
  ELSE SectorsOf(position, IF position + numBytes > FileLength THEN FileLength - position ELSE numBytes)

\* A write first reads the sectors at its ends that it changes in part.
WriteAt(position, numBytes) ==
  LET first == position \div SectorSize
      last  == (position + numBytes - 1) \div SectorSize
      firstAligned == position = first * SectorSize
      lastAligned  == position + numBytes = (last + 1) * SectorSize
  IN IF numBytes = 0 \/ position >= FileLength THEN 0
     ELSE (IF firstAligned THEN 0 ELSE ReadAt(first * SectorSize, SectorSize))
          + (IF ~lastAligned /\ (first # last \/ firstAligned)
               THEN ReadAt(last * SectorSize, SectorSize) ELSE 0)
          + SectorsOf(position, numBytes)
-----------------------------------------------------------------------------
(* PlusReader and MinusReader                                              *)

\* A thread calls Read or Write, for n transfers.
Begin(n) ==
  /\ ops[currentThread] < MaxOps
  /\ ops' = [ops EXCEPT ![currentThread] = @ + 1]
  /\ left' = [left EXCEPT ![currentThread] = n]

CallRead(f, position, numBytes) ==
  /\ At(User)
  /\ Begin(ReadAt(position, numBytes))
  /\ Acquire(readerLock, At1("plusAcquire", f), At1("plusCount", f))
  /\ UNCHANGED <<readerCnt, active>>

ResumePlus(f) ==
  /\ At(At1("plusAcquire", f))
  /\ Acquire(readerLock, At1("plusAcquire", f), At1("plusCount", f))
  /\ UNCHANGED <<readerCnt, active, ops, left>>

PlusCount(f) ==
  /\ ~idle
  /\ Step(At1("plusCount", f), At1(IF readerCnt[f] = 0 THEN "plusFirst" ELSE "plusRelease", f))
  /\ readerCnt' = [readerCnt EXCEPT ![f] = @ + 1]
  /\ UNCHANGED <<active, ops, left>>

PlusFirst(f) ==
  /\ At(At1("plusFirst", f))
  /\ P(f, At1("plusFirst", f), At1("plusRelease", f))
  /\ UNCHANGED <<monVars, readerCnt, active, ops, left>>

PlusRelease(f) ==
  /\ At(At1("plusRelease", f))
  /\ Release(readerLock, At2("io", "read", f), At2("io", "read", f))
  /\ UNCHANGED <<readerCnt, active, ops, left>>

MinusAcquire(f) ==
  /\ (At(At2("io", "read", f)) /\ left[currentThread] = 0) \/ At(At1("minusAcquire", f))
  /\ Acquire(readerLock, At1("minusAcquire", f), At1("minusCount", f))
  /\ UNCHANGED <<readerCnt, active, ops, left>>

\* A wrong MinusReader: every reader that leaves gives the mutex back.
MinusCountAlways(f) ==
  /\ ~idle
  /\ Step(At1("minusCount", f), At1("minusLast", f))
  /\ readerCnt' = [readerCnt EXCEPT ![f] = @ - 1]
  /\ UNCHANGED <<active, ops, left>>

MinusCount(f) ==
  /\ ~idle
  /\ Step(At1("minusCount", f), At1(IF readerCnt[f] = 1 THEN "minusLast" ELSE "minusRelease", f))
  /\ readerCnt' = [readerCnt EXCEPT ![f] = @ - 1]
  /\ UNCHANGED <<active, ops, left>>

\* A wrong MinusReader: the last reader keeps the mutex.
MinusLastKeeps(f) ==
  /\ ~idle
  /\ Step(At1("minusLast", f), At1("minusRelease", f))
  /\ UNCHANGED <<readerCnt, active, ops, left>>

MinusLast(f) ==
  /\ At(At1("minusLast", f))
  /\ V(f, At1("minusRelease", f), At1("minusRelease", f))
  /\ UNCHANGED <<monVars, readerCnt, active, ops, left>>

MinusRelease(f) ==
  /\ At(At1("minusRelease", f))
  /\ Release(readerLock, User, User)
  /\ UNCHANGED <<readerCnt, active, ops, left>>
-----------------------------------------------------------------------------
(* PlusWriter and MinusWriter                                              *)

CallWrite(f, position, numBytes) ==
  /\ At(User)
  /\ position + numBytes <= FileLength
  /\ Begin(WriteAt(position, numBytes))
  /\ P(f, At1("writerWait", f), At2("io", "write", f))
  /\ UNCHANGED <<monVars, readerCnt, active>>

ResumeWriter(f) ==
  /\ At(At1("writerWait", f))
  /\ P(f, At1("writerWait", f), At2("io", "write", f))
  /\ UNCHANGED <<monVars, readerCnt, active, ops, left>>

MinusWriter(f) ==
  /\ At(At2("io", "write", f))
  /\ left[currentThread] = 0
  /\ V(f, User, User)
  /\ UNCHANGED <<monVars, readerCnt, active, ops, left>>
-----------------------------------------------------------------------------
(* ReadSector and WriteSector                                              *)

\* A wrong ReadSector: takes no lock.
SectorWithoutLock(o, f) ==
  /\ ~idle
  /\ left[currentThread] > 0
  /\ Step(At2("io", o, f), At2("ioRequest", o, f))
  /\ UNCHANGED <<readerCnt, active, ops, left>>

SectorAcquire(o, f) ==
  /\ (At(At2("io", o, f)) /\ left[currentThread] > 0) \/ At(At2("ioAcquire", o, f))
  /\ Acquire(diskLock, At2("ioAcquire", o, f), At2("ioRequest", o, f))
  /\ UNCHANGED <<readerCnt, active, ops, left>>

\* Disk::ReadRequest and WriteRequest, which assert that no request is active.
Request(o, f) ==
  /\ ~idle
  /\ ~active
  /\ active' = TRUE
  /\ Step(At2("ioRequest", o, f), At2("ioWait", o, f))
  /\ UNCHANGED <<readerCnt, ops, left>>

SectorWait(o, f) ==
  /\ At(At2("ioWait", o, f))
  /\ P(done, At2("ioWait", o, f), At2("ioDone", o, f))
  /\ UNCHANGED <<monVars, readerCnt, active, ops, left>>

SectorRelease(o, f) ==
  /\ At(At2("ioDone", o, f))
  /\ Release(diskLock, At2("io", o, f), At2("io", o, f))
  /\ left' = [left EXCEPT ![currentThread] = @ - 1]
  /\ UNCHANGED <<readerCnt, active, ops>>

\* A wrong handler: signals and leaves the disk active, for it is still busy.
HandleInterruptTwice ==
  /\ active
  /\ idle \/ pc[currentThread] \in InterruptsOn
  /\ value[done] < 2
  /\ V(done, pc[currentThread], pc[currentThread])
  /\ UNCHANGED <<monVars, readerCnt, active, ops, left>>

\* Disk::HandleInterrupt and SynchDisk::RequestDone, from OneTick or Idle.
HandleInterrupt ==
  /\ active
  /\ idle \/ pc[currentThread] \in InterruptsOn
  /\ active' = FALSE
  /\ V(done, pc[currentThread], pc[currentThread])
  /\ UNCHANGED <<monVars, readerCnt, ops, left>>
-----------------------------------------------------------------------------
Yield == YieldAt(InterruptsOn) /\ UNCHANGED <<readerCnt, active, ops, left>>

LeaveIdle ==
  /\ idle
  /\ readyList # <<>>
  /\ Run(readyList, status)
  /\ UNCHANGED <<semVars, monVars, readerCnt, active, ops, left>>

ThreadStep ==
  \/ \E f \in File :
       \/ \E r \in Requests : CallRead(f, r[1], r[2]) \/ CallWrite(f, r[1], r[2])
       \/ ResumePlus(f) \/ PlusCount(f) \/ PlusFirst(f) \/ PlusRelease(f)
       \/ MinusAcquire(f) \/ MinusCount(f) \/ MinusLast(f) \/ MinusRelease(f)
       \/ ResumeWriter(f) \/ MinusWriter(f)
       \/ \E o \in Op : SectorAcquire(o, f) \/ Request(o, f) \/ SectorWait(o, f) \/ SectorRelease(o, f)
  \/ LeaveIdle

\* A thread or the disk goes on.
Progress == ThreadStep \/ HandleInterrupt

Next == Progress \/ Yield

Spec == Init /\ [][Next]_vars

(***************************************************************************)
(* A time slice is long enough for a thread that can go on to do so or for *)
(* the disk to finish, and the timer interrupts a thread that does not.    *)
(* MaxOps bounds the work: what can go on infinitely often then ends.      *)
(***************************************************************************)
FairSpec == Spec /\ SF_vars(Progress) /\ WF_vars(Yield)
-----------------------------------------------------------------------------
(***************************************************************************)
(* The assertion of ReadRequest and WriteRequest: a thread that is about   *)
(* to ask the disk finds it free.  It rests on the thread before it having *)
(* waited, in P, for the interrupt of its own request.                     *)
(***************************************************************************)
OneRequestAtATime ==
  \A t \in Thread, o \in Op, f \in File :
    pc[t] \in {At2("ioRequest", o, f), At2("ioDone", o, f)} => ~active

Transfers(o, f) ==
  {t \in Thread : pc[t] \in {At2(n, o, f) : n \in TwoPlaces}}

\* While a thread writes a file nobody else reads or writes it, through all
\* the sectors and sleeps of the transfer.
FileExclusion ==
  \A f \in File :
    /\ Cardinality(Transfers("write", f)) <= 1
    /\ Transfers("write", f) # {} => Transfers("read", f) = {}

(***************************************************************************)
(* Every Read and Write returns.  A first reader sleeps on a file's mutex  *)
(* with readerLock held, which every reader of every file needs to come    *)
(* and to go: nobody may hold a mutex and need readerLock to give it up    *)
(* while such a reader waits for that mutex.                               *)
(***************************************************************************)
EveryCallReturns == \A t \in Thread : pc[t] # User ~> pc[t] = User
================================================================================
