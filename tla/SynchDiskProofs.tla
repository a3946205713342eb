---------------------------- MODULE SynchDiskProofs ----------------------------
(***************************************************************************)
(* Proofs about SynchDisk, for every number of threads and files: the disk *)
(* gets one request at a time, and a file's writer is alone with it.       *)
(***************************************************************************)
EXTENDS SynchDisk, SemaphoreProofs

\* What a place says of a thread that is there: it has the unit of readerLock,
\* or of diskLock, or sleeps for the interrupt; it writes file f; it is counted
\* among the readers of f; as one of them it shares the unit of f's mutex.
HasReaderLock(p) ==
  p[1] \in {"plusCount", "plusFirst", "plusRelease", "minusCount", "minusLast", "minusRelease"}
HasDiskLock(p)  == p[1] \in {"ioRequest", "ioWait", "ioDone"}
Waits(p)        == p[1] = "ioWait"
Transfer(p, o, f) == p[1] \in TwoPlaces /\ p[2] = o /\ p[3] = f
Writes(p, f)    == Transfer(p, "write", f)
Counted(p, f)   ==
  \/ p[1] \in {"plusFirst", "plusRelease", "minusAcquire", "minusCount"} /\ p[2] = f
  \/ Transfer(p, "read", f)
Shares(p, f)    ==
  \/ p[1] \in {"plusRelease", "minusAcquire", "minusCount", "minusLast"} /\ p[2] = f
  \/ Transfer(p, "read", f)
IsFirst(p, f)   == p[1] = "plusFirst" /\ p[2] = f
IsLast(p, f)    == p[1] = "minusLast" /\ p[2] = f

Place ==
  {User} \cup {At1(n, f) : n \in OnePlaces, f \in File}
         \cup {At2(n, o, f) : n \in TwoPlaces, o \in Op, f \in File}

TypeOK ==
  /\ SchedTypeOK
  /\ SemTypeOK(Place)
  /\ active \in BOOLEAN
  /\ readerCnt \in [File -> Nat]

ReaderUnit == OneUnit(value[readerLock], {t \in Thread : HasReaderLock(pc[t])})
DiskUnit   == OneUnit(value[diskLock], {t \in Thread : HasDiskLock(pc[t])})

\* A request and its interrupt, one after the other, belong to a thread that
\* waits.
DoneOnce ==
  /\ value[done] \in {0, 1}
  /\ active \/ value[done] = 1 => \E t \in Thread : Waits(pc[t])
  /\ ~(active /\ value[done] = 1)

Readers(f) == {t \in Thread : Counted(pc[t], f)}

\* The count of the readers is right, but for the one that counts itself.
CountRight ==
  \A f \in File :
    /\ readerCnt[f] = Cardinality(Readers(f))
    /\ \A t \in Thread : IsFirst(pc[t], f) => Readers(f) = {t}
    /\ \A t \in Thread : IsLast(pc[t], f) => Readers(f) = {}

\* The unit of a file's mutex is in its value, or with one writer, or with all
\* the readers, from the P of the first to the V of the last.
FileUnit ==
  \A f \in File :
    /\ OneUnit(value[f], {t \in Thread : Writes(pc[t], f)})
    /\ \A t \in Thread : Shares(pc[t], f) =>
         value[f] = 0 /\ \A u \in Thread : ~Writes(pc[u], f)

DiskInv == TypeOK /\ ReaderUnit /\ DiskUnit /\ DoneOnce /\ CountRight /\ FileUnit
-----------------------------------------------------------------------------
(***************************************************************************)
(* The places.                                                             *)
(***************************************************************************)

\* The semaphores are different ones.
LEMMA Semaphores ==
  /\ readerLock \in Sem /\ diskLock \in Sem /\ done \in Sem /\ File \subseteq Sem
  /\ readerLock # diskLock /\ readerLock # done /\ diskLock # done
  /\ readerLock \notin File /\ diskLock \notin File /\ done \notin File
BY SynchDiskAssumption

\* A place is in Place.
LEMMA Places ==
  /\ User \in Place
  /\ \A n \in OnePlaces, f \in File : At1(n, f) \in Place
  /\ \A n \in TwoPlaces, o \in Op, f \in File : At2(n, o, f) \in Place
BY DEF Place

\* The parts of a place.
LEMMA Parts ==
  /\ User[1] = "user"
  /\ \A n, f : At1(n, f)[1] = n /\ At1(n, f)[2] = f
  /\ \A n, o, f : At2(n, o, f)[1] = n /\ At2(n, o, f)[2] = o /\ At2(n, o, f)[3] = f
BY DEF User, At1, At2

\* What the places with one parameter and the user's code are.
LEMMA OneKinds ==
  ASSUME NEW f \in File, NEW g \in File
  PROVE  /\ \A p \in {User, At1("plusAcquire", f), At1("plusCount", f), At1("minusRelease", f),
                      At1("writerWait", f)} :
              ~Counted(p, g) /\ ~Shares(p, g)
         /\ \A n \in OnePlaces : /\ ~Writes(At1(n, f), g)
                                 /\ ~HasDiskLock(At1(n, f)) /\ ~Waits(At1(n, f))
         /\ ~Writes(User, g) /\ ~HasDiskLock(User) /\ ~Waits(User) /\ ~HasReaderLock(User)
         /\ \A n \in {"plusAcquire", "minusAcquire", "writerWait"} : ~HasReaderLock(At1(n, f))
         /\ \A n \in {"plusCount", "plusFirst", "plusRelease", "minusCount", "minusLast",
                      "minusRelease"} : HasReaderLock(At1(n, f))
         /\ Counted(At1("plusFirst", f), g) <=> f = g
         /\ ~Shares(At1("plusFirst", f), g)
         /\ \A n \in {"plusRelease", "minusAcquire", "minusCount"} :
              (Counted(At1(n, f), g) <=> f = g) /\ (Shares(At1(n, f), g) <=> f = g)
         /\ ~Counted(At1("minusLast", f), g)
         /\ Shares(At1("minusLast", f), g) <=> f = g
BY Parts DEF Counted, Shares, Writes, Transfer, HasDiskLock, Waits, HasReaderLock, TwoPlaces,
             OnePlaces

\* What the places of a transfer are.
LEMMA TwoKinds ==
  ASSUME NEW f \in File, NEW g \in File, NEW o \in Op, NEW n \in TwoPlaces
  PROVE  /\ ~HasReaderLock(At2(n, o, f))
         /\ HasDiskLock(At2(n, o, f)) <=> n \in {"ioRequest", "ioWait", "ioDone"}
         /\ Waits(At2(n, o, f)) <=> n = "ioWait"
         /\ Writes(At2(n, o, f), g) <=> o = "write" /\ f = g
         /\ Counted(At2(n, o, f), g) <=> o = "read" /\ f = g
         /\ Shares(At2(n, o, f), g) <=> o = "read" /\ f = g
BY Parts DEF Counted, Shares, Writes, Transfer, HasDiskLock, Waits, HasReaderLock, TwoPlaces, Op

\* Which places are the first reader's and the last reader's.
LEMMA EndKinds ==
  ASSUME NEW f \in File, NEW g \in File
  PROVE  /\ ~IsFirst(User, g) /\ ~IsLast(User, g)
         /\ \A n \in OnePlaces : /\ IsFirst(At1(n, f), g) <=> n = "plusFirst" /\ f = g
                                 /\ IsLast(At1(n, f), g) <=> n = "minusLast" /\ f = g
         /\ \A n \in TwoPlaces, o \in Op : ~IsFirst(At2(n, o, f), g) /\ ~IsLast(At2(n, o, f), g)
BY Parts DEF IsFirst, IsLast, OnePlaces, TwoPlaces

\* A waiting thread has diskLock, and a reader that shares a file's mutex, is not
\* the first and not the last to count itself, is counted.
LEMMA KindsOfPlace ==
  ASSUME NEW p, NEW f \in File
  PROVE  /\ Waits(p) => HasDiskLock(p)
         /\ IsFirst(p, f) => HasReaderLock(p) /\ Counted(p, f)
         /\ IsLast(p, f) => HasReaderLock(p)
         /\ Counted(p, f) => IsFirst(p, f) \/ Shares(p, f)
         /\ Shares(p, f) => IsLast(p, f) \/ Counted(p, f)
BY DEF Waits, HasDiskLock, IsFirst, IsLast, HasReaderLock, Counted, Shares

\* No thread is more urgent than another.
LEMMA NoPreempts ==
  ASSUME TypeOK, NEW t \in Thread
  PROVE  ~Preempts(t)
<1>1. policy \in Policy /\ currentThread \in Thread
  BY DEF TypeOK, SchedTypeOK
<1>2. policy.priority \in [Thread -> Nat]
  BY <1>1, SchedulerAssumption
<1>3. policy.roundRobbin \/ policy.priority[t] = policy.priority[currentThread]
  BY <1>1, SynchDiskAssumption
<1> QED
  BY <1>1, <1>2, <1>3 DEF Preempts, RoundRobbin, Priority

\* So V adds its unit at once.
LEMMA PlainV ==
  ASSUME TypeOK, NEW s \in Sem, NEW next, V(s, next, next)
  PROVE  /\ value' = [value EXCEPT ![s] = value[s] + 1]
         /\ pc' = [pc EXCEPT ![currentThread] = next]
<1>1. queue[s] # <<>> => ~Preempts(Head(queue[s]))
  <2>1. queue[s] \in Seq(Thread)
    BY DEF TypeOK, SemTypeOK
  <2> QED
    BY <2>1, TailOfInjective, NoPreempts
<1> QED
  BY <1>1, EffectV
-----------------------------------------------------------------------------
(***************************************************************************)
(* What a move of currentThread, in which nothing else changes that a part *)
(* of the invariant speaks of, does to that part.                          *)
(***************************************************************************)
MovesTo(q) == pc' = [pc EXCEPT ![currentThread] = q]

LEMMA Moved ==
  ASSUME TypeOK, NEW q, MovesTo(q)
  PROVE  \A t \in Thread : pc'[t] = IF t = currentThread THEN q ELSE pc[t]
BY DEF TypeOK, SemTypeOK, MovesTo

\* The unit of readerLock stays, is taken, or is given back.
LEMMA ReaderUnitMoves ==
  ASSUME TypeOK, ReaderUnit, NEW q, MovesTo(q),
         \/ /\ value'[readerLock] = value[readerLock]
            /\ HasReaderLock(q) <=> HasReaderLock(pc[currentThread])
         \/ /\ value[readerLock] # 0 /\ value'[readerLock] = value[readerLock] - 1
            /\ HasReaderLock(q)
         \/ /\ value'[readerLock] = value[readerLock] + 1
            /\ HasReaderLock(pc[currentThread]) /\ ~HasReaderLock(q)
  PROVE  ReaderUnit'
<1> DEFINE H == {t \in Thread : HasReaderLock(pc[t])}
           c == currentThread
<1>1. c \in Thread
  BY DEF TypeOK, SchedTypeOK
<1>2. {t \in Thread : HasReaderLock(pc'[t])} = IF HasReaderLock(q) THEN H \cup {c} ELSE H \ {c}
  BY <1>1, Moved
<1>3. OneUnit(value[readerLock], H) /\ (c \in H <=> HasReaderLock(pc[c]))
  BY <1>1 DEF ReaderUnit
<1> HIDE DEF H, c
<1>4. OneUnit(value'[readerLock], IF HasReaderLock(q) THEN H \cup {c} ELSE H \ {c})
  <2>1. CASE value'[readerLock] = value[readerLock] /\ (HasReaderLock(q) <=> c \in H)
    <3>1. (IF HasReaderLock(q) THEN H \cup {c} ELSE H \ {c}) = H
      BY <2>1
    <3> QED
      BY <1>3, <2>1, <3>1
  <2>2. CASE value[readerLock] # 0 /\ value'[readerLock] = value[readerLock] - 1 /\ HasReaderLock(q)
    BY <1>3, <2>2, UnitTaken
  <2>3. CASE value'[readerLock] = value[readerLock] + 1 /\ c \in H /\ ~HasReaderLock(q)
    BY <1>3, <2>3, UnitGiven
  <2> QED
    BY <1>3, <2>1, <2>2, <2>3 DEF c
<1> QED
  BY <1>2, <1>4 DEF ReaderUnit

\* So does the unit of diskLock.
LEMMA DiskUnitMoves ==
  ASSUME TypeOK, DiskUnit, NEW q, MovesTo(q),
         \/ /\ value'[diskLock] = value[diskLock]
            /\ HasDiskLock(q) <=> HasDiskLock(pc[currentThread])
         \/ /\ value[diskLock] # 0 /\ value'[diskLock] = value[diskLock] - 1
            /\ HasDiskLock(q)
         \/ /\ value'[diskLock] = value[diskLock] + 1
            /\ HasDiskLock(pc[currentThread]) /\ ~HasDiskLock(q)
  PROVE  DiskUnit'
<1> DEFINE H == {t \in Thread : HasDiskLock(pc[t])}
           c == currentThread
<1>1. c \in Thread
  BY DEF TypeOK, SchedTypeOK
<1>2. {t \in Thread : HasDiskLock(pc'[t])} = IF HasDiskLock(q) THEN H \cup {c} ELSE H \ {c}
  BY <1>1, Moved
<1>3. OneUnit(value[diskLock], H) /\ (c \in H <=> HasDiskLock(pc[c]))
  BY <1>1 DEF DiskUnit
<1> HIDE DEF H, c
<1>4. OneUnit(value'[diskLock], IF HasDiskLock(q) THEN H \cup {c} ELSE H \ {c})
  <2>1. CASE value'[diskLock] = value[diskLock] /\ (HasDiskLock(q) <=> c \in H)
    <3>1. (IF HasDiskLock(q) THEN H \cup {c} ELSE H \ {c}) = H
      BY <2>1
    <3> QED
      BY <1>3, <2>1, <3>1
  <2>2. CASE value[diskLock] # 0 /\ value'[diskLock] = value[diskLock] - 1 /\ HasDiskLock(q)
    BY <1>3, <2>2, UnitTaken
  <2>3. CASE value'[diskLock] = value[diskLock] + 1 /\ c \in H /\ ~HasDiskLock(q)
    BY <1>3, <2>3, UnitGiven
  <2> QED
    BY <1>3, <2>1, <2>2, <2>3 DEF c
<1> QED
  BY <1>2, <1>4 DEF DiskUnit

LEMMA DoneStays ==
  ASSUME TypeOK, DoneOnce, NEW q, MovesTo(q), value'[done] = value[done], active' = active,
         Waits(q) <=> Waits(pc[currentThread])
  PROVE  DoneOnce'
BY Moved DEF DoneOnce

LEMMA CountStays ==
  ASSUME TypeOK, CountRight, NEW q, MovesTo(q), readerCnt' = readerCnt,
         \A f \in File : /\ Counted(q, f) <=> Counted(pc[currentThread], f)
                         /\ IsFirst(q, f) => IsFirst(pc[currentThread], f)
                         /\ IsLast(q, f) => IsLast(pc[currentThread], f)
  PROVE  CountRight'
<1>1. \A f \in File : Readers(f)' = Readers(f)
  BY Moved DEF Readers
<1> QED
  BY <1>1, Moved DEF CountRight

LEMMA FileStays ==
  ASSUME TypeOK, FileUnit, NEW q, MovesTo(q),
         \A f \in File : /\ value'[f] = value[f]
                         /\ Writes(q, f) <=> Writes(pc[currentThread], f)
                         /\ Shares(q, f) <=> Shares(pc[currentThread], f)
  PROVE  FileUnit'
<1>1. \A f \in File, t \in Thread : /\ Writes(pc'[t], f) <=> Writes(pc[t], f)
                                    /\ Shares(pc'[t], f) <=> Shares(pc[t], f)
  BY Moved
<1>2. \A f \in File : {t \in Thread : Writes(pc'[t], f)} = {t \in Thread : Writes(pc[t], f)}
  BY <1>1
<1> QED
  BY <1>1, <1>2 DEF FileUnit
-----------------------------------------------------------------------------
(***************************************************************************)
(* The steps.                                                              *)
(***************************************************************************)

\* Two places that say the same of the disk's users, and of the files'.
AlikeDisk(p, q) == (HasDiskLock(p) <=> HasDiskLock(q)) /\ (Waits(p) <=> Waits(q))
AlikeFiles(p, q) ==
  \A f \in File : /\ Counted(p, f) <=> Counted(q, f)
                  /\ Shares(p, f) <=> Shares(q, f)
                  /\ Writes(p, f) <=> Writes(q, f)
                  /\ IsFirst(p, f) <=> IsFirst(q, f)
                  /\ IsLast(p, f) <=> IsLast(q, f)

\* A step in which currentThread keeps all that it has: it waits, or nothing
\* happens to it.
LEMMA NeutralKeeps ==
  ASSUME DiskInv, NEW q, MovesTo(q), UNCHANGED <<value, readerCnt, active>>,
         AlikeDisk(pc[currentThread], q), AlikeFiles(pc[currentThread], q),
         HasReaderLock(q) <=> HasReaderLock(pc[currentThread]), TypeOK'
  PROVE  DiskInv'
<1>1. ReaderUnit' /\ DiskUnit'
  BY ReaderUnitMoves, DiskUnitMoves DEF DiskInv, AlikeDisk
<1>2. DoneOnce' /\ CountRight' /\ FileUnit'
  BY Semaphores, DoneStays, CountStays, FileStays DEF DiskInv, AlikeDisk, AlikeFiles
<1> QED
  BY <1>1, <1>2 DEF DiskInv

\* Acquire of readerLock, in PlusReader and in MinusReader.
LEMMA AcquireReader ==
  ASSUME DiskInv, NEW wait \in Place, NEW next \in Place, Acquire(readerLock, wait, next),
         UNCHANGED <<readerCnt, active>>,
         ~HasReaderLock(pc[currentThread]), ~HasReaderLock(wait), HasReaderLock(next),
         AlikeDisk(pc[currentThread], wait), AlikeFiles(pc[currentThread], wait),
         AlikeDisk(pc[currentThread], next), AlikeFiles(pc[currentThread], next)
  PROVE  DiskInv'
<1>1. P(readerLock, wait, next) /\ TypeOK /\ SchedTypeOK /\ SemTypeOK(Place)
  BY DEF Acquire, DiskInv, TypeOK
<1>2. TypeOK'
  BY <1>1, TypeP, Semaphores DEF TypeOK
<1>3. CASE value' = value /\ pc' = [pc EXCEPT ![currentThread] = wait]
  BY <1>2, <1>3, NeutralKeeps DEF MovesTo
<1>4. CASE /\ value[readerLock] # 0 /\ value' = [value EXCEPT ![readerLock] = value[readerLock] - 1]
           /\ pc' = [pc EXCEPT ![currentThread] = next]
  <2>1. /\ value'[readerLock] = value[readerLock] - 1
        /\ \A s \in Sem \ {readerLock} : value'[s] = value[s]
    BY <1>1, <1>4, Semaphores DEF SemTypeOK
  <2>2. MovesTo(next)
    BY <1>4 DEF MovesTo
  <2>3. ReaderUnit' /\ DiskUnit'
    BY <1>1, <1>4, <2>1, <2>2, Semaphores, ReaderUnitMoves, DiskUnitMoves DEF DiskInv, AlikeDisk
  <2>4. DoneOnce' /\ CountRight' /\ FileUnit'
    BY <1>1, <2>1, <2>2, Semaphores, DoneStays, CountStays, FileStays
       DEF DiskInv, AlikeDisk, AlikeFiles
  <2> QED
    BY <1>2, <2>3, <2>4 DEF DiskInv
<1> QED
  BY <1>1, <1>3, <1>4, EffectP, Semaphores

\* Release of readerLock.
LEMMA ReleaseReader ==
  ASSUME DiskInv, NEW next \in Place, Release(readerLock, next, next),
         UNCHANGED <<readerCnt, active>>,
         HasReaderLock(pc[currentThread]), ~HasReaderLock(next),
         AlikeDisk(pc[currentThread], next), AlikeFiles(pc[currentThread], next)
  PROVE  DiskInv'
<1>1. V(readerLock, next, next) /\ TypeOK /\ SchedTypeOK /\ SemTypeOK(Place)
  BY DEF Release, DiskInv, TypeOK
<1>2. TypeOK'
  BY <1>1, TypeV, Semaphores DEF TypeOK
<1>3. /\ value' = [value EXCEPT ![readerLock] = value[readerLock] + 1]
      /\ MovesTo(next)
  BY <1>1, PlainV, Semaphores DEF MovesTo
<1>4. /\ value'[readerLock] = value[readerLock] + 1
      /\ \A s \in Sem \ {readerLock} : value'[s] = value[s]
  BY <1>1, <1>3, Semaphores DEF SemTypeOK
<1>5. ReaderUnit' /\ DiskUnit'
  BY <1>1, <1>3, <1>4, Semaphores, ReaderUnitMoves, DiskUnitMoves DEF DiskInv, AlikeDisk
<1>6. DoneOnce' /\ CountRight' /\ FileUnit'
  BY <1>1, <1>3, <1>4, Semaphores, DoneStays, CountStays, FileStays
     DEF DiskInv, AlikeDisk, AlikeFiles
<1> QED
  BY <1>2, <1>5, <1>6 DEF DiskInv

\* PlusReader up to its count.
LEMMA PlusAcquireKeeps ==
  ASSUME DiskInv, NEW f \in File, pc[currentThread] \in {User, At1("plusAcquire", f)},
         Acquire(readerLock, At1("plusAcquire", f), At1("plusCount", f)),
         UNCHANGED <<readerCnt, active>>
  PROVE  DiskInv'
<1> DEFINE wait == At1("plusAcquire", f)
           next == At1("plusCount", f)
<1>1. wait \in Place /\ next \in Place
  BY Places DEF OnePlaces
<1>2. /\ ~HasReaderLock(pc[currentThread]) /\ ~HasReaderLock(wait) /\ HasReaderLock(next)
      /\ AlikeDisk(pc[currentThread], wait) /\ AlikeDisk(pc[currentThread], next)
  BY OneKinds DEF AlikeDisk, OnePlaces
<1>3. AlikeFiles(pc[currentThread], wait) /\ AlikeFiles(pc[currentThread], next)
  BY OneKinds, EndKinds DEF AlikeFiles, OnePlaces
<1> QED
  BY <1>1, <1>2, <1>3, AcquireReader

\* MinusReader up to its count.
LEMMA MinusAcquireKeeps ==
  ASSUME DiskInv, NEW f \in File, MinusAcquire(f)
  PROVE  DiskInv'
<1> DEFINE wait == At1("minusAcquire", f)
           next == At1("minusCount", f)
<1>0. /\ pc[currentThread] \in {At2("io", "read", f), wait}
      /\ Acquire(readerLock, wait, next) /\ UNCHANGED <<readerCnt, active>>
  BY DEF MinusAcquire, At
<1>1. wait \in Place /\ next \in Place
  BY Places DEF OnePlaces
<1>2. /\ "io" \in TwoPlaces /\ "read" \in Op /\ "minusAcquire" \in OnePlaces
      /\ "minusCount" \in OnePlaces
  BY DEF TwoPlaces, Op, OnePlaces
<1>3. /\ ~HasReaderLock(pc[currentThread]) /\ ~HasReaderLock(wait) /\ HasReaderLock(next)
      /\ AlikeDisk(pc[currentThread], wait) /\ AlikeDisk(pc[currentThread], next)
  BY <1>0, <1>2, OneKinds, TwoKinds DEF AlikeDisk
<1>4. AlikeFiles(pc[currentThread], wait) /\ AlikeFiles(pc[currentThread], next)
  <2> SUFFICES ASSUME NEW g \in File
               PROVE  \A q \in {wait, next} :
                        /\ Counted(pc[currentThread], g) <=> Counted(q, g)
                        /\ Shares(pc[currentThread], g) <=> Shares(q, g)
                        /\ Writes(pc[currentThread], g) <=> Writes(q, g)
                        /\ IsFirst(pc[currentThread], g) <=> IsFirst(q, g)
                        /\ IsLast(pc[currentThread], g) <=> IsLast(q, g)
    BY DEF AlikeFiles
  <2> QED
    BY <1>0, <1>2, OneKinds, TwoKinds, EndKinds
<1> QED
  BY <1>0, <1>1, <1>3, <1>4, AcquireReader

\* The ends of PlusReader and of MinusReader.
LEMMA ReaderReleaseKeeps ==
  ASSUME DiskInv, NEW f \in File, PlusRelease(f) \/ MinusRelease(f)
  PROVE  DiskInv'
<1>1. "io" \in TwoPlaces /\ "read" \in Op /\ "plusRelease" \in OnePlaces /\ "minusRelease" \in OnePlaces
  BY DEF TwoPlaces, Op, OnePlaces
<1>2. CASE PlusRelease(f)
  <2> DEFINE next == At2("io", "read", f)
  <2>1. /\ pc[currentThread] = At1("plusRelease", f)
        /\ Release(readerLock, next, next) /\ UNCHANGED <<readerCnt, active>>
    BY <1>2 DEF PlusRelease, At
  <2>2. next \in Place
    BY <1>1, Places
  <2>3. HasReaderLock(pc[currentThread]) /\ ~HasReaderLock(next) /\ AlikeDisk(pc[currentThread], next)
    BY <1>1, <2>1, OneKinds, TwoKinds DEF AlikeDisk
  <2>4. AlikeFiles(pc[currentThread], next)
    BY <1>1, <2>1, OneKinds, TwoKinds, EndKinds DEF AlikeFiles
  <2> QED
    BY <2>1, <2>2, <2>3, <2>4, ReleaseReader
<1>3. CASE MinusRelease(f)
  <2>1. /\ pc[currentThread] = At1("minusRelease", f)
        /\ Release(readerLock, User, User) /\ UNCHANGED <<readerCnt, active>>
    BY <1>3 DEF MinusRelease, At
  <2>2. HasReaderLock(pc[currentThread]) /\ ~HasReaderLock(User) /\ AlikeDisk(pc[currentThread], User)
    BY <1>1, <2>1, OneKinds DEF AlikeDisk
  <2>3. AlikeFiles(pc[currentThread], User)
    BY <1>1, <2>1, OneKinds, EndKinds DEF AlikeFiles
  <2> QED
    BY <2>1, <2>2, <2>3, Places, ReleaseReader
<1> QED
  BY <1>2, <1>3
-----------------------------------------------------------------------------
\* A thread that counts itself is the only one with readerLock: nobody is the
\* first or the last reader of any file meanwhile.
LEMMA Alone ==
  ASSUME DiskInv, HasReaderLock(pc[currentThread]), NEW t \in Thread, HasReaderLock(pc[t])
  PROVE  t = currentThread
BY DEF DiskInv, ReaderUnit, OneUnit, TypeOK, SchedTypeOK

\* The readers of a file are finitely many, and the count is theirs.
LEMMA ReadersFinite ==
  ASSUME NEW f \in File
  PROVE  IsFiniteSet(Readers(f))
<1>1. Readers(f) \subseteq Thread
  BY DEF Readers
<1> QED
  BY <1>1, SchedulerAssumption, FS_Subset

\* PlusReader counts: the first reader has yet to take the mutex, and another
\* one finds it taken by the readers before it.
LEMMA PlusCountKeeps ==
  ASSUME DiskInv, NEW f \in File, PlusCount(f)
  PROVE  DiskInv'
<1> DEFINE n == IF readerCnt[f] = 0 THEN "plusFirst" ELSE "plusRelease"
           q == At1(n, f)
           c == currentThread
<1>1. /\ pc[c] = At1("plusCount", f)
      /\ MovesTo(q)
      /\ readerCnt' = [readerCnt EXCEPT ![f] = readerCnt[f] + 1]
      /\ UNCHANGED <<value, queue, schedVars, active>>
  BY DEF PlusCount, Step, Goto, MovesTo, DiskInv, TypeOK
<1>2. /\ n \in {"plusFirst", "plusRelease"} /\ n \in OnePlaces
      /\ "plusCount" \in OnePlaces /\ "plusRelease" \in OnePlaces /\ "plusFirst" \in OnePlaces
  BY DEF OnePlaces
<1>3. c \in Thread /\ TypeOK /\ q \in Place
  BY <1>2, Places DEF DiskInv, TypeOK, SchedTypeOK
<1>4. TypeOK'
  BY <1>1, <1>3 DEF TypeOK, SchedTypeOK, SemTypeOK, schedVars, MovesTo
<1>5. ReaderUnit' /\ DiskUnit' /\ DoneOnce'
  BY <1>1, <1>2, <1>3, OneKinds, ReaderUnitMoves, DiskUnitMoves, DoneStays DEF DiskInv
<1>6. \A t \in Thread : pc'[t] = IF t = c THEN q ELSE pc[t]
  BY <1>1, <1>3, Moved
<1>7. \A g \in File : ~Counted(pc[c], g) /\ ~Shares(pc[c], g) /\ ~Writes(pc[c], g)
  BY <1>1, <1>2, OneKinds
<1>8. \A g \in File : /\ Counted(q, g) <=> g = f
                      /\ ~Writes(q, g) /\ ~IsLast(q, g)
                      /\ IsFirst(q, g) <=> readerCnt[f] = 0 /\ g = f
                      /\ Shares(q, g) <=> readerCnt[f] # 0 /\ g = f
  BY <1>2, OneKinds, EndKinds
<1> HIDE DEF n, q, c
<1>9. \A g \in File : Readers(g)' = IF g = f THEN Readers(f) \cup {c} ELSE Readers(g)
  BY <1>3, <1>6, <1>7, <1>8 DEF Readers
<1>10. c \notin Readers(f)
  BY <1>7 DEF Readers
<1>11. \A t \in Thread, g \in File : ~IsFirst(pc[t], g) /\ ~IsLast(pc[t], g)
  <2>1. HasReaderLock(pc[c])
    BY <1>1, OneKinds
  <2> QED
    BY <2>1, <1>1, Alone, KindsOfPlace, EndKinds, <1>2 DEF c
<1>12. readerCnt[f] = 0 <=> Readers(f) = {}
  BY ReadersFinite, FS_EmptySet DEF DiskInv, CountRight
<1>13. CountRight'
  <2>1. Cardinality(Readers(f) \cup {c}) = Cardinality(Readers(f)) + 1
    BY <1>10, ReadersFinite, FS_AddElement
  <2>2. \A g \in File : readerCnt'[g] = Cardinality(Readers(g)')
    BY <1>1, <1>3, <1>9, <2>1 DEF DiskInv, CountRight, TypeOK
  <2>3. \A g \in File, t \in Thread : IsFirst(pc'[t], g) => Readers(g)' = {t}
    BY <1>6, <1>8, <1>9, <1>11, <1>12
  <2>4. \A g \in File, t \in Thread : ~IsLast(pc'[t], g)
    BY <1>6, <1>8, <1>11
  <2> QED
    BY <2>2, <2>3, <2>4 DEF CountRight
<1>14. FileUnit'
  <2>1. \A g \in File, t \in Thread : Writes(pc'[t], g) <=> Writes(pc[t], g)
    BY <1>6, <1>7, <1>8
  <2>2. \A g \in File : {t \in Thread : Writes(pc'[t], g)} = {t \in Thread : Writes(pc[t], g)}
    BY <2>1
  <2>3. ASSUME readerCnt[f] # 0 PROVE value[f] = 0 /\ \A u \in Thread : ~Writes(pc[u], f)
    <3>1. PICK t \in Thread : Counted(pc[t], f)
      BY <1>12, <2>3 DEF Readers
    <3>2. Shares(pc[t], f)
      BY <3>1, <1>11, KindsOfPlace
    <3> QED
      BY <3>2 DEF DiskInv, FileUnit
  <2>4. \A g \in File, t \in Thread : Shares(pc'[t], g) =>
          value[g] = 0 /\ \A u \in Thread : ~Writes(pc[u], g)
    BY <1>6, <1>8, <2>3 DEF DiskInv, FileUnit
  <2> QED
    BY <1>1, <2>1, <2>2, <2>4 DEF DiskInv, FileUnit
<1> QED
  BY <1>4, <1>5, <1>13, <1>14 DEF DiskInv

\* MinusReader counts: the last reader has yet to give the mutex back.
LEMMA MinusCountKeeps ==
  ASSUME DiskInv, NEW f \in File, MinusCount(f)
  PROVE  DiskInv'
<1> DEFINE n == IF readerCnt[f] = 1 THEN "minusLast" ELSE "minusRelease"
           q == At1(n, f)
           c == currentThread
<1>1. /\ pc[c] = At1("minusCount", f)
      /\ MovesTo(q)
      /\ readerCnt' = [readerCnt EXCEPT ![f] = readerCnt[f] - 1]
      /\ UNCHANGED <<value, queue, schedVars, active>>
  BY DEF MinusCount, Step, Goto, MovesTo, DiskInv, TypeOK
<1>2. /\ n \in {"minusLast", "minusRelease"} /\ n \in OnePlaces
      /\ "minusCount" \in OnePlaces /\ "minusLast" \in OnePlaces /\ "minusRelease" \in OnePlaces
  BY DEF OnePlaces
<1>3. c \in Thread /\ TypeOK /\ q \in Place
  BY <1>2, Places DEF DiskInv, TypeOK, SchedTypeOK
<1>4. ReaderUnit' /\ DiskUnit' /\ DoneOnce'
  BY <1>1, <1>2, <1>3, OneKinds, ReaderUnitMoves, DiskUnitMoves, DoneStays DEF DiskInv
<1>5. \A t \in Thread : pc'[t] = IF t = c THEN q ELSE pc[t]
  BY <1>1, <1>3, Moved
<1>6. \A g \in File : /\ Counted(pc[c], g) <=> g = f
                      /\ Shares(pc[c], g) <=> g = f
                      /\ ~Writes(pc[c], g)
  BY <1>1, <1>2, OneKinds
<1>7. \A g \in File : /\ ~Counted(q, g) /\ ~Writes(q, g) /\ ~IsFirst(q, g)
                      /\ IsLast(q, g) <=> readerCnt[f] = 1 /\ g = f
                      /\ Shares(q, g) <=> readerCnt[f] = 1 /\ g = f
  BY <1>2, OneKinds, EndKinds
<1>8. \A t \in Thread, g \in File : ~IsFirst(pc[t], g) /\ ~IsLast(pc[t], g)
  <2>1. HasReaderLock(pc[c])
    BY <1>1, OneKinds
  <2> QED
    BY <2>1, <1>1, Alone, KindsOfPlace, EndKinds, <1>2
<1>9. value[f] = 0 /\ \A u \in Thread : ~Writes(pc[u], f)
  BY <1>3, <1>6 DEF DiskInv, FileUnit
<1>10. readerCnt \in [File -> Nat] /\ \A g \in File : readerCnt[g] = Cardinality(Readers(g))
  BY DEF DiskInv, CountRight, TypeOK
<1>11. UNCHANGED value /\ FileUnit
  BY <1>1 DEF DiskInv
<1> HIDE DEF n, q, c
<1>12. \A g \in File : Readers(g)' = IF g = f THEN Readers(f) \ {c} ELSE Readers(g)
  BY <1>3, <1>5, <1>6, <1>7 DEF Readers
<1>13. c \in Readers(f)
  BY <1>3, <1>6 DEF Readers
<1>14. /\ Cardinality(Readers(f) \ {c}) = readerCnt[f] - 1
       /\ readerCnt[f] - 1 \in Nat
       /\ readerCnt[f] = 1 => Readers(f) = {c}
  <2>1. /\ Cardinality(Readers(f) \ {c}) = readerCnt[f] - 1
        /\ Cardinality(Readers(f) \ {c}) \in Nat
        /\ IsFiniteSet(Readers(f) \ {c})
    BY <1>10, <1>13, ReadersFinite, FS_RemoveElement, FS_CardinalityType
  <2>2. readerCnt[f] = 1 => Readers(f) \ {c} = {}
    BY <2>1, FS_EmptySet
  <2> QED
    BY <1>13, <2>1, <2>2
<1>15. TypeOK'
  <2>1. readerCnt' \in [File -> Nat]
    BY <1>1, <1>10, <1>14
  <2> QED
    BY <1>1, <1>3, <2>1 DEF TypeOK, SchedTypeOK, SemTypeOK, schedVars, MovesTo
<1>16. CountRight'
  <2>1. \A g \in File : readerCnt'[g] = Cardinality(Readers(g)')
    BY <1>1, <1>10, <1>12, <1>14
  <2>2. \A g \in File, t \in Thread : ~IsFirst(pc'[t], g)
    BY <1>5, <1>7, <1>8
  <2>3. \A g \in File, t \in Thread : IsLast(pc'[t], g) => Readers(g)' = {}
    BY <1>5, <1>7, <1>8, <1>12, <1>14
  <2> QED
    BY <2>1, <2>2, <2>3 DEF CountRight
<1>17. FileUnit'
  <2>1. \A g \in File, t \in Thread : /\ Writes(pc'[t], g) <=> Writes(pc[t], g)
                                      /\ Shares(pc'[t], g) => Shares(pc[t], g)
    BY <1>5, <1>6, <1>7
  <2>2. \A g \in File : {t \in Thread : Writes(pc'[t], g)} = {t \in Thread : Writes(pc[t], g)}
    BY <2>1
  <2> QED
    BY <1>11, <2>1, <2>2 DEF FileUnit
<1> QED
  BY <1>4, <1>15, <1>16, <1>17 DEF DiskInv
-----------------------------------------------------------------------------
\* P of the first reader: once it has the mutex, nobody writes.
LEMMA PlusFirstKeeps ==
  ASSUME DiskInv, NEW f \in File, PlusFirst(f)
  PROVE  DiskInv'
<1> DEFINE wait == At1("plusFirst", f)
           next == At1("plusRelease", f)
           c == currentThread
<1>1. pc[c] = wait /\ P(f, wait, next) /\ UNCHANGED <<readerCnt, active>>
  BY DEF PlusFirst, At
<1>2. "plusFirst" \in OnePlaces /\ "plusRelease" \in OnePlaces /\ wait \in Place /\ next \in Place
  BY Places DEF OnePlaces
<1>3. f \in Sem /\ c \in Thread /\ TypeOK /\ SchedTypeOK /\ SemTypeOK(Place)
  BY Semaphores DEF DiskInv, TypeOK, SchedTypeOK
<1>4. TypeOK'
  BY <1>1, <1>2, <1>3, TypeP DEF TypeOK
<1>5. CASE value' = value /\ MovesTo(wait)
  BY <1>1, <1>4, <1>5, NeutralKeeps DEF AlikeDisk, AlikeFiles
<1>6. CASE value[f] # 0 /\ value' = [value EXCEPT ![f] = value[f] - 1] /\ MovesTo(next)
  <2>1. \A s \in Sem : value'[s] = IF s = f THEN value[f] - 1 ELSE value[s]
    BY <1>3, <1>6 DEF SemTypeOK
  <2>2. ReaderUnit' /\ DiskUnit' /\ DoneOnce'
    BY <1>1, <1>2, <1>3, <1>6, <2>1, Semaphores, OneKinds, ReaderUnitMoves, DiskUnitMoves, DoneStays
       DEF DiskInv
  <2>3. CountRight'
    BY <1>1, <1>2, <1>3, <1>6, OneKinds, EndKinds, CountStays DEF DiskInv
  <2>4. value[f] = 1 /\ \A t \in Thread : ~Writes(pc[t], f)
    BY <1>3, <1>6 DEF DiskInv, FileUnit, OneUnit
  <2>5. \A t \in Thread : pc'[t] = IF t = c THEN next ELSE pc[t]
    BY <1>3, <1>6, Moved
  <2>6. \A t \in Thread, g \in File : Writes(pc'[t], g) <=> Writes(pc[t], g)
    BY <1>1, <1>2, <2>5, OneKinds
  <2>7. \A g \in File : {t \in Thread : Writes(pc'[t], g)} = {t \in Thread : Writes(pc[t], g)}
    BY <2>6
  <2>8. \A t \in Thread, g \in File : g # f => (Shares(pc'[t], g) => Shares(pc[t], g))
    BY <1>2, <2>5, OneKinds
  <2>9. OneUnit(0, {t \in Thread : Writes(pc[t], f)})
    BY <2>4 DEF OneUnit
  <2>10. \A g \in File : g # f => value'[g] = value[g]
    BY <2>1, Semaphores
  <2>11. value'[f] = 0
    BY <1>3, <2>1, <2>4
  <2>12. FileUnit'
    <3> HIDE DEF next, wait, c
    <3> SUFFICES ASSUME NEW g \in File
                 PROVE  /\ OneUnit(value'[g], {t \in Thread : Writes(pc'[t], g)})
                        /\ \A t \in Thread : Shares(pc'[t], g) =>
                             value'[g] = 0 /\ \A u \in Thread : ~Writes(pc'[u], g)
      BY DEF FileUnit
    <3>1. CASE g = f
      BY <2>4, <2>6, <2>7, <2>9, <2>11, <3>1
    <3>2. CASE g # f
      BY <2>6, <2>7, <2>8, <2>10, <3>2 DEF DiskInv, FileUnit
    <3> QED
      BY <3>1, <3>2
  <2> QED
    BY <1>4, <2>2, <2>3, <2>12 DEF DiskInv
<1> QED
  BY <1>1, <1>3, <1>5, <1>6, EffectP DEF MovesTo

\* V of the last reader: no reader is left.
LEMMA LastReaderKeeps ==
  ASSUME DiskInv, NEW f \in File, MinusLast(f)
  PROVE  DiskInv'
<1> DEFINE next == At1("minusRelease", f)
           c == currentThread
<1>1. pc[c] = At1("minusLast", f) /\ V(f, next, next) /\ UNCHANGED <<readerCnt, active>>
  BY DEF MinusLast, At
<1>2. "minusLast" \in OnePlaces /\ "minusRelease" \in OnePlaces /\ next \in Place
  BY Places DEF OnePlaces
<1>3. f \in Sem /\ c \in Thread /\ TypeOK /\ SchedTypeOK /\ SemTypeOK(Place)
  BY Semaphores DEF DiskInv, TypeOK, SchedTypeOK
<1>4. TypeOK'
  BY <1>1, <1>2, <1>3, TypeV DEF TypeOK
<1>5. value' = [value EXCEPT ![f] = value[f] + 1] /\ MovesTo(next)
  BY <1>1, <1>3, PlainV DEF MovesTo
<1>6. \A s \in Sem : value'[s] = IF s = f THEN value[f] + 1 ELSE value[s]
  BY <1>3, <1>5 DEF SemTypeOK
<1>7. ReaderUnit' /\ DiskUnit' /\ DoneOnce'
  BY <1>1, <1>2, <1>3, <1>5, <1>6, Semaphores, OneKinds, ReaderUnitMoves, DiskUnitMoves, DoneStays
     DEF DiskInv
<1>8. CountRight'
  BY <1>1, <1>2, <1>3, <1>5, OneKinds, EndKinds, CountStays DEF DiskInv
<1>9. /\ value[f] = 0 /\ \A t \in Thread : ~Writes(pc[t], f)
      /\ IsLast(pc[c], f) /\ HasReaderLock(pc[c])
  <2>1. Shares(pc[c], f) /\ IsLast(pc[c], f) /\ HasReaderLock(pc[c])
    BY <1>1, <1>2, OneKinds, EndKinds
  <2> QED
    BY <1>3, <2>1 DEF DiskInv, FileUnit
<1>10. \A t \in Thread : t # c => ~Shares(pc[t], f)
  <2> SUFFICES ASSUME NEW t \in Thread, t # c, Shares(pc[t], f) PROVE FALSE
    OBVIOUS
  <2>1. ~IsLast(pc[t], f)
    BY <1>9, Alone, KindsOfPlace
  <2>2. t \in Readers(f)
    BY <2>1, KindsOfPlace DEF Readers
  <2> QED
    BY <1>3, <1>9, <2>2 DEF DiskInv, CountRight
<1>11. \A t \in Thread : pc'[t] = IF t = c THEN next ELSE pc[t]
  BY <1>3, <1>5, Moved
<1>12. \A g \in File : ~Writes(pc[c], g) /\ ~Writes(next, g) /\ ~Shares(next, g)
  BY <1>1, <1>2, OneKinds
<1> HIDE DEF next, c
<1>13. \A t \in Thread, g \in File : /\ Writes(pc'[t], g) <=> Writes(pc[t], g)
                                     /\ Shares(pc'[t], g) => Shares(pc[t], g) /\ g # f
  BY <1>10, <1>11, <1>12
<1>14. \A g \in File : {t \in Thread : Writes(pc'[t], g)} = {t \in Thread : Writes(pc[t], g)}
  BY <1>13
<1>15. \A g \in File : value'[g] = IF g = f THEN 1 ELSE value[g]
  BY <1>6, <1>9, Semaphores
<1>16. OneUnit(1, {t \in Thread : Writes(pc[t], f)})
  BY <1>9 DEF OneUnit
<1>17. FileUnit'
  <2> SUFFICES ASSUME NEW g \in File
               PROVE  /\ OneUnit(value'[g], {t \in Thread : Writes(pc'[t], g)})
                      /\ \A t \in Thread : Shares(pc'[t], g) =>
                           value'[g] = 0 /\ \A u \in Thread : ~Writes(pc'[u], g)
    BY DEF FileUnit
  <2>1. CASE g = f
    BY <1>13, <1>14, <1>15, <1>16, <2>1
  <2>2. CASE g # f
    BY <1>13, <1>14, <1>15, <2>2 DEF DiskInv, FileUnit
  <2> QED
    BY <2>1, <2>2
<1> QED
  BY <1>4, <1>7, <1>8, <1>17 DEF DiskInv

\* PlusWriter: P on the file's mutex.
LEMMA WriterKeeps ==
  ASSUME DiskInv, NEW f \in File, pc[currentThread] \in {User, At1("writerWait", f)},
         P(f, At1("writerWait", f), At2("io", "write", f)), UNCHANGED <<readerCnt, active>>
  PROVE  DiskInv'
<1> DEFINE wait == At1("writerWait", f)
           next == At2("io", "write", f)
           c == currentThread
<1>1. /\ "writerWait" \in OnePlaces /\ "io" \in TwoPlaces /\ "write" \in Op /\ "write" # "read"
      /\ wait \in Place /\ next \in Place
  BY Places DEF OnePlaces, TwoPlaces, Op
<1>2. f \in Sem /\ c \in Thread /\ TypeOK /\ SchedTypeOK /\ SemTypeOK(Place)
  BY Semaphores DEF DiskInv, TypeOK, SchedTypeOK
<1>3. TypeOK'
  BY <1>1, <1>2, TypeP DEF TypeOK
<1>4. CASE value' = value /\ MovesTo(wait)
  <2>1. /\ AlikeDisk(pc[c], wait)
        /\ HasReaderLock(wait) <=> HasReaderLock(pc[c])
    BY <1>1, OneKinds DEF AlikeDisk
  <2>2. AlikeFiles(pc[c], wait)
    BY <1>1, OneKinds, EndKinds DEF AlikeFiles
  <2> QED
    BY <1>3, <1>4, <2>1, <2>2, NeutralKeeps
<1>5. CASE value[f] # 0 /\ value' = [value EXCEPT ![f] = value[f] - 1] /\ MovesTo(next)
  <2>1. \A s \in Sem : value'[s] = IF s = f THEN value[f] - 1 ELSE value[s]
    BY <1>2, <1>5 DEF SemTypeOK
  <2>2. /\ ~HasReaderLock(pc[c]) /\ ~HasReaderLock(next)
        /\ ~HasDiskLock(pc[c]) /\ ~HasDiskLock(next) /\ ~Waits(pc[c]) /\ ~Waits(next)
    BY <1>1, OneKinds, TwoKinds
  <2>3. ReaderUnit' /\ DiskUnit' /\ DoneOnce'
    BY <1>2, <1>5, <2>1, <2>2, Semaphores, ReaderUnitMoves, DiskUnitMoves, DoneStays DEF DiskInv
  <2>4. \A g \in File : /\ ~Counted(pc[c], g) /\ ~Shares(pc[c], g) /\ ~Writes(pc[c], g)
                        /\ ~Counted(next, g) /\ ~IsFirst(next, g) /\ ~IsLast(next, g)
                        /\ ~Shares(next, g) /\ (Writes(next, g) <=> g = f)
    BY <1>1, OneKinds, TwoKinds, EndKinds
  <2>5. CountRight'
    BY <1>2, <1>5, <2>4, CountStays DEF DiskInv
  <2>6. \A t \in Thread : pc'[t] = IF t = c THEN next ELSE pc[t]
    BY <1>2, <1>5, Moved
  <2>7. /\ OneUnit(value[f], {t \in Thread : Writes(pc[t], f)})
        /\ \A t \in Thread : ~Shares(pc[t], f)
    BY <1>5 DEF DiskInv, FileUnit
  <2> HIDE DEF next, wait, c
  <2>8. {t \in Thread : Writes(pc'[t], f)} = {t \in Thread : Writes(pc[t], f)} \cup {c}
    BY <1>2, <2>4, <2>6
  <2>9. OneUnit(value'[f], {t \in Thread : Writes(pc'[t], f)})
    <3>1. value'[f] = value[f] - 1
      BY <1>2, <2>1
    <3>2. OneUnit(value[f] - 1, {t \in Thread : Writes(pc[t], f)} \cup {c})
      BY <1>5, <2>7, UnitTaken
    <3> QED
      BY <2>8, <3>1, <3>2
  <2>10. \A t \in Thread, g \in File : /\ Shares(pc'[t], g) => Shares(pc[t], g)
                                       /\ g # f => (Writes(pc'[t], g) <=> Writes(pc[t], g))
    BY <2>4, <2>6
  <2>11. \A g \in File : g # f => 
           {t \in Thread : Writes(pc'[t], g)} = {t \in Thread : Writes(pc[t], g)}
    BY <2>10
  <2>12. \A g \in File : g # f => value'[g] = value[g]
    BY <2>1, Semaphores
  <2>13. FileUnit'
    <3> SUFFICES ASSUME NEW g \in File
                 PROVE  /\ OneUnit(value'[g], {t \in Thread : Writes(pc'[t], g)})
                        /\ \A t \in Thread : Shares(pc'[t], g) =>
                             value'[g] = 0 /\ \A u \in Thread : ~Writes(pc'[u], g)
      BY DEF FileUnit
    <3>1. CASE g = f
      BY <2>7, <2>9, <2>10, <3>1
    <3>2. CASE g # f
      BY <2>10, <2>11, <2>12, <3>2 DEF DiskInv, FileUnit
    <3> QED
      BY <3>1, <3>2
  <2> QED
    BY <1>3, <2>3, <2>5, <2>13 DEF DiskInv
<1> QED
  BY <1>2, <1>4, <1>5, EffectP DEF MovesTo

\* MinusWriter: V on the file's mutex.
LEMMA MinusWriterKeeps ==
  ASSUME DiskInv, NEW f \in File, MinusWriter(f)
  PROVE  DiskInv'
<1> DEFINE c == currentThread
<1>1. pc[c] = At2("io", "write", f) /\ V(f, User, User) /\ UNCHANGED <<readerCnt, active>>
  BY DEF MinusWriter, At
<1>2. "io" \in TwoPlaces /\ "write" \in Op /\ "write" # "read" /\ User \in Place
  BY Places DEF TwoPlaces, Op
<1>3. f \in Sem /\ c \in Thread /\ TypeOK /\ SchedTypeOK /\ SemTypeOK(Place)
  BY Semaphores DEF DiskInv, TypeOK, SchedTypeOK
<1>4. TypeOK'
  BY <1>1, <1>2, <1>3, TypeV DEF TypeOK
<1>5. value' = [value EXCEPT ![f] = value[f] + 1] /\ MovesTo(User)
  BY <1>1, <1>3, PlainV DEF MovesTo
<1>6. \A s \in Sem : value'[s] = IF s = f THEN value[f] + 1 ELSE value[s]
  BY <1>3, <1>5 DEF SemTypeOK
<1>7. /\ ~HasReaderLock(pc[c]) /\ ~HasReaderLock(User)
      /\ ~HasDiskLock(pc[c]) /\ ~HasDiskLock(User) /\ ~Waits(pc[c]) /\ ~Waits(User)
  BY <1>1, <1>2, OneKinds, TwoKinds
<1>8. ReaderUnit' /\ DiskUnit' /\ DoneOnce'
  BY <1>1, <1>3, <1>5, <1>6, <1>7, Semaphores, ReaderUnitMoves, DiskUnitMoves, DoneStays DEF DiskInv
<1>9. \A g \in File : /\ ~Counted(pc[c], g) /\ ~Counted(User, g) /\ ~IsFirst(User, g)
                      /\ ~IsLast(User, g) /\ ~Shares(pc[c], g) /\ ~Shares(User, g)
                      /\ (Writes(pc[c], g) <=> g = f) /\ ~Writes(User, g)
  BY <1>1, <1>2, OneKinds, TwoKinds, EndKinds
<1>10. CountRight'
  BY <1>1, <1>3, <1>5, <1>9, CountStays DEF DiskInv
<1>11. \A t \in Thread : pc'[t] = IF t = c THEN User ELSE pc[t]
  BY <1>3, <1>5, Moved
<1>12. /\ OneUnit(value[f], {t \in Thread : Writes(pc[t], f)})
       /\ \A t \in Thread : ~Shares(pc[t], f)
  BY <1>3, <1>9 DEF DiskInv, FileUnit
<1> HIDE DEF c
<1>13. {t \in Thread : Writes(pc'[t], f)} = {t \in Thread : Writes(pc[t], f)} \ {c}
  BY <1>3, <1>9, <1>11
<1>14. OneUnit(value'[f], {t \in Thread : Writes(pc'[t], f)})
  BY <1>3, <1>6, <1>9, <1>12, <1>13, UnitGiven
<1>15. \A t \in Thread, g \in File : /\ Shares(pc'[t], g) => Shares(pc[t], g)
                                     /\ g # f => (Writes(pc'[t], g) <=> Writes(pc[t], g))
  BY <1>9, <1>11
<1>16. \A g \in File : g # f =>
         {t \in Thread : Writes(pc'[t], g)} = {t \in Thread : Writes(pc[t], g)}
  BY <1>15
<1>17. \A g \in File : g # f => value'[g] = value[g]
  BY <1>6, Semaphores
<1>18. FileUnit'
  <2> SUFFICES ASSUME NEW g \in File
               PROVE  /\ OneUnit(value'[g], {t \in Thread : Writes(pc'[t], g)})
                      /\ \A t \in Thread : Shares(pc'[t], g) =>
                           value'[g] = 0 /\ \A u \in Thread : ~Writes(pc'[u], g)
    BY DEF FileUnit
  <2>1. CASE g = f
    BY <1>12, <1>14, <1>15, <2>1
  <2>2. CASE g # f
    BY <1>15, <1>16, <1>17, <2>2 DEF DiskInv, FileUnit
  <2> QED
    BY <2>1, <2>2
<1> QED
  BY <1>4, <1>8, <1>10, <1>18 DEF DiskInv
-----------------------------------------------------------------------------
\* ReadSector and WriteSector take diskLock ...
LEMMA SectorAcquireKeeps ==
  ASSUME DiskInv, NEW o \in Op, NEW f \in File, SectorAcquire(o, f)
  PROVE  DiskInv'
<1> DEFINE wait == At2("ioAcquire", o, f)
           next == At2("ioRequest", o, f)
           c == currentThread
<1>1. /\ pc[c] \in {At2("io", o, f), wait} /\ P(diskLock, wait, next)
      /\ UNCHANGED <<readerCnt, active>>
  BY DEF SectorAcquire, At, Acquire
<1>2. /\ "io" \in TwoPlaces /\ "ioAcquire" \in TwoPlaces /\ "ioRequest" \in TwoPlaces
      /\ wait \in Place /\ next \in Place
  BY Places DEF TwoPlaces
<1>3. c \in Thread /\ TypeOK /\ SchedTypeOK /\ SemTypeOK(Place)
  BY DEF DiskInv, TypeOK, SchedTypeOK
<1>4. TypeOK'
  BY <1>1, <1>2, <1>3, TypeP, Semaphores DEF TypeOK
<1>5. /\ ~HasReaderLock(pc[c]) /\ ~HasReaderLock(wait) /\ ~HasReaderLock(next)
      /\ ~HasDiskLock(pc[c]) /\ ~HasDiskLock(wait) /\ HasDiskLock(next)
      /\ ~Waits(pc[c]) /\ ~Waits(wait) /\ ~Waits(next)
  BY <1>1, <1>2, TwoKinds
<1>6. AlikeFiles(pc[c], wait) /\ AlikeFiles(pc[c], next)
  BY <1>1, <1>2, TwoKinds, EndKinds DEF AlikeFiles
<1>7. CASE value' = value /\ MovesTo(wait)
  BY <1>1, <1>4, <1>5, <1>6, <1>7, NeutralKeeps DEF AlikeDisk
<1>8. CASE /\ value[diskLock] # 0 /\ value' = [value EXCEPT ![diskLock] = value[diskLock] - 1]
           /\ MovesTo(next)
  <2>1. \A s \in Sem : value'[s] = IF s = diskLock THEN value[diskLock] - 1 ELSE value[s]
    BY <1>3, <1>8 DEF SemTypeOK
  <2> HIDE DEF wait, next
  <2>2. ReaderUnit' /\ DiskUnit' /\ DoneOnce'
    BY <1>1, <1>3, <1>5, <1>8, <2>1, Semaphores, ReaderUnitMoves, DiskUnitMoves, DoneStays DEF DiskInv
  <2>3. CountRight' /\ FileUnit'
    BY <1>1, <1>3, <1>6, <1>8, <2>1, Semaphores, CountStays, FileStays DEF DiskInv, AlikeFiles
  <2> QED
    BY <1>4, <2>2, <2>3 DEF DiskInv
<1> QED
  BY <1>1, <1>3, <1>7, <1>8, EffectP, Semaphores DEF MovesTo

\* ... ask the disk, which nobody else is waiting for ...
LEMMA RequestKeeps ==
  ASSUME DiskInv, NEW o \in Op, NEW f \in File, Request(o, f)
  PROVE  DiskInv'
<1> DEFINE next == At2("ioWait", o, f)
           c == currentThread
<1>1. /\ pc[c] = At2("ioRequest", o, f) /\ MovesTo(next) /\ active' = TRUE
      /\ UNCHANGED <<value, queue, schedVars, readerCnt>>
  BY DEF Request, Step, Goto, MovesTo
<1>2. "ioRequest" \in TwoPlaces /\ "ioWait" \in TwoPlaces /\ next \in Place
  BY Places DEF TwoPlaces
<1>3. c \in Thread /\ TypeOK
  BY DEF DiskInv, TypeOK, SchedTypeOK
<1>4. TypeOK'
  BY <1>1, <1>2, <1>3 DEF TypeOK, SchedTypeOK, SemTypeOK, schedVars, MovesTo
<1>5. /\ ~HasReaderLock(pc[c]) /\ ~HasReaderLock(next)
      /\ HasDiskLock(pc[c]) /\ HasDiskLock(next) /\ ~Waits(pc[c]) /\ Waits(next)
  BY <1>1, <1>2, TwoKinds
<1>6. AlikeFiles(pc[c], next)
  BY <1>1, <1>2, TwoKinds, EndKinds DEF AlikeFiles
<1>7. \A t \in Thread : ~Waits(pc[t])
  BY <1>3, <1>5, KindsOfPlace DEF DiskInv, DiskUnit, OneUnit, Waits, HasDiskLock
<1>8. \A t \in Thread : pc'[t] = IF t = c THEN next ELSE pc[t]
  BY <1>1, <1>3, Moved
<1> HIDE DEF next
<1>9. ReaderUnit' /\ DiskUnit'
  BY <1>1, <1>3, <1>5, ReaderUnitMoves, DiskUnitMoves DEF DiskInv
<1>10. DoneOnce'
  BY <1>1, <1>3, <1>5, <1>7, <1>8 DEF DiskInv, DoneOnce
<1>11. CountRight' /\ FileUnit'
  BY <1>1, <1>3, <1>6, CountStays, FileStays DEF DiskInv, AlikeFiles
<1> QED
  BY <1>4, <1>9, <1>10, <1>11 DEF DiskInv

\* ... wait for the interrupt of that request ...
LEMMA SectorWaitKeeps ==
  ASSUME DiskInv, NEW o \in Op, NEW f \in File, SectorWait(o, f)
  PROVE  DiskInv'
<1> DEFINE wait == At2("ioWait", o, f)
           next == At2("ioDone", o, f)
           c == currentThread
<1>1. pc[c] = wait /\ P(done, wait, next) /\ UNCHANGED <<readerCnt, active>>
  BY DEF SectorWait, At
<1>2. "ioDone" \in TwoPlaces /\ "ioWait" \in TwoPlaces /\ wait \in Place /\ next \in Place
  BY Places DEF TwoPlaces
<1>3. c \in Thread /\ TypeOK /\ SchedTypeOK /\ SemTypeOK(Place)
  BY DEF DiskInv, TypeOK, SchedTypeOK
<1>4. TypeOK'
  BY <1>1, <1>2, <1>3, TypeP, Semaphores DEF TypeOK
<1>5. CASE value' = value /\ MovesTo(wait)
  BY <1>1, <1>4, <1>5, NeutralKeeps DEF AlikeDisk, AlikeFiles
<1>6. CASE value[done] # 0 /\ value' = [value EXCEPT ![done] = value[done] - 1] /\ MovesTo(next)
  <2>1. \A s \in Sem : value'[s] = IF s = done THEN value[done] - 1 ELSE value[s]
    BY <1>3, <1>6 DEF SemTypeOK
  <2>2. /\ ~HasReaderLock(pc[c]) /\ ~HasReaderLock(next)
        /\ HasDiskLock(pc[c]) /\ HasDiskLock(next)
    BY <1>1, <1>2, TwoKinds
  <2>3. AlikeFiles(pc[c], next)
    BY <1>1, <1>2, TwoKinds, EndKinds DEF AlikeFiles
  <2> HIDE DEF wait, next
  <2>4. ReaderUnit' /\ DiskUnit'
    BY <1>1, <1>3, <1>6, <2>1, <2>2, Semaphores, ReaderUnitMoves, DiskUnitMoves DEF DiskInv
  <2>5. DoneOnce'
    <3>1. value[done] = 1 /\ ~active
      BY <1>6 DEF DiskInv, DoneOnce
    <3>2. value'[done] = 0 /\ ~active'
      BY <1>1, <2>1, <3>1, Semaphores
    <3> QED
      BY <3>2 DEF DoneOnce
  <2>6. CountRight' /\ FileUnit'
    BY <1>1, <1>3, <1>6, <2>1, <2>3, Semaphores, CountStays, FileStays DEF DiskInv, AlikeFiles
  <2> QED
    BY <1>4, <2>4, <2>5, <2>6 DEF DiskInv
<1> QED
  BY <1>1, <1>3, <1>5, <1>6, EffectP, Semaphores DEF MovesTo

\* ... and give diskLock back.
LEMMA SectorReleaseKeeps ==
  ASSUME DiskInv, NEW o \in Op, NEW f \in File, SectorRelease(o, f)
  PROVE  DiskInv'
<1> DEFINE next == At2("io", o, f)
           c == currentThread
<1>1. pc[c] = At2("ioDone", o, f) /\ V(diskLock, next, next) /\ UNCHANGED <<readerCnt, active>>
  BY DEF SectorRelease, At, Release
<1>2. "ioDone" \in TwoPlaces /\ "io" \in TwoPlaces /\ next \in Place
  BY Places DEF TwoPlaces
<1>3. c \in Thread /\ TypeOK /\ SchedTypeOK /\ SemTypeOK(Place)
  BY DEF DiskInv, TypeOK, SchedTypeOK
<1>4. TypeOK'
  BY <1>1, <1>2, <1>3, TypeV, Semaphores DEF TypeOK
<1>5. value' = [value EXCEPT ![diskLock] = value[diskLock] + 1] /\ MovesTo(next)
  BY <1>1, <1>3, PlainV, Semaphores DEF MovesTo
<1>6. \A s \in Sem : value'[s] = IF s = diskLock THEN value[diskLock] + 1 ELSE value[s]
  BY <1>3, <1>5 DEF SemTypeOK
<1>7. /\ ~HasReaderLock(pc[c]) /\ ~HasReaderLock(next)
      /\ HasDiskLock(pc[c]) /\ ~HasDiskLock(next) /\ ~Waits(pc[c]) /\ ~Waits(next)
  BY <1>1, <1>2, TwoKinds
<1>8. AlikeFiles(pc[c], next)
  BY <1>1, <1>2, TwoKinds, EndKinds DEF AlikeFiles
<1> HIDE DEF next
<1>9. ReaderUnit' /\ DiskUnit' /\ DoneOnce'
  BY <1>1, <1>3, <1>5, <1>6, <1>7, Semaphores, ReaderUnitMoves, DiskUnitMoves, DoneStays DEF DiskInv
<1>10. CountRight' /\ FileUnit'
  BY <1>1, <1>3, <1>5, <1>6, <1>8, Semaphores, CountStays, FileStays DEF DiskInv, AlikeFiles
<1> QED
  BY <1>4, <1>9, <1>10 DEF DiskInv

\* The interrupt finds the thread that asked still waiting.
LEMMA HandleInterruptKeeps ==
  ASSUME DiskInv, HandleInterrupt
  PROVE  DiskInv'
<1> DEFINE q == pc[currentThread]
<1>1. active /\ active' = FALSE /\ V(done, q, q) /\ UNCHANGED readerCnt
  BY DEF HandleInterrupt
<1>2. currentThread \in Thread /\ TypeOK /\ SchedTypeOK /\ SemTypeOK(Place) /\ q \in Place
  BY DEF DiskInv, TypeOK, SchedTypeOK, SemTypeOK
<1>3. TypeOK'
  BY <1>1, <1>2, TypeV, Semaphores DEF TypeOK
<1>4. value' = [value EXCEPT ![done] = value[done] + 1] /\ MovesTo(q)
  BY <1>1, <1>2, PlainV, Semaphores DEF MovesTo
<1>5. \A s \in Sem : value'[s] = IF s = done THEN value[done] + 1 ELSE value[s]
  BY <1>2, <1>4 DEF SemTypeOK
<1>6. pc' = pc
  BY <1>2, <1>4 DEF MovesTo, SemTypeOK
<1>7. ReaderUnit' /\ DiskUnit'
  BY <1>2, <1>4, <1>5, Semaphores, ReaderUnitMoves, DiskUnitMoves DEF DiskInv
<1>8. DoneOnce'
  <2>1. value[done] = 0 /\ value'[done] = 1 /\ \E t \in Thread : Waits(pc[t])
    BY <1>1, <1>5, Semaphores DEF DiskInv, DoneOnce
  <2> QED
    BY <1>1, <1>6, <2>1 DEF DoneOnce
<1>9. CountRight' /\ FileUnit'
  BY <1>1, <1>2, <1>4, <1>5, Semaphores, CountStays, FileStays DEF DiskInv
<1> QED
  BY <1>3, <1>7, <1>8, <1>9 DEF DiskInv

\* The processor changes hands.
LEMMA SwitchKeeps ==
  ASSUME DiskInv, Yield \/ LeaveIdle
  PROVE  DiskInv'
<1>1. UNCHANGED <<value, queue, pc, readerCnt, active>>
  BY DEF Yield, YieldAt, LeaveIdle, semVars
<1>2. SchedTypeOK'
  <2>1. SchedTypeOK /\ readyList \in Seq(Thread) /\ status \in [Thread -> ThreadStatus]
    BY DEF DiskInv, TypeOK, SchedTypeOK
  <2>2. CASE Yield
    BY <2>1, <2>2, TypeYield DEF Yield, YieldAt
  <2>3. CASE LeaveIdle
    BY <2>1, <2>3, TypeRun DEF LeaveIdle
  <2> QED
    BY <2>2, <2>3
<1>3. TypeOK'
  BY <1>1, <1>2 DEF DiskInv, TypeOK, SemTypeOK
<1> QED
  BY <1>1, <1>3 DEF DiskInv, ReaderUnit, DiskUnit, DoneOnce, CountRight, FileUnit, Readers
-----------------------------------------------------------------------------
\* Initially nobody has anything, and the semaphores have their units.
LEMMA InitInv == Init => DiskInv
<1> SUFFICES ASSUME Init PROVE DiskInv
  OBVIOUS
<1>1. /\ \A t \in Thread : pc[t] = User
      /\ \A s \in Sem : value[s] = IF s = done THEN 0 ELSE 1
      /\ active = FALSE /\ readerCnt = [f \in File |-> 0]
  BY DEF Init, MonitorInit
<1>2. TypeOK
  <2>1. Cardinality(Thread) \in Nat /\ Cardinality(Thread) # 0
    BY SchedulerAssumption, FS_CardinalityType, FS_EmptySet
  <2>2. readyList \in [1..(Cardinality(Thread) - 1) -> Thread]
    BY DEF Init, MonitorInit
  <2>3. readyList \in Seq(Thread)
    BY <2>1, <2>2, SeqDef
  <2>4. SchedTypeOK
    BY <2>3 DEF Init, MonitorInit, SchedTypeOK, ThreadStatus
  <2>5. SemTypeOK(Place)
    BY Places, EmptySeq DEF Init, MonitorInit, SemTypeOK
  <2> QED
    BY <1>1, <2>4, <2>5 DEF TypeOK
<1>3. \A t \in Thread : ~HasReaderLock(pc[t]) /\ ~HasDiskLock(pc[t]) /\ ~Waits(pc[t])
  BY <1>1, Parts DEF HasReaderLock, HasDiskLock, Waits
<1>4. ReaderUnit /\ DiskUnit /\ DoneOnce
  BY <1>1, <1>3, Semaphores DEF ReaderUnit, DiskUnit, DoneOnce, OneUnit
<1>5. \A t \in Thread, f \in File : /\ ~Counted(pc[t], f) /\ ~Shares(pc[t], f) /\ ~Writes(pc[t], f)
                                    /\ ~IsFirst(pc[t], f) /\ ~IsLast(pc[t], f)
  BY <1>1, OneKinds, EndKinds
<1>6. CountRight
  <2>1. \A f \in File : Readers(f) = {}
    BY <1>5 DEF Readers
  <2> QED
    BY <1>1, <1>5, <2>1, FS_EmptySet DEF CountRight
<1>7. FileUnit
  BY <1>1, <1>5, Semaphores DEF FileUnit, OneUnit
<1> QED
  BY <1>2, <1>4, <1>6, <1>7 DEF DiskInv

\* Every step of a thread, of the disk or of the timer keeps the invariant.
LEMMA NextInv == DiskInv /\ [Next]_vars => DiskInv'
<1> SUFFICES ASSUME DiskInv, [Next]_vars PROVE DiskInv'
  OBVIOUS
<1>1. ASSUME NEW f \in File, NEW r \in Requests, CallRead(f, r[1], r[2]) PROVE DiskInv'
  BY <1>1, PlusAcquireKeeps DEF CallRead, At
<1>2. ASSUME NEW f \in File, ResumePlus(f) PROVE DiskInv'
  BY <1>2, PlusAcquireKeeps DEF ResumePlus, At
<1>3. ASSUME NEW f \in File, NEW r \in Requests, CallWrite(f, r[1], r[2]) PROVE DiskInv'
  BY <1>3, WriterKeeps DEF CallWrite, At
<1>4. ASSUME NEW f \in File, ResumeWriter(f) PROVE DiskInv'
  BY <1>4, WriterKeeps DEF ResumeWriter, At
<1>5. ASSUME NEW f \in File, PlusCount(f) \/ MinusCount(f) PROVE DiskInv'
  BY <1>5, PlusCountKeeps, MinusCountKeeps
<1>6. ASSUME NEW f \in File, PlusFirst(f) \/ MinusLast(f) PROVE DiskInv'
  BY <1>6, PlusFirstKeeps, LastReaderKeeps
<1>7. ASSUME NEW f \in File, PlusRelease(f) \/ MinusRelease(f) \/ MinusAcquire(f) PROVE DiskInv'
  BY <1>7, ReaderReleaseKeeps, MinusAcquireKeeps
<1>8. ASSUME NEW f \in File, MinusWriter(f) PROVE DiskInv'
  BY <1>8, MinusWriterKeeps
<1>9. ASSUME NEW f \in File, NEW o \in Op,
             SectorAcquire(o, f) \/ Request(o, f) \/ SectorWait(o, f) \/ SectorRelease(o, f)
      PROVE  DiskInv'
  BY <1>9, SectorAcquireKeeps, RequestKeeps, SectorWaitKeeps, SectorReleaseKeeps
<1>10. CASE HandleInterrupt
  BY <1>10, HandleInterruptKeeps
<1>11. CASE Yield \/ LeaveIdle
  BY <1>11, SwitchKeeps
<1>12. CASE UNCHANGED vars
  BY <1>12 DEF vars, schedVars, semVars, monVars, DiskInv, TypeOK, SchedTypeOK, SemTypeOK, ReaderUnit,
     DiskUnit, DoneOnce, CountRight, FileUnit, Readers
<1> QED
  BY <1>1, <1>2, <1>3, <1>4, <1>5, <1>6, <1>7, <1>8, <1>9, <1>10, <1>11, <1>12
     DEF Next, Progress, ThreadStep

LEMMA DiskInvariant == Spec => []DiskInv
BY InitInv, NextInv, PTL DEF Spec

\* For every number of threads and files: no thread finds the disk busy, neither
\* when it is about to ask (the assertion of ReadRequest and WriteRequest) nor
\* when it has been woken by RequestDone.
THEOREM DiskServesOneRequest == Spec => []OneRequestAtATime
<1>1. DiskInv => OneRequestAtATime
  <2> SUFFICES ASSUME DiskInv, NEW t \in Thread, NEW o \in Op, NEW f \in File,
                      pc[t] \in {At2("ioRequest", o, f), At2("ioDone", o, f)}, active
               PROVE  FALSE
    BY DEF OneRequestAtATime
  <2>1. HasDiskLock(pc[t]) /\ ~Waits(pc[t])
    BY Parts DEF HasDiskLock, Waits
  <2>2. PICK u \in Thread : Waits(pc[u])
    BY DEF DiskInv, DoneOnce
  <2>3. HasDiskLock(pc[u])
    BY <2>2 DEF HasDiskLock, Waits
  <2> QED
    BY <2>1, <2>2, <2>3 DEF DiskInv, DiskUnit, OneUnit
<1> QED
  BY <1>1, DiskInvariant, PTL

\* For every number of threads and files: a thread that writes a file is alone
\* with it, although the readers' mutex is taken by one thread and given back by
\* another.
THEOREM WritersAreAlone == Spec => []FileExclusion
<1>1. DiskInv => FileExclusion
  <2> SUFFICES ASSUME DiskInv, NEW f \in File
               PROVE  /\ Cardinality(Transfers("write", f)) <= 1
                      /\ Transfers("write", f) # {} => Transfers("read", f) = {}
    BY DEF FileExclusion
  <2>1. \A t \in Transfers("write", f) : t \in Thread /\ Writes(pc[t], f)
    BY Parts DEF Transfers, Writes, Transfer
  <2>2. \A t \in Transfers("read", f) : t \in Thread /\ Shares(pc[t], f)
    BY Parts DEF Transfers, Shares, Transfer
  <2>3. \A t, u \in Transfers("write", f) : t = u
    BY <2>1 DEF DiskInv, FileUnit, OneUnit
  <2>4. Transfers("write", f) # {} => Transfers("read", f) = {}
    BY <2>1, <2>2 DEF DiskInv, FileUnit
  <2>5. Cardinality(Transfers("write", f)) <= 1
    <3>1. CASE Transfers("write", f) = {}
      BY <3>1, FS_EmptySet
    <3>2. CASE Transfers("write", f) # {}
      <4>1. PICK t : Transfers("write", f) = {t}
        BY <2>3, <3>2
      <4>2. Cardinality({t}) = 1
        BY FS_Singleton
      <4> QED
        BY <4>1, <4>2
    <3> QED
      BY <3>1, <3>2
  <2> QED
    BY <2>4, <2>5
<1> QED
  BY <1>1, DiskInvariant, PTL
================================================================================
