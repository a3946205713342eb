----------------------------- MODULE ReadWriteLock -----------------------------
(***************************************************************************)
(* ReadWriteLock of threads/synch.cc, and threads that read and write      *)
(* under it in any order (threads/threadtest.cc, the Reader and Writer     *)
(* threads).  The reader's routines run with interrupts off and nest two   *)
(* primitives: the first reader waits for WriterLock while it holds        *)
(* ReaderLock, so that later readers, and readers that leave, wait behind  *)
(* it.                                                                     *)
(***************************************************************************)
EXTENDS Monitor

CONSTANTS ReaderLock, WriterLock

ASSUME ReadWriteLockAssumption ==
  /\ ReaderLock \in Lock
  /\ WriterLock \in Sem \ Lock

VARIABLE ReaderCnt

\* The places of AcquireReaderLock.
Entering == {"rAcquire", "rCount", "rFirst", "rRelease", "rReleasing"}

ReadWriteInit == ReaderCnt = 0
-----------------------------------------------------------------------------
(* AcquireReaderLock                                                       *)

ReaderAcquire ==
  /\ Here("outside") \/ Here("rAcquire")
  /\ Acquire(ReaderLock, "rAcquire", "rCount")
  /\ UNCHANGED ReaderCnt

\* A wrong AcquireReaderLock: every second reader takes WriterLock.
ReaderCountWrong ==
  /\ ~idle
  /\ ReaderCnt' = ReaderCnt + 1
  /\ Step("rCount", IF ReaderCnt = 1 THEN "rFirst" ELSE "rRelease")

ReaderCount ==
  /\ ~idle
  /\ ReaderCnt' = ReaderCnt + 1
  /\ Step("rCount", IF ReaderCnt = 0 THEN "rFirst" ELSE "rRelease")

FirstReader ==
  /\ Here("rFirst")
  /\ P(WriterLock, "rFirst", "rRelease")
  /\ UNCHANGED <<monVars, ReaderCnt>>

ReaderEnter ==
  /\ Here("rRelease")
  /\ Release(ReaderLock, "rReleasing", "reading")
  /\ UNCHANGED ReaderCnt

ResumeReaderEnter ==
  /\ Here("rReleasing")
  /\ FinishRelease(ReaderLock, "reading")
  /\ UNCHANGED ReaderCnt
-----------------------------------------------------------------------------
(* ReleaseReaderLock                                                       *)

ReaderUnacquire ==
  /\ Here("reading") \/ Here("uAcquire")
  /\ Acquire(ReaderLock, "uAcquire", "uCount")
  /\ UNCHANGED ReaderCnt

\* A wrong ReleaseReaderLock: the last reader keeps WriterLock.
ReaderUncountWrong ==
  /\ ~idle
  /\ ReaderCnt' = ReaderCnt - 1
  /\ Step("uCount", "uRelease")

ReaderUncount ==
  /\ ~idle
  /\ ReaderCnt' = ReaderCnt - 1
  /\ Step("uCount", IF ReaderCnt = 1 THEN "uLast" ELSE "uRelease")

LastReader ==
  /\ Here("uLast")
  /\ V(WriterLock, "uLastV", "uRelease")
  /\ UNCHANGED <<monVars, ReaderCnt>>

ResumeLastReader ==
  /\ Here("uLastV")
  /\ FinishRelease(WriterLock, "uRelease")
  /\ UNCHANGED ReaderCnt

ReaderLeave ==
  /\ Here("uRelease")
  /\ Release(ReaderLock, "uReleasing", "outside")
  /\ UNCHANGED ReaderCnt

ResumeReaderLeave ==
  /\ Here("uReleasing")
  /\ FinishRelease(ReaderLock, "outside")
  /\ UNCHANGED ReaderCnt
-----------------------------------------------------------------------------
(* AcquireWriterLock and ReleaseWriterLock                                 *)

WriterAcquire ==
  /\ Here("outside") \/ Here("wAcquire")
  /\ P(WriterLock, "wAcquire", "writing")
  /\ UNCHANGED <<monVars, ReaderCnt>>

WriterRelease ==
  /\ Here("writing")
  /\ V(WriterLock, "wRelease", "outside")
  /\ UNCHANGED <<monVars, ReaderCnt>>

ResumeWriterRelease ==
  /\ Here("wRelease")
  /\ FinishRelease(WriterLock, "outside")
  /\ UNCHANGED ReaderCnt

ReadWriteStep ==
  \/ ReaderAcquire \/ ReaderCount \/ FirstReader \/ ReaderEnter \/ ResumeReaderEnter
  \/ ReaderUnacquire \/ ReaderUncount \/ LastReader \/ ResumeLastReader
  \/ ReaderLeave \/ ResumeReaderLeave
  \/ WriterAcquire \/ WriterRelease \/ ResumeWriterRelease
-----------------------------------------------------------------------------
(***************************************************************************)
(* Nobody reads while somebody writes, and nobody else writes: WriterLock  *)
(* is taken by the first reader and given back by the last, which need not *)
(* be the same thread.                                                     *)
(***************************************************************************)
ReadWriteExclusion ==
  \A t, u \in Thread :
    pc[t] = "writing" /\ t # u => pc[u] \notin {"reading", "writing"}

(***************************************************************************)
(* The lock never wedges: whenever a thread waits in it, some thread reads *)
(* or writes later on.  (It need not be the same thread: a waiter that V   *)
(* has woken can find the unit gone, and nothing bounds how often.  With   *)
(* priorities a V may strand a waiter.)                                    *)
(***************************************************************************)
SomeoneGetsIn ==
  NoPreemption /\ (\E t \in Thread : pc[t] \in Entering \cup {"wAcquire"})
    ~> (\E t \in Thread : pc[t] \in {"reading", "writing"})
================================================================================
