-------------------------------- MODULE Buffers --------------------------------
(***************************************************************************)
(* Three lists that producers and consumers share: Buffer, made with       *)
(* semaphores, and BufferCnd, made with conditions, of threads/            *)
(* threadtest.cc, and SynchList of threads/synchlist.cc.  Unlike the       *)
(* primitives they call, their routines run with interrupts on.  The       *)
(* buffers are stacks; ReadBuffer returns a pointer into the buffer, which *)
(* ConsumeItem follows when the lock is released again.                    *)
(***************************************************************************)
EXTENDS Monitor

CONSTANTS
  Producers, Consumers,   \* the threads of each kind
  BUF_LEN,
  iters,                  \* iters[t]: how many items t produces or consumes
  BufMutex,               \* the lock: Mutex of the buffers, lock of SynchList
  Empty, Full,            \* the semaphores of Buffer
  Producer, Consumer      \* the conditions of BufferCnd; listEmpty is Consumer

ASSUME BuffersAssumption ==
  /\ Producers \cup Consumers = Thread /\ Producers \cap Consumers = {}
  /\ BUF_LEN \in Nat \ {0}
  /\ iters \in [Thread -> Nat]
  /\ BufMutex \in Lock /\ {Empty, Full} \subseteq Sem \ Lock /\ Empty # Full
  /\ {Producer, Consumer} \subseteq Cond

VARIABLES
  program,    \* which list is in use
  list,       \* SynchList::list; of a buffer the slots written so far
  count,      \* how many of them hold an item
  done,       \* done[t]: turns of its loop t has completed
  item,       \* item[t]: the slot, or the item, that the consumer t was given
  taken       \* the items taken off the list

bufVars == <<program, list, count, done, item, taken>>

Kinds == {"Buffer", "BufferCnd", "SynchList"}

Semaphores(s) == CASE s = Empty -> BUF_LEN [] s = Full -> 0 [] OTHER -> 1

BuffersInit ==
  /\ list = <<>> /\ count = 0 /\ taken = {}
  /\ done = [t \in Thread |-> 0]
  /\ item = [t \in Consumers |-> NULL]
-----------------------------------------------------------------------------
Uses(kinds)    == program \in kinds
IsProducer     == currentThread \in Producers
ListUnchanged  == UNCHANGED bufVars

\* The item a producer makes in its next turn: ProduceItem(i + TID).
ProduceItem(t) == <<t, done[t]>>

\* A wrong WriteBuffer: lets one item too many in.
MustWaitLate ==
  IF IsProducer THEN Uses({"BufferCnd"}) /\ count > BUF_LEN
                ELSE Uses({"BufferCnd", "SynchList"}) /\ count = 0

\* The while of BufferCnd and of SynchList::Remove; Append does not wait.
MustWait ==
  IF IsProducer THEN Uses({"BufferCnd"}) /\ count = BUF_LEN
                ELSE Uses({"BufferCnd", "SynchList"}) /\ count = 0

WaitsOn == IF IsProducer THEN Producer ELSE Consumer
Signals == IF IsProducer THEN Consumer ELSE Producer

\* Empty->P() of WriteBuffer, Full->P() of ReadBuffer.
EnterGate ==
  /\ Uses({"Buffer"})
  /\ Here("outside") \/ Here("bGate")
  /\ done[currentThread] < iters[currentThread]
  /\ P(IF IsProducer THEN Empty ELSE Full, "bGate", "bLock")
  /\ UNCHANGED monVars /\ ListUnchanged

\* Mutex->Acquire().
LockList ==
  /\ \/ Here("bLock") \/ Here("bLocking")
     \/ Here("outside") /\ Uses({"BufferCnd", "SynchList"})
  /\ done[currentThread] < iters[currentThread]
  /\ Acquire(BufMutex, "bLocking", "bTest")
  /\ ListUnchanged

\* Condition::Wait: Release, Sleep and Acquire.
BeginWait ==
  /\ Here("bTest") /\ MustWait
  /\ Release(BufMutex, "bWaitRelease", "bSleep")
  /\ ListUnchanged

ResumeBeginWait ==
  /\ Here("bWaitRelease")
  /\ FinishRelease(BufMutex, "bSleep")
  /\ ListUnchanged

SleepInWait ==
  /\ Here("bSleep")
  /\ SleepOn(WaitsOn, "bLocking")
  /\ ListUnchanged

\* A wrong WriteBuffer and ReadBuffer: they signal only a list that was empty or full.
SignalsRarely ==
  /\ Uses({"BufferCnd"}) \/ (Uses({"SynchList"}) /\ IsProducer)
  /\ count \in {0, BUF_LEN}

\* Whether the routine goes on to signal a condition.
CallsSignal == Uses({"BufferCnd"}) \/ (Uses({"SynchList"}) /\ IsProducer)

AfterAccess == IF CallsSignal THEN "bSignal" ELSE "bRelease"

\* List::Append and List::Remove.
ListAppend(l, x) == Append(l, x)
ListRemove(l) == Tail(l)

\* list[count++] = *product, or list->Append(item).
Put ==
  /\ ~idle /\ IsProducer /\ ~MustWait
  /\ Step("bTest", AfterAccess)
  /\ list' = IF count < Len(list) THEN [list EXCEPT ![count + 1] = ProduceItem(currentThread)]
                                  ELSE ListAppend(list, ProduceItem(currentThread))
  /\ count' = count + 1
  /\ UNCHANGED <<program, done, item, taken>>

\* item = &list[count - 1]; count--, or list->Remove().
Take ==
  /\ ~idle /\ ~IsProducer /\ ~MustWait
  /\ Step("bTest", AfterAccess)
  /\ count' = count - 1
  /\ IF Uses({"SynchList"})
     THEN /\ list' = ListRemove(list)
          /\ item' = [item EXCEPT ![currentThread] = Head(list)]
          /\ taken' = taken \cup {Head(list)}
     ELSE /\ item' = [item EXCEPT ![currentThread] = count]
          /\ taken' = taken \cup {list[count]}
          /\ UNCHANGED list
  /\ UNCHANGED <<program, done>>

\* Condition::Signal wakes the first waiter, if any.
SignalOther ==
  /\ Here("bSignal")
  /\ WakeFirst(Signals, "bRelease")
  /\ ListUnchanged

NobodyToSignal ==
  /\ ~idle
  /\ waitQueue[Signals] = <<>>
  /\ Step("bSignal", "bRelease")
  /\ ListUnchanged

AfterRelease == IF Uses({"Buffer"}) THEN "bGive" ELSE "bEnd"

UnlockList ==
  /\ Here("bRelease")
  /\ Release(BufMutex, "bReleasing", AfterRelease)
  /\ ListUnchanged

ResumeUnlockList ==
  /\ Here("bReleasing")
  /\ FinishRelease(BufMutex, AfterRelease)
  /\ ListUnchanged

\* Full->V() of WriteBuffer, Empty->V() of ReadBuffer.
Given == IF IsProducer THEN Full ELSE Empty

LeaveGate ==
  /\ Here("bGive")
  /\ V(Given, "bGiving", "bEnd")
  /\ UNCHANGED monVars /\ ListUnchanged

ResumeLeaveGate ==
  /\ Here("bGiving")
  /\ FinishRelease(Given, "bEnd")
  /\ ListUnchanged

\* The end of a turn of ProducerThread, and of ConsumerThread with its ConsumeItem.
EndTurn ==
  /\ ~idle
  /\ Step("bEnd", "outside")
  /\ done' = [done EXCEPT ![currentThread] = @ + 1]
  /\ UNCHANGED <<program, list, count, taken>>

ProducerThread == IsProducer /\ EndTurn /\ UNCHANGED item

ConsumerThread ==
  /\ ~IsProducer /\ EndTurn
  /\ item' = [item EXCEPT ![currentThread] = NULL]

BuffersStep ==
  \/ EnterGate \/ LockList \/ BeginWait \/ ResumeBeginWait \/ SleepInWait
  \/ Put \/ Take \/ SignalOther \/ NobodyToSignal \/ UnlockList \/ ResumeUnlockList
  \/ LeaveGate \/ ResumeLeaveGate \/ ProducerThread \/ ConsumerThread
-----------------------------------------------------------------------------
\* How many accesses a thread has made: the turns it completed, and the present one.
Accesses(t) ==
  done[t] + IF pc[t] \in {"bSignal", "bRelease", "bReleasing", "bGive", "bGiving", "bEnd"}
            THEN 1 ELSE 0

\* One pair for each access of these threads; an item is named by its producer's.
AccessesOf(threads) == UNION {{<<t, i>> : i \in 0..(Accesses(t) - 1)} : t \in threads}

Produced == AccessesOf(Producers)

(***************************************************************************)
(* No item is lost, overwritten or taken twice, and the buffers stay       *)
(* within BUF_LEN: what producers have stored is what the list holds and   *)
(* what consumers took, each once.  A SynchList hands out the items of a   *)
(* producer in the order it appended them.  (WriteBuffer, ReadBuffer,      *)
(* SynchList::Append and Remove, with threads switched inside them.)       *)
(***************************************************************************)
ItemsAccounted ==
  LET held == SubSeq(list, 1, count)
  IN  /\ count >= 0 /\ (program # "SynchList" => count <= BUF_LEN)
      /\ IsInjective(held)
      /\ ToSet(held) \cup taken = Produced
      /\ ToSet(held) \cap taken = {}
      /\ Cardinality(taken) = Cardinality(AccessesOf(Consumers))
      /\ program = "SynchList" =>
           \A i \in DOMAIN held : \A p \in taken \cup ToSet(SubSeq(held, 1, i - 1)) :
             p[1] = held[i][1] => p[2] < held[i][2]
================================================================================
