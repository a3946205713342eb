------------------------------- MODULE Interrupt -------------------------------
(***************************************************************************)
(* The simulated clock and the list of pending interrupts of               *)
(* machine/interrupt.cc, and the timer of machine/timer.cc.  Times are kept*)
(* relative to stats->totalTicks: an interrupt is due when what is left of *)
(* its delay is 0 or less.                                                 *)
(***************************************************************************)
EXTENDS Integers, Sequences, SequencesExt

CONSTANTS
  TimerTicks       \* delay of the timer

VARIABLES
  pending,         \* Interrupt::pending, the list sorted by time
  phase            \* what the processor does: threads, handlers, or nothing

intVars == <<pending, phase>>

IntType == {"TimerInt", "ConsoleReadInt", "ConsoleWriteInt", "ElevatorInt",
            "NetworkRecvInt", "NetworkSendInt", "DiskInt"}

\* "run": a thread; "tick", "idle": the handlers, called by OneTick and by Idle;
\* "halted": Halt was called.
Phase == {"run", "tick", "idle", "halted"}

\* List::SortedInsert puts an element after those of the same key.
SortedInsert(list, x) ==
  LET n == Len(SelectSeq(list, LAMBDA y : y.left <= x.left))
  IN  InsertAt(list, n + 1, x)

\* List::SortedRemove takes the first.
SortedRemove(list) == Tail(list)

\* The interrupts that the devices and the timer schedule when they are made.
InterruptInit(scheduled) == pending = scheduled /\ phase = "run"

Schedule(list, type, fromNow) == SortedInsert(list, [type |-> type, left |-> fromNow])

\* The clock advances.
Elapse(list, n) == [i \in DOMAIN list |-> [list[i] EXCEPT !.left = @ - n]]

IsDue == pending # <<>> /\ Head(pending).left <= 0

\* A wrong test: the timer is first on the list.
TimerFirst == pending # <<>> /\ Head(pending).type = "TimerInt"

\* The list holds nothing but the timer: Idle takes it that the program is over.
OnlyTimer == Len(pending) = 1 /\ Head(pending).type = "TimerInt"

\* The interrupt that CheckIfDue(FALSE) takes off the list.
Due(type) ==
  /\ phase \in {"tick", "idle"}
  /\ IsDue
  /\ ~(phase = "idle" /\ OnlyTimer)
  /\ Head(pending).type = type
  /\ UNCHANGED phase

\* Timer::TimerExpired schedules the next interrupt; the handler of the scheduler
\* is in module Scheduler.
TimerExpired ==
  /\ Due("TimerInt")
  /\ pending' = Schedule(SortedRemove(pending), "TimerInt", TimerTicks)

\* OneTick and Idle go on when CheckIfDue(FALSE) finds nothing more.
EndHandlers ==
  /\ phase \in {"tick", "idle"}
  /\ ~IsDue \/ (phase = "idle" /\ OnlyTimer)
  /\ phase' = "run"
  /\ UNCHANGED pending
================================================================================
