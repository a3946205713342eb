-------------------------------- MODULE Devices --------------------------------
(***************************************************************************)
(* The machine with one of its devices attached, with or without the timer:*)
(* the devices share nothing but the clock and the list of pending         *)
(* interrupts.  The clock advances while a thread runs (OneTick), or, when *)
(* none can, to the next interrupt (Idle).  Handlers run with interrupts   *)
(* off, one after the other, before any thread goes on.                    *)
(***************************************************************************)
EXTENDS Console, Elevator, Network, Disk

CONSTANTS
  Ticks            \* by how much OneTick advances the clock

ASSUME DevicesAssumption ==
  /\ \A n \in Ticks \cup {TimerTicks, ConsoleTime, NetworkTime, DelayPerFloor,
                       SectorsPerTrack, NumTracks, RotationTime, SeekTime} : n \in Nat \ {0}
  /\ numElevators \in Nat \ {0} /\ numFloors \in Nat /\ numFloors > 1

VARIABLE device    \* what is attached, and used how

vars == <<intVars, conVars, eleVars, netVars, diskVars, device>>

Device == {"console", "elevators", "selftest", "network", "disk"}

Started(d) ==
  CASE d = "console"  -> Schedule(<<>>, "ConsoleReadInt", ConsoleTime)
    [] d = "network"  -> Schedule(<<>>, "NetworkRecvInt", NetworkTime)
    [] OTHER          -> <<>>

Init ==
  /\ device \in Device
  /\ \/ InterruptInit(Started(device))
     \/ InterruptInit(Schedule(Started(device), "TimerInt", TimerTicks))
  /\ ConsoleInit /\ NetworkInit /\ DiskInit
  /\ ElevatorInit(IF device = "selftest"
                  THEN [w \in Who |-> IF w = "rider" THEN <<"press", "go">> ELSE <<"first", "ask">>]
                  ELSE [w \in Who |-> Free])

NothingRuns ==
  CASE device = "console" -> \A t \in Thread : ConsoleBlocked(t)
    [] device = "network" -> NetworkBlocked
    [] device = "disk"    -> DiskBlocked
    [] OTHER              -> \A w \in Who : ElevatorBlocked(w)

Advance(n) ==
  /\ pending' = Elapse(pending, n)
  /\ elevators' = ElapseElevators(n)
  /\ IF device = "disk" THEN DiskElapse(n) ELSE UNCHANGED diskVars
  /\ UNCHANGED <<conVars, netVars, events, wakeup, pc, calls, device>>

OneTick ==
  /\ phase = "run" /\ ~NothingRuns
  /\ \E n \in Ticks : Advance(n)
  /\ phase' = "tick"

Idle ==
  /\ phase = "run" /\ NothingRuns
  /\ pending # <<>> /\ ~OnlyTimer
  /\ Advance(IF IsDue THEN 0 ELSE Head(pending).left)
  /\ phase' = "idle"

Halt ==
  /\ phase = "run" /\ NothingRuns
  /\ pending = <<>> \/ OnlyTimer
  /\ phase' = "halted"
  /\ UNCHANGED <<pending, conVars, eleVars, netVars, diskVars, device>>

CheckIfDue ==
  /\ \/ TimerExpired    /\ UNCHANGED <<conVars, eleVars, netVars, diskVars>>
     \/ EndHandlers     /\ UNCHANGED <<conVars, eleVars, netVars, diskVars>>
     \/ CheckCharAvail  /\ UNCHANGED <<eleVars, netVars, diskVars>>
     \/ WriteDone       /\ UNCHANGED <<eleVars, netVars, diskVars>>
     \/ HandleInterrupt /\ UNCHANGED <<conVars, netVars, diskVars>>
     \/ CheckPktAvail   /\ UNCHANGED <<conVars, eleVars, diskVars>>
     \/ SendDone        /\ UNCHANGED <<conVars, eleVars, diskVars>>
     \/ DiskDone        /\ UNCHANGED <<conVars, eleVars, netVars>>
  /\ UNCHANGED device

Clock == OneTick \/ Idle \/ Halt \/ CheckIfDue

\* The key struck is not a step of the program.
Keyboard == device = "console" /\ Strike /\ UNCHANGED <<eleVars, netVars, diskVars, device>>

ConsoleThread(t) ==
  device = "console" /\ ConsoleStep(t) /\ UNCHANGED <<eleVars, netVars, diskVars, device>>
ElevatorThread(w) ==
  /\ device \in {"elevators", "selftest"} /\ ElevatorStep(w)
  /\ UNCHANGED <<conVars, netVars, diskVars, device>>
\* The one thread at the network or at the disk.
DriverThread ==
  \/ device = "network" /\ NetworkStep /\ UNCHANGED <<conVars, eleVars, diskVars, device>>
  \/ device = "disk"    /\ DiskStep    /\ UNCHANGED <<conVars, eleVars, netVars, device>>

Next ==
  \/ Clock \/ Keyboard \/ DriverThread
  \/ \E t \in Thread : ConsoleThread(t)
  \/ \E w \in Who : ElevatorThread(w)

\* The clock runs on because enabling interrupts and user instructions tick.  A
\* thread that is ready again and again runs, as module Kernel shows, though the
\* handlers interrupt it: strong fairness.
Spec ==
  /\ Init /\ [][Next]_vars
  /\ WF_vars(Clock)
  /\ SF_vars(DriverThread)
  /\ \A t \in Thread : SF_vars(ConsoleThread(t))
  /\ \A w \in Who : SF_vars(ElevatorThread(w))

\* The network or the disk is at work for its thread, or the self test runs.
Busy ==
  \/ mayNotSend \/ diskWaits
  \/ device = "selftest" /\ \E w \in Who : pc[w][1] # "done"

(* Every request the devices accept comes to an end: a thread that has put out  *)
(* a character returns from SynchPutChar, a moving elevator arrives, the self   *)
(* test runs through with none of its assertions failing, the sender of a       *)
(* packet is told, and a disk request returns, whichever of the clock's two     *)
(* ways forward is taken and without the machine halting early                  *)
(* (Interrupt::CheckIfDue, Idle).                                               *)
RequestsEnd ==
  /\ \A t \in Thread : at[t] = "putWait" ~> at[t] = "user"
  /\ \A e \in Elevators : elevators[e].inMotion ~> ~elevators[e].inMotion
  /\ Busy ~> ~Busy
================================================================================
