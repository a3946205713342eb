------------------------------- MODULE Elevator --------------------------------
(***************************************************************************)
(* The bank of elevators of machine/elevator.cc, with a rider thread and a *)
(* controller thread.  In one use of it the two call what they like, as    *)
(* the assertions of the device allow; in the other they run the self test *)
(* of machine/elevatortest.cc, on elevator 0 and floors 0 and 1.           *)
(***************************************************************************)
EXTENDS Interrupt, FiniteSets

CONSTANTS
  numElevators, numFloors,
  DelayPerFloor,
  MaxCalls         \* bound: calls that move something, outside the self test

VARIABLES
  elevators,       \* elevators[e]: the ElevatorInfo
  events,          \* events[w]: riderEvents, controllerEvents
  wakeup,          \* wakeup[w]: the semaphores riderWakeup, controllerWakeup
  pc,              \* pc[w]: where the rider and the controller are
  calls            \* how many of those calls were made

eleVars == <<elevators, events, wakeup, pc, calls>>

Elevators == 0..(numElevators - 1)
Floors    == 0..(numFloors - 1)
Who       == {"rider", "controller"}

\* ElevatorInfo.  willArrive is relative to the clock, and 0 at rest, when nobody
\* reads it; riders tells whether the rider is on the list.
AtRest == [doorsOpen |-> FALSE, inMotion |-> FALSE, lastFloor |-> 0, goingTo |-> 0,
           willArrive |-> 0, riders |-> FALSE]

ElevatorInit(start) ==
  /\ elevators = [e \in Elevators |-> AtRest]
  /\ events = [w \in Who |-> <<>>]
  /\ wakeup = [w \in Who |-> 0]
  /\ pc = start
  /\ calls = 0

\* What the clock does to the elevators.
ElapseElevators(n) ==
  [e \in Elevators |-> IF elevators[e].inMotion
                       THEN [elevators[e] EXCEPT !.willArrive = @ - n] ELSE elevators[e]]
-----------------------------------------------------------------------------
Event(ev, f, e) == [event |-> ev, floor |-> f, elevator |-> e]

\* PostEvent outside a handler: an interrupt comes soon to pick the event up.
PostEvent(w, ev, f, e) ==
  /\ events' = [events EXCEPT ![w] = Append(@, Event(ev, f, e))]
  /\ pending' = Schedule(pending, "ElevatorInt", 1)

PressButton(f, ev) == PostEvent("controller", ev, f, 0) /\ UNCHANGED elevators

PressFloor(f, e) ==
  PostEvent("controller", "FloorButtonPressed", f, e) /\ UNCHANGED elevators

OpenDoors(e) ==
  /\ elevators' = [elevators EXCEPT ![e].doorsOpen = TRUE]
  /\ PostEvent("rider", "DoorsOpened", elevators[e].lastFloor, e)

CloseDoors(e) ==
  elevators' = [elevators EXCEPT ![e].doorsOpen = FALSE] /\ UNCHANGED <<events, pending>>

\* A moving elevator only gets a new destination.
MoveTo(f, e) ==
  /\ UNCHANGED events
  /\ IF elevators[e].inMotion
     THEN /\ elevators' = [elevators EXCEPT ![e].goingTo = f]
          /\ UNCHANGED pending
     ELSE /\ elevators' = [elevators EXCEPT ![e] =
                [@ EXCEPT !.goingTo = f, !.inMotion = TRUE, !.willArrive = DelayPerFloor]]
          /\ pending' = Schedule(pending, "ElevatorInt", DelayPerFloor)

\* EnterElevator and ExitElevator return FALSE at another floor or closed doors.
Admits(f, e) == elevators[e].doorsOpen /\ elevators[e].lastFloor = f

EnterElevator(f, e) ==
  /\ elevators' = IF Admits(f, e) THEN [elevators EXCEPT ![e].riders = TRUE] ELSE elevators
  /\ UNCHANGED <<events, pending>>

ExitElevator(f, e) ==
  /\ elevators' = IF Admits(f, e) THEN [elevators EXCEPT ![e].riders = FALSE] ELSE elevators
  /\ UNCHANGED <<events, pending>>
-----------------------------------------------------------------------------
\* HandleInterrupt: the elevators that have reached a floor.
Reached(e)   == elevators[e].inMotion /\ elevators[e].willArrive <= 0
NextFloor(e) == elevators[e].lastFloor + IF elevators[e].goingTo > elevators[e].lastFloor THEN 1 ELSE -1
Arrives(e)   == Reached(e) /\ NextFloor(e) = elevators[e].goingTo
GoesOn(e)    == Reached(e) /\ NextFloor(e) # elevators[e].goingTo

\* intSched: of several elevators that go on only the first asks for the next
\* interrupt and gets a new time of arrival.
IsFirst(e) == GoesOn(e) /\ \A d \in 0..(e - 1) : ~GoesOn(d)

Moved(e) ==
  LET x == elevators[e] IN
  CASE Arrives(e) -> [x EXCEPT !.lastFloor = x.goingTo, !.inMotion = FALSE, !.willArrive = 0]
    [] IsFirst(e) -> [x EXCEPT !.lastFloor = NextFloor(e), !.willArrive = @ + DelayPerFloor]
    [] GoesOn(e) /\ ~IsFirst(e) -> [x EXCEPT !.lastFloor = NextFloor(e)]
    [] OTHER -> x

Arrivals ==
  LET arriving == SelectSeq([i \in 1..numElevators |-> i - 1], Arrives)
  IN  [i \in DOMAIN arriving |->
         Event("ElevatorArrived", elevators[arriving[i]].goingTo, arriving[i])]

\* A wrong reschedule: an elevator that arrives keeps the others from asking.
RescheduledIfNoneArrives(list) ==
  IF /\ \E e \in Elevators : GoesOn(e)
     /\ \A e \in Elevators : ~Arrives(e)
  THEN Schedule(list, "ElevatorInt", DelayPerFloor) ELSE list

\* The next interrupt, when some elevator goes on.
Rescheduled(list) ==
  IF \E e \in Elevators : GoesOn(e) THEN Schedule(list, "ElevatorInt", DelayPerFloor) ELSE list

HandleInterrupt ==
  /\ Due("ElevatorInt")
  /\ elevators' = [e \in Elevators |-> Moved(e)]
  /\ events' = [events EXCEPT !["controller"] = @ \o Arrivals]
  /\ pending' = Rescheduled(SortedRemove(pending))
  /\ wakeup' = [w \in Who |-> wakeup[w] + IF events'[w] = <<>> THEN 0 ELSE 1]
  /\ UNCHANGED <<pc, calls>>
-----------------------------------------------------------------------------
\* WaitForNextRiderEvent and WaitForNextControllerEvent: from "ask", asleep in P
\* at "sleep", to the place that deals with the event.  A place is a pair of the
\* part of the thread's program and "ask" or "sleep" or "go".
SleepOnEvent(w) ==
  /\ phase = "run" /\ pc[w][2] = "ask" /\ events[w] = <<>>
  /\ pc' = [pc EXCEPT ![w][2] = "sleep"]
  /\ UNCHANGED <<intVars, elevators, events, wakeup, calls>>

WakeUp(w) ==
  /\ phase = "run" /\ pc[w][2] = "sleep" /\ wakeup[w] > 0
  /\ wakeup' = [wakeup EXCEPT ![w] = @ - 1]
  /\ pc' = [pc EXCEPT ![w][2] = "ask"]
  /\ UNCHANGED <<intVars, elevators, events, calls>>

\* getNextEvent finds one; expected is what the self test asserts of it.
TakeEvent(w, part, expected, to) ==
  /\ phase = "run" /\ pc[w] = <<part, "ask">> /\ events[w] # <<>>
  /\ pc' = [pc EXCEPT ![w] = IF expected THEN to ELSE <<"failed", "go">>]
  /\ events' = [events EXCEPT ![w] = Tail(@)]
  /\ UNCHANGED <<intVars, elevators, wakeup, calls>>

\* A call of the device at one place, which goes on at another.
AtPlace(w, from, to) ==
  /\ phase = "run" /\ pc[w] = from
  /\ pc' = [pc EXCEPT ![w] = to]
  /\ UNCHANGED <<phase, wakeup, calls>>
-----------------------------------------------------------------------------
\* Free use: the calls the assertions of the device allow.  The comments ask that
\* the one who exits is aboard.  What the rider presses matters to nobody here, who
\* only wait for events: one button stands for all.  The hypothesis on MoveTo: a moving elevator is not
\* sent back to the floor it has just left.
Free == <<"free", "go">>

FreePress == PressButton(0, "DownButtonPressed") \/ PressFloor(0, 0)

FreeRide ==
  /\ AtPlace("rider", Free, Free)
  /\ \E f \in Floors, e \in Elevators :
       \/ EnterElevator(f, e) /\ \A d \in Elevators : ~elevators[d].riders
       \/ ExitElevator(f, e) /\ elevators[e].riders

FreeController ==
  \E e \in Elevators :
    \/ ~elevators[e].doorsOpen /\ ~elevators[e].inMotion /\ OpenDoors(e)
    \/ elevators[e].doorsOpen /\ CloseDoors(e)
    \/ \E f \in Floors \ {elevators[e].lastFloor} : ~elevators[e].doorsOpen /\ MoveTo(f, e)

FreeCall(w) ==
  /\ phase = "run" /\ pc[w] = Free /\ calls < MaxCalls
  /\ calls' = calls + 1
  /\ (w = "rider" /\ FreePress) \/ (w = "controller" /\ FreeController)
  /\ UNCHANGED <<phase, pc, wakeup>>

FreeWait(w) ==
  /\ AtPlace(w, Free, <<"free", "ask">>)
  /\ UNCHANGED <<pending, elevators, events>>

FreeUse(w) ==
  \/ FreeCall(w) \/ FreeWait(w) \/ TakeEvent(w, "free", TRUE, Free)
  \/ w = "rider" /\ FreeRide
-----------------------------------------------------------------------------
\* The self test.  The hypothesis on its end: ElevatorSelfTest deletes the bank when
\* the rider has left, and no interrupt comes to the bank after that.
First(w) == Head(events[w])

RiderTest ==
  \/ /\ AtPlace("rider", <<"press", "go">>, <<"first", "ask">>)
     /\ PressButton(0, "UpButtonPressed")
  \/ /\ events["rider"] # <<>>
     /\ TakeEvent("rider", "first", First("rider").event = "DoorsOpened" /\ First("rider").floor = 0,
                  <<"enter", "go">>)
  \/ /\ AtPlace("rider", <<"enter", "go">>,
                IF Admits(0, 0) THEN <<"choose", "go">> ELSE <<"failed", "go">>)
     /\ EnterElevator(0, 0)
  \/ /\ AtPlace("rider", <<"choose", "go">>, <<"second", "ask">>)
     /\ PressFloor(1, 0)
  \/ /\ events["rider"] # <<>>
     /\ TakeEvent("rider", "second", First("rider").event = "DoorsOpened" /\ First("rider").floor = 1,
                  <<"leave", "go">>)
  \/ /\ AtPlace("rider", <<"leave", "go">>,
                IF Admits(1, 0) THEN <<"done", "go">> ELSE <<"failed", "go">>)
     /\ ExitElevator(1, 0)

ControllerTest ==
  \/ /\ events["controller"] # <<>>
     /\ TakeEvent("controller", "first",
          First("controller").event = "UpButtonPressed" /\ First("controller").floor = 0, <<"open", "go">>)
  \/ /\ AtPlace("controller", <<"open", "go">>, <<"second", "ask">>)
     /\ OpenDoors(0)
  \/ /\ events["controller"] # <<>>
     /\ TakeEvent("controller", "second",
          First("controller").event = "FloorButtonPressed" /\ First("controller").floor = 1,
          <<"close", "go">>)
  \/ /\ AtPlace("controller", <<"close", "go">>, <<"move", "go">>)
     /\ CloseDoors(0)
  \/ /\ AtPlace("controller", <<"move", "go">>, <<"third", "ask">>)
     /\ MoveTo(1, 0)
  \/ /\ events["controller"] # <<>>
     /\ TakeEvent("controller", "third", First("controller") = Event("ElevatorArrived", 1, 0),
                  <<"open2", "go">>)
  \/ /\ AtPlace("controller", <<"open2", "go">>, <<"done", "go">>)
     /\ OpenDoors(0)

ElevatorStep(w) ==
  \/ SleepOnEvent(w) \/ WakeUp(w) \/ FreeUse(w)
  \/ w = "rider" /\ RiderTest
  \/ w = "controller" /\ ControllerTest

ElevatorBlocked(w) ==
  \/ pc[w][1] = "done"
  \/ pc[w][2] = "sleep" /\ wakeup[w] = 0
-----------------------------------------------------------------------------
InterruptComes == \E i \in DOMAIN pending : pending[i].type = "ElevatorInt"

(* Nobody waits for an interrupt that will not come: an elevator in motion,     *)
(* and a thread asleep with an event on its list and no wakeup counted, always  *)
(* have an ElevatorInt pending, though one flag in HandleInterrupt reschedules  *)
(* for all elevators and wakeups are counted per interrupt, not per event.      *)
InterruptsKept ==
  /\ \A e \in Elevators : elevators[e].inMotion => InterruptComes
  /\ \A w \in Who :
       pc[w][2] = "sleep" /\ events[w] # <<>> /\ wakeup[w] = 0 => InterruptComes
================================================================================
