-------------------------------- MODULE Console --------------------------------
(***************************************************************************)
(* The console of machine/console.cc, a device that polls its keyboard, and*)
(* SynchConsole, which lets threads wait for it.  The characters are the   *)
(* numbers of the keys in the order they were struck.  The lock and the    *)
(* semaphores are those that modules Monitor and Semaphore verify; here    *)
(* each is its value.                                                      *)
(***************************************************************************)
EXTENDS Interrupt, FiniteSets

CONSTANTS
  Thread,
  ConsoleTime,     \* delay of the poll and of the output of a character
  MaxTyped         \* bound: keys struck

VARIABLES
  incoming,        \* Console::incoming, the one character of buffer
  putBusy,         \* Console::putBusy
  keyboard,        \* readFileNo: struck and not yet read
  typed,           \* how many keys have been struck
  got,             \* history: the characters GetChar returned
  semReadAvail, semWriteDone,
  lock,            \* SynchConsole::lock: its owner
  at               \* at[t]: where t is in SynchPutChar or SynchGetChar

conVars == <<incoming, putBusy, keyboard, typed, got, semReadAvail, semWriteDone, lock, at>>

EOF == 0
NoThread == "NoThread"

ConsoleInit ==
  /\ incoming = EOF /\ putBusy = FALSE
  /\ keyboard = <<>> /\ typed = 0 /\ got = <<>>
  /\ semReadAvail = 0 /\ semWriteDone = 0
  /\ lock = NoThread /\ at = [t \in Thread |-> "user"]

\* A key is struck.  The hypothesis on the keys: none is the character whose value
\* is EOF, which the device cannot tell from an empty buffer.
Strike ==
  /\ phase = "run" /\ typed < MaxTyped
  /\ typed' = typed + 1
  /\ keyboard' = Append(keyboard, typed')
  /\ UNCHANGED <<intVars, incoming, putBusy, got, semReadAvail, semWriteDone, lock, at>>
-----------------------------------------------------------------------------
\* The handlers.  A wrong ReadKey, which does not look at the buffer.
ReadKeyAlways ==
  IF keyboard = <<>>
  THEN UNCHANGED <<incoming, keyboard, semReadAvail>>
  ELSE /\ incoming' = Head(keyboard)
       /\ keyboard' = Tail(keyboard)
       /\ semReadAvail' = semReadAvail + 1

\* CheckCharAvail polls on; it reads a key only into an empty buffer.
ReadKey ==
  IF incoming # EOF \/ keyboard = <<>>
  THEN UNCHANGED <<incoming, keyboard, semReadAvail>>
  ELSE /\ incoming' = Head(keyboard)
       /\ keyboard' = Tail(keyboard)
       /\ semReadAvail' = semReadAvail + 1

CheckCharAvail ==
  /\ Due("ConsoleReadInt")
  /\ pending' = Schedule(SortedRemove(pending), "ConsoleReadInt", ConsoleTime)
  /\ ReadKey
  /\ UNCHANGED <<putBusy, typed, got, semWriteDone, lock, at>>

WriteDone ==
  /\ Due("ConsoleWriteInt")
  /\ pending' = SortedRemove(pending)
  /\ putBusy' = FALSE
  /\ semWriteDone' = semWriteDone + 1
  /\ UNCHANGED <<incoming, keyboard, typed, got, semReadAvail, lock, at>>
-----------------------------------------------------------------------------
\* The threads.
Goto(t, from, to) == phase = "run" /\ at[t] = from /\ at' = [at EXCEPT ![t] = to]

CallSynch(t) ==
  /\ \E to \in {"putAcquire", "getAcquire", "exited"} : Goto(t, "user", to)
  /\ UNCHANGED <<intVars, incoming, putBusy, keyboard, typed, got, semReadAvail, semWriteDone, lock>>

Acquire(t) ==
  /\ lock = NoThread
  /\ \/ Goto(t, "putAcquire", "put")
     \/ Goto(t, "getAcquire", "getWait")
  /\ lock' = t
  /\ UNCHANGED <<intVars, incoming, putBusy, keyboard, typed, got, semReadAvail, semWriteDone>>

PutChar(t) ==
  /\ Goto(t, "put", "putWait")
  /\ putBusy' = TRUE
  /\ pending' = Schedule(pending, "ConsoleWriteInt", ConsoleTime)
  /\ UNCHANGED <<phase, incoming, keyboard, typed, got, semReadAvail, semWriteDone, lock>>

\* A wrong SynchPutChar, which does not wait for its own character.
PutWaitNot(t) ==
  /\ Goto(t, "putWait", "release")
  /\ semWriteDone' = IF semWriteDone > 0 THEN semWriteDone - 1 ELSE 0
  /\ UNCHANGED <<intVars, incoming, putBusy, keyboard, typed, got, semReadAvail, lock>>
PutWait(t) ==
  /\ semWriteDone > 0
  /\ Goto(t, "putWait", "release")
  /\ semWriteDone' = semWriteDone - 1
  /\ UNCHANGED <<intVars, incoming, putBusy, keyboard, typed, got, semReadAvail, lock>>

GetWait(t) ==
  /\ semReadAvail > 0
  /\ Goto(t, "getWait", "get")
  /\ semReadAvail' = semReadAvail - 1
  /\ UNCHANGED <<intVars, incoming, putBusy, keyboard, typed, got, semWriteDone, lock>>

GetChar(t) ==
  /\ Goto(t, "get", "release")
  /\ got' = Append(got, incoming)
  /\ incoming' = EOF
  /\ UNCHANGED <<intVars, putBusy, keyboard, typed, semReadAvail, semWriteDone, lock>>

Release(t) ==
  /\ Goto(t, "release", "user")
  /\ lock' = NoThread
  /\ UNCHANGED <<intVars, incoming, putBusy, keyboard, typed, got, semReadAvail, semWriteDone>>

ConsoleStep(t) == CallSynch(t) \/ Acquire(t) \/ PutChar(t) \/ PutWait(t)
                  \/ GetWait(t) \/ GetChar(t) \/ Release(t)

\* What keeps t from running: Idle is called when this holds of every thread.
ConsoleBlocked(t) ==
  \/ at[t] = "exited"
  \/ at[t] \in {"putAcquire", "getAcquire"} /\ lock # NoThread
  \/ at[t] = "putWait" /\ semWriteDone = 0
  \/ at[t] = "getWait" /\ semReadAvail = 0
-----------------------------------------------------------------------------
Buffered == IF incoming = EOF THEN <<>> ELSE <<incoming>>

(* Every key struck reaches exactly one SynchGetChar, in the order of striking, *)
(* however the polls, the handlers and the readers interleave: none is          *)
(* overwritten in the one-character buffer or returned twice, and no call       *)
(* returns EOF (Console::CheckCharAvail, SynchConsole::SynchGetChar).           *)
KeysInOrder == got \o Buffered \o keyboard = [i \in 1..typed |-> i]

(* The assertion of Console::PutChar, that no character is being put out, holds *)
(* whenever a thread is about to call it, and a thread that waits for its       *)
(* character has exactly one completion, pending or counted, to wait for.       *)
OneOutput ==
  /\ \A t \in Thread : at[t] = "put" => ~putBusy
  /\ Len(SelectSeq(pending, LAMBDA x : x.type = "ConsoleWriteInt")) + semWriteDone
       = Cardinality({t \in Thread : at[t] = "putWait"})
================================================================================
