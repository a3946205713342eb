--------------------------- MODULE MonitorContract ---------------------------
(***************************************************************************)
(* What threads/synch.h promises of a lock and of the conditions that it   *)
(* protects: Acquire and Release are atomic, only the thread that acquired *)
(* the lock may release it, and Wait releases the lock and starts to wait  *)
(* in one atomic step.  A signal ends the wait of a thread, a broadcast    *)
(* that of all of them; a thread whose wait has ended competes for the     *)
(* lock with everybody else (Mesa style).                                  *)
(***************************************************************************)
CONSTANTS Thread, Cond, NULL

VARIABLES
  holder,    \* the thread that has the lock, or NULL
  waiting    \* waiting[cv]: the threads that wait for a signal on cv

contractVars == <<holder, waiting>>

ContractInit ==
  /\ holder = NULL
  /\ waiting = [cv \in Cond |-> {}]

AtomicAcquire(t) ==
  /\ holder = NULL
  /\ \A cv \in Cond : t \notin waiting[cv]
  /\ holder' = t
  /\ UNCHANGED waiting

AtomicRelease(t) ==
  /\ holder = t
  /\ holder' = NULL
  /\ UNCHANGED waiting

AtomicWait(t, cv) ==
  /\ holder = t
  /\ holder' = NULL
  /\ waiting' = [waiting EXCEPT ![cv] = @ \cup {t}]

AtomicSignal(t, cv) ==
  /\ holder = t
  /\ \E u \in waiting[cv] : waiting' = [waiting EXCEPT ![cv] = @ \ {u}]
  /\ UNCHANGED holder

AtomicBroadcast(t, cv) ==
  /\ holder = t
  /\ waiting' = [waiting EXCEPT ![cv] = {}]
  /\ UNCHANGED holder

ContractNext ==
  \E t \in Thread :
    \/ AtomicAcquire(t) \/ AtomicRelease(t)
    \/ \E cv \in Cond : AtomicWait(t, cv) \/ AtomicSignal(t, cv) \/ AtomicBroadcast(t, cv)

AtomicContract == ContractInit /\ [][ContractNext]_contractVars
==============================================================================
