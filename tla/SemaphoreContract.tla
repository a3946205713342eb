-------------------------- MODULE SemaphoreContract --------------------------
(***************************************************************************)
(* What threads/synch.h promises of its semaphores: P waits until the      *)
(* value is positive and then decrements it, V increments it, both in one  *)
(* atomic step, and a unit that some thread waits for does not stay unused *)
(* forever ("waking up a thread waiting in P() if necessary").             *)
(***************************************************************************)
EXTENDS Naturals

CONSTANTS Thread, Sem, InitialValue

VARIABLES
  units,     \* units[s]: the value of s
  wants      \* wants[t]: the semaphore t waits for in P, if any

contractVars == <<units, wants>>

ContractInit ==
  /\ units = InitialValue
  /\ wants = [t \in Thread |-> {}]

BeginP(t, s) ==
  /\ wants[t] = {}
  /\ wants' = [wants EXCEPT ![t] = {s}]
  /\ UNCHANGED units

EndP(t, s) ==
  /\ wants[t] \subseteq {s}
  /\ units[s] > 0
  /\ units' = [units EXCEPT ![s] = @ - 1]
  /\ wants' = [wants EXCEPT ![t] = {}]

AtomicV(s) ==
  /\ units' = [units EXCEPT ![s] = @ + 1]
  /\ UNCHANGED wants

ContractNext ==
  \E s \in Sem : AtomicV(s) \/ \E t \in Thread : BeginP(t, s) \/ EndP(t, s)

\* Some waiter of s takes a unit.
Served(s) == \E t \in Thread : wants[t] = {s} /\ EndP(t, s)

\* The promise of a V that never waits and a P that waits for a unit ...
AtomicContract == ContractInit /\ [][ContractNext]_contractVars

\* ... and of the wakeup.
UnitsTaken(s) == WF_contractVars(Served(s))
=============================================================================
