------------------------------ MODULE MCSynchTests -----------------------------
(* Four threads: they share a barrier for three rounds, read and write in any   *)
(* order, or are two producers and two consumers of three items and a buffer    *)
(* of two.                                                                      *)
EXTENDS SynchTests

CONSTANTS t1, t2, t3, t4

MCThread == {t1, t2, t3, t4}
MCProducers == {t1, t2}
MCConsumers == {t3, t4}
MCIters == [t \in MCThread |-> IF t \in {t1, t4} THEN 2 ELSE 1]

\* Round robin, and two levels of priority.
Priorities == {[t \in MCThread |-> IF t \in urgent THEN 0 ELSE 1] :
                 urgent \in {{t1, t3}}}

MCPolicy ==
  {[roundRobbin |-> TRUE, timer |-> TRUE, priority |-> [t \in MCThread |-> 0]]}
  \cup {[roundRobbin |-> FALSE, timer |-> TRUE, priority |-> p] : p \in Priorities}
================================================================================
