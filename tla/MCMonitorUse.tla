----------------------------- MODULE MCMonitorUse -----------------------------
(* Instances of MonitorUse for TLC. *)
EXTENDS MonitorUse

CONSTANTS t1, t2, t3, t4

MCThread == {t1, t2, t3, t4}

\* Round robin, and every assignment of two levels of priority.
MCPolicy ==
  {[roundRobbin |-> TRUE, timer |-> TRUE, priority |-> [t \in MCThread |-> 0]]}
  \cup {[roundRobbin |-> FALSE, timer |-> TRUE, priority |-> p] : p \in [MCThread -> 0..1]}
===============================================================================
