----------------------------- MODULE MCThreadLife -----------------------------
(* Instances of ThreadLife for TLC. *)
EXTENDS ThreadLife

CONSTANTS t1, t2

SamePriority == [t \in Thread |-> 0]

Plain == [roundRobbin |-> FALSE, timer |-> FALSE, priority |-> SamePriority]
RR    == [roundRobbin |-> TRUE, timer |-> TRUE, priority |-> SamePriority]

AllPolicies == {Plain, RR}
===============================================================================
