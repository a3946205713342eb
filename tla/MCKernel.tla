------------------------------- MODULE MCKernel -------------------------------
(* Instances of Kernel for TLC. *)
EXTENDS Kernel

CONSTANTS t1, t2, t3, t4, io, mx

MCThread == {t1, t2, t3, t4}
MCSem == {io, mx}

\* The interrupt semaphore of a device starts at 0, a mutex at 1.
MCInitialValue == [s \in MCSem |-> IF s = io THEN 0 ELSE 1]

\* Round robin; the random time slices of -rs; and priorities, with t1 the
\* most urgent thread, then t2.
SamePriority == [t \in MCThread |-> 0]
ByPriority   == [t \in MCThread |-> CASE t = t1 -> 0 [] t = t2 -> 1 [] OTHER -> 2]

RR    == [roundRobbin |-> TRUE, timer |-> TRUE, priority |-> SamePriority]
Equal == [roundRobbin |-> FALSE, timer |-> TRUE, priority |-> SamePriority]
Prio  == [roundRobbin |-> FALSE, timer |-> TRUE, priority |-> ByPriority]

AllPolicies  == {RR, Equal, Prio}
==============================================================================
