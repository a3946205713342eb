------------------------------ MODULE MCSynchDisk ------------------------------
(* Instances of SynchDisk for TLC. *)
EXTENDS SynchDisk

CONSTANTS t1, t2, t3, f1, f2

MCPolicy == {[roundRobbin |-> TRUE, timer |-> TRUE, priority |-> [t \in Thread |-> 0]]}

\* Part of the second of two sectors, and what is past the end of a file.
MCRequests == {<<4, 2>>, <<6, 1>>}
================================================================================
