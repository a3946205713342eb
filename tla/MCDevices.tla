------------------------------- MODULE MCDevices -------------------------------
(* Two threads at the console and three keys; two elevators, three floors and   *)
(* two calls; three packets.                                                    *)
EXTENDS Devices
CONSTANTS t1, t2
Threads == {t1, t2}
================================================================================
