--------------------------- MODULE MCOpenFileTable ----------------------------
(* Three threads, two files, a table with two entries beside the console's. *)
EXTENDS OpenFileTable, TLC
CONSTANTS t1, t2, t3
Threads  == {t1, t2, t3}
Symmetry == Permutations(Threads)
===============================================================================
