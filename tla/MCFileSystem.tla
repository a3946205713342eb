----------------------------- MODULE MCFileSystem -----------------------------
(* Two threads, a file and a directory in the root, and a file in it.       *)
EXTENDS FileSystem, TLC
CONSTANTS t1, t2
A  == <<"a">>
D  == <<"d">>
DB == <<"d", "b">>
Paths    == {A, D, DB}
DirPaths == {D}
TwoFiles == {A, <<"b">>}
NoDirs   == {}
Threads  == {t1, t2}
Symmetry == Permutations(Threads)

\* The search goes no further than MapMatchesFiles, and most of HandlesLive, hold.
UntilOvertaken == ~overtaken

\* Creates and removals are alone, and what is removed is not open: nothing but
\* opens, growths and closes overlap.
OnlyGrowthOverlaps ==
  \A t, u \in Thread :
    /\ t # u /\ call[t].op \in {"Create", "Remove", "RemoveDir"} => call[u] = Idle
    /\ Removing(t) => handle[u].sector # call[t].sector
===============================================================================
