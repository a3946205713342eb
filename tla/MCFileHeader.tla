---------------------------- MODULE MCFileHeader ----------------------------
(* Instances of FileHeader for TLC. *)
EXTENDS FileHeader, TLC

CONSTANTS f1, f2

Files == Permutations({f1, f2})
=============================================================================
