------------------------------- MODULE MCPaging -------------------------------
(* Two processes of two pages on two frames: one of them may have both, and *)
(* with a frame each a second page has to replace the first.                *)
EXTENDS Paging, TLC
CONSTANTS s1, s2
Spaces   == {s1, s2}
Symmetry == Permutations(Spaces)
===============================================================================
