-------------------------------- MODULE MCCpu --------------------------------
(* Every defined opcode and function code, and some of the reserved ones.   *)
EXTENDS Cpu
Fields == {[rs |-> 1, rt |-> 2, rd |-> 3], [rs |-> 2, rt |-> 1, rd |-> 0]}
Word3(op, funct, cond, f, imm) ==
  [op |-> op, rs |-> f.rs, rt |-> f.rt, rd |-> f.rd, funct |-> funct, cond |-> cond,
   shamt |-> 1, imm |-> imm]
Values == {5, -128}
\* A reserved function code, and the codes that are not.
Functs == {1} \cup {funct \in 0..43 : specialTable[funct + 1] # "RES"}
Raws ==
  {Word3(op, 0, 0, f, imm) : op \in (2..7) \cup (32..46), f \in Fields, imm \in {4, 15}}
  \cup {Word3(op, 0, 0, f, 15) : op \in 8..17, f \in Fields}
  \cup {Word3(0, funct, 0, f, 0) : funct \in Functs, f \in Fields}
  \cup {Word3(1, 0, cond, f, 2) : cond \in {0, 1, 2, 16, 17}, f \in Fields}
===============================================================================
