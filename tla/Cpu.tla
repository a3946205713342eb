--------------------------------- MODULE Cpu ---------------------------------
(***************************************************************************)
(* The MIPS simulator of machine/mipssim.cc: Decode, OneInstruction with   *)
(* its delay slots, DelayedLoad and Mult.  Words are W bits wide and all   *)
(* other widths in proportion: a byte is W/4 bits, an immediate W/2.  A    *)
(* page fault may come at any instruction (Paging says when it does); the  *)
(* handler returns and the instruction is started again.                   *)
(***************************************************************************)
EXTENDS Integers, Sequences, FiniteSets, SequencesExt, Bitwise

CONSTANTS
  W,            \* the width of a word
  NumGPRegs,    \* general registers; the last one is R31
  MemorySize,   \* in bytes
  Raw,          \* the instruction words a program may be made of
  InitialValue, \* what registers 1 and 2 may start with
  MaxSteps, MaxFaults

ASSUME CpuAssumption ==
  /\ W \in {8, 16, 32} /\ NumGPRegs \in Nat /\ NumGPRegs > 3
  /\ MemorySize % 4 = 0

VARIABLES
  m,            \* the machine: registers and memory
  ref,          \* the same program on a machine on which nothing ever faults
  steps, faults,
  halted        \* the exceptions that have stopped the two

vars == <<m, ref, steps, faults, halted>>

Word == (-(2^(W - 1)))..(2^(W - 1) - 1)
Wrap(x) == ((x + 2^(W - 1)) % 2^W) - 2^(W - 1)
Uns(x) == x % 2^W               \* the unsigned int with the bits of x
SignBit(x) == x < 0
R31 == NumGPRegs - 1
IndexToAddr(x) == 4 * x
Running == [m |-> "No", ref |-> "No"]
Low(x, bits) == x % 2^bits      \* x & (2^bits - 1)
SignExtend(x, bits) == IF x >= 2^(bits - 1) THEN x - 2^bits ELSE x
ShiftLeft(x, n) == Wrap(x * 2^n)
ShiftRight(x, n) == x \div 2^n  \* >> on int: the sign is shifted in
BitAnd(x, y) == Wrap(Uns(x) & Uns(y))
BitOr(x, y)  == Wrap(Uns(x) | Uns(y))
BitXor(x, y) == Wrap(Uns(x) ^^ Uns(y))
Bool(b) == IF b THEN 1 ELSE 0
-----------------------------------------------------------------------------
(* Decode.  A word is given by its fields; `imm' stands for the low bits.   *)

R(op) == [opCode |-> op, format |-> "RFMT"]
J(op) == [opCode |-> op, format |-> "JFMT"]
I(op) == [opCode |-> op, format |-> "IFMT"]
Times(n, op) == [k \in 1..n |-> op]

opTable ==
  <<R("SPECIAL"), I("BCOND"), J("J"), J("JAL"),
    I("BEQ"), I("BNE"), I("BLEZ"), I("BGTZ"),
    I("ADDI"), I("ADDIU"), I("SLTI"), I("SLTIU"),
    I("ANDI"), I("ORI"), I("XORI"), I("LUI")>>
  \o Times(4, I("UNIMP")) \o Times(12, I("RES"))
  \o <<I("LB"), I("LH"), I("LWL"), I("LW"), I("LBU"), I("LHU"), I("LWR"), I("RES"),
       I("SB"), I("SH"), I("SWL"), I("SW"), I("RES"), I("RES"), I("SWR"), I("RES")>>
  \o Times(4, I("UNIMP")) \o Times(4, I("RES"))
  \o Times(4, I("UNIMP")) \o Times(4, I("RES"))

specialTable ==
  <<"SLL", "RES", "SRL", "SRA", "SLLV", "RES", "SRLV", "SRAV",
    "JR", "JALR", "RES", "RES", "SYSCALL", "UNIMP", "RES", "RES",
    "MFHI", "MTHI", "MFLO", "MTLO", "RES", "RES", "RES", "RES",
    "MULT", "MULTU", "DIV", "DIVU", "RES", "RES", "RES", "RES",
    "ADD", "ADDU", "SUB", "SUBU", "AND", "OR", "XOR", "NOR",
    "RES", "RES", "SLT", "SLTU">> \o Times(20, "RES")

Decode(raw) ==
  LET info == opTable[raw.op + 1]
      extra == CASE info.format = "IFMT" -> SignExtend(raw.imm, W \div 2)
                 [] info.format = "RFMT" -> raw.shamt
                 [] OTHER                -> raw.imm
      opCode == CASE info.opCode = "SPECIAL" -> specialTable[raw.funct + 1]
                  [] info.opCode = "BCOND"   ->
                       (CASE raw.cond = 0  -> "BLTZ"
                          [] raw.cond = 1  -> "BGEZ"
                          [] raw.cond = 16 -> "BLTZAL"
                          [] raw.cond = 17 -> "BGEZAL"
                          [] OTHER         -> "UNIMP")
                  [] OTHER -> info.opCode
  IN  [opCode |-> opCode, rs |-> raw.rs, rt |-> raw.rt, rd |-> raw.rd, extra |-> extra]
-----------------------------------------------------------------------------
(* Execution.  An instruction turns a machine into its effect: the machine  *)
(* with its registers and memory changed, the delayed load, pcAfter and the *)
(* exception it raises.                                                     *)

Effect(x) == [x |-> x, loadReg |-> 0, loadValue |-> 0, pcAfter |-> x.nextPC + 4,
              raised |-> "No"]
Set(x, reg, v)  == [Effect(x) EXCEPT !.x.reg[reg] = v]
Raise(x, which) == [Effect(x) EXCEPT !.raised = which]
Goto(x, pc)     == [Effect(x) EXCEPT !.pcAfter = pc]
LoadTo(x, reg, v) == [Effect(x) EXCEPT !.loadReg = reg, !.loadValue = v]

SumOverflows(a, b) ==
  LET sum == Wrap(a + b) IN SignBit(a) = SignBit(b) /\ SignBit(a) # SignBit(sum)

AddAnd(x, i) ==
  LET rs == x.reg[i.rs]  rt == x.reg[i.rt]
  IN  CASE i.opCode = "ADD" -> IF SumOverflows(rs, rt) THEN Raise(x, "Overflow")
                               ELSE Set(x, i.rd, Wrap(rs + rt))
        [] i.opCode = "ADDI" -> IF SumOverflows(i.extra, rs) THEN Raise(x, "Overflow")
                                ELSE Set(x, i.rt, Wrap(rs + i.extra))
        [] i.opCode = "ADDIU" -> Set(x, i.rt, Wrap(rs + i.extra))
        [] i.opCode = "ADDU" -> Set(x, i.rd, Wrap(rs + rt))
        [] i.opCode = "AND"  -> Set(x, i.rd, BitAnd(rs, rt))
        [] i.opCode = "ANDI" -> Set(x, i.rt, BitAnd(rs, Low(i.extra, W \div 2)))

\* The linking branches set R31 before the register is tested.
Branch(x, i) ==
  LET link == i.opCode \in {"BGEZAL", "BLTZAL"}
      y    == IF link THEN Set(x, R31, Wrap(x.nextPC + 4)).x ELSE x
      rs   == y.reg[i.rs]
      taken == CASE i.opCode = "BEQ" -> rs = y.reg[i.rt]
                 [] i.opCode \in {"BGEZAL", "BGEZ"} -> ~SignBit(rs)
                 [] i.opCode = "BGTZ" -> rs > 0
                 [] i.opCode = "BLEZ" -> rs <= 0
                 [] i.opCode \in {"BLTZAL", "BLTZ"} -> SignBit(rs)
                 [] i.opCode = "BNE" -> rs # y.reg[i.rt]
  IN  IF taken THEN Goto(y, x.nextPC + IndexToAddr(i.extra)) ELSE Effect(y)

\* Division of ints truncates.  (The least int by -1 is left out: it stops the
\* simulator itself.)
Quotient(a, b) ==
  LET q == (IF a < 0 THEN -a ELSE a) \div (IF b < 0 THEN -b ELSE b)
  IN  IF (a < 0) = (b < 0) THEN q ELSE -q
DivDefined(x, i) ==
  ~(i.opCode = "DIV" /\ x.reg[i.rt] = -1 /\ x.reg[i.rs] = -(2^(W - 1)))
Divide(x, i) ==
  LET unsigned == i.opCode = "DIVU"
      a == IF unsigned THEN Uns(x.reg[i.rs]) ELSE x.reg[i.rs]
      b == IF unsigned THEN Uns(x.reg[i.rt]) ELSE x.reg[i.rt]
      q == IF b = 0 THEN 0 ELSE Quotient(a, b)
  IN  [Effect(x) EXCEPT !.x.lo = Wrap(q), !.x.hi = IF b = 0 THEN 0 ELSE Wrap(a - q * b)]

Jump(x, i) ==
  LET link == CASE i.opCode = "JAL"  -> R31
                [] i.opCode = "JALR" -> i.rd
                [] OTHER             -> 0
      y    == IF link # 0 THEN Set(x, link, Wrap(x.nextPC + 4)).x ELSE x
      region == (x.nextPC + 4) - Low(x.nextPC + 4, W - W \div 8)
  IN  Goto(y, IF i.opCode \in {"J", "JAL"}
              THEN region + Low(IndexToAddr(i.extra), W - W \div 8)
              ELSE Uns(y.reg[i.rs]))

\* ReadMem and WriteMem of n bytes, the lowest first, past the translation.
Byte == W \div 4
Bytes(x, addr, n) ==
  LET Next(sum, k) == sum + x.mem[addr + k - 1] * 2^(Byte * (k - 1))
  IN  FoldLeft(Next, 0, [k \in 1..n |-> k])
Stored(x, addr, n, v) ==
  [Effect(x) EXCEPT !.x.mem = [a \in DOMAIN @ |->
     IF a \in addr..(addr + n - 1)
     THEN (Uns(v) \div 2^(Byte * (a - addr))) % 2^Byte ELSE @[a]]]

Address(x, i) == Uns(x.reg[i.rs] + i.extra)
Size(i) == CASE i.opCode \in {"LB", "LBU", "SB"} -> 1
             [] i.opCode \in {"LH", "LHU", "SH"} -> 2
             [] OTHER -> 4

Load(x, i) ==
  LET addr == Address(x, i)
      bits == Byte * Size(i)
      v    == Bytes(x, addr, Size(i))
  IN  IF addr % Size(i) # 0 THEN Raise(x, "AddressError")
      ELSE LoadTo(x, i.rt, IF i.opCode \in {"LB", "LH", "LW"} THEN SignExtend(v, bits)
                           ELSE v)

\* LWL and LWR, which assert that the address is a multiple of 4: the first then
\* replaces the whole register, the second its low byte.  They are the two
\* loads that look at the load before them.
LoadPartial(x, i) ==
  LET v   == Wrap(Bytes(x, Address(x, i), 4))
      old == IF x.loadReg = i.rt THEN x.loadValue ELSE x.reg[i.rt]
  IN  LoadTo(x, i.rt, IF i.opCode = "LWL" THEN v
                      ELSE Wrap(Uns(old) - Low(Uns(old), Byte)
                                + Low(ShiftRight(v, 3 * Byte), Byte)))
-----------------------------------------------------------------------------
\* One round of the loop of Mult: the next bit of a, and b shifted by one.
Negate(p) == LET lo == Uns(-p.lo)
             IN  [lo |-> lo, hi |-> Uns((2^W - 1 - p.hi) + Bool(lo = 0))]

\* A wrong round: the carry of the low word is lost.
MultRoundNoCarry(p) ==
  LET lo == Uns(p.lo + p.bLo)
      q  == IF p.a % 2 = 0 THEN p
            ELSE [p EXCEPT !.lo = lo, !.hi = Uns(@ + p.bHi)]
  IN  [q EXCEPT !.bHi = Uns(2 * @ + Bool(q.bLo >= 2^(W - 1))), !.bLo = Uns(2 * @),
                !.a = ShiftRight(@, 1)]

MultRound(p) ==
  LET lo == Uns(p.lo + p.bLo)
      q  == IF p.a % 2 = 0 THEN p
            ELSE [p EXCEPT !.lo = lo, !.hi = Uns(@ + Bool(lo < p.bLo) + p.bHi)]
  IN  [q EXCEPT !.bHi = Uns(2 * @ + Bool(q.bLo >= 2^(W - 1))), !.bLo = Uns(2 * @),
                !.a = ShiftRight(@, 1)]

\* Mult; the break when no bit of a is left changes nothing.
Mult(a, b, signedArith) ==
  LET negative == signedArith /\ SignBit(a) # SignBit(b)
      Abs(n)   == IF signedArith /\ n < 0 THEN Wrap(-n) ELSE n
      Round(p, k) == MultRound(p)
      p == FoldLeft(Round, [a |-> Abs(a), bLo |-> Uns(Abs(b)), bHi |-> 0, lo |-> 0, hi |-> 0],
                    [k \in 1..W |-> k])
      product == [lo |-> p.lo, hi |-> p.hi]
  IN  IF a = 0 \/ b = 0 THEN [lo |-> 0, hi |-> 0]
      ELSE IF negative THEN Negate(product) ELSE product

HiLo(x, i) ==
  LET rs == x.reg[i.rs]
      p  == Mult(rs, x.reg[i.rt], i.opCode = "MULT")
  IN  CASE i.opCode = "MFHI" -> Set(x, i.rd, x.hi)
        [] i.opCode = "MFLO" -> Set(x, i.rd, x.lo)
        [] i.opCode = "MTHI" -> [Effect(x) EXCEPT !.x.hi = rs]
        [] i.opCode = "MTLO" -> [Effect(x) EXCEPT !.x.lo = rs]
        [] OTHER -> [Effect(x) EXCEPT !.x.hi = Wrap(p.hi), !.x.lo = Wrap(p.lo)]

\* OR is rs with itself in the code.
NorOr(x, i) ==
  LET rs == x.reg[i.rs]
  IN  CASE i.opCode = "NOR" -> Set(x, i.rd, -1 - BitOr(rs, x.reg[i.rt]))
        [] i.opCode = "OR"  -> Set(x, i.rd, BitOr(rs, rs))
        [] i.opCode = "ORI" -> Set(x, i.rt, BitOr(rs, Low(i.extra, W \div 2)))

\* SRL and SRLV shift an int, as SRA and SRAV do.
Shift(x, i) ==
  LET rt == x.reg[i.rt]
      by == IF i.opCode \in {"SLLV", "SRAV", "SRLV"} THEN Low(x.reg[i.rs], 5) % W
            ELSE i.extra
  IN  Set(x, i.rd, IF i.opCode \in {"SLL", "SLLV"} THEN ShiftLeft(rt, by)
                   ELSE ShiftRight(rt, by))

SetLess(x, i) ==
  LET rs == x.reg[i.rs]  rt == x.reg[i.rt]
  IN  CASE i.opCode = "SLT"   -> Set(x, i.rd, Bool(rs < rt))
        [] i.opCode = "SLTI"  -> Set(x, i.rt, Bool(rs < i.extra))
        [] i.opCode = "SLTIU" -> Set(x, i.rt, Bool(Uns(rs) < Uns(i.extra)))
        [] i.opCode = "SLTU"  -> Set(x, i.rd, Bool(Uns(rs) < Uns(rt)))

DiffOverflows(a, b) ==
  LET diff == Wrap(a - b) IN SignBit(a) # SignBit(b) /\ SignBit(a) # SignBit(diff)

Sub(x, i) ==
  LET rs == x.reg[i.rs]  rt == x.reg[i.rt]
  IN  IF i.opCode = "SUB" /\ DiffOverflows(rs, rt) THEN Raise(x, "Overflow")
      ELSE Set(x, i.rd, Wrap(rs - rt))

\* SB, SH and SW: Translate finds an odd address.
Store(x, i) ==
  LET addr == Address(x, i)
  IN  IF addr % Size(i) # 0 THEN Raise(x, "AddressError")
      ELSE Stored(x, addr, Size(i), x.reg[i.rt])

\* SWL and SWR at a multiple of 4, which they assert: read, and write again.
StorePartial(x, i) ==
  LET addr == Address(x, i)
      old  == Bytes(x, addr, 4)
  IN  Stored(x, addr, 4, IF i.opCode = "SWL" THEN x.reg[i.rt]
                         ELSE Low(old, 3 * Byte) + ShiftLeft(x.reg[i.rt], 3 * Byte))

XorTrap(x, i) ==
  CASE i.opCode = "SYSCALL" -> Raise(x, "Syscall")
    [] i.opCode = "XOR"  -> Set(x, i.rd, BitXor(x.reg[i.rs], x.reg[i.rt]))
    [] i.opCode = "XORI" -> Set(x, i.rt, BitXor(x.reg[i.rs], Low(i.extra, W \div 2)))
    [] OTHER             -> Raise(x, "IllegalInstr")

LUI(x, i) == Set(x, i.rt, ShiftLeft(i.extra, W \div 2))

Loads  == {"LB", "LBU", "LH", "LHU", "LW"}
Stores == {"SB", "SH", "SW"}
Partial == {"LWL", "LWR", "SWL", "SWR"}

OneInstruction(x, i) ==
  CASE i.opCode \in {"ADD", "ADDI", "ADDIU", "ADDU", "AND", "ANDI"} -> AddAnd(x, i)
    [] i.opCode \in {"BEQ", "BGEZAL", "BGEZ", "BGTZ", "BLEZ", "BLTZAL", "BLTZ", "BNE"} -> Branch(x, i)
    [] i.opCode \in {"DIV", "DIVU"} -> Divide(x, i)
    [] i.opCode \in {"J", "JAL", "JR", "JALR"} -> Jump(x, i)
    [] i.opCode \in Loads -> Load(x, i)
    [] i.opCode = "LUI" -> LUI(x, i)
    [] i.opCode \in {"LWL", "LWR"} -> LoadPartial(x, i)
    [] i.opCode \in {"MFHI", "MFLO", "MTHI", "MTLO", "MULT", "MULTU"} -> HiLo(x, i)
    [] i.opCode \in {"NOR", "OR", "ORI"} -> NorOr(x, i)
    [] i.opCode \in Stores -> Store(x, i)
    [] i.opCode \in {"SLL", "SLLV", "SRA", "SRAV", "SRL", "SRLV"} -> Shift(x, i)
    [] i.opCode \in {"SLT", "SLTI", "SLTIU", "SLTU"} -> SetLess(x, i)
    [] i.opCode \in {"SUB", "SUBU"} -> Sub(x, i)
    [] i.opCode \in {"SWL", "SWR"} -> StorePartial(x, i)
    [] OTHER -> XorTrap(x, i)
-----------------------------------------------------------------------------
DelayedLoad(x, nextReg, nextValue) ==
  [x EXCEPT !.reg = [@ EXCEPT ![x.loadReg] = x.loadValue, ![0] = 0],
            !.loadReg = nextReg, !.loadValue = nextValue]

\* The end of OneInstruction: the load of the instruction before comes in, and
\* the program counters advance.
Complete(e) ==
  LET x == DelayedLoad(e.x, e.loadReg, e.loadValue)
  IN  [x EXCEPT !.pc = e.x.nextPC, !.nextPC = Uns(e.pcAfter)]

\* A wrong RaiseException: the handler runs with a load still to come.
RaiseExceptionAtOnce(x) == [x EXCEPT !.loadReg = 0, !.loadValue = 0]

\* RaiseException finishes the load in progress before the handler runs.
RaiseException(x) == DelayedLoad(x, 0, 0)

\* The handler of a system call ends in IncreasePC.
IncreasePC(x) == [x EXCEPT !.pc = x.nextPC, !.nextPC = Uns(x.nextPC + 4)]

\* InitRegisters, on an empty memory.
InitRegisters(a, b) ==
  [reg |-> [r \in 0..(NumGPRegs - 1) |-> IF r = 1 THEN a ELSE IF r = 2 THEN b ELSE 0],
   hi |-> 0, lo |-> 0, pc |-> 0, nextPC |-> 4, loadReg |-> 0, loadValue |-> 0,
   mem |-> [addr \in 0..(MemorySize - 1) |-> addr % 2^Byte]]

Init ==
  /\ \E a, b \in InitialValue : m = InitRegisters(a, b)
  /\ ref = m
  /\ steps = 0 /\ faults = 0 /\ halted = Running
-----------------------------------------------------------------------------
(* What a program keeps to.  It does not use, in the slot after a load, the *)
(* register being loaded (LWL and LWR may load it again), which MIPS leaves *)
(* undefined, and the model keeps its data in the memory there is.          *)

Registers(i) ==
  ({i.rs, i.rd} \cup (IF i.opCode \in {"LWL", "LWR"} THEN {} ELSE {i.rt})
   \cup (IF i.opCode \in {"JAL", "BGEZAL", "BLTZAL"} THEN {R31} ELSE {})) \ {0}
Proper(i) ==
  /\ ref.loadReg \notin Registers(i)
  /\ i.opCode \in Loads \cup Stores \cup Partial =>
       Address(ref, i) + 3 < MemorySize
  /\ i.opCode \in Partial => Address(ref, i) % 4 = 0
  /\ DivDefined(ref, i)

\* An access faults: at the fetch or at the data, before anything is changed.
PageFault ==
  /\ halted = Running /\ steps < MaxSteps /\ faults < MaxFaults
  /\ m' = RaiseException(m)
  /\ faults' = faults + 1
  /\ UNCHANGED <<ref, steps, halted>>

\* What SaveUserState copies from the machine, and RestoreUserState back to it.
SaveUserState(x) ==
  [reg |-> x.reg, hi |-> x.hi, lo |-> x.lo, pc |-> x.pc, nextPC |-> x.nextPC,
   loadReg |-> x.loadReg, loadValue |-> x.loadValue]
RestoreUserState(saved, mem) ==
  [reg |-> saved.reg, hi |-> saved.hi, lo |-> saved.lo, pc |-> saved.pc, nextPC |-> saved.nextPC,
   loadReg |-> saved.loadReg, loadValue |-> saved.loadValue, mem |-> mem]

\* An interrupt comes between two instructions.  CheckIfDue does the load in progress;
\* the thread yields, others use the registers, and it gets its own back.
Interrupted ==
  /\ halted = Running /\ steps < MaxSteps /\ faults < MaxFaults
  /\ m' = RestoreUserState(SaveUserState(DelayedLoad(m, 0, 0)), m.mem)
  /\ faults' = faults + 1
  /\ UNCHANGED <<ref, steps, halted>>

Step(i) ==
  LET e == OneInstruction(m, i)
      r == OneInstruction(ref, i)
  IN  \/ /\ e.raised = "No" /\ r.raised = "No"
         /\ m' = Complete(e) /\ ref' = Complete(r)
         /\ UNCHANGED halted
      \/ /\ e.raised = "Syscall" /\ r.raised = "Syscall"
         /\ m' = IncreasePC(RaiseException(m)) /\ ref' = IncreasePC(RaiseException(ref))
         /\ UNCHANGED halted
      \/ /\ e.raised \notin {"No", "Syscall"} \/ r.raised # e.raised
         /\ halted' = [m |-> e.raised, ref |-> r.raised]
         /\ m' = RaiseException(m) /\ ref' = RaiseException(ref)

Run(raw) ==
  LET i == Decode(raw)
  IN  /\ halted = Running /\ steps < MaxSteps
      /\ Proper(i)
      /\ Step(i)
      /\ steps' = steps + 1
      /\ UNCHANGED faults

Next == PageFault \/ Interrupted \/ \E raw \in Raw : Run(raw)

Spec == Init /\ [][Next]_vars
-----------------------------------------------------------------------------
\* A machine with the load in progress done.
Settled(x) == [DelayedLoad(x, 0, 0) EXCEPT !.pc = Uns(@)]

(***************************************************************************)
(* Faults are transparent: wherever they come, between a load and its      *)
(* slot, in the slot of a branch, before a store or a system call, every   *)
(* instruction takes effect once, and the program reaches the registers,   *)
(* memory, program counters and exceptions it reaches without any fault.   *)
(***************************************************************************)
FaultsTransparent ==
  /\ Settled(m) = Settled(ref)
  /\ halted.m = halted.ref

(***************************************************************************)
(* Mult computes the double-length product, signed and unsigned, and the   *)
(* sign tests of ADD and SUB find exactly the sums and differences that do *)
(* not fit in a word, for the starting values and every other word.        *)
(***************************************************************************)
ArithmeticRight ==
  steps = 0 /\ faults = 0 =>
    LET a == m.reg[1]
        Value(p, signed) == LET v == p.hi * 2^W + p.lo
                            IN  IF signed /\ v >= 2^(2 * W - 1) THEN v - 2^(2 * W) ELSE v
    IN  \A b \in Word :
          /\ Value(Mult(a, b, TRUE), TRUE) = a * b
          /\ Value(Mult(a, b, FALSE), FALSE) = Uns(a) * Uns(b)
          /\ SumOverflows(a, b) <=> a + b \notin Word
          /\ DiffOverflows(a, b) <=> a - b \notin Word
===============================================================================
