------------------------------ MODULE Execute ------------------------------
(***************************************************************************)
(* What an instruction computes: Decode.sv, ALU.sv, Branch.sv and Priv.sv  *)
(* on one side, the reference's decode_exec (nemu/src/isa/riscv32/inst.c)  *)
(* on the other, in the lockstep that differential testing compares.  A    *)
(* word has Width bits instead of 32 and a shift amount ShiftBits instead  *)
(* of 5, so that every pair of operands can be tried.  Loads and stores    *)
(* are those of module Lanes, traps those of Forwarding and Syscalls.      *)
(***************************************************************************)
EXTENDS Integers

CONSTANTS
  Width, ShiftBits,
  Opcodes,  \* the opcodes of the run
  Imms      \* the immediates of the run

Size == 2 ^ Width
Word == 0..Size - 1
Top == 2 ^ (Width - 1)

\* inst[6:0], by the name of its arm in Decode.sv
Opcode == {"lui", "auipc", "jal", "jalr", "branch", "imm", "op", "system"}
Funct == 0..7

ASSUME ExecuteAssumption ==
  /\ ShiftBits \in Nat \ {0} /\ Width = 2 ^ ShiftBits
  /\ Opcodes \subseteq Opcode /\ Imms \subseteq Word

\* funct3, inst[30] and inst[25], rd; rs1 is register 1 and rs2 register 2.  For
\* "imm" inst[30] is the bit of the immediate above the shift amount.
Inst == [opcode : Opcodes, funct3 : Funct, b30 : 0..1, b25 : 0..1, rd : 0..2, imm : Imms]

-----------------------------------------------------------------------------
(* Numbers *)

Wrap(n) == n % Size
Signed(w) == IF w >= Top THEN w - Size ELSE w
Complement(w) == Size - 1 - w

\* The operations on bits: the word with the bits of both, of one, of one alone
Bits == [w \in Word |-> {k \in 0..Width - 1 : (w \div 2 ^ k) % 2 = 1}]
WithBits == [bits \in SUBSET (0..Width - 1) |-> CHOOSE w \in Word : Bits[w] = bits]
And(a, b) == WithBits[Bits[a] \cap Bits[b]]
Or(a, b) == WithBits[Bits[a] \cup Bits[b]]
Xor(a, b) == WithBits[(Bits[a] \ Bits[b]) \cup (Bits[b] \ Bits[a])]

Truth(b) == IF b THEN 1 ELSE 0
Magnitude(n) == IF n < 0 THEN -n ELSE n
\* C's division, towards zero
Quotient(a, b) ==
  LET q == Magnitude(a) \div Magnitude(b) IN IF (a < 0) = (b < 0) THEN q ELSE -q

-----------------------------------------------------------------------------
(* The processor *)

\* Fault: a shift to the right keeps the sign whenever it is immediate.
alu_op_AnyImm(i) ==
  CASE i.opcode = "imm" -> [alt |-> i.funct3 = 5, m |-> FALSE, f |-> i.funct3]
    [] i.opcode = "op" -> [alt |-> i.b30 = 1, m |-> i.b25 = 1, f |-> i.funct3]
    [] OTHER -> [alt |-> FALSE, m |-> FALSE, f |-> 0]

\* {alt, m, funct3}: ADD is 0, SUB is alt, the multiplications are m.
alu_op(i) ==
  CASE i.opcode = "imm" -> [alt |-> i.funct3 = 5 /\ i.b30 = 1, m |-> FALSE, f |-> i.funct3]
    [] i.opcode = "op" -> [alt |-> i.b30 = 1, m |-> i.b25 = 1, f |-> i.funct3]
    [] OTHER -> [alt |-> FALSE, m |-> FALSE, f |-> 0]

alu_rs1(i, s) ==
  CASE i.opcode \in {"auipc", "jal", "jalr"} -> s.pc
    [] i.opcode \in {"lui", "system"} -> 0
    [] OTHER -> s.regs[1]

alu_rs2(i, s) ==
  CASE i.opcode \in {"jal", "jalr"} -> 4 % Size
    [] i.opcode \in {"lui", "auipc", "imm"} -> i.imm
    [] i.opcode = "system" -> s.csr
    [] OTHER -> s.regs[2]

\* {{32{sr[31]}}, sr}
Extend(w) == IF w >= Top THEN w + Size * (Size - 1) ELSE w

result_64(f, a, b) ==
  (CASE f \in {0, 1} -> Extend(a) * Extend(b)
     [] f = 2 -> Extend(a) * b
     [] OTHER -> a * b) % (Size * Size)

Absolute(w) == IF w >= Top THEN Wrap(-w) ELSE w

\* Fault: the remainder takes the sign of the quotient.
Divided_OneSign(f, a, b) ==
  LET differ == (a >= Top) # (b >= Top) IN
  CASE f = 4 -> IF differ THEN Wrap(-(Absolute(a) \div Absolute(b))) ELSE Absolute(a) \div Absolute(b)
    [] f = 6 -> IF differ THEN Wrap(-(Absolute(a) % Absolute(b))) ELSE Absolute(a) % Absolute(b)
    [] f = 5 -> a \div b
    [] OTHER -> a % b

\* DIV, DIVU, REM and REMU of a divisor other than 0
Divided(f, a, b) ==
  LET differ == (a >= Top) # (b >= Top) IN
  CASE f = 4 -> IF differ THEN Wrap(-(Absolute(a) \div Absolute(b))) ELSE Absolute(a) \div Absolute(b)
    [] f = 6 -> IF a >= Top THEN Wrap(-(Absolute(a) % Absolute(b))) ELSE Absolute(a) % Absolute(b)
    [] f = 5 -> a \div b
    [] OTHER -> a % b

ALU(op, a, b) ==
  LET shift == 2 ^ (b % Width) IN
  IF op.m
  THEN CASE op.f = 0 -> Wrap(result_64(op.f, a, b))
         [] op.f \in 1..3 -> result_64(op.f, a, b) \div Size
         [] op.f > 3 /\ b = 0 -> IF op.f \in {4, 5} THEN Size - 1 ELSE a
         [] OTHER -> Divided(op.f, a, b)
  ELSE CASE op.f = 0 -> Wrap(IF op.alt THEN a - b ELSE a + b)
         [] op.f = 1 -> Wrap(a * shift)
         [] op.f = 2 -> Truth(Signed(a) < Signed(b))
         [] op.f = 3 -> Truth(a < b)
         [] op.f = 4 -> Xor(a, b)
         [] op.f = 5 -> IF op.alt THEN Wrap(Signed(a) \div shift) ELSE a \div shift
         [] op.f = 6 -> Or(a, b)
         [] OTHER -> And(a, b)

jump(i, a, b) ==
  CASE i.opcode = "branch" ->
         CASE i.funct3 = 0 -> a = b [] i.funct3 = 1 -> a # b
           [] i.funct3 = 4 -> Signed(a) < Signed(b) [] i.funct3 = 5 -> Signed(a) >= Signed(b)
           [] i.funct3 = 6 -> a < b [] i.funct3 = 7 -> a >= b [] OTHER -> FALSE
    [] OTHER -> i.opcode \in {"jal", "jalr"}

jump_target(i, s) == Wrap((IF i.opcode = "jalr" THEN s.regs[1] ELSE s.pc) + i.imm)

\* Fault: csrrc keeps the bits it is given and clears the others.
csr_wdata_KeepsBits(i, s) ==
  LET w == IF i.funct3 >= 4 THEN i.imm ELSE s.regs[1]
  IN CASE i.funct3 % 4 = 1 -> w [] i.funct3 % 4 = 2 -> Or(s.csr, w) [] OTHER -> And(s.csr, w)

\* The immediate of a csrr?i is zimm, the field of rs1.
csr_wdata(i, s) ==
  LET w == IF i.funct3 >= 4 THEN i.imm ELSE s.regs[1]
  IN CASE i.funct3 % 4 = 1 -> w [] i.funct3 % 4 = 2 -> Or(s.csr, w) [] OTHER -> And(s.csr, Complement(w))

\* Fault: register zero is written.
rf_we_Zero(i) == i.opcode # "branch"

rf_we(i) == i.rd # 0 /\ i.opcode # "branch"

Processor(i, s) ==
  [regs |-> IF rf_we(i)
            THEN [s.regs EXCEPT ![i.rd] = ALU(alu_op(i), alu_rs1(i, s), alu_rs2(i, s))]
            ELSE s.regs,
   pc |-> IF jump(i, s.regs[1], s.regs[2]) THEN jump_target(i, s) ELSE Wrap(s.pc + 4),
   csr |-> IF i.opcode = "system" THEN csr_wdata(i, s) ELSE s.csr]

-----------------------------------------------------------------------------
(* The reference *)

\* The patterns of funct7 and funct3 of INSTPAT, by name
RType ==
  << <<"add", "sll", "slt", "sltu", "xor", "srl", "or", "and">>,
     <<"sub", "inv", "inv", "inv", "inv", "sra", "inv", "inv">>,
     <<"mul", "mulh", "mulhsu", "mulhu", "div", "divu", "rem", "remu">> >>
IType == <<"add", "sll", "slt", "sltu", "xor", "srl", "or", "and">>
BType == <<"beq", "bne", "inv", "inv", "blt", "bge", "bltu", "bgeu">>

\* "inv" is the end of the patterns, and so is inst[30] with inst[25].
Name(i) ==
  CASE i.opcode = "op" ->
         IF i.b30 = 1 /\ i.b25 = 1 THEN "inv" ELSE RType[1 + i.b30 + 2 * i.b25][i.funct3 + 1]
    [] i.opcode = "imm" ->
         IF i.funct3 = 5 /\ i.b30 = 1 THEN "sra" ELSE IType[i.funct3 + 1]
    [] i.opcode = "branch" -> BType[i.funct3 + 1]
    [] i.opcode = "system" -> IF i.funct3 \in {0, 4} THEN "inv" ELSE "csr"
    [] i.opcode = "jalr" -> IF i.funct3 = 0 THEN "jalr" ELSE "inv"
    [] OTHER -> i.opcode

\* C's expressions on word_t, sword_t and the 64-bit types
Value(name, a, b) ==
  CASE name = "add" -> Wrap(a + b)
    [] name = "sub" -> Wrap(a - b)
    [] name = "sll" -> Wrap(a * 2 ^ (b % Width))
    [] name = "srl" -> a \div 2 ^ (b % Width)
    [] name = "sra" -> Wrap(Signed(a) \div 2 ^ (b % Width))
    [] name = "slt" -> Truth(Signed(a) < Signed(b))
    [] name = "sltu" -> Truth(a < b)
    [] name = "xor" -> Xor(a, b)
    [] name = "or" -> Or(a, b)
    [] name = "and" -> And(a, b)
    [] name = "mul" -> Wrap(Signed(a) * Signed(b))
    [] name = "mulh" -> Wrap((Signed(a) * Signed(b)) \div Size)
    [] name = "mulhsu" -> Wrap((Signed(a) * b) \div Size)
    [] name = "mulhu" -> (a * b) \div Size
    [] name = "div" -> IF a = Top /\ b = Size - 1 THEN Top
                       ELSE IF b # 0 THEN Wrap(Quotient(Signed(a), Signed(b))) ELSE Size - 1
    [] name = "divu" -> IF b # 0 THEN a \div b ELSE Size - 1
    [] name = "rem" -> IF a = Top /\ b = Size - 1 THEN 0
                       ELSE IF b # 0
                            THEN Wrap(Signed(a) - Signed(b) * Quotient(Signed(a), Signed(b)))
                            ELSE a
    [] name = "remu" -> IF b # 0 THEN a % b ELSE a

Taken(name, a, b) ==
  CASE name = "beq" -> a = b [] name = "bne" -> a # b
    [] name = "blt" -> Signed(a) < Signed(b) [] name = "bge" -> Signed(a) >= Signed(b)
    [] name = "bltu" -> a < b [] name = "bgeu" -> a >= b

\* R(0) is written like the others and reset at the end.
Reference(i, s) ==
  LET a == s.regs[1]
      R(v) == IF i.rd = 0 THEN s.regs ELSE [s.regs EXCEPT ![i.rd] = v]
      snpc == Wrap(s.pc + 4)
      w == IF i.funct3 >= 4 THEN i.imm ELSE a
  IN CASE i.opcode = "op" -> [s EXCEPT !.regs = R(Value(Name(i), a, s.regs[2])), !.pc = snpc]
       [] i.opcode = "imm" -> [s EXCEPT !.regs = R(Value(Name(i), a, i.imm)), !.pc = snpc]
       [] i.opcode = "branch" ->
            [s EXCEPT !.pc = IF Taken(Name(i), a, s.regs[2]) THEN Wrap(s.pc + i.imm) ELSE snpc]
       [] i.opcode = "jal" -> [s EXCEPT !.regs = R(snpc), !.pc = Wrap(s.pc + i.imm)]
       [] i.opcode = "jalr" -> [s EXCEPT !.regs = R(snpc), !.pc = Wrap(a + i.imm)]
       [] i.opcode = "lui" -> [s EXCEPT !.regs = R(i.imm), !.pc = snpc]
       [] i.opcode = "auipc" -> [s EXCEPT !.regs = R(Wrap(s.pc + i.imm)), !.pc = snpc]
       [] OTHER ->
            [regs |-> R(s.csr), pc |-> snpc,
             csr |-> CASE i.funct3 % 4 = 1 -> w [] i.funct3 % 4 = 2 -> Or(w, s.csr)
                       [] OTHER -> And(Complement(w), s.csr)]

-----------------------------------------------------------------------------
VARIABLES hw, ref   \* registers 0 to 2, pc and one CSR of either side

vars == <<hw, ref>>

Init == /\ hw = [regs |-> [r \in 0..2 |-> 0], pc |-> 0, csr |-> 0]
        /\ ref = hw

\* In a shift by an immediate the bit above its amount is inst[30] and those
\* above are 0; so are here the fields an instruction does not have.
Encoded(i) ==
  /\ i.opcode # "op" => i.b25 = 0
  /\ IF i.opcode = "imm" THEN i.b30 = (i.imm \div Width) % 2 ELSE i.opcode = "op" \/ i.b30 = 0
  /\ i.opcode = "op" => i.imm = 0
  /\ i.opcode \in {"lui", "auipc", "jal"} => i.funct3 = 0
  /\ i.opcode = "imm" /\ i.funct3 = 1 => i.imm < Width
  /\ i.opcode = "imm" /\ i.funct3 = 5 => i.imm < 2 * Width

Step(i) ==
  /\ Name(i) # "inv" /\ Encoded(i)
  /\ hw' = Processor(i, hw) /\ ref' = Reference(i, ref)

Next == \E i \in Inst : Step(i)

Spec == Init /\ [][Next]_vars

-----------------------------------------------------------------------------
(* Properties *)

\* After every program of the reference's instructions both sides hold the same
\* registers, pc and CSR: the multiplications and divisions ALU.sv builds from
\* magnitudes and widened products, with their signs, zero divisors and the one
\* overflow, are those of the C expressions; so are shifts by a register that
\* holds more than Width, branches at the sign boundary, and csr instructions
\* whose target is the register they read.
ResultsAgree == hw = ref
=============================================================================
