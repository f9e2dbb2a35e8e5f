----------------------------- MODULE Forwarding -----------------------------
(***************************************************************************)
(* The values in the pipeline of simulator/IP/mycpu: the register file     *)
(* with its write-through reads, the operands that Hazard.sv forwards from *)
(* LS and WB, the stall behind a load, and mstatus, which CSR.sv keeps as  *)
(* a stack that traps push and mret pops.  Program counters and caches are *)
(* those of module IMem and DMem: here a cycle brings any instruction, and *)
(* either cache may miss.  What an instruction computes is free, so an     *)
(* operand that is not the one of the program shows as a wrong value.      *)
(*                                                                         *)
(* regs and status are the registers of a processor that executes one      *)
(* instruction at a time; it takes its step when an instruction leaves EX. *)
(***************************************************************************)
EXTENDS Integers, Sequences

CONSTANTS
  Reg, x0,       \* the register numbers, and register zero
  Value, zero,   \* the contents of a register, and 0
  Top,           \* 8 ^ n when mstatus holds n + 1 levels of three bits: 512 in CSR.sv
  NewStatus,     \* what a csrrw may write there
  Program        \* the instructions a program may consist of

Kind == {"alu", "load", "store", "branch", "jump", "csr", "ecall", "mret", "fence"}
Inst == [kind : Kind, rd : Reg, rs1 : Reg, rs2 : Reg]

\* The twelve bits of mstatus that move; a trap pushes 3'h6, a return pops.
Status == 0..8 * Top - 1
Trapped(s) == (s % Top) * 8 + 6
Returned(s) == Top + s \div 8

ASSUME ForwardingAssumption ==
  /\ x0 \in Reg /\ zero \in Value /\ Program \subseteq Inst
  /\ Top \in Nat \ {0} /\ NewStatus \subseteq Status

VARIABLES
  if2,              \* commit_if2: IF2 holds an instruction
  id, ex, ls, wb,
  rf, mstatus,      \* Regfile.sv and CSR.sv
  regs, status      \* the processor that does one instruction at a time

vars == <<if2, id, ex, ls, wb, rf, mstatus, regs, status>>

\* inst 32'h13 and rf_we 0, as every flush leaves them
Nop == [kind |-> "alu", rd |-> x0, rs1 |-> x0, rs2 |-> x0]
Bubble == [kind |-> "alu", rd |-> x0]
\* What EX-LS and LS-WB keep of an instruction
Retiring == [kind : Kind, rd : Reg]
IdEx == [inst : Inst, rdata1 : Value, rdata2 : Value, csr_rdata : Status, taken : BOOLEAN]
Result == [inst : Retiring, alu_result : Value, mem_rdata : Value, csr_wdata : Status]

Init ==
  /\ if2 = FALSE /\ id = Nop
  /\ rf = [r \in Reg |-> zero] /\ regs = rf
  /\ mstatus = 0 /\ status = 0
  /\ ex = [inst |-> Nop, rdata1 |-> zero, rdata2 |-> zero, csr_rdata |-> mstatus, taken |-> FALSE]
  /\ ls = [inst |-> Bubble, alu_result |-> zero, mem_rdata |-> zero, csr_wdata |-> mstatus]
  /\ wb = ls

-----------------------------------------------------------------------------
(* Decode.sv and the selection of the result in WB *)

\* Fault: an instruction may write register zero.
rf_we_Zero(i) == i.kind \in {"alu", "load", "jump", "csr"}

rf_we(i) == i.rd # x0 /\ i.kind \in {"alu", "load", "jump", "csr"}
priv(i)  == i.kind \in {"csr", "ecall", "mret", "fence"}
Written(slot) == IF slot.inst.kind = "load" THEN slot.mem_rdata ELSE slot.alu_result

\* Fault: the register file is read before it is written.
Regfile_OldValue(r) == rf[r]

\* A register that WB writes is read as it will be.
Regfile(r) == IF rf_we(wb.inst) /\ wb.inst.rd = r THEN Written(wb) ELSE rf[r]

-----------------------------------------------------------------------------
(* Hazard.sv *)

\* Fault: the older of two writers is forwarded.
Forward_WbFirst(rs, rdata) ==
  IF rf_we(wb.inst) /\ wb.inst.rd = rs THEN Written(wb)
  ELSE IF rf_we(ls.inst) /\ ls.inst.rd = rs THEN ls.alu_result
  ELSE rdata

\* LS forwards what the ALU computed, even when a load will write something else.
Forward(rs, rdata) ==
  IF rf_we(ls.inst) /\ ls.inst.rd = rs THEN ls.alu_result
  ELSE IF rf_we(wb.inst) /\ wb.inst.rd = rs THEN Written(wb)
  ELSE rdata

Operand1 == Forward(ex.inst.rs1, ex.rdata1)
Operand2 == Forward(ex.inst.rs2, ex.rdata2)

\* Fault: only the first operand of the instruction behind a load is compared.
load_use_FirstOnly == ex.inst.kind = "load" /\ ex.inst.rd = id.rs1

load_use == ex.inst.kind = "load" /\ ex.inst.rd \in {id.rs1, id.rs2}

flush_by_jump    == ex.taken
flush_by_priv_ex == priv(ex.inst)
flush_by_exp     == wb.inst.kind = "ecall"
pc_set           == flush_by_jump \/ flush_by_priv_ex \/ flush_by_exp

IF2_ID_flush(imiss, dmiss) ==
  \/ (flush_by_jump \/ imiss) /\ ~load_use /\ ~dmiss
  \/ flush_by_priv_ex \/ flush_by_exp

\* Fault: what follows a csrrw or a fence stays in the pipeline.
ID_EX_flush_NoPriv(dmiss) == ((flush_by_jump \/ load_use) /\ ~dmiss) \/ flush_by_exp

ID_EX_flush(dmiss) ==
  ((flush_by_jump \/ load_use \/ flush_by_priv_ex) /\ ~dmiss) \/ flush_by_exp

-----------------------------------------------------------------------------
(* The segment registers: a flush wins over a stall. *)

Fetch(imiss, dmiss) ==
  /\ if2' = (~pc_set /\ (IF load_use \/ imiss \/ dmiss THEN if2 ELSE TRUE))
  /\ IF IF2_ID_flush(imiss, dmiss) THEN id' = Nop
     ELSE IF load_use \/ dmiss THEN UNCHANGED id
     ELSE IF if2 THEN id' \in Program
     ELSE id' = Nop

Decode(dmiss) ==
  IF ID_EX_flush(dmiss)
  THEN ex' = [inst |-> Nop, rdata1 |-> zero, rdata2 |-> zero, csr_rdata |-> mstatus,
              taken |-> FALSE]
  ELSE IF dmiss THEN UNCHANGED ex
  ELSE \E b \in CASE id.kind = "branch" -> BOOLEAN
                  [] id.kind = "jump" -> {TRUE} [] OTHER -> {FALSE} :
         ex' = [inst |-> id, rdata1 |-> Regfile(id.rs1), rdata2 |-> Regfile(id.rs2),
                csr_rdata |-> mstatus, taken |-> b]

\* What the instruction does on a processor that has no pipeline.
Sequential(i, result, wdata) ==
  /\ regs' = IF i.kind \in {"alu", "load", "jump", "csr"} /\ i.rd # x0
             THEN [regs EXCEPT ![i.rd] = result] ELSE regs
  /\ status' = CASE i.kind = "csr" -> wdata
                 [] i.kind = "ecall" -> Trapped(status)
                 [] i.kind = "mret" -> Returned(status)
                 [] OTHER -> status

Execute(dmiss) ==
  IF flush_by_exp THEN ls' = [ls EXCEPT !.inst = Bubble] /\ UNCHANGED <<regs, status>>
  ELSE IF dmiss THEN UNCHANGED <<ls, regs, status>>
  ELSE \E a \in IF rf_we(ex.inst) THEN Value ELSE {zero},
          m \in IF ex.inst.kind = "load" THEN Value ELSE {zero},
          s \in IF ex.inst.kind = "csr" THEN NewStatus ELSE {mstatus} :
         /\ ls' = [inst |-> [kind |-> ex.inst.kind, rd |-> ex.inst.rd],
                   alu_result |-> a, mem_rdata |-> m, csr_wdata |-> s]
         /\ Sequential(ex.inst, IF ex.inst.kind = "load" THEN m ELSE a, s)

\* While WB is held it writes the same register again in every cycle.
Retire(dmiss) ==
  /\ wb' = IF flush_by_exp THEN [wb EXCEPT !.inst = Bubble] ELSE IF dmiss THEN wb ELSE ls
  /\ rf' = IF rf_we(wb.inst) THEN [rf EXCEPT ![wb.inst.rd] = Written(wb)] ELSE rf

\* So does the CSR file: a trap or an mret that were held would shift twice.
WriteStatus ==
  mstatus' = CASE wb.inst.kind = "ecall" -> Trapped(mstatus)
               [] wb.inst.kind = "mret" -> Returned(mstatus)
               [] wb.inst.kind = "csr" -> wb.csr_wdata
               [] OTHER -> mstatus

\* dcache_miss is about the access in LS; icache_miss is free.
Clock(imiss, dmiss) ==
  /\ dmiss => ls.inst.kind \in {"load", "store", "fence"}
  /\ Fetch(imiss, dmiss) /\ Decode(dmiss) /\ Execute(dmiss) /\ Retire(dmiss) /\ WriteStatus

Next == \E imiss, dmiss \in BOOLEAN : Clock(imiss, dmiss)

Spec == Init /\ [][Next]_vars

-----------------------------------------------------------------------------
(* Properties *)

\* Every slot of the pipeline holds what its segment register can hold.
TypeOK ==
  /\ if2 \in BOOLEAN /\ id \in Inst /\ ex \in IdEx
  /\ ls \in Result /\ wb \in Result
  /\ rf \in [Reg -> Value] /\ regs \in [Reg -> Value]
  /\ mstatus \in Status /\ status \in Status

\* Both operands of the instruction in EX are what all the instructions before
\* it leave in its registers, whichever of them are still in LS or WB, held by
\* a miss or not (Hazard.sv:61-82, 90-93, Regfile.sv:34-35).
OperandsCurrent ==
  Operand1 = regs[ex.inst.rs1] /\ Operand2 = regs[ex.inst.rs2]

\* A csrr reads mstatus as the instructions before it leave it: the csrrw, trap
\* or return before it has reached CSR.sv when it is in ID (Hazard.sv:104).
StatusCurrent == ex.inst.kind = "csr" => ex.csr_rdata = status

\* When LS and WB write nothing more, the register file and mstatus are those
\* of the processor that executes one instruction at a time: every result is
\* written, none is written by an instruction that was flushed, and a trap or
\* an mret has shifted mstatus once although WB may be held by a miss.
RegistersFollow ==
  /\ ~rf_we(ls.inst) /\ ~rf_we(wb.inst) => rf = regs
  /\ ~priv(ls.inst) /\ ~priv(wb.inst) => mstatus = status
=============================================================================
