-------------------------- MODULE ForwardingProofs --------------------------
(* The operands, the results and mstatus of module Forwarding are those of  *)
(* a processor without a pipeline, for any registers and any program.       *)
EXTENDS Forwarding, TLAPS

Writes(slot, r) == rf_we(slot.inst) /\ slot.inst.rd = r

\* What the register file will hold when LS and WB have retired.
Overlay(r) ==
  IF Writes(ls, r) THEN Written(ls) ELSE IF Writes(wb, r) THEN Written(wb) ELSE rf[r]

\* The same for mstatus
Effect(slot, m) ==
  CASE slot.inst.kind = "ecall" -> Trapped(m)
    [] slot.inst.kind = "mret" -> Returned(m)
    [] slot.inst.kind = "csr" -> slot.csr_wdata
    [] OTHER -> m

Fresh(rs, rdata) == ~Writes(ls, rs) /\ ~Writes(wb, rs) => rdata = rf[rs]

\* The inductive invariant, in parts: LS and WB lead from the register file to
\* the registers of the program; what ID read is current unless it is forwarded;
\* no load in LS feeds EX; a privileged instruction has nothing behind it in
\* the stages that read or that could hold it.
Results == \A r \in Reg : Overlay(r) = regs[r]
Operands ==
  /\ rf[x0] = zero
  /\ Fresh(ex.inst.rs1, ex.rdata1)
  /\ Fresh(ex.inst.rs2, ex.rdata2)
NoLoadUse ==
  ls.inst.kind = "load" /\ rf_we(ls.inst) =>
    ls.inst.rd # ex.inst.rs1 /\ ls.inst.rd # ex.inst.rs2
Alone ==
  /\ priv(ls.inst) => ~if2 /\ id = Nop /\ ex.inst = Nop
  /\ priv(wb.inst) => id = Nop /\ ex.inst = Nop /\ ls.inst = Bubble
Levels ==
  /\ status = Effect(IF priv(wb.inst) THEN wb ELSE ls, mstatus)
  /\ StatusCurrent

IInv == TypeOK /\ Results /\ Operands /\ NoLoadUse /\ Alone /\ Levels

-----------------------------------------------------------------------------
\* A trap and a return keep mstatus in its bits.
LEMMA LevelType == \A s \in Status : Trapped(s) \in Status /\ Returned(s) \in Status
<1> TAKE s \in Status
<1>1. Top \in Nat \ {0} /\ s \in 0..8 * Top - 1
  BY ForwardingAssumption DEF Status
<1>2. s % Top \in 0..Top - 1
  BY <1>1
<1>3. Trapped(s) \in Status
  BY <1>1, <1>2 DEF Trapped, Status
<1>4. s \div 8 \in 0..Top - 1
  BY <1>1
<1>5. Returned(s) \in Status
  BY <1>1, <1>4 DEF Returned, Status
<1> QED
  BY <1>3, <1>5

\* A bubble is an instruction, and one that neither writes nor traps.
LEMMA BubbleType ==
  /\ Nop \in Inst /\ Bubble \in Retiring
  /\ ~rf_we(Nop) /\ ~rf_we(Bubble) /\ ~priv(Nop) /\ ~priv(Bubble)
BY ForwardingAssumption DEF Nop, Bubble, Inst, Retiring, Kind, rf_we, priv

\* What a slot writes and what ID reads are values.
LEMMA ReadType ==
  ASSUME TypeOK
  PROVE  /\ Written(wb) \in Value /\ Written(ls) \in Value
         /\ \A r \in Reg : Regfile(r) \in Value
BY DEF TypeOK, Result, Written, Regfile

\* The processor starts empty: nothing is pending.
LEMMA InitInv == Init => IInv
<1> SUFFICES ASSUME Init PROVE IInv
  OBVIOUS
<1>1. TypeOK
  <2>1. 0 \in Status
    BY ForwardingAssumption DEF Status
  <2>2. ex \in IdEx /\ ls \in Result /\ wb \in Result
    BY <2>1, BubbleType, ForwardingAssumption DEF Init, IdEx, Result
  <2> QED
    BY <2>1, <2>2, BubbleType, ForwardingAssumption DEF Init, TypeOK
<1>2. Results /\ Operands /\ NoLoadUse /\ Alone
  BY BubbleType, ForwardingAssumption
  DEF Init, Results, Operands, NoLoadUse, Alone, Overlay, Writes, Fresh, TypeOK, Inst, Nop
<1>3. Levels
  BY BubbleType DEF Init, Levels, Effect, StatusCurrent, Nop, Bubble
<1> QED
  BY <1>1, <1>2, <1>3 DEF IInv

\* One cycle keeps the types.
LEMMA ClockType ==
  ASSUME TypeOK, NEW imiss \in BOOLEAN, NEW dmiss \in BOOLEAN, Clock(imiss, dmiss)
  PROVE  TypeOK'
<1>1. if2' \in BOOLEAN /\ id' \in Inst
  <2>1. if2' \in BOOLEAN
    <3> DEFINE held == IF load_use \/ imiss \/ dmiss THEN if2 ELSE TRUE
    <3>1. if2' = (~pc_set /\ held)
      BY DEF Clock, Fetch
    <3> HIDE DEF held
    <3> QED
      BY <3>1
  <2>2. id' \in Program \cup {Nop, id}
    BY DEF Clock, Fetch
  <2> QED
    BY <2>1, <2>2, BubbleType, ForwardingAssumption DEF TypeOK
<1>2. ex' \in IdEx
  <2>1. CASE ID_EX_flush(dmiss)
    <3>1. ex' = [inst |-> Nop, rdata1 |-> zero, rdata2 |-> zero, csr_rdata |-> mstatus,
                 taken |-> FALSE]
      BY <2>1 DEF Clock, Decode
    <3>2. FALSE \in BOOLEAN
      OBVIOUS
    <3> QED
      BY <3>1, <3>2, BubbleType, ForwardingAssumption DEF TypeOK, IdEx
  <2>2. CASE ~ID_EX_flush(dmiss) /\ dmiss
    BY <2>2 DEF TypeOK, Clock, Decode
  <2>3. CASE ~ID_EX_flush(dmiss) /\ ~dmiss
    <3>1. id.rs1 \in Reg /\ id.rs2 \in Reg
      BY DEF TypeOK, Inst
    <3>2. PICK b \in BOOLEAN :
            ex' = [inst |-> id, rdata1 |-> Regfile(id.rs1), rdata2 |-> Regfile(id.rs2),
                   csr_rdata |-> mstatus, taken |-> b]
      BY <2>3 DEF Clock, Decode
    <3> QED
      BY <3>1, <3>2, ReadType DEF TypeOK, IdEx
  <2> QED
    BY <2>1, <2>2, <2>3
<1>3. ls' \in Result /\ regs' \in [Reg -> Value] /\ status' \in Status
  <2>1. CASE flush_by_exp
    BY <2>1, BubbleType DEF TypeOK, Clock, Execute, Result
  <2>2. CASE ~flush_by_exp /\ dmiss
    BY <2>2 DEF TypeOK, Clock, Execute
  <2>3. CASE ~flush_by_exp /\ ~dmiss
    <3>1. PICK a, m \in Value, s \in Status :
            /\ ls' = [inst |-> [kind |-> ex.inst.kind, rd |-> ex.inst.rd],
                      alu_result |-> a, mem_rdata |-> m, csr_wdata |-> s]
            /\ Sequential(ex.inst, IF ex.inst.kind = "load" THEN m ELSE a, s)
      BY <2>3, ForwardingAssumption DEF TypeOK, Clock, Execute
    <3>2. ls' \in Result
      BY <3>1 DEF TypeOK, IdEx, Inst, Retiring, Result
    <3>3. regs' \in [Reg -> Value] /\ status' \in Status
      BY <3>1, LevelType DEF TypeOK, Sequential, IdEx, Inst
    <3> QED
      BY <3>2, <3>3
  <2> QED
    BY <2>1, <2>2, <2>3
<1>4. wb' \in Result /\ rf' \in [Reg -> Value]
  BY BubbleType, ReadType DEF TypeOK, Clock, Retire, Result, Retiring
<1>5. mstatus' \in Status
  BY LevelType DEF TypeOK, Clock, WriteStatus, Result
<1> QED
  BY <1>1, <1>2, <1>3, <1>4, <1>5 DEF TypeOK

-----------------------------------------------------------------------------
\* What the next cycle holds in EX: a bubble, the same, or what was in ID.
LEMMA DecodeCases ==
  ASSUME NEW imiss \in BOOLEAN, NEW dmiss \in BOOLEAN, Clock(imiss, dmiss)
  PROVE  \/ ex'.inst = Nop /\ ex'.rdata1 = zero /\ ex'.rdata2 = zero
         \/ dmiss = TRUE /\ ex' = ex
         \/ /\ dmiss = FALSE /\ ~load_use /\ ~flush_by_priv_ex /\ ~flush_by_exp /\ ex'.inst = id
            /\ ex'.rdata1 = Regfile(id.rs1) /\ ex'.rdata2 = Regfile(id.rs2)
            /\ ex'.csr_rdata = mstatus
<1>1. CASE ID_EX_flush(dmiss)
  BY <1>1 DEF Clock, Decode
<1>2. CASE ~ID_EX_flush(dmiss) /\ dmiss
  BY <1>2 DEF Clock, Decode
<1>3. CASE ~ID_EX_flush(dmiss) /\ ~dmiss
  <2>1. PICK b : ex' = [inst |-> id, rdata1 |-> Regfile(id.rs1),
                        rdata2 |-> Regfile(id.rs2), csr_rdata |-> mstatus, taken |-> b]
    BY <1>3 DEF Clock, Decode
  <2>2. ~load_use /\ ~flush_by_priv_ex /\ ~flush_by_exp
    BY <1>3 DEF ID_EX_flush
  <2> QED
    BY <1>3, <2>1, <2>2
<1> QED
  BY <1>1, <1>2, <1>3

\* A privileged instruction in LS or WB stays alone, and WB is not held with it.
LEMMA StepAlone ==
  ASSUME IInv, NEW imiss \in BOOLEAN, NEW dmiss \in BOOLEAN, Clock(imiss, dmiss)
  PROVE  Alone' /\ (priv(wb.inst) => ~dmiss)
<1>1. priv(wb.inst) => ~dmiss
  BY DEF IInv, Alone, Clock, Bubble
<1>2. CASE dmiss
  <2>1. ~priv(wb.inst) /\ ~flush_by_exp /\ ls' = ls /\ wb' = wb
    BY <1>1, <1>2 DEF Clock, Execute, Retire, flush_by_exp, priv
  <2>2. priv(ls.inst) => ~if2' /\ id' = Nop /\ ex'.inst = Nop
    <3>1. SUFFICES ASSUME priv(ls.inst) PROVE ~if2' /\ id' = Nop /\ ex'.inst = Nop
      OBVIOUS
    <3>2. ~if2 /\ id = Nop /\ ex.inst = Nop
      BY <3>1 DEF IInv, Alone
    <3> QED
      BY <3>2, <1>2, DecodeCases DEF Clock, Fetch
  <2> QED
    BY <2>1, <2>2 DEF Alone
<1>3. CASE ~dmiss
  <2>1. CASE flush_by_exp
    BY <1>3, <2>1, BubbleType DEF Clock, Execute, Retire, Fetch, Decode, Alone, pc_set,
       IF2_ID_flush, ID_EX_flush
  <2>2. CASE ~flush_by_exp
    <3>1. ls'.inst = [kind |-> ex.inst.kind, rd |-> ex.inst.rd] /\ wb' = ls
      BY <1>3, <2>2 DEF Clock, Execute, Retire
    <3>2. priv(ls'.inst) => ~if2' /\ id' = Nop /\ ex'.inst = Nop
      <4>1. SUFFICES ASSUME priv(ls'.inst) PROVE ~if2' /\ id' = Nop /\ ex'.inst = Nop
        OBVIOUS
      <4>2. flush_by_priv_ex
        BY <3>1, <4>1 DEF priv, flush_by_priv_ex
      <4> QED
        BY <1>3, <4>2 DEF Clock, Fetch, Decode, pc_set, IF2_ID_flush, ID_EX_flush
    <3>3. priv(wb'.inst) => id' = Nop /\ ex'.inst = Nop /\ ls'.inst = Bubble
      <4>1. SUFFICES ASSUME priv(ls.inst)
                     PROVE id' = Nop /\ ex'.inst = Nop /\ ls'.inst = Bubble
        BY <3>1
      <4>2. ~if2 /\ id = Nop /\ ex.inst = Nop
        BY <4>1 DEF IInv, Alone
      <4>3. ls'.inst = Bubble
        BY <3>1, <4>2 DEF Nop, Bubble
      <4>4. id' = Nop
        BY <4>2 DEF Clock, Fetch
      <4> QED
        BY <1>3, <4>2, <4>3, <4>4, DecodeCases
    <3> QED
      BY <1>1, <3>2, <3>3 DEF Alone
  <2> QED
    BY <2>1, <2>2
<1> QED
  BY <1>1, <1>2, <1>3

\* The three ways in which LS and WB move: held, emptied behind a trap, or on.
LEMMA RetireCases ==
  ASSUME NEW imiss \in BOOLEAN, NEW dmiss \in BOOLEAN, Clock(imiss, dmiss), IInv
  PROVE  \/ /\ dmiss /\ ls' = ls /\ wb' = wb /\ regs' = regs
         \/ /\ flush_by_exp /\ ~dmiss /\ ls.inst = Bubble /\ ex.inst = Nop
            /\ ls'.inst = Bubble /\ wb'.inst = Bubble /\ regs' = regs
         \/ /\ ~flush_by_exp /\ ~dmiss /\ wb' = ls
            /\ ls'.inst = [kind |-> ex.inst.kind, rd |-> ex.inst.rd]
            /\ regs' = IF rf_we(ex.inst) THEN [regs EXCEPT ![ex.inst.rd] = Written(ls')] ELSE regs
<1>1. CASE flush_by_exp
  <2>1. ls.inst = Bubble /\ ex.inst = Nop
    BY <1>1 DEF IInv, Alone, flush_by_exp, priv
  <2>2. ~dmiss
    BY <2>1 DEF Clock, Bubble
  <2>3. ls'.inst = Bubble /\ wb'.inst = Bubble /\ regs' = regs
    BY <1>1 DEF IInv, TypeOK, Result, Clock, Execute, Retire
  <2> QED
    BY <1>1, <2>1, <2>2, <2>3
<1>2. CASE ~flush_by_exp /\ dmiss
  BY <1>2 DEF Clock, Execute, Retire
<1>3. CASE ~flush_by_exp /\ ~dmiss
  <2> DEFINE A == IF rf_we(ex.inst) THEN Value ELSE {zero}
             M == IF ex.inst.kind = "load" THEN Value ELSE {zero}
             S == IF ex.inst.kind = "csr" THEN NewStatus ELSE {mstatus}
  <2>1. PICK a \in A, m \in M, s \in S :
          /\ ls' = [inst |-> [kind |-> ex.inst.kind, rd |-> ex.inst.rd],
                    alu_result |-> a, mem_rdata |-> m, csr_wdata |-> s]
          /\ Sequential(ex.inst, IF ex.inst.kind = "load" THEN m ELSE a, s)
    BY <1>3 DEF Clock, Execute
  <2> HIDE DEF A, M, S
  <2>2. Written(ls') = IF ex.inst.kind = "load" THEN m ELSE a
    BY <2>1 DEF Written
  <2>3. wb' = ls
    BY <1>3 DEF Clock, Retire
  <2> QED
    BY <1>3, <2>1, <2>2, <2>3 DEF Sequential, rf_we
<1> QED
  BY <1>1, <1>2, <1>3

\* A write of WB is a write of the register file.
LEMMA WriteBack ==
  ASSUME TypeOK, NEW imiss \in BOOLEAN, NEW dmiss \in BOOLEAN, Clock(imiss, dmiss),
         NEW r \in Reg
  PROVE  /\ Writes(wb, r) => rf'[r] = Written(wb)
         /\ ~Writes(wb, r) => rf'[r] = rf[r]
         /\ Regfile(r) = rf'[r]
BY DEF Clock, Retire, Writes, TypeOK, Regfile, Result, Retiring

LEMMA StepResults ==
  ASSUME IInv, NEW imiss \in BOOLEAN, NEW dmiss \in BOOLEAN, Clock(imiss, dmiss)
  PROVE  Results'
<1> SUFFICES ASSUME NEW r \in Reg PROVE Overlay(r)' = regs'[r]
  BY DEF Results
<1>1. Overlay(r) = regs[r]
  BY DEF IInv, Results
<1>2. /\ Writes(wb, r) => rf'[r] = Written(wb)
      /\ ~Writes(wb, r) => rf'[r] = rf[r]
  BY WriteBack DEF IInv
<1>3. CASE dmiss /\ ls' = ls /\ wb' = wb /\ regs' = regs
  BY <1>1, <1>2, <1>3 DEF Overlay, Writes, Written
<1>4. CASE /\ flush_by_exp /\ ~dmiss /\ ls.inst = Bubble /\ ex.inst = Nop
           /\ ls'.inst = Bubble /\ wb'.inst = Bubble /\ regs' = regs
  BY <1>1, <1>2, <1>4, BubbleType DEF Overlay, Writes
<1>5. CASE /\ ~flush_by_exp /\ ~dmiss /\ wb' = ls
           /\ ls'.inst = [kind |-> ex.inst.kind, rd |-> ex.inst.rd]
           /\ regs' = IF rf_we(ex.inst) THEN [regs EXCEPT ![ex.inst.rd] = Written(ls')] ELSE regs
  <2>1. Overlay(r)' = IF Writes(ls', r) THEN Written(ls')
                      ELSE IF Writes(ls, r) THEN Written(ls) ELSE rf'[r]
    BY <1>5 DEF Overlay, Writes, Written
  <2>2. Writes(ls', r) <=> rf_we(ex.inst) /\ ex.inst.rd = r
    BY <1>5 DEF Writes, rf_we
  <2>3. regs'[r] = IF Writes(ls', r) THEN Written(ls') ELSE regs[r]
    BY <1>5, <2>2 DEF IInv, TypeOK
  <2> QED
    BY <1>1, <1>2, <2>1, <2>3 DEF Overlay
<1> QED
  BY <1>3, <1>4, <1>5, RetireCases DEF IInv

LEMMA StepFresh ==
  ASSUME IInv, NEW imiss \in BOOLEAN, NEW dmiss \in BOOLEAN, Clock(imiss, dmiss)
  PROVE  Operands'
<1> DEFINE Stale(r, v) == ~Writes(ls', r) /\ ~Writes(wb', r) => v = rf'[r]
<1>1. rf'[x0] = zero
  <2>1. ~Writes(wb, x0)
    BY DEF Writes, rf_we
  <2> QED
    BY <2>1, WriteBack, ForwardingAssumption DEF IInv, Operands
<1> DEFINE Both == Stale(ex'.inst.rs1, ex'.rdata1) /\ Stale(ex'.inst.rs2, ex'.rdata2)
<1>2. ASSUME ex'.inst = Nop, ex'.rdata1 = zero, ex'.rdata2 = zero PROVE Both
  BY <1>1, <1>2 DEF Nop
<1>3. ASSUME dmiss, ex' = ex PROVE Both
  <2>1. ls' = ls /\ wb' = wb
    BY <1>3, RetireCases DEF IInv
  <2>2. \A r \in Reg : \A v : Fresh(r, v) => Stale(r, v)
    BY <2>1, WriteBack DEF IInv, Fresh
  <2>3. ex.inst.rs1 \in Reg /\ ex.inst.rs2 \in Reg
    BY DEF IInv, TypeOK, IdEx, Inst
  <2> QED
    BY <1>3, <2>2, <2>3 DEF IInv, Operands
<1>4. ASSUME ex'.inst = id, ex'.rdata1 = Regfile(id.rs1), ex'.rdata2 = Regfile(id.rs2)
      PROVE  Both
  <2>1. id.rs1 \in Reg /\ id.rs2 \in Reg
    BY DEF IInv, TypeOK, Inst
  <2> QED
    BY <1>4, <2>1, WriteBack DEF IInv
<1>5. Both
  <2> HIDE DEF Stale, Both
  <2> QED
    BY <1>2, <1>3, <1>4, DecodeCases
<1> QED
  BY <1>1, <1>5 DEF Operands, Fresh, Writes

\* The instruction behind a load waits in ID until the load is in WB.
LEMMA StepNoLoadUse ==
  ASSUME IInv, NEW imiss \in BOOLEAN, NEW dmiss \in BOOLEAN, Clock(imiss, dmiss)
  PROVE  NoLoadUse'
<1>1. CASE dmiss
  <2>1. ls' = ls
    BY <1>1, RetireCases
  <2>2. ex'.inst = ex.inst \/ ex'.inst = Nop
    BY <1>1, DecodeCases
  <2> QED
    BY <2>1, <2>2 DEF IInv, NoLoadUse, rf_we, Nop
<1>2. CASE ~dmiss
  <2>1. ls'.inst = Bubble \/ ls'.inst = [kind |-> ex.inst.kind, rd |-> ex.inst.rd]
    BY <1>2, RetireCases DEF IInv
  <2>2. ex'.inst = Nop \/ (~load_use /\ ex'.inst = id)
    BY <1>2, DecodeCases
  <2> QED
    BY <2>1, <2>2 DEF NoLoadUse, load_use, rf_we, Nop, Bubble
<1> QED
  BY <1>1, <1>2

\* mstatus follows, and ID reads it only when nothing in LS or WB changes it.
LEMMA StepLevels ==
  ASSUME IInv, NEW imiss \in BOOLEAN, NEW dmiss \in BOOLEAN, Clock(imiss, dmiss)
  PROVE  Levels'
<1> DEFINE After == Effect(IF priv(wb.inst) THEN wb ELSE ls, mstatus)
<1>1. mstatus' = IF priv(wb.inst) THEN Effect(wb, mstatus) ELSE mstatus
  BY DEF Clock, WriteStatus, Effect, priv
<1>2. status = After /\ (ex.inst.kind = "csr" => ex.csr_rdata = status)
  BY DEF IInv, Levels, StatusCurrent
<1>3. CASE dmiss
  <2>1. ~priv(wb.inst) /\ ls' = ls /\ wb' = wb
    BY <1>3, StepAlone, RetireCases DEF IInv
  <2>2. status' = status
    BY <1>3, <2>1 DEF Clock, Execute, flush_by_exp, priv
  <2>3. ex' = ex \/ ex'.inst = Nop
    BY <1>3, DecodeCases
  <2> QED
    BY <1>1, <1>2, <2>1, <2>2, <2>3 DEF Levels, StatusCurrent, Effect, Nop
<1>4. CASE ~dmiss /\ priv(wb.inst)
  <2>1. ls.inst = Bubble /\ ex.inst = Nop /\ id = Nop
    BY <1>4 DEF IInv, Alone
  <2>2. ls'.inst = Bubble /\ ~priv(wb'.inst) /\ ex'.inst = Nop
    <3>1. Bubble = [kind |-> Nop.kind, rd |-> Nop.rd]
      BY DEF Nop, Bubble
    <3>2. ls'.inst = Bubble /\ ~priv(wb'.inst)
      BY <1>4, <2>1, <3>1, RetireCases, BubbleType
    <3>3. ex'.inst = Nop
      BY <1>4, <2>1, DecodeCases
    <3> QED
      BY <3>2, <3>3
  <2>3. status' = status
    <3>1. CASE flush_by_exp
      BY <3>1 DEF Clock, Execute
    <3>2. CASE ~flush_by_exp
      BY <3>2, <1>4, <2>1 DEF Clock, Execute, Sequential, Nop
    <3> QED
      BY <3>1, <3>2
  <2> QED
    BY <1>1, <1>2, <1>4, <2>2, <2>3 DEF Levels, StatusCurrent, Effect, Bubble, Nop, priv
<1>5. CASE ~dmiss /\ ~priv(wb.inst)
  <2>1. /\ ~flush_by_exp /\ wb' = ls
        /\ ls'.inst = [kind |-> ex.inst.kind, rd |-> ex.inst.rd]
    BY <1>5, RetireCases DEF IInv, flush_by_exp, priv
  <2>2. status' = Effect(ls', status)
    BY <1>5, <2>1 DEF Clock, Execute, Sequential, Effect
  <2>3. mstatus' = mstatus /\ status = Effect(ls, mstatus)
    BY <1>1, <1>2, <1>5
  <2>4. CASE priv(ls.inst)
    <3>1. ex.inst = Nop /\ id = Nop
      BY <2>4 DEF IInv, Alone
    <3>2. status' = status
      BY <2>1, <2>2, <3>1 DEF Effect, Nop
    <3>3. ex'.inst = Nop
      BY <1>5, <3>1, DecodeCases
    <3> QED
      BY <2>1, <2>3, <2>4, <3>2, <3>3 DEF Levels, StatusCurrent, Nop, Effect
  <2>5. CASE ~priv(ls.inst)
    <3>1. status = mstatus
      BY <2>3, <2>5 DEF Effect, priv
    <3>2. ex'.inst = Nop \/ (~priv(ex.inst) /\ ex'.csr_rdata = mstatus)
      BY <1>5, DecodeCases DEF flush_by_priv_ex
    <3>3. ex'.inst.kind = "csr" => ex'.csr_rdata = status'
      BY <3>1, <3>2, <2>1, <2>2 DEF Effect, priv, Nop
    <3> QED
      BY <2>1, <2>2, <2>3, <2>5, <3>1, <3>3 DEF Levels, StatusCurrent
  <2> QED
    BY <2>4, <2>5
<1> QED
  BY <1>3, <1>4, <1>5

\* The invariant holds initially and every cycle keeps it.
THEOREM Invariance == Spec => []IInv
<1>1. IInv /\ [Next]_vars => IInv'
  <2> SUFFICES ASSUME IInv, [Next]_vars PROVE IInv'
    OBVIOUS
  <2>1. CASE UNCHANGED vars
    BY <2>1 DEF vars, IInv, TypeOK, Results, Overlay, Writes, Written, Operands, Fresh,
       NoLoadUse, Alone, Levels, StatusCurrent, Effect
  <2>2. CASE Next
    <3>1. PICK imiss \in BOOLEAN, dmiss \in BOOLEAN : Clock(imiss, dmiss)
      BY <2>2 DEF Next
    <3> QED
      BY <3>1, ClockType, StepResults, StepFresh, StepNoLoadUse, StepAlone, StepLevels DEF IInv
  <2> QED
    BY <2>1, <2>2
<1> QED
  BY <1>1, InitInv, PTL DEF Spec

\* Every slot keeps its type, whatever the program (Hazard.sv, CSR.sv).
THEOREM TypeCorrect == Spec => []TypeOK
<1>1. IInv => TypeOK
  BY DEF IInv
<1> QED
  BY <1>1, Invariance, PTL

\* For any number of registers and any program, both operands in EX are those
\* of sequential execution, in every cycle of every miss (Hazard.sv:61-82).
THEOREM OperandsRight == Spec => []OperandsCurrent
<1>1. IInv => OperandsCurrent
  <2> SUFFICES ASSUME IInv, NEW r \in Reg, NEW v, Fresh(r, v),
                      ls.inst.kind = "load" /\ rf_we(ls.inst) => ls.inst.rd # r
               PROVE  Forward(r, v) = regs[r]
    BY DEF IInv, TypeOK, IdEx, Inst, Operands, NoLoadUse, OperandsCurrent, Operand1, Operand2
  <2>1. Overlay(r) = regs[r]
    BY DEF IInv, Results
  <2> QED
    BY <2>1 DEF Overlay, Fresh, Writes, Written, Forward
<1> QED
  BY <1>1, Invariance, PTL

\* A csrr in EX has the current mstatus (Hazard.sv:104, CSR.sv:30-43).
THEOREM StatusRight == Spec => []StatusCurrent
<1>1. IInv => StatusCurrent
  BY DEF IInv, Levels
<1> QED
  BY <1>1, Invariance, PTL

\* Every result reaches the register file, and every trap and every return
\* moves mstatus once, whatever the miss of the access around it does.
THEOREM RegistersRight == Spec => []RegistersFollow
<1>1. IInv => RegistersFollow
  <2> SUFFICES ASSUME IInv PROVE RegistersFollow
    OBVIOUS
  <2>1. ASSUME ~rf_we(ls.inst), ~rf_we(wb.inst) PROVE rf = regs
    <3>1. \A r \in Reg : rf[r] = regs[r]
      BY <2>1 DEF IInv, Results, Overlay, Writes
    <3> QED
      BY <3>1 DEF IInv, TypeOK
  <2>2. ASSUME ~priv(ls.inst), ~priv(wb.inst) PROVE mstatus = status
    BY <2>2 DEF IInv, Levels, Effect, priv
  <2> QED
    BY <2>1, <2>2 DEF RegistersFollow
<1> QED
  BY <1>1, Invariance, PTL
=============================================================================
