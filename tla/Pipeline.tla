------------------------------ MODULE Pipeline ------------------------------
(***************************************************************************)
(* The control of the six-stage pipeline of simulator/IP/mycpu: the PC,    *)
(* the segment registers IF1-IF2 ... LS-WB, the stall and flush signals of *)
(* Hazard.sv, and the CSR mepc with the trap it serves.  An instruction is *)
(* the word the instruction cache delivered; operands and results are left *)
(* out, so what a branch compares and what a register holds is free.       *)
(* The miss signal of the data cache is a parameter.                       *)
(***************************************************************************)
EXTENDS ICache

CONSTANTS
  Branch,        \* words that decode to a branch, a jal or a jalr
  Load, Store,   \* ... to a load, a store
  Fence,         \* ... to a fence or a fence.i
  CsrWrite,      \* ... to a csrrw of mepc
  Mret, Ecall,
  NextTag,       \* the tag of the block of memory behind a tag
  ResetPc,       \* PC_RESET_VALUE
  TrapVector,    \* what the program put into mtvec
  Targets        \* where branches, jumps and written mepcs may point

ASSUME PipelineAssumption ==
  /\ Nop \notin Branch \cup Load \cup Store \cup Fence \cup CsrWrite \cup Mret \cup Ecall
  /\ Branch \cap (Load \cup Fence \cup CsrWrite \cup Mret \cup Ecall) = {}
  /\ Ecall \cap Mret = {}
  /\ NextTag \in [Tags -> Tags]
  /\ {ResetPc, TrapVector} \cup Targets \subseteq {a \in Addr : a.tag \in Tags}

VARIABLES
  pc_if1, pc_if2, commit_if2,
  id, ex, ls, wb,   \* the segment registers IF2-ID, ID-EX, EX-LS and LS-WB
  mepc

pipelineVars == <<pc_if1, pc_if2, commit_if2, id, ex, ls, wb, mepc>>

\* taken and target stand for what Branch.sv and Priv.sv compute in EX,
\* dep for the match of register numbers of a load in EX with ID.
Slot == [pc : Addr, inst : Word, commit : BOOLEAN, taken : BOOLEAN, target : Addr,
         dep : BOOLEAN]

Fetched(pc, inst, commit) ==
  [pc |-> pc, inst |-> inst, commit |-> commit, taken |-> FALSE, target |-> ResetPc,
   dep |-> FALSE]

Empty == Fetched(ResetPc, Nop, FALSE)

PipelineInit ==
  /\ pc_if1 = ResetPc /\ pc_if2 = ResetPc /\ commit_if2 = FALSE
  /\ id = Empty /\ ex = Empty /\ ls = Empty /\ wb = Empty
  /\ mepc = ResetPc

\* pc + 4
Following(a) ==
  IF a.word < WordNum - 1 THEN [a EXCEPT !.word = @ + 1]
  ELSE IF a.set < SetNum - 1 THEN [a EXCEPT !.word = 0, !.set = @ + 1]
  ELSE [tag |-> NextTag[a.tag], set |-> 0, word |-> 0]

-----------------------------------------------------------------------------
(* Hazard.sv *)

Priv == CsrWrite \cup Ecall \cup Mret \cup Fence

jump             == ex.taken
flush_by_priv_ex == ex.inst \in Priv
flush_by_exp     == wb.inst \in Ecall
load_use         == ex.dep

pc_set == jump \/ flush_by_priv_ex \/ flush_by_exp

stall_id(dmiss)  == load_use \/ dmiss
stall_if1(dmiss) == stall_id(dmiss) \/ icache_miss

IF2_ID_flush(dmiss) ==
  ((jump \/ icache_miss) /\ ~stall_id(dmiss)) \/ flush_by_priv_ex \/ flush_by_exp
\* Fault: the instruction behind an mret or a fence stays in the pipeline.
ID_EX_flush_NoPriv(dmiss) == ((jump \/ load_use) /\ ~dmiss) \/ flush_by_exp

ID_EX_flush(dmiss) ==
  ((jump \/ load_use \/ flush_by_priv_ex) /\ ~dmiss) \/ flush_by_exp

pc_target ==
  IF flush_by_exp THEN TrapVector
  ELSE IF flush_by_priv_ex THEN (IF ex.inst \in Mret THEN mepc ELSE Following(ex.pc))
  ELSE ex.target

-----------------------------------------------------------------------------
(* The segment registers: a flush wins over a stall. *)

Fetch(dmiss) ==
  /\ pc_if1' = IF pc_set THEN pc_target
               ELSE IF stall_if1(dmiss) THEN pc_if1 ELSE Following(pc_if1)
  /\ pc_if2' = IF pc_set THEN ResetPc ELSE IF stall_if1(dmiss) THEN pc_if2 ELSE pc_if1
  /\ commit_if2' = (~pc_set /\ (IF stall_if1(dmiss) THEN commit_if2 ELSE TRUE))

Decode(dmiss) ==
  id' = IF IF2_ID_flush(dmiss) THEN Empty
        ELSE IF stall_id(dmiss) THEN id
        ELSE Fetched(pc_if2, inst_if2(pc_set), commit_if2)

\* Branches may be taken or not; a load may feed the instruction behind it.
Executed(slot, new) ==
  \E b \in IF slot.inst \in Branch THEN BOOLEAN ELSE {FALSE},
     t \in IF slot.inst \in Branch \cup CsrWrite THEN Targets ELSE {ResetPc},
     d \in IF slot.inst \in Load THEN BOOLEAN ELSE {FALSE} :
       new = [slot EXCEPT !.taken = b, !.target = t, !.dep = d]

Execute(dmiss) ==
  IF ID_EX_flush(dmiss) THEN ex' = Empty
  ELSE IF dmiss THEN UNCHANGED ex
  ELSE Executed(id, ex')

\* Fault: commit_wb is held like the rest of the register.
Retire_Held(dmiss) ==
  /\ ls' = IF flush_by_exp THEN Empty ELSE IF dmiss THEN ls ELSE [ex EXCEPT !.dep = FALSE]
  /\ wb' = IF flush_by_exp THEN Empty ELSE IF dmiss THEN wb ELSE ls

\* commit_wb is low while WB is held, so nothing commits twice.
Retire(dmiss) ==
  /\ ls' = IF flush_by_exp THEN Empty ELSE IF dmiss THEN ls ELSE [ex EXCEPT !.dep = FALSE]
  /\ wb' = IF flush_by_exp THEN Empty
           ELSE IF dmiss THEN [wb EXCEPT !.commit = FALSE] ELSE ls

Trap ==
  mepc' = IF flush_by_exp THEN wb.pc
          ELSE IF wb.inst \in CsrWrite THEN wb.target ELSE mepc

PipelineClock(dmiss) ==
  /\ Fetch(dmiss) /\ Decode(dmiss) /\ Execute(dmiss) /\ Retire(dmiss) /\ Trap
  /\ ICacheClock(pc_if1, stall_id(dmiss), pc_set, ex.inst \in Fence)

PipelineTypeOK ==
  /\ pc_if1 \in Addr /\ pc_if2 \in Addr /\ commit_if2 \in BOOLEAN /\ mepc \in Addr
  /\ {id, ex, ls, wb} \subseteq Slot
=============================================================================
