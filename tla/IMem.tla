-------------------------------- MODULE IMem --------------------------------
(***************************************************************************)
(* The instruction side of the simulated machine, closed: the pipeline,    *)
(* the instruction cache, the AXI arbiter and the read channel of the      *)
(* simulated memory, with the data cache reduced to when it stalls the     *)
(* pipeline and when it reads the bus (DMem has the data cache in full).   *)
(* One step is one call of single_cycle.                                   *)
(***************************************************************************)
EXTENDS Pipeline

CONSTANTS
  Image,    \* the program the loader put into the physical memory
  Patches   \* writes to the program, [addr, inst], that a fence commits

ASSUME IMemAssumption ==
  /\ Image \in [Tags -> [Sets -> Line]]
  /\ Patches \subseteq [addr : {a \in Addr : a.tag \in Tags}, inst : Word]

VARIABLES
  dmode,   \* the data cache: free, or serving the instruction in LS
  npc      \* history: address of the next instruction of the program

vars == <<pmemVars, arbiterVars, icacheVars, pipelineVars, dmode, npc>>

Init ==
  /\ PmemInit(Image) /\ ArbiterInit /\ ICacheInit /\ PipelineInit
  /\ dmode = "free" /\ npc = ResetPc

-----------------------------------------------------------------------------
(* The data cache seen from outside: dcache_miss, and d_rvalid in "read".  *)

dcache_miss == dmode # "free"
d_rvalid    == dmode = "read"

DataCache ==
  \/ /\ dmode = "free"
     /\ dmode' \in CASE ex.inst \in Fence              -> {"start"}
                     [] ex.inst \in Load \cup Store -> {"free", "start"}
                     [] OTHER                          -> {"free"}
  \/ /\ dmode = "start"
     /\ dmode' \in IF ls.inst \in Fence THEN {"write"} ELSE {"read", "write"}
  \/ /\ dmode = "read"
     /\ dmode' \in IF d_rready /\ d_rlast THEN {"write", "free"} ELSE {"read"}
  \/ /\ dmode = "write"
     /\ dmode' \in {"write", "free"}

\* A fence in LS writes dirty lines back, some of them lines of the program.
Walk ==
  \/ UNCHANGED mem
  \/ /\ dmode = "write" /\ ls.inst \in Fence
     /\ \E p \in Patches :
          mem' = [mem EXCEPT ![p.addr.tag][p.addr.set][p.addr.word] = p.inst]

\* The slave sees the wires as they are after the edge.
Slave ==
  /\ Walk
  /\ PmemRead(arvalid', IF r_crt' = "I_AR" THEN i_raddr' ELSE NoAddr, WordNum - 1, 2, rready')
  /\ UNCHANGED <<writeVars, w_crt>>

-----------------------------------------------------------------------------
(* The history variable *)
successor ==
  CASE wb.inst \in Ecall -> TrapVector
    [] wb.inst \in Mret  -> mepc
    [] wb.taken          -> wb.target
    [] OTHER             -> Following(wb.pc)

History ==
  npc' = IF wb.commit THEN successor ELSE npc

Cycle ==
  /\ PipelineClock(dcache_miss)
  /\ DataCache
  /\ ReadFsm(i_rvalid, d_rvalid)
  /\ Slave
  /\ History

Next == Cycle

\* cpu_exec calls single_cycle in a loop, and every request to the data cache
\* retires (DMem).
Spec ==
  /\ Init /\ [][Next]_vars
  /\ WF_vars(Next) /\ WF_vars(Next /\ dmode = "write" /\ dmode' = "free")

-----------------------------------------------------------------------------
(* Properties *)

TypeOK ==
  /\ PmemTypeOK /\ ArbiterTypeOK /\ ICacheTypeOK /\ PipelineTypeOK
  /\ dmode \in {"free", "start", "read", "write"}
  /\ npc \in Addr

\* Instructions commit once each and in the order of the program, whatever
\* jumps, flushes, misses of both caches, traps and returns lie between them.
ProgramOrder == wb.commit => wb.pc = npc

\* What commits is the word the memory holds at its address.
FetchedWord == wb.commit => wb.inst = mem[wb.pc.tag][wb.pc.set][wb.pc.word]

\* While an ecall or an mret is in WB nothing behind it has reached the data
\* cache, and it is there for one cycle only, so mstatus is pushed or popped
\* once.
TrapPrecise ==
  wb.inst \in Ecall \cup Mret =>
    /\ ~dcache_miss
    /\ {ex.inst, ls.inst} \cap (Load \cup Store \cup Fence) = {}

\* Once asked for, a line stays asked for at the same address to its last beat,
\* also when the fetch behind it is flushed: what DMem assumes of this cache.
FetchHeld ==
  [][i_rvalid /\ ~(i_rready /\ i_rlast) => i_rvalid' /\ i_raddr' = i_raddr]_vars

\* The pipeline never stops committing instructions.
KeepsCommitting == []<>wb.commit
=============================================================================
