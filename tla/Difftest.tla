------------------------------ MODULE Difftest ------------------------------
(***************************************************************************)
(* The loop of the simulator (sim.cpp, cpu_exec) and the comparison with   *)
(* the reference (difftest.cpp).  The processor may compute a wrong result *)
(* once, anywhere; a load from a device gives it a value that the          *)
(* reference, which has no devices, does not see.                          *)
(***************************************************************************)
EXTENDS Integers, Sequences

CONSTANTS
  Reg, Modulus, \* the registers, with values modulo Modulus
  Program,      \* the programs: sequences of instructions, the last one ebreak
  Capacity,     \* slots of the instruction trace
  Steps,        \* bound: the n of the calls of cpu_exec; -1 is the command `c`
  Faulty        \* the processor may compute a wrong result, once

Op == {"inc", "lw", "bnez", "ebreak"}
Inst == [op : Op, rd : Reg, rs : Reg]

ASSUME DifftestAssumption ==
  /\ Modulus \in Nat \ {0} /\ Capacity \in Nat /\ Capacity > 1 /\ Steps \subseteq Nat \cup {-1}
  /\ Program \subseteq Seq(Inst) /\ <<>> \notin Program /\ Faulty \in BOOLEAN

VARIABLES
  prog,            \* the program
  dut, wb,         \* pc and registers before the instruction in WB; there is one
  sim_cpu, ref,    \* the copy of dut at the last commit, and the reference
  state, halt_pc,  \* sim_state
  n, uncache_pre,  \* locals of cpu_exec: cycles to go, npc_cpu_uncache_pre
  queue, front, rear, committed, \* the instruction trace
  wrong, late      \* history: the instruction that went wrong; another has passed

logVars == <<queue, front, rear, committed>>
vars == <<prog, dut, wb, sim_cpu, ref, state, halt_pc, n, uncache_pre, logVars, wrong, late>>

Value == 0..Modulus - 1
Pc == 1..Len(prog)
Machine == [pc : Pc, gpr : [Reg -> Value]]
Reset == [pc |-> 1, gpr |-> [r \in Reg |-> 0]]
Log == INSTANCE InstLog WITH Entry <- Nat, Junk <- {0}

Init ==
  /\ prog \in Program
  /\ dut = Reset /\ wb = FALSE /\ sim_cpu = Reset /\ ref = Reset
  /\ state = "STOP" /\ halt_pc = 0
  /\ n = 0 /\ uncache_pre = FALSE
  /\ Log!Init
  /\ wrong = "none" /\ late = FALSE

-----------------------------------------------------------------------------
(* What an instruction does, when a device answers its load with v.        *)

After(m, v) ==
  LET i == prog[m.pc]
      next == IF m.pc < Len(prog) THEN m.pc + 1 ELSE m.pc
  IN CASE i.op = "inc"  -> [pc |-> next, gpr |-> [m.gpr EXCEPT ![i.rd] = (m.gpr[i.rs] + 1) % Modulus]]
       [] i.op = "lw"   -> [pc |-> next, gpr |-> [m.gpr EXCEPT ![i.rd] = v]]
       [] i.op = "bnez" -> [m EXCEPT !.pc = IF m.gpr[i.rs] # 0 THEN 1 ELSE next]
       [] OTHER         -> m

\* The instruction in WB, and whether it ends the program.
Current == prog[dut.pc].op
test_break == wb /\ Current = "ebreak"

-----------------------------------------------------------------------------
(* A turn of the loop.                                                     *)

\* Fault: no, or too much, synchronisation.
Synced_Never == ref
Synced_Always == sim_cpu

\* The reference takes over what follows a load from a device.
Synced == IF uncache_pre THEN sim_cpu ELSE ref

\* Fault: the pc of the reference.
HaltAt_Reference == Synced.pc
HaltAt == sim_cpu.pc

\* difftest_step: compare, then let the reference execute.
difftest_step ==
  /\ ref' = After(Synced, 0)
  /\ halt_pc' = IF Synced # sim_cpu THEN HaltAt ELSE halt_pc

Commit ==
  IF wb THEN /\ difftest_step
             /\ Log!enqueue(dut.pc)
             /\ uncache_pre' = (Current = "lw")
             /\ late' = (wrong # "none")
        ELSE UNCHANGED <<ref, halt_pc, logVars, uncache_pre, late>>

\* single_cycle: the instruction in WB takes effect, right or wrong; the next
\* one may be there already, and its state is what will be compared.
Right(v)  == dut' = After(dut, v) /\ UNCHANGED wrong
Wrong(v)  == /\ Faulty /\ wrong = "none"
             /\ dut' \in Machine \ {After(dut, v)}
             /\ wrong' = Current
single_cycle ==
  /\ IF wb THEN \E v \in Value : Right(v) \/ Wrong(v) ELSE UNCHANGED <<dut, wrong>>
  /\ wb' \in BOOLEAN
  /\ sim_cpu' = IF wb' THEN dut' ELSE sim_cpu

Fewer == IF n = -1 THEN -1 ELSE n - 1

\* The state after the checks, device_update and the end of the loop.
StateAfter(mismatch, closed) ==
  IF closed THEN "QUIT" ELSE IF mismatch THEN "ABORT" ELSE IF Fewer = 0 THEN "STOP" ELSE "RUNNING"

Turn ==
  /\ state = "RUNNING" /\ ~test_break
  /\ Commit
  /\ single_cycle
  /\ n' = Fewer
  /\ \E closed \in BOOLEAN : state' = StateAfter(wb /\ Synced # sim_cpu, closed)
  /\ UNCHANGED prog

Break ==
  /\ state = "RUNNING" /\ test_break
  /\ state' = "END" /\ halt_pc' = dut.pc
  /\ UNCHANGED <<prog, dut, wb, sim_cpu, ref, n, uncache_pre, logVars, wrong, late>>

\* A command of the debugger calls cpu_exec, whose locals start afresh.  After
\* the end of the program it returns at once.
cpu_exec(k) ==
  /\ state = "STOP" /\ k # 0
  /\ state' = "RUNNING"
  /\ n' = k /\ uncache_pre' = FALSE
  /\ UNCHANGED <<prog, dut, wb, sim_cpu, ref, halt_pc, logVars, wrong, late>>

Ended == state \in {"END", "ABORT", "QUIT"} /\ UNCHANGED vars

Next == Turn \/ Break \/ Ended \/ \E k \in Steps : cpu_exec(k)
Spec == Init /\ [][Next]_vars

-----------------------------------------------------------------------------
TypeOK ==
  /\ prog \in Program /\ wb \in BOOLEAN
  /\ {dut, sim_cpu, ref} \subseteq Machine
  /\ state \in {"STOP", "RUNNING", "END", "ABORT", "QUIT"}
  /\ halt_pc \in 0..Len(prog) /\ uncache_pre \in BOOLEAN
  /\ n \in Int /\ (state = "RUNNING" => n # 0 /\ n >= -1)
  /\ wrong \in Op \cup {"none"} /\ late \in BOOLEAN

\* A processor that makes no mistake is never stopped (difftest.cpp:123-128),
\* whatever its devices answer.
NoFalseAlarm == wrong = "none" => state # "ABORT"

\* A mistake is reported when the next instruction commits, unless a load from
\* a device made it: then the reference takes it over (sim.cpp:212-215).
Reported ==
  late /\ wrong # "lw" => state \in {"ABORT", "QUIT"} /\ halt_pc # 0

\* After any number of commits the trace is the last of them, oldest first, and
\* the one printed on an abort ends with the instruction that was compared
\* (sim.cpp:72, 83-106, 242).
TraceEndsAtHalt ==
  LET shown == Log!Shown(queue, front, rear, Capacity)
  IN /\ Log!ShowsLatest
     /\ state = "ABORT" => shown # <<>> /\ shown[Len(shown)] = halt_pc
=============================================================================
