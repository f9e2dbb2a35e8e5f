-------------------------- MODULE DifftestProofs --------------------------
(***************************************************************************)
(* The comparison with the reference, for every set of programs, number of *)
(* registers and width: under the command `c` it raises no false alarm,    *)
(* and it misses no mistake but those of loads from devices.               *)
(***************************************************************************)
EXTENDS Difftest, TLAPS

\* While the loop runs, the copy that is compared is the processor's state.
Copied == wb => sim_cpu = dut

\* Without a mistake the reference is where the processor is, or will be put
\* there before it is compared.
InStep == wrong = "none" /\ state \in {"STOP", "RUNNING"} => uncache_pre \/ ref = dut

\* A mistake that has not been compared yet can be seen.
Visible == wrong \notin {"none", "lw"} /\ ~late /\ state = "RUNNING" => ~uncache_pre /\ ref # dut

\* Only the first call finds the simulator stopped.
Fresh ==
  /\ state = "STOP" => wrong = "none" /\ ref = dut
  /\ state = "RUNNING" => n = -1

Alarm == state = "ABORT" => wrong # "none"

IInv ==
  /\ TypeOK /\ Copied /\ InStep /\ Visible /\ Fresh /\ Alarm /\ Reported
  /\ late => wrong # "none"

-----------------------------------------------------------------------------
(* Types.                                                                  *)

\* An instruction leaves a machine behind.
LEMMA AfterType ==
  ASSUME prog \in Program, NEW m \in Machine, NEW v \in Value
  PROVE  After(m, v) \in Machine
<1> USE DifftestAssumption
<1>1. Len(prog) \in Nat \ {0} /\ prog[m.pc] \in Inst /\ m.pc \in Pc /\ m.gpr \in [Reg -> Value]
  BY DEF Machine, Pc
<1> DEFINE i == prog[m.pc]
           next == IF m.pc < Len(prog) THEN m.pc + 1 ELSE m.pc
<1>2. next \in Pc /\ 1 \in Pc
  BY <1>1 DEF Pc
<1>3. i.rd \in Reg /\ i.rs \in Reg
  BY <1>1 DEF Inst
<1>4. (m.gpr[i.rs] + 1) % Modulus \in Value
  <2>1. m.gpr[i.rs] + 1 \in Nat
    BY <1>1, <1>3 DEF Value
  <2> QED BY <2>1 DEF Value
<1> HIDE DEF i, next
<1>5. CASE i.op = "inc"
  BY <1>1, <1>2, <1>3, <1>4, <1>5 DEF After, Machine, i, next
<1>6. CASE i.op = "lw"
  BY <1>1, <1>2, <1>3, <1>6 DEF After, Machine, i, next
<1>7. CASE i.op = "bnez"
  BY <1>1, <1>2, <1>7 DEF After, Machine, i, next
<1>8. CASE i.op \notin {"inc", "lw", "bnez"}
  BY <1>8 DEF After, i
<1> QED BY <1>5, <1>6, <1>7, <1>8

\* Only a load from a device depends on what the device answers.
LEMMA AfterSame ==
  ASSUME NEW m, NEW v, prog[m.pc].op # "lw" PROVE After(m, v) = After(m, 0)
  BY DEF After

LEMMA InitType == Init => TypeOK
<1> SUFFICES ASSUME Init PROVE TypeOK
  OBVIOUS
<1>1. prog \in Program /\ Len(prog) \in Nat \ {0}
  BY DifftestAssumption DEF Init
<1>2. Reset \in Machine
  BY <1>1, DifftestAssumption DEF Reset, Machine, Pc, Value
<1>3. {dut, sim_cpu, ref} \subseteq Machine
  BY <1>2 DEF Init
<1>4. halt_pc = 0 /\ 0 \in 0..Len(prog) /\ n = 0 /\ state = "STOP" /\ wb = FALSE
      /\ uncache_pre = FALSE /\ wrong = "none" /\ late = FALSE
  BY <1>1 DEF Init
<1>5. wb \in BOOLEAN /\ uncache_pre \in BOOLEAN /\ late \in BOOLEAN
  BY <1>4
<1> QED BY <1>1, <1>3, <1>4, <1>5 DEF TypeOK

LEMMA StepType == TypeOK /\ [Next]_vars => TypeOK'
<1> SUFFICES ASSUME TypeOK, [Next]_vars PROVE TypeOK'
  OBVIOUS
<1>0. /\ Len(prog) \in Nat \ {0} /\ prog \in Program /\ Steps \subseteq Nat \cup {-1}
      /\ prog[dut.pc] \in Inst /\ 0 \in Value
  BY DifftestAssumption DEF TypeOK, Machine, Pc, Value
<1>1. CASE Turn
  <2>0. state = "RUNNING" /\ Commit /\ single_cycle /\ n' = Fewer /\ prog' = prog
        /\ \E closed \in BOOLEAN : state' = StateAfter(wb /\ Synced # sim_cpu, closed)
    BY <1>1 DEF Turn
  <2>1. Machine' = Machine /\ Value' = Value
    BY <2>0 DEF Machine, Pc, Value
  <2>2. Current \in Op
    BY <1>0 DEF Current, Inst
  <2>3. dut' \in Machine /\ wrong' \in Op \cup {"none"}
    <3>1. CASE wb
      BY <1>0, <2>0, <2>2, <3>1, AfterType DEF single_cycle, Right, Wrong, TypeOK
    <3>2. CASE ~wb
      BY <2>0, <3>2 DEF single_cycle, TypeOK
    <3> QED BY <3>1, <3>2
  <2>4. sim_cpu' \in Machine /\ wb' \in BOOLEAN
    BY <2>0, <2>3 DEF single_cycle, TypeOK
  <2>5. Synced \in Machine
    BY DEF Synced, TypeOK
  <2>6. /\ ref' \in Machine /\ halt_pc' \in 0..Len(prog)
        /\ uncache_pre' \in BOOLEAN /\ late' \in BOOLEAN
    <3>1. CASE wb
      <4>1. ref' \in Machine
        BY <1>0, <2>0, <2>5, <3>1, AfterType DEF Commit, difftest_step
      <4>2. sim_cpu.pc \in 0..Len(prog)
        BY <1>0 DEF TypeOK, Machine, Pc
      <4> QED BY <2>0, <3>1, <4>1, <4>2 DEF Commit, difftest_step, HaltAt, TypeOK
    <3>2. CASE ~wb
      BY <2>0, <3>2 DEF Commit, TypeOK
    <3> QED BY <3>1, <3>2
  <2>7. /\ state' \in {"STOP", "RUNNING", "END", "ABORT", "QUIT"}
        /\ n' \in Int /\ (state' = "RUNNING" => n' # 0 /\ n' >= -1)
    BY <2>0 DEF StateAfter, Fewer, TypeOK
  <2> QED BY <1>0, <2>0, <2>1, <2>3, <2>4, <2>6, <2>7 DEF TypeOK
<1>2. CASE Break
  <2>1. dut.pc \in 0..Len(prog)
    BY <1>0 DEF TypeOK, Machine, Pc
  <2> QED BY <1>2, <2>1 DEF Break, TypeOK, Machine, Pc, Value
<1>3. CASE Ended \/ UNCHANGED vars
  BY <1>3 DEF Ended, vars, TypeOK, Machine, Pc, Value
<1>4. ASSUME NEW k \in Steps, cpu_exec(k) PROVE TypeOK'
  <2>1. k \in Int /\ k # 0 /\ k >= -1
    BY <1>0, <1>4 DEF cpu_exec
  <2>2. /\ Machine' = Machine /\ n' = k /\ uncache_pre' = FALSE /\ state' = "RUNNING"
        /\ UNCHANGED <<prog, dut, wb, sim_cpu, ref, halt_pc, wrong, late>>
    BY <1>4 DEF cpu_exec, Machine, Pc, Value
  <2> QED BY <2>1, <2>2 DEF TypeOK
<1> QED BY <1>1, <1>2, <1>3, <1>4 DEF Next

-----------------------------------------------------------------------------
(* The comparison, under the command `c`.                                  *)

LEMMA InitIInv == Init => IInv
<1> SUFFICES ASSUME Init PROVE IInv
  OBVIOUS
<1>1. /\ dut = Reset /\ ref = Reset /\ wb = FALSE /\ state = "STOP"
      /\ uncache_pre = FALSE /\ wrong = "none" /\ late = FALSE
  BY DEF Init
<1> QED BY <1>1, InitType DEF IInv, Copied, InStep, Visible, Fresh, Alarm, Reported

LEMMA StepIInv == Steps = {-1} /\ IInv /\ [Next]_vars => IInv'
<1> SUFFICES ASSUME Steps = {-1}, IInv, [Next]_vars PROVE IInv'
  OBVIOUS
<1>0. TypeOK' /\ TypeOK
  BY StepType DEF IInv
<1>1. CASE Turn
  <2>0. /\ state = "RUNNING" /\ Commit /\ single_cycle /\ n' = Fewer /\ n = -1
        /\ \E closed \in BOOLEAN : state' = StateAfter(wb /\ Synced # sim_cpu, closed)
    BY <1>1 DEF Turn, IInv, Fresh
  <2>1. n' = -1 /\ state' # "STOP"
    BY <2>0 DEF Fewer, StateAfter
  <2>2. Copied'
    BY <2>0 DEF single_cycle, Copied
  <2>3. ~(late /\ wrong # "lw") /\ Copied /\ InStep /\ Visible /\ (late => wrong # "none")
    BY <2>0 DEF IInv, Reported
  <2>4. CASE wb
    <3>1. /\ ref' = After(Synced, 0) /\ uncache_pre' = (Current = "lw")
          /\ late' = (wrong # "none") /\ sim_cpu = dut
          /\ halt_pc' = IF Synced # sim_cpu THEN sim_cpu.pc ELSE halt_pc
      BY <2>0, <2>3, <2>4 DEF Commit, difftest_step, HaltAt, Copied
    <3>2. PICK v \in Value : Right(v) \/ Wrong(v)
      BY <2>0, <2>4 DEF single_cycle
    <3>3. wrong = "none" => Synced = dut
      BY <2>0, <2>3, <3>1 DEF InStep, Synced
    <3>4. Current # "lw" => After(dut, v) = After(dut, 0)
      BY AfterSame DEF Current
    <3>5. Current # "none"
      <4>1. prog[dut.pc] \in Inst
        BY <1>0, DifftestAssumption DEF TypeOK, Machine, Pc
      <4> QED BY <4>1 DEF Current, Inst, Op
    <3>6. InStep' /\ Visible'
      <4>1. CASE Right(v)
        <5>1. wrong' = wrong /\ dut' = After(dut, v)
          BY <4>1 DEF Right
        <5>2. wrong' = "none" => uncache_pre' \/ ref' = dut'
          BY <3>1, <3>3, <3>4, <5>1
        <5> QED BY <3>1, <5>1, <5>2 DEF InStep, Visible
      <4>2. CASE Wrong(v)
        <5>1. wrong = "none" /\ wrong' = Current /\ dut' # After(dut, v)
          BY <4>2 DEF Wrong
        <5>2. ref' = After(dut, 0)
          BY <3>1, <3>3, <5>1
        <5> QED BY <3>1, <3>4, <3>5, <5>1, <5>2 DEF InStep, Visible
      <4> QED BY <3>2, <4>1, <4>2
    <3>7. Alarm' /\ (late => wrong # "none")'
      BY <2>0, <3>1, <3>2, <3>3, <3>5 DEF Alarm, StateAfter, Right, Wrong
    <3>8. Reported'
      <4>1. SUFFICES ASSUME late', wrong' # "lw"
                     PROVE  state' \in {"ABORT", "QUIT"} /\ halt_pc' # 0
        BY DEF Reported
      <4>2. wrong # "none" /\ wrong # "lw" /\ ~late
        BY <2>3, <3>1, <3>2, <4>1 DEF Right, Wrong
      <4>3. Synced # sim_cpu
        BY <2>0, <2>3, <3>1, <4>2 DEF Visible, Synced
      <4>4. sim_cpu.pc # 0
        BY <1>0 DEF TypeOK, Machine, Pc
      <4> QED BY <2>0, <2>4, <3>1, <4>3, <4>4 DEF StateAfter
    <3> QED BY <1>0, <2>1, <2>2, <3>6, <3>7, <3>8 DEF IInv, Fresh
  <2>5. CASE ~wb
    <3>1. UNCHANGED <<ref, halt_pc, uncache_pre, late, dut, wrong>> /\ state' \in {"RUNNING", "QUIT"}
      BY <2>0, <2>1, <2>5 DEF Commit, single_cycle, StateAfter
    <3> QED BY <1>0, <2>0, <2>1, <2>2, <2>3, <3>1
            DEF IInv, InStep, Visible, Fresh, Alarm, Reported
  <2> QED BY <2>4, <2>5
<1>2. CASE Break
  BY <1>0, <1>2 DEF Break, IInv, Copied, InStep, Visible, Fresh, Alarm, Reported
<1>3. CASE Ended \/ UNCHANGED vars
  BY <1>0, <1>3 DEF Ended, vars, IInv, Copied, InStep, Visible, Fresh, Alarm, Reported
<1>4. CASE cpu_exec(-1)
  BY <1>0, <1>4 DEF cpu_exec, IInv, Copied, InStep, Visible, Fresh, Alarm, Reported
<1> QED BY <1>1, <1>2, <1>3, <1>4 DEF Next

\* Types, however cpu_exec is called.
THEOREM TypeCorrect == Spec => []TypeOK
  BY InitType, StepType, PTL DEF Spec

\* Under `c` a processor without mistakes is never stopped, whatever its
\* devices answer (sim.cpp:212-215).
THEOREM NoAlarm == Steps = {-1} => (Spec => []NoFalseAlarm)
<1> SUFFICES ASSUME Steps = {-1} PROVE Spec => []NoFalseAlarm
  OBVIOUS
<1>1. IInv /\ [Next]_vars => IInv'
  BY StepIInv
<1>2. IInv => NoFalseAlarm
  BY DEF IInv, Alarm, NoFalseAlarm
<1> QED BY <1>1, <1>2, InitIInv, PTL DEF Spec

\* Under `c` every mistake that is not made by a load from a device stops the
\* simulator when the next instruction commits (difftest.cpp:138-145).
THEOREM MistakesReported == Steps = {-1} => (Spec => []Reported)
<1> SUFFICES ASSUME Steps = {-1} PROVE Spec => []Reported
  OBVIOUS
<1>1. IInv /\ [Next]_vars => IInv'
  BY StepIInv
<1>2. IInv => Reported
  BY DEF IInv
<1> QED BY <1>1, <1>2, InitIInv, PTL DEF Spec

-----------------------------------------------------------------------------
(* The instruction trace (InstLog), for every capacity of the ring.        *)

\* What is logged; only its types depend on what it is.
Entry == Nat

\* How many entries the ring holds.
Held == IF Len(committed) < Capacity THEN Len(committed) ELSE Capacity - 1

\* Where the i-th last entry is.
Back(i) == IF rear >= i THEN rear - i ELSE rear - i + Capacity

\* The slots behind rear are the end of the history.
LogInv ==
  /\ Log!TypeOK
  /\ front = Back(Held)
  /\ \A i \in 1..Len(committed) : queue[Back(i)] = committed[Len(committed) - i + 1]

\* The remainder of a sum that is at most once too large.
LEMMA ModIdentity == ASSUME NEW M \in Nat \ {0}, NEW x \in 0..M - 1 PROVE x % M = x
  OBVIOUS
LEMMA ModOver == ASSUME NEW M \in Nat \ {0}, NEW x \in M..2 * M - 1 PROVE x % M = x - M
  OBVIOUS

\* The last k elements of a sequence.
LEMMA LastElements ==
  ASSUME NEW s \in Seq(Entry), NEW k \in 0..Len(s)
  PROVE  LET u == SubSeq(s, Len(s) - k + 1, Len(s)) IN
           u \in Seq(Entry) /\ Len(u) = k /\ \A i \in 1..k : u[i] = s[Len(s) - k + i]
  OBVIOUS

\* What the history becomes, counted from its end.
LEMMA LastOfAppend ==
  ASSUME NEW s \in Seq(Entry), Len(s) <= Capacity, NEW e \in Entry
  PROVE  LET t == Log!LastOf(Append(s, e), Capacity) IN
           /\ t \in Seq(Entry)
           /\ Len(t) = (IF Len(s) < Capacity THEN Len(s) + 1 ELSE Capacity)
           /\ t[Len(t)] = e
           /\ \A j \in 2..Len(t) : t[Len(t) - j + 1] = s[Len(s) - (j - 1) + 1]
<1>0. Capacity \in Nat /\ Capacity > 1
  BY DifftestAssumption
<1> DEFINE a == Append(s, e)
<1>1. a \in Seq(Entry) /\ Len(a) = Len(s) + 1 /\ a[Len(s) + 1] = e
      /\ \A k \in 1..Len(s) : a[k] = s[k]
  OBVIOUS
<1>2. CASE Len(s) < Capacity
  <2>1. (IF Len(a) > Capacity THEN Len(a) - Capacity ELSE 0) + 1 = 1
    BY <1>1, <1>2, <1>0
  <2>3. Log!LastOf(a, Capacity) = SubSeq(a, 1, Len(a))
    BY <2>1 DEF Log!LastOf
  <2>2. SubSeq(a, 1, Len(a)) = a
    BY <1>1
  <2> QED BY <1>1, <1>2, <2>3, <2>2
<1>3. CASE Len(s) = Capacity
  <2>1. Log!LastOf(a, Capacity) = SubSeq(a, 2, Len(a))
    BY <1>1, <1>3, <1>0 DEF Log!LastOf
  <2>2. /\ SubSeq(a, 2, Len(a)) \in Seq(Entry) /\ Len(SubSeq(a, 2, Len(a))) = Capacity
        /\ \A k \in 1..Capacity : SubSeq(a, 2, Len(a))[k] = a[k + 1]
    BY <1>1, <1>3, <1>0
  <2> QED BY <1>1, <1>3, <2>1, <2>2, <1>0
<1> QED BY <1>2, <1>3, <1>0

LEMMA InitLogInv == Log!Init => LogInv
<1> SUFFICES ASSUME Log!Init PROVE LogInv
  OBVIOUS
<1>1. committed \in Seq(Entry) /\ Len(committed) = 0
  BY DEF Log!Init, Entry
<1>2. queue \in [Log!Slot -> Entry] /\ front = 0 /\ rear = 0 /\ 0 \in Log!Slot
  BY DifftestAssumption DEF Log!Init, Log!Slot, Entry
<1> QED BY <1>1, <1>2, DifftestAssumption DEF LogInv, Log!TypeOK, Entry, Back, Held

LEMMA StepLogInv == LogInv /\ ((\E e \in Entry : Log!enqueue(e)) \/ UNCHANGED logVars) => LogInv'
<1> SUFFICES ASSUME LogInv, (\E e \in Entry : Log!enqueue(e)) \/ UNCHANGED logVars PROVE LogInv'
  OBVIOUS
<1>1. CASE UNCHANGED logVars
  BY <1>1 DEF logVars, LogInv, Log!TypeOK, Log!Slot, Entry, Back, Held
<1>2. ASSUME NEW e \in Entry, Log!enqueue(e) PROVE LogInv'
  <2>0. Capacity \in Nat /\ Capacity > 1
    BY DifftestAssumption
  <2> USE <2>0 DEF Log!Slot
  <2>1. /\ queue \in [Log!Slot -> Entry] /\ front \in Log!Slot /\ rear \in Log!Slot
        /\ committed \in Seq(Entry) /\ Len(committed) <= Capacity
        /\ front = Back(Held)
        /\ \A i \in 1..Len(committed) : queue[Back(i)] = committed[Len(committed) - i + 1]
    BY DEF LogInv, Log!TypeOK, Entry
  <2>2. /\ committed' \in Seq(Entry)
        /\ Len(committed') = (IF Len(committed) < Capacity THEN Len(committed) + 1 ELSE Capacity)
        /\ committed'[Len(committed')] = e
        /\ \A j \in 2..Len(committed') :
             committed'[Len(committed') - j + 1] = committed[Len(committed) - (j - 1) + 1]
    BY <1>2, <2>1, LastOfAppend DEF Log!enqueue
  <2>3. rear' = (IF rear = Capacity - 1 THEN 0 ELSE rear + 1) /\ rear' \in Log!Slot
    <3>1. CASE rear = Capacity - 1
      BY <1>2, <3>1, ModOver DEF Log!enqueue
    <3>2. CASE rear # Capacity - 1
      <4>1. rear + 1 \in 0..Capacity - 1 /\ Capacity \in Nat \ {0}
        BY <2>1, <3>2
      <4>2. (rear + 1) % Capacity = rear + 1
        BY <4>1, ModIdentity
      <4> QED BY <1>2, <3>2, <4>1, <4>2 DEF Log!enqueue
    <3> QED BY <3>1, <3>2
  <2>4. Held \in 0..Capacity - 1 /\ Len(committed) \in Nat
    BY <2>1 DEF Held
  <2>5. /\ Back(1)' = rear
        /\ \A j \in 2..Capacity : Back(j)' = Back(j - 1) /\ Back(j - 1) \in Log!Slot /\ Back(j - 1) # rear
    BY <2>1, <2>3 DEF Back
  <2>6. front' = Back(Held)' /\ front' \in Log!Slot
    <3>1. CASE Held < Capacity - 1
      <4>1. Held' = Held + 1
        BY <2>2, <2>4, <3>1 DEF Held
      <4>2. front # rear'
        BY <2>1, <2>3, <2>4, <3>1 DEF Back
      <4>3. front' = front
        BY <1>2, <4>2 DEF Log!enqueue, Log!FrontAfter
      <4>4. Back(Held)' = Back(Held)
        BY <2>1, <2>3, <2>4, <3>1, <4>1 DEF Back
      <4> QED BY <2>1, <4>3, <4>4
    <3>2. CASE Held = Capacity - 1
      <4>1. Held' = Capacity - 1
        BY <2>2, <2>4, <3>2 DEF Held
      <4>2. front = rear'
        BY <2>1, <2>3, <3>2 DEF Back
      <4>3. front' = (front + 1) % Capacity
        BY <1>2, <4>2 DEF Log!enqueue, Log!FrontAfter
      <4>4. front' = (IF front = Capacity - 1 THEN 0 ELSE front + 1)
        <5>1. CASE front = Capacity - 1
          BY <4>3, <5>1, ModOver
        <5>2. CASE front # Capacity - 1
          BY <2>1, <4>3, <5>2, ModIdentity
        <5> QED BY <5>1, <5>2
      <4> QED BY <2>1, <2>3, <4>1, <4>2, <4>4 DEF Back
    <3> QED BY <2>4, <3>1, <3>2
  <2>7. queue' \in [Log!Slot -> Entry] /\ queue' = [queue EXCEPT ![rear] = e]
    BY <1>2, <2>1 DEF Log!enqueue
  <2>8. ASSUME NEW j \in 1..Len(committed')
        PROVE  queue'[Back(j)'] = committed'[Len(committed') - j + 1]
    <3>1. CASE j = 1
      BY <2>1, <2>2, <2>5, <2>7, <3>1
    <3>2. CASE j # 1
      <4>1. j \in 2..Len(committed') /\ j - 1 \in 1..Len(committed) /\ j \in 2..Capacity
        BY <2>1, <2>2, <2>4, <3>2
      <4>2. queue'[Back(j)'] = queue[Back(j - 1)]
        BY <2>1, <2>5, <2>7, <4>1
      <4> QED BY <2>1, <2>2, <4>1, <4>2
    <3> QED BY <3>1, <3>2
  <2>9. Log!TypeOK'
    <3>1. Len(committed') <= Capacity /\ committed' \in Seq(Entry)
      BY <2>1, <2>2
    <3>2. queue' \in [Log!Slot -> Entry] /\ rear' \in Log!Slot /\ front' \in Log!Slot
      BY <2>3, <2>6, <2>7
    <3> QED BY <3>1, <3>2 DEF Log!TypeOK, Entry
  <2> QED BY <2>6, <2>8, <2>9 DEF LogInv
<1> QED BY <1>1, <1>2

LEMMA InvShows == LogInv => Log!ShowsLatest
<1> SUFFICES ASSUME LogInv, NEW last_n \in 0..Capacity + 1
             PROVE  Log!Shown(queue, front, rear, last_n)
                      = Log!LastOf(committed, IF last_n < Capacity THEN last_n ELSE Capacity - 1)
  BY DEF Log!ShowsLatest
<1>0. Capacity \in Nat /\ Capacity > 1
  BY DifftestAssumption
<1> USE <1>0 DEF Log!Slot
<1> DEFINE k == IF last_n < Capacity THEN last_n ELSE Capacity - 1
           m == IF last_n > Held THEN Held ELSE last_n
           last == Log!LastOf(committed, k)
<1>1. /\ queue \in [Log!Slot -> Entry] /\ front \in Log!Slot /\ rear \in Log!Slot
      /\ committed \in Seq(Entry) /\ Len(committed) \in 0..Capacity
      /\ front = Back(Held) /\ Held \in 0..Capacity - 1
      /\ \A i \in 1..Len(committed) : queue[Back(i)] = committed[Len(committed) - i + 1]
  BY DEF LogInv, Log!TypeOK, Entry, Held
<1>2. Log!Count(front, rear) = Held
  BY <1>1 DEF Log!Count, Back
<1>3. m \in 0..Capacity - 1 /\ m <= Len(committed)
  BY <1>1 DEF Held
<1>4. Log!Start(front, rear, last_n) = Back(m)
  <2>1. CASE Held > last_n
    <3>1. Log!Start(front, rear, last_n) = (rear - last_n + Capacity) % Capacity
      BY <1>2, <2>1 DEF Log!Start
    <3>2. CASE rear >= last_n
      <4>1. rear - last_n + Capacity \in Capacity..2 * Capacity - 1
        BY <1>1, <2>1, <3>2
      <4>2. Log!Start(front, rear, last_n) = rear - last_n + Capacity - Capacity
        <5>1. Capacity \in Nat \ {0}
          OBVIOUS
        <5>2. rear - last_n + Capacity \in Int
          BY <1>1
        <5>3. ASSUME NEW x \in Int, x \in Capacity..2 * Capacity - 1 PROVE x % Capacity = x - Capacity
          BY <5>1, <5>3, ModOver
        <5>4. (rear - last_n + Capacity) % Capacity = (rear - last_n + Capacity) - Capacity
          BY <4>1, <5>2, <5>3
        <5> QED BY <1>1, <3>1, <5>4
      <4> QED BY <1>1, <2>1, <3>2, <4>2 DEF Back
    <3>3. CASE rear < last_n
      <4>1. rear - last_n + Capacity \in 0..Capacity - 1
        BY <1>1, <2>1, <3>3
      <4>2. Log!Start(front, rear, last_n) = rear - last_n + Capacity
        BY <3>1, <4>1, ModIdentity
      <4> QED BY <1>1, <2>1, <3>3, <4>2 DEF Back
    <3> QED BY <1>1, <3>2, <3>3
  <2>2. CASE ~(Held > last_n)
    BY <1>1, <1>2, <2>2 DEF Log!Start, Back
  <2> QED BY <2>1, <2>2
<1>5. ASSUME NEW i \in 1..m PROVE (Back(m) + i - 1) % Capacity = Back(m - i + 1)
  <2>1. Back(m) + i - 1 \in 0..2 * Capacity - 1
    BY <1>1, <1>3, <1>5 DEF Back
  <2>2. CASE Back(m) + i - 1 < Capacity
    <3>1. (Back(m) + i - 1) % Capacity = Back(m) + i - 1
      BY <2>1, <2>2, ModIdentity
    <3> QED BY <1>1, <1>3, <2>2, <3>1 DEF Back
  <2>3. CASE Back(m) + i - 1 >= Capacity
    <3>1. Back(m) + i - 1 \in Capacity..2 * Capacity - 1
      BY <2>1, <2>3
    <3>2. (Back(m) + i - 1) % Capacity = Back(m) + i - 1 - Capacity
      <4>1. Capacity \in Nat \ {0}
        OBVIOUS
      <4>2. \A x \in Capacity..2 * Capacity - 1 : x % Capacity = x - Capacity
        BY <4>1, ModOver
      <4>3. Back(m) \in Int /\ i \in Int
        BY <1>1, <1>3, <1>5 DEF Back
      <4> HIDE DEF m
      <4> QED BY <3>1, <4>2, <4>3
    <3> QED BY <1>1, <1>3, <2>3, <3>2 DEF Back
  <2> QED BY <2>1, <2>2, <2>3
<1>6. ASSUME NEW i \in 1..m
      PROVE  queue[(Log!Start(front, rear, last_n) + i - 1) % Capacity] = committed[Len(committed) - m + i]
  <2>1. m - i + 1 \in 1..Len(committed) /\ Len(committed) - (m - i + 1) + 1 = Len(committed) - m + i
    BY <1>1, <1>3
  <2> QED BY <1>1, <1>4, <1>5, <2>1
<1>7. last \in Seq(Entry) /\ Len(last) = m /\ \A i \in 1..m : last[i] = committed[Len(committed) - m + i]
  <2>1. CASE Len(committed) > k
    <3>1. last = SubSeq(committed, Len(committed) - k + 1, Len(committed))
      BY <2>1 DEF Log!LastOf
    <3>3. m = k
      BY <1>1, <2>1 DEF Held
    <3>2. m \in 0..Len(committed) /\ last = SubSeq(committed, Len(committed) - m + 1, Len(committed))
      <4>1. m \in 0..Len(committed)
        BY <1>1, <1>3
      <4> HIDE DEF m, last, k
      <4> QED BY <3>1, <3>3, <4>1
    <3> HIDE DEF m, last, k
    <3> QED BY <1>1, <3>2, LastElements
  <2>2. CASE ~(Len(committed) > k)
    <3>1. last = SubSeq(committed, 0 + 1, Len(committed))
      BY <2>2 DEF Log!LastOf
    <3>3. m = Len(committed)
      BY <1>1, <2>2 DEF Held
    <3>2. last = committed
      BY <1>1, <3>1
    <3> QED BY <1>1, <3>2, <3>3
  <2> QED BY <1>1, <2>1, <2>2
<1>8. Log!Shown(queue, front, rear, last_n)
        = [i \in 1..m |-> queue[(Log!Start(front, rear, last_n) + i - 1) % Capacity]]
  BY <1>2 DEF Log!Shown
<1>9. last = [i \in 1..m |-> last[i]]
  BY <1>7
<1>10. Log!Shown(queue, front, rear, last_n) = last
  <2> HIDE DEF m, last
  <2> QED BY <1>6, <1>7, <1>8, <1>9
<1> QED BY <1>10

-----------------------------------------------------------------------------
(* The trace and the end of the run, whatever the commands.                *)

\* An abort is about the instruction that committed last.
AbortedLast == state = "ABORT" => committed # <<>> /\ committed[Len(committed)] = halt_pc

EInv == TypeOK /\ Copied /\ LogInv /\ AbortedLast

LEMMA InitEInv == Init => EInv
<1> SUFFICES ASSUME Init PROVE EInv
  OBVIOUS
<1>1. wb = FALSE /\ state = "STOP" /\ Log!Init
  BY DEF Init
<1> QED BY <1>1, InitType, InitLogInv DEF EInv, Copied, AbortedLast

LEMMA StepEInv == EInv /\ [Next]_vars => EInv'
<1> SUFFICES ASSUME EInv, [Next]_vars PROVE EInv'
  OBVIOUS
<1>0. TypeOK /\ TypeOK' /\ Copied /\ LogInv /\ AbortedLast
  BY StepType DEF EInv
<1>1. CASE Turn
  <2>0. /\ state = "RUNNING" /\ Commit /\ single_cycle
        /\ \E closed \in BOOLEAN : state' = StateAfter(wb /\ Synced # sim_cpu, closed)
    BY <1>1 DEF Turn
  <2>1. Copied'
    BY <2>0 DEF single_cycle, Copied
  <2>2. CASE wb
    <3>1. /\ Log!enqueue(dut.pc) /\ sim_cpu = dut
          /\ halt_pc' = IF Synced # sim_cpu THEN sim_cpu.pc ELSE halt_pc
      BY <1>0, <2>0, <2>2 DEF Commit, difftest_step, HaltAt, Copied
    <3>2. dut.pc \in Entry
      BY <1>0 DEF TypeOK, Machine, Pc, Entry
    <3>3. LogInv'
      BY <1>0, <3>1, <3>2, StepLogInv
    <3>4. committed' # <<>> /\ committed'[Len(committed')] = dut.pc
      <4>1. /\ committed \in Seq(Entry) /\ Len(committed) <= Capacity
            /\ committed' = Log!LastOf(Append(committed, dut.pc), Capacity)
        BY <1>0, <3>1 DEF LogInv, Log!TypeOK, Log!enqueue, Entry
      <4>2. /\ committed' \in Seq(Entry)
            /\ Len(committed') = (IF Len(committed) < Capacity THEN Len(committed) + 1 ELSE Capacity)
            /\ committed'[Len(committed')] = dut.pc
        BY <3>2, <4>1, LastOfAppend
      <4>3. Len(committed') > 0
        BY <4>1, <4>2, DifftestAssumption
      <4> QED BY <4>2, <4>3
    <3>5. AbortedLast'
      <4>1. state' = "ABORT" => Synced # sim_cpu
        BY <2>0 DEF StateAfter
      <4> QED BY <3>1, <3>4, <4>1 DEF AbortedLast
    <3> QED BY <1>0, <2>1, <3>3, <3>5 DEF EInv
  <2>3. CASE ~wb
    <3>1. UNCHANGED logVars /\ state' # "ABORT"
      BY <2>0, <2>3 DEF Commit, StateAfter
    <3> QED BY <1>0, <2>1, <3>1, StepLogInv DEF EInv, AbortedLast
  <2> QED BY <2>2, <2>3
<1>2. CASE Break
  <2>1. UNCHANGED <<wb, dut, sim_cpu, logVars>> /\ state' = "END"
    BY <1>2 DEF Break
  <2> QED BY <1>0, <2>1, StepLogInv DEF EInv, Copied, AbortedLast
<1>3. CASE Ended \/ UNCHANGED vars
  <2>1. UNCHANGED <<wb, dut, sim_cpu, logVars, state, halt_pc>>
    BY <1>3 DEF Ended, vars
  <2>2. committed' = committed
    BY <2>1 DEF logVars
  <2> QED BY <1>0, <2>1, <2>2, StepLogInv DEF EInv, Copied, AbortedLast
<1>4. ASSUME NEW k \in Steps, cpu_exec(k) PROVE EInv'
  <2>1. UNCHANGED <<wb, dut, sim_cpu, logVars>> /\ state' = "RUNNING"
    BY <1>4 DEF cpu_exec
  <2> QED BY <1>0, <2>1, StepLogInv DEF EInv, Copied, AbortedLast
<1> QED BY <1>1, <1>2, <1>3, <1>4 DEF Next

\* However often the ring has wrapped and however cpu_exec is called, what is
\* printed is the last commits, oldest first, and on an abort it ends with the
\* instruction that was compared (sim.cpp:51-106, 242).
THEOREM TraceEnds == Spec => []TraceEndsAtHalt
<1>1. EInv => TraceEndsAtHalt
  <2> SUFFICES ASSUME EInv PROVE TraceEndsAtHalt
    OBVIOUS
  <2> DEFINE shown == Log!Shown(queue, front, rear, Capacity)
  <2>1. Log!ShowsLatest
    BY InvShows DEF EInv
  <2>2. Capacity \in Nat /\ Capacity > 1
    BY DifftestAssumption
  <2>3. shown = Log!LastOf(committed, Capacity - 1)
    <3>1. Capacity \in 0..Capacity + 1 /\ ~(Capacity < Capacity)
      BY <2>2
    <3> QED BY <2>1, <3>1 DEF Log!ShowsLatest
  <2>4. committed \in Seq(Entry)
    BY DEF EInv, LogInv, Log!TypeOK, Entry
  <2>5. ASSUME committed # <<>>
        PROVE  shown # <<>> /\ shown[Len(shown)] = committed[Len(committed)]
    <3> DEFINE k == IF Len(committed) > Capacity - 1 THEN Capacity - 1 ELSE Len(committed)
               last == SubSeq(committed, Len(committed) - k + 1, Len(committed))
    <3>1. k \in 1..Len(committed)
      BY <2>2, <2>4, <2>5
    <3>2. shown = last
      <4>1. (IF Len(committed) > Capacity - 1 THEN Len(committed) - (Capacity - 1) ELSE 0) + 1
              = Len(committed) - k + 1
        BY <2>2, <2>4
      <4> QED BY <2>3, <4>1 DEF Log!LastOf
    <3>3. last \in Seq(Entry) /\ Len(last) = k /\ \A i \in 1..k : last[i] = committed[Len(committed) - k + i]
      <4>1. k \in 0..Len(committed)
        BY <3>1
      <4> HIDE DEF k
      <4> QED BY <2>4, <4>1, LastElements
    <3>4. last[k] = committed[Len(committed)]
      <4> HIDE DEF k, last
      <4> QED BY <2>4, <3>1, <3>3
    <3> HIDE DEF k, last, shown
    <3> QED BY <3>1, <3>2, <3>3, <3>4
  <2> HIDE DEF shown
  <2>6. state = "ABORT" => shown # <<>> /\ shown[Len(shown)] = halt_pc
    BY <2>5 DEF EInv, AbortedLast
  <2> QED BY <2>1, <2>6 DEF TraceEndsAtHalt, shown
<1> QED BY <1>1, InitEInv, StepEInv, PTL DEF Spec
=============================================================================
