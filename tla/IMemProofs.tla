----------------------------- MODULE IMemProofs -----------------------------
(***************************************************************************)
(* Proofs about IMem, for every geometry, every program and every set of   *)
(* writes that fences commit to it.                                        *)
(***************************************************************************)
EXTENDS IMem, TLAPS

\* The addresses the machine works with lie in the memory.
InProgram ==
  /\ \A a \in {pc_if1, pc_if2, addr_pipe, mepc, npc} : a.tag \in Tags
  /\ \A slot \in {id, ex, ls, wb} : slot.pc.tag \in Tags /\ slot.target.tag \in Tags

\* Arbiter, slave and caches walk through a read of a line together.
BusInStep ==
  /\ r_crt = "R_IDLE" => rstate = 0 /\ ~arready /\ ~rvalid /\ ~rlast
  /\ r_crt \in {"I_AR", "D_AR"} => rstate = 1 /\ arready /\ ~rvalid /\ rcount = 0
  /\ r_crt \in {"I_R", "D_R"} =>
       /\ ~arready /\ rvalid
       /\ rcount \in 1..WordNum
       /\ rlast <=> rcount = WordNum
       /\ rstate = IF rlast THEN 0 ELSE 1
  /\ r_crt # "R_IDLE" => arlen = WordNum - 1 /\ InPmem(araddr) /\ araddr.word = 0
  /\ r_crt \in {"I_AR", "I_R"} => i_rvalid /\ araddr = i_raddr
  /\ r_crt \in {"D_AR", "D_R"} => d_rvalid

IInv == TypeOK /\ InProgram /\ BusInStep

-----------------------------------------------------------------------------
\* The first cycle: nothing has been fetched.
Starting ==
  ~rvalid_pipe =>
    /\ i_state = "IDLE" /\ ~flush_buf /\ ~commit_if2
    /\ dmode = "free" /\ ex = Empty
    /\ i_data = [w \in Ways |-> [s \in Sets |-> NopLine]]

\* The request buffer of the cache and IF2 hold the same fetch.
Paired ==
  /\ commit_if2 => rvalid_pipe /\ addr_pipe = pc_if2
  /\ rvalid_pipe => (commit_if2 <=> ~flush_buf)

IsBubble(slot) == slot.inst = Nop /\ ~slot.commit

\* What the kind of an instruction tells of the slots behind it.
Decoded ==
  /\ \A slot \in {id, ex, ls} : ~slot.commit => slot.inst = Nop
  /\ ~id.taken /\ ~id.dep
  /\ \A slot \in {ex, ls, wb} : slot.taken => slot.inst \in Branch
  /\ ex.dep => ex.inst \in Load
  /\ dmode # "free" => ls.inst \in Load \cup Store \cup Fence
  /\ wb.inst \in Priv => wb.commit /\ IsBubble(ls) /\ IsBubble(ex) /\ IsBubble(id)
  /\ ls.inst \in Priv => IsBubble(ex) /\ IsBubble(id) /\ ~commit_if2

\* Where the program goes on behind an instruction.
after(slot) ==
  CASE slot.inst \in Ecall -> TrapVector
    [] slot.inst \in Mret  -> mepc
    [] slot.taken          -> slot.target
    [] OTHER               -> Following(slot.pc)

\* ... behind what is in WB, in LS, in EX, in ID and in IF2.
behind_wb  == IF wb.commit THEN after(wb) ELSE npc
behind_ls  == IF ls.commit THEN after(ls) ELSE behind_wb
behind_ex  == IF ex.commit THEN after(ex) ELSE behind_ls
behind_id  == IF id.commit THEN Following(id.pc) ELSE behind_ex
behind_if2 == IF commit_if2 THEN Following(pc_if2) ELSE behind_id

\* What is behind a jump, a privileged instruction in EX or an ecall is flushed.
Redirected == jump \/ flush_by_priv_ex \/ ls.inst \in Ecall \/ flush_by_exp

Ordered ==
  /\ wb.commit => wb.pc = npc
  /\ ls.commit => ls.pc = behind_wb
  /\ ex.commit => ex.pc = behind_ls
  /\ ~Redirected =>
       /\ id.commit => id.pc = behind_ex
       /\ commit_if2 => pc_if2 = behind_id
       /\ pc_if1 = behind_if2

OInv == Starting /\ Paired /\ Decoded /\ Ordered

-----------------------------------------------------------------------------
\* A fence may write to the line.
Patched(a) == \E p \in Patches : p.addr.tag = a.tag /\ p.addr.set = a.set

line(a) == mem[a.tag][a.set]

\* The beats that came are in the return buffer, its top word last.
LineIn ==
  ~Patched(addr_pipe) =>
    /\ r_crt = "I_R" =>
         /\ rdata = line(addr_pipe)[rcount - 1]
         /\ \A i \in Words :
              i < rcount - 1 => i_ret_buf[WordNum - (rcount - 1) + i] = line(addr_pipe)[i]
    /\ i_state = "REFILL" => i_ret_buf = line(addr_pipe)

\* Valid or not, a line that has a tag is the line of the memory.
LinesRight ==
  \A w \in Ways, a \in Addr :
    a.tag \in Tags /\ i_tags[w][a.set] = a.tag /\ ~Patched(a) => i_data[w][a.set] = line(a)

\* The arrays are read where the request will be.
LookedUp == i_rd_index = addr_pipe.set

SlotsRight ==
  \A slot \in {id, ex, ls, wb} :
    slot.commit /\ ~Patched(slot.pc) => slot.inst = line(slot.pc)[slot.pc.word]

FInv == LineIn /\ LinesRight /\ LookedUp /\ SlotsRight
-----------------------------------------------------------------------------
(* Operators *)

\* The default values belong to their types.
LEMMA Defaults ==
  /\ NoAddr \in Addr /\ NoAddr.tag \in Tags /\ NoAddr.word = 0
  /\ Nop \in Word /\ ZeroWord \in Word /\ NopLine \in Line /\ NoTag \notin Tags
  /\ ResetPc \in Addr /\ ResetPc.tag \in Tags /\ TrapVector \in Addr /\ TrapVector.tag \in Tags
  /\ \A t \in Targets : t \in Addr /\ t.tag \in Tags
  /\ 0 \in Sets /\ 0 \in Words /\ WordNum - 1 \in Words
<1>1. (CHOOSE t \in Tags : TRUE) \in Tags
  BY GeometryAssumption
<1>2. (CHOOSE b \in Byte : TRUE) \in Byte
  BY GeometryAssumption
<1>3. 0 \in Sets /\ 0 \in Words /\ WordNum - 1 \in Words
  BY GeometryAssumption DEF Sets, Words
<1>4. NoAddr \in Addr /\ NoAddr.tag \in Tags /\ NoAddr.word = 0
  BY <1>1, <1>3 DEF NoAddr, Addr
<1>5. Nop \in Word /\ ZeroWord \in Word /\ NopLine \in Line /\ NoTag \notin Tags
  BY <1>2, ICacheAssumption DEF NopLine, Line, ZeroWord, Word
<1>6. QED
  BY <1>3, <1>4, <1>5, PipelineAssumption

\* An empty slot.
LEMMA EmptySlot ==
  /\ Empty \in Slot /\ Empty.pc.tag \in Tags /\ Empty.target.tag \in Tags
  /\ Empty.inst = Nop /\ Empty.commit = FALSE /\ Empty.taken = FALSE /\ Empty.dep = FALSE
BY Defaults DEF Empty, Fetched, Slot

\* No class of instructions has the nop.
LEMMA NopPlain ==
  Nop \notin Branch /\ Nop \notin Load /\ Nop \notin Store /\ Nop \notin Fence /\ Nop \notin Priv
BY PipelineAssumption DEF Priv

\* The next address of the program lies in the memory.
LEMMA FollowingTyped ==
  ASSUME NEW a \in Addr, a.tag \in Tags
  PROVE  Following(a) \in Addr /\ Following(a).tag \in Tags
<1>1. a.tag \in Tags \cup DeviceTags /\ a.set \in Sets /\ a.word \in Words
      /\ a = [tag |-> a.tag, set |-> a.set, word |-> a.word]
  BY DEF Addr
<1>2. CASE a.word < WordNum - 1
  <2>1. a.word + 1 \in Words
    BY <1>1, <1>2, GeometryAssumption DEF Words
  <2>2. Following(a) = [tag |-> a.tag, set |-> a.set, word |-> a.word + 1]
    BY <1>1, <1>2 DEF Following
  <2> QED BY <1>1, <2>1, <2>2 DEF Addr
<1>3. CASE ~(a.word < WordNum - 1) /\ a.set < SetNum - 1
  <2>1. a.set + 1 \in Sets
    BY <1>1, <1>3, GeometryAssumption DEF Sets
  <2>2. Following(a) = [tag |-> a.tag, set |-> a.set + 1, word |-> 0]
    BY <1>1, <1>3 DEF Following
  <2> QED BY <1>1, <2>1, <2>2, Defaults DEF Addr
<1>4. CASE ~(a.word < WordNum - 1) /\ ~(a.set < SetNum - 1)
  BY <1>4, Defaults, PipelineAssumption DEF Following, Addr
<1> QED BY <1>2, <1>3, <1>4

\* What EX is handed is the instruction of ID with its results.
LEMMA ExecutedTyped ==
  ASSUME NEW slot \in Slot, NEW new, Executed(slot, new)
  PROVE  /\ new \in Slot
         /\ new.pc = slot.pc /\ new.inst = slot.inst /\ new.commit = slot.commit
         /\ new.taken => new.inst \in Branch
         /\ new.dep => new.inst \in Load
         /\ new.target.tag \in Tags
<1>1. PICK b \in (IF slot.inst \in Branch THEN BOOLEAN ELSE {FALSE}),
           t \in (IF slot.inst \in Branch \cup CsrWrite THEN Targets ELSE {ResetPc}),
           d \in (IF slot.inst \in Load THEN BOOLEAN ELSE {FALSE}) :
             new = [slot EXCEPT !.taken = b, !.target = t, !.dep = d]
  BY Zenon DEF Executed
<1>2. b \in BOOLEAN /\ d \in BOOLEAN /\ t \in Addr /\ t.tag \in Tags
      /\ (b => slot.inst \in Branch) /\ (d => slot.inst \in Load)
  BY Defaults
<1> QED BY <1>1, <1>2 DEF Slot

\* Shifting a word into a line buffer gives a line.
LEMMA ShiftTyped ==
  ASSUME NEW l \in Line, NEW w \in Word
  PROVE  Shift(l, w) \in Line
BY GeometryAssumption DEF Shift, Line, Words

-----------------------------------------------------------------------------
(* Types *)

\* The types that the steps below rest on, with the signals of the cache.
LEMMA Typed ==
  ASSUME TypeOK, InProgram
  PROVE  /\ pc_if1 \in Addr /\ pc_if2 \in Addr /\ mepc \in Addr /\ npc \in Addr
         /\ commit_if2 \in BOOLEAN
         /\ id \in Slot /\ ex \in Slot /\ ls \in Slot /\ wb \in Slot
         /\ pc_if1.tag \in Tags /\ pc_if2.tag \in Tags /\ mepc.tag \in Tags /\ npc.tag \in Tags
         /\ addr_pipe \in Addr /\ addr_pipe.tag \in Tags
         /\ addr_pipe.set \in Sets /\ addr_pipe.word \in Words
         /\ i_hit_way \in Ways /\ refill_way \in Ways /\ i_w_index \in Sets
         /\ i_raddr \in Addr /\ i_raddr.tag = addr_pipe.tag
         /\ i_raddr.set = addr_pipe.set /\ i_raddr.word = 0
         /\ \A slot \in {id, ex, ls, wb} :
              slot \in Slot /\ slot.pc.tag \in Tags /\ slot.target.tag \in Tags
<1>1. addr_pipe \in Addr /\ addr_pipe.tag \in Tags
  BY DEF TypeOK, ICacheTypeOK, InProgram
<1>2. i_hit_way \in Ways /\ refill_way \in Ways
  BY DEF i_hit_way, refill_way, Ways
<1>3. /\ i_raddr \in Addr /\ i_raddr.tag = addr_pipe.tag
      /\ i_raddr.set = addr_pipe.set /\ i_raddr.word = 0
  BY <1>1, Defaults DEF i_raddr, LineBase, Addr
<1> QED BY <1>1, <1>2, <1>3 DEF TypeOK, PipelineTypeOK, InProgram, Addr, i_w_index

\* The word that IF2 hands to ID.
LEMMA InstTyped ==
  ASSUME TypeOK, InProgram
  PROVE  inst_if2(pc_set) \in Word
<1>1. i_ret_buf \in Line /\ i_data \in [Ways -> [Sets -> Line]] /\ i_rd_index \in Sets
  BY DEF TypeOK, ICacheTypeOK
<1>2. i_ret_buf[addr_pipe.word] \in Word /\ i_data[i_hit_way][i_rd_index][addr_pipe.word] \in Word
  BY <1>1, Typed DEF Line
<1> QED BY <1>2, Defaults DEF inst_if2

\* Every slot keeps its type, and every address stays in the memory.
LEMMA PipelineTyped ==
  ASSUME TypeOK, InProgram, PipelineClock(dcache_miss)
  PROVE  /\ PipelineTypeOK'
         /\ \A a \in {pc_if1', pc_if2', mepc'} : a.tag \in Tags
         /\ \A slot \in {id', ex', ls', wb'} : slot.pc.tag \in Tags /\ slot.target.tag \in Tags
<1>1. Fetch(dcache_miss) /\ Decode(dcache_miss) /\ Execute(dcache_miss) /\ Retire(dcache_miss) /\ Trap
  BY DEF PipelineClock
<1> DEFINE Good(slot) == slot \in Slot /\ slot.pc.tag \in Tags /\ slot.target.tag \in Tags
<1>2. Good(id) /\ Good(ex) /\ Good(ls) /\ Good(wb) /\ Good(Empty)
  BY Typed, EmptySlot
<1>3. ASSUME NEW slot, Good(slot)
      PROVE  /\ Good([slot EXCEPT !.dep = FALSE]) /\ Good([slot EXCEPT !.commit = FALSE])
             /\ slot.pc \in Addr /\ slot.target \in Addr
             /\ Following(slot.pc) \in Addr /\ Following(slot.pc).tag \in Tags
  BY <1>3, FollowingTyped DEF Slot
<1>4. pc_target \in Addr /\ pc_target.tag \in Tags
  BY <1>2, <1>3, Typed, Defaults DEF pc_target
<1>5. /\ pc_if1' \in Addr /\ pc_if1'.tag \in Tags /\ pc_if2' \in Addr /\ pc_if2'.tag \in Tags
      /\ commit_if2' \in BOOLEAN
  BY <1>1, <1>4, Typed, FollowingTyped, Defaults DEF Fetch
<1>6. mepc' \in Addr /\ mepc'.tag \in Tags
  BY <1>1, <1>2, <1>3, Typed DEF Trap
<1>7. Good(id')
  <2>1. Good(Fetched(pc_if2, inst_if2(pc_set), commit_if2))
    BY Typed, InstTyped, Defaults DEF Fetched, Slot
  <2> HIDE DEF Good
  <2> QED BY <1>1, <1>2, <2>1 DEF Decode
<1>8. Good(ex')
  <2>1. ASSUME NEW new, Executed(id, new) PROVE Good(new)
    <3>1. id \in Slot /\ Executed(id, new)
      BY <1>2, <2>1
    <3>2. new \in Slot /\ new.pc = id.pc /\ new.target.tag \in Tags
      BY <3>1, ExecutedTyped, Zenon
    <3> QED BY <1>2, <3>2
  <2> HIDE DEF Good
  <2> QED BY <1>1, <1>2, <2>1 DEF Execute
<1>9. Good(ls') /\ Good(wb')
  <2> HIDE DEF Good
  <2> QED BY <1>1, <1>2, <1>3 DEF Retire
<1> QED BY <1>5, <1>6, <1>7, <1>8, <1>9 DEF PipelineTypeOK

\* So does the cache, in whose arrays only tags of the memory are entered.
LEMMA ICacheTyped ==
  ASSUME TypeOK, InProgram,
         ICacheClock(pc_if1, stall_id(dcache_miss), pc_set, ex.inst \in Fence)
  PROVE  ICacheTypeOK' /\ addr_pipe'.tag \in Tags
<1> DEFINE stall == stall_id(dcache_miss)
<1>1. /\ FetchFsm(stall) /\ RequestBuffer(pc_if1, stall) /\ FlushBuffer(stall, pc_set)
      /\ FetchBuffer /\ FetchValidBits(pc_if1, stall, ex.inst \in Fence)
      /\ i_rd_index' = i_r_index(pc_if1, stall)
  BY DEF ICacheClock
<1>2. /\ i_ret_buf \in Line /\ i_data \in [Ways -> [Sets -> Line]]
      /\ i_tags \in [Ways -> [Sets -> Tags \cup {NoTag}]]
      /\ valid_bit_mem \in [Ways -> [Sets -> BOOLEAN]] /\ i_lru \in [Sets -> Ways]
      /\ i_state \in {"IDLE", "MISS", "REFILL"} /\ rvalid_pipe \in BOOLEAN
      /\ flush_buf \in BOOLEAN /\ rdata \in Word
  BY DEF TypeOK, ICacheTypeOK, PmemTypeOK
<1>3. i_r_index(pc_if1, stall) \in Sets
  BY Typed DEF i_r_index, Addr
<1> HIDE DEF stall
<1>4. addr_pipe' \in Addr /\ addr_pipe'.tag \in Tags /\ rvalid_pipe' \in BOOLEAN
  BY <1>1, <1>2, Typed DEF RequestBuffer
<1>5. flush_buf' \in BOOLEAN
  BY <1>1 DEF FlushBuffer
<1>6. i_ret_buf' \in Line
  BY <1>1, <1>2, ShiftTyped DEF FetchBuffer
<1>7. valid_bit_mem' \in [Ways -> [Sets -> BOOLEAN]] /\ tag_valid' \in [Ways -> BOOLEAN]
  BY <1>1, <1>2, <1>3, Typed DEF FetchValidBits
<1>8. /\ i_data' \in [Ways -> [Sets -> Line]] /\ i_tags' \in [Ways -> [Sets -> Tags \cup {NoTag}]]
      /\ i_lru' \in [Sets -> Ways] /\ i_state' \in {"IDLE", "MISS", "REFILL"}
  <2>1. CASE Lookup(stall)
    BY <1>2, <2>1, Typed DEF Lookup
  <2>2. CASE LineWait
    BY <1>2, <2>2 DEF LineWait
  <2>3. CASE LineFill
    <3>1. 1 - i_lru[i_w_index] \in Ways
      BY <1>2, Typed DEF Ways
    <3>2. i_lru' \in [Sets -> Ways]
      BY <1>2, <2>3, <3>1, Typed DEF LineFill
    <3> QED BY <1>2, <2>3, <3>2, Typed DEF LineFill
  <2> QED BY <1>1, <2>1, <2>2, <2>3 DEF FetchFsm
<1> QED BY <1>1, <1>3, <1>4, <1>5, <1>6, <1>7, <1>8 DEF ICacheTypeOK

-----------------------------------------------------------------------------
(* The bus *)

\* A request stays while its line has not come in full.
LEMMA RequestsHeld ==
  ASSUME TypeOK, Cycle
  PROVE  /\ i_rvalid /\ ~(i_rready /\ i_rlast) => i_rvalid' /\ addr_pipe' = addr_pipe
         /\ d_rvalid /\ ~(d_rready /\ d_rlast) => d_rvalid'
<1>1. i_rvalid /\ ~(i_rready /\ i_rlast) => i_rvalid' /\ addr_pipe' = addr_pipe
  <2>1. RequestBuffer(pc_if1, stall_id(dcache_miss)) /\ FetchFsm(stall_id(dcache_miss))
    BY DEF Cycle, PipelineClock, ICacheClock
  <2> SUFFICES ASSUME i_state = "MISS", ~(i_rready /\ i_rlast)
               PROVE  i_state' = "MISS" /\ addr_pipe' = addr_pipe
    BY DEF i_rvalid
  <2> QED BY <2>1 DEF RequestBuffer, req_buf_we, FetchFsm, Lookup, LineWait, LineFill
<1>2. d_rvalid /\ ~(d_rready /\ d_rlast) => d_rvalid'
  BY DEF Cycle, DataCache, d_rvalid
<1> QED BY <1>1, <1>2

\* What a step of the bus is, by the state of the arbiter.
LEMMA BusStep ==
  ASSUME IInv, Cycle
  PROVE  /\ r_crt = "R_IDLE" =>
              \/ r_crt' = "R_IDLE" /\ UNCHANGED <<rstate, araddr, arlen, arready, rcount, rdata>>
                 /\ ~rvalid' /\ ~rlast'
              \/ /\ r_crt' \in {"I_AR", "D_AR"}
                 /\ r_crt' = "I_AR" => i_rvalid
                 /\ r_crt' = "D_AR" => d_rvalid
                 /\ rstate' = 1 /\ arready' /\ ~rvalid' /\ rcount' = 0 /\ UNCHANGED rdata
                 /\ araddr' = IF r_crt' = "I_AR" THEN i_raddr' ELSE NoAddr
                 /\ arlen' = WordNum - 1
         /\ r_crt \in {"I_AR", "D_AR"} \/ (r_crt \in {"I_R", "D_R"} /\ ~rlast) =>
              /\ r_crt' = IF r_crt \in {"I_AR", "I_R"} THEN "I_R" ELSE "D_R"
              /\ ~arready' /\ rvalid' /\ (rlast' <=> rcount = WordNum - 1)
              /\ rcount \in Words /\ rcount' = rcount + 1
              /\ rstate' = IF rcount = WordNum - 1 THEN 0 ELSE 1
              /\ rdata' = mem'[araddr.tag][araddr.set][rcount]
              /\ UNCHANGED <<araddr, arlen>>
         /\ r_crt \in {"I_R", "D_R"} /\ rlast =>
              /\ r_crt' = "R_IDLE"
              /\ UNCHANGED <<rstate, araddr, arlen, arready, rcount, rdata>> /\ ~rvalid' /\ ~rlast'
<1> DEFINE addr == IF r_crt' = "I_AR" THEN i_raddr' ELSE NoAddr
<1>1. ReadFsm(i_rvalid, d_rvalid) /\ PmemRead(arvalid', addr, WordNum - 1, 2, rready')
  BY DEF Cycle, Slave
<1>2. /\ r_crt \in {"R_IDLE", "I_AR", "I_R", "D_AR", "D_R"} /\ rlast \in BOOLEAN
      /\ WordNum \in Nat /\ WordNum > 0 /\ Words = 0 .. WordNum - 1
  BY GeometryAssumption DEF IInv, TypeOK, ArbiterTypeOK, PmemTypeOK, Words
<1> HIDE DEF addr
<1>3. ASSUME rstate = 1, arlen = WordNum - 1, InPmem(araddr), araddr.word = 0,
             rcount \in Words, rready'
      PROVE  /\ ~arready' /\ rvalid' /\ (rlast' <=> rcount = WordNum - 1)
             /\ rcount' = rcount + 1
             /\ rstate' = IF rcount = WordNum - 1 THEN 0 ELSE 1
             /\ rdata' = mem'[araddr.tag][araddr.set][rcount]
             /\ UNCHANGED <<araddr, arlen>>
  <2>0. ~ReadQuiet(arvalid') /\ ~ReadAccept(arvalid', addr, WordNum - 1, 2)
    BY <1>3 DEF ReadQuiet, ReadAccept
  <2>1. ReadBeat(rready')
    BY <1>1, <2>0 DEF PmemRead
  <2>2. araddr.word + rcount = rcount
    BY <1>2, <1>3
  <2> QED BY <1>3, <2>1, <2>2 DEF ReadBeat
<1>4. CASE r_crt = "R_IDLE"
  <2>1. rstate = 0
    BY <1>4 DEF IInv, BusInStep
  <2>2. \/ r_crt' = "R_IDLE"
        \/ r_crt' = "I_AR" /\ i_rvalid
        \/ r_crt' = "D_AR" /\ d_rvalid
    BY <1>1, <1>4 DEF ReadFsm, GrantNone, GrantI, GrantD, ReadAddress, ReadData
  <2>3. CASE r_crt' = "R_IDLE"
    <3>1. ~arvalid'
      BY <2>3 DEF arvalid
    <3>2. ReadQuiet(arvalid')
      BY <1>1, <2>1, <3>1 DEF PmemRead, ReadAccept, ReadBeat
    <3> QED BY <1>4, <2>3, <3>2 DEF ReadQuiet
  <2>4. CASE r_crt' \in {"I_AR", "D_AR"}
    <3>1. arvalid'
      BY <2>4 DEF arvalid
    <3>2. ~ReadQuiet(arvalid')
      BY <3>1 DEF ReadQuiet
    <3>3. ~ReadBeat(rready')
      BY <2>1 DEF ReadBeat
    <3>4. ReadAccept(arvalid', addr, WordNum - 1, 2)
      BY <1>1, <3>2, <3>3 DEF PmemRead
    <3> QED BY <1>4, <2>2, <2>4, <3>4 DEF ReadAccept, addr
  <2> QED BY <2>2, <2>3, <2>4
<1>5. CASE r_crt \in {"I_AR", "D_AR"}
  <2>1. rstate = 1 /\ arready /\ rcount = 0 /\ arlen = WordNum - 1 /\ InPmem(araddr) /\ araddr.word = 0
    BY <1>5 DEF IInv, BusInStep
  <2>2. r_crt' = IF r_crt = "I_AR" THEN "I_R" ELSE "D_R"
    BY <1>1, <1>5, <2>1 DEF ReadFsm, GrantNone, GrantI, GrantD, ReadAddress, ReadData
  <2>3. rready' /\ rcount \in Words
    BY <1>2, <2>1, <2>2 DEF rready
  <2> QED BY <1>3, <1>5, <2>1, <2>2, <2>3
<1>6. CASE r_crt \in {"I_R", "D_R"} /\ ~rlast
  <2>1. /\ rvalid /\ rcount \in 1 .. WordNum /\ rcount # WordNum /\ rstate = 1
        /\ arlen = WordNum - 1 /\ InPmem(araddr) /\ araddr.word = 0
    BY <1>6 DEF IInv, BusInStep
  <2>2. r_crt' = r_crt
    BY <1>1, <1>6 DEF ReadFsm, GrantNone, GrantI, GrantD, ReadAddress, ReadData
  <2>3. rready' /\ rcount \in Words
    BY <1>2, <1>6, <2>1, <2>2 DEF rready
  <2> QED BY <1>3, <1>6, <2>1, <2>2, <2>3
<1>7. CASE r_crt \in {"I_R", "D_R"} /\ rlast
  <2>1. rvalid /\ rstate = 0
    BY <1>7 DEF IInv, BusInStep
  <2>2. r_crt' = "R_IDLE"
    BY <1>1, <1>7, <2>1 DEF ReadFsm, GrantNone, GrantI, GrantD, ReadAddress, ReadData
  <2>3. ~arvalid'
    BY <2>2 DEF arvalid
  <2>4. ReadQuiet(arvalid')
    BY <1>1, <2>1, <2>3 DEF PmemRead, ReadAccept, ReadBeat
  <2> QED BY <1>7, <2>2, <2>4 DEF ReadQuiet
<1> QED BY <1>2, <1>4, <1>5, <1>6, <1>7

\* Arbiter, slave and cache stay in step.
LEMMA BusInStepNext ==
  ASSUME IInv, Cycle, i_raddr' \in Addr, i_raddr'.tag \in Tags
  PROVE  BusInStep'
<1>1. /\ r_crt \in {"R_IDLE", "I_AR", "I_R", "D_AR", "D_R"} /\ rlast \in BOOLEAN
      /\ WordNum \in Nat /\ WordNum > 0 /\ Words = 0 .. WordNum - 1
  BY GeometryAssumption DEF IInv, TypeOK, ArbiterTypeOK, PmemTypeOK, Words
<1>2. i_raddr'.word = 0
  <2>1. addr_pipe \in Addr /\ addr_pipe' \in Addr
    BY ICacheTyped DEF IInv, TypeOK, ICacheTypeOK, Cycle, PipelineClock
  <2> QED BY <2>1, Defaults DEF i_raddr, LineBase, Addr
<1>3. /\ i_rvalid /\ ~(i_rready /\ i_rlast) => i_rvalid' /\ i_raddr' = i_raddr
      /\ d_rvalid /\ ~(d_rready /\ d_rlast) => d_rvalid'
  BY RequestsHeld DEF i_raddr, IInv
<1>4. CASE r_crt = "R_IDLE"
  <2>1. ~i_rready /\ ~d_rready
    BY <1>4 DEF i_rready, d_rready
  <2>2. rstate = 0 /\ ~arready
    BY <1>4 DEF IInv, BusInStep
  <2>3. CASE r_crt' = "R_IDLE"
    BY <1>4, <2>2, <2>3, BusStep DEF BusInStep
  <2>4. CASE r_crt' # "R_IDLE"
    <3>1. /\ r_crt' \in {"I_AR", "D_AR"}
          /\ r_crt' = "I_AR" => i_rvalid
          /\ r_crt' = "D_AR" => d_rvalid
          /\ rstate' = 1 /\ arready' /\ ~rvalid' /\ rcount' = 0
          /\ araddr' = IF r_crt' = "I_AR" THEN i_raddr' ELSE NoAddr
          /\ arlen' = WordNum - 1
      BY <1>4, <2>4, BusStep
    <3>2. InPmem(araddr)' /\ araddr'.word = 0
      BY <1>2, <3>1, Defaults DEF InPmem
    <3> QED BY <1>3, <2>1, <3>1, <3>2 DEF BusInStep
  <2> QED BY <2>3, <2>4
<1>5. CASE r_crt \in {"I_AR", "D_AR"} \/ (r_crt \in {"I_R", "D_R"} /\ ~rlast)
  <2>1. /\ r_crt' = IF r_crt \in {"I_AR", "I_R"} THEN "I_R" ELSE "D_R"
        /\ ~arready' /\ rvalid' /\ (rlast' <=> rcount = WordNum - 1)
        /\ rcount \in Words /\ rcount' = rcount + 1
        /\ rstate' = IF rcount = WordNum - 1 THEN 0 ELSE 1
        /\ UNCHANGED <<araddr, arlen>>
    BY <1>5, BusStep
  <2>2. /\ r_crt \in {"I_AR", "I_R"} => i_rvalid /\ araddr = i_raddr
        /\ r_crt \in {"D_AR", "D_R"} => d_rvalid
        /\ arlen = WordNum - 1 /\ InPmem(araddr) /\ araddr.word = 0
    BY <1>5 DEF IInv, BusInStep
  <2>3. ~(i_rready /\ i_rlast) /\ ~(d_rready /\ d_rlast)
    BY <1>5 DEF i_rready, i_rlast, d_rready, d_rlast
  <2>4. rcount' \in 1 .. WordNum /\ (rlast' <=> rcount' = WordNum) /\ (rlast' <=> rstate' = 0)
        /\ (~rlast' <=> rstate' = 1)
    BY <1>1, <2>1
  <2>5. InPmem(araddr)' /\ araddr'.word = 0 /\ arlen' = WordNum - 1
    BY <2>1, <2>2 DEF InPmem
  <2>6. /\ r_crt' = "I_R" => i_rvalid' /\ araddr' = i_raddr'
        /\ r_crt' = "D_R" => d_rvalid'
    BY <1>1, <1>3, <1>5, <2>1, <2>2, <2>3
  <2> QED BY <1>5, <2>1, <2>4, <2>5, <2>6 DEF BusInStep
<1>6. CASE r_crt \in {"I_R", "D_R"} /\ rlast
  <2>1. rstate = 0 /\ ~arready
    BY <1>6 DEF IInv, BusInStep
  <2> QED BY <1>6, <2>1, BusStep DEF BusInStep
<1> QED BY <1>1, <1>4, <1>5, <1>6

-----------------------------------------------------------------------------
(* The invariant *)

\* A fence writes words into lines of the program; lines it does not write to stay.
LEMMA WalkStep ==
  ASSUME TypeOK, Walk
  PROVE  /\ mem' \in [Tags -> [Sets -> Line]]
         /\ \A a \in Addr : a.tag \in Tags /\ ~Patched(a) => mem'[a.tag][a.set] = mem[a.tag][a.set]
<1>1. mem \in [Tags -> [Sets -> Line]]
  BY DEF TypeOK, PmemTypeOK
<1>2. CASE UNCHANGED mem
  BY <1>1, <1>2
<1>3. ASSUME NEW p \in Patches,
             mem' = [mem EXCEPT ![p.addr.tag][p.addr.set][p.addr.word] = p.inst]
      PROVE  /\ mem' \in [Tags -> [Sets -> Line]]
             /\ \A a \in Addr : a.tag \in Tags /\ ~Patched(a) => mem'[a.tag][a.set] = mem[a.tag][a.set]
  <2>1. p.addr.tag \in Tags /\ p.addr.set \in Sets /\ p.addr.word \in Words /\ p.inst \in Word
    BY IMemAssumption DEF Addr
  <2>2. mem' \in [Tags -> [Sets -> Line]]
    BY <1>1, <1>3, <2>1 DEF Line
  <2>3. ASSUME NEW a \in Addr, a.tag \in Tags, ~Patched(a)
        PROVE  mem'[a.tag][a.set] = mem[a.tag][a.set]
    <3>1. ~(p.addr.tag = a.tag /\ p.addr.set = a.set)
      BY <2>3 DEF Patched
    <3> QED BY <1>1, <1>3, <2>1, <2>3, <3>1 DEF Addr
  <2> QED BY <2>2, <2>3
<1> QED BY <1>2, <1>3 DEF Walk

\* The bus keeps its types.
LEMMA BusTyped ==
  ASSUME IInv, Cycle, i_raddr' \in Addr, i_raddr'.tag \in Tags
  PROVE  PmemTypeOK' /\ ArbiterTypeOK'
<1>1. /\ PmemTypeOK /\ ArbiterTypeOK /\ Walk /\ UNCHANGED <<writeVars, w_crt>>
      /\ ReadFsm(i_rvalid, d_rvalid)
      /\ PmemRead(arvalid', IF r_crt' = "I_AR" THEN i_raddr' ELSE NoAddr, WordNum - 1, 2, rready')
  BY DEF IInv, TypeOK, Cycle, Slave
<1>2. ArbiterTypeOK'
  BY <1>1 DEF ArbiterTypeOK, ReadFsm, GrantNone, GrantI, GrantD, ReadAddress, ReadData
<1>3. mem' \in [Tags -> [Sets -> Line]]
  BY <1>1, WalkStep DEF IInv
<1>4. /\ wstate' \in {0, 1, 2} /\ awaddr' \in Addr /\ wcount' \in 0 .. WordNum
      /\ awready' \in BOOLEAN /\ wready' \in BOOLEAN /\ bvalid' \in BOOLEAN
  BY <1>1 DEF PmemTypeOK, writeVars
<1>5. arsize' \in 0 .. 7
  BY <1>1 DEF PmemRead, ReadQuiet, ReadAccept, ReadBeat, PmemTypeOK
<1>6. BusInStep'
  BY BusInStepNext
<1>7. WordNum - 1 \in Words /\ 0 \in 0 .. WordNum /\ \A n \in Words : n + 1 \in 0 .. WordNum
  BY Defaults, GeometryAssumption DEF Words
<1>8. /\ rstate' \in {0, 1} /\ araddr' \in Addr /\ arlen' \in Words /\ rcount' \in 0 .. WordNum
      /\ rdata' \in Word /\ arready' \in BOOLEAN /\ rvalid' \in BOOLEAN /\ rlast' \in BOOLEAN
  <2>1. r_crt \in {"R_IDLE", "I_AR", "I_R", "D_AR", "D_R"}
    BY <1>1 DEF ArbiterTypeOK
  <2>2. CASE r_crt = "R_IDLE"
    <3>1. \/ UNCHANGED <<rstate, araddr, arlen, rcount, rdata>>
          \/ /\ rstate' = 1 /\ rcount' = 0 /\ UNCHANGED rdata /\ arlen' = WordNum - 1
             /\ araddr' = IF r_crt' = "I_AR" THEN i_raddr' ELSE NoAddr
      BY <2>2, BusStep
    <3>2. rlast' \in BOOLEAN /\ rvalid' \in BOOLEAN /\ arready' \in BOOLEAN
      BY <1>1 DEF PmemRead, ReadQuiet, ReadAccept, ReadBeat, PmemTypeOK
    <3> QED BY <1>1, <1>7, <3>1, <3>2, Defaults DEF PmemTypeOK
  <2>3. CASE r_crt \in {"I_AR", "D_AR"} \/ (r_crt \in {"I_R", "D_R"} /\ ~rlast)
    <3>1. /\ ~arready' /\ rvalid' /\ (rlast' <=> rcount = WordNum - 1)
          /\ rcount \in Words /\ rcount' = rcount + 1
          /\ rstate' = IF rcount = WordNum - 1 THEN 0 ELSE 1
          /\ rdata' = mem'[araddr.tag][araddr.set][rcount]
          /\ UNCHANGED <<araddr, arlen>>
      BY <2>3, BusStep
    <3>2. araddr \in Addr /\ araddr.tag \in Tags
      BY <1>1, <2>3 DEF PmemTypeOK, IInv, BusInStep, InPmem
    <3>3. rdata' \in Word
      BY <1>3, <3>1, <3>2 DEF Line, Addr
    <3>4. rlast' \in BOOLEAN /\ rvalid' \in BOOLEAN /\ arready' \in BOOLEAN
      BY <1>1 DEF PmemRead, ReadQuiet, ReadAccept, ReadBeat, PmemTypeOK
    <3> QED BY <1>1, <1>7, <3>1, <3>2, <3>3, <3>4 DEF PmemTypeOK
  <2>4. CASE r_crt \in {"I_R", "D_R"} /\ rlast
    <3>1. rlast' \in BOOLEAN /\ rvalid' \in BOOLEAN /\ arready' \in BOOLEAN
      BY <1>1 DEF PmemRead, ReadQuiet, ReadAccept, ReadBeat, PmemTypeOK
    <3> QED BY <1>1, <2>4, <3>1, BusStep DEF PmemTypeOK
  <2> QED BY <2>1, <2>2, <2>3, <2>4
<1> QED BY <1>2, <1>3, <1>4, <1>5, <1>8 DEF PmemTypeOK

\* The invariant holds at power-on ...
LEMMA InitIInv == Init => IInv
<1> SUFFICES ASSUME Init PROVE IInv
  OBVIOUS
<1> USE DEF Init
<1>1. /\ ZeroWord \in Word /\ WordNum \in Nat /\ WordNum > 0
      /\ 0 \in Words /\ 0 \in Ways /\ FALSE \in BOOLEAN /\ 0 \in Sets
  BY Defaults, GeometryAssumption DEF Ways
<1>2. PmemTypeOK
  <2>1. mem \in [Tags -> [Sets -> Line]] /\ NoAddr \in Addr /\ 0 \in 0 .. WordNum /\ 0 \in 0 .. 7
    BY <1>1, Defaults, IMemAssumption DEF PmemInit
  <2> QED BY <1>1, <2>1 DEF PmemInit, PmemTypeOK
<1>3. ArbiterTypeOK
  BY DEF ArbiterInit, ArbiterTypeOK
<1>4. ICacheTypeOK
  BY <1>1, Defaults DEF ICacheInit, ICacheTypeOK
<1>5. PipelineTypeOK /\ npc \in Addr /\ dmode \in {"free", "start", "read", "write"}
  BY Defaults, EmptySlot DEF PipelineInit, PipelineTypeOK
<1>6. InProgram
  BY Defaults, EmptySlot DEF InProgram, PipelineInit, ICacheInit
<1>7. BusInStep
  BY DEF BusInStep, ArbiterInit, PmemInit
<1> QED BY <1>2, <1>3, <1>4, <1>5, <1>6, <1>7 DEF IInv, TypeOK

\* ... and every cycle keeps it.
LEMMA NextIInv == IInv /\ [Next]_vars => IInv'
<1> SUFFICES ASSUME IInv, [Next]_vars PROVE IInv'
  OBVIOUS
<1>1. CASE UNCHANGED vars
  <2> USE <1>1 DEF vars, pmemVars, readVars, writeVars, arbiterVars, icacheVars, pipelineVars
  <2>1. PmemTypeOK' /\ ArbiterTypeOK'
    BY DEF IInv, TypeOK, PmemTypeOK, ArbiterTypeOK
  <2>2. ICacheTypeOK' /\ PipelineTypeOK'
    BY DEF IInv, TypeOK, ICacheTypeOK, PipelineTypeOK
  <2>3. InProgram' /\ dmode' \in {"free", "start", "read", "write"} /\ npc' \in Addr
    BY DEF IInv, TypeOK, InProgram
  <2>4. BusInStep'
    <3>1. i_raddr' = i_raddr
      BY DEF i_raddr
    <3> QED BY <3>1 DEF IInv, BusInStep, i_rvalid, d_rvalid, InPmem
  <2> QED BY <2>1, <2>2, <2>3, <2>4 DEF IInv, TypeOK
<1>2. CASE Cycle
  <2>1. TypeOK /\ InProgram /\ PipelineClock(dcache_miss) /\ DataCache /\ History
    BY <1>2 DEF IInv, Cycle
  <2>2. /\ PipelineTypeOK'
        /\ \A a \in {pc_if1', pc_if2', mepc'} : a.tag \in Tags
        /\ \A slot \in {id', ex', ls', wb'} : slot.pc.tag \in Tags /\ slot.target.tag \in Tags
    BY <2>1, PipelineTyped
  <2>3. ICacheTypeOK' /\ addr_pipe'.tag \in Tags
    BY <2>1, ICacheTyped DEF PipelineClock
  <2>4. i_raddr' \in Addr /\ i_raddr'.tag \in Tags
    <3>1. addr_pipe' \in Addr
      BY <2>3 DEF ICacheTypeOK
    <3> QED BY <2>3, <3>1, Defaults DEF i_raddr, LineBase, Addr
  <2>5. PmemTypeOK' /\ ArbiterTypeOK' /\ BusInStep'
    BY <1>2, <2>4, BusTyped, BusInStepNext
  <2>6. dmode' \in {"free", "start", "read", "write"}
    BY <2>1 DEF DataCache
  <2>7. npc' \in Addr /\ npc'.tag \in Tags
    <3>1. wb \in Slot /\ wb.pc.tag \in Tags /\ wb.target.tag \in Tags
      BY <2>1, Typed
    <3>2. wb.pc \in Addr /\ wb.target \in Addr
      BY <3>1 DEF Slot
    <3>3. successor \in Addr /\ successor.tag \in Tags
      BY <2>1, <3>1, <3>2, Typed, Defaults, FollowingTyped DEF successor
    <3> QED BY <2>1, <3>3, Typed DEF History
  <2>8. InProgram'
    BY <2>2, <2>3, <2>7 DEF InProgram
  <2> QED BY <2>2, <2>3, <2>5, <2>6, <2>7, <2>8 DEF IInv, TypeOK
<1> QED BY <1>1, <1>2 DEF Next

\* Pipeline, instruction cache, arbiter and slave keep their types; the arrays of
\* the cache only ever hold lines, the program counter only ever points into the
\* memory (Pipeline.PipelineClock, ICache.ICacheClock, Pmem.PmemRead).
THEOREM TypeCorrect == Spec => []TypeOK
<1>1. IInv => TypeOK
  BY DEF IInv
<1> QED BY <1>1, InitIInv, NextIInv, PTL DEF Spec

\* The address register of the cache (ICache.sv, addr_pipe) is written only when
\* no line is being waited for, so the request the arbiter sees stays until its
\* last beat, whatever flushes the pipeline meanwhile.
THEOREM FetchesHeld == Spec => FetchHeld
<1>1. IInv /\ [Next]_vars =>
        [i_rvalid /\ ~(i_rready /\ i_rlast) => i_rvalid' /\ i_raddr' = i_raddr]_vars
  BY RequestsHeld DEF Next, IInv, i_raddr
<1> QED BY <1>1, InitIInv, NextIInv, PTL DEF Spec, FetchHeld

-----------------------------------------------------------------------------
(* The order of the program *)

\* Where the program goes on, by the kind of the instruction.
LEMMA AfterValue ==
  ASSUME NEW slot, slot.taken => slot.inst \in Branch
  PROVE  /\ slot.inst \in Ecall => after(slot) = TrapVector
         /\ slot.inst \in Mret => after(slot) = mepc
         /\ slot.taken => after(slot) = slot.target
         /\ slot.inst \notin Ecall /\ slot.inst \notin Mret /\ ~slot.taken =>
              after(slot) = Following(slot.pc)
<1>1. slot.inst \in Ecall => slot.inst \notin Mret /\ ~slot.taken
  BY PipelineAssumption
<1>2. slot.inst \in Mret => slot.inst \notin Ecall /\ ~slot.taken
  BY PipelineAssumption
<1> QED BY <1>1, <1>2 DEF after

\* It depends on the word, on the address, on the branch and on mepc.
LEMMA AfterSame ==
  ASSUME NEW slot, NEW new,
         new.inst = slot.inst, new.pc = slot.pc, new.taken = slot.taken, new.target = slot.target
  PROVE  after(new) = after(slot)
BY Zenon DEF after

\* What the signals of the hazard unit say of the slots.
LEMMA Hazards ==
  ASSUME IInv, Decoded
  PROVE  /\ jump => ~flush_by_priv_ex /\ ~load_use /\ ex.commit /\ ex.inst \notin Ecall \cup Mret
         /\ load_use => ex.commit /\ wb.inst \notin Priv
         /\ flush_by_priv_ex => ~jump /\ ex.commit /\ ls.inst \notin Priv /\ wb.inst \notin Priv
         /\ wb.inst \in Priv => ~dcache_miss /\ ~ex.commit /\ ~ls.commit /\ ~id.commit
         /\ ls.inst \in Priv => ls.commit /\ ~ex.commit /\ ~id.commit /\ ~commit_if2
         /\ flush_by_exp => wb.inst \in Priv /\ wb.commit
<1>1. /\ ~ex.commit => ex.inst = Nop
      /\ ~ls.commit => ls.inst = Nop
      /\ ex.taken => ex.inst \in Branch
      /\ ex.dep => ex.inst \in Load
      /\ dmode # "free" => ls.inst \in Load \cup Store \cup Fence
      /\ wb.inst \in Priv => wb.commit /\ IsBubble(ls) /\ IsBubble(ex) /\ IsBubble(id)
      /\ ls.inst \in Priv => IsBubble(ex) /\ IsBubble(id) /\ ~commit_if2
  BY DEF Decoded
<1>2. \A inst : inst \in Branch => inst \notin Load /\ inst \notin Priv
  BY PipelineAssumption DEF Priv
<1>3. Ecall \subseteq Priv /\ Mret \subseteq Priv
  BY DEF Priv
<1> QED BY <1>1, <1>2, <1>3, NopPlain
       DEF jump, flush_by_priv_ex, load_use, flush_by_exp, IsBubble, dcache_miss

\* With a fetch in the request buffer the cache takes the next one exactly when
\* IF1 moves on.
LEMMA FetchMoves ==
  ASSUME IInv, rvalid_pipe
  PROVE  req_buf_we(stall_id(dcache_miss)) <=> ~stall_if1(dcache_miss)
<1>1. i_state \in {"IDLE", "MISS", "REFILL"}
  BY DEF IInv, TypeOK, ICacheTypeOK
<1> QED BY <1>1 DEF req_buf_we, stall_if1, icache_miss

\* The first cycle: nothing stalls.
LEMMA FirstCycle ==
  ASSUME Starting, ~rvalid_pipe
  PROVE  /\ ~stall_if1(dcache_miss) /\ req_buf_we(stall_id(dcache_miss)) /\ ~icache_miss
         /\ ~flush_buf /\ ~commit_if2 /\ ~jump /\ ~load_use /\ ~flush_by_priv_ex
BY EmptySlot, NopPlain
   DEF Starting, stall_if1, stall_id, icache_miss, req_buf_we, dcache_miss, load_use, jump,
       flush_by_priv_ex

LEMMA PairedStep ==
  ASSUME IInv, OInv, Cycle
  PROVE  Starting' /\ Paired'
<1> DEFINE stall == stall_id(dcache_miss)
<1>1. /\ RequestBuffer(pc_if1, stall) /\ FlushBuffer(stall, pc_set) /\ Fetch(dcache_miss)
      /\ Starting /\ Paired
  BY DEF Cycle, PipelineClock, ICacheClock, OInv
<1>2. rvalid_pipe \in BOOLEAN /\ flush_buf \in BOOLEAN /\ commit_if2 \in BOOLEAN
  BY Typed DEF IInv, TypeOK, ICacheTypeOK
<1> HIDE DEF stall
<1>3. rvalid_pipe' = TRUE
  <2>1. ~rvalid_pipe => req_buf_we(stall)
    BY <1>1, FirstCycle DEF stall
  <2> QED BY <1>1, <1>2, <2>1 DEF RequestBuffer
<1>4. req_buf_we(stall) <=> ~stall_if1(dcache_miss)
  BY <1>1, FetchMoves, FirstCycle DEF stall
<1>5. rvalid_pipe => (commit_if2 <=> ~flush_buf)
  BY <1>1 DEF Paired
<1>6. ~rvalid_pipe => ~stall_if1(dcache_miss) /\ ~flush_buf
  BY <1>1, FirstCycle
<1>7. /\ commit_if2' <=> ~pc_set /\ (stall_if1(dcache_miss) => commit_if2)
      /\ flush_buf' <=> pc_set \/ (flush_buf /\ stall_if1(dcache_miss))
  BY <1>1, <1>2, <1>4 DEF Fetch, FlushBuffer
<1>8. commit_if2' <=> ~flush_buf'
  BY <1>5, <1>6, <1>7
<1>9. commit_if2' => addr_pipe' = pc_if2'
  <2>1. CASE stall_if1(dcache_miss)
    BY <1>1, <1>4, <1>7, <2>1 DEF Fetch, RequestBuffer, Paired
  <2>2. CASE ~stall_if1(dcache_miss)
    BY <1>1, <1>4, <1>7, <2>2 DEF Fetch, RequestBuffer
  <2> QED BY <2>1, <2>2
<1> QED BY <1>3, <1>8, <1>9 DEF Starting, Paired

\* A fetch that was flushed is a nop.
LEMMA FlushedIsNop ==
  ASSUME IInv, Starting, Paired, ~commit_if2
  PROVE  inst_if2(pc_set) = Nop
<1>1. CASE rvalid_pipe
  BY <1>1 DEF Paired, inst_if2
<1>2. CASE ~rvalid_pipe
  <2>1. i_state = "IDLE" /\ i_data = [w \in Ways |-> [s \in Sets |-> NopLine]]
    BY <1>2 DEF Starting
  <2>2. i_hit_way \in Ways /\ i_rd_index \in Sets /\ addr_pipe.word \in Words
    BY Typed DEF IInv, TypeOK, ICacheTypeOK
  <2>3. i_data[i_hit_way][i_rd_index][addr_pipe.word] = Nop
    BY <2>1, <2>2 DEF NopLine
  <2> QED BY <2>1, <2>3 DEF inst_if2
<1> QED BY <1>1, <1>2

\* What a cycle does to the slots, by what flushes and what stalls.
LEMMA SlotsStep ==
  ASSUME IInv, OInv, Cycle
  PROVE  /\ flush_by_exp => id' = Empty /\ ex' = Empty /\ ls' = Empty /\ wb' = Empty
         /\ ~flush_by_exp /\ dcache_miss =>
              /\ ex' = ex /\ ls' = ls /\ wb' = [wb EXCEPT !.commit = FALSE]
              /\ id' = IF flush_by_priv_ex THEN Empty ELSE id
         /\ ~flush_by_exp /\ ~dcache_miss =>
              /\ ls' = [ex EXCEPT !.dep = FALSE] /\ wb' = ls
              /\ jump \/ flush_by_priv_ex => ex' = Empty /\ id' = Empty
              /\ ~jump /\ ~flush_by_priv_ex /\ load_use => ex' = Empty /\ id' = id
              /\ ~jump /\ ~flush_by_priv_ex /\ ~load_use =>
                   /\ Executed(id, ex')
                   /\ id' = IF icache_miss THEN Empty
                            ELSE Fetched(pc_if2, inst_if2(pc_set), commit_if2)
<1>1. Decode(dcache_miss) /\ Execute(dcache_miss) /\ Retire(dcache_miss)
  BY DEF Cycle, PipelineClock
<1>2. jump => ~load_use
  BY Hazards DEF OInv
<1>3. flush_by_exp => ~dcache_miss
  BY Hazards DEF OInv
<1>4. ls' = IF flush_by_exp THEN Empty ELSE IF dcache_miss THEN ls ELSE [ex EXCEPT !.dep = FALSE]
  BY <1>1, Zenon DEF Retire
<1>5. wb' = IF flush_by_exp THEN Empty
            ELSE IF dcache_miss THEN [wb EXCEPT !.commit = FALSE] ELSE ls
  BY <1>1, Zenon DEF Retire
<1>6. id' = IF ((jump \/ icache_miss) /\ ~(load_use \/ dcache_miss))
                 \/ flush_by_priv_ex \/ flush_by_exp THEN Empty
            ELSE IF load_use \/ dcache_miss THEN id
            ELSE Fetched(pc_if2, inst_if2(pc_set), commit_if2)
  BY <1>1, Zenon DEF Decode, IF2_ID_flush, stall_id
<1>7. IF ((jump \/ load_use \/ flush_by_priv_ex) /\ ~dcache_miss) \/ flush_by_exp THEN ex' = Empty
      ELSE IF dcache_miss THEN ex' = ex
      ELSE Executed(id, ex')
  BY <1>1, Zenon DEF Execute, ID_EX_flush
<1> HIDE DEF jump, load_use, flush_by_priv_ex, flush_by_exp, dcache_miss
<1> QED BY <1>2, <1>3, <1>4, <1>5, <1>6, <1>7

\* ... and to the fetch.
LEMMA FetchStep ==
  ASSUME IInv, OInv, Cycle
  PROVE  /\ pc_set => ~commit_if2' /\ pc_if1' = pc_target
         /\ ~pc_set /\ stall_if1(dcache_miss) => UNCHANGED <<pc_if1, pc_if2, commit_if2>>
         /\ ~pc_set /\ ~stall_if1(dcache_miss) =>
              commit_if2' /\ pc_if2' = pc_if1 /\ pc_if1' = Following(pc_if1)
<1>1. Fetch(dcache_miss) /\ commit_if2 \in BOOLEAN
  BY Typed DEF IInv, Cycle, PipelineClock
<1> QED BY <1>1 DEF Fetch

\* The slots of the next cycle, one field at a time.
LEMMA HeldFields ==
  ASSUME IInv
  PROVE  LET held == [ex EXCEPT !.dep = FALSE]
             old  == [wb EXCEPT !.commit = FALSE]
         IN  /\ held.pc = ex.pc /\ held.inst = ex.inst /\ held.commit = ex.commit
             /\ held.taken = ex.taken /\ held.target = ex.target
             /\ old.commit = FALSE /\ old.inst = wb.inst /\ old.pc = wb.pc
             /\ old.taken = wb.taken /\ old.target = wb.target
<1>1. ex \in Slot /\ wb \in Slot
  BY Typed DEF IInv
<1> QED BY <1>1 DEF Slot

LEMMA DecodedStep ==
  ASSUME IInv, OInv, Cycle
  PROVE  Decoded'
<1> DEFINE next == Fetched(pc_if2, inst_if2(pc_set), commit_if2)
           held == [ex EXCEPT !.dep = FALSE]
           old  == [wb EXCEPT !.commit = FALSE]
<1>1. /\ Decoded /\ Starting /\ Paired
      /\ id \in Slot
  BY Typed DEF OInv, IInv
<1>2. /\ held.inst = ex.inst /\ held.commit = ex.commit /\ held.taken = ex.taken
      /\ old.inst = wb.inst /\ old.taken = wb.taken
  BY HeldFields
<1>3. /\ ~next.commit => next.inst = Nop
      /\ next.commit = commit_if2 /\ ~next.taken /\ ~next.dep
  <2>1. ~commit_if2 => inst_if2(pc_set) = Nop
    BY <1>1, FlushedIsNop
  <2>2. next.commit = commit_if2 /\ next.inst = inst_if2(pc_set) /\ next.taken = FALSE /\ next.dep = FALSE
    BY DEF Fetched
  <2> QED BY <2>1, <2>2
<1>4. /\ ~jump /\ ~flush_by_priv_ex /\ ~load_use /\ ~dcache_miss /\ ~flush_by_exp =>
           /\ ex'.pc = id.pc /\ ex'.inst = id.inst /\ ex'.commit = id.commit
           /\ ex'.taken => ex'.inst \in Branch
           /\ ex'.dep => ex'.inst \in Load
  BY <1>1, SlotsStep, ExecutedTyped
<1>5. /\ Empty.inst = Nop /\ Empty.commit = FALSE /\ Empty.taken = FALSE /\ Empty.dep = FALSE
  BY EmptySlot
<1>6. /\ ~id.commit => id.inst = Nop
      /\ ~ex.commit => ex.inst = Nop
      /\ ~ls.commit => ls.inst = Nop
      /\ ~id.taken /\ ~id.dep
      /\ ex.taken => ex.inst \in Branch
      /\ ls.taken => ls.inst \in Branch
      /\ wb.taken => wb.inst \in Branch
      /\ ex.dep => ex.inst \in Load
  BY <1>1 DEF Decoded
<1>7. /\ id' \in {Empty, id, next}
      /\ ls' \in {Empty, ls, held} /\ wb' \in {Empty, old, ls}
      /\ ex' \in {Empty, ex} \/ (~jump /\ ~flush_by_priv_ex /\ ~load_use /\ ~dcache_miss /\ ~flush_by_exp)
  <2> HIDE DEF next, held, old
  <2>1. CASE flush_by_exp
    BY <2>1, SlotsStep
  <2>2. CASE ~flush_by_exp /\ dcache_miss
    BY <2>2, SlotsStep DEF old
  <2>3. CASE ~flush_by_exp /\ ~dcache_miss
    BY <2>3, SlotsStep DEF held, next
  <2> QED BY <2>1, <2>2, <2>3
<1> HIDE DEF next, held, old
<1>8. /\ ~id'.commit => id'.inst = Nop
      /\ ~id'.taken /\ ~id'.dep
  BY <1>3, <1>5, <1>6, <1>7
<1>9. /\ ~ex'.commit => ex'.inst = Nop
      /\ ex'.taken => ex'.inst \in Branch
      /\ ex'.dep => ex'.inst \in Load
  BY <1>4, <1>5, <1>6, <1>7
<1>10. /\ ~ls'.commit => ls'.inst = Nop
       /\ ls'.taken => ls'.inst \in Branch
       /\ wb'.taken => wb'.inst \in Branch
  BY <1>2, <1>5, <1>6, <1>7
<1>11. dmode' # "free" => ls'.inst \in Load \cup Store \cup Fence
  <2>1. CASE dmode = "free"
    <3> SUFFICES ASSUME dmode' # "free" PROVE ls'.inst \in Load \cup Store \cup Fence
      OBVIOUS
    <3>1. DataCache
      BY DEF Cycle
    <3>2. ex.inst \in Load \cup Store \cup Fence
      BY <2>1, <3>1 DEF DataCache
    <3>3. ex.inst # Nop
      BY <3>2, NopPlain
    <3>4. ~flush_by_exp
      BY <1>1, <1>6, <3>3, Hazards
    <3>5. ls' = held
      BY <2>1, <3>4, SlotsStep DEF held, dcache_miss
    <3> QED BY <1>2, <3>2, <3>5
  <2>2. CASE dmode # "free"
    <3>1. dcache_miss /\ ~flush_by_exp
      BY <1>1, <2>2, Hazards DEF dcache_miss
    <3>2. ls' = ls
      BY <3>1, SlotsStep
    <3> QED BY <1>1, <2>2, <3>2 DEF Decoded
  <2> QED BY <2>1, <2>2
<1>12. ASSUME wb'.inst \in Priv
       PROVE  wb'.commit /\ IsBubble(ls)' /\ IsBubble(ex)' /\ IsBubble(id)'
  <2>1. ~flush_by_exp
    BY <1>5, <1>12, NopPlain, SlotsStep
  <2>2. ~dcache_miss
    <3> SUFFICES ASSUME dcache_miss PROVE FALSE
      OBVIOUS
    <3>1. wb' = old
      BY <2>1, SlotsStep DEF old
    <3> QED BY <1>1, <1>2, <1>12, <3>1, Hazards
  <2>3. wb' = ls /\ ls' = held
    BY <2>1, <2>2, SlotsStep DEF held
  <2>4. ls.inst \in Priv /\ ls.commit /\ ~ex.commit /\ ~id.commit /\ ~commit_if2
    BY <1>1, <1>12, <2>3, Hazards
  <2>5. wb'.commit /\ ls'.inst = Nop /\ ~ls'.commit
    BY <1>2, <1>6, <2>3, <2>4
  <2>6. id'.inst = Nop /\ ~id'.commit
    BY <1>3, <1>5, <1>6, <1>7, <2>4
  <2>7. ex'.inst = Nop /\ ~ex'.commit
    BY <1>4, <1>5, <1>6, <1>7, <2>4
  <2> QED BY <2>5, <2>6, <2>7 DEF IsBubble
<1>13. ASSUME ls'.inst \in Priv
       PROVE  IsBubble(ex)' /\ IsBubble(id)' /\ ~commit_if2'
  <2>1. ~flush_by_exp
    BY <1>5, <1>13, NopPlain, SlotsStep
  <2>2. CASE dcache_miss
    <3>1. ls' = ls /\ ex' = ex /\ id' \in {Empty, id}
      BY <2>1, <2>2, SlotsStep
    <3>2. ~ex.commit /\ ~id.commit /\ ~commit_if2
      BY <1>1, <1>13, <3>1, Hazards
    <3>3. ~commit_if2'
      <4>1. stall_if1(dcache_miss)
        BY <2>2 DEF stall_if1, stall_id
      <4> QED BY <3>2, <4>1, FetchStep
    <3> QED BY <1>5, <1>6, <3>1, <3>2, <3>3 DEF IsBubble
  <2>3. CASE ~dcache_miss
    <3>1. ls' = held
      BY <2>1, <2>3, SlotsStep DEF held
    <3>2. flush_by_priv_ex
      BY <1>2, <1>13, <3>1 DEF flush_by_priv_ex
    <3>3. ex' = Empty /\ id' = Empty
      BY <2>1, <2>3, <3>2, SlotsStep
    <3>4. ~commit_if2'
      BY <3>2, FetchStep DEF pc_set
    <3> QED BY <1>5, <3>3, <3>4 DEF IsBubble
  <2> QED BY <2>2, <2>3
<1> QED BY <1>8, <1>9, <1>10, <1>11, <1>12, <1>13 DEF Decoded

\* WB hands on where the program goes, and what is before it moves up.
LEMMA BehindStep ==
  ASSUME IInv, OInv, Cycle
  PROVE  /\ npc' = behind_wb
         /\ mepc' # mepc => wb.inst \in Priv
         /\ flush_by_exp \/ dcache_miss => behind_wb' = behind_wb
         /\ ~flush_by_exp /\ ~dcache_miss => behind_wb' = behind_ls
         /\ dcache_miss => behind_ls' = behind_ls
         /\ ~flush_by_exp /\ ~dcache_miss => behind_ls' = behind_ex
<1> DEFINE held == [ex EXCEPT !.dep = FALSE]
           old  == [wb EXCEPT !.commit = FALSE]
<1>1. Decoded /\ History /\ Trap
  BY DEF OInv, Cycle, PipelineClock
<1>2. npc' = behind_wb
  BY <1>1 DEF History, behind_wb, successor, after
<1>3. mepc' # mepc => wb.inst \in Priv
  BY <1>1 DEF Trap, Priv, flush_by_exp
<1>4. /\ held.pc = ex.pc /\ held.inst = ex.inst /\ held.commit = ex.commit
      /\ held.taken = ex.taken /\ held.target = ex.target /\ old.commit = FALSE
      /\ Empty.commit = FALSE
  BY HeldFields, EmptySlot
<1> HIDE DEF held, old
<1>6. CASE flush_by_exp
  <2>1. wb' = Empty
    BY <1>6, SlotsStep
  <2> QED BY <1>1, <1>2, <1>3, <1>4, <1>6, <2>1, Hazards DEF behind_wb
<1>7. CASE ~flush_by_exp /\ dcache_miss
  <2>1. wb' = old /\ ls' = ls
    BY <1>7, SlotsStep DEF old
  <2>2. mepc' = mepc
    BY <1>1, <1>3, <1>7, Hazards
  <2>3. behind_wb' = behind_wb
    BY <1>2, <1>4, <2>1 DEF behind_wb
  <2>4. after(ls)' = after(ls)
    BY <2>1, <2>2, Zenon DEF after
  <2>5. behind_ls' = behind_ls
    BY <2>1, <2>3, <2>4 DEF behind_ls
  <2> QED BY <1>2, <1>3, <1>7, <2>3, <2>5
<1>8. CASE ~flush_by_exp /\ ~dcache_miss
  <2>1. wb' = ls /\ ls' = held
    BY <1>8, SlotsStep DEF held
  <2>2. ls.commit \/ ex.commit => mepc' = mepc
    BY <1>1, <1>3, Hazards
  <2>3. ls.commit => after(wb)' = after(ls)
    BY <2>1, <2>2, Zenon DEF after
  <2>4. behind_wb' = behind_ls
    BY <1>2, <2>1, <2>3 DEF behind_wb, behind_ls
  <2>5. ex.commit => after(ls)' = after(ex)
    <3>1. ex.commit => ls'.inst = ex.inst /\ ls'.pc = ex.pc /\ ls'.taken = ex.taken
                       /\ ls'.target = ex.target /\ mepc' = mepc
      BY <1>4, <2>1, <2>2
    <3> QED BY <3>1, Zenon DEF after
  <2>6. behind_ls' = behind_ex
    BY <1>4, <2>1, <2>4, <2>5 DEF behind_ls, behind_ex
  <2> QED BY <1>2, <1>3, <1>8, <2>4, <2>6
<1> QED BY <1>6, <1>7, <1>8

LEMMA OrderedStep ==
  ASSUME IInv, OInv, Cycle
  PROVE  Ordered'
<1> DEFINE held == [ex EXCEPT !.dep = FALSE]
           old  == [wb EXCEPT !.commit = FALSE]
           next == Fetched(pc_if2, inst_if2(pc_set), commit_if2)
<1>1. Decoded /\ Ordered
  BY DEF OInv
<1>2. /\ held.pc = ex.pc /\ held.inst = ex.inst /\ held.commit = ex.commit
      /\ old.commit = FALSE /\ old.inst = wb.inst
      /\ Empty.commit = FALSE /\ Empty.inst = Nop /\ Empty.taken = FALSE
  BY HeldFields, EmptySlot
<1>0. next.pc = pc_if2 /\ next.commit = commit_if2
  BY DEF Fetched
<1>3. Nop \notin Priv /\ Ecall \subseteq Priv /\ Mret \subseteq Priv
  BY NopPlain DEF Priv
<1>4. id \in Slot /\ ex \in Slot
  BY Typed DEF IInv
<1>5. /\ wb.commit => wb.pc = npc
      /\ ls.commit => ls.pc = behind_wb
      /\ ex.commit => ex.pc = behind_ls
  BY <1>1 DEF Ordered
<1>6. ~Redirected =>
        /\ id.commit => id.pc = behind_ex
        /\ commit_if2 => pc_if2 = behind_id
        /\ pc_if1 = behind_if2
  BY <1>1 DEF Ordered
<1> HIDE DEF held, old, next
<1>7. wb'.commit => wb'.pc = npc'
  <2>1. CASE flush_by_exp
    BY <1>2, <2>1, SlotsStep
  <2>2. CASE ~flush_by_exp /\ dcache_miss
    BY <1>2, <2>2, SlotsStep DEF old
  <2>3. CASE ~flush_by_exp /\ ~dcache_miss
    BY <1>5, <2>3, SlotsStep, BehindStep
  <2> QED BY <2>1, <2>2, <2>3
<1>8. ls'.commit => ls'.pc = behind_wb'
  <2>1. CASE flush_by_exp
    BY <1>2, <2>1, SlotsStep
  <2>2. CASE ~flush_by_exp /\ dcache_miss
    BY <1>5, <2>2, SlotsStep, BehindStep
  <2>3. CASE ~flush_by_exp /\ ~dcache_miss
    <3>1. ls' = held
      BY <2>3, SlotsStep DEF held
    <3> QED BY <1>2, <1>5, <2>3, <3>1, BehindStep
  <2> QED BY <2>1, <2>2, <2>3
<1>9. CASE flush_by_exp
  <2>1. id' = Empty /\ ex' = Empty /\ ls' = Empty /\ wb' = Empty
    BY <1>9, SlotsStep
  <2>2. ~commit_if2' /\ pc_if1' = TrapVector
    BY <1>9, FetchStep DEF pc_set, pc_target
  <2>3. behind_if2' = npc'
    BY <1>2, <2>1, <2>2 DEF behind_if2, behind_id, behind_ex, behind_ls, behind_wb
  <2>4. npc' = TrapVector
    <3>1. wb.commit /\ wb.inst \in Ecall /\ (wb.taken => wb.inst \in Branch)
      BY <1>1, <1>9, Hazards DEF flush_by_exp, Decoded
    <3> QED BY <3>1, AfterValue, BehindStep DEF behind_wb
  <2> QED BY <1>2, <1>7, <1>8, <2>1, <2>2, <2>3, <2>4 DEF Ordered
<1>10. CASE ~flush_by_exp /\ dcache_miss
  <2>1. /\ ex' = ex /\ ls' = ls /\ wb' = [wb EXCEPT !.commit = FALSE]
        /\ id' = IF flush_by_priv_ex THEN Empty ELSE id
    BY <1>10, SlotsStep
  <2>2. mepc' = mepc /\ behind_ls' = behind_ls
    BY <1>1, <1>10, Hazards, BehindStep
  <2>3. behind_ex' = behind_ex
    <3>1. after(ex)' = after(ex)
      BY <2>1, <2>2, Zenon DEF after
    <3> QED BY <2>1, <2>2, <3>1 DEF behind_ex
  <2>4. ~Redirected' => ~Redirected /\ ~pc_set
    BY <1>10, <2>1 DEF Redirected, jump, flush_by_priv_ex, flush_by_exp, pc_set
  <2>5. ~Redirected' => /\ id' = id /\ UNCHANGED <<pc_if1, pc_if2, commit_if2>>
    BY <1>10, <2>1, <2>4, FetchStep DEF pc_set, stall_if1, stall_id
  <2>6. ~Redirected' => behind_id' = behind_id /\ behind_if2' = behind_if2
    BY <2>3, <2>5 DEF behind_id, behind_if2
  <2>7. ex'.commit => ex'.pc = behind_ls'
    BY <1>5, <2>1, <2>2
  <2> QED BY <1>6, <1>7, <1>8, <2>3, <2>4, <2>5, <2>6, <2>7 DEF Ordered
<1>11. CASE ~flush_by_exp /\ ~dcache_miss /\ (jump \/ flush_by_priv_ex)
  <2>1. ls' = held /\ wb' = ls /\ ex' = Empty /\ id' = Empty
    BY <1>11, SlotsStep DEF held
  <2>2. ~commit_if2' /\ pc_if1' = pc_target
    BY <1>11, FetchStep DEF pc_set
  <2>3. behind_if2' = behind_ex
    BY <1>2, <1>11, <2>1, <2>2, BehindStep DEF behind_if2, behind_id, behind_ex
  <2>4. ex.commit /\ (ex.taken => ex.inst \in Branch)
    BY <1>1, <1>11, Hazards DEF Decoded
  <2>5. ~Redirected' => pc_target = after(ex)
    <3>1. ~Redirected' => ex.inst \notin Ecall
      BY <1>2, <2>1 DEF Redirected
    <3>2. CASE flush_by_priv_ex
      <4>1. ~ex.taken
        BY <1>1, <3>2, Hazards DEF jump
      <4> QED BY <1>11, <2>4, <3>1, <3>2, <4>1, AfterValue DEF pc_target
    <3>3. CASE jump /\ ~flush_by_priv_ex
      BY <1>11, <2>4, <3>3, AfterValue DEF pc_target, jump
    <3> QED BY <1>11, <3>2, <3>3
  <2> QED BY <1>2, <1>7, <1>8, <2>1, <2>2, <2>3, <2>4, <2>5 DEF Ordered, behind_ex
<1>12. CASE ~flush_by_exp /\ ~dcache_miss /\ ~jump /\ ~flush_by_priv_ex /\ load_use
  <2>1. ls' = held /\ wb' = ls /\ ex' = Empty /\ id' = id
    BY <1>12, SlotsStep DEF held
  <2>2. UNCHANGED <<pc_if1, pc_if2, commit_if2>>
    BY <1>12, FetchStep DEF pc_set, stall_if1, stall_id
  <2>3. behind_ex' = behind_ex
    BY <1>2, <1>12, <2>1, BehindStep DEF behind_ex
  <2>4. behind_id' = behind_id /\ behind_if2' = behind_if2
    BY <2>1, <2>2, <2>3 DEF behind_id, behind_if2
  <2>5. ~Redirected' => ~Redirected
    BY <1>12, <2>1 DEF Redirected, flush_by_exp
  <2> QED BY <1>2, <1>6, <1>7, <1>8, <2>1, <2>2, <2>3, <2>4, <2>5 DEF Ordered
<1>13. CASE ~flush_by_exp /\ ~dcache_miss /\ ~jump /\ ~flush_by_priv_ex /\ ~load_use
  <2>1. /\ ls' = held /\ wb' = ls
        /\ id' = IF icache_miss THEN Empty ELSE next
    BY <1>13, SlotsStep DEF held, next
  <2>2. ex'.pc = id.pc /\ ex'.inst = id.inst /\ ex'.commit = id.commit
    <3>1. Executed(id, ex')
      BY <1>13, SlotsStep
    <3> QED BY <1>4, <3>1, ExecutedTyped
  <2>3. ~pc_set /\ (stall_if1(dcache_miss) <=> icache_miss)
    BY <1>13 DEF pc_set, stall_if1, stall_id
  <2>4. behind_ls' = behind_ex
    BY <1>13, BehindStep
  <2>5. ex'.commit => ex'.pc = behind_ls'
    <3>1. id.commit => ~Redirected
      BY <1>1, <1>3, <1>13, Hazards DEF Redirected
    <3> QED BY <1>6, <2>2, <2>4, <3>1
  <2>6. SUFFICES ASSUME ~Redirected'
                 PROVE  /\ id'.commit => id'.pc = behind_ex'
                        /\ commit_if2' => pc_if2' = behind_id'
                        /\ pc_if1' = behind_if2'
    BY <1>7, <1>8, <2>5 DEF Ordered
  <2>7. ~Redirected
    BY <1>13, <2>1, <2>6 DEF Redirected, flush_by_exp
  <2>8. behind_ex' = behind_id
    <3>1. ~ex'.taken /\ ex'.inst \notin Ecall /\ ex'.inst \notin Mret
      BY <1>3, <2>6 DEF Redirected, jump, flush_by_priv_ex
    <3>2. after(ex)' = Following(ex'.pc)
      BY <3>1 DEF after
    <3> QED BY <2>2, <2>4, <3>2 DEF behind_ex, behind_id
  <2>9. CASE icache_miss
    <3>1. id' = Empty /\ UNCHANGED <<pc_if1, pc_if2, commit_if2>>
      BY <2>1, <2>3, <2>9, FetchStep
    <3>2. behind_id' = behind_id /\ behind_if2' = behind_if2
      BY <1>2, <2>8, <3>1 DEF behind_id, behind_if2
    <3> QED BY <1>2, <1>6, <2>7, <3>1, <3>2
  <2>10. CASE ~icache_miss
    <3>1. id' = next /\ commit_if2' /\ pc_if2' = pc_if1 /\ pc_if1' = Following(pc_if1)
      BY <2>1, <2>3, <2>10, FetchStep
    <3>2. behind_id' = behind_if2
      BY <1>0, <2>8, <3>1 DEF behind_id, behind_if2
    <3>3. behind_if2' = Following(pc_if1)
      BY <3>1 DEF behind_if2
    <3> QED BY <1>0, <1>6, <2>7, <2>8, <3>1, <3>2, <3>3
  <2> QED BY <2>9, <2>10
<1> QED BY <1>9, <1>10, <1>11, <1>12, <1>13

\* The order of the program holds at power-on ...
LEMMA InitOInv == Init => OInv
<1> SUFFICES ASSUME Init PROVE OInv
  OBVIOUS
<1>1. /\ id = Empty /\ ex = Empty /\ ls = Empty /\ wb = Empty /\ commit_if2 = FALSE
      /\ pc_if1 = ResetPc /\ npc = ResetPc /\ dmode = "free"
  BY DEF Init, PipelineInit
<1>2. /\ i_state = "IDLE" /\ flush_buf = FALSE /\ rvalid_pipe = FALSE
      /\ i_data = [w \in Ways |-> [s \in Sets |-> NopLine]]
  BY DEF Init, ICacheInit
<1>3. Starting /\ Paired
  BY <1>1, <1>2 DEF Starting, Paired
<1>4. Decoded
  BY <1>1, EmptySlot, NopPlain DEF Decoded
<1>5. Ordered
  BY <1>1, EmptySlot DEF Ordered, behind_if2, behind_id, behind_ex, behind_ls, behind_wb
<1> QED BY <1>3, <1>4, <1>5 DEF OInv

\* ... and every cycle keeps it.
LEMMA NextOInv == IInv /\ OInv /\ [Next]_vars => OInv'
<1> SUFFICES ASSUME IInv, OInv, [Next]_vars PROVE OInv'
  OBVIOUS
<1>1. CASE UNCHANGED vars
  <2> USE <1>1 DEF vars, icacheVars, pipelineVars
  <2>1. Starting' /\ Paired'
    BY DEF OInv, Starting, Paired
  <2>2. Decoded'
    BY DEF OInv, Decoded, IsBubble
  <2>3. after(ex)' = after(ex) /\ after(ls)' = after(ls) /\ after(wb)' = after(wb)
    BY Zenon DEF after
  <2>4. /\ behind_wb' = behind_wb /\ behind_ls' = behind_ls /\ behind_ex' = behind_ex
        /\ behind_id' = behind_id /\ behind_if2' = behind_if2 /\ Redirected' = Redirected
    BY <2>3 DEF behind_if2, behind_id, behind_ex, behind_ls, behind_wb, Redirected, jump,
                flush_by_priv_ex, flush_by_exp
  <2>5. Ordered'
    BY <2>4 DEF OInv, Ordered
  <2> QED BY <2>1, <2>2, <2>5 DEF OInv
<1>2. CASE Cycle
  BY <1>2, PairedStep, DecodedStep, OrderedStep DEF OInv
<1> QED BY <1>1, <1>2 DEF Next

LEMMA InvariantO == Spec => [](IInv /\ OInv)
BY InitIInv, NextIInv, InitOInv, NextOInv, PTL DEF Spec

\* Whatever jumps, stalls, flushes, traps and returns lie between them, the
\* instructions that leave WB are those of the program, each once and in order
\* (Hazard.sv with the segment registers; SegReg_LS_WB.sv, commit_wb).
THEOREM InOrder == Spec => []ProgramOrder
<1>1. OInv => ProgramOrder
  BY DEF OInv, Ordered, ProgramOrder
<1> QED BY <1>1, InvariantO, PTL

\* An ecall or an mret in WB stands there for one cycle, with nothing behind it
\* that could have reached the data cache (Hazard.sv, Priv.sv).
THEOREM TrapsPrecise == Spec => []TrapPrecise
<1>1. IInv /\ OInv => TrapPrecise
  <2> SUFFICES ASSUME IInv, OInv, wb.inst \in Ecall \cup Mret
               PROVE  /\ ~dcache_miss
                      /\ {ex.inst, ls.inst} \cap (Load \cup Store \cup Fence) = {}
    BY DEF TrapPrecise
  <2>1. ~dcache_miss /\ IsBubble(ls) /\ IsBubble(ex)
    BY Hazards DEF OInv, Decoded, Priv
  <2> QED BY <2>1, NopPlain DEF IsBubble
<1> QED BY <1>1, InvariantO, PTL

-----------------------------------------------------------------------------
(* The words of the program *)

\* The words that were shifted in stay in order.
LEMMA ShiftIn ==
  ASSUME NEW l, NEW n \in 1 .. WordNum, NEW buf \in Line,
         \A i \in Words : i < n - 1 => buf[WordNum - (n - 1) + i] = l[i]
  PROVE  \A i \in Words : i < n => Shift(buf, l[n - 1])[WordNum - n + i] = l[i]
<1> SUFFICES ASSUME NEW i \in Words, i < n
             PROVE  Shift(buf, l[n - 1])[WordNum - n + i] = l[i]
  OBVIOUS
<1>1. n \in Nat /\ i \in Nat /\ WordNum \in Nat /\ WordNum - n + i \in Words
  BY GeometryAssumption DEF Words
<1>2. CASE i = n - 1
  <2>1. WordNum - n + i = WordNum - 1
    BY <1>1, <1>2
  <2> QED BY <1>1, <1>2, <2>1 DEF Shift
<1>3. CASE i # n - 1
  <2>1. i < n - 1 /\ WordNum - n + i # WordNum - 1 /\ (WordNum - n + i) + 1 = WordNum - (n - 1) + i
    BY <1>1, <1>3
  <2>2. Shift(buf, l[n - 1])[WordNum - n + i] = buf[(WordNum - n + i) + 1]
    BY <1>1, <2>1 DEF Shift
  <2> QED BY <2>1, <2>2
<1> QED BY <1>2, <1>3

\* A line that no fence writes to stays as it is.
LEMMA LineStays ==
  ASSUME IInv, Cycle, NEW a \in Addr, a.tag \in Tags, ~Patched(a)
  PROVE  mem'[a.tag][a.set] = line(a)
BY WalkStep DEF IInv, Cycle, Slave, line

\* A beat enters the return buffer behind those before it.
LEMMA BeatIn ==
  ASSUME IInv, LineIn, Cycle, ~Patched(addr_pipe), r_crt = "I_R"
  PROVE  \A i \in Words : i < rcount => i_ret_buf'[WordNum - rcount + i] = line(addr_pipe)[i]
<1>1. rcount \in 1 .. WordNum /\ rvalid /\ i_rvalid
  BY DEF IInv, BusInStep
<1>2. /\ rdata = line(addr_pipe)[rcount - 1]
      /\ \A i \in Words :
           i < rcount - 1 => i_ret_buf[WordNum - (rcount - 1) + i] = line(addr_pipe)[i]
      /\ i_ret_buf \in Line
  BY DEF LineIn, IInv, TypeOK, ICacheTypeOK
<1>3. i_ret_buf' = Shift(i_ret_buf, rdata)
  BY <1>1 DEF Cycle, PipelineClock, ICacheClock, FetchBuffer, i_rready
<1> QED BY <1>1, <1>2, <1>3, ShiftIn

LEMMA LineInStep ==
  ASSUME IInv, LineIn, Cycle
  PROVE  LineIn'
<1>1. /\ FetchFsm(stall_id(dcache_miss)) /\ RequestBuffer(pc_if1, stall_id(dcache_miss))
      /\ addr_pipe \in Addr /\ addr_pipe.tag \in Tags
      /\ r_crt \in {"R_IDLE", "I_AR", "I_R", "D_AR", "D_R"}
      /\ i_raddr.tag = addr_pipe.tag /\ i_raddr.set = addr_pipe.set
      /\ WordNum \in Nat /\ Words = 0 .. WordNum - 1
  BY Typed, GeometryAssumption
     DEF Cycle, PipelineClock, ICacheClock, IInv, TypeOK, ArbiterTypeOK, Words
<1>2. ASSUME ~Patched(addr_pipe)', r_crt' = "I_R"
      PROVE  /\ rdata' = line(addr_pipe)'[rcount' - 1]
             /\ \A i \in Words :
                  i < rcount' - 1 => i_ret_buf'[WordNum - (rcount' - 1) + i] = line(addr_pipe)'[i]
  <2>1. r_crt = "I_AR" \/ (r_crt = "I_R" /\ ~rlast)
    BY <1>1, <1>2, BusStep
  <2>2. /\ rcount \in Words /\ rcount' = rcount + 1 /\ rcount' - 1 = rcount
        /\ rdata' = mem'[araddr.tag][araddr.set][rcount]
    BY <1>1, <2>1, BusStep
  <2>3. i_rvalid /\ araddr = i_raddr /\ ~(i_rready /\ i_rlast)
    BY <2>1 DEF IInv, BusInStep, i_rready, i_rlast
  <2>4. addr_pipe' = addr_pipe
    BY <2>3, RequestsHeld DEF IInv
  <2>5. ~Patched(addr_pipe)
    BY <1>2, <2>4 DEF Patched
  <2>6. line(addr_pipe)' = mem'[addr_pipe.tag][addr_pipe.set] /\ line(addr_pipe)' = line(addr_pipe)
    BY <1>1, <2>4, <2>5, LineStays DEF line
  <2>7. rdata' = line(addr_pipe)'[rcount' - 1]
    BY <1>1, <2>2, <2>3, <2>6
  <2>8. CASE r_crt = "I_AR"
    <3>1. rcount = 0
      BY <2>8 DEF IInv, BusInStep
    <3> QED BY <1>1, <2>2, <2>7, <3>1
  <2>9. CASE r_crt = "I_R"
    <3>1. \A i \in Words : i < rcount => i_ret_buf'[WordNum - rcount + i] = line(addr_pipe)[i]
      BY <2>5, <2>9, BeatIn
    <3> QED BY <2>2, <2>6, <2>7, <3>1
  <2> QED BY <2>1, <2>8, <2>9
<1>3. ASSUME ~Patched(addr_pipe)', i_state' = "REFILL"
      PROVE  i_ret_buf' = line(addr_pipe)'
  <2>1. i_state = "MISS" /\ i_rready /\ i_rlast
    BY <1>1, <1>3 DEF FetchFsm, Lookup, LineWait, LineFill
  <2>2. addr_pipe' = addr_pipe
    BY <1>1, <2>1 DEF RequestBuffer, req_buf_we
  <2>3. ~Patched(addr_pipe)
    BY <1>3, <2>2 DEF Patched
  <2>4. line(addr_pipe)' = line(addr_pipe)
    BY <1>1, <2>2, <2>3, LineStays DEF line
  <2>5. r_crt = "I_R" /\ rcount = WordNum
    BY <2>1 DEF i_rready, i_rlast, IInv, BusInStep
  <2>6. \A i \in Words : i_ret_buf'[i] = line(addr_pipe)[i]
    <3>1. \A i \in Words : i < rcount /\ WordNum - rcount + i = i
      BY <1>1, <2>5
    <3> QED BY <2>3, <2>5, <3>1, BeatIn
  <2>7. i_ret_buf' \in Line /\ line(addr_pipe) \in Line
    <3>1. i_ret_buf' \in Line
      BY ICacheTyped DEF IInv, Cycle, PipelineClock, ICacheTypeOK
    <3>2. line(addr_pipe) \in Line
      BY <1>1 DEF IInv, TypeOK, PmemTypeOK, line, Addr
    <3> QED BY <3>1, <3>2
  <2> QED BY <2>4, <2>6, <2>7 DEF Line
<1> QED BY <1>2, <1>3 DEF LineIn

LEMMA LinesRightStep ==
  ASSUME IInv, LineIn, LinesRight, Cycle
  PROVE  LinesRight'
<1>1. /\ FetchFsm(stall_id(dcache_miss))
      /\ i_data \in [Ways -> [Sets -> Line]]
      /\ i_tags \in [Ways -> [Sets -> Tags \cup {NoTag}]]
      /\ refill_way \in Ways /\ addr_pipe \in Addr /\ addr_pipe.tag \in Tags
      /\ i_w_index = addr_pipe.set /\ addr_pipe.set \in Sets
  BY Typed DEF Cycle, PipelineClock, ICacheClock, IInv, TypeOK, ICacheTypeOK, i_w_index
<1> SUFFICES ASSUME NEW w \in Ways, NEW a \in Addr,
                    a.tag \in Tags, i_tags'[w][a.set] = a.tag, ~Patched(a)
             PROVE  i_data'[w][a.set] = line(a)'
  BY DEF LinesRight, Patched
<1>2. line(a)' = line(a)
  BY LineStays DEF line
<1>3. a.set \in Sets
  BY DEF Addr
<1>4. CASE i_state # "REFILL" \/ w # refill_way \/ a.set # addr_pipe.set
  <2>1. i_tags'[w][a.set] = i_tags[w][a.set] /\ i_data'[w][a.set] = i_data[w][a.set]
    BY <1>1, <1>3, <1>4 DEF FetchFsm, Lookup, LineWait, LineFill
  <2> QED BY <1>2, <2>1 DEF LinesRight
<1>5. CASE i_state = "REFILL" /\ w = refill_way /\ a.set = addr_pipe.set
  <2>1. i_tags'[w][a.set] = addr_pipe.tag /\ i_data'[w][a.set] = i_ret_buf
    BY <1>1, <1>3, <1>5 DEF FetchFsm, Lookup, LineWait, LineFill
  <2>2. a.tag = addr_pipe.tag
    BY <2>1
  <2>3. ~Patched(addr_pipe) /\ line(addr_pipe) = line(a)
    BY <1>5, <2>2 DEF Patched, line
  <2> QED BY <1>2, <1>5, <2>1, <2>3 DEF LineIn
<1> QED BY <1>4, <1>5

LEMMA LookedUpStep ==
  ASSUME IInv, OInv, Cycle
  PROVE  LookedUp'
<1> DEFINE stall == stall_id(dcache_miss)
<1>1. RequestBuffer(pc_if1, stall) /\ i_rd_index' = i_r_index(pc_if1, stall)
  BY DEF Cycle, PipelineClock, ICacheClock
<1>2. req_buf_we(stall) <=> ~(icache_miss \/ stall)
  <2>1. req_buf_we(stall) <=> ~stall_if1(dcache_miss)
    BY FetchMoves, FirstCycle DEF OInv
  <2> QED BY <2>1 DEF stall_if1
<1> HIDE DEF stall
<1> QED BY <1>1, <1>2 DEF LookedUp, RequestBuffer, i_r_index

\* What IF2 hands on is the word of the program at its address.
LEMMA RightWord ==
  ASSUME IInv, OInv, FInv, commit_if2, ~pc_set, ~icache_miss, ~Patched(pc_if2)
  PROVE  inst_if2(pc_set) = line(pc_if2)[pc_if2.word]
<1>1. /\ rvalid_pipe /\ addr_pipe = pc_if2 /\ ~flush_buf
      /\ i_rd_index = addr_pipe.set /\ LinesRight /\ LineIn
  BY DEF OInv, Paired, FInv, LookedUp
<1>2. i_state = "REFILL" \/ (i_state = "IDLE" /\ i_hit # {})
  BY <1>1 DEF IInv, TypeOK, ICacheTypeOK, icache_miss
<1>3. CASE i_state = "REFILL"
  BY <1>1, <1>3 DEF inst_if2, LineIn
<1>4. CASE i_state = "IDLE" /\ i_hit # {}
  <2>1. i_hit_way \in i_hit
    BY <1>4 DEF i_hit_way, i_hit, Ways
  <2>2. i_hit_way \in Ways /\ i_tags[i_hit_way][addr_pipe.set] = addr_pipe.tag
    BY <1>1, <2>1 DEF i_hit
  <2>3. addr_pipe \in Addr /\ addr_pipe.tag \in Tags
    BY Typed DEF IInv
  <2>4. i_data[i_hit_way][i_rd_index] = line(addr_pipe)
    BY <1>1, <2>2, <2>3 DEF LinesRight
  <2> QED BY <1>1, <1>4, <2>4 DEF inst_if2
<1> QED BY <1>2, <1>3, <1>4

LEMMA SlotsRightStep ==
  ASSUME IInv, OInv, FInv, Cycle
  PROVE  SlotsRight'
<1> DEFINE Right(slot) ==
             slot.commit /\ ~Patched(slot.pc) => slot.inst = line(slot.pc)[slot.pc.word]
           held == [ex EXCEPT !.dep = FALSE]
           old  == [wb EXCEPT !.commit = FALSE]
           next == Fetched(pc_if2, inst_if2(pc_set), commit_if2)
<1>1. Right(id) /\ Right(ex) /\ Right(ls) /\ Right(wb)
  BY DEF FInv, SlotsRight
<1>2. Right(Empty) /\ Right(held) /\ Right(old)
  BY <1>1, EmptySlot, HeldFields DEF IInv
<1>3. ~pc_set /\ ~icache_miss => Right(next)
  BY RightWord DEF Fetched
<1>4. ~jump /\ ~flush_by_priv_ex /\ ~load_use /\ ~dcache_miss /\ ~flush_by_exp => Right(ex')
  <2> SUFFICES ASSUME ~jump, ~flush_by_priv_ex, ~load_use, ~dcache_miss, ~flush_by_exp
               PROVE  Right(ex')
    OBVIOUS
  <2>1. Executed(id, ex') /\ id \in Slot
    BY SlotsStep, Typed DEF IInv
  <2>2. ex'.pc = id.pc /\ ex'.inst = id.inst /\ ex'.commit = id.commit
    BY <2>1, ExecutedTyped
  <2> QED BY <1>1, <2>2
<1>5. /\ id' \in {Empty, id} \/ (id' = next /\ ~pc_set /\ ~icache_miss)
      /\ ls' \in {Empty, ls, held} /\ wb' \in {Empty, old, ls}
      /\ ex' \in {Empty, ex} \/ (~jump /\ ~flush_by_priv_ex /\ ~load_use /\ ~dcache_miss /\ ~flush_by_exp)
  <2> HIDE DEF next, held, old, Right
  <2>1. CASE flush_by_exp
    BY <2>1, SlotsStep
  <2>2. CASE ~flush_by_exp /\ dcache_miss
    BY <2>2, SlotsStep DEF old
  <2>3. CASE ~flush_by_exp /\ ~dcache_miss
    BY <2>3, SlotsStep DEF held, next, pc_set
  <2> QED BY <2>1, <2>2, <2>3
<1> HIDE DEF next, held, old, Right
<1>6. Right(id') /\ Right(ex') /\ Right(ls') /\ Right(wb')
  BY <1>1, <1>2, <1>3, <1>4, <1>5
<1>7. \A slot \in {id', ex', ls', wb'} : slot \in Slot /\ slot.pc.tag \in Tags
  BY PipelineTyped DEF IInv, Cycle, PipelineTypeOK
<1>8. ASSUME NEW slot \in {id', ex', ls', wb'}, slot.commit, ~Patched(slot.pc)
      PROVE  slot.inst = mem'[slot.pc.tag][slot.pc.set][slot.pc.word]
  <2>1. slot.inst = line(slot.pc)[slot.pc.word]
    BY <1>6, <1>8 DEF Right
  <2>2. slot.pc \in Addr /\ slot.pc.tag \in Tags
    BY <1>7 DEF Slot
  <2> QED BY <1>8, <2>1, <2>2, LineStays
<1> QED BY <1>8 DEF SlotsRight, Patched, line

\* The words of the program are right at power-on ...
LEMMA InitFInv == Init => FInv
<1> SUFFICES ASSUME Init PROVE FInv
  OBVIOUS
<1>1. LineIn /\ LookedUp
  BY DEF Init, ArbiterInit, ICacheInit, LineIn, LookedUp, NoAddr
<1>2. LinesRight
  <2>1. i_tags = [w \in Ways |-> [s \in Sets |-> NoTag]]
    BY DEF Init, ICacheInit
  <2> QED BY <2>1, Defaults DEF LinesRight, Addr
<1>3. SlotsRight
  BY EmptySlot DEF Init, PipelineInit, SlotsRight
<1> QED BY <1>1, <1>2, <1>3 DEF FInv

\* ... and every cycle keeps them.
LEMMA NextFInv == IInv /\ OInv /\ FInv /\ [Next]_vars => FInv'
<1> SUFFICES ASSUME IInv, OInv, FInv, [Next]_vars PROVE FInv'
  OBVIOUS
<1>1. CASE UNCHANGED vars
  BY <1>1 DEF vars, pmemVars, readVars, arbiterVars, icacheVars, pipelineVars,
              FInv, LineIn, LinesRight, LookedUp, SlotsRight, Patched, line
<1>2. CASE Cycle
  BY <1>2, LineInStep, LinesRightStep, LookedUpStep, SlotsRightStep DEF FInv
<1> QED BY <1>1, <1>2 DEF Next

\* A word that commits is the word of the memory at its address, unless it lies in
\* a line that a fence writes to; the old word may survive such a fence in the
\* cache (ICache.sv, tag_valid), so there the promise ends.
UnpatchedWord ==
  wb.commit /\ ~Patched(wb.pc) => wb.inst = mem[wb.pc.tag][wb.pc.set][wb.pc.word]

\* Whatever the cache evicts, refills or flushes, and whatever a fence writes to
\* other lines, what is fetched from an untouched line is the word of the memory.
THEOREM UnpatchedFetched == Spec => []UnpatchedWord
<1>1. FInv => UnpatchedWord
  BY DEF FInv, SlotsRight, UnpatchedWord, line
<1> QED BY <1>1, InitIInv, NextIInv, InitOInv, NextOInv, InitFInv, NextFInv, PTL DEF Spec

\* In a program that does not rewrite itself every word that commits is the word
\* of the memory at its address (ICache.sv, axi_arbiter.sv, paddr.cpp).
THEOREM WordsFetched == Patches = {} /\ Spec => []FetchedWord
<1> SUFFICES ASSUME Patches = {} PROVE Spec => []FetchedWord
  OBVIOUS
<1>1. UnpatchedWord => FetchedWord
  BY DEF UnpatchedWord, Patched, FetchedWord
<1> QED BY <1>1, UnpatchedFetched, PTL
=============================================================================
