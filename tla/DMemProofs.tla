----------------------------- MODULE DMemProofs -----------------------------
(***************************************************************************)
(* Proofs about DMem, for every geometry, every set of requests and with   *)
(* or without instruction fetches.                                         *)
(***************************************************************************)
EXTENDS DMem, FiniteSetTheorems, TLAPS

IInv == TypeOK /\ BusLockstep

-----------------------------------------------------------------------------
(* Operators *)

\* The default values belong to their types.
LEMMA Defaults ==
  /\ NoAddr \in Addr /\ NoAddr.tag \in Tags /\ NoAddr.word = 0
  /\ ZeroWord \in Word /\ ZeroLine \in Line
  /\ Bubble \in Request /\ Bubble.op = "none" /\ 0 \in Sets /\ 0 \in Words
<1>1. (CHOOSE t \in Tags : TRUE) \in Tags
  BY GeometryAssumption
<1>2. (CHOOSE b \in Byte : TRUE) \in Byte
  BY GeometryAssumption
<1>3. 0 \in Sets /\ 0 \in Words
  BY GeometryAssumption DEF Sets, Words
<1>4. NoAddr \in Addr /\ NoAddr.tag \in Tags /\ NoAddr.word = 0
  BY <1>1, <1>3 DEF NoAddr, Addr
<1>5. ZeroWord \in Word /\ ZeroLine \in Line
  BY <1>2 DEF ZeroWord, Word, ZeroLine, Line
<1>6. Bubble \in Request /\ Bubble.op = "none"
  BY <1>4, <1>5 DEF Bubble, Request, Access, Fence
<1>7. QED
  BY <1>3, <1>4, <1>5, <1>6

\* Shifting a word into a line buffer gives a line.
LEMMA ShiftType ==
  ASSUME NEW line \in Line, NEW w \in Word
  PROVE  Shift(line, w) \in Line
BY GeometryAssumption DEF Shift, Line, Words

\* Merging or poking a word into another gives a word.
LEMMA MergeType ==
  ASSUME NEW old \in Word, NEW new \in Word, NEW strb
  PROVE  Merge(old, new, strb) \in Word /\ Poke(old, new, strb) \in Word
BY DEF Merge, Poke, Word

\* The wires the arbiter and the slave see from the cache are typed.
LEMMA CacheWires ==
  ASSUME DCacheTypeOK
  PROVE  /\ d_raddr \in Addr /\ d_rsize \in 0 .. 7 /\ d_rlen \in Words
         /\ d_raddr.tag \in Tags => d_raddr.word = 0 /\ d_rlen = WordNum - 1
         /\ d_raddr.tag \notin Tags => d_rlen = 0
         /\ w_index \in Sets /\ r_index \in Sets /\ hit_way \in Ways /\ lru_sel \in Ways
         /\ victim \in Ways /\ we_pipe \in BOOLEAN
<1>1. req.addr \in Addr /\ req.size \in 0 .. 7 /\ ex.addr \in Addr /\ addr_cnt.way \in Ways
        /\ addr_cnt.set \in Sets
  BY DEF DCacheTypeOK, Request
<1>2. d_raddr \in Addr /\ (~uncached => d_raddr.tag \in Tags /\ d_raddr.word = 0)
        /\ (uncached => d_raddr.tag \notin Tags)
  BY <1>1, Defaults, GeometryAssumption DEF d_raddr, LineBase, Addr, uncached
<1>3. d_rsize \in 0 .. 7 /\ d_rlen \in Words /\ (~uncached => d_rlen = WordNum - 1)
        /\ (uncached => d_rlen = 0)
  BY <1>1, GeometryAssumption DEF d_rsize, d_rlen, Words
<1>4. w_index \in Sets /\ r_index \in Sets
  BY <1>1 DEF w_index, r_index, Addr
<1>5. hit_way \in Ways /\ we_pipe \in BOOLEAN
  BY DEF hit_way, Ways, we_pipe
<1>6. lru_sel \in Ways
  BY <1>4 DEF DCacheTypeOK, lru_sel, Ways
<1>7. victim \in Ways
  BY <1>1, <1>6 DEF victim
<1>8. QED
  BY <1>2, <1>3, <1>4, <1>5, <1>6, <1>7

\* The same after the edge.
LEMMA CacheWiresNext ==
  DCacheTypeOK' => (d_raddr \in Addr /\ d_rsize \in 0 .. 7 /\ d_rlen \in Words)'
<1>1. DCacheTypeOK => d_raddr \in Addr /\ d_rsize \in 0 .. 7 /\ d_rlen \in Words
  BY CacheWires
<1>2. QED
  BY <1>1, PTL

-----------------------------------------------------------------------------
(* Type correctness *)

\* The reset leaves every variable in its type.
LEMMA InitTyped == Init => TypeOK
<1> SUFFICES ASSUME Init PROVE TypeOK
  OBVIOUS
<1> USE DEF Init
<1>1. PmemTypeOK
  <2>1. [t \in Tags |-> [s \in Sets |-> ZeroLine]] \in [Tags -> [Sets -> Line]]
    BY Defaults
  <2>2. QED
    BY <2>1, Defaults, GeometryAssumption DEF PmemInit, ZeroMem, PmemTypeOK, Words
<1>2. ArbiterTypeOK
  BY DEF ArbiterInit, ArbiterTypeOK
<1>3. DCacheTypeOK
  BY Defaults, GeometryAssumption DEF DCacheInit, DCacheTypeOK, Ways, Sets
<1>4. view \in [Tags -> [Sets -> Line]]
  BY <1>1 DEF PmemTypeOK
<1>5. QED
  BY <1>1, <1>2, <1>3, <1>4, Defaults DEF TypeOK, InPmem

\* One word of one line of one way may be rewritten.
LEMMA WordUpdate ==
  ASSUME NEW d \in [Ways -> [Sets -> Line]], NEW w \in Ways, NEW s \in Sets,
         NEW i \in Words, NEW v \in Word
  PROVE  [d EXCEPT ![w][s][i] = v] \in [Ways -> [Sets -> Line]]
<1>1. [d[w][s] EXCEPT ![i] = v] \in Line
  BY DEF Line
<1>2. [d[w] EXCEPT ![s] = [d[w][s] EXCEPT ![i] = v]] \in [Sets -> Line]
  BY <1>1
<1>3. QED
  BY <1>2

\* The main state machine keeps the arrays and its registers typed.
LEMMA MainFsmTyped ==
  ASSUME DCacheTypeOK, FsmLockstep, MainFsm, ex \in Request
  PROVE  /\ req' \in Request
         /\ data' \in [Ways -> [Sets -> Line]]
         /\ tags' \in [Ways -> [Sets -> Tags]]
         /\ dirty' \in [Ways -> [Sets -> BOOLEAN]]
         /\ lru' \in [Sets -> Ways]
         /\ addr_cnt' \in [way : Ways, set : Sets]
         /\ state' \in {"IDLE", "MISS", "REFILL", "WAIT_WRITE"}
<1>1. /\ req \in Request /\ req.addr \in Addr /\ req.data \in Word /\ req.addr.word \in Words
      /\ data \in [Ways -> [Sets -> Line]] /\ tags \in [Ways -> [Sets -> Tags]]
      /\ dirty \in [Ways -> [Sets -> BOOLEAN]] /\ lru \in [Sets -> Ways]
      /\ addr_cnt \in [way : Ways, set : Sets] /\ ret_buf \in Line
  BY DEF DCacheTypeOK, Request, Addr
<1>2. w_index \in Sets /\ hit_way \in Ways /\ lru_sel \in Ways /\ we_pipe \in BOOLEAN
  BY CacheWires
<1>3. CASE IdleQuiet
  BY <1>1, <1>3 DEF IdleQuiet, lineVars
<1>4. CASE IdleHit
  <2>1. data[hit_way][w_index][req.addr.word] \in Word
    BY <1>1, <1>2 DEF Line
  <2>2. data' \in [Ways -> [Sets -> Line]]
    BY <1>1, <1>2, <1>4, <2>1, WordUpdate, MergeType DEF IdleHit
  <2>3. dirty' \in [Ways -> [Sets -> BOOLEAN]]
    <3>1. dirty' = [dirty EXCEPT ![hit_way][w_index] =
                      (dirty[hit_way][w_index] \/ we_pipe)]
      BY <1>4 DEF IdleHit
    <3>2. (dirty[hit_way][w_index] \/ we_pipe) \in BOOLEAN
      OBVIOUS
    <3>3. QED
      BY <1>1, <1>2, <3>1, <3>2
  <2>4. lru' \in [Sets -> Ways]
    BY <1>1, <1>2, <1>4 DEF IdleHit
  <2>5. QED
    BY <1>1, <1>4, <2>2, <2>3, <2>4 DEF IdleHit
<1>5. CASE IdleMiss
  BY <1>1, <1>5 DEF IdleMiss, lineVars
<1>6. CASE IdleUncached
  BY <1>1, <1>6 DEF IdleUncached, lineVars
<1>7. CASE IdleFence
  BY <1>1, <1>7 DEF IdleFence, lineVars
<1>8. CASE FenceLine
  <2>1. addr_cnt' \in [way : Ways, set : Sets]
    <3>1. addr_cnt.way \in Ways /\ addr_cnt.set \in Sets
      BY <1>1
    <3>2. CASE addr_cnt.set < SetNum - 1
      BY <1>8, <3>1, <3>2, GeometryAssumption DEF FenceLine, Sets
    <3>3. CASE ~(addr_cnt.set < SetNum - 1)
      BY <1>8, <3>1, <3>3, GeometryAssumption, Defaults DEF FenceLine, Ways
    <3>4. QED
      BY <3>2, <3>3
  <2>2. QED
    BY <1>1, <1>8, <2>1 DEF FenceLine, lineVars
<1>9. CASE MissWait
  BY <1>1, <1>9 DEF MissWait, lineVars
<1>10. CASE Refill
  <2>1. [ret_buf EXCEPT ![req.addr.word] = Merge(@, req.data, req.strb)] \in Line
    BY <1>1, MergeType DEF Line
  <2>2. data' \in [Ways -> [Sets -> Line]]
    BY <1>1, <1>2, <1>10, <2>1 DEF Refill
  <2>3. req.addr.tag \in Tags
    BY <1>1, <1>10 DEF Refill, FsmLockstep, uncached, Addr
  <2>4. tags' \in [Ways -> [Sets -> Tags]]
    BY <1>1, <1>2, <1>10, <2>3 DEF Refill
  <2>5. dirty' \in [Ways -> [Sets -> BOOLEAN]]
    BY <1>1, <1>2, <1>10 DEF Refill
  <2>6. lru' \in [Sets -> Ways]
    BY <1>1, <1>2, <1>10 DEF Refill, Ways
  <2>7. QED
    BY <1>1, <1>10, <2>2, <2>4, <2>5, <2>6 DEF Refill
<1>11. CASE WriteWaiting
  BY <1>1, <1>11 DEF WriteWaiting, lineVars
<1>12. CASE AccessDone
  BY <1>1, <1>12 DEF AccessDone, lineVars
<1>13. CASE FenceNext
  BY <1>1, <1>13 DEF FenceNext, lineVars
<1>14. CASE FenceDone
  BY <1>1, <1>14 DEF FenceDone
<1>15. QED
  BY <1>3, <1>4, <1>5, <1>6, <1>7, <1>8, <1>9, <1>10, <1>11, <1>12, <1>13, <1>14 DEF MainFsm

\* So do the registers beside it; the write-back address stays on a line head.
LEMMA CacheRegistersTyped ==
  ASSUME DCacheTypeOK, FsmLockstep, WriteLockstep, AlignedWrite, rdata \in Word,
         CacheWriteFsm, ValidBits, ReadPort, ReturnBuffer, WriteBackBuffer, MissAddress
  PROVE  /\ valid' \in [Ways -> [Sets -> BOOLEAN]] /\ valid_rdata' \in [Ways -> BOOLEAN]
         /\ rd_index' \in Sets /\ ret_buf' \in Line /\ wbuf' \in Line
         /\ maddr' \in Addr /\ AlignedWrite'
         /\ wfsm' \in {"INIT", "WRITE", "FINISH"} /\ write_counter' \in 0 .. WordNum
<1>1. /\ req \in Request /\ req.addr \in Addr /\ req.data \in Word
      /\ data \in [Ways -> [Sets -> Line]] /\ tags \in [Ways -> [Sets -> Tags]]
      /\ valid \in [Ways -> [Sets -> BOOLEAN]] /\ rd_index \in Sets
      /\ ret_buf \in Line /\ wbuf \in Line /\ maddr \in Addr
      /\ wfsm \in {"INIT", "WRITE", "FINISH"} /\ write_counter \in 0 .. WordNum
  BY DEF DCacheTypeOK, Request
<1>2. w_index \in Sets /\ r_index \in Sets /\ lru_sel \in Ways /\ victim \in Ways
  BY CacheWires
<1>3. valid' \in [Ways -> [Sets -> BOOLEAN]] /\ valid_rdata' \in [Ways -> BOOLEAN]
  BY <1>1, <1>2 DEF ValidBits
<1>4. rd_index' \in Sets
  BY <1>2 DEF ReadPort
<1>5. ret_buf' \in Line
  BY <1>1, ShiftType DEF ReturnBuffer
<1>6. wbuf' \in Line
  <2>1. [ZeroLine EXCEPT ![0] = req.data] \in Line
    BY <1>1, Defaults DEF Line
  <2>2. data[victim][rd_index] \in Line
    BY <1>1, <1>2
  <2>3. Shift(wbuf, ZeroWord) \in Line
    BY <1>1, Defaults, ShiftType
  <2>4. QED
    BY <1>1, <2>1, <2>2, <2>3 DEF WriteBackBuffer
<1>7. maddr' \in Addr /\ AlignedWrite'
  <2>1. CASE ~wfsm_en
    BY <1>1, <2>1 DEF MissAddress, AlignedWrite
  <2>2. CASE wfsm_en /\ uncached
    BY <1>1, <2>2, GeometryAssumption DEF MissAddress, AlignedWrite, uncached
  <2>3. CASE wfsm_en /\ ~uncached
    <3>1. tags[victim][rd_index] \in Tags
      BY <1>1, <1>2
    <3>2. QED
      BY <1>2, <2>3, <3>1, Defaults DEF MissAddress, AlignedWrite, Addr
  <2>4. QED
    BY <2>1, <2>2, <2>3
<1>8. wfsm' \in {"INIT", "WRITE", "FINISH"} /\ write_counter' \in 0 .. WordNum
  <2>1. CASE WriteInit
    BY <2>1, GeometryAssumption DEF WriteInit
  <2>2. CASE WriteBurst
    BY <1>1, <2>2, GeometryAssumption
       DEF WriteBurst, d_wready, WriteLockstep, write_num
  <2>3. CASE WriteFinish
    BY <1>1, <2>3 DEF WriteFinish
  <2>4. QED
    BY <2>1, <2>2, <2>3 DEF CacheWriteFsm
<1>9. QED
  BY <1>3, <1>4, <1>5, <1>6, <1>7, <1>8

\* The cache keeps its registers and arrays typed over an edge.
LEMMA CacheTyped ==
  ASSUME TypeOK, BusLockstep, Pipeline, DCacheClock
  PROVE  DCacheTypeOK' /\ AlignedWrite'
<1>1. DCacheTypeOK /\ FsmLockstep /\ WriteLockstep /\ AlignedWrite /\ rdata \in Word
        /\ ex \in Request
  BY DEF TypeOK, BusLockstep, DCacheTypeOK, PmemTypeOK
<1>2. ex' \in Request
  BY <1>1, RequestsAssumption, Defaults DEF Pipeline, Issue
<1>3. QED
  BY <1>1, <1>2, MainFsmTyped, CacheRegistersTyped DEF DCacheClock, DCacheTypeOK

-----------------------------------------------------------------------------
(* The slave *)

\* The write channel keeps the memory typed: it never leaves the line.
LEMMA WriteChannelTyped ==
  ASSUME TypeOK, BusLockstep, DCacheTypeOK', WriteFsm(d_wvalid, d_wlast),
         PmemWrite(awvalid', maddr', wvalid', wbuf'[0], d_wstrb', wlast(d_wlast)',
                   bready(d_bready)')
  PROVE  /\ mem' \in [Tags -> [Sets -> Line]]
         /\ wstate' \in {0, 1, 2} /\ awaddr' \in Addr /\ wcount' \in 0 .. WordNum
         /\ awready' \in BOOLEAN /\ wready' \in BOOLEAN /\ bvalid' \in BOOLEAN
<1>1. /\ mem \in [Tags -> [Sets -> Line]]
      /\ wstate \in {0, 1, 2} /\ awaddr \in Addr /\ wcount \in 0 .. WordNum
      /\ awready \in BOOLEAN /\ wready \in BOOLEAN /\ bvalid \in BOOLEAN
  BY DEF TypeOK, PmemTypeOK
<1>2. maddr' \in Addr /\ wbuf'[0] \in Word
  BY Defaults DEF DCacheTypeOK, Line
<1>3. CASE WriteQuiet(awvalid')
  BY <1>1, <1>3 DEF WriteQuiet
<1>4. CASE WriteAccept(awvalid', maddr')
  <2>1. 0 \in 0 .. WordNum
    BY GeometryAssumption
  <2>2. QED
    BY <1>1, <1>2, <1>4, <2>1 DEF WriteAccept
<1>5. CASE WriteWait(wvalid')
  BY <1>1, <1>5 DEF WriteWait
<1>6. CASE WriteBeat(wvalid', wbuf'[0], d_wstrb', wlast(d_wlast)')
  <2>1. w_crt \in {"D_AW", "D_W"} /\ wcount <= write_num /\ wcount \in Nat
    <3>1. WriteLockstep /\ wstate = 1 /\ w_crt \in {"W_IDLE", "D_AW", "D_W", "D_B"}
            /\ write_counter \in Nat /\ write_num \in Nat
      BY <1>6, GeometryAssumption
         DEF WriteBeat, BusLockstep, TypeOK, ArbiterTypeOK, DCacheTypeOK, write_num
    <3>2. CASE w_crt = "D_AW"
      BY <3>1, <3>2 DEF WriteLockstep
    <3>3. CASE w_crt = "D_W"
      BY <3>1, <3>3 DEF WriteLockstep
    <3>4. QED
      BY <3>1, <3>2, <3>3 DEF WriteLockstep
  <2>2. wcount \in Words /\ wcount + 1 \in 0 .. WordNum
    BY <2>1, GeometryAssumption DEF write_num, Words
  <2>3. mem' \in [Tags -> [Sets -> Line]]
    <3>1. CASE ~InPmem(awaddr)
      BY <1>1, <1>6, <3>1 DEF WriteBeat
    <3>2. CASE InPmem(awaddr)
      <4>1. awaddr.tag \in Tags /\ awaddr.set \in Sets /\ awaddr.word = 0
        BY <1>1, <2>1, <3>2 DEF InPmem, BusLockstep, WriteLockstep, AlignedWrite, Addr
      <4>2. awaddr.word + wcount \in Words
        BY <2>2, <4>1 DEF Words
      <4>3. mem[awaddr.tag][awaddr.set][awaddr.word + wcount] \in Word
        BY <1>1, <4>1, <4>2 DEF Line
      <4>4. PICK v \in Word : mem' = [mem EXCEPT ![awaddr.tag][awaddr.set][awaddr.word + wcount] = v]
        BY <1>2, <1>6, <3>2, <4>3, MergeType DEF WriteBeat
      <4>5. [mem[awaddr.tag][awaddr.set] EXCEPT ![awaddr.word + wcount] = v] \in Line
        BY <1>1, <4>1, <4>2 DEF Line
      <4>6. QED
        BY <1>1, <4>1, <4>4, <4>5
    <3>3. QED
      BY <3>1, <3>2
  <2>4. QED
    BY <1>1, <1>6, <2>2, <2>3 DEF WriteBeat
<1>7. CASE WriteRespond(bready(d_bready)')
  BY <1>1, <1>7 DEF WriteRespond
<1>8. QED
  BY <1>3, <1>4, <1>5, <1>6, <1>7 DEF PmemWrite

\* A beat of a read never leaves the line either.
LEMMA ReadBeatInLine ==
  ASSUME TypeOK, BusLockstep, rstate = 1
  PROVE  /\ rcount \in Nat /\ rcount <= arlen /\ rcount + 1 \in 0 .. WordNum
         /\ InPmem(araddr) => araddr.word + rcount \in Words
<1>1. /\ arlen \in Words /\ rcount \in 0 .. WordNum /\ araddr \in Addr
      /\ r_crt \in {"R_IDLE", "I_AR", "I_R", "D_AR", "D_R"} /\ ReadLockstep /\ DCacheTypeOK
  BY DEF TypeOK, PmemTypeOK, ArbiterTypeOK, BusLockstep
<1>2. rcount <= arlen
  <2>1. arlen \in Nat /\ rcount \in Nat /\ rlast \in BOOLEAN
    BY <1>1, GeometryAssumption DEF Words, TypeOK, PmemTypeOK
  <2>2. CASE r_crt \in {"I_AR", "D_AR"}
    BY <1>1, <2>1, <2>2 DEF ReadLockstep
  <2>3. CASE r_crt \in {"I_R", "D_R"}
    BY <1>1, <2>1, <2>3 DEF ReadLockstep
  <2>4. QED
    BY <1>1, <2>2, <2>3 DEF ReadLockstep
<1>3. ASSUME InPmem(araddr) PROVE araddr.word = 0
  <2>1. CASE r_crt \in {"I_AR", "I_R"}
    BY <1>1, <2>1 DEF ReadLockstep, TypeOK
  <2>2. CASE r_crt \in {"D_AR", "D_R"}
    BY <1>1, <1>3, <2>2, CacheWires DEF ReadLockstep, InPmem
  <2>3. QED
    BY <1>1, <2>1, <2>2 DEF ReadLockstep
<1>4. QED
  BY <1>1, <1>2, <1>3, GeometryAssumption DEF Words

\* The read channel keeps its registers and wires typed.
LEMMA ReadChannelTyped ==
  ASSUME TypeOK, BusLockstep, mem' \in [Tags -> [Sets -> Line]],
         NEW a \in Addr, NEW n \in Words, NEW z \in 0 .. 7,
         PmemRead(arvalid', a, n, z, rready')
  PROVE  /\ rstate' \in {0, 1} /\ araddr' \in Addr /\ arlen' \in Words /\ arsize' \in 0 .. 7
         /\ rcount' \in 0 .. WordNum /\ rdata' \in Word
         /\ arready' \in BOOLEAN /\ rvalid' \in BOOLEAN /\ rlast' \in BOOLEAN
<1>1. /\ rstate \in {0, 1} /\ araddr \in Addr /\ arlen \in Words /\ arsize \in 0 .. 7
      /\ rcount \in 0 .. WordNum /\ rdata \in Word
      /\ arready \in BOOLEAN /\ rvalid \in BOOLEAN /\ rlast \in BOOLEAN
  BY DEF TypeOK, PmemTypeOK
<1>2. CASE ReadQuiet(arvalid')
  BY <1>1, <1>2 DEF ReadQuiet
<1>3. CASE ReadAccept(arvalid', a, n, z)
  <2>1. 0 \in 0 .. WordNum
    BY GeometryAssumption
  <2>2. QED
    BY <1>1, <1>3, <2>1 DEF ReadAccept
<1>4. CASE ReadBeat(rready')
  <2>1. /\ rcount + 1 \in 0 .. WordNum
        /\ InPmem(araddr) => araddr.word + rcount \in Words
    BY <1>4, ReadBeatInLine DEF ReadBeat
  <2>2. rdata' \in Word
    <3>1. CASE InPmem(araddr)
      <4>1. araddr.tag \in Tags /\ araddr.set \in Sets
        BY <1>1, <3>1 DEF InPmem, Addr
      <4>2. mem'[araddr.tag][araddr.set] \in Line
        BY <4>1
      <4>3. mem'[araddr.tag][araddr.set][araddr.word + rcount] \in Word
        BY <2>1, <3>1, <4>2 DEF Line
      <4>4. QED
        BY <1>4, <3>1, <4>3 DEF ReadBeat
    <3>2. CASE ~InPmem(araddr)
      BY <1>4, <3>2 DEF ReadBeat
    <3>3. QED
      BY <3>1, <3>2
  <2>3. rcount' \in 0 .. WordNum /\ rstate' \in {0, 1}
    BY <1>1, <1>4, <2>1 DEF ReadBeat
  <2>4. QED
    BY <1>1, <1>4, <2>2, <2>3 DEF ReadBeat
<1>5. QED
  BY <1>2, <1>3, <1>4 DEF PmemRead

\* The arbiter stays in its states.
LEMMA ArbiterTyped ==
  ASSUME ReadFsm(i_rvalid, d_rvalid), WriteFsm(d_wvalid, d_wlast)
  PROVE  ArbiterTypeOK'
<1>1. r_crt' \in {"R_IDLE", "I_AR", "I_R", "D_AR", "D_R"}
  BY DEF ReadFsm, GrantNone, GrantI, GrantD, ReadAddress, ReadData
<1>2. w_crt' \in {"W_IDLE", "D_AW", "D_W", "D_B"}
  BY DEF WriteFsm
<1>3. QED
  BY <1>1, <1>2 DEF ArbiterTypeOK

\* Every cycle keeps every variable in its type.
LEMMA StepTyped ==
  ASSUME TypeOK, BusLockstep, Cycle
  PROVE  TypeOK' /\ AlignedWrite'
<1>1. DCacheTypeOK' /\ AlignedWrite'
  BY CacheTyped DEF Cycle
<1>2. ArbiterTypeOK'
  BY ArbiterTyped DEF Cycle
<1>3. i_rvalid' \in BOOLEAN /\ i_raddr' \in Addr /\ i_raddr'.word = 0 /\ InPmem(i_raddr')
  BY RequestsAssumption DEF TypeOK, Cycle, InstructionFetch, InPmem
<1>4. PmemTypeOK'
  <2>1. mem' \in [Tags -> [Sets -> Line]]
        /\ wstate' \in {0, 1, 2} /\ awaddr' \in Addr /\ wcount' \in 0 .. WordNum
        /\ awready' \in BOOLEAN /\ wready' \in BOOLEAN /\ bvalid' \in BOOLEAN
    BY <1>1, WriteChannelTyped DEF Cycle, Slave
  <2>2. d_raddr' \in Addr /\ d_rsize' \in 0 .. 7 /\ d_rlen' \in Words
    BY <1>1, CacheWiresNext
  <2>3. /\ rstate' \in {0, 1} /\ araddr' \in Addr /\ arlen' \in Words /\ arsize' \in 0 .. 7
        /\ rcount' \in 0 .. WordNum /\ rdata' \in Word
        /\ arready' \in BOOLEAN /\ rvalid' \in BOOLEAN /\ rlast' \in BOOLEAN
    <3>1. WordNum - 1 \in Words /\ 2 \in 0 .. 7
      BY GeometryAssumption DEF Words
    <3>2. CASE r_crt' = "I_AR"
      BY <1>3, <2>1, <3>1, <3>2, ReadChannelTyped DEF Cycle, Slave
    <3>3. CASE r_crt' # "I_AR"
      BY <2>1, <2>2, <3>3, ReadChannelTyped DEF Cycle, Slave
    <3>4. QED
      BY <3>2, <3>3
  <2>4. QED
    BY <2>1, <2>3 DEF PmemTypeOK
<1>5. view' \in [Tags -> [Sets -> Line]]
  <2>1. view \in [Tags -> [Sets -> Line]] /\ req.addr \in Addr /\ req.data \in Word
    BY DEF TypeOK, DCacheTypeOK, Request
  <2>2. CASE req.op = "store" /\ ~uncached
    <3>1. req.addr.tag \in Tags /\ req.addr.set \in Sets /\ req.addr.word \in Words
      BY <2>1, <2>2 DEF uncached, Addr
    <3>2. view[req.addr.tag][req.addr.set][req.addr.word] \in Word
      BY <2>1, <3>1 DEF Line
    <3>3. PICK v \in Word :
            stored = [view EXCEPT ![req.addr.tag][req.addr.set][req.addr.word] = v]
      BY <2>1, <2>2, <3>2, MergeType DEF stored
    <3>4. [view[req.addr.tag][req.addr.set] EXCEPT ![req.addr.word] = v] \in Line
      BY <2>1, <3>1 DEF Line
    <3>5. stored \in [Tags -> [Sets -> Line]]
      BY <2>1, <3>1, <3>3, <3>4
    <3>6. QED
      BY <2>1, <3>5 DEF Cycle, History
  <2>3. CASE ~(req.op = "store" /\ ~uncached)
    BY <2>1, <2>3 DEF Cycle, History, stored
  <2>4. QED
    BY <2>2, <2>3
<1>6. QED
  BY <1>1, <1>2, <1>3, <1>4, <1>5 DEF TypeOK, InPmem

-----------------------------------------------------------------------------
(* Lockstep *)

\* A cache keeps asking, for the same line, until its last beat.
LEMMA DataReadHeld ==
  ASSUME MainFsm, d_rvalid, ~(d_rready /\ d_rlast)
  PROVE  d_rvalid' /\ d_raddr' = d_raddr /\ d_rlen' = d_rlen
<1>1. state = "MISS" /\ ~fence
  BY DEF d_rvalid
<1>2. MissWait
  BY <1>1 DEF MainFsm, IdleQuiet, IdleHit, IdleMiss, IdleUncached, IdleFence, FenceLine,
              Refill, WriteWaiting, AccessDone, FenceNext, FenceDone
<1>3. state' = "MISS" /\ req' = req
  BY <1>2 DEF MissWait
<1>4. QED
  BY <1>1, <1>3 DEF d_rvalid, d_raddr, d_rlen, fence, uncached

\* The instruction cache too keeps asking until its last beat.
LEMMA FetchHeld ==
  ASSUME InstructionFetch, i_rvalid, ~(i_rready /\ i_rlast)
  PROVE  i_rvalid' /\ i_raddr' = i_raddr
BY DEF InstructionFetch

\* The read channel keeps its pace through grant, address, beats and the last beat.
LEMMA ReadLockstepStep ==
  ASSUME TypeOK, BusLockstep, Cycle
  PROVE  ReadLockstep'
<1>1. /\ rstate \in {0, 1} /\ rcount \in Nat /\ arlen \in Nat
      /\ arready \in BOOLEAN /\ rvalid \in BOOLEAN /\ rlast \in BOOLEAN
      /\ r_crt \in {"R_IDLE", "I_AR", "I_R", "D_AR", "D_R"}
      /\ ReadLockstep
  BY GeometryAssumption DEF TypeOK, PmemTypeOK, ArbiterTypeOK, BusLockstep, Words
<1>2. MainFsm /\ InstructionFetch /\ ReadFsm(i_rvalid, d_rvalid)
  BY DEF Cycle, DCacheClock
<1>3. /\ r_crt' = "I_AR" => PmemRead(arvalid', i_raddr', WordNum - 1, 2, rready')
      /\ r_crt' # "I_AR" => PmemRead(arvalid', d_raddr', d_rlen', d_rsize', rready')
  BY DEF Cycle, Slave
<1>4. CASE r_crt = "R_IDLE"
  <2>1. rstate = 0 /\ ~arready /\ ~rvalid /\ ~rlast
    BY <1>1, <1>4 DEF ReadLockstep
  <2>2. CASE r_crt' = "R_IDLE"
    <3>1. ReadQuiet(FALSE)
      BY <1>3, <2>1, <2>2 DEF arvalid, PmemRead, ReadQuiet, ReadAccept, ReadBeat
    <3>2. QED
      BY <2>1, <2>2, <3>1 DEF ReadQuiet, ReadLockstep
  <2>3. CASE r_crt' = "I_AR"
    <3>1. i_rvalid' /\ i_raddr' = i_raddr
      BY <1>2, <1>4, <2>3, FetchHeld
         DEF i_rready, ReadFsm, GrantNone, GrantI, GrantD, ReadAddress, ReadData
    <3>2. ReadAccept(TRUE, i_raddr', WordNum - 1, 2)
      BY <1>3, <2>1, <2>3 DEF arvalid, PmemRead, ReadQuiet, ReadAccept, ReadBeat
    <3>3. QED
      BY <2>3, <3>1, <3>2 DEF ReadAccept, ReadLockstep
  <2>4. CASE r_crt' = "D_AR"
    <3>1. d_rvalid'
      BY <1>2, <1>4, <2>4, DataReadHeld
         DEF d_rready, ReadFsm, GrantNone, GrantI, GrantD, ReadAddress, ReadData
    <3>2. ReadAccept(TRUE, d_raddr', d_rlen', d_rsize')
      BY <1>3, <2>1, <2>4 DEF arvalid, PmemRead, ReadQuiet, ReadAccept, ReadBeat
    <3>3. QED
      BY <2>4, <3>1, <3>2 DEF ReadAccept, ReadLockstep
  <2>5. QED
    BY <1>2, <1>4, <2>2, <2>3, <2>4 DEF ReadFsm, GrantNone, GrantI, GrantD, ReadAddress, ReadData
<1>5. CASE r_crt \in {"I_AR", "D_AR"}
  <2>1. rstate = 1 /\ arready /\ ~rvalid /\ rcount = 0
    BY <1>1, <1>5 DEF ReadLockstep
  <2>2. r_crt' = IF r_crt = "I_AR" THEN "I_R" ELSE "D_R"
    BY <1>2, <1>5, <2>1 DEF ReadFsm, GrantNone, GrantI, GrantD, ReadAddress, ReadData
  <2>3. ReadBeat(TRUE)
    BY <1>3, <1>5, <2>1, <2>2 DEF rready, PmemRead, ReadQuiet, ReadAccept, ReadBeat
  <2>4. /\ ~arready' /\ rvalid' /\ rcount' = 1 /\ arlen' = arlen /\ araddr' = araddr
        /\ rlast' <=> arlen = 0
        /\ rstate' = IF arlen = 0 THEN 0 ELSE 1
    <3>1. rlast' = (rcount = arlen)
      BY <2>3 DEF ReadBeat
    <3>2. rlast' <=> rcount = arlen
      BY <3>1
    <3>3. QED
      BY <1>1, <2>1, <2>3, <3>2 DEF ReadBeat
  <2>9. rcount' \in 1 .. arlen' + 1 /\ (rlast' <=> rcount' = arlen' + 1)
          /\ rstate' = IF rlast' THEN 0 ELSE 1
    BY <1>1, <2>4
  <2>5. CASE r_crt = "I_AR"
    <3>1. i_rvalid' /\ i_raddr' = i_raddr
      BY <1>1, <1>2, <2>5, FetchHeld DEF i_rready, ReadLockstep
    <3>2. QED
      BY <1>1, <2>2, <2>4, <2>5, <2>9, <3>1 DEF ReadLockstep
  <2>6. CASE r_crt = "D_AR"
    <3>1. d_rvalid' /\ d_raddr' = d_raddr /\ d_rlen' = d_rlen
      BY <1>1, <1>2, <2>6, DataReadHeld DEF d_rready, ReadLockstep
    <3>2. QED
      BY <1>1, <2>2, <2>4, <2>6, <2>9, <3>1 DEF ReadLockstep
  <2>7. QED
    BY <1>5, <2>5, <2>6
<1>6. CASE r_crt \in {"I_R", "D_R"} /\ rlast
  <2>1. rstate = 0 /\ ~arready /\ rvalid
    BY <1>1, <1>6 DEF ReadLockstep
  <2>2. r_crt' = "R_IDLE"
    BY <1>2, <1>6, <2>1 DEF ReadFsm, GrantNone, GrantI, GrantD, ReadAddress, ReadData
  <2>3. ReadQuiet(FALSE)
    BY <1>3, <2>1, <2>2 DEF arvalid, PmemRead, ReadQuiet, ReadAccept, ReadBeat
  <2>4. QED
    BY <2>1, <2>2, <2>3 DEF ReadQuiet, ReadLockstep
<1>7. CASE r_crt \in {"I_R", "D_R"} /\ ~rlast
  <2>1. rstate = 1 /\ ~arready /\ rvalid /\ rcount \in 1 .. arlen
    BY <1>1, <1>7 DEF ReadLockstep
  <2>2. r_crt' = r_crt
    BY <1>2, <1>7 DEF ReadFsm, GrantNone, GrantI, GrantD, ReadAddress, ReadData
  <2>3. ReadBeat(TRUE)
    BY <1>3, <1>7, <2>1, <2>2 DEF rready, PmemRead, ReadQuiet, ReadAccept, ReadBeat
  <2>4. /\ ~arready' /\ rvalid' /\ rcount' = rcount + 1 /\ arlen' = arlen /\ araddr' = araddr
        /\ rlast' <=> rcount = arlen
        /\ rstate' = IF rcount = arlen THEN 0 ELSE 1
    BY <2>1, <2>3 DEF ReadBeat
  <2>5. rcount' \in 1 .. arlen' + 1 /\ (rlast' <=> rcount' = arlen' + 1)
          /\ rstate' = IF rlast' THEN 0 ELSE 1
    BY <1>1, <2>1, <2>4
  <2>6. CASE r_crt = "I_R"
    BY <1>1, <1>2, <1>7, <2>2, <2>4, <2>5, <2>6, FetchHeld DEF i_rlast, ReadLockstep
  <2>7. CASE r_crt = "D_R"
    BY <1>1, <1>2, <1>7, <2>2, <2>4, <2>5, <2>7, DataReadHeld DEF d_rlast, ReadLockstep
  <2>8. QED
    BY <1>7, <2>6, <2>7
<1>8. QED
  BY <1>1, <1>4, <1>5, <1>6, <1>7

\* The request stays in LS while its write is in progress, and the write-back
\* address stays once the arbiter has taken it.
LEMMA WriteHeld ==
  ASSUME FsmLockstep, MainFsm, MissAddress, wfsm = "WRITE"
  PROVE  req' = req /\ (w_crt # "W_IDLE" => maddr' = maddr)
<1>1. state # "IDLE"
  BY DEF FsmLockstep
<1>2. req' = req
  BY <1>1 DEF MainFsm, IdleQuiet, IdleHit, IdleMiss, IdleUncached, IdleFence, FenceLine, MissWait,
              Refill, WriteWaiting, AccessDone, FenceNext, FenceDone, wrt_finish
<1>3. w_crt # "W_IDLE" => ~wfsm_en
  BY <1>1 DEF FsmLockstep, wfsm_en
<1>4. QED
  BY <1>2, <1>3 DEF MissAddress

\* So does the write channel, from the request to the response.
LEMMA WriteLockstepStep ==
  ASSUME TypeOK, BusLockstep, Cycle
  PROVE  WriteLockstep'
<1>1. /\ w_crt \in {"W_IDLE", "D_AW", "D_W", "D_B"} /\ wfsm \in {"INIT", "WRITE", "FINISH"}
      /\ write_counter \in Nat /\ wcount \in Nat /\ write_num \in Nat
      /\ WriteLockstep /\ FsmLockstep
  BY GeometryAssumption
     DEF TypeOK, PmemTypeOK, ArbiterTypeOK, DCacheTypeOK, BusLockstep, write_num
<1>2. MainFsm /\ CacheWriteFsm /\ MissAddress /\ WriteFsm(d_wvalid, d_wlast)
  BY DEF Cycle, DCacheClock
<1>3. PmemWrite(awvalid', maddr', wvalid', wbuf'[0], d_wstrb', wlast(d_wlast)', bready(d_bready)')
  BY DEF Cycle, Slave
<1>4. ASSUME wfsm = "WRITE"
      PROVE  /\ write_num' = write_num /\ WriteBurst
             /\ w_crt # "W_IDLE" => maddr' = maddr
  <2>1. req' = req /\ (w_crt # "W_IDLE" => maddr' = maddr)
    BY <1>1, <1>2, <1>4, WriteHeld
  <2>2. WriteBurst
    BY <1>2, <1>4 DEF CacheWriteFsm, WriteInit, WriteFinish
  <2>3. QED
    BY <2>1, <2>2 DEF write_num, uncached
<1>5. CASE w_crt = "W_IDLE" /\ wfsm # "WRITE"
  <2>1. w_crt' = "W_IDLE" /\ wstate = 0 /\ ~awready /\ ~wready
    BY <1>1, <1>2, <1>5 DEF WriteFsm, d_wvalid, WriteLockstep
  <2>2. WriteQuiet(FALSE)
    BY <1>3, <2>1
       DEF awvalid, PmemWrite, WriteQuiet, WriteAccept, WriteWait, WriteBeat, WriteRespond
  <2>3. wfsm' = "WRITE" => write_counter' = 0
    BY <1>2, <1>5 DEF CacheWriteFsm, WriteInit, WriteBurst, WriteFinish
  <2>4. QED
    BY <2>1, <2>2, <2>3 DEF WriteQuiet, WriteLockstep
<1>6. CASE w_crt = "W_IDLE" /\ wfsm = "WRITE"
  <2>1. wstate = 0 /\ ~awready /\ ~wready /\ ~bvalid /\ write_counter = 0
    BY <1>1, <1>6 DEF WriteLockstep
  <2>2. w_crt' = "D_AW"
    BY <1>2, <1>6, <2>1, GeometryAssumption DEF WriteFsm, d_wvalid
  <2>3. wfsm' = "WRITE" /\ write_counter' = 0
    BY <1>4, <1>6, <2>1 DEF WriteBurst, d_bvalid, d_wready
  <2>4. WriteAccept(TRUE, maddr')
    BY <1>3, <2>1, <2>2
       DEF awvalid, PmemWrite, WriteQuiet, WriteAccept, WriteWait, WriteBeat, WriteRespond
  <2>5. QED
    BY <2>1, <2>2, <2>3, <2>4 DEF WriteAccept, WriteLockstep
<1>7. CASE w_crt = "D_AW"
  <2>1. /\ wfsm = "WRITE" /\ wstate = 1 /\ awready /\ ~wready /\ ~bvalid /\ wcount = 0
        /\ write_counter = 0 /\ awaddr = maddr
    BY <1>1, <1>7 DEF WriteLockstep
  <2>2. w_crt' = "D_W"
    BY <1>2, <1>7, <2>1 DEF WriteFsm
  <2>3. wfsm' = "WRITE" /\ write_counter' = 0 /\ write_num' = write_num /\ maddr' = maddr
    BY <1>4, <1>7, <2>1 DEF WriteBurst, d_bvalid, d_wready
  <2>4. WriteBeat(TRUE, wbuf'[0], d_wstrb', wlast(d_wlast)')
    BY <1>3, <2>1, <2>2
       DEF wvalid, PmemWrite, WriteQuiet, WriteAccept, WriteWait, WriteRespond, WriteBeat
  <2>5. wlast(d_wlast)' <=> write_counter' = write_num'
    BY <2>2, <2>3 DEF wlast, d_wlast, write_num
  <2>6. QED
    BY <1>1, <2>1, <2>2, <2>3, <2>4, <2>5 DEF WriteBeat, WriteLockstep
<1>8. CASE w_crt = "D_W" /\ write_counter = write_num
  <2>1. wfsm = "WRITE" /\ wstate = 2 /\ wready /\ ~awready /\ awaddr = maddr
    BY <1>1, <1>8 DEF WriteLockstep
  <2>2. w_crt' = "D_B"
    BY <1>2, <1>8, <2>1 DEF WriteFsm, d_wlast, write_num
  <2>3. /\ wfsm' = "WRITE" /\ write_counter' = write_counter + 1 /\ write_num' = write_num
        /\ maddr' = maddr
    BY <1>4, <1>8, <2>1 DEF WriteBurst, d_bvalid, d_wready
  <2>4. WriteRespond(TRUE)
    BY <1>3, <2>1, <2>2, <2>3
       DEF bready, d_bready, PmemWrite, WriteQuiet, WriteAccept, WriteWait, WriteRespond, WriteBeat
  <2>5. QED
    BY <1>8, <2>1, <2>2, <2>3, <2>4 DEF WriteRespond, WriteLockstep
<1>9. CASE w_crt = "D_W" /\ write_counter # write_num
  <2>1. /\ wfsm = "WRITE" /\ wstate = 1 /\ wready /\ ~awready /\ ~bvalid /\ awaddr = maddr
        /\ write_counter <= write_num /\ wcount = write_counter + 1
    BY <1>1, <1>9 DEF WriteLockstep
  <2>2. w_crt' = "D_W"
    BY <1>2, <1>9 DEF WriteFsm, d_wlast, write_num
  <2>3. /\ wfsm' = "WRITE" /\ write_counter' = write_counter + 1 /\ write_num' = write_num
        /\ maddr' = maddr
    BY <1>4, <1>9, <2>1 DEF WriteBurst, d_bvalid, d_wready
  <2>4. WriteBeat(TRUE, wbuf'[0], d_wstrb', wlast(d_wlast)')
    BY <1>3, <2>1, <2>2
       DEF wvalid, PmemWrite, WriteQuiet, WriteAccept, WriteWait, WriteRespond, WriteBeat
  <2>5. wlast(d_wlast)' <=> write_counter' = write_num'
    BY <2>2, <2>3 DEF wlast, d_wlast, write_num
  <2>6. QED
    BY <1>1, <1>9, <2>1, <2>2, <2>3, <2>4, <2>5 DEF WriteBeat, WriteLockstep
<1>10. CASE w_crt = "D_B"
  <2>1. wfsm = "WRITE" /\ wstate = 0 /\ ~awready /\ ~wready /\ bvalid
    BY <1>1, <1>10 DEF WriteLockstep
  <2>2. w_crt' = "W_IDLE"
    BY <1>2, <1>10, <2>1 DEF WriteFsm
  <2>3. wfsm' = "FINISH"
    BY <1>4, <1>10, <2>1 DEF WriteBurst, d_bvalid
  <2>4. WriteQuiet(FALSE)
    BY <1>3, <2>1, <2>2
       DEF awvalid, PmemWrite, WriteQuiet, WriteAccept, WriteWait, WriteRespond, WriteBeat
  <2>5. QED
    BY <2>1, <2>2, <2>3, <2>4 DEF WriteQuiet, WriteLockstep
<1>11. QED
  BY <1>1, <1>5, <1>6, <1>7, <1>8, <1>9, <1>10

\* And so do the two state machines of the cache.
LEMMA FsmLockstepStep ==
  ASSUME TypeOK, BusLockstep, Cycle
  PROVE  FsmLockstep'
<1>1. /\ wfsm \in {"INIT", "WRITE", "FINISH"} /\ w_crt \in {"W_IDLE", "D_AW", "D_W", "D_B"}
      /\ req.op \in {"none"} \cup Access \cup Fence
      /\ WriteLockstep /\ FsmLockstep
  BY DEF TypeOK, DCacheTypeOK, ArbiterTypeOK, BusLockstep, Request
<1>2. MainFsm /\ CacheWriteFsm /\ WriteFsm(d_wvalid, d_wlast)
  BY DEF Cycle, DCacheClock
<1>3. ~(access /\ fence)
  BY DEF access, fence, Access, Fence
\* What the write state machine does, seen from the main one.
<1>4. wfsm = "INIT" /\ ~wfsm_en => wfsm' = "INIT"
  BY <1>2 DEF CacheWriteFsm, WriteInit, WriteBurst, WriteFinish
<1>5. wfsm = "INIT" /\ wfsm_en => wfsm' # "INIT"
  BY <1>2 DEF CacheWriteFsm, WriteInit, WriteBurst, WriteFinish
<1>6. wfsm = "WRITE" => wfsm' # "INIT"
  BY <1>2 DEF CacheWriteFsm, WriteInit, WriteBurst, WriteFinish
<1>7. wfsm = "FINISH" => wfsm' = IF state = "WAIT_WRITE" THEN "INIT" ELSE "FINISH"
  BY <1>2 DEF CacheWriteFsm, WriteInit, WriteBurst, WriteFinish
<1>8. wfsm # "WRITE" => w_crt' = "W_IDLE"
  BY <1>1, <1>2 DEF WriteFsm, WriteLockstep, d_wvalid
<1> USE DEF FsmLockstep
<1>9. CASE IdleQuiet \/ IdleHit
  <2>1. state = "IDLE" /\ state' = "IDLE" /\ ~wfsm_en
    BY <1>3, <1>9 DEF IdleQuiet, IdleHit, wfsm_en
  <2>2. QED
    BY <1>1, <1>4, <2>1
<1>10. CASE IdleMiss \/ IdleUncached
  <2>1. /\ state = "IDLE" /\ access /\ wfsm_en /\ req' = req
        /\ state' \in {"MISS", "WAIT_WRITE"}
    BY <1>10 DEF IdleMiss, IdleUncached, wfsm_en
  <2>2. QED
    BY <1>1, <1>3, <1>5, <2>1 DEF access, fence
<1>11. CASE IdleFence
  <2>1. state = "IDLE" /\ fence /\ req' = req /\ state' = "MISS" /\ wfsm = "INIT"
    BY <1>1, <1>11 DEF IdleFence
  <2>2. QED
    BY <1>8, <2>1 DEF access, fence
<1>12. CASE FenceLine
  <2>1. /\ state = "MISS" /\ fence /\ req' = req /\ state' = "WAIT_WRITE" /\ wfsm_en
    BY <1>12 DEF FenceLine, wfsm_en
  <2>2. wfsm' # "INIT"
    BY <1>1, <1>5, <1>6, <1>7, <2>1
  <2>3. QED
    BY <2>1, <2>2 DEF access, fence
<1>13. CASE MissWait
  <2>1. /\ state = "MISS" /\ ~fence /\ access /\ req' = req
        /\ state' \in {"MISS", "REFILL", "WAIT_WRITE"}
        /\ state' = "REFILL" => ~uncached
    BY <1>1, <1>13 DEF MissWait
  <2>2. wfsm' # "INIT"
    BY <1>1, <1>6, <1>7, <2>1
  <2>3. QED
    BY <2>1, <2>2 DEF access, fence, uncached
<1>14. CASE Refill
  <2>1. state = "REFILL" /\ ~fence /\ access /\ req' = req /\ state' = "WAIT_WRITE"
    BY <1>1, <1>14 DEF Refill
  <2>2. wfsm' # "INIT"
    BY <1>1, <1>6, <1>7, <2>1
  <2>3. QED
    BY <2>1, <2>2 DEF access, fence
<1>15. CASE WriteWaiting
  <2>1. state = "WAIT_WRITE" /\ state' = state /\ req' = req /\ wfsm = "WRITE"
    BY <1>1, <1>15 DEF WriteWaiting, wrt_finish
  <2>2. QED
    BY <1>1, <1>6, <2>1 DEF access, fence
<1>16. CASE AccessDone \/ FenceDone
  <2>1. state = "WAIT_WRITE" /\ wfsm = "FINISH" /\ state' = "IDLE"
    BY <1>16 DEF AccessDone, FenceDone, wrt_finish
  <2>2. QED
    BY <1>7, <2>1
<1>17. CASE FenceNext
  <2>1. state = "WAIT_WRITE" /\ wfsm = "FINISH" /\ fence /\ req' = req /\ state' = "MISS"
    BY <1>17 DEF FenceNext, wrt_finish
  <2>2. QED
    BY <1>8, <2>1 DEF access, fence
<1>18. QED
  BY <1>2, <1>9, <1>10, <1>11, <1>12, <1>13, <1>14, <1>15, <1>16, <1>17 DEF MainFsm

\* IInv is inductive.
LEMMA InitIInv == Init => IInv
<1> SUFFICES ASSUME Init PROVE IInv
  OBVIOUS
<1>1. TypeOK
  BY InitTyped
<1>2. req = Bubble /\ state = "IDLE" /\ wfsm = "INIT" /\ maddr = NoAddr
  BY DEF Init, DCacheInit
<1>3. ReadLockstep /\ WriteLockstep
  BY <1>2 DEF Init, ArbiterInit, PmemInit, ReadLockstep, WriteLockstep
<1>4. FsmLockstep /\ AlignedWrite
  BY <1>2, Defaults DEF FsmLockstep, AlignedWrite
<1>5. QED
  BY <1>1, <1>3, <1>4 DEF IInv, BusLockstep

\* Every step preserves IInv.
LEMMA NextIInv == IInv /\ [Next]_vars => IInv'
<1> SUFFICES ASSUME IInv, [Next]_vars PROVE IInv'
  OBVIOUS
<1>1. CASE Next
  BY <1>1, StepTyped, ReadLockstepStep, WriteLockstepStep, FsmLockstepStep
     DEF IInv, Next, BusLockstep
<1>2. CASE UNCHANGED vars
  <2> USE <1>2 DEF vars, pmemVars, readVars, writeVars, arbiterVars, cacheVars
  <2>1. TypeOK'
    BY DEF IInv, TypeOK, PmemTypeOK, ArbiterTypeOK, DCacheTypeOK, InPmem
  <2>2. ReadLockstep' /\ WriteLockstep'
    BY DEF IInv, BusLockstep, ReadLockstep, WriteLockstep, write_num, d_rvalid, d_raddr, d_rlen,
           fence, uncached
  <2>3. FsmLockstep' /\ AlignedWrite'
    BY DEF IInv, BusLockstep, FsmLockstep, AlignedWrite, fence, access, uncached
  <2>4. QED
    BY <2>1, <2>2, <2>3 DEF IInv, BusLockstep
<1>3. QED
  BY <1>1, <1>2

-----------------------------------------------------------------------------
(* Theorems *)

\* Every variable of the data side keeps its type: no burst runs past its
\* line, no counter past its width, no device address gets into the tags.
THEOREM TypeCorrect == Spec => []TypeOK
<1>1. IInv => TypeOK
  BY DEF IInv
<1>2. QED
  BY InitIInv, NextIInv, <1>1, PTL DEF Spec

\* Cache, arbiter and slave stay in lockstep on both channels.
THEOREM Lockstep == Spec => []BusLockstep
<1>1. IInv => BusLockstep
  BY DEF IInv
<1>2. QED
  BY InitIInv, NextIInv, <1>1, PTL DEF Spec

\* No address moves under a burst.
THEOREM AddressesHeld == Spec => AddressHeld
<1>1. IInv /\ [Next]_vars =>
        [/\ w_crt # "W_IDLE" => maddr' = maddr
         /\ r_crt \in {"D_AR", "D_R"} => d_raddr' = d_raddr]_vars
  <2> SUFFICES ASSUME IInv, Next
               PROVE  /\ w_crt # "W_IDLE" => maddr' = maddr
                      /\ r_crt \in {"D_AR", "D_R"} => d_raddr' = d_raddr
    OBVIOUS
  <2>1. MainFsm /\ MissAddress /\ FsmLockstep /\ WriteLockstep /\ ReadLockstep
    BY DEF IInv, BusLockstep, Next, Cycle, DCacheClock
  <2>2. w_crt # "W_IDLE" => maddr' = maddr
    BY <2>1, WriteHeld DEF WriteLockstep
  <2>3. ASSUME r_crt \in {"D_AR", "D_R"}
        PROVE  d_raddr' = d_raddr
    <3>1. state = "MISS" /\ ~fence
      BY <2>1, <2>3 DEF ReadLockstep, d_rvalid
    <3>2. req' = req
      BY <2>1, <3>1 DEF MainFsm, IdleQuiet, IdleHit, IdleMiss, IdleUncached, IdleFence, FenceLine,
                        MissWait, Refill, WriteWaiting, AccessDone, FenceNext, FenceDone
    <3>3. QED
      BY <3>2 DEF d_raddr, uncached
  <2>4. QED
    BY <2>2, <2>3
<1>2. QED
  BY InitIInv, NextIInv, <1>1, PTL DEF Spec, AddressHeld

-----------------------------------------------------------------------------
(* Coherence: where the last value of every line is, at every cycle of a   *)
(* miss, a write-back or a walk                                            *)

\* Requests as the pipeline makes them: a load writes no lane, and the register
\* fields of a fence do not add up to the address of a device.
Plain(r) ==
  /\ r.op = "load" => r.strb = {}
  /\ r.op \in Fence => r.addr.tag \in Tags

PlainRequests == FenceAfterAccess = FALSE /\ \A r \in Requests : Plain(r)

cached == access /\ ~uncached

\* What the arrays hold counts as long as it is valid or has yet to be written.
Live(w, s) == valid[w][s] \/ dirty[w][s]

\* The way a miss takes.
evicted == 1 - lru[req.addr.set]

\* The line in the write-back buffer.
Flying(t, s) == wfsm = "WRITE" /\ t = maddr.tag /\ s = maddr.set

\* Memory is up to date, or will be when the write-back ends.
Written(t, s) == mem[t][s] = view[t][s] \/ Flying(t, s)

\* The words of the line in flight that have reached memory.
sent == IF w_crt = "D_W" THEN write_counter + 1 ELSE write_counter

\* The lines a fence has dealt with.
Passed(w, s) ==
  \/ state = "WAIT_WRITE" /\ walk_end
  \/ w < addr_cnt.way
  \/ w = addr_cnt.way /\ s < addr_cnt.set
  \/ state = "MISS" /\ wfsm # "INIT" /\ w = addr_cnt.way /\ s = addr_cnt.set

\* What lines hold when the request in WAIT_WRITE has been served.
promised == IF state = "WAIT_WRITE" THEN stored ELSE view

\* What is in EX when something is in LS.
Orderly ==
  /\ Plain(ex) /\ Plain(req)
  /\ fence => ex.op = "none"
  /\ ex.op \in Fence => ~cached

\* The arrays are looked up where the request is, or where the walk is.
Indexed ==
  /\ state = "IDLE" => \A w \in Ways : valid_rdata[w] = valid[w][rd_index]
  /\ state = "IDLE" /\ cached => rd_index = req.addr.set
  /\ state \in {"IDLE", "MISS"} /\ fence => rd_index = addr_cnt.set
  /\ state = "IDLE" \/ ~fence \/ (state = "MISS" /\ wfsm # "INIT") =>
       addr_cnt = [way |-> 0, set |-> 0]

\* A line is in one way; one that has yet to be written is valid unless a fence
\* has dropped it.
Placed ==
  /\ \A s \in Sets : Live(0, s) /\ Live(1, s) => tags[0][s] # tags[1][s]
  /\ \A w \in Ways, s \in Sets :
       IF state # "IDLE" /\ req.op = "fence" THEN ~valid[w][s] ELSE dirty[w][s] => valid[w][s]
  /\ state \in {"MISS", "REFILL"} /\ cached =>
       \A w \in Ways : Live(w, req.addr.set) => tags[w][req.addr.set] # req.addr.tag
  /\ state = "WAIT_WRITE" /\ cached =>
       \E w \in Ways : valid[w][req.addr.set] /\ tags[w][req.addr.set] = req.addr.tag

\* What the program stored last is in the cache if the line is there, else in
\* memory or on its way.
Current ==
  /\ \A w \in Ways, s \in Sets : Live(w, s) =>
       data[w][s] = promised[tags[w][s]][s]
  /\ CleanMatchesMemory
  /\ \A t \in Tags, s \in Sets :
       (\A w \in Ways : Live(w, s) => tags[w][s] # t) => Written(t, s)

\* The victim of a miss is written before it is replaced, and each line of a walk
\* before the next.
Saved ==
  /\ state \in {"MISS", "REFILL"} /\ cached =>
       (dirty[evicted][req.addr.set] => Written(tags[evicted][req.addr.set], req.addr.set))
  /\ state # "IDLE" /\ fence =>
       \A w \in Ways, s \in Sets : Passed(w, s) /\ dirty[w][s] => Written(tags[w][s], s)

\* What is being written back: words of a line that is, or was, dirty.
WriteBack ==
  wfsm = "WRITE" =>
    /\ uncached => maddr.tag \notin Tags
    /\ ~uncached =>
         /\ maddr.tag \in Tags
         /\ \A i \in Words : write_counter + i < WordNum =>
              wbuf[i] = view[maddr.tag][maddr.set][write_counter + i]
         /\ \A i \in Words : i < sent => mem[maddr.tag][maddr.set][i] = view[maddr.tag][maddr.set][i]
    /\ cached => maddr.set = req.addr.set /\ maddr.tag # req.addr.tag
    /\ cached /\ state \in {"MISS", "REFILL"} =>
         dirty[evicted][req.addr.set] /\ tags[evicted][req.addr.set] = maddr.tag
    /\ cached /\ state = "WAIT_WRITE" =>
         \A w \in Ways : Live(w, req.addr.set) => tags[w][req.addr.set] # maddr.tag
    /\ fence => \E w \in Ways : dirty[w][maddr.set] /\ tags[w][maddr.set] = maddr.tag
    /\ fence /\ state = "MISS" =>
         /\ dirty[addr_cnt.way][addr_cnt.set] /\ tags[addr_cnt.way][addr_cnt.set] = maddr.tag
         /\ maddr.set = addr_cnt.set

\* The words of the line being read, shifted in from the top.
ReadIn ==
  /\ r_crt = "D_R" /\ ~uncached =>
       /\ rdata = view[req.addr.tag][req.addr.set][rcount - 1]
       /\ \A i \in Words : i < rcount - 1 =>
            ret_buf[WordNum - rcount + 1 + i] = view[req.addr.tag][req.addr.set][i]
  /\ state \in {"REFILL", "WAIT_WRITE"} /\ cached =>
       ret_buf = view[req.addr.tag][req.addr.set]

CInv == Orderly /\ Indexed /\ Placed /\ Current /\ Saved /\ WriteBack /\ ReadIn

-----------------------------------------------------------------------------
(* Coherence: what a cycle does to it *)

\* The types the steps below rest on.
LEMMA Typed ==
  ASSUME TypeOK
  PROVE  /\ req \in Request /\ ex \in Request
         /\ req.addr \in Addr /\ req.addr.set \in Sets /\ req.addr.word \in Words
         /\ req.addr.tag \in Tags \cup DeviceTags /\ req.data \in Word
         /\ req.op \in {"none"} \cup Access \cup Fence
         /\ req.addr.tag \in Tags <=> ~uncached
         /\ data \in [Ways -> [Sets -> Line]] /\ tags \in [Ways -> [Sets -> Tags]]
         /\ valid \in [Ways -> [Sets -> BOOLEAN]] /\ dirty \in [Ways -> [Sets -> BOOLEAN]]
         /\ valid_rdata \in [Ways -> BOOLEAN]
         /\ lru \in [Sets -> Ways] /\ rd_index \in Sets
         /\ addr_cnt \in [way : Ways, set : Sets] /\ addr_cnt.way \in Ways /\ addr_cnt.set \in Sets
         /\ ret_buf \in Line /\ wbuf \in Line /\ maddr \in Addr /\ maddr.set \in Sets
         /\ state \in {"IDLE", "MISS", "REFILL", "WAIT_WRITE"}
         /\ wfsm \in {"INIT", "WRITE", "FINISH"} /\ write_counter \in Nat
         /\ w_crt \in {"W_IDLE", "D_AW", "D_W", "D_B"}
         /\ view \in [Tags -> [Sets -> Line]] /\ mem \in [Tags -> [Sets -> Line]]
         /\ rdata \in Word
         /\ ~(access /\ fence)
<1>1. DCacheTypeOK /\ ArbiterTypeOK /\ PmemTypeOK
  BY DEF TypeOK
<1>2. req \in Request /\ ex \in Request /\ maddr \in Addr
  BY <1>1 DEF DCacheTypeOK
<1>3. /\ req.addr \in Addr /\ req.data \in Word /\ req.op \in {"none"} \cup Access \cup Fence
  BY <1>2 DEF Request
<1>4. /\ req.addr.set \in Sets /\ req.addr.word \in Words /\ maddr.set \in Sets
      /\ req.addr.tag \in Tags \cup DeviceTags
  BY <1>2, <1>3 DEF Addr
<1>5. req.addr.tag \in Tags <=> ~uncached
  BY <1>4, GeometryAssumption DEF uncached
<1>6. write_counter \in Nat
  BY <1>1, GeometryAssumption DEF DCacheTypeOK
<1>7. addr_cnt \in [way : Ways, set : Sets] /\ addr_cnt.way \in Ways /\ addr_cnt.set \in Sets
  BY <1>1 DEF DCacheTypeOK
<1>8. ~(access /\ fence)
  BY DEF access, fence, Access, Fence
<1>9. view \in [Tags -> [Sets -> Line]]
  BY DEF TypeOK
<1> QED
  BY <1>1, <1>2, <1>3, <1>4, <1>5, <1>6, <1>7, <1>8, <1>9
     DEF DCacheTypeOK, ArbiterTypeOK, PmemTypeOK

\* The request moves on exactly when the pipeline does.
LEMMA RequestMoves ==
  ASSUME TypeOK, FsmLockstep, MainFsm
  PROVE  IF retiring THEN req' = ex /\ state' = "IDLE" /\ wfsm # "WRITE" ELSE req' = req
<1>1. ~(access /\ fence) /\ state \in {"IDLE", "MISS", "REFILL", "WAIT_WRITE"}
  BY Typed
<1>2. CASE IdleQuiet \/ IdleHit
  <2>1. ~wfsm_en /\ state = "IDLE" /\ req' = ex /\ state' = "IDLE"
    BY <1>1, <1>2 DEF IdleQuiet, IdleHit, wfsm_en
  <2> QED
    BY <2>1 DEF retiring, dcache_miss, FsmLockstep
<1>3. CASE IdleMiss \/ IdleUncached \/ IdleFence
  <2>1. wfsm_en /\ req' = req
    BY <1>3 DEF IdleMiss, IdleUncached, IdleFence, wfsm_en
  <2> QED
    BY <2>1 DEF retiring, dcache_miss
<1>4. CASE FenceLine \/ MissWait \/ Refill
  BY <1>4 DEF FenceLine, MissWait, Refill, retiring, dcache_miss
<1>5. CASE WriteWaiting \/ FenceNext
  BY <1>5 DEF WriteWaiting, FenceNext, retiring, dcache_miss
<1>6. CASE AccessDone \/ FenceDone
  <2>1. state = "WAIT_WRITE" /\ wrt_finish /\ (fence => walk_end) /\ req' = ex /\ state' = "IDLE"
    BY <1>6 DEF AccessDone, FenceDone
  <2> QED
    BY <2>1 DEF retiring, dcache_miss, wfsm_en, wrt_finish
<1> QED
  BY <1>2, <1>3, <1>4, <1>5, <1>6 DEF MainFsm

\* The pipeline keeps a fence apart from the accesses before and after it.
LEMMA OrderlyStep ==
  ASSUME TypeOK, BusLockstep, PlainRequests, Orderly, Cycle
  PROVE  Orderly'
<1>1. Pipeline /\ MainFsm /\ FsmLockstep
  BY DEF Cycle, DCacheClock, BusLockstep
<1>2. CASE ~retiring
  <2>1. ex' = ex /\ req' = req
    BY <1>1, <1>2, RequestMoves DEF Pipeline, retiring
  <2> QED
    BY <2>1 DEF Orderly, Plain, fence, cached, access, uncached
<1>3. CASE retiring
  <2>1. req' = ex
    BY <1>1, <1>3, RequestMoves
  <2>2. PICK r \in Requests \cup {Bubble} : Issue(r)
    BY <1>1, <1>3 DEF Pipeline, retiring
  <2>3. /\ ex' = r /\ Plain(r)
        /\ ex.op \in Fence => r.op = "none"
        /\ r.op \in Fence => ~(ex.op \in Access /\ ex.addr.tag \in Tags)
    BY <2>2, Defaults DEF Issue, PlainRequests, Plain, Fence
  <2>4. ex.addr.tag \in Tags \cup DeviceTags
    BY Typed DEF Request, Addr
  <2> QED
    BY <2>1, <2>3, <2>4 DEF Orderly, fence, cached, access, uncached
<1> QED
  BY <1>2, <1>3

\* Before the reset is over nothing is in the machine.
LEMMA OrderlyInit == Init => Orderly
BY Defaults DEF Init, DCacheInit, Orderly, Plain, fence, cached, access, Access, Fence

\* Merging no lane changes nothing, and a line differs from another in the word
\* a request names.
LEMMA MergeNothing ==
  ASSUME NEW old \in Word, NEW new
  PROVE  Merge(old, new, {}) = old
BY DEF Merge, Word

\* A line after the request in LS.
LEMMA StoredLine ==
  ASSUME TypeOK, Plain(req)
  PROVE  /\ stored \in [Tags -> [Sets -> Line]]
         /\ \A t \in Tags, s \in Sets :
              ~(cached /\ t = req.addr.tag /\ s = req.addr.set) => stored[t][s] = view[t][s]
         /\ ~(cached /\ req.op = "store") => stored = view
         /\ cached => stored[req.addr.tag][req.addr.set] =
              [view[req.addr.tag][req.addr.set] EXCEPT
                 ![req.addr.word] = Merge(@, req.data, req.strb)]
<1> DEFINE old == view[req.addr.tag][req.addr.set]
           new == [old EXCEPT ![req.addr.word] = Merge(@, req.data, req.strb)]
<1>1. /\ view \in [Tags -> [Sets -> Line]] /\ req.addr.set \in Sets /\ req.addr.word \in Words
      /\ req.data \in Word /\ (req.addr.tag \in Tags <=> ~uncached)
  BY Typed
<1>2. ~(cached /\ req.op = "store") => stored = view
  BY DEF stored, cached, access, Access
<1>3. CASE cached
  <2>1. req.addr.tag \in Tags /\ ~uncached /\ req.op \in {"load", "store"}
    BY <1>1, <1>3 DEF cached, access, Access
  <2>2. old \in Line /\ old[req.addr.word] \in Word
    BY <1>1, <2>1 DEF Line
  <2>3. new \in Line
    <3>1. Merge(old[req.addr.word], req.data, req.strb) \in Word
      BY <1>1, <2>2, MergeType
    <3> QED BY <1>1, <2>2, <3>1 DEF Line
  <2>4. CASE req.op = "store"
    <3>1. stored = [view EXCEPT ![req.addr.tag][req.addr.set] = new]
      BY <2>1, <2>4 DEF stored
    <3> HIDE DEF new
    <3>2. stored[req.addr.tag][req.addr.set] = new /\ stored \in [Tags -> [Sets -> Line]]
      BY <1>1, <2>1, <2>3, <3>1
    <3>3. \A t \in Tags, s \in Sets :
            ~(t = req.addr.tag /\ s = req.addr.set) => stored[t][s] = view[t][s]
      BY <1>1, <2>1, <3>1
    <3> QED BY <1>2, <1>3, <3>2, <3>3 DEF new
  <2>5. CASE req.op = "load"
    <3>1. stored = view
      BY <1>2, <2>5
    <3>2. req.strb = {}
      BY <2>5 DEF Plain
    <3>3. Merge(old[req.addr.word], req.data, req.strb) = old[req.addr.word]
      BY <2>2, <3>2, MergeNothing
    <3>4. new = old
      BY <2>2, <3>3 DEF Line
    <3> QED BY <1>1, <1>2, <3>1, <3>4
  <2> QED BY <2>1, <2>4, <2>5
<1>4. CASE ~cached
  BY <1>1, <1>2, <1>4
<1> QED BY <1>3, <1>4

\* What the lines hold changes with a hit and with a refill.
LEMMA PromisedStep ==
  ASSUME TypeOK, FsmLockstep, Plain(req), Cycle
  PROVE  /\ promised \in [Tags -> [Sets -> Line]]
         /\ state # "WAIT_WRITE" => promised = view
         /\ ~retiring => view' = view
         /\ wfsm = "WRITE" => ~retiring
         /\ IdleHit \/ Refill => promised' = stored
         /\ ~(IdleHit \/ Refill) => promised' = promised
<1>1. MainFsm /\ view' = (IF retiring THEN stored ELSE view)
  BY DEF Cycle, DCacheClock, History, retiring
<1>2. IF retiring THEN req' = ex /\ state' = "IDLE" /\ wfsm # "WRITE" ELSE req' = req
  BY <1>1, RequestMoves
<1>3. /\ stored \in [Tags -> [Sets -> Line]] /\ view \in [Tags -> [Sets -> Line]]
      /\ ~(cached /\ req.op = "store") => stored = view
      /\ ~(access /\ fence)
  BY StoredLine, Typed
<1>4. ~retiring => stored' = stored /\ view' = view
  BY <1>1, <1>2 DEF stored, uncached
<1>5. CASE retiring
  <2>1. promised' = stored
    BY <1>1, <1>2, <1>5 DEF promised
  <2>2. state = "WAIT_WRITE" => promised = stored
    BY DEF promised
  <2>3. state # "WAIT_WRITE" /\ ~IdleHit => promised = stored /\ ~Refill
    <3>1. CASE IdleQuiet
      BY <1>3, <3>1 DEF IdleQuiet, promised, cached, Refill
    <3>2. state # "WAIT_WRITE" /\ ~IdleHit => IdleQuiet
      BY <1>1, <1>5 DEF MainFsm, IdleMiss, IdleUncached, IdleFence, FenceLine, MissWait, Refill,
        WriteWaiting, AccessDone, FenceNext, FenceDone, retiring, dcache_miss, wfsm_en
    <3> QED BY <3>1, <3>2
  <2>4. state = "WAIT_WRITE" => ~IdleHit /\ ~Refill
    BY DEF IdleHit, Refill
  <2> QED BY <1>2, <1>3, <1>5, <2>1, <2>2, <2>3, <2>4 DEF promised
<1>6. CASE ~retiring
  <2>1. ~IdleHit
    <3>1. IdleHit => state = "IDLE" /\ ~wfsm_en
      BY <1>3 DEF IdleHit, wfsm_en
    <3> QED BY <1>6, <3>1 DEF retiring, dcache_miss
  <2>2. CASE Refill
    BY <1>3, <1>4, <1>6, <2>1, <2>2 DEF Refill, promised
  <2>3. CASE ~Refill
    <3>1. state' = "WAIT_WRITE" => state = "WAIT_WRITE" \/ stored = view
      <4>1. CASE IdleUncached \/ FenceLine
        BY <1>3, <4>1 DEF IdleUncached, FenceLine, cached
      <4>2. CASE MissWait
        BY <1>3, <4>2 DEF MissWait, cached
      <4> QED BY <1>1, <2>1, <2>3, <4>1, <4>2 DEF MainFsm, IdleQuiet, IdleMiss, IdleFence,
           WriteWaiting, AccessDone, FenceNext, FenceDone
    <3>2. state = "WAIT_WRITE" /\ state' # "WAIT_WRITE" => stored = view
      BY <1>1, <1>3, <1>6, <2>3 DEF MainFsm, IdleQuiet, IdleHit, IdleMiss, IdleUncached, IdleFence,
           FenceLine, MissWait, WriteWaiting, AccessDone, FenceNext, FenceDone, retiring,
           dcache_miss, wrt_finish, cached, wfsm_en
    <3> QED BY <1>3, <1>4, <1>6, <2>1, <2>3, <3>1, <3>2 DEF promised
  <2> QED BY <2>2, <2>3
<1> QED BY <1>2, <1>5, <1>6

\* The registered lookup follows the request, or the walk.
LEMMA IndexedStep ==
  ASSUME TypeOK, BusLockstep, Orderly, Indexed, Placed, Cycle
  PROVE  Indexed'
<1>1. MainFsm /\ CacheWriteFsm /\ ValidBits /\ ReadPort /\ FsmLockstep
  BY DEF Cycle, DCacheClock, BusLockstep
<1>2. IF retiring THEN req' = ex /\ state' = "IDLE" ELSE req' = req
  BY <1>1, RequestMoves
<1>3. ~(access /\ fence) /\ state \in {"IDLE", "MISS", "REFILL", "WAIT_WRITE"}
        /\ valid \in [Ways -> [Sets -> BOOLEAN]] /\ r_index \in Sets
  BY Typed, CacheWires DEF TypeOK
<1>4. CASE retiring
  <2>1. /\ IdleQuiet \/ IdleHit \/ AccessDone \/ FenceDone
    BY <1>1, <1>3, <1>4 DEF MainFsm, IdleMiss, IdleUncached, IdleFence, FenceLine, MissWait, Refill,
       WriteWaiting, FenceNext, retiring, dcache_miss, wfsm_en
  <2>2. addr_cnt' = addr_cnt /\ addr_cnt = [way |-> 0, set |-> 0]
    BY <2>1, <1>3 DEF IdleQuiet, IdleHit, AccessDone, FenceDone, Indexed, walk_end
  <2>3. state # "REFILL" /\ (req.op = "fence" => state # "IDLE")
    BY <2>1, <1>3 DEF IdleQuiet, IdleHit, AccessDone, FenceDone, fence, Fence
  <2>4. \A w \in Ways : valid_rdata'[w] = valid'[w][r_index]
    <3>1. CASE req.op = "fence"
      <4>1. \A w \in Ways : ~valid[w][r_index]
        BY <1>3, <2>3, <3>1 DEF Placed
      <4> QED BY <1>1, <1>3, <3>1, <4>1 DEF ValidBits
    <3>2. CASE req.op # "fence"
      BY <1>1, <1>3, <2>3, <3>2 DEF ValidBits
    <3> QED BY <3>1, <3>2
  <2>5. rd_index' = r_index
    BY <1>1 DEF ReadPort
  <2>6. ex.op \in Access => r_index = ex.addr.set
    BY DEF r_index, read_from_cnt, Orderly, Access, Fence
  <2>7. ex.op \in Fence => r_index = addr_cnt.set
    BY DEF r_index, read_from_cnt
  <2> QED BY <1>2, <1>4, <2>2, <2>4, <2>5, <2>6, <2>7 DEF Indexed, cached, access, fence
<1>5. CASE ~retiring
  <2>1. req' = req /\ fence' = fence
    BY <1>2, <1>5 DEF fence
  <2>2. state' # "IDLE"
    BY <1>1, <1>3, <1>5 DEF MainFsm, IdleQuiet, IdleHit, IdleMiss, IdleUncached, IdleFence, FenceLine,
       MissWait, Refill, WriteWaiting, AccessDone, FenceNext, FenceDone, retiring, dcache_miss, wfsm_en
  <2>3. fence => rd_index' = addr_cnt.set
    BY <1>1 DEF ReadPort, r_index, read_from_cnt
  <2>4. ~(fence /\ state = "MISS") => addr_cnt' = addr_cnt
    BY <1>1 DEF MainFsm, IdleQuiet, IdleHit, IdleMiss, IdleUncached, IdleFence, FenceLine,
       MissWait, Refill, WriteWaiting, AccessDone, FenceNext, FenceDone
  <2>5. fence /\ state' = "MISS" => state # "MISS" /\ (state = "IDLE" \/ FenceNext)
    BY <1>1, <1>3 DEF MainFsm, IdleQuiet, IdleHit, IdleMiss, IdleUncached, IdleFence, FenceLine,
       MissWait, Refill, WriteWaiting, AccessDone, FenceNext, FenceDone
  <2>6. FenceNext => wfsm' = "INIT"
    BY <1>1 DEF FenceNext, CacheWriteFsm, WriteInit, WriteBurst, WriteFinish, wrt_finish
  <2> QED BY <2>1, <2>2, <2>3, <2>4, <2>5, <2>6 DEF Indexed
<1> QED BY <1>4, <1>5

\* A word that is poked with all its lanes is the new one.
LEMMA PokeAll ==
  ASSUME NEW old, NEW new \in Word
  PROVE  Poke(old, new, Lanes) = new
<1>1. Cardinality(Lanes) = LaneNum
  <2>1. LaneNum - 1 \in Int /\ 0 \in Int /\ ~(0 > LaneNum - 1)
    BY GeometryAssumption
  <2> QED BY <2>1, FS_Interval, GeometryAssumption DEF Lanes
<1>2. \A l \in Lanes : l < Cardinality(Lanes)
  BY <1>1, GeometryAssumption DEF Lanes
<1> QED BY <1>2 DEF Poke, Word

\* The only word of memory a cycle writes is the next one of the burst.
LEMMA MemStep ==
  ASSUME TypeOK, BusLockstep, Cycle
  PROVE  /\ wfsm # "WRITE" \/ w_crt' # "D_W" \/ maddr.tag \notin Tags => mem' = mem
         /\ wfsm = "WRITE" /\ w_crt' = "D_W" /\ maddr.tag \in Tags =>
              /\ write_counter' \in Words
              /\ mem' = [mem EXCEPT ![maddr.tag][maddr.set][write_counter'] =
                           Poke(@, wbuf'[0], d_wstrb')]
<1>1. /\ WriteLockstep /\ WriteLockstep' /\ AlignedWrite /\ FsmLockstep
      /\ MainFsm /\ MissAddress /\ WriteFsm(d_wvalid, d_wlast)
      /\ w_crt \in {"W_IDLE", "D_AW", "D_W", "D_B"} /\ wcount \in Nat /\ write_counter' \in Nat
      /\ write_num' \in Nat /\ write_num' <= WordNum - 1
  <2>1. DCacheTypeOK'
    BY CacheTyped DEF Cycle
  <2>2. write_counter' \in Nat
    BY <2>1, GeometryAssumption DEF DCacheTypeOK
  <2>3. (write_num \in Nat /\ write_num <= WordNum - 1)'
    BY GeometryAssumption DEF write_num
  <2> QED
    BY <2>2, <2>3, WriteLockstepStep, GeometryAssumption
       DEF BusLockstep, Cycle, DCacheClock, TypeOK, ArbiterTypeOK, PmemTypeOK
<1>2. PmemWrite(awvalid', maddr', wvalid', wbuf'[0], d_wstrb', wlast(d_wlast)', bready(d_bready)')
  BY DEF Cycle, Slave
<1>3. wfsm # "WRITE" => mem' = mem
  BY <1>1, <1>2 DEF WriteLockstep, PmemWrite, WriteQuiet, WriteAccept, WriteWait, WriteBeat,
     WriteRespond
<1>4. w_crt' # "D_W" => mem' = mem
  BY <1>2 DEF wvalid, PmemWrite, WriteQuiet, WriteAccept, WriteWait, WriteBeat, WriteRespond
<1>5. ASSUME wfsm = "WRITE", w_crt' = "D_W"
      PROVE  /\ WriteBeat(TRUE, wbuf'[0], d_wstrb', wlast(d_wlast)')
             /\ awaddr = maddr /\ wcount = write_counter' /\ write_counter' \in Words
  <2>1. w_crt \in {"D_AW", "D_W"}
    BY <1>1, <1>5 DEF WriteFsm
  <2>2. awaddr = maddr
    BY <1>1, <2>1 DEF WriteLockstep
  <2>3. wstate = 1
    BY <1>1, <1>5, <2>1 DEF WriteLockstep, WriteFsm, d_wlast, write_num
  <2>4. WriteBeat(TRUE, wbuf'[0], d_wstrb', wlast(d_wlast)')
    BY <1>2, <1>5, <2>3
       DEF wvalid, awvalid, PmemWrite, WriteQuiet, WriteAccept, WriteWait, WriteBeat, WriteRespond
  <2>5. wcount' = wcount + 1 /\ wcount' = write_counter' + 1 /\ write_counter' <= write_num'
    BY <1>1, <1>5, <2>4 DEF WriteLockstep, WriteBeat
  <2>6. wcount = write_counter'
    <3>1. wcount \in Nat /\ write_counter' \in Nat
      BY <1>1
    <3>2. wcount + 1 = write_counter' + 1
      BY <2>5
    <3>3. \A a, b \in Nat : a + 1 = b + 1 => a = b
      OBVIOUS
    <3> QED BY <3>1, <3>2, <3>3
  <2>7. write_counter' \in Words
    BY <1>1, <2>5, GeometryAssumption DEF Words
  <2> QED BY <2>2, <2>4, <2>6, <2>7
<1>6. maddr.tag \notin Tags /\ wfsm = "WRITE" /\ w_crt' = "D_W" => mem' = mem
  BY <1>5 DEF WriteBeat, InPmem
<1>7. ASSUME wfsm = "WRITE", w_crt' = "D_W", maddr.tag \in Tags
      PROVE  mem' = [mem EXCEPT ![maddr.tag][maddr.set][write_counter'] =
                       Poke(@, wbuf'[0], d_wstrb')]
  <2>1. maddr.word = 0
    BY <1>1, <1>7 DEF AlignedWrite
  <2>2. awaddr.word + wcount = write_counter' /\ awaddr = maddr
    BY <1>1, <1>5, <1>7, <2>1
  <2> QED BY <1>5, <1>7, <2>2 DEF WriteBeat, InPmem
<1> QED BY <1>3, <1>4, <1>5, <1>6, <1>7

\* A burst brings the line in the write-back buffer to memory, and no other.
LEMMA BurstStep ==
  ASSUME TypeOK, BusLockstep, Plain(req), Indexed, Current, WriteBack, Cycle, wfsm = "WRITE", ~uncached
  PROVE  /\ req' = req /\ view' = view
         /\ wfsm' \in {"WRITE", "FINISH"}
         /\ maddr'.tag = maddr.tag /\ maddr'.set = maddr.set
         /\ wfsm' = "WRITE" =>
              /\ \A i \in Words : write_counter' + i < WordNum =>
                   wbuf'[i] = view[maddr.tag][maddr.set][write_counter' + i]
              /\ \A i \in Words : i < sent' =>
                   mem'[maddr.tag][maddr.set][i] = view[maddr.tag][maddr.set][i]
         /\ wfsm' = "FINISH" => mem'[maddr.tag][maddr.set] = view[maddr.tag][maddr.set]
         /\ \A t \in Tags, s \in Sets :
              ~(t = maddr.tag /\ s = maddr.set) => mem'[t][s] = mem[t][s]
<1> DEFINE line == view[maddr.tag][maddr.set]
<1>1. /\ MainFsm /\ WriteBackBuffer /\ MissAddress /\ FsmLockstep /\ WriteLockstep
      /\ WriteFsm(d_wvalid, d_wlast) /\ CacheWriteFsm /\ state # "IDLE"
  BY DEF Cycle, DCacheClock, BusLockstep, FsmLockstep
<1>2. req' = req /\ view' = view
  BY <1>1, RequestMoves, PromisedStep
<1>3. WriteBurst
  BY <1>1 DEF CacheWriteFsm, WriteInit, WriteFinish
<1>4. wfsm' \in {"WRITE", "FINISH"}
  BY <1>3 DEF WriteBurst
<1>5. /\ maddr.tag \in Tags /\ maddr.set \in Sets
      /\ line \in Line
      /\ \A i \in Words : write_counter + i < WordNum => wbuf[i] = line[write_counter + i]
      /\ \A i \in Words : i < sent => mem[maddr.tag][maddr.set][i] = line[i]
      /\ mem \in [Tags -> [Sets -> Line]] /\ wbuf \in Line /\ write_counter \in Nat
      /\ w_crt \in {"W_IDLE", "D_AW", "D_W", "D_B"} /\ write_num = WordNum - 1
  BY Typed DEF WriteBack, write_num
<1> HIDE DEF line
<1>6. /\ maddr'.tag = maddr.tag /\ maddr'.set = maddr.set
      /\ \A i \in Words : write_counter' + i < WordNum => wbuf'[i] = line[write_counter' + i]
  <2>1. CASE wfsm_en
    <3>1. state = "MISS" /\ fence
      BY <1>1, <2>1 DEF wfsm_en
    <3>2. /\ rd_index = addr_cnt.set /\ w_index = addr_cnt.set /\ victim = addr_cnt.way
          /\ dirty[addr_cnt.way][addr_cnt.set] /\ tags[addr_cnt.way][addr_cnt.set] = maddr.tag
          /\ maddr.set = addr_cnt.set /\ addr_cnt.way \in Ways /\ addr_cnt.set \in Sets
      BY <3>1, Typed DEF Indexed, WriteBack, w_index, victim, read_from_cnt
    <3>3. data[addr_cnt.way][addr_cnt.set] = line
      BY <3>1, <3>2 DEF Current, Live, promised, line
    <3>4. wbuf' = line
      BY <1>1, <2>1, <3>1, <3>2, <3>3 DEF WriteBackBuffer
    <3>5. maddr'.tag = maddr.tag /\ maddr'.set = maddr.set
      BY <1>1, <2>1, <3>2 DEF MissAddress
    <3>6. w_crt = "W_IDLE" /\ write_counter = 0
      BY <1>1, <3>1 DEF FsmLockstep, WriteLockstep
    <3>7. write_counter' = 0
      BY <1>3, <3>6 DEF WriteBurst, d_wready
    <3> QED BY <3>4, <3>5, <3>7, GeometryAssumption DEF Words
  <2>2. CASE ~wfsm_en /\ d_wready
    <3>1. maddr' = maddr
      BY <1>1, <2>2 DEF MissAddress
    <3>2. write_counter' = write_counter + 1
      BY <1>3, <2>2 DEF WriteBurst
    <3>3. w_crt = "D_W" /\ write_counter <= WordNum - 1 /\ d_wvalid
      BY <1>1, <1>5, <2>2, GeometryAssumption DEF d_wready, WriteLockstep, d_wvalid
    <3>4. wbuf' = Shift(wbuf, ZeroWord)
      BY <1>1, <2>2, <3>3 DEF WriteBackBuffer
    <3>5. ASSUME NEW i \in Words, write_counter' + i < WordNum
          PROVE  wbuf'[i] = line[write_counter' + i]
      <4>1. i \in Nat /\ i # WordNum - 1 /\ i + 1 \in Words /\ write_counter + (i + 1) < WordNum
            /\ write_counter + (i + 1) = write_counter' + i
        BY <1>5, <3>2, <3>5, GeometryAssumption DEF Words
      <4>2. wbuf'[i] = wbuf[i + 1]
        BY <3>4, <4>1 DEF Shift
      <4> QED BY <1>5, <4>1, <4>2
    <3> QED BY <3>1, <3>5
  <2>3. CASE ~wfsm_en /\ ~d_wready
    BY <1>1, <1>3, <1>5, <2>3 DEF MissAddress, WriteBackBuffer, WriteBurst
  <2> QED BY <2>1, <2>2, <2>3
<1>7. /\ \A t \in Tags, s \in Sets : ~(t = maddr.tag /\ s = maddr.set) => mem'[t][s] = mem[t][s]
      /\ mem' \in [Tags -> [Sets -> Line]]
      /\ w_crt' # "D_W" => mem' = mem
      /\ w_crt' = "D_W" => /\ write_counter' \in Words
                           /\ mem'[maddr.tag][maddr.set][write_counter'] = line[write_counter']
                           /\ \A i \in Words : i # write_counter' =>
                                mem'[maddr.tag][maddr.set][i] = mem[maddr.tag][maddr.set][i]
  <2>1. mem' \in [Tags -> [Sets -> Line]] /\ wbuf' \in Line
    BY StepTyped, CacheTyped DEF TypeOK, PmemTypeOK, Cycle, DCacheTypeOK
  <2>2. w_crt' # "D_W" => mem' = mem
    BY MemStep
  <2>3. CASE w_crt' = "D_W"
    <3>1. /\ write_counter' \in Words
          /\ mem' = [mem EXCEPT ![maddr.tag][maddr.set][write_counter'] =
                       Poke(@, wbuf'[0], d_wstrb')]
      BY <1>5, <2>3, MemStep
    <3>2. d_wstrb' = Lanes
      BY <1>2 DEF d_wstrb, uncached
    <3>3. wbuf'[0] \in Word /\ wbuf'[0] = line[write_counter']
      <4>1. 0 \in Words /\ write_counter' + 0 < WordNum /\ write_counter' + 0 = write_counter'
        BY <3>1, GeometryAssumption DEF Words
      <4> QED BY <1>6, <2>1, <4>1 DEF Line
    <3>4. mem' = [mem EXCEPT ![maddr.tag][maddr.set][write_counter'] = line[write_counter']]
      BY <3>1, <3>2, <3>3, PokeAll
    <3>5. mem[maddr.tag][maddr.set] \in Line
      BY <1>5
    <3> QED BY <1>5, <2>1, <2>3, <3>1, <3>4, <3>5 DEF Line
  <2> QED BY <2>1, <2>2, <2>3
<1>8. \A i \in Words : wfsm' = "WRITE" /\ i < sent' => mem'[maddr.tag][maddr.set][i] = line[i]
  <2>1. CASE w_crt = "W_IDLE"
    <3>1. w_crt' # "D_W" /\ write_counter' = 0
      BY <1>1, <1>3, <2>1 DEF WriteFsm, WriteLockstep, WriteBurst, d_wready
    <3> QED BY <3>1, GeometryAssumption DEF sent, Words
  <2>2. CASE w_crt = "D_AW"
    <3>1. write_counter' = 0
      BY <1>1, <1>3, <2>2 DEF WriteLockstep, WriteBurst, d_wready
    <3>2. w_crt' = "D_W"
      BY <1>1, <2>2 DEF WriteFsm, WriteLockstep
    <3> QED BY <1>7, <3>1, <3>2, GeometryAssumption DEF sent, Words
  <2>3. CASE w_crt = "D_W"
    <3>1. write_counter' = write_counter + 1 /\ sent = write_counter + 1 /\ w_crt' \in {"D_W", "D_B"}
      BY <1>1, <1>3, <2>3 DEF WriteLockstep, WriteBurst, d_wready, WriteFsm, sent
    <3>2. \A i \in Words : i < sent' => i < sent \/ (w_crt' = "D_W" /\ i = write_counter')
      BY <1>5, <3>1 DEF sent, Words
    <3> QED BY <1>5, <1>7, <3>1, <3>2
  <2>4. CASE w_crt = "D_B"
    BY <1>1, <1>3, <2>4 DEF WriteLockstep, WriteBurst, d_bvalid
  <2> QED BY <1>5, <2>1, <2>2, <2>3, <2>4
<1>9. ASSUME wfsm' = "FINISH" PROVE mem'[maddr.tag][maddr.set] = line
  <2>1. w_crt = "D_B"
    BY <1>3, <1>9 DEF WriteBurst, d_bvalid
  <2>2. sent = WordNum /\ w_crt' = "W_IDLE"
    BY <1>1, <1>5, <2>1, GeometryAssumption DEF WriteLockstep, sent, WriteFsm
  <2>3. \A i \in Words : mem[maddr.tag][maddr.set][i] = line[i]
    BY <1>5, <2>2, GeometryAssumption DEF Words
  <2>4. mem[maddr.tag][maddr.set] \in Line
    BY <1>5
  <2>5. mem[maddr.tag][maddr.set] = line
    BY <1>5, <2>3, <2>4 DEF Line
  <2> QED BY <1>7, <2>2, <2>5
<1> QED BY <1>2, <1>4, <1>6, <1>7, <1>8, <1>9 DEF line

\* A line that is in memory or on its way there stays so.
LEMMA WrittenStep ==
  ASSUME TypeOK, BusLockstep, Plain(req), Indexed, Current, WriteBack, Cycle,
         NEW t \in Tags, NEW s \in Sets
  PROVE  /\ Written(t, s) /\ view'[t][s] = view[t][s] => Written(t, s)'
         /\ ~Flying(t, s) => mem'[t][s] = mem[t][s]
<1>1. CASE wfsm = "WRITE" /\ ~uncached
  <2>1. /\ wfsm' \in {"WRITE", "FINISH"} /\ maddr'.tag = maddr.tag /\ maddr'.set = maddr.set
        /\ view' = view
        /\ wfsm' = "FINISH" => mem'[maddr.tag][maddr.set] = view[maddr.tag][maddr.set]
        /\ ~(t = maddr.tag /\ s = maddr.set) => mem'[t][s] = mem[t][s]
    BY <1>1, BurstStep
  <2> QED BY <1>1, <2>1 DEF Written, Flying
<1>2. CASE wfsm = "WRITE" /\ uncached
  <2>1. maddr.tag \notin Tags
    BY <1>2 DEF WriteBack
  <2>2. mem' = mem
    BY <2>1, MemStep
  <2> QED BY <2>1, <2>2 DEF Written, Flying
<1>3. CASE wfsm # "WRITE"
  <2>1. mem' = mem
    BY <1>3, MemStep
  <2> QED BY <1>3, <2>1 DEF Written, Flying
<1> QED BY <1>1, <1>2, <1>3

\* What a lookup finds.
LEMMA Lookup ==
  ASSUME TypeOK, Orderly, Indexed, cached
  PROVE  /\ w_index = req.addr.set /\ lru_sel = evicted /\ evicted \in Ways
         /\ req.addr.tag \in Tags /\ req.addr.set \in Sets /\ hit_way \in Ways
         /\ state = "IDLE" /\ cache_hit =>
              valid[hit_way][req.addr.set] /\ tags[hit_way][req.addr.set] = req.addr.tag
         /\ state = "IDLE" /\ ~cache_hit =>
              \A w \in Ways : valid[w][req.addr.set] => tags[w][req.addr.set] # req.addr.tag
<1>1. /\ ~fence /\ ~uncached /\ ~(ex.op \in Fence) /\ req.addr.set \in Sets /\ lru \in [Sets -> Ways]
      /\ req.addr.tag \in Tags /\ valid_rdata \in [Ways -> BOOLEAN]
  BY Typed DEF cached, Orderly
<1>2. w_index = req.addr.set
  BY <1>1 DEF w_index, read_from_cnt
<1>3. lru_sel = evicted /\ evicted \in Ways
  BY <1>1, <1>2 DEF lru_sel, evicted, Ways
<1>4. ASSUME state = "IDLE"
      PROVE  /\ rd_index = req.addr.set
             /\ \A w \in Ways : w \in hit <=> valid[w][req.addr.set]
                                              /\ tags[w][req.addr.set] = req.addr.tag
  <2>1. rd_index = req.addr.set /\ \A w \in Ways : valid_rdata[w] = valid[w][rd_index]
    BY <1>4 DEF Indexed
  <2> QED BY <2>1 DEF hit
<1>5. hit_way \in Ways /\ (cache_hit => hit_way \in hit) /\ hit \subseteq Ways
  BY DEF hit_way, cache_hit, hit, Ways
<1> QED BY <1>1, <1>2, <1>3, <1>4, <1>5 DEF cache_hit

\* What happens to the lines of the cache in a cycle.
LEMMA LinesStep ==
  ASSUME TypeOK, BusLockstep, Orderly, Indexed, Placed, Cycle
  PROVE  /\ Refill =>
              /\ cached /\ ~retiring /\ req' = req
              /\ tags' = [tags EXCEPT ![evicted][req.addr.set] = req.addr.tag]
              /\ valid' = [valid EXCEPT ![evicted][req.addr.set] = TRUE]
              /\ dirty' = [dirty EXCEPT ![evicted][req.addr.set] = we_pipe]
              /\ data' = [data EXCEPT ![evicted][req.addr.set] =
                            [ret_buf EXCEPT ![req.addr.word] = Merge(@, req.data, req.strb)]]
         /\ IdleHit =>
              /\ cached /\ cache_hit /\ retiring /\ state' = "IDLE" /\ wfsm # "WRITE"
              /\ tags' = tags /\ valid' = valid
              /\ dirty' = [dirty EXCEPT ![hit_way][req.addr.set] = (@ \/ we_pipe)]
              /\ data' = [data EXCEPT ![hit_way][req.addr.set][req.addr.word] =
                            Merge(@, req.data, req.strb)]
         /\ FenceDone =>
              /\ fence /\ retiring /\ state' = "IDLE" /\ wfsm # "WRITE"
              /\ tags' = tags /\ data' = data
              /\ dirty' = [w \in Ways |-> [s \in Sets |-> FALSE]]
              /\ valid' = IF req.op = "fence" THEN [w \in Ways |-> [s \in Sets |-> FALSE]] ELSE valid
         /\ ~(Refill \/ IdleHit \/ FenceDone) =>
              /\ tags' = tags /\ data' = data /\ dirty' = dirty
              /\ valid' = IF req.op = "fence" THEN [w \in Ways |-> [s \in Sets |-> FALSE]] ELSE valid
              /\ retiring => IdleQuiet \/ AccessDone
<1>1. MainFsm /\ ValidBits /\ FsmLockstep /\ ~(access /\ fence)
      /\ (req.op = "fence" => fence)
  BY Typed DEF Cycle, DCacheClock, BusLockstep, fence, Fence
<1>2. IF retiring THEN req' = ex /\ state' = "IDLE" /\ wfsm # "WRITE" ELSE req' = req
  BY <1>1, RequestMoves
<1>3. CASE Refill
  <2>1. cached /\ state = "REFILL" /\ ~retiring
    BY <1>1, <1>3 DEF Refill, FsmLockstep, cached, retiring, dcache_miss
  <2>2. w_index = req.addr.set /\ lru_sel = evicted
    BY <2>1, Lookup
  <2>3. req.op # "fence"
    BY <1>1, <2>1 DEF cached
  <2>4. ~IdleHit /\ ~FenceDone
    BY <2>1 DEF IdleHit, FenceDone
  <2> QED BY <1>1, <1>2, <1>3, <2>1, <2>2, <2>3, <2>4 DEF Refill, ValidBits
<1>4. CASE IdleHit
  <2>1. cached /\ cache_hit /\ state = "IDLE" /\ ~wfsm_en /\ retiring
    BY <1>1, <1>4 DEF IdleHit, cached, wfsm_en, retiring, dcache_miss
  <2>2. w_index = req.addr.set
    BY <2>1, Lookup
  <2>3. req.op # "fence"
    BY <1>1, <2>1 DEF cached
  <2>4. ~Refill /\ ~FenceDone
    BY <2>1 DEF Refill, FenceDone
  <2> QED BY <1>1, <1>2, <1>4, <2>1, <2>2, <2>3, <2>4 DEF IdleHit, ValidBits
<1>5. CASE FenceDone
  <2>1. fence /\ state = "WAIT_WRITE" /\ wrt_finish /\ walk_end /\ retiring
    BY <1>5 DEF FenceDone, retiring, dcache_miss, wfsm_en
  <2>2. ~Refill /\ ~IdleHit
    BY <2>1 DEF Refill, IdleHit
  <2> QED BY <1>1, <1>2, <1>5, <2>1, <2>2 DEF FenceDone, ValidBits
<1>6. CASE ~(Refill \/ IdleHit \/ FenceDone)
  <2>1. tags' = tags /\ data' = data /\ dirty' = dirty /\ state # "REFILL"
    BY <1>1, <1>6 DEF MainFsm, IdleQuiet, IdleMiss, IdleUncached, IdleFence, FenceLine, MissWait,
       WriteWaiting, AccessDone, FenceNext, lineVars
  <2>2. retiring => IdleQuiet \/ AccessDone
    BY <1>1, <1>6 DEF MainFsm, IdleMiss, IdleUncached, IdleFence, FenceLine, MissWait, WriteWaiting,
       FenceNext, retiring, dcache_miss, wfsm_en
  <2> QED BY <1>1, <1>6, <2>1, <2>2 DEF ValidBits
<1> QED BY <1>3, <1>4, <1>5, <1>6

\* Two live lines of a set with one tag are one line.
LEMMA Single ==
  ASSUME Placed, NEW v \in Ways, NEW w \in Ways, NEW s \in Sets,
         Live(v, s), Live(w, s), tags[v][s] = tags[w][s]
  PROVE  v = w
BY DEF Placed, Ways

\* The line being written back is not a clean one.
LEMMA CleanNotFlying ==
  ASSUME TypeOK, FsmLockstep, Placed, WriteBack,
         NEW w \in Ways, NEW s \in Sets, valid[w][s], ~dirty[w][s]
  PROVE  ~Flying(tags[w][s], s)
<1> SUFFICES ASSUME wfsm = "WRITE", tags[w][s] = maddr.tag, s = maddr.set PROVE FALSE
  BY DEF Flying
<1>1. /\ tags[w][s] \in Tags /\ (access \/ fence) /\ state \in {"MISS", "REFILL", "WAIT_WRITE"}
      /\ lru \in [Sets -> Ways] /\ req.addr.set \in Sets /\ ~(access /\ fence)
  BY Typed DEF FsmLockstep
<1>2. ~uncached
  BY <1>1 DEF WriteBack
<1>3. CASE access /\ state = "WAIT_WRITE"
  BY <1>2, <1>3 DEF WriteBack, Live, cached
<1>4. CASE access /\ state # "WAIT_WRITE"
  <2>1. /\ dirty[evicted][req.addr.set] /\ tags[evicted][req.addr.set] = maddr.tag
        /\ s = req.addr.set /\ evicted \in Ways
    BY <1>1, <1>2, <1>4 DEF WriteBack, cached, evicted, Ways
  <2> QED BY <2>1, Single DEF Live
<1>5. CASE fence
  <2>1. PICK v \in Ways : dirty[v][s] /\ tags[v][s] = maddr.tag
    BY <1>5 DEF WriteBack
  <2> QED BY <2>1, Single DEF Live
<1> QED BY <1>1, <1>3, <1>4, <1>5

\* While the pipeline stalls the machine serves one request.
LEMMA Moving ==
  ASSUME TypeOK, FsmLockstep, MainFsm, ~retiring
  PROVE  /\ req' = req /\ state' # "IDLE"
         /\ ~IdleQuiet /\ ~IdleHit /\ ~AccessDone /\ ~FenceDone
         /\ cached => \/ IdleMiss /\ state' = "MISS"
                      \/ MissWait /\ state' \in {"MISS", "REFILL"}
                      \/ Refill /\ state' = "WAIT_WRITE"
                      \/ WriteWaiting /\ state' = "WAIT_WRITE"
         /\ fence => IdleFence \/ FenceLine \/ WriteWaiting \/ FenceNext
<1>1. ~(access /\ fence) /\ req' = req
  BY Typed, RequestMoves
<1>2. ~IdleQuiet /\ ~IdleHit
  <2>1. IdleQuiet \/ IdleHit => state = "IDLE" /\ ~wfsm_en
    BY <1>1 DEF IdleQuiet, IdleHit, wfsm_en
  <2> QED BY <2>1 DEF retiring, dcache_miss
<1>3. ~AccessDone /\ ~FenceDone
  <2>1. AccessDone \/ FenceDone => state = "WAIT_WRITE" /\ wrt_finish /\ (fence => walk_end)
    BY DEF AccessDone, FenceDone
  <2> QED BY <2>1 DEF retiring, dcache_miss, wfsm_en
<1>4. state' # "IDLE"
  BY <1>2, <1>3 DEF MainFsm, IdleMiss, IdleUncached, IdleFence, FenceLine, MissWait, Refill,
     WriteWaiting, FenceNext
<1>5. cached => \/ IdleMiss /\ state' = "MISS"
                \/ MissWait /\ state' \in {"MISS", "REFILL"}
                \/ Refill /\ state' = "WAIT_WRITE"
                \/ WriteWaiting /\ state' = "WAIT_WRITE"
  BY <1>1, <1>2, <1>3 DEF MainFsm, IdleMiss, IdleUncached, IdleFence, FenceLine, MissWait, Refill,
     WriteWaiting, FenceNext, cached
<1>6. fence => IdleFence \/ FenceLine \/ WriteWaiting \/ FenceNext
  BY <1>1, <1>2, <1>3 DEF MainFsm, IdleMiss, IdleUncached, MissWait, Refill, FsmLockstep
<1> QED BY <1>1, <1>2, <1>3, <1>4, <1>5, <1>6

\* What the write-back buffer takes, and when its contents go to memory.
LEMMA Latched ==
  ASSUME TypeOK, BusLockstep, Orderly, Indexed, Cycle, wfsm = "INIT", wfsm_en, ~uncached
  PROVE  /\ victim \in Ways /\ w_index \in Sets /\ (cached \/ fence) /\ ~retiring /\ req' = req
         /\ wfsm' = IF dirty[victim][w_index] THEN "WRITE" ELSE "FINISH"
         /\ maddr'.tag = tags[victim][w_index] /\ maddr'.set = w_index
         /\ wbuf' = data[victim][w_index]
         /\ write_counter' = 0 /\ w_crt' = "W_IDLE"
         /\ cached => /\ victim = evicted /\ w_index = req.addr.set
                      /\ state = "IDLE" /\ ~cache_hit /\ IdleMiss
         /\ fence => /\ victim = addr_cnt.way /\ w_index = addr_cnt.set
                     /\ state \in {"IDLE", "MISS"} /\ (IdleFence \/ FenceLine)
<1>1. /\ MainFsm /\ CacheWriteFsm /\ WriteBackBuffer /\ MissAddress /\ FsmLockstep /\ WriteLockstep
      /\ WriteFsm(d_wvalid, d_wlast) /\ ~(access /\ fence) /\ DCacheTypeOK
  BY Typed DEF Cycle, DCacheClock, BusLockstep, TypeOK
<1>2. victim \in Ways /\ w_index \in Sets
  BY <1>1, CacheWires
<1>3. ~retiring /\ req' = req
  <2>1. ~retiring
    BY DEF retiring, dcache_miss
  <2> QED BY <1>1, <2>1, RequestMoves
<1>4. /\ cached \/ fence
      /\ cached => state = "IDLE" /\ ~cache_hit
      /\ fence => state \in {"IDLE", "MISS"}
  BY <1>1 DEF wfsm_en, cached
<1>5. cached => victim = evicted /\ w_index = req.addr.set /\ rd_index = w_index
  <2> SUFFICES ASSUME cached PROVE victim = evicted /\ w_index = req.addr.set /\ rd_index = w_index
    OBVIOUS
  <2>1. w_index = req.addr.set /\ lru_sel = evicted
    BY Lookup
  <2>2. ~fence
    BY <1>1 DEF cached
  <2> QED BY <1>4, <2>1, <2>2 DEF victim, Indexed
<1>6. fence => victim = addr_cnt.way /\ w_index = addr_cnt.set /\ rd_index = w_index
  BY <1>4 DEF victim, w_index, read_from_cnt, Indexed
<1>7. WriteInit
  BY <1>1 DEF CacheWriteFsm, WriteBurst, WriteFinish
<1>8. rd_index = w_index
  BY <1>4, <1>5, <1>6
<1>9. wfsm' = (IF dirty[victim][w_index] THEN "WRITE" ELSE "FINISH") /\ write_counter' = 0
  BY <1>7 DEF WriteInit, dirty_info
<1>10. maddr' = [tag |-> tags[victim][w_index], set |-> w_index, word |-> 0]
  BY <1>1, <1>8 DEF MissAddress
<1>11. wbuf' = data[victim][w_index]
  BY <1>1, <1>8 DEF WriteBackBuffer
<1>12. w_crt' = "W_IDLE"
  BY <1>1 DEF WriteLockstep, WriteFsm, d_wvalid
<1>13. /\ cached => IdleMiss
       /\ fence => IdleFence \/ FenceLine
  <2>1. cached => IdleMiss
    BY <1>1, <1>3, <1>4, Moving DEF MissWait, Refill, WriteWaiting
  <2>2. fence => IdleFence \/ FenceLine
    BY <1>1, <1>3, <1>4, Moving DEF WriteWaiting, FenceNext
  <2> QED BY <2>1, <2>2
<1> QED BY <1>2, <1>3, <1>4, <1>5, <1>6, <1>9, <1>10, <1>11, <1>12, <1>13

\* No step puts a line in both ways, or leaves an unwritten line invalid.
LEMMA PlacedStep ==
  ASSUME TypeOK, BusLockstep, Orderly, Indexed, Placed, Cycle
  PROVE  Placed'
<1>1. MainFsm /\ FsmLockstep /\ ~(access /\ fence) /\ (req.op = "fence" => fence)
      /\ (IF retiring THEN req' = ex /\ state' = "IDLE" ELSE req' = req)
  BY Typed, RequestMoves DEF Cycle, DCacheClock, BusLockstep, fence, Fence
<1>2. /\ tags \in [Ways -> [Sets -> Tags]] /\ valid \in [Ways -> [Sets -> BOOLEAN]]
      /\ dirty \in [Ways -> [Sets -> BOOLEAN]] /\ req.addr.set \in Sets
  BY Typed
<1>3. CASE Refill
  <2> DEFINE e == evicted
             s0 == req.addr.set
  <2>1. /\ cached /\ ~retiring /\ req' = req
        /\ tags' = [tags EXCEPT ![e][s0] = req.addr.tag]
        /\ valid' = [valid EXCEPT ![e][s0] = TRUE]
        /\ dirty' = [dirty EXCEPT ![e][s0] = we_pipe]
    BY <1>3, LinesStep
  <2>2. e \in Ways /\ state = "REFILL" /\ state' = "WAIT_WRITE" /\ req.op # "fence"
    BY <1>1, <1>3, <2>1, Lookup DEF Refill, cached
  <2> HIDE DEF e
  <2>3. /\ tags'[e][s0] = req.addr.tag /\ valid'[e][s0]
        /\ \A w \in Ways, s \in Sets : ~(w = e /\ s = s0) =>
             tags'[w][s] = tags[w][s] /\ valid'[w][s] = valid[w][s] /\ dirty'[w][s] = dirty[w][s]
    BY <1>2, <2>1, <2>2
  <2>4. \A w \in Ways : Live(w, s0) => tags[w][s0] # req.addr.tag
    BY <2>1, <2>2 DEF Placed
  <2>5. \A s \in Sets : Live(0, s)' /\ Live(1, s)' => tags'[0][s] # tags'[1][s]
    BY <2>2, <2>3, <2>4 DEF Placed, Live, Ways
  <2>6. \A w \in Ways, s \in Sets : dirty'[w][s] => valid'[w][s]
    BY <2>2, <2>3 DEF Placed
  <2>7. valid'[e][req'.addr.set] /\ tags'[e][req'.addr.set] = req'.addr.tag
    BY <2>1, <2>3
  <2> QED BY <2>1, <2>2, <2>5, <2>6, <2>7 DEF Placed
<1>4. CASE IdleHit
  <2>1. /\ cached /\ cache_hit /\ retiring /\ state' = "IDLE" /\ tags' = tags /\ valid' = valid
        /\ dirty' = [dirty EXCEPT ![hit_way][req.addr.set] = (@ \/ we_pipe)]
    BY <1>4, LinesStep
  <2>2. hit_way \in Ways /\ valid[hit_way][req.addr.set] /\ state = "IDLE"
    BY <1>4, <2>1, Lookup DEF IdleHit
  <2>3. \A w \in Ways, s \in Sets :
          (dirty'[w][s] => valid[w][s]) /\ (Live(w, s)' => Live(w, s))
    BY <1>2, <2>1, <2>2 DEF Placed, Live
  <2> QED BY <2>1, <2>3 DEF Placed, Ways
<1>5. CASE FenceDone
  <2>1. /\ state' = "IDLE" /\ tags' = tags /\ dirty' = [w \in Ways |-> [s \in Sets |-> FALSE]]
        /\ valid' = IF req.op = "fence" THEN [w \in Ways |-> [s \in Sets |-> FALSE]] ELSE valid
    BY <1>5, LinesStep
  <2>2. \A w \in Ways, s \in Sets : ~dirty'[w][s] /\ (Live(w, s)' => Live(w, s))
    BY <1>2, <2>1 DEF Live
  <2> QED BY <2>1, <2>2 DEF Placed, Ways
<1>6. CASE ~(Refill \/ IdleHit \/ FenceDone)
  <2>1. /\ tags' = tags /\ dirty' = dirty
        /\ valid' = IF req.op = "fence" THEN [w \in Ways |-> [s \in Sets |-> FALSE]] ELSE valid
        /\ retiring => IdleQuiet \/ AccessDone
    BY <1>6, LinesStep
  <2>2. \A w \in Ways, s \in Sets : Live(w, s)' => Live(w, s)
    BY <1>2, <2>1 DEF Live
  <2>3. CASE retiring
    <3>1. ~fence /\ state' = "IDLE"
      BY <1>1, <2>1, <2>3 DEF IdleQuiet, AccessDone
    <3> QED BY <1>1, <2>1, <2>2, <3>1 DEF Placed, Ways
  <2>4. CASE ~retiring
    <3>1. /\ state' # "IDLE"
          /\ cached => \/ IdleMiss /\ state' = "MISS"
                       \/ MissWait /\ state' \in {"MISS", "REFILL"}
                       \/ WriteWaiting /\ state' = "WAIT_WRITE"
          /\ cached' = cached /\ req' = req
      <4>1. req' = req
        BY <1>1, <2>4
      <4> QED BY <1>1, <1>6, <2>4, <4>1, Moving DEF cached, access, uncached
    <3>2. \A w \in Ways, s \in Sets :
            IF req.op = "fence" THEN ~valid'[w][s] ELSE dirty'[w][s] => valid'[w][s]
      BY <1>2, <2>1 DEF Placed
    <3>3. ASSUME cached, IdleMiss
          PROVE  \A w \in Ways : Live(w, req.addr.set) => tags[w][req.addr.set] # req.addr.tag
      <4>1. state = "IDLE" /\ ~cache_hit
        BY <3>3 DEF IdleMiss
      <4> QED BY <1>2, <3>3, <4>1, Lookup DEF Placed, Live
    <3>4. cached => valid' = valid
      BY <1>1, <2>1 DEF cached
    <3>5. MissWait => state = "MISS"
      BY DEF MissWait
    <3>6. WriteWaiting => state = "WAIT_WRITE"
      BY DEF WriteWaiting
    <3>7. state' \in {"MISS", "REFILL"} /\ cached =>
            \A w \in Ways : Live(w, req.addr.set)' => tags'[w][req.addr.set] # req.addr.tag
      BY <1>2, <2>1, <2>2, <3>1, <3>3, <3>5 DEF Placed
    <3>8. state' = "WAIT_WRITE" /\ cached =>
            \E w \in Ways : valid'[w][req.addr.set] /\ tags'[w][req.addr.set] = req.addr.tag
      BY <2>1, <3>1, <3>4, <3>6 DEF Placed
    <3>9. \A s \in Sets : Live(0, s)' /\ Live(1, s)' => tags'[0][s] # tags'[1][s]
      BY <2>1, <2>2 DEF Placed, Ways
    <3> QED BY <3>1, <3>2, <3>7, <3>8, <3>9 DEF Placed, Live
  <2> QED BY <2>3, <2>4
<1> QED BY <1>3, <1>4, <1>5, <1>6

\* A clean line is in memory, or on its way there, if it holds what the program
\* stored.
LEMMA CleanWritten ==
  ASSUME Current, NEW w \in Ways, NEW s \in Sets, valid[w][s], ~dirty[w][s],
         promised[tags[w][s]][s] = view[tags[w][s]][s]
  PROVE  Written(tags[w][s], s)
BY DEF Current, CleanMatchesMemory, Written, Live

\* A line that misses is in memory.
LEMMA MissedLine ==
  ASSUME TypeOK, BusLockstep, Orderly, Indexed, Placed, Current, WriteBack, Cycle,
         cached, state \in {"MISS", "REFILL"}
  PROVE  mem'[req.addr.tag][req.addr.set] = view[req.addr.tag][req.addr.set]
<1>1. req.addr.tag \in Tags /\ req.addr.set \in Sets /\ ~uncached
  BY Typed DEF cached
<1>2. Written(req.addr.tag, req.addr.set)
  BY <1>1 DEF Placed, Current
<1>3. ~Flying(req.addr.tag, req.addr.set)
  BY DEF WriteBack, Flying
<1>4. mem'[req.addr.tag][req.addr.set] = mem[req.addr.tag][req.addr.set]
  BY <1>1, <1>3, WrittenStep DEF Orderly
<1> QED BY <1>2, <1>3, <1>4 DEF Written

\* A refill brings the line, with the store merged in.
LEMMA CurrentRefill ==
  ASSUME TypeOK, BusLockstep, CInv, Cycle, Refill
  PROVE  Current'
<1> USE DEF CInv
<1> DEFINE e == evicted
           s0 == req.addr.set
           t0 == req.addr.tag
           line == view[t0][s0]
           new == [line EXCEPT ![req.addr.word] = Merge(@, req.data, req.strb)]
<1>1. /\ cached /\ ~retiring /\ req' = req
      /\ tags' = [tags EXCEPT ![e][s0] = t0]
      /\ valid' = [valid EXCEPT ![e][s0] = TRUE]
      /\ dirty' = [dirty EXCEPT ![e][s0] = we_pipe]
      /\ data' = [data EXCEPT ![e][s0] =
                    [ret_buf EXCEPT ![req.addr.word] = Merge(@, req.data, req.strb)]]
  BY LinesStep
<1>2. /\ tags \in [Ways -> [Sets -> Tags]] /\ valid \in [Ways -> [Sets -> BOOLEAN]]
      /\ dirty \in [Ways -> [Sets -> BOOLEAN]] /\ data \in [Ways -> [Sets -> Line]]
      /\ s0 \in Sets /\ t0 \in Tags /\ e \in Ways /\ line \in Line /\ req.addr.word \in Words
      /\ state = "REFILL" /\ FsmLockstep
  BY <1>1, Typed, Lookup DEF Refill, BusLockstep
<1>3. ret_buf = line
  BY <1>1, <1>2 DEF ReadIn
<1>4. /\ promised' = stored /\ promised = view /\ view' = view
      /\ stored[t0][s0] = new
      /\ \A t \in Tags, s \in Sets : ~(t = t0 /\ s = s0) => stored[t][s] = view[t][s]
  BY <1>1, <1>2, PromisedStep, StoredLine DEF Orderly
<1>5. mem'[t0][s0] = line
  BY <1>1, <1>2, MissedLine
<1> HIDE DEF e, new, line
<1>6. /\ data'[e][s0] = new /\ tags'[e][s0] = t0 /\ valid'[e][s0] /\ dirty'[e][s0] = we_pipe
      /\ \A w \in Ways, s \in Sets : ~(w = e /\ s = s0) =>
           /\ tags'[w][s] = tags[w][s] /\ valid'[w][s] = valid[w][s]
           /\ dirty'[w][s] = dirty[w][s] /\ data'[w][s] = data[w][s]
  <2>1. data' = [data EXCEPT ![e][s0] = new]
    BY <1>1, <1>3 DEF new
  <2>2. data'[e][s0] = new /\ \A w \in Ways, s \in Sets : ~(w = e /\ s = s0) => data'[w][s] = data[w][s]
    BY <1>2, <2>1
  <2>3. tags'[e][s0] = t0 /\ \A w \in Ways, s \in Sets : ~(w = e /\ s = s0) => tags'[w][s] = tags[w][s]
    BY <1>1, <1>2
  <2>4. valid'[e][s0] /\ \A w \in Ways, s \in Sets : ~(w = e /\ s = s0) => valid'[w][s] = valid[w][s]
    BY <1>1, <1>2
  <2>5. dirty'[e][s0] = we_pipe
        /\ \A w \in Ways, s \in Sets : ~(w = e /\ s = s0) => dirty'[w][s] = dirty[w][s]
    BY <1>1, <1>2
  <2> QED BY <2>2, <2>3, <2>4, <2>5
<1>7. \A w \in Ways : Live(w, s0) => tags[w][s0] # t0
  BY <1>1, <1>2 DEF Placed
<1>8. ASSUME NEW w \in Ways, NEW s \in Sets, Live(w, s)'
      PROVE  data'[w][s] = promised'[tags'[w][s]][s]
  <2>1. CASE w = e /\ s = s0
    BY <1>4, <1>6, <2>1
  <2>2. CASE ~(w = e /\ s = s0)
    <3>1. Live(w, s) /\ tags'[w][s] = tags[w][s] /\ data'[w][s] = data[w][s] /\ tags[w][s] \in Tags
      BY <1>2, <1>6, <1>8, <2>2 DEF Live
    <3>2. data[w][s] = view[tags[w][s]][s]
      BY <1>4, <3>1 DEF Current
    <3>3. ~(tags[w][s] = t0 /\ s = s0)
      BY <1>7, <3>1
    <3> QED BY <1>4, <3>1, <3>2, <3>3
  <2> QED BY <2>1, <2>2
<1>9. ASSUME NEW w \in Ways, NEW s \in Sets, valid'[w][s], ~dirty'[w][s]
      PROVE  data'[w][s] = mem'[tags'[w][s]][s]
  <2>1. CASE w = e /\ s = s0
    <3>1. req.strb = {}
      BY <1>6, <1>9, <2>1 DEF we_pipe
    <3>2. Merge(line[req.addr.word], req.data, req.strb) = line[req.addr.word]
      BY <1>2, <3>1, MergeNothing DEF Line
    <3>3. new = line
      BY <1>2, <3>2 DEF new, Line
    <3> QED BY <1>5, <1>6, <2>1, <3>3
  <2>2. CASE ~(w = e /\ s = s0)
    <3>1. valid[w][s] /\ ~dirty[w][s] /\ tags'[w][s] = tags[w][s] /\ data'[w][s] = data[w][s]
          /\ tags[w][s] \in Tags
      BY <1>2, <1>6, <1>9, <2>2
    <3>2. ~Flying(tags[w][s], s)
      BY <1>2, <3>1, CleanNotFlying
    <3>3. mem'[tags[w][s]][s] = mem[tags[w][s]][s]
      BY <3>1, <3>2, WrittenStep DEF Orderly
    <3> QED BY <3>1, <3>3 DEF Current, CleanMatchesMemory
  <2> QED BY <2>1, <2>2
<1>10. ASSUME NEW t \in Tags, NEW s \in Sets,
              \A w \in Ways : Live(w, s)' => tags'[w][s] # t
       PROVE  Written(t, s)'
  <2>1. Written(t, s)
    <3>1. CASE s = s0 /\ Live(e, s0) /\ tags[e][s0] = t
      <4>1. CASE dirty[e][s0]
        BY <1>1, <1>2, <3>1, <4>1 DEF Saved, e
      <4>2. CASE ~dirty[e][s0]
        BY <1>2, <1>4, <3>1, <4>2, CleanWritten DEF Live
      <4> QED BY <4>1, <4>2
    <3>2. CASE ~(s = s0 /\ Live(e, s0) /\ tags[e][s0] = t)
      <4>1. \A w \in Ways : Live(w, s) => tags[w][s] # t
        BY <1>6, <1>10, <3>2 DEF Live
      <4> QED BY <4>1 DEF Current
    <3> QED BY <3>1, <3>2
  <2> QED BY <1>4, <2>1, WrittenStep DEF Orderly
<1> QED BY <1>8, <1>9, <1>10 DEF Current, CleanMatchesMemory

\* A hit merges the store into its line.
LEMMA CurrentHit ==
  ASSUME TypeOK, BusLockstep, CInv, Cycle, IdleHit
  PROVE  Current'
<1> USE DEF CInv
<1> DEFINE h == hit_way
           s0 == req.addr.set
           t0 == req.addr.tag
           line == view[t0][s0]
           new == [line EXCEPT ![req.addr.word] = Merge(@, req.data, req.strb)]
<1>1. /\ cached /\ cache_hit /\ retiring /\ wfsm # "WRITE" /\ tags' = tags /\ valid' = valid
      /\ dirty' = [dirty EXCEPT ![h][s0] = (@ \/ we_pipe)]
      /\ data' = [data EXCEPT ![h][s0][req.addr.word] = Merge(@, req.data, req.strb)]
  BY LinesStep
<1>2. /\ tags \in [Ways -> [Sets -> Tags]] /\ valid \in [Ways -> [Sets -> BOOLEAN]]
      /\ dirty \in [Ways -> [Sets -> BOOLEAN]] /\ data \in [Ways -> [Sets -> Line]]
      /\ s0 \in Sets /\ t0 \in Tags /\ h \in Ways /\ line \in Line /\ req.addr.word \in Words
      /\ state = "IDLE" /\ FsmLockstep /\ valid[h][s0] /\ tags[h][s0] = t0
  BY <1>1, Typed, Lookup DEF IdleHit, BusLockstep
<1>3. /\ promised' = stored /\ promised = view /\ stored[t0][s0] = new
      /\ view' = stored
      /\ \A t \in Tags, s \in Sets : ~(t = t0 /\ s = s0) => stored[t][s] = view[t][s]
  BY <1>1, <1>2, PromisedStep, StoredLine DEF Orderly, Cycle, History, retiring
<1>4. data[h][s0] = line
  BY <1>2, <1>3 DEF Current, Live
<1>5. mem' = mem /\ \A t \in Tags, s \in Sets : ~Flying(t, s)
  BY <1>1, MemStep DEF Flying
<1> HIDE DEF h, new, line
<1>6. /\ data'[h][s0] = new /\ dirty'[h][s0] = (dirty[h][s0] \/ we_pipe)
      /\ \A w \in Ways, s \in Sets : ~(w = h /\ s = s0) =>
           dirty'[w][s] = dirty[w][s] /\ data'[w][s] = data[w][s]
  <2>1. data' = [data EXCEPT ![h][s0] = new]
    <3>1. data' = [data EXCEPT ![h] = [data[h] EXCEPT ![s0] = [data[h][s0] EXCEPT ![req.addr.word] =
                     Merge(data[h][s0][req.addr.word], req.data, req.strb)]]]
      BY <1>1
    <3>2. data' = [data EXCEPT ![h] = [data[h] EXCEPT ![s0] = new]]
      BY <1>4, <3>1 DEF new
    <3> QED BY <3>2
  <2>2. data'[h][s0] = new /\ \A w \in Ways, s \in Sets : ~(w = h /\ s = s0) => data'[w][s] = data[w][s]
    BY <1>2, <2>1
  <2>3. dirty'[h][s0] = (dirty[h][s0] \/ we_pipe)
        /\ \A w \in Ways, s \in Sets : ~(w = h /\ s = s0) => dirty'[w][s] = dirty[w][s]
    BY <1>1, <1>2
  <2> QED BY <2>2, <2>3
<1>7. \A w \in Ways, s \in Sets : Live(w, s)' <=> Live(w, s)
  BY <1>1, <1>2, <1>6 DEF Live
<1>8. ASSUME NEW w \in Ways, NEW s \in Sets, Live(w, s)'
      PROVE  data'[w][s] = promised'[tags'[w][s]][s]
  <2>1. CASE w = h /\ s = s0
    BY <1>1, <1>2, <1>3, <1>6, <2>1
  <2>2. CASE ~(w = h /\ s = s0)
    <3>1. Live(w, s) /\ tags[w][s] \in Tags /\ Live(h, s0)
      BY <1>2, <1>7, <1>8 DEF Live
    <3>2. data[w][s] = view[tags[w][s]][s]
      BY <1>3, <3>1 DEF Current
    <3>3. ~(tags[w][s] = t0 /\ s = s0)
      BY <1>2, <2>2, <3>1, Single
    <3> QED BY <1>1, <1>3, <1>6, <2>2, <3>1, <3>2, <3>3
  <2> QED BY <2>1, <2>2
<1>9. ASSUME NEW w \in Ways, NEW s \in Sets, valid'[w][s], ~dirty'[w][s]
      PROVE  data'[w][s] = mem'[tags'[w][s]][s]
  <2>1. data'[w][s] = data[w][s] /\ ~dirty[w][s]
    <3>1. CASE w = h /\ s = s0
      <4>1. req.strb = {} /\ ~dirty[h][s0]
        BY <1>6, <1>9, <3>1 DEF we_pipe
      <4>2. Merge(line[req.addr.word], req.data, req.strb) = line[req.addr.word]
        BY <1>2, <4>1, MergeNothing DEF Line
      <4>3. new = line
        BY <1>2, <4>2 DEF new, Line
      <4> QED BY <1>4, <1>6, <3>1, <4>1, <4>3
    <3>2. CASE ~(w = h /\ s = s0)
      BY <1>6, <1>9, <3>2
    <3> QED BY <3>1, <3>2
  <2> QED BY <1>1, <1>5, <1>9, <2>1 DEF Current, CleanMatchesMemory
<1>10. ASSUME NEW t \in Tags, NEW s \in Sets,
              \A w \in Ways : Live(w, s)' => tags'[w][s] # t
       PROVE  Written(t, s)'
  <2>1. \A w \in Ways : Live(w, s) => tags[w][s] # t
    BY <1>1, <1>7, <1>10
  <2>2. Written(t, s)
    BY <2>1 DEF Current
  <2>3. ~(t = t0 /\ s = s0)
    BY <1>2, <2>1 DEF Live
  <2> QED BY <1>3, <2>2, <2>3, WrittenStep DEF Orderly
<1> QED BY <1>8, <1>9, <1>10 DEF Current, CleanMatchesMemory

\* A fence that ends finds every line in memory, and may forget any of them.
LEMMA AllWritten ==
  ASSUME TypeOK, BusLockstep, CInv, fence, state = "WAIT_WRITE", walk_end, wrt_finish
  PROVE  mem = view
<1> USE DEF CInv
<1>1. /\ stored = view /\ tags \in [Ways -> [Sets -> Tags]]
      /\ mem \in [Tags -> [Sets -> Line]] /\ view \in [Tags -> [Sets -> Line]]
  <2>1. ~cached
    BY Typed DEF cached
  <2> QED BY <2>1, Typed, StoredLine DEF Orderly
<1>2. ASSUME NEW t \in Tags, NEW s \in Sets PROVE mem[t][s] = view[t][s]
  <2>1. ~Flying(t, s)
    BY DEF Flying, wrt_finish
  <2>2. Written(t, s)
    <3>1. CASE \A w \in Ways : Live(w, s) => tags[w][s] # t
      BY <3>1 DEF Current
    <3>2. ASSUME NEW w \in Ways, Live(w, s), tags[w][s] = t PROVE Written(t, s)
      <4>1. CASE dirty[w][s]
        BY <3>2, <4>1 DEF Saved, Passed
      <4>2. CASE ~dirty[w][s]
        BY <1>1, <3>2, <4>2, CleanWritten DEF promised, Live
      <4> QED BY <4>1, <4>2
    <3> QED BY <3>1, <3>2
  <2> QED BY <2>1, <2>2 DEF Written
<1>3. \A t \in Tags : mem[t] = view[t]
  BY <1>1, <1>2
<1> QED BY <1>1, <1>3

\* The end of a fence may clear the dirty bits: every line is in memory.
LEMMA CurrentFence ==
  ASSUME TypeOK, BusLockstep, CInv, Cycle, FenceDone
  PROVE  Current'
<1> USE DEF CInv
<1>1. /\ fence /\ wfsm # "WRITE" /\ retiring /\ tags' = tags /\ data' = data
      /\ dirty' = [w \in Ways |-> [s \in Sets |-> FALSE]]
      /\ valid' = IF req.op = "fence" THEN [w \in Ways |-> [s \in Sets |-> FALSE]] ELSE valid
  BY LinesStep
<1>2. mem = view /\ state = "WAIT_WRITE"
  BY <1>1, AllWritten DEF FenceDone
<1>3. mem' = mem
  BY <1>1, MemStep
<1>4. ~(IdleHit \/ Refill)
  BY <1>2 DEF IdleHit, Refill
<1>5. promised = view /\ promised' = promised /\ view' = view
  <2>1. ~cached /\ FsmLockstep /\ stored = view
    <3>1. ~cached
      BY <1>1, Typed DEF cached
    <3> QED BY <3>1, StoredLine DEF Orderly, BusLockstep
  <2>2. view' = stored
    BY <1>1 DEF Cycle, History, retiring
  <2> QED BY <1>2, <1>4, <2>1, <2>2, PromisedStep DEF Orderly, promised
<1>6. \A w \in Ways, s \in Sets : Live(w, s)' => Live(w, s)
  BY <1>1, Typed DEF Live
<1>7. \A w \in Ways, s \in Sets : Live(w, s)' => data'[w][s] = promised'[tags'[w][s]][s]
  BY <1>1, <1>5, <1>6 DEF Current
<1>8. \A w \in Ways, s \in Sets :
        valid'[w][s] /\ ~dirty'[w][s] => data'[w][s] = mem'[tags'[w][s]][s]
  BY <1>1, <1>2, <1>3, <1>5, <1>6 DEF Current, Live
<1>9. \A t \in Tags, s \in Sets : Written(t, s)'
  BY <1>2, <1>3, <1>5 DEF Written
<1> QED BY <1>7, <1>8, <1>9 DEF Current, CleanMatchesMemory

\* Otherwise the lines stay, but for the valid bits a fence clears.
LEMMA CurrentQuiet ==
  ASSUME TypeOK, BusLockstep, CInv, Cycle, ~(Refill \/ IdleHit \/ FenceDone)
  PROVE  Current'
<1> USE DEF CInv
<1>1. /\ tags' = tags /\ data' = data /\ dirty' = dirty
      /\ valid' = IF req.op = "fence" THEN [w \in Ways |-> [s \in Sets |-> FALSE]] ELSE valid
      /\ retiring => IdleQuiet \/ AccessDone
  BY LinesStep
<1>2. /\ promised' = promised /\ (~retiring => view' = view) /\ (state # "WAIT_WRITE" => promised = view)
      /\ FsmLockstep /\ tags \in [Ways -> [Sets -> Tags]] /\ ~(access /\ fence)
      /\ (req.op = "fence" => fence) /\ valid \in [Ways -> [Sets -> BOOLEAN]]
  BY PromisedStep, Typed DEF Orderly, BusLockstep, fence, Fence
<1>3. \A w \in Ways, s \in Sets : Live(w, s)' => Live(w, s)
  BY <1>1, <1>2 DEF Live
<1>4. \A w \in Ways, s \in Sets : Live(w, s)' => data'[w][s] = promised'[tags'[w][s]][s]
  BY <1>1, <1>2, <1>3 DEF Current
<1>5. ASSUME NEW w \in Ways, NEW s \in Sets, valid'[w][s], ~dirty'[w][s]
      PROVE  data'[w][s] = mem'[tags'[w][s]][s]
  <2>1. valid[w][s] /\ ~dirty[w][s] /\ tags[w][s] \in Tags
    BY <1>1, <1>2, <1>5
  <2>2. ~Flying(tags[w][s], s)
    BY <1>2, <2>1, CleanNotFlying
  <2>3. mem'[tags[w][s]][s] = mem[tags[w][s]][s]
    BY <2>1, <2>2, WrittenStep DEF Orderly
  <2> QED BY <1>1, <2>1, <2>3 DEF Current, CleanMatchesMemory
<1>6. ASSUME NEW t \in Tags, NEW s \in Sets,
             \A w \in Ways : Live(w, s)' => tags'[w][s] # t
      PROVE  Written(t, s)'
  <2>1. CASE req.op # "fence"
    <3>1. \A w \in Ways : Live(w, s) => tags[w][s] # t
      BY <1>1, <1>6, <2>1 DEF Live
    <3>2. view'[t][s] = view[t][s]
      <4>1. CASE ~retiring
        BY <1>2, <4>1
      <4>2. CASE retiring
        <5>1. view' = stored
          BY <4>2 DEF Cycle, History, retiring
        <5>2. ~(cached /\ t = req.addr.tag /\ s = req.addr.set)
          <6>1. cached => AccessDone /\ state = "WAIT_WRITE"
            BY <1>1, <4>2 DEF IdleQuiet, AccessDone, cached
          <6> QED BY <3>1, <6>1 DEF Placed, Live
        <5> QED BY <5>1, <5>2, StoredLine DEF Orderly
      <4> QED BY <4>1, <4>2
    <3> QED BY <3>1, <3>2, WrittenStep DEF Current, Orderly
  <2>2. CASE req.op = "fence"
    <3>1. ~retiring /\ view' = view /\ promised = view
      <4>1. fence /\ ~cached
        BY <1>2, <2>2 DEF cached
      <4>2. stored = view
        BY <4>1, StoredLine DEF Orderly
      <4> QED BY <1>1, <1>2, <4>1, <4>2 DEF IdleQuiet, AccessDone, promised
    <3>2. Written(t, s)
      <4>1. CASE \A w \in Ways : Live(w, s) => tags[w][s] # t
        BY <4>1 DEF Current
      <4>2. ASSUME NEW w \in Ways, Live(w, s), tags[w][s] = t PROVE Written(t, s)
        <5>1. valid[w][s] /\ ~dirty[w][s]
          BY <1>1, <1>6, <4>2 DEF Live
        <5> QED BY <3>1, <4>2, <5>1, CleanWritten
      <4> QED BY <4>1, <4>2
    <3> QED BY <3>1, <3>2, WrittenStep DEF Orderly
  <2> QED BY <2>1, <2>2
<1> QED BY <1>4, <1>5, <1>6 DEF Current, CleanMatchesMemory

\* In every cycle the last value of each line is where Current says.
LEMMA CurrentStep ==
  ASSUME TypeOK, BusLockstep, CInv, Cycle
  PROVE  Current'
BY CurrentRefill, CurrentHit, CurrentFence, CurrentQuiet

\* A miss or a walk passes its line to the write-back, if it is dirty.
LEMMA LatchedFlies ==
  ASSUME TypeOK, BusLockstep, Orderly, Indexed, Cycle, wfsm = "INIT", wfsm_en, ~uncached,
         NEW w \in Ways, NEW s \in Sets, w = victim, s = w_index, dirty[w][s], tags'[w][s] = tags[w][s]
  PROVE  Written(tags[w][s], s)'
<1>1. wfsm' = "WRITE" /\ maddr'.tag = tags[victim][w_index] /\ maddr'.set = w_index
  BY Latched
<1> QED BY <1>1 DEF Written, Flying

\* Where the walk goes, in the order it goes.
LEMMA WalkStep ==
  ASSUME TypeOK, FenceLine, NEW w \in Ways, NEW s \in Sets, Passed(w, s)'
  PROVE  Passed(w, s) \/ (w = addr_cnt.way /\ s = addr_cnt.set)
<1>1. /\ state = "MISS" /\ state' = "WAIT_WRITE"
      /\ addr_cnt' = IF addr_cnt.set < SetNum - 1
                       THEN [way |-> addr_cnt.way, set |-> addr_cnt.set + 1]
                       ELSE [way |-> 1 - addr_cnt.way, set |-> 0]
      /\ addr_cnt.way \in Ways /\ addr_cnt.set \in Sets
      /\ addr_cnt' = [way |-> 0, set |-> 0] \/ w < addr_cnt'.way
           \/ (w = addr_cnt'.way /\ s < addr_cnt'.set)
  BY Typed DEF FenceLine, Passed, walk_end
<1>2. CASE addr_cnt.set < SetNum - 1
  <2>1. addr_cnt'.way = addr_cnt.way /\ addr_cnt'.set = addr_cnt.set + 1
        /\ addr_cnt'.set # 0
    BY <1>1, <1>2 DEF Sets
  <2> QED BY <1>1, <2>1 DEF Passed, Sets, Ways
<1>3. CASE ~(addr_cnt.set < SetNum - 1)
  <2>1. addr_cnt'.way = 1 - addr_cnt.way /\ addr_cnt'.set = 0 /\ addr_cnt.set = SetNum - 1
    BY <1>1, <1>3, GeometryAssumption DEF Sets
  <2>2. addr_cnt.way = 0 => w = 0
    BY <1>1, <2>1 DEF Sets, Ways
  <2> QED BY <1>1, <2>1, <2>2 DEF Passed, Sets, Ways
<1> QED BY <1>2, <1>3

\* What has been written stays so while the lines stay.
LEMMA LinesHeld ==
  ASSUME TypeOK, BusLockstep, Orderly, Indexed, Current, WriteBack, Cycle, ~retiring, lineVars' = lineVars,
         NEW w \in Ways, NEW s \in Sets, Written(tags[w][s], s)
  PROVE  Written(tags[w][s], s)'
<1>1. tags' = tags /\ view' = view /\ tags[w][s] \in Tags
  BY PromisedStep, Typed DEF lineVars, Orderly, BusLockstep
<1>2. \A t \in Tags : Written(t, s) => Written(t, s)'
  BY <1>1, WrittenStep DEF Orderly
<1> QED BY <1>1, <1>2 DEF Written, Flying

\* The victim of a miss is written before it is replaced.
LEMMA SavedMiss ==
  ASSUME TypeOK, BusLockstep, CInv, Cycle, state' \in {"MISS", "REFILL"}, cached',
         dirty'[evicted'][req'.addr.set]
  PROVE  Written(tags[evicted][req.addr.set], req.addr.set)'
<1> USE DEF CInv
<1>1. MainFsm /\ FsmLockstep /\ ~retiring
  BY RequestMoves DEF Cycle, DCacheClock, BusLockstep
<1>2. req' = req
  BY <1>1, Moving
<1>3. cached /\ ~uncached /\ (IdleMiss \/ MissWait)
  <2>1. cached
    BY <1>2 DEF cached, access, uncached
  <2> QED BY <1>1, <2>1, Moving DEF cached
<1>4. lineVars' = lineVars /\ evicted' = evicted /\ evicted \in Ways /\ req.addr.set \in Sets
  <2>1. lineVars' = lineVars
    BY <1>3 DEF IdleMiss, MissWait
  <2> QED BY <1>2, <1>3, <2>1, Lookup DEF lineVars, evicted
<1>5. CASE IdleMiss
  <2>1. state = "IDLE" /\ wfsm = "INIT" /\ wfsm_en
    BY <1>1, <1>3, <1>5 DEF IdleMiss, wfsm_en, FsmLockstep, cached
  <2>2. victim = evicted /\ w_index = req.addr.set
    BY <1>3, <2>1, Latched
  <2>3. \A w \in Ways, s \in Sets :
          w = evicted /\ s = req.addr.set => Written(tags[w][s], s)'
    BY <1>2, <1>3, <1>4, <2>1, <2>2, LatchedFlies DEF lineVars
  <2> QED BY <1>2, <1>4, <2>3 DEF Written, Flying
<1>6. CASE MissWait
  <2>1. Written(tags[evicted][req.addr.set], req.addr.set)
    BY <1>2, <1>3, <1>4, <1>6 DEF Saved, MissWait, lineVars
  <2>2. \A w \in Ways, s \in Sets :
          w = evicted /\ s = req.addr.set => Written(tags[w][s], s)'
    BY <1>1, <1>4, <2>1, LinesHeld
  <2> QED BY <1>2, <1>4, <2>2 DEF Written, Flying
<1> QED BY <1>3, <1>5, <1>6

\* A walk leaves no line behind that is not written.
LEMMA SavedWalk ==
  ASSUME TypeOK, BusLockstep, CInv, Cycle, state' # "IDLE", fence',
         NEW w \in Ways, NEW s \in Sets, Passed(w, s)', dirty'[w][s]
  PROVE  Written(tags[w][s], s)'
<1> USE DEF CInv
<1>1. MainFsm /\ FsmLockstep /\ ~retiring
  BY RequestMoves DEF Cycle, DCacheClock, BusLockstep
<1>2. req' = req /\ fence
  <2>1. req' = req
    BY <1>1, Moving
  <2> QED BY <2>1 DEF fence
<1>3. IdleFence \/ FenceLine \/ WriteWaiting \/ FenceNext
  BY <1>1, <1>2, Moving
<1>4. lineVars' = lineVars
  BY <1>3 DEF IdleFence, FenceLine, WriteWaiting, FenceNext
<1>5. ~uncached /\ addr_cnt.way \in Ways /\ addr_cnt.set \in Sets
  BY <1>2, Typed DEF Orderly, Plain, fence
<1>6. CASE Passed(w, s) /\ state # "IDLE"
  <2>1. Written(tags[w][s], s)
    BY <1>2, <1>4, <1>6 DEF Saved, lineVars
  <2> QED BY <1>1, <1>4, <2>1, LinesHeld
<1>7. CASE w = addr_cnt.way /\ s = addr_cnt.set /\ wfsm = "INIT" /\ wfsm_en
  <2>1. w = victim /\ s = w_index
    BY <1>2, <1>5, <1>7, Latched
  <2> QED BY <1>4, <1>5, <1>7, <2>1, LatchedFlies DEF lineVars
<1>8. CASE IdleFence
  <2>1. state = "IDLE" /\ wfsm = "INIT" /\ wfsm_en /\ addr_cnt' = addr_cnt /\ state' = "MISS"
        /\ addr_cnt = [way |-> 0, set |-> 0]
    BY <1>1, <1>2, <1>8 DEF IdleFence, FsmLockstep, wfsm_en, Indexed
  <2>2. w = 0 /\ s = 0
    BY <2>1 DEF Passed, Ways, Sets
  <2> QED BY <1>7, <2>1, <2>2
<1>9. CASE FenceLine
  <2>1. state = "MISS" /\ wfsm_en
    BY <1>2, <1>9 DEF FenceLine, wfsm_en
  <2>2. Passed(w, s) \/ (w = addr_cnt.way /\ s = addr_cnt.set)
    BY <1>9, WalkStep
  <2>3. wfsm # "INIT" => Passed(w, s)
    BY <2>1, <2>2 DEF Passed
  <2> QED BY <1>6, <1>7, <2>1, <2>2, <2>3
<1>10. CASE WriteWaiting
  <2>1. state = "WAIT_WRITE" /\ state' = state /\ addr_cnt' = addr_cnt
    BY <1>10 DEF WriteWaiting
  <2> QED BY <1>6, <2>1 DEF Passed, walk_end
<1>11. CASE FenceNext
  <2>1. state = "WAIT_WRITE" /\ state' = "MISS" /\ addr_cnt' = addr_cnt /\ wrt_finish
    BY <1>11 DEF FenceNext
  <2>2. wfsm' = "INIT"
    BY <2>1 DEF Cycle, DCacheClock, CacheWriteFsm, WriteInit, WriteBurst, WriteFinish, wrt_finish
  <2> QED BY <1>6, <2>1, <2>2 DEF Passed
<1> QED BY <1>3, <1>8, <1>9, <1>10, <1>11

\* Both, for a cycle of either.
LEMMA SavedStep ==
  ASSUME TypeOK, BusLockstep, CInv, Cycle
  PROVE  Saved'
<1>1. ASSUME state' \in {"MISS", "REFILL"}, cached'
      PROVE  (dirty[evicted][req.addr.set] => Written(tags[evicted][req.addr.set], req.addr.set))'
  BY <1>1, SavedMiss
<1>2. ASSUME state' # "IDLE", fence'
      PROVE  (\A w \in Ways, s \in Sets : Passed(w, s) /\ dirty[w][s] => Written(tags[w][s], s))'
  BY <1>2, SavedWalk
<1> QED BY <1>1, <1>2 DEF Saved

\* The write-back buffer takes a line as the program left it.
LEMMA WriteBackBegins ==
  ASSUME TypeOK, BusLockstep, CInv, Cycle, wfsm = "INIT", wfsm' = "WRITE"
  PROVE  WriteBack'
<1> USE DEF CInv
<1>1. /\ MainFsm /\ CacheWriteFsm /\ MissAddress /\ FsmLockstep /\ ~(access /\ fence)
      /\ (fence => ~uncached)
  BY Typed DEF Cycle, DCacheClock, BusLockstep, Orderly, Plain, fence
<1>2. wfsm_en /\ ~retiring
  BY <1>1 DEF CacheWriteFsm, WriteInit, WriteBurst, WriteFinish, retiring, dcache_miss
<1>3. req' = req /\ view' = view
  BY <1>1, <1>2, Moving, PromisedStep DEF Orderly
<1>4. CASE uncached
  <2>1. maddr' = req.addr /\ req.addr.tag \notin Tags
    BY <1>1, <1>2, <1>4, Typed DEF MissAddress
  <2>2. uncached' /\ ~cached' /\ ~fence'
    BY <1>1, <1>3, <1>4 DEF uncached, cached, fence
  <2> QED BY <2>1, <2>2 DEF WriteBack
<1>5. CASE ~uncached
  <2> DEFINE v == victim
             s == w_index
             t == tags[victim][w_index]
  <2>1. /\ v \in Ways /\ s \in Sets /\ (cached \/ fence)
        /\ wfsm' = IF dirty[v][s] THEN "WRITE" ELSE "FINISH"
        /\ maddr'.tag = t /\ maddr'.set = s
        /\ wbuf' = data[v][s]
        /\ write_counter' = 0 /\ w_crt' = "W_IDLE"
        /\ cached => /\ v = evicted /\ s = req.addr.set
                     /\ state = "IDLE" /\ ~cache_hit /\ IdleMiss
        /\ fence => /\ v = addr_cnt.way /\ s = addr_cnt.set
                    /\ state \in {"IDLE", "MISS"} /\ (IdleFence \/ FenceLine)
    BY <1>2, <1>5, Latched
  <2> HIDE DEF v, s
  <2>2. /\ dirty[v][s] /\ tags[v][s] = t /\ t \in Tags /\ state \in {"IDLE", "MISS"}
    BY <2>1, Typed DEF v, s
  <2> HIDE DEF t
  <2>3. wbuf' = view[t][s]
    <3>1. promised = view
      BY <1>1, <2>2, PromisedStep DEF Orderly
    <3> QED BY <2>1, <2>2, <3>1 DEF Current, Live
  <2>4. lineVars' = lineVars /\ (fence => state' # "MISS" \/ addr_cnt' = addr_cnt)
        /\ (cached => state' = "MISS")
    BY <2>1 DEF IdleMiss, IdleFence, FenceLine
  <2>5. /\ uncached' = uncached /\ cached' = cached /\ fence' = fence
        /\ evicted' = evicted /\ tags' = tags /\ dirty' = dirty
    BY <1>3, <2>4 DEF uncached, cached, access, fence, evicted, lineVars
  <2>6. cached => t # req.addr.tag
    <3>1. cached => \A w \in Ways : valid[w][req.addr.set] => tags[w][req.addr.set] # req.addr.tag
      BY <2>1, Lookup
    <3>2. cached => valid[v][s]
      BY <2>1, <2>2 DEF Placed
    <3> QED BY <2>1, <2>2, <3>1, <3>2
  <2>7. \A i \in Words : write_counter' + i < WordNum =>
          wbuf'[i] = view[maddr'.tag][maddr'.set][write_counter' + i]
    BY <2>1, <2>3, GeometryAssumption DEF Words
  <2>8. \A i \in Words : ~(i < sent')
    BY <2>1, GeometryAssumption DEF sent, Words
  <2> QED BY <1>3, <1>5, <2>1, <2>2, <2>4, <2>5, <2>6, <2>7, <2>8 DEF WriteBack
<1> QED BY <1>4, <1>5

\* The line stays in its buffer while the request that evicts it is served.
LEMMA WriteBackGoesOn ==
  ASSUME TypeOK, BusLockstep, CInv, Cycle, wfsm = "WRITE", wfsm' = "WRITE"
  PROVE  WriteBack'
<1> USE DEF CInv
<1>1. /\ MainFsm /\ MissAddress /\ FsmLockstep /\ ~(access /\ fence) /\ state # "IDLE"
      /\ (fence => ~uncached) /\ state \in {"IDLE", "MISS", "REFILL", "WAIT_WRITE"}
  BY Typed DEF Cycle, DCacheClock, BusLockstep, Orderly, Plain, fence, FsmLockstep
<1>2. ~retiring
  BY <1>1, RequestMoves
<1>3. req' = req /\ view' = view
  BY <1>1, <1>2, Moving, PromisedStep DEF Orderly
<1>4. uncached' = uncached /\ cached' = cached /\ fence' = fence
  BY <1>3 DEF uncached, cached, access, fence
<1>5. CASE uncached
  <2>1. maddr' = maddr /\ maddr.tag \notin Tags
    BY <1>1, <1>5 DEF MissAddress, wfsm_en, WriteBack
  <2> QED BY <1>1, <1>4, <1>5, <2>1 DEF WriteBack, cached
<1>6. CASE ~uncached
  <2> DEFINE t == maddr.tag
             s == maddr.set
  <2>1. /\ maddr'.tag = t /\ maddr'.set = s
        /\ \A i \in Words : write_counter' + i < WordNum =>
             wbuf'[i] = view[t][s][write_counter' + i]
        /\ \A i \in Words : i < sent' => mem'[t][s][i] = view[t][s][i]
    BY <1>6, BurstStep DEF Orderly
  <2>2. /\ t \in Tags
        /\ cached => s = req.addr.set /\ t # req.addr.tag
    BY <1>6 DEF WriteBack
  <2> HIDE DEF t, s
  <2>3. CASE cached
    <3>1. evicted \in Ways /\ req.addr.set \in Sets
      BY <2>3, Lookup
    <3>2. CASE MissWait /\ state' \in {"MISS", "REFILL"}
      <4>1. lineVars' = lineVars /\ evicted' = evicted /\ state = "MISS"
        BY <1>3, <3>2 DEF MissWait, lineVars, evicted
      <4>2. dirty[evicted][req.addr.set] /\ tags[evicted][req.addr.set] = t
        BY <2>3, <4>1 DEF WriteBack, t
      <4> QED BY <1>1, <1>3, <1>4, <1>6, <2>1, <2>2, <2>3, <3>2, <4>1, <4>2 DEF WriteBack, lineVars, cached
    <3>3. CASE Refill /\ state' = "WAIT_WRITE"
      <4>1. dirty[evicted][req.addr.set] /\ tags[evicted][req.addr.set] = t
        BY <2>3, <3>3 DEF WriteBack, t, Refill
      <4>2. /\ tags' = [tags EXCEPT ![evicted][req.addr.set] = req.addr.tag]
            /\ valid' = [valid EXCEPT ![evicted][req.addr.set] = TRUE]
            /\ dirty' = [dirty EXCEPT ![evicted][req.addr.set] = we_pipe]
        BY <3>3, LinesStep
      <4>3. \A w \in Ways : Live(w, req.addr.set)' => tags'[w][req.addr.set] # t
        <5> SUFFICES ASSUME NEW w \in Ways, valid'[w][req.addr.set] \/ dirty'[w][req.addr.set],
                            tags'[w][req.addr.set] = t
                     PROVE  FALSE
          BY <1>3 DEF Live
        <5>1. w # evicted
          BY <2>2, <2>3, <3>1, <4>2, Typed
        <5>2. Live(w, req.addr.set) /\ tags[w][req.addr.set] = t
          BY <1>3, <3>1, <4>2, <5>1, Typed DEF Live
        <5> QED BY <3>1, <4>1, <5>1, <5>2, Single DEF Live
      <4> QED BY <1>1, <1>3, <1>4, <1>6, <2>1, <2>2, <2>3, <3>3, <4>3 DEF WriteBack, cached, Live
    <3>4. CASE WriteWaiting /\ state' = "WAIT_WRITE"
      <4>1. lineVars' = lineVars /\ state = "WAIT_WRITE" /\ ~(Refill \/ IdleHit \/ FenceDone)
        BY <3>4 DEF WriteWaiting, Refill, IdleHit, FenceDone
      <4>2. valid' = valid
        <5>1. req.op # "fence"
          BY <1>1, <2>3 DEF cached, access, Access
        <5> QED BY <4>1, <5>1, LinesStep
      <4>3. \A w \in Ways : Live(w, req.addr.set) => tags[w][req.addr.set] # t
        BY <2>3, <4>1 DEF WriteBack, t
      <4> QED BY <1>1, <1>3, <1>4, <1>6, <2>1, <2>2, <2>3, <3>4, <4>1, <4>2, <4>3
              DEF WriteBack, cached, Live, lineVars
    <3> QED BY <1>1, <1>2, <2>3, <3>2, <3>3, <3>4, Moving DEF IdleMiss
  <2>4. CASE fence
    <3>1. \E w \in Ways : dirty[w][s] /\ tags[w][s] = t
      BY <2>4 DEF WriteBack, t, s
    <3>2. FenceLine \/ WriteWaiting
      BY <1>1, <1>2, <2>4, Moving DEF IdleFence, FenceNext, wrt_finish
    <3>3. lineVars' = lineVars /\ state' # "MISS"
      BY <3>2 DEF FenceLine, WriteWaiting
    <3> QED BY <1>1, <1>3, <1>4, <1>6, <2>1, <2>2, <2>4, <3>1, <3>3 DEF WriteBack, lineVars, cached
  <2> QED BY <1>1, <1>6, <2>3, <2>4 DEF FsmLockstep, cached
<1> QED BY <1>5, <1>6

\* What is being written back is a line as the program left it.
LEMMA WriteBackStep ==
  ASSUME TypeOK, BusLockstep, CInv, Cycle
  PROVE  WriteBack'
<1>1. CacheWriteFsm /\ wfsm \in {"INIT", "WRITE", "FINISH"}
  BY Typed DEF Cycle, DCacheClock
<1>2. wfsm = "FINISH" => wfsm' # "WRITE"
  BY <1>1 DEF CacheWriteFsm, WriteInit, WriteBurst, WriteFinish
<1>3. wfsm' # "WRITE" => WriteBack'
  BY DEF WriteBack
<1> QED BY <1>1, <1>2, <1>3, WriteBackBegins, WriteBackGoesOn

\* The beats of a read are the words of the line that missed.
LEMMA BeatRead ==
  ASSUME TypeOK, BusLockstep, CInv, Cycle, r_crt' = "D_R", ~uncached'
  PROVE  /\ cached /\ ~retiring /\ req' = req /\ view' = view /\ state = "MISS"
         /\ rcount' \in 1 .. WordNum
         /\ rdata' = view[req.addr.tag][req.addr.set][rcount' - 1]
         /\ r_crt = "D_AR" => rcount' = 1
         /\ r_crt # "D_AR" => r_crt = "D_R" /\ rcount' = rcount + 1 /\ d_rvalid /\ d_rready
<1> USE DEF CInv
<1>1. /\ MainFsm /\ FsmLockstep /\ ReadLockstep /\ ReadLockstep' /\ ReadFsm(i_rvalid, d_rvalid)
      /\ r_crt \in {"R_IDLE", "I_AR", "I_R", "D_AR", "D_R"} /\ rcount \in Nat
      /\ req.addr \in Addr
  BY Typed, ReadLockstepStep DEF Cycle, DCacheClock, BusLockstep, TypeOK, ArbiterTypeOK, PmemTypeOK
<1>2. r_crt = "D_AR" \/ (r_crt = "D_R" /\ ~(rvalid /\ rlast))
  BY <1>1 DEF ReadFsm, GrantNone, GrantI, GrantD, ReadAddress, ReadData
<1>3. d_rvalid /\ araddr = d_raddr /\ arlen = d_rlen /\ d_rvalid'
  BY <1>1, <1>2 DEF ReadLockstep
<1>4. state = "MISS" /\ ~fence /\ state' = "MISS"
  BY <1>3 DEF d_rvalid
<1>5. ~retiring
  BY <1>4 DEF retiring, dcache_miss
<1>6. req' = req /\ view' = view
  BY <1>1, <1>5, Moving, PromisedStep DEF Orderly
<1>7. cached /\ ~uncached
  BY <1>1, <1>4, <1>6 DEF cached, FsmLockstep, uncached
<1>8. araddr.tag = req.addr.tag /\ araddr.set = req.addr.set /\ araddr.word = 0 /\ arlen = WordNum - 1
      /\ InPmem(araddr)
  <2>1. araddr = [req.addr EXCEPT !.word = 0] /\ arlen = WordNum - 1
    BY <1>3, <1>7 DEF d_raddr, d_rlen, LineBase
  <2>2. req.addr.tag \in Tags
    BY <1>7, Typed
  <2> QED BY <1>1, <2>1, <2>2 DEF Addr, InPmem
<1>9. rstate = 1
  BY <1>1, <1>2 DEF ReadLockstep
<1>10. PmemRead(arvalid', d_raddr', d_rlen', d_rsize', rready')
  BY DEF Cycle, Slave
<1>11. ReadBeat(TRUE)
  BY <1>9, <1>10 DEF rready, PmemRead, ReadQuiet, ReadAccept, ReadBeat
<1>12. rdata' = mem'[req.addr.tag][req.addr.set][rcount] /\ rcount' = rcount + 1
  BY <1>1, <1>8, <1>11 DEF ReadBeat
<1>13. mem'[req.addr.tag][req.addr.set] = view[req.addr.tag][req.addr.set]
  BY <1>4, <1>7, MissedLine
<1>14. rcount' - 1 = rcount
  BY <1>1, <1>12
<1>15. rcount' \in 1 .. WordNum
  <2>1. rcount' \in 1 .. arlen' + 1 /\ arlen' = arlen
    BY <1>1, <1>11 DEF ReadLockstep, ReadBeat
  <2> QED BY <1>8, <2>1, GeometryAssumption
<1>16. r_crt = "D_AR" => rcount' = 1
  BY <1>1, <1>12 DEF ReadLockstep
<1>17. r_crt = "D_R" => d_rready
  BY <1>1 DEF ReadLockstep, d_rready
<1> QED BY <1>2, <1>3, <1>4, <1>5, <1>6, <1>7, <1>12, <1>13, <1>14, <1>15, <1>16, <1>17

\* The words that were shifted in stay in order.
LEMMA ShiftIn ==
  ASSUME NEW line, NEW n \in 1 .. WordNum, NEW buf \in Line,
         \A i \in Words : i < n - 1 => buf[WordNum - n + 1 + i] = line[i]
  PROVE  \A i \in Words : i < n => Shift(buf, line[n - 1])[WordNum - n + i] = line[i]
<1> SUFFICES ASSUME NEW i \in Words, i < n
             PROVE  Shift(buf, line[n - 1])[WordNum - n + i] = line[i]
  OBVIOUS
<1>1. n \in Nat /\ i \in Nat /\ WordNum \in Nat /\ WordNum - n + i \in Words
  BY GeometryAssumption DEF Words
<1>2. CASE i = n - 1
  <2>1. WordNum - n + i = WordNum - 1
    BY <1>1, <1>2
  <2> QED BY <1>1, <1>2, <2>1 DEF Shift
<1>3. CASE i # n - 1
  <2>1. i < n - 1 /\ WordNum - n + i # WordNum - 1 /\ WordNum - n + i + 1 = WordNum - n + 1 + i
    BY <1>1, <1>3
  <2>2. Shift(buf, line[n - 1])[WordNum - n + i] = buf[WordNum - n + i + 1]
    BY <1>1, <2>1 DEF Shift
  <2> QED BY <2>1, <2>2
<1> QED BY <1>2, <1>3

\* Each beat puts its word where the line wants it.
LEMMA ReadInBeats ==
  ASSUME TypeOK, BusLockstep, CInv, Cycle, r_crt' = "D_R", ~uncached'
  PROVE  /\ rdata' = view'[req'.addr.tag][req'.addr.set][rcount' - 1]
         /\ \A i \in Words : i < rcount' - 1 =>
              ret_buf'[WordNum - rcount' + 1 + i] = view'[req'.addr.tag][req'.addr.set][i]
<1> USE DEF CInv
<1> DEFINE line == view[req.addr.tag][req.addr.set]
<1>1. /\ cached /\ ~retiring /\ req' = req /\ view' = view /\ state = "MISS"
      /\ rcount' \in 1 .. WordNum
      /\ rdata' = line[rcount' - 1]
      /\ r_crt = "D_AR" => rcount' = 1
      /\ r_crt # "D_AR" => r_crt = "D_R" /\ rcount' = rcount + 1 /\ d_rvalid /\ d_rready
  BY BeatRead
<1>2. ret_buf \in Line /\ ReturnBuffer /\ rcount \in Nat
  BY Typed DEF Cycle, DCacheClock, TypeOK, PmemTypeOK
<1>3. CASE r_crt = "D_AR"
  BY <1>1, <1>3 DEF Words
<1>4. CASE r_crt # "D_AR"
  <2>1. ~uncached
    BY <1>1 DEF cached
  <2>2. /\ rdata = line[rcount - 1]
        /\ \A i \in Words : i < rcount - 1 => ret_buf[WordNum - rcount + 1 + i] = line[i]
    BY <1>1, <1>4, <2>1 DEF ReadIn
  <2>3. rcount \in 1 .. WordNum
    BY <1>1, <1>2, <1>4, GeometryAssumption DEF BusLockstep, ReadLockstep
  <2>4. ret_buf' = Shift(ret_buf, line[rcount - 1])
    BY <1>1, <1>2, <1>4, <2>2 DEF ReturnBuffer
  <2> HIDE DEF line
  <2>5. \A i \in Words : i < rcount => ret_buf'[WordNum - rcount + i] = line[i]
    BY <1>2, <2>2, <2>3, <2>4, ShiftIn
  <2>6. ASSUME NEW i \in Words, i < rcount' - 1
        PROVE  ret_buf'[WordNum - rcount' + 1 + i] = line[i]
    <3>1. rcount' = rcount + 1
      BY <1>1, <1>4
    <3>2. i < rcount /\ WordNum - rcount' + 1 + i = WordNum - rcount + i
      BY <1>2, <2>6, <3>1, GeometryAssumption DEF Words
    <3> QED BY <2>5, <3>2
  <2> QED BY <1>1, <2>6 DEF line
<1> QED BY <1>3, <1>4

\* After the last beat the return buffer is the line.
LEMMA ReadInEnds ==
  ASSUME TypeOK, BusLockstep, CInv, Cycle, state' \in {"REFILL", "WAIT_WRITE"}, cached'
  PROVE  ret_buf' = view'[req'.addr.tag][req'.addr.set]
<1> USE DEF CInv
<1> DEFINE line == view[req.addr.tag][req.addr.set]
<1>1. /\ MainFsm /\ FsmLockstep /\ ReturnBuffer /\ ReadLockstep /\ ret_buf \in Line /\ ret_buf' \in Line
  BY Typed, CacheTyped DEF Cycle, DCacheClock, BusLockstep, DCacheTypeOK
<1>2. ~retiring
  BY <1>1, RequestMoves
<1>3. req' = req /\ view' = view
  BY <1>1, <1>2, Moving, PromisedStep DEF Orderly
<1>4. cached
  BY <1>3 DEF cached, access, uncached
<1>5. (MissWait /\ state' = "REFILL") \/ Refill \/ WriteWaiting
  BY <1>1, <1>2, <1>4, Moving
<1>6. CASE Refill \/ WriteWaiting
  <2>1. state \in {"REFILL", "WAIT_WRITE"} /\ ~d_rvalid
    BY <1>6 DEF Refill, WriteWaiting, d_rvalid
  <2> QED BY <1>1, <1>3, <1>4, <2>1 DEF ReadIn, ReturnBuffer
<1>7. CASE MissWait /\ state' = "REFILL"
  <2>1. d_rready /\ d_rlast /\ d_rvalid /\ ~uncached
    BY <1>4, <1>7 DEF MissWait, d_rvalid, cached
  <2>2. r_crt = "D_R" /\ rcount = WordNum
    <3>1. r_crt = "D_R" /\ rlast
      BY <2>1 DEF d_rlast
    <3>2. rcount = arlen + 1 /\ arlen = WordNum - 1
      BY <1>1, <2>1, <3>1 DEF ReadLockstep, d_rlen
    <3> QED BY <3>1, <3>2, GeometryAssumption
  <2>3. /\ rdata = line[rcount - 1]
        /\ \A i \in Words : i < rcount - 1 => ret_buf[WordNum - rcount + 1 + i] = line[i]
    BY <2>1, <2>2 DEF ReadIn
  <2>4. ret_buf' = Shift(ret_buf, line[rcount - 1])
    BY <1>1, <2>1, <2>3 DEF ReturnBuffer
  <2>5. line \in Line /\ rcount \in 1 .. WordNum
    BY <2>1, <2>2, Typed, GeometryAssumption
  <2> HIDE DEF line
  <2>6. \A i \in Words : i < rcount => ret_buf'[WordNum - rcount + i] = line[i]
    BY <1>1, <2>3, <2>4, <2>5, ShiftIn
  <2>7. \A i \in Words : ret_buf'[i] = line[i]
    BY <2>2, <2>6, GeometryAssumption DEF Words
  <2>8. ret_buf' = line
    BY <1>1, <2>5, <2>7 DEF Line
  <2> QED BY <1>3, <2>8 DEF line
<1> QED BY <1>5, <1>6, <1>7

\* The return buffer follows the beats of the read.
LEMMA ReadInStep ==
  ASSUME TypeOK, BusLockstep, CInv, Cycle
  PROVE  ReadIn'
BY ReadInBeats, ReadInEnds DEF ReadIn

\* CInv is inductive.
LEMMA InitCInv == PlainRequests /\ Init => CInv
<1> SUFFICES ASSUME PlainRequests, Init PROVE CInv
  OBVIOUS
<1>1. /\ req = Bubble /\ state = "IDLE" /\ wfsm = "INIT" /\ r_crt = "R_IDLE" /\ rd_index = 0
      /\ valid = [w \in Ways |-> [s \in Sets |-> FALSE]]
      /\ valid_rdata = [w \in Ways |-> FALSE]
      /\ dirty = [w \in Ways |-> [s \in Sets |-> FALSE]]
      /\ addr_cnt = [way |-> 0, set |-> 0] /\ view = mem
  BY DEF Init, DCacheInit, ArbiterInit
<1>2. ~access /\ ~fence /\ ~cached
  BY <1>1, Defaults DEF access, fence, cached, Access, Fence
<1>3. \A w \in Ways, s \in Sets : ~valid[w][s] /\ ~dirty[w][s] /\ ~Live(w, s)
  BY <1>1 DEF Live
<1>4. Orderly
  BY OrderlyInit
<1>5. Indexed
  BY <1>1, <1>2, <1>3, Defaults DEF Indexed
<1>6. Placed
  BY <1>1, <1>2, <1>3 DEF Placed, Ways
<1>7. Current
  BY <1>1, <1>3 DEF Current, CleanMatchesMemory, Written
<1>8. Saved /\ WriteBack /\ ReadIn
  BY <1>1, <1>2 DEF Saved, WriteBack, ReadIn
<1> QED BY <1>4, <1>5, <1>6, <1>7, <1>8 DEF CInv

\* Every step preserves CInv.
LEMMA NextCInv ==
  ASSUME PlainRequests, IInv, CInv, [Next]_vars
  PROVE  CInv'
<1>1. CASE Next
  <2>1. TypeOK /\ BusLockstep /\ Cycle
    BY <1>1 DEF IInv, Next
  <2>2. Orderly' /\ Indexed' /\ Placed'
    BY <2>1, OrderlyStep, IndexedStep, PlacedStep DEF CInv
  <2>3. Current' /\ Saved' /\ WriteBack' /\ ReadIn'
    BY <2>1, CurrentStep, SavedStep, WriteBackStep, ReadInStep
  <2> QED BY <2>2, <2>3 DEF CInv
<1>2. CASE UNCHANGED vars
  <2> USE <1>2 DEF vars, pmemVars, readVars, writeVars, arbiterVars, cacheVars, CInv
  <2>1. /\ uncached' = uncached /\ access' = access /\ fence' = fence /\ cached' = cached
        /\ evicted' = evicted /\ walk_end' = walk_end /\ sent' = sent
    BY DEF uncached, access, fence, cached, evicted, walk_end, sent
  <2>2. stored' = stored
    BY <2>1 DEF stored
  <2>3. promised' = promised
    BY <2>2 DEF promised
  <2>4. Orderly'
    BY <2>1 DEF Orderly, Plain
  <2>5. Indexed'
    BY <2>1 DEF Indexed
  <2>6. Placed'
    BY <2>1 DEF Placed, Live
  <2>7. Current'
    BY <2>3 DEF Current, CleanMatchesMemory, Live, Written, Flying
  <2>8. Saved'
    BY <2>1 DEF Saved, Written, Flying, Passed
  <2>9. WriteBack'
    BY <2>1 DEF WriteBack, Live
  <2>10. ReadIn'
    BY <2>1 DEF ReadIn
  <2> QED BY <2>4, <2>5, <2>6, <2>7, <2>8, <2>9, <2>10
<1> QED BY <1>1, <1>2

\* A load that retires finds its word in the line that hits, or in the return buffer.
LEMMA LoadsHit ==
  ASSUME TypeOK, BusLockstep, CInv
  PROVE  LoadValue
<1> USE DEF CInv
<1> SUFFICES ASSUME retiring, req.op = "load", ~uncached
             PROVE  rdata_pipe = view[req.addr.tag][req.addr.set][req.addr.word]
  BY DEF LoadValue
<1>1. cached /\ state \in {"IDLE", "WAIT_WRITE"}
  BY Typed DEF cached, access, Access, retiring, dcache_miss
<1>2. CASE state = "IDLE"
  <2>1. cache_hit
    BY <1>1, <1>2 DEF retiring, dcache_miss, wfsm_en, cached
  <2>2. /\ hit_way \in Ways /\ valid[hit_way][req.addr.set] /\ tags[hit_way][req.addr.set] = req.addr.tag
        /\ req.addr.set \in Sets /\ rd_index = req.addr.set
    BY <1>1, <1>2, <2>1, Lookup DEF Indexed
  <2>3. data[hit_way][req.addr.set] = view[req.addr.tag][req.addr.set]
    BY <1>2, <2>2 DEF Current, Live, promised
  <2> QED BY <1>2, <2>2, <2>3 DEF rdata_pipe
<1>3. CASE state = "WAIT_WRITE"
  BY <1>1, <1>3 DEF rdata_pipe, ReadIn
<1> QED BY <1>1, <1>2, <1>3

\* A fence that retires has walked every line.
LEMMA FencesEnd ==
  ASSUME TypeOK, BusLockstep, CInv
  PROVE  FenceCommits
<1> SUFFICES ASSUME retiring, fence PROVE mem = view
  BY DEF FenceCommits
<1>1. state = "WAIT_WRITE" /\ wrt_finish /\ walk_end
  BY Typed DEF retiring, dcache_miss, wfsm_en
<1> QED BY <1>1, AllWritten

-----------------------------------------------------------------------------
(* Theorems about what the data side promises *)

\* IInv and CInv hold of every program of plain requests.
LEMMA Coherent == PlainRequests /\ Spec => [](IInv /\ CInv)
<1>1. PlainRequests /\ Init => IInv /\ CInv
  BY InitIInv, InitCInv
<1>2. PlainRequests /\ IInv /\ CInv /\ [Next]_vars => IInv' /\ CInv'
  BY NextIInv, NextCInv
<1>3. PlainRequests' <=> PlainRequests
  BY DEF PlainRequests, Plain
<1> QED BY <1>1, <1>2, <1>3, PTL DEF Spec

\* A cached load delivers what was last stored to its word.
THEOREM LoadsCorrect == PlainRequests /\ Spec => []LoadValue
<1>1. IInv /\ CInv => LoadValue
  BY LoadsHit DEF IInv
<1> QED BY Coherent, <1>1, PTL

\* No line is in both ways, and a clean one has the bytes memory has.
THEOREM Coherence == PlainRequests /\ Spec => []CacheCoherent
<1>1. IInv /\ CInv => CacheCoherent
  BY DEF CInv, Placed, Current, CacheCoherent, OneCopy, Live
<1> QED BY Coherent, <1>1, PTL

\* A fence leaves in memory everything that was stored before it.
THEOREM FencesWrite == PlainRequests /\ Spec => []FenceCommits
<1>1. IInv /\ CInv => FenceCommits
  BY FencesEnd DEF IInv
<1> QED BY Coherent, <1>1, PTL

\* The abstract memory has the geometry of the cache.
LEMMA SameGeometry ==
  /\ Promise!Sets = Sets /\ Promise!Words = Words /\ Promise!ZeroLine = ZeroLine
  /\ \A old, new, strb : Promise!Merge(old, new, strb) = Merge(old, new, strb)
BY DEF Promise!Sets, Promise!Words, Promise!Lanes, Promise!ZeroWord, Promise!ZeroLine, Promise!Merge,
   Sets, Words, Lanes, ZeroWord, ZeroLine, Merge

\* A request is answered as the abstract memory answers it.
LEMMA AnsweredNow == IInv /\ CInv => Promise!Answered
<1> SUFFICES ASSUME IInv, CInv PROVE Promise!Answered
  OBVIOUS
<1>1. LoadValue /\ FenceCommits /\ (req.addr.tag \in Tags => ~uncached)
  BY LoadsHit, FencesEnd, Typed DEF IInv
<1> QED BY <1>1 DEF LoadValue, FenceCommits, fence, Fence, Promise!Answered, Promise!Cached

\* The same after the edge.
LEMMA AnsweredNext == IInv' /\ CInv' => Promise!Answered'
BY AnsweredNow, PTL

\* A cycle is a step of the abstract memory.
LEMMA PromisedNext ==
  ASSUME PlainRequests, IInv, CInv, Next
  PROVE  Promise!Next
<1> USE DEF IInv, CInv
<1>1. /\ FsmLockstep /\ MainFsm /\ Cycle
      /\ view' = IF retiring THEN stored ELSE view
      /\ req.addr.tag \in Tags <=> ~uncached
  BY Typed DEF Next, Cycle, DCacheClock, BusLockstep, History, retiring
<1>2. IInv' /\ CInv'
  BY NextIInv, NextCInv
<1>4. Promise!Answered'
  BY <1>2, AnsweredNext
<1>5. CASE retiring
  <2>1. mem' = mem
    BY <1>1, <1>5, RequestMoves, MemStep
  <2>2. view' = Promise!Performed(req, view)
    BY <1>1, <1>5, SameGeometry DEF stored, Promise!Performed, Promise!Cached
  <2> QED BY <1>4, <1>5, <2>1, <2>2 DEF Promise!Next, Promise!Answer
<1>6. CASE ~retiring
  <2>1. req' = req /\ view' = view
    BY <1>1, <1>6, Moving
  <2>2. Promise!WriteBack
    <3>1. CASE wfsm = "WRITE" /\ w_crt' = "D_W" /\ maddr.tag \in Tags
      <4>1. /\ write_counter' \in Words /\ maddr.set \in Sets
            /\ mem' = [mem EXCEPT ![maddr.tag][maddr.set][write_counter'] =
                         Poke(@, wbuf'[0], d_wstrb')]
        BY <1>1, <3>1, MemStep, Typed
      <4>2. ~uncached
        BY <3>1 DEF WriteBack
      <4>3. wfsm' = "WRITE"
        BY <1>2, <3>1 DEF BusLockstep, WriteLockstep
      <4>4. wbuf'[0] = view[maddr.tag][maddr.set][write_counter'] /\ wbuf'[0] \in Word
        <5>1. \A i \in Words : write_counter' + i < WordNum =>
                wbuf'[i] = view[maddr.tag][maddr.set][write_counter' + i]
          BY <1>1, <3>1, <4>2, <4>3, BurstStep DEF Orderly
        <5>2. 0 \in Words /\ write_counter' + 0 < WordNum /\ write_counter' + 0 = write_counter'
          BY <4>1, GeometryAssumption DEF Words
        <5>3. wbuf' \in Line
          BY <1>2 DEF TypeOK, DCacheTypeOK
        <5> QED BY <5>1, <5>2, <5>3 DEF Line
      <4>5. d_wstrb' = Lanes
        BY <2>1, <4>2 DEF d_wstrb, uncached
      <4>6. mem' = [mem EXCEPT ![maddr.tag][maddr.set][write_counter'] =
                      view[maddr.tag][maddr.set][write_counter']]
        BY <4>1, <4>4, <4>5, PokeAll
      <4>7. \E t \in Tags, s \in Promise!Sets, i \in Promise!Words :
              mem' = [mem EXCEPT ![t][s][i] = view[t][s][i]]
        <5>1. \E t \in Tags, s \in Sets, i \in Words :
                mem' = [mem EXCEPT ![t][s][i] = view[t][s][i]]
          <6> USE <3>1, <4>1
          <6> WITNESS maddr.tag \in Tags, maddr.set \in Sets, write_counter' \in Words
          <6> QED BY <4>6
        <5> QED BY <5>1, SameGeometry
      <4> QED BY <4>7 DEF Promise!WriteBack
    <3>2. CASE ~(wfsm = "WRITE" /\ w_crt' = "D_W" /\ maddr.tag \in Tags)
      <4>1. mem' = mem
        BY <1>1, <3>2, MemStep
      <4> QED BY <4>1 DEF Promise!WriteBack
    <3> QED BY <3>1, <3>2
  <2> QED BY <1>4, <1>6, <2>1, <2>2 DEF Promise!Next, Promise!Serve
<1> QED BY <1>5, <1>6

\* Data cache, arbiter and slave implement the write-back memory: loads and
\* fences are answered as it promises, and memory only catches up, a word at a
\* time.
THEOREM WriteBackRefined == PlainRequests /\ Spec => IsWriteBackMemory
<1>1. Init => Promise!Init
  BY Defaults, SameGeometry DEF Init, PmemInit, ZeroMem, DCacheInit, Promise!Init
<1>2. PlainRequests /\ IInv /\ CInv /\ [Next]_vars => [Promise!Next]_(Promise!vars)
  <2> SUFFICES ASSUME PlainRequests, IInv, CInv, [Next]_vars
               PROVE  [Promise!Next]_(Promise!vars)
    OBVIOUS
  <2>1. CASE Next
    BY <2>1, PromisedNext
  <2>2. CASE UNCHANGED vars
    <3>1. UNCHANGED <<view, mem, req>>
      BY <2>2 DEF vars, pmemVars, cacheVars
    <3>2. retiring' = retiring
      BY <2>2 DEF vars, pmemVars, cacheVars, retiring, dcache_miss, wfsm_en, access, fence, uncached,
         cache_hit, hit, wrt_finish, walk_end
    <3>3. (IF retiring /\ req.op = "load" /\ ~uncached THEN rdata_pipe ELSE ZeroWord)'
            = IF retiring /\ req.op = "load" /\ ~uncached THEN rdata_pipe ELSE ZeroWord
      BY <2>2, <3>2 DEF vars, pmemVars, cacheVars, uncached, rdata_pipe, hit_way, hit
    <3> QED BY <3>1, <3>2, <3>3 DEF Promise!vars
  <2> QED BY <2>1, <2>2
<1>3. PlainRequests' <=> PlainRequests
  BY DEF PlainRequests, Plain
<1> QED BY Coherent, <1>1, <1>2, <1>3, PTL DEF Spec, IsWriteBackMemory, Promise!Spec

-----------------------------------------------------------------------------
(* Device accesses: what has been asked of a device *)

\* A store to a device names the lanes from the first one on: the slave looks at
\* their number only.
FromFirstLane(r) ==
  r.op = "store" /\ r.addr.tag \in DeviceTags =>
    \A l \in Lanes : l \in r.strb <=> l < Cardinality(r.strb)

AlignedRequests == \A r \in Requests : FromFirstLane(r)

device == access /\ uncached

loaded(v) == <<[kind |-> "load", addr |-> req.addr, len |-> 2 ^ req.size, val |-> v]>>

written == <<[kind |-> "store", addr |-> req.addr, len |-> Cardinality(req.strb),
              val |-> Merge(ZeroWord, req.data, req.strb)]>>

\* The call that the request in LS has made.
made ==
  IF device /\ req.op = "load" /\ state = "WAIT_WRITE" THEN loaded(ret_buf[WordNum - 1])
  ELSE IF device /\ req.op = "load" /\ r_crt = "D_R" THEN loaded(rdata)
  ELSE IF device /\ req.op = "store" /\ (wfsm = "FINISH" \/ w_crt \in {"D_W", "D_B"}) THEN written
  ELSE <<>>

\* The bus carries what the request asks for, and the request has made its call
\* when the bus has carried it.
DInv ==
  /\ FromFirstLane(ex) /\ FromFirstLane(req)
  /\ r_crt \in {"D_AR", "D_R"} => arsize = d_rsize
  /\ device /\ req.op = "store" => state # "MISS"
  /\ wfsm = "WRITE" /\ uncached =>
       /\ req.op = "store" /\ maddr = req.addr
       /\ w_crt \in {"W_IDLE", "D_AW"} => wbuf[0] = req.data
  /\ calls = made

-----------------------------------------------------------------------------
(* Device accesses: what a cycle does to it *)

\* A read of a device is the one beat behind the address.
LEMMA ReadCall ==
  ASSUME TypeOK, BusLockstep, DInv, Cycle
  PROVE  mmio_read = IF r_crt = "D_AR" /\ uncached THEN loaded(rdata') ELSE <<>>
<1>1. /\ ReadLockstep /\ r_crt \in {"R_IDLE", "I_AR", "I_R", "D_AR", "D_R"} /\ rcount \in Nat
      /\ req.addr \in Addr /\ (req.addr.tag \in Tags <=> ~uncached) /\ InPmem(i_raddr)
  BY Typed DEF BusLockstep, TypeOK, ArbiterTypeOK, PmemTypeOK
<1>2. CASE r_crt \in {"R_IDLE", "I_AR", "I_R"}
  BY <1>1, <1>2 DEF ReadLockstep, mmio_read
<1>3. CASE r_crt \in {"D_AR", "D_R"} /\ ~uncached
  <2>1. araddr.tag = req.addr.tag
    BY <1>1, <1>3 DEF ReadLockstep, d_raddr, LineBase, Addr
  <2> QED BY <1>1, <1>3, <2>1 DEF mmio_read, InPmem
<1>4. CASE r_crt = "D_AR" /\ uncached
  <2>1. rstate = 1 /\ araddr = req.addr /\ arsize = req.size
    BY <1>1, <1>4 DEF ReadLockstep, d_raddr, d_rsize, DInv
  <2> QED BY <1>1, <1>4, <2>1 DEF mmio_read, InPmem, loaded
<1>5. CASE r_crt = "D_R" /\ uncached
  <2>1. rcount \in 1 .. arlen + 1 /\ arlen = 0 /\ (rlast <=> rcount = arlen + 1)
    BY <1>1, <1>5 DEF ReadLockstep, d_rlen
  <2>2. rstate = 0
    BY <1>1, <1>5, <2>1 DEF ReadLockstep
  <2> QED BY <1>5, <2>2 DEF mmio_read
<1> QED BY <1>1, <1>2, <1>3, <1>4, <1>5

\* A write to a device is the one word behind the address.
LEMMA WriteCall ==
  ASSUME TypeOK, BusLockstep, CInv, DInv, Cycle
  PROVE  mmio_write(wvalid', wbuf'[0], d_wstrb') =
           IF wfsm = "WRITE" /\ uncached /\ w_crt = "D_AW" THEN written ELSE <<>>
<1> USE DEF CInv, DInv
<1>1. /\ WriteLockstep /\ FsmLockstep /\ MainFsm /\ WriteBackBuffer /\ MissAddress
      /\ WriteFsm(d_wvalid, d_wlast) /\ (req.addr.tag \in Tags <=> ~uncached)
      /\ w_crt \in {"W_IDLE", "D_AW", "D_W", "D_B"} /\ write_counter \in Nat
      /\ (fence => ~uncached)
  BY Typed DEF Cycle, DCacheClock, BusLockstep, Orderly, Plain, fence
<1>2. CASE wfsm # "WRITE" \/ w_crt \in {"W_IDLE", "D_B"}
  <2>1. w_crt' # "D_W"
    BY <1>1, <1>2 DEF WriteLockstep, WriteFsm
  <2> QED BY <1>2, <2>1 DEF mmio_write, wvalid
<1>3. CASE wfsm = "WRITE" /\ w_crt \in {"D_AW", "D_W"} /\ ~uncached
  <2>1. awaddr.tag \in Tags
    BY <1>1, <1>3 DEF WriteLockstep, WriteBack
  <2> QED BY <1>3, <2>1 DEF mmio_write, InPmem
<1>4. CASE wfsm = "WRITE" /\ w_crt = "D_W" /\ uncached
  <2>1. write_counter = 0 /\ d_wlast /\ wready
    BY <1>1, <1>4 DEF WriteLockstep, write_num, d_wlast
  <2>2. w_crt' = "D_B"
    BY <1>1, <1>4, <2>1 DEF WriteFsm
  <2> QED BY <1>4, <2>2 DEF mmio_write, wvalid
<1>5. CASE wfsm = "WRITE" /\ w_crt = "D_AW" /\ uncached
  <2>1. w_crt' = "D_W" /\ wstate = 1 /\ awaddr = req.addr /\ req.op = "store"
    BY <1>1, <1>5 DEF WriteFsm, WriteLockstep
  <2>2. ~wfsm_en /\ ~d_wready
    BY <1>1, <1>5 DEF FsmLockstep, wfsm_en, d_wready
  <2>3. wbuf'[0] = req.data
    BY <1>1, <1>5, <2>2 DEF WriteBackBuffer
  <2>4. d_wstrb' = req.strb
    <3>1. req' = req
      BY <1>1, <1>5, RequestMoves
    <3> QED BY <1>5, <3>1 DEF d_wstrb, uncached
  <2>5. Poke(ZeroWord, req.data, req.strb) = Merge(ZeroWord, req.data, req.strb)
    BY <1>5, <2>1 DEF Poke, Merge, FromFirstLane, uncached
  <2>6. ~InPmem(awaddr) /\ wvalid'
    BY <1>1, <1>5, <2>1 DEF InPmem, wvalid
  <2> QED BY <1>5, <2>1, <2>3, <2>4, <2>5, <2>6 DEF mmio_write, written
<1> QED BY <1>1, <1>2, <1>3, <1>4, <1>5

\* What a cycle appends to the calls made so far.
LEMMA Joined ==
  ASSUME NEW a
  PROVE  /\ <<>> \o <<>> \o <<>> = <<>>
         /\ <<>> \o <<>> \o <<a>> = <<a>>
         /\ <<>> \o <<a>> \o <<>> = <<a>>
         /\ <<a>> \o <<>> \o <<>> = <<a>>
OBVIOUS

\* Which calls were made follows the request.
LEMMA CallsStep ==
  ASSUME TypeOK, BusLockstep, CInv, DInv, Cycle
  PROVE  calls' = made'
<1> USE DEF DInv
<1>1. /\ MainFsm /\ FsmLockstep /\ WriteLockstep /\ ReadLockstep
      /\ FsmLockstep' /\ WriteLockstep' /\ ReadLockstep' /\ CacheWriteFsm /\ ReturnBuffer
      /\ WriteFsm(d_wvalid, d_wlast) /\ ReadFsm(i_rvalid, d_rvalid)
      /\ r_crt \in {"R_IDLE", "I_AR", "I_R", "D_AR", "D_R"}
      /\ w_crt \in {"W_IDLE", "D_AW", "D_W", "D_B"} /\ wfsm \in {"INIT", "WRITE", "FINISH"}
      /\ state \in {"IDLE", "MISS", "REFILL", "WAIT_WRITE"} /\ write_counter \in Nat
      /\ ~(access /\ fence) /\ (fence => ~uncached)
  BY Typed, ReadLockstepStep, WriteLockstepStep, FsmLockstepStep
     DEF Cycle, DCacheClock, BusLockstep, TypeOK, ArbiterTypeOK, CInv, Orderly, Plain, fence
<1> DEFINE w == IF wfsm = "WRITE" /\ uncached /\ w_crt = "D_AW" THEN written ELSE <<>>
           r == IF r_crt = "D_AR" /\ uncached THEN loaded(rdata') ELSE <<>>
<1>2. calls' = (IF retiring THEN <<>> ELSE calls) \o w \o r
  BY ReadCall, WriteCall DEF Cycle, History, retiring
<1>3. r_crt \in {"D_AR", "D_R"} => state = "MISS" /\ ~fence /\ access /\ ~retiring
  BY <1>1 DEF ReadLockstep, d_rvalid, retiring, dcache_miss, FsmLockstep
<1>4. wfsm = "WRITE" => ~retiring /\ (access \/ fence)
  BY <1>1, RequestMoves DEF FsmLockstep
<1>5. CASE retiring
  <2>1. calls' = <<>>
    BY <1>2, <1>3, <1>4, <1>5
  <2>2. state' = "IDLE"
    BY <1>1, <1>5, RequestMoves
  <2>3. r_crt' # "D_R" /\ wfsm' = "INIT" /\ w_crt' = "W_IDLE"
    BY <1>1, <2>2 DEF ReadLockstep, d_rvalid, FsmLockstep, WriteLockstep
  <2> QED BY <2>1, <2>2, <2>3 DEF made
<1>6. CASE ~retiring
  <2>1. req' = req /\ calls' = calls \o w \o r
    BY <1>1, <1>2, <1>6, Moving
  <2>2. access' = access /\ device' = device
    BY <2>1 DEF device, access, uncached
  <2>3. CASE ~device
    <3>1. w = <<>> /\ r = <<>>
      BY <1>1, <1>3, <1>4, <2>3 DEF device
    <3> QED BY <2>1, <2>2, <2>3, <3>1 DEF made
  <2>4. CASE device /\ req.op = "load"
    <3>1. w = <<>> /\ uncached /\ access
      BY <2>4 DEF device
    <3>2. CASE r_crt = "D_AR"
      <4>1. calls = <<>> /\ r_crt' = "D_R"
        BY <1>1, <1>3, <2>4, <3>2 DEF made, ReadFsm, GrantNone, GrantI, GrantD, ReadAddress, ReadData, ReadLockstep
      <4>2. state' = "MISS"
        BY <1>1, <4>1 DEF ReadLockstep, d_rvalid
      <4>3. calls' = loaded(rdata')
        BY <2>1, <3>1, <3>2, <4>1, Joined DEF loaded
      <4>4. made' = loaded(rdata)'
        BY <2>1, <2>2, <2>4, <4>1, <4>2 DEF made
      <4> QED BY <2>1, <4>3, <4>4 DEF loaded
    <3>3. CASE r_crt = "D_R"
      <4>1. calls = loaded(rdata) /\ r = <<>>
        BY <1>3, <2>4, <3>3 DEF made
      <4>2. d_rready /\ d_rlast /\ d_rvalid
        <5>1. rcount \in 1 .. arlen + 1 /\ arlen = 0 /\ (rlast <=> rcount = arlen + 1) /\ rvalid
          BY <1>1, <3>1, <3>3 DEF ReadLockstep, d_rlen
        <5> QED BY <1>1, <3>3, <5>1 DEF d_rready, d_rlast, ReadLockstep
      <4>3. MissWait
        BY <1>1, <1>3, <3>3 DEF MainFsm, IdleQuiet, IdleHit, IdleMiss, IdleUncached, IdleFence,
           FenceLine, Refill, WriteWaiting, AccessDone, FenceNext, FenceDone
      <4>4. state' = "WAIT_WRITE"
        BY <3>1, <4>2, <4>3 DEF MissWait
      <4>5. ret_buf'[WordNum - 1] = rdata
        <5>1. WordNum - 1 \in Words
          BY GeometryAssumption DEF Words
        <5> QED BY <1>1, <4>2, <5>1 DEF ReturnBuffer, Shift
      <4>6. calls' = loaded(rdata)
        BY <2>1, <3>1, <4>1, Joined DEF loaded
      <4>7. made' = loaded(ret_buf[WordNum - 1])'
        BY <2>1, <2>2, <2>4, <4>4 DEF made
      <4> QED BY <2>1, <4>5, <4>6, <4>7 DEF loaded
    <3>4. CASE r_crt \notin {"D_AR", "D_R"}
      <4>1. r = <<>> /\ r_crt' # "D_R" /\ ~d_rready /\ ret_buf' = ret_buf
        BY <1>1, <3>4 DEF ReadFsm, GrantNone, GrantI, GrantD, ReadAddress, ReadData, d_rready, ReturnBuffer
      <4>2. state' = "WAIT_WRITE" <=> state = "WAIT_WRITE"
        <5>1. state # "REFILL" /\ ~fence
          BY <1>1, <3>1 DEF FsmLockstep
        <5> QED BY <1>1, <1>6, <2>4, <3>1, <4>1, <5>1, Moving DEF MainFsm, IdleMiss, IdleUncached, IdleFence,
                FenceLine, MissWait, Refill, WriteWaiting, FenceNext
      <4>3. calls = made /\ (made = <<>> \/ made = loaded(ret_buf[WordNum - 1]))
        BY <2>4, <3>4 DEF made
      <4>4. calls' = calls
        BY <2>1, <3>1, <4>1, <4>3, Joined DEF loaded
      <4>5. made' = made
        BY <2>1, <2>2, <2>4, <3>4, <4>1, <4>2 DEF made, loaded
      <4> QED BY <4>4, <4>5
    <3> QED BY <3>2, <3>3, <3>4
  <2>5. CASE device /\ req.op # "load"
    <3>1. req.op = "store" /\ uncached /\ access /\ ~fence /\ state \in {"IDLE", "WAIT_WRITE"} /\ r = <<>>
      BY <1>1, <1>3, <2>5 DEF device, access, Access, FsmLockstep
    <3>2. wfsm # "FINISH"
      BY <1>1, <1>6, <3>1 DEF FsmLockstep, retiring, dcache_miss, wrt_finish, wfsm_en
    <3>3. CASE w_crt = "W_IDLE"
      <4>1. calls = <<>> /\ w = <<>> /\ w_crt' \in {"W_IDLE", "D_AW"}
        BY <1>1, <2>5, <3>1, <3>2, <3>3 DEF made, WriteFsm
      <4>2. wfsm' # "FINISH"
        BY <1>1, <3>1, <3>2, <3>3 DEF CacheWriteFsm, WriteInit, WriteBurst, WriteFinish, d_bvalid
      <4>3. calls' = <<>>
        BY <2>1, <3>1, <4>1, Joined
      <4>4. made' = <<>>
        BY <2>1, <2>2, <2>5, <4>1, <4>2 DEF made
      <4> QED BY <4>3, <4>4
    <3>4. CASE w_crt = "D_AW"
      <4>1. calls = <<>> /\ w = written /\ w_crt' = "D_W"
        BY <1>1, <2>5, <3>1, <3>2, <3>4 DEF made, WriteFsm, WriteLockstep
      <4>2. written' = written
        BY <2>1 DEF written
      <4>3. calls' = written
        BY <2>1, <3>1, <4>1, Joined DEF written
      <4>4. made' = written'
        BY <2>1, <2>2, <2>5, <3>1, <4>1 DEF made
      <4> QED BY <4>2, <4>3, <4>4
    <3>5. CASE w_crt \in {"D_W", "D_B"}
      <4>1. calls = written /\ w = <<>> /\ wfsm = "WRITE"
        BY <1>1, <2>5, <3>1, <3>5 DEF made, WriteLockstep
      <4>2. w_crt' \in {"D_W", "D_B"} \/ wfsm' = "FINISH"
        BY <1>1, <3>5, <4>1 DEF WriteFsm, WriteLockstep, CacheWriteFsm, WriteInit, WriteBurst, WriteFinish, d_bvalid
      <4>3. written' = written
        BY <2>1 DEF written
      <4>4. calls' = written
        BY <2>1, <3>1, <4>1, Joined DEF written
      <4>5. made' = written'
        BY <2>1, <2>2, <2>5, <3>1, <4>2 DEF made
      <4> QED BY <4>3, <4>4, <4>5
    <3> QED BY <1>1, <3>3, <3>4, <3>5
  <2> QED BY <2>3, <2>4, <2>5
<1> QED BY <1>5, <1>6

\* The bus carries what the request asks for.
LEMMA CarriedStep ==
  ASSUME TypeOK, BusLockstep, CInv, DInv, Cycle
  PROVE  /\ (r_crt \in {"D_AR", "D_R"} => arsize = d_rsize)'
         /\ (device /\ req.op = "store" => state # "MISS")'
         /\ (wfsm = "WRITE" /\ uncached =>
               /\ req.op = "store" /\ maddr = req.addr
               /\ w_crt \in {"W_IDLE", "D_AW"} => wbuf[0] = req.data)'
<1> USE DEF DInv
<1>1. /\ MainFsm /\ FsmLockstep /\ WriteLockstep /\ ReadLockstep /\ FsmLockstep' /\ ReadLockstep'
      /\ CacheWriteFsm /\ WriteBackBuffer /\ MissAddress
      /\ WriteFsm(d_wvalid, d_wlast) /\ ReadFsm(i_rvalid, d_rvalid)
      /\ r_crt \in {"R_IDLE", "I_AR", "I_R", "D_AR", "D_R"} /\ ~(access /\ fence)
      /\ w_crt \in {"W_IDLE", "D_AW", "D_W", "D_B"} /\ wfsm \in {"INIT", "WRITE", "FINISH"}
      /\ (fence => ~uncached)
  BY Typed, ReadLockstepStep, FsmLockstepStep
     DEF Cycle, DCacheClock, BusLockstep, TypeOK, ArbiterTypeOK, CInv, Orderly, Plain, fence
<1>2. ASSUME r_crt' \in {"D_AR", "D_R"} PROVE arsize' = d_rsize'
  <2>1. PmemRead(arvalid', d_raddr', d_rlen', d_rsize', rready')
    BY <1>2 DEF Cycle, Slave
  <2>2. CASE r_crt = "R_IDLE"
    <3>1. r_crt' = "D_AR" /\ rstate = 0
      BY <1>1, <1>2, <2>2 DEF ReadLockstep, ReadFsm, GrantNone, GrantI, GrantD, ReadAddress, ReadData
    <3> QED BY <2>1, <3>1 DEF PmemRead, ReadQuiet, ReadAccept, ReadBeat, arvalid
  <2>3. CASE r_crt # "R_IDLE"
    <3>1. r_crt \in {"D_AR", "D_R"}
      BY <1>1, <1>2, <2>3 DEF ReadFsm, GrantNone, GrantI, GrantD, ReadAddress, ReadData
    <3>2. rstate = 1
      <4>1. r_crt = "D_R" => ~(rvalid /\ rlast) \/ r_crt' = "R_IDLE"
        BY <1>1 DEF ReadFsm, GrantNone, GrantI, GrantD, ReadAddress, ReadData, ReadLockstep
      <4>2. r_crt = "D_R" => rvalid
        BY <1>1 DEF ReadLockstep
      <4> QED BY <1>1, <1>2, <3>1, <4>1, <4>2 DEF ReadLockstep
    <3>3. arsize' = arsize
      BY <2>1, <3>2 DEF PmemRead, ReadQuiet, ReadAccept, ReadBeat
    <3>4. state = "MISS"
      BY <1>1, <3>1 DEF ReadLockstep, d_rvalid
    <3>5. ~retiring
      BY <3>4 DEF retiring, dcache_miss
    <3>6. req' = req
      BY <1>1, <3>5, Moving
    <3> QED BY <3>1, <3>3, <3>6 DEF d_rsize, uncached
  <2> QED BY <2>2, <2>3
<1>3. ASSUME device', req'.op = "store" PROVE state' # "MISS"
  <2>1. CASE retiring
    BY <1>1, <2>1, RequestMoves
  <2>2. CASE ~retiring
    <3>1. req' = req
      BY <1>1, <2>2, Moving
    <3>2. device /\ req.op = "store" /\ access /\ ~fence /\ uncached
      BY <1>1, <1>3, <3>1 DEF device, access, uncached
    <3> QED BY <1>1, <2>2, <3>2, Moving DEF MainFsm, IdleMiss, IdleUncached, IdleFence, FenceLine, MissWait,
            Refill, WriteWaiting, FenceNext
  <2> QED BY <2>1, <2>2
<1>4. ASSUME wfsm' = "WRITE", uncached'
      PROVE  /\ req'.op = "store" /\ maddr' = req'.addr
             /\ w_crt' \in {"W_IDLE", "D_AW"} => wbuf'[0] = req'.data
  <2>1. ~retiring
    <3>1. retiring => state' = "IDLE"
      BY <1>1, RequestMoves
    <3> QED BY <1>1, <1>4, <3>1 DEF FsmLockstep
  <2>2. req' = req
    BY <1>1, <2>1, Moving
  <2>3. uncached /\ ~fence
    BY <1>1, <1>4, <2>2 DEF uncached
  <2>4. CASE wfsm = "INIT"
    <3>1. WriteInit
      BY <1>1, <2>4 DEF CacheWriteFsm, WriteBurst, WriteFinish
    <3>2. wfsm_en /\ req.op # "load"
      BY <1>4, <2>3, <3>1 DEF WriteInit
    <3>3. req.op = "store"
      BY <2>3, <3>2 DEF wfsm_en, access, Access
    <3>4. maddr' = req.addr /\ wbuf' = [ZeroLine EXCEPT ![0] = req.data]
      BY <1>1, <2>3, <3>2 DEF MissAddress, WriteBackBuffer
    <3>5. wbuf'[0] = req.data
      BY <3>4, Defaults DEF Line
    <3> QED BY <2>2, <3>3, <3>4, <3>5
  <2>5. CASE wfsm = "WRITE"
    <3>1. ~wfsm_en
      BY <1>1, <2>3, <2>5 DEF wfsm_en, FsmLockstep
    <3>2. req.op = "store" /\ maddr' = req.addr
      BY <1>1, <2>3, <2>5, <3>1 DEF MissAddress
    <3>3. ASSUME w_crt' \in {"W_IDLE", "D_AW"} PROVE wbuf'[0] = req.data
      <4>1. w_crt # "D_B"
        BY <1>1, <1>4, <2>5 DEF CacheWriteFsm, WriteInit, WriteBurst, WriteFinish, d_bvalid, WriteLockstep
      <4>2. w_crt \in {"W_IDLE", "D_AW"}
        BY <1>1, <3>3, <4>1 DEF WriteFsm
      <4>3. wbuf' = wbuf
        BY <1>1, <3>1, <4>2 DEF WriteBackBuffer, d_wready
      <4> QED BY <2>3, <2>5, <4>2, <4>3
    <3> QED BY <2>2, <3>2, <3>3
  <2>6. wfsm # "FINISH"
    BY <1>1, <1>4 DEF CacheWriteFsm, WriteInit, WriteBurst, WriteFinish
  <2> QED BY <1>1, <2>4, <2>5, <2>6
<1> QED BY <1>2, <1>3, <1>4

\* DInv is inductive, relative to the others.
LEMMA InitDInv == AlignedRequests /\ Init => DInv
<1> SUFFICES ASSUME Init PROVE DInv
  OBVIOUS
<1>1. /\ req = Bubble /\ ex = Bubble /\ wfsm = "INIT" /\ r_crt = "R_IDLE" /\ calls = <<>>
  BY DEF Init, DCacheInit, ArbiterInit
<1>2. ~device /\ req.op # "store" /\ ex.op # "store"
  BY <1>1, Defaults DEF device, access, Access
<1> QED BY <1>1, <1>2 DEF DInv, FromFirstLane, made

LEMMA NextDInv ==
  ASSUME AlignedRequests, IInv, CInv, DInv, [Next]_vars
  PROVE  DInv'
<1>1. CASE Next
  <2>1. TypeOK /\ BusLockstep /\ Cycle /\ MainFsm /\ FsmLockstep
    BY <1>1 DEF IInv, Next, Cycle, DCacheClock, BusLockstep
  <2>2. FromFirstLane(ex)' /\ FromFirstLane(req)'
    <3>1. ex' = ex \/ ex' \in Requests \cup {Bubble}
      BY <2>1 DEF Cycle, Pipeline, Issue
    <3>2. req' = req \/ req' = ex
      BY <2>1, RequestMoves
    <3> QED BY <3>1, <3>2, Defaults DEF DInv, FromFirstLane, AlignedRequests
  <2> QED BY <2>1, <2>2, CallsStep, CarriedStep DEF DInv
<1>2. CASE UNCHANGED vars
  <2> USE <1>2 DEF vars, pmemVars, readVars, writeVars, arbiterVars, cacheVars
  <2>1. uncached' = uncached /\ access' = access /\ device' = device /\ d_rsize' = d_rsize
        /\ written' = written
    BY DEF uncached, access, device, d_rsize, written
  <2>2. made' = made
    BY <2>1 DEF made, loaded
  <2> QED BY <2>1, <2>2 DEF DInv, FromFirstLane
<1> QED BY <1>1, <1>2

\* An uncached load or store reaches the device exactly once, with its address,
\* its bytes and its answer, and nothing else reaches a device.
THEOREM DevicesOnce == PlainRequests /\ AlignedRequests /\ Spec => []DeviceOnce
<1>1. IInv /\ CInv /\ DInv => DeviceOnce
  <2> SUFFICES ASSUME IInv, CInv, DInv, retiring
               PROVE  CASE access /\ uncached /\ req.op = "load" -> calls = loaded(rdata_pipe)
                        [] access /\ uncached /\ req.op = "store" -> calls = written
                        [] OTHER -> calls = <<>>
    BY DEF DeviceOnce, loaded, written
  <2>1. device => state = "WAIT_WRITE" /\ wfsm = "FINISH"
    BY Typed DEF IInv, device, retiring, dcache_miss, wfsm_en, wrt_finish
  <2>2. device /\ req.op = "load" => rdata_pipe = ret_buf[WordNum - 1]
    BY <2>1 DEF rdata_pipe, device
  <2> QED BY <2>1, <2>2 DEF DInv, made, device
<1>2. AlignedRequests' <=> AlignedRequests
  BY DEF AlignedRequests, FromFirstLane
<1> QED BY Coherent, InitDInv, NextDInv, <1>1, <1>2, PTL DEF Spec
=============================================================================
