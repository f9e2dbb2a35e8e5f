------------------------------- MODULE ICache -------------------------------
(***************************************************************************)
(* simulator/IP/mycpu/ICache.sv: the two-way read-only instruction cache.  *)
(* The address of IF1 (raddr) and the signals of the hazard unit (stall,   *)
(* flush, and a fence or fence.i in EX) are parameters; the arbiter's      *)
(* signals come from AxiArbiter.                                           *)
(***************************************************************************)
EXTENDS AxiArbiter

CONSTANTS
  Nop,    \* the word 0x13; the word of zeros an empty line holds is never used
  NoTag   \* the tag 0 of an empty line, which no line of the memory has

ASSUME ICacheAssumption == Nop \in Word /\ NoTag \notin Tags

VARIABLES
  addr_pipe, rvalid_pipe,    \* request buffer: the fetch of IF2
  i_ret_buf, flush_buf,
  i_data, i_tags,            \* the two BRAM ways
  i_rd_index,                \* their registered read address
  valid_bit_mem, tag_valid,  \* valid bits, and the ones read with the tags
  i_lru, i_state

icacheVars == <<addr_pipe, rvalid_pipe, i_ret_buf, flush_buf, i_data, i_tags, i_rd_index,
                valid_bit_mem, tag_valid, i_lru, i_state>>

NopLine == [i \in Words |-> Nop]

ICacheInit ==
  /\ addr_pipe = NoAddr /\ rvalid_pipe = FALSE
  /\ i_ret_buf = NopLine /\ flush_buf = FALSE
  /\ i_data = [w \in Ways |-> [s \in Sets |-> NopLine]]
  /\ i_tags = [w \in Ways |-> [s \in Sets |-> NoTag]]
  /\ i_rd_index = 0
  /\ valid_bit_mem = [w \in Ways |-> [s \in Sets |-> FALSE]]
  /\ tag_valid = [w \in Ways |-> FALSE]
  /\ i_lru = [s \in Sets |-> 0]
  /\ i_state = "IDLE"

-----------------------------------------------------------------------------
(* Combinational signals *)

i_hit     == {w \in Ways : tag_valid[w] /\ i_tags[w][i_rd_index] = addr_pipe.tag}
i_hit_way == IF 0 \in i_hit THEN 0 ELSE 1

icache_miss == i_state = "MISS" \/ (i_state = "IDLE" /\ rvalid_pipe /\ i_hit = {})

i_rvalid == i_state = "MISS"
i_raddr  == LineBase(addr_pipe)

\* Fault: a stall does not hold the read index.
i_r_index_NoStall(raddr, stall) == IF icache_miss THEN addr_pipe.set ELSE raddr.set

i_r_index(raddr, stall) == IF icache_miss \/ stall THEN addr_pipe.set ELSE raddr.set
i_w_index == addr_pipe.set

i_lru_sel == 1 - i_lru[i_w_index]

\* tagv_we is 2'b01, way 0, when lru_sel is 1.
refill_way == IF i_lru_sel = 1 THEN 0 ELSE 1

\* Fault: a flushed fetch leaves the buffer before its line has come.
req_buf_we_Flushed(stall) ==
  \/ i_state = "IDLE" /\ ~rvalid_pipe
  \/ i_state = "IDLE" /\ i_hit # {} /\ ~stall
  \/ i_state = "MISS" /\ flush_buf
  \/ i_state = "REFILL" /\ ~stall

\* A refill under a stall leaves the request where it is; the next cycle hits.
req_buf_we(stall) ==
  \/ i_state = "IDLE" /\ ~rvalid_pipe
  \/ i_state = "IDLE" /\ i_hit # {} /\ ~stall
  \/ i_state = "REFILL" /\ ~stall

inst_if2(flush) ==
  IF flush \/ flush_buf THEN Nop
  ELSE IF i_state = "REFILL" THEN i_ret_buf[addr_pipe.word]
  ELSE i_data[i_hit_way][i_rd_index][addr_pipe.word]

-----------------------------------------------------------------------------
(* Main state machine, with the arrays it writes *)

Lookup(stall) ==
  /\ i_state = "IDLE"
  /\ i_state' = IF icache_miss THEN "MISS" ELSE "IDLE"
  /\ i_lru' = IF rvalid_pipe /\ ~icache_miss /\ ~stall
                THEN [i_lru EXCEPT ![i_w_index] = i_hit_way] ELSE i_lru
  /\ UNCHANGED <<i_data, i_tags>>

LineWait ==
  /\ i_state = "MISS"
  /\ i_state' = IF i_rready /\ i_rlast THEN "REFILL" ELSE "MISS"
  /\ UNCHANGED <<i_lru, i_data, i_tags>>

LineFill ==
  /\ i_state = "REFILL"
  /\ i_state' = "IDLE"
  /\ i_data' = [i_data EXCEPT ![refill_way][i_w_index] = i_ret_buf]
  /\ i_tags' = [i_tags EXCEPT ![refill_way][i_w_index] = addr_pipe.tag]
  /\ i_lru' = [i_lru EXCEPT ![i_w_index] = 1 - @]

FetchFsm(stall) == Lookup(stall) \/ LineWait \/ LineFill

-----------------------------------------------------------------------------
(* Registers beside the state machine *)

RequestBuffer(raddr, stall) ==
  IF req_buf_we(stall)
    THEN addr_pipe' = raddr /\ rvalid_pipe' = TRUE
    ELSE UNCHANGED <<addr_pipe, rvalid_pipe>>

\* Fault: the flush is not held to the end of the miss.
FlushBuffer_OneCycle(stall, flush) == flush_buf' = flush

FlushBuffer(stall, flush) ==
  flush_buf' = (flush \/ (flush_buf /\ ~req_buf_we(stall)))

FetchBuffer ==
  i_ret_buf' = IF i_rvalid /\ i_rready THEN Shift(i_ret_buf, rdata) ELSE i_ret_buf

\* A fence in EX wins over a refill.  The valid bits read for the set that is
\* being looked up, or refilled, are forced to 1.
FetchValidBits(raddr, stall, fence) ==
  /\ valid_bit_mem' =
       IF fence THEN [w \in Ways |-> [s \in Sets |-> FALSE]]
       ELSE IF i_state = "REFILL" THEN [valid_bit_mem EXCEPT ![refill_way][i_w_index] = TRUE]
       ELSE valid_bit_mem
  /\ tag_valid' =
       [w \in Ways |-> i_w_index = i_r_index(raddr, stall)
                         \/ valid_bit_mem[w][i_r_index(raddr, stall)]]

ICacheClock(raddr, stall, flush, fence) ==
  /\ FetchFsm(stall)
  /\ RequestBuffer(raddr, stall)
  /\ FlushBuffer(stall, flush)
  /\ FetchBuffer
  /\ FetchValidBits(raddr, stall, fence)
  /\ i_rd_index' = i_r_index(raddr, stall)

ICacheTypeOK ==
  /\ addr_pipe \in Addr /\ rvalid_pipe \in BOOLEAN /\ flush_buf \in BOOLEAN
  /\ i_ret_buf \in Line
  /\ i_data \in [Ways -> [Sets -> Line]]
  /\ i_tags \in [Ways -> [Sets -> Tags \cup {NoTag}]]
  /\ i_rd_index \in Sets
  /\ valid_bit_mem \in [Ways -> [Sets -> BOOLEAN]]
  /\ tag_valid \in [Ways -> BOOLEAN]
  /\ i_lru \in [Sets -> Ways]
  /\ i_state \in {"IDLE", "MISS", "REFILL"}
=============================================================================
