------------------------------- MODULE DCache -------------------------------
(***************************************************************************)
(* simulator/IP/mycpu/DCache.sv: the two-way write-back data cache.  One   *)
(* clock edge takes one disjunct of the main state machine, one of the     *)
(* write state machine, and the registers beside them.  The request in the *)
(* EX stage of the pipeline (ex) is the input; the arbiter's signals come  *)
(* from AxiArbiter.                                                        *)
(***************************************************************************)
EXTENDS AxiArbiter

VARIABLES
  ex,            \* the request the EX stage presents
  req,           \* request buffer: the request of the LS stage
  ret_buf,       \* return buffer, filled by the beats of a read
  data, tags,    \* the two BRAM ways
  rd_index,      \* their registered read address (addr_r)
  valid, valid_rdata, dirty, lru,
  wbuf, maddr,   \* write-back buffer and its address
  addr_cnt,      \* the line a fence walk is at: way and set
  state,         \* main state machine
  wfsm, write_counter

cacheVars == <<req, ret_buf, data, tags, rd_index, valid, valid_rdata, dirty, lru,
               wbuf, maddr, addr_cnt, state, wfsm, write_counter>>

Access == {"load", "store"}
Fence  == {"fence", "fencei"}

Request == [op : {"none"} \cup Access \cup Fence, addr : Addr, data : Word,
            strb : SUBSET Lanes, size : 0 .. 7]

Bubble == [op |-> "none", addr |-> NoAddr, data |-> ZeroWord, strb |-> {}, size |-> 0]

DCacheInit ==
  /\ req = Bubble
  /\ ret_buf = ZeroLine /\ wbuf = ZeroLine /\ maddr = NoAddr
  /\ data = [w \in Ways |-> [s \in Sets |-> ZeroLine]]
  /\ tags = [w \in Ways |-> [s \in Sets |-> NoAddr.tag]]
  /\ rd_index = 0
  /\ valid = [w \in Ways |-> [s \in Sets |-> FALSE]]
  /\ valid_rdata = [w \in Ways |-> FALSE]
  /\ dirty = [w \in Ways |-> [s \in Sets |-> FALSE]]
  /\ lru = [s \in Sets |-> 0]
  /\ addr_cnt = [way |-> 0, set |-> 0]
  /\ state = "IDLE" /\ wfsm = "INIT" /\ write_counter = 0

-----------------------------------------------------------------------------
(* Combinational signals *)

access   == req.op \in Access
fence    == req.op \in Fence
uncached == req.addr.tag \in DeviceTags
we_pipe  == req.strb # {}

\* While a fence is in LS, or in EX, the arrays are addressed by the walk.
read_from_cnt == fence \/ ex.op \in Fence
r_index == IF read_from_cnt THEN addr_cnt.set ELSE ex.addr.set
w_index == IF read_from_cnt THEN addr_cnt.set ELSE req.addr.set

\* Fault: way 1 is never compared.
hit_OneWay == {w \in {0} : valid_rdata[w] /\ tags[w][rd_index] = req.addr.tag}

hit       == {w \in Ways : valid_rdata[w] /\ tags[w][rd_index] = req.addr.tag}
cache_hit == hit # {}
hit_way   == IF 0 \in hit THEN 0 ELSE 1
lru_sel   == 1 - lru[w_index]

\* The way whose line is latched for write-back.
victim     == IF fence THEN addr_cnt.way ELSE lru_sel
dirty_info == dirty[victim][w_index]

wrt_finish == wfsm = "FINISH"
\* Fault: the walk ends after the sets of one way.
walk_end_OneWay == addr_cnt.set = 0
walk_end   == addr_cnt = [way |-> 0, set |-> 0]

\* wbuf_we, mbuf_we and wfsm_en are raised together.
wfsm_en ==
  \/ state = "IDLE" /\ access /\ (uncached \/ ~cache_hit)
  \/ state = "IDLE" /\ fence
  \/ state = "MISS" /\ fence

dcache_miss ==
  \/ wfsm_en
  \/ state \in {"MISS", "REFILL"}
  \/ state = "WAIT_WRITE" /\ ~(wrt_finish /\ (fence => walk_end))

rdata_pipe ==
  IF state = "WAIT_WRITE"
    THEN ret_buf[IF uncached THEN WordNum - 1 ELSE req.addr.word]
    ELSE data[hit_way][rd_index][req.addr.word]

\* To the bus
d_rvalid == state = "MISS" /\ ~fence
d_raddr  == IF uncached THEN req.addr ELSE LineBase(req.addr)
d_rsize  == IF uncached THEN req.size ELSE 2
d_rlen   == IF uncached THEN 0 ELSE WordNum - 1
d_wvalid == wfsm = "WRITE" /\ write_counter < WordNum
d_wlast  == wfsm = "WRITE" /\ write_counter = IF uncached THEN 0 ELSE WordNum - 1
d_bready == wfsm = "WRITE"
d_wstrb  == IF uncached THEN req.strb ELSE Lanes

-----------------------------------------------------------------------------
(* Main state machine, with the arrays it writes *)

lineVars == <<data, tags, lru, dirty>>

IdleQuiet ==
  /\ state = "IDLE" /\ ~access /\ ~fence
  /\ state' = "IDLE" /\ req' = ex
  /\ UNCHANGED <<lineVars, addr_cnt>>

\* Fault: a store that hits leaves its line clean.
IdleHit_Clean ==
  /\ state = "IDLE" /\ access /\ ~uncached /\ cache_hit
  /\ state' = "IDLE" /\ req' = ex
  /\ data' = [data EXCEPT ![hit_way][w_index][req.addr.word] =
                Merge(@, req.data, req.strb)]
  /\ lru' = [lru EXCEPT ![w_index] = hit_way]
  /\ UNCHANGED <<tags, dirty, addr_cnt>>

IdleHit ==
  /\ state = "IDLE" /\ access /\ ~uncached /\ cache_hit
  /\ state' = "IDLE" /\ req' = ex
  /\ data' = [data EXCEPT ![hit_way][w_index][req.addr.word] =
                Merge(@, req.data, req.strb)]
  /\ lru' = [lru EXCEPT ![w_index] = hit_way]
  /\ dirty' = [dirty EXCEPT ![hit_way][w_index] = (@ \/ we_pipe)]
  /\ UNCHANGED <<tags, addr_cnt>>

IdleMiss ==
  /\ state = "IDLE" /\ access /\ ~uncached /\ ~cache_hit
  /\ state' = "MISS"
  /\ UNCHANGED <<req, lineVars, addr_cnt>>

IdleUncached ==
  /\ state = "IDLE" /\ access /\ uncached
  /\ state' = IF req.op = "load" THEN "MISS" ELSE "WAIT_WRITE"
  /\ UNCHANGED <<req, lineVars, addr_cnt>>

IdleFence ==
  /\ state = "IDLE" /\ fence
  /\ state' = "MISS"
  /\ UNCHANGED <<req, lineVars, addr_cnt>>

\* addr_cnt is one counter, the way above the set index.
FenceLine ==
  /\ state = "MISS" /\ fence
  /\ state' = "WAIT_WRITE"
  /\ addr_cnt' = IF addr_cnt.set < SetNum - 1
                   THEN [way |-> addr_cnt.way, set |-> addr_cnt.set + 1]
                   ELSE [way |-> 1 - addr_cnt.way, set |-> 0]
  /\ UNCHANGED <<req, lineVars>>

MissWait ==
  /\ state = "MISS" /\ ~fence
  /\ state' = IF ~(d_rready /\ d_rlast) THEN "MISS"
              ELSE IF uncached THEN "WAIT_WRITE" ELSE "REFILL"
  /\ UNCHANGED <<req, lineVars, addr_cnt>>

\* Fault: a store that misses leaves its line clean.
Refill_Clean ==
  /\ state = "REFILL"
  /\ state' = "WAIT_WRITE"
  /\ data' = [data EXCEPT ![lru_sel][w_index] =
                [ret_buf EXCEPT ![req.addr.word] = Merge(@, req.data, req.strb)]]
  /\ tags' = [tags EXCEPT ![lru_sel][w_index] = req.addr.tag]
  /\ dirty' = [dirty EXCEPT ![lru_sel][w_index] = FALSE]
  /\ lru' = [lru EXCEPT ![w_index] = 1 - @]
  /\ UNCHANGED <<req, addr_cnt>>

Refill ==
  /\ state = "REFILL"
  /\ state' = "WAIT_WRITE"
  /\ data' = [data EXCEPT ![lru_sel][w_index] =
                [ret_buf EXCEPT ![req.addr.word] = Merge(@, req.data, req.strb)]]
  /\ tags' = [tags EXCEPT ![lru_sel][w_index] = req.addr.tag]
  /\ dirty' = [dirty EXCEPT ![lru_sel][w_index] = we_pipe]
  /\ lru' = [lru EXCEPT ![w_index] = 1 - @]
  /\ UNCHANGED <<req, addr_cnt>>

WriteWaiting ==
  /\ state = "WAIT_WRITE" /\ ~wrt_finish
  /\ UNCHANGED <<state, req, lineVars, addr_cnt>>

AccessDone ==
  /\ state = "WAIT_WRITE" /\ wrt_finish /\ ~fence
  /\ state' = "IDLE" /\ req' = ex
  /\ UNCHANGED <<lineVars, addr_cnt>>

FenceNext ==
  /\ state = "WAIT_WRITE" /\ wrt_finish /\ fence /\ ~walk_end
  /\ state' = "MISS"
  /\ UNCHANGED <<req, lineVars, addr_cnt>>

FenceDone ==
  /\ state = "WAIT_WRITE" /\ wrt_finish /\ fence /\ walk_end
  /\ state' = "IDLE" /\ req' = ex
  /\ dirty' = [w \in Ways |-> [s \in Sets |-> FALSE]]
  /\ UNCHANGED <<data, tags, lru, addr_cnt>>

MainFsm ==
  \/ IdleQuiet \/ IdleHit \/ IdleMiss \/ IdleUncached \/ IdleFence
  \/ FenceLine \/ MissWait \/ Refill
  \/ WriteWaiting \/ AccessDone \/ FenceNext \/ FenceDone

-----------------------------------------------------------------------------
(* Write state machine *)

\* Fault: an uncached load starts a write too.
WriteInit_LoadsToo ==
  /\ wfsm = "INIT"
  /\ wfsm' = IF ~wfsm_en THEN "INIT"
             ELSE IF uncached \/ dirty_info THEN "WRITE" ELSE "FINISH"
  /\ write_counter' = 0

WriteInit ==
  /\ wfsm = "INIT"
  /\ wfsm' = IF ~wfsm_en THEN "INIT"
             ELSE IF (IF uncached THEN req.op # "load" ELSE dirty_info)
               THEN "WRITE" ELSE "FINISH"
  /\ write_counter' = 0

\* Fault: the counter runs while the bus is not ready.
WriteBurst_Ungated ==
  /\ wfsm = "WRITE"
  /\ wfsm' = IF d_bvalid THEN "FINISH" ELSE "WRITE"
  /\ write_counter' = write_counter + 1

WriteBurst ==
  /\ wfsm = "WRITE"
  /\ wfsm' = IF d_bvalid THEN "FINISH" ELSE "WRITE"
  /\ write_counter' = IF d_wready THEN write_counter + 1 ELSE write_counter

\* Fault: FINISH does not wait for the main state machine.
WriteFinish_Early ==
  /\ wfsm = "FINISH"
  /\ wfsm' = "INIT"
  /\ UNCHANGED write_counter

WriteFinish ==
  /\ wfsm = "FINISH"
  /\ wfsm' = IF state = "WAIT_WRITE" THEN "INIT" ELSE "FINISH"
  /\ UNCHANGED write_counter

CacheWriteFsm == WriteInit \/ WriteBurst \/ WriteFinish

-----------------------------------------------------------------------------
(* Registers beside the state machines *)

\* valid_flush follows the fence (not the fence.i) in LS.
ValidBits ==
  /\ valid' = IF req.op = "fence" THEN [w \in Ways |-> [s \in Sets |-> FALSE]]
              ELSE IF state = "REFILL" THEN [valid EXCEPT ![lru_sel][w_index] = TRUE]
              ELSE valid
  /\ valid_rdata' = [w \in Ways |-> valid[w][r_index]]

ReadPort == rd_index' = r_index

ReturnBuffer ==
  ret_buf' = IF d_rvalid /\ d_rready THEN Shift(ret_buf, rdata) ELSE ret_buf

WriteBackBuffer ==
  wbuf' = IF wfsm_en
            THEN IF uncached /\ ~fence
                   THEN [ZeroLine EXCEPT ![0] = req.data]
                   ELSE data[victim][rd_index]
          ELSE IF d_wvalid /\ d_wready THEN Shift(wbuf, ZeroWord)
          ELSE wbuf

\* Fault: the victim goes back to the address that missed.
MissAddress_Request ==
  maddr' = IF ~wfsm_en THEN maddr
           ELSE IF uncached THEN req.addr ELSE LineBase(req.addr)

\* Fault: the address is latched in every cycle.
MissAddress_Always ==
  maddr' = IF uncached THEN req.addr
           ELSE [tag |-> tags[victim][rd_index], set |-> w_index, word |-> 0]

MissAddress ==
  maddr' = IF ~wfsm_en THEN maddr
           ELSE IF uncached THEN req.addr
           ELSE [tag |-> tags[victim][rd_index], set |-> w_index, word |-> 0]

DCacheClock ==
  /\ MainFsm /\ CacheWriteFsm
  /\ ValidBits /\ ReadPort /\ ReturnBuffer /\ WriteBackBuffer /\ MissAddress

DCacheTypeOK ==
  /\ ex \in Request /\ req \in Request
  /\ ret_buf \in Line /\ wbuf \in Line /\ maddr \in Addr
  /\ data \in [Ways -> [Sets -> Line]]
  /\ tags \in [Ways -> [Sets -> Tags]]
  /\ rd_index \in Sets
  /\ valid \in [Ways -> [Sets -> BOOLEAN]]
  /\ valid_rdata \in [Ways -> BOOLEAN]
  /\ dirty \in [Ways -> [Sets -> BOOLEAN]]
  /\ lru \in [Sets -> Ways]
  /\ addr_cnt \in [way : Ways, set : Sets]
  /\ state \in {"IDLE", "MISS", "REFILL", "WAIT_WRITE"}
  /\ wfsm \in {"INIT", "WRITE", "FINISH"}
  /\ write_counter \in 0 .. WordNum
=============================================================================
