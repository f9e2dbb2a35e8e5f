-------------------------------- MODULE DMem --------------------------------
(***************************************************************************)
(* The data side of the simulated machine, closed: the EX stage of the     *)
(* pipeline issuing loads, stores and fences, the data cache, the AXI      *)
(* arbiter, the simulated memory, and an instruction cache reduced to the  *)
(* line reads it asks of the arbiter.  One step is one call of             *)
(* single_cycle: rising edge, then pmem_write, then pmem_read.             *)
(***************************************************************************)
EXTENDS DCache

CONSTANTS
  Requests,         \* the requests the program makes
  FenceAfterAccess, \* may a fence directly follow a cached load or store?
  FetchLines        \* lines the instruction cache may read; {} leaves it out

ASSUME RequestsAssumption ==
  /\ Requests \subseteq Request
  /\ FenceAfterAccess \in BOOLEAN
  /\ FetchLines \subseteq {a \in Addr : a.tag \in Tags /\ a.word = 0}

VARIABLES
  i_rvalid, i_raddr, \* the read the instruction cache asks for
  view,              \* history: memory as the retired instructions left it
  calls              \* history: device calls since the request in LS was accepted

vars == <<pmemVars, arbiterVars, ex, cacheVars, i_rvalid, i_raddr, view, calls>>

Init ==
  /\ PmemInit(ZeroMem) /\ ArbiterInit /\ DCacheInit
  /\ ex = Bubble
  /\ i_rvalid = FALSE /\ i_raddr = NoAddr
  /\ view = mem /\ calls = <<>>

-----------------------------------------------------------------------------
(* EX stage.  The pipeline stalls on a miss; a fence in EX flushes what    *)
(* follows it, so a bubble enters EX behind it.                            *)
Issue(r) ==
  /\ ex.op \in Fence => r = Bubble
  /\ (r.op \in Fence /\ ex.op \in Access /\ ex.addr.tag \in Tags) => FenceAfterAccess
  /\ ex' = r

Pipeline ==
  IF dcache_miss THEN UNCHANGED ex ELSE \E r \in Requests \cup {Bubble} : Issue(r)

\* The instruction cache holds a request until its last beat, and leaves the
\* bus for its REFILL cycle before it asks again.
InstructionFetch ==
  \/ ~i_rvalid /\ i_rvalid' = FALSE /\ i_raddr' \in FetchLines \cup {i_raddr}
  \/ ~i_rvalid /\ i_rvalid' = TRUE /\ i_raddr' \in FetchLines
  \/ i_rvalid /\ i_rvalid' = ~(i_rready /\ i_rlast) /\ UNCHANGED i_raddr

\* The slave sees the wires as they are after the edge.
Slave ==
  /\ PmemWrite(awvalid', maddr', wvalid', wbuf'[0], d_wstrb', wlast(d_wlast)',
               bready(d_bready)')
  /\ IF r_crt' = "I_AR"
       THEN PmemRead(arvalid', i_raddr', WordNum - 1, 2, rready')
       ELSE PmemRead(arvalid', d_raddr', d_rlen', d_rsize', rready')

-----------------------------------------------------------------------------
(* History variables *)
stored ==
  IF req.op = "store" /\ ~uncached
    THEN [view EXCEPT ![req.addr.tag][req.addr.set][req.addr.word] =
            Merge(@, req.data, req.strb)]
    ELSE view

History ==
  /\ view' = IF dcache_miss THEN view ELSE stored
  /\ calls' = (IF dcache_miss THEN calls ELSE <<>>)
                \o mmio_write(wvalid', wbuf'[0], d_wstrb') \o mmio_read

Cycle ==
  /\ Pipeline /\ InstructionFetch
  /\ DCacheClock
  /\ ReadFsm(i_rvalid, d_rvalid) /\ WriteFsm(d_wvalid, d_wlast)
  /\ Slave
  /\ History

Next == Cycle

\* cpu_exec calls single_cycle in a loop.
Spec == Init /\ [][Next]_vars /\ WF_vars(Next)

-----------------------------------------------------------------------------
(* Properties *)

\* The request in LS leaves it at the next edge.
retiring == ~dcache_miss

TypeOK ==
  /\ PmemTypeOK /\ ArbiterTypeOK /\ DCacheTypeOK
  /\ i_rvalid \in BOOLEAN /\ i_raddr \in Addr /\ i_raddr.word = 0 /\ InPmem(i_raddr)
  /\ view \in [Tags -> [Sets -> Line]]

\* The last beat of the write burst in progress.
write_num == IF uncached THEN 0 ELSE WordNum - 1

\* Arbiter and slave walk through a read together: whoever was granted the
\* port still asks for the line the slave latched, the slave presents exactly
\* the beats asked for, and marks only the last one.
ReadLockstep ==
  /\ r_crt = "R_IDLE" => rstate = 0 /\ ~arready /\ ~rvalid /\ ~rlast
  /\ r_crt \in {"I_AR", "D_AR"} => rstate = 1 /\ arready /\ ~rvalid /\ rcount = 0
  /\ r_crt \in {"I_R", "D_R"} =>
       /\ ~arready /\ rvalid
       /\ rcount \in 1 .. arlen + 1
       /\ rlast <=> rcount = arlen + 1
       /\ rstate = IF rlast THEN 0 ELSE 1
  /\ r_crt \in {"I_AR", "I_R"} => i_rvalid /\ araddr = i_raddr /\ arlen = WordNum - 1
  /\ r_crt \in {"D_AR", "D_R"} => d_rvalid /\ araddr = d_raddr /\ arlen = d_rlen

\* The write state machine of the cache, the arbiter and the slave walk through
\* a write together: the slave is one word ahead of the cache's counter, takes
\* exactly the words of the burst, and answers once.
WriteLockstep ==
  /\ wfsm # "WRITE" => w_crt = "W_IDLE"
  /\ w_crt = "W_IDLE" => wstate = 0 /\ ~awready /\ ~wready /\ ~bvalid
                          /\ (wfsm = "WRITE" => write_counter = 0)
  /\ w_crt = "D_AW" => /\ wstate = 1 /\ awready /\ ~wready /\ ~bvalid
                        /\ wcount = 0 /\ write_counter = 0
  /\ w_crt = "D_W" => /\ wready /\ ~awready /\ ~bvalid
                       /\ write_counter <= write_num /\ wcount = write_counter + 1
                       /\ wstate = IF write_counter = write_num THEN 2 ELSE 1
  /\ w_crt = "D_B" => wstate = 0 /\ ~awready /\ ~wready /\ bvalid
                       /\ write_counter = write_num + 1
  /\ w_crt # "W_IDLE" => awaddr = maddr

\* The two state machines of the cache keep each other's pace.
FsmLockstep ==
  /\ state = "IDLE" => wfsm = "INIT"
  /\ state \in {"MISS", "REFILL"} /\ ~fence => wfsm # "INIT"
  /\ state = "MISS" /\ fence => w_crt = "W_IDLE"
  /\ state = "WAIT_WRITE" => wfsm # "INIT"
  /\ state # "IDLE" => access \/ fence
  /\ state = "REFILL" => ~fence /\ ~uncached

\* Write-back bursts start at the head of a line.
AlignedWrite == maddr.tag \in Tags => maddr.word = 0

BusLockstep == ReadLockstep /\ WriteLockstep /\ FsmLockstep /\ AlignedWrite

\* A cached load delivers the last value stored to its word, whatever lies
\* between the two: refills, evictions, write-backs in flight, fences.
LoadValue ==
  retiring /\ req.op = "load" /\ ~uncached =>
    rdata_pipe = view[req.addr.tag][req.addr.set][req.addr.word]

\* When a fence or a fence.i retires, the walk over both ways has left in
\* memory everything stored before it, so a device may read it.
FenceCommits == retiring /\ fence => mem = view

\* An uncached load or store reaches the device exactly once, at its address,
\* with its bytes, and a load delivers what that one access returned; no other
\* instruction reaches a device at all.
DeviceOnce ==
  retiring =>
    CASE access /\ uncached /\ req.op = "load" ->
           calls = <<[kind |-> "load", addr |-> req.addr, len |-> 2 ^ req.size,
                      val |-> rdata_pipe]>>
      [] access /\ uncached /\ req.op = "store" ->
           calls = <<[kind |-> "store", addr |-> req.addr,
                      len |-> Cardinality(req.strb),
                      val |-> Merge(ZeroWord, req.data, req.strb)]>>
      [] OTHER -> calls = <<>>

\* No line sits in both ways of its set: a hit is never ambiguous.
OneCopy ==
  \A s \in Sets : ~(valid[0][s] /\ valid[1][s] /\ tags[0][s] = tags[1][s])

\* A line that is in the cache and not dirty has the bytes memory has, so an
\* eviction may drop it.
CleanMatchesMemory ==
  \A w \in Ways, s \in Sets :
    valid[w][s] /\ ~dirty[w][s] => data[w][s] = mem[tags[w][s]][s]

\* What the arrays hold can be found, and dropped when nothing marks it.
CacheCoherent == OneCopy /\ CleanMatchesMemory

\* The write-back address and the read address do not move under a burst.
AddressHeld ==
  [][/\ w_crt # "W_IDLE" => maddr' = maddr
     /\ r_crt \in {"D_AR", "D_R"} => d_raddr' = d_raddr]_vars

\* The data cache, the bus and the memory together are a write-back memory.
Promise == INSTANCE WriteBackMemory WITH
  done <- retiring,
  val  <- IF retiring /\ req.op = "load" /\ ~uncached THEN rdata_pipe ELSE ZeroWord

IsWriteBackMemory == Promise!Spec

\* No request stalls the pipeline forever.
EveryRequestRetires == []<>retiring

\* The data cache's priority does not starve the instruction cache.
EveryFetchIsServed == i_rvalid ~> ~i_rvalid

\* Whoever waits for the bus gets an answer.
EveryRequestEnds == EveryRequestRetires /\ EveryFetchIsServed
=============================================================================
