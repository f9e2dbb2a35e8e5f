-------------------------------- MODULE Pmem --------------------------------
(***************************************************************************)
(* The AXI slave of the simulator: pmem_read and pmem_write of             *)
(* simulator/sim/memory/paddr.cpp, called once per clock cycle, the write  *)
(* channel first, after the rising edge has been evaluated.  They read the *)
(* bus outputs of the processor of this cycle, which the composing module  *)
(* passes as primed wires, and drive the slave's signals for the next      *)
(* edge.  An address outside the physical memory is a device register: a   *)
(* read runs the device's callback and returns whatever the device says.   *)
(***************************************************************************)
EXTENDS MemGeometry, Sequences

VARIABLES
  mem,      \* the physical memory, by tag, set and word
  rstate, araddr, arlen, arsize, rcount,   \* C globals of the read channel
                                           \* (arsize kept as its logarithm)
  arready, rvalid, rlast, rdata,           \* signals the read channel drives
  wstate, awaddr, wcount,                  \* C globals of the write channel
  awready, wready, bvalid                  \* signals the write channel drives

readVars  == <<rstate, araddr, arlen, arsize, rcount, arready, rvalid, rlast, rdata>>
writeVars == <<wstate, awaddr, wcount, awready, wready, bvalid>>
pmemVars  == <<mem, readVars, writeVars>>

InPmem(a) == a.tag \in Tags

NoAddr == [tag |-> CHOOSE t \in Tags : TRUE, set |-> 0, word |-> 0]

ZeroMem == [t \in Tags |-> [s \in Sets |-> ZeroLine]]

\* image is what the loader left in the physical memory.
PmemInit(image) ==
  /\ mem = image
  /\ rstate = 0 /\ araddr = NoAddr /\ arlen = 0 /\ arsize = 0 /\ rcount = 0
  /\ arready = FALSE /\ rvalid = FALSE /\ rlast = FALSE /\ rdata = ZeroWord
  /\ wstate = 0 /\ awaddr = NoAddr /\ wcount = 0
  /\ awready = FALSE /\ wready = FALSE /\ bvalid = FALSE

-----------------------------------------------------------------------------
(* Read channel *)

ReadQuiet(arvalid) ==
  /\ rstate = 0 /\ ~arvalid
  /\ rvalid' = FALSE /\ rlast' = FALSE
  /\ UNCHANGED <<rstate, araddr, arlen, arsize, rcount, arready, rdata>>

\* Fault: the length field, beats less one, is taken for less two.
ReadAccept_OneMore(arvalid, addr, len, size) ==
  /\ rstate = 0 /\ arvalid
  /\ rstate' = 1 /\ rcount' = 0
  /\ araddr' = addr /\ arlen' = len + 1 /\ arsize' = size
  /\ arready' = TRUE /\ rvalid' = FALSE /\ rlast' = FALSE
  /\ UNCHANGED rdata

ReadAccept(arvalid, addr, len, size) ==
  /\ rstate = 0 /\ arvalid
  /\ rstate' = 1 /\ rcount' = 0
  /\ araddr' = addr /\ arlen' = len /\ arsize' = size
  /\ arready' = TRUE /\ rvalid' = FALSE /\ rlast' = FALSE
  /\ UNCHANGED rdata

\* Fault: the beat before the last one is marked.
ReadBeat_EarlyLast(rready) ==
  /\ rstate = 1
  /\ arready' = FALSE /\ rvalid' = TRUE
  /\ rlast' = (rcount + 1 = arlen)
  /\ IF InPmem(araddr)
       THEN rdata' = mem'[araddr.tag][araddr.set][araddr.word + rcount]
       ELSE rdata' \in Word
  /\ rcount' = IF rready THEN rcount + 1 ELSE rcount
  /\ rstate' = IF rready /\ rcount = arlen THEN 0 ELSE 1
  /\ UNCHANGED <<araddr, arlen, arsize>>

\* host_read sees what pmem_write stored in the same cycle; mmio_read may
\* return any value.
ReadBeat(rready) ==
  /\ rstate = 1
  /\ arready' = FALSE /\ rvalid' = TRUE
  /\ rlast' = (rcount = arlen)
  /\ IF InPmem(araddr)
       THEN rdata' = mem'[araddr.tag][araddr.set][araddr.word + rcount]
       ELSE rdata' \in Word
  /\ rcount' = IF rready THEN rcount + 1 ELSE rcount
  /\ rstate' = IF rready /\ rcount = arlen THEN 0 ELSE 1
  /\ UNCHANGED <<araddr, arlen, arsize>>

PmemRead(arvalid, addr, len, size, rready) ==
  \/ ReadQuiet(arvalid)
  \/ ReadAccept(arvalid, addr, len, size)
  \/ ReadBeat(rready)

-----------------------------------------------------------------------------
(* Write channel *)

\* The slave does not look at which lanes the mask names, only at how many.
Poke(old, new, strb) ==
  [l \in Lanes |-> IF l < Cardinality(strb) THEN new[l] ELSE old[l]]

WriteQuiet(awvalid) ==
  /\ wstate = 0 /\ ~awvalid
  /\ bvalid' = FALSE
  /\ UNCHANGED <<mem, wstate, awaddr, wcount, awready, wready>>

WriteAccept(awvalid, addr) ==
  /\ wstate = 0 /\ awvalid
  /\ wstate' = 1 /\ awaddr' = addr /\ wcount' = 0
  /\ awready' = TRUE /\ bvalid' = FALSE
  /\ UNCHANGED <<mem, wready>>

WriteWait(wvalid) ==
  /\ wstate = 1 /\ ~wvalid
  /\ awready' = FALSE
  /\ UNCHANGED <<mem, wstate, awaddr, wcount, wready, bvalid>>

WriteBeat(wvalid, wdata, wstrb, wlast) ==
  /\ wstate = 1 /\ wvalid
  /\ awready' = FALSE /\ wready' = TRUE
  /\ mem' = IF InPmem(awaddr)
              THEN [mem EXCEPT ![awaddr.tag][awaddr.set][awaddr.word + wcount] =
                      Poke(@, wdata, wstrb)]
              ELSE mem
  /\ wcount' = wcount + 1
  /\ wstate' = IF wlast THEN 2 ELSE 1
  /\ UNCHANGED <<awaddr, bvalid>>

WriteRespond(bready) ==
  /\ wstate = 2
  /\ wready' = FALSE /\ awready' = FALSE /\ bvalid' = TRUE
  /\ wstate' = IF bready THEN 0 ELSE 2
  /\ UNCHANGED <<mem, awaddr, wcount>>

PmemWrite(awvalid, addr, wvalid, wdata, wstrb, wlast, bready) ==
  \/ WriteQuiet(awvalid)
  \/ WriteAccept(awvalid, addr)
  \/ WriteWait(wvalid)
  \/ WriteBeat(wvalid, wdata, wstrb, wlast)
  \/ WriteRespond(bready)

-----------------------------------------------------------------------------
(* The calls of mmio_read and mmio_write of this cycle. *)

mmio_read ==
  IF rstate = 1 /\ ~InPmem(araddr)
    THEN <<[kind |-> "load", addr |-> araddr, len |-> 2 ^ arsize, val |-> rdata']>>
    ELSE <<>>

mmio_write(wvalid, wdata, wstrb) ==
  IF wstate = 1 /\ wvalid /\ ~InPmem(awaddr)
    THEN <<[kind |-> "store", addr |-> awaddr, len |-> Cardinality(wstrb),
            val |-> Poke(ZeroWord, wdata, wstrb)]>>
    ELSE <<>>

PmemTypeOK ==
  /\ mem \in [Tags -> [Sets -> Line]]
  /\ rstate \in {0, 1} /\ wstate \in {0, 1, 2}
  /\ araddr \in Addr /\ awaddr \in Addr
  /\ arlen \in Words /\ rcount \in 0 .. WordNum /\ wcount \in 0 .. WordNum
  /\ arsize \in 0 .. 7 /\ rdata \in Word
  /\ arready \in BOOLEAN /\ rvalid \in BOOLEAN /\ rlast \in BOOLEAN
  /\ awready \in BOOLEAN /\ wready \in BOOLEAN /\ bvalid \in BOOLEAN
=============================================================================
