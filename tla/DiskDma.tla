------------------------------ MODULE DiskDma ------------------------------
(***************************************************************************)
(* Devices that read and write physical memory behind the data cache: the  *)
(* disk (sim/device/disk.c) with its driver (base/src/disk.c), and the     *)
(* frame buffer command (vga.c) with its driver (gpu.c).  The data cache   *)
(* is what DMem shows it to be: lines that may be dirty, an eviction at    *)
(* any time, `fence` writing back and invalidating all of them, `fence.i`  *)
(* only writing back.  The reference keeps a memory of its own.            *)
(***************************************************************************)
EXTENDS Integers

CONSTANTS
  MemWords,  \* words of physical memory
  LineWords, \* words of a cache line
  DiskWords, \* words of the disk image
  MaxLen,    \* bound: words of a transfer
  Value

ASSUME DmaAssumption ==
  MemWords \in Nat /\ DiskWords \in Nat /\ MaxLen \in Nat /\ LineWords \in Nat \ {0}

Addr == 0..MemWords - 1
Lines == {a \div LineWords : a \in Addr}
DiskAddr == 0..DiskWords - 1
Range(a, n) == a..a + n - 1

VARIABLES
  mem,    \* physical memory, which the devices see
  cached, \* the words of the lines the cache holds
  dirty,  \* the lines that differ from memory
  disk,   \* the disk image
  ctl,    \* ports of the disk: disk_addr, mem_addr, size
  pc,     \* where the driver is
  ref,    \* memory of the reference
  view,   \* history: memory as the program left it
  taken   \* history: the words a device took in this step

machine == <<mem, cached, dirty>>
vars == <<mem, cached, dirty, disk, ctl, pc, ref, view, taken>>

LineOf(a) == a \div LineWords
Held == {LineOf(a) : a \in DOMAIN cached}
Idle == [disk |-> 0, mem |-> 0, size |-> 0]

Init ==
  /\ mem \in [Addr -> Value] /\ view = mem /\ ref = mem
  /\ cached = <<>> /\ dirty = {}
  /\ disk \in [DiskAddr -> Value]
  /\ ctl = Idle /\ pc = "run" /\ taken = <<>>

-----------------------------------------------------------------------------
(* The cache.                                                              *)

\* What memory holds once the lines of L are written back.
WrittenBack(L) == [a \in Addr |-> IF LineOf(a) \in L THEN cached[a] ELSE mem[a]]

\* What the cache holds once it has the line of a.
With(a) ==
  [b \in {x \in Addr : LineOf(x) \in Held \cup {LineOf(a)}} |->
     IF b \in DOMAIN cached THEN cached[b] ELSE mem[b]]

\* A load that misses brings its line in.
Load(a) ==
  /\ pc = "run" /\ LineOf(a) \notin Held
  /\ cached' = With(a)
  /\ taken' = <<>>
  /\ UNCHANGED <<mem, dirty, disk, ctl, pc, ref, view>>

\* A store allocates its line; the reference executes it too.
Store(a, v) ==
  /\ pc = "run"
  /\ cached' = [With(a) EXCEPT ![a] = v]
  /\ dirty' = dirty \cup {LineOf(a)}
  /\ view' = [view EXCEPT ![a] = v]
  /\ ref' = [ref EXCEPT ![a] = v]
  /\ taken' = <<>>
  /\ UNCHANGED <<mem, disk, ctl, pc>>

\* A miss on another line throws this one out.
Evict(l) ==
  /\ l \in Held
  /\ mem' = WrittenBack(dirty \cap {l})
  /\ cached' = [a \in {x \in DOMAIN cached : LineOf(x) # l} |-> cached[a]]
  /\ dirty' = dirty \ {l}
  /\ taken' = <<>>
  /\ UNCHANGED <<disk, ctl, pc, ref, view>>

Fence ==
  /\ mem' = WrittenBack(dirty)
  /\ cached' = <<>> /\ dirty' = {}
  /\ taken' = <<>>
  /\ UNCHANGED <<disk, ctl, ref, view>>

FenceI ==
  /\ mem' = WrittenBack(dirty)
  /\ dirty' = {}
  /\ taken' = <<>>
  /\ UNCHANGED <<cached, disk, ctl, ref, view>>

-----------------------------------------------------------------------------
(* The disk and its driver.                                                *)

\* The device: m after fread has copied what the image holds, up to its end.
Delivered(m) ==
  [a \in Addr |-> IF a \in Range(ctl.mem, ctl.size) /\ ctl.disk + (a - ctl.mem) \in DiskAddr
                    THEN disk[ctl.disk + (a - ctl.mem)] ELSE m[a]]

\* The driver stores the three ports ...
SetPorts(cmd, d, a, n) ==
  /\ pc = "run"
  /\ ctl' = [disk |-> d, mem |-> a, size |-> n]
  /\ pc' = cmd
  /\ taken' = <<>>
  /\ UNCHANGED <<machine, disk, ref, view>>

\* Fault: the fence of the write path, which keeps the lines.
FenceForRead_Keep == pc = "read" /\ pc' = "read command" /\ FenceI

\* Fault: no fence at all.
FenceForRead_None ==
  /\ pc = "read" /\ pc' = "read command" /\ taken' = <<>>
  /\ UNCHANGED <<machine, disk, ctl, ref, view>>
FenceForWrite_None ==
  /\ pc = "write" /\ pc' = "write command" /\ taken' = <<>>
  /\ UNCHANGED <<machine, disk, ctl, ref, view>>

\* ... executes its fence ...
FenceForRead  == pc = "read" /\ pc' = "read command" /\ Fence
FenceForWrite == pc = "write" /\ pc' = "write command" /\ FenceI

\* ... and stores the command, upon which the device does the transfer.  After
\* a read all of physical memory is copied to the reference.  The driver sets
\* all ports for every command: the model forgets their values here.
ReadCommand ==
  /\ pc = "read command" /\ pc' = "run"
  /\ mem' = Delivered(mem)
  /\ ref' = mem'
  /\ view' = Delivered(view)
  /\ ctl' = Idle /\ taken' = <<>>
  /\ UNCHANGED <<cached, dirty, disk>>

\* The words from a on, as memory holds them.
Take(a, n) == taken' = [i \in 0..n - 1 |-> mem[a + i]]

\* The image is open for reading only, so fwrite fails and changes nothing.
WriteCommand ==
  /\ pc = "write command" /\ pc' = "run"
  /\ Take(ctl.mem, ctl.size)
  /\ ctl' = Idle
  /\ UNCHANGED <<machine, disk, ref, view>>

\* __gpu_fbdraw hands the device the address of the pixels.
Draw(a, n) ==
  /\ pc = "run"
  /\ Take(a, n)
  /\ UNCHANGED <<machine, disk, ctl, pc, ref, view>>

Next ==
  \/ \E a \in Addr : Load(a) \/ \E v \in Value : Store(a, v)
  \/ \E l \in Lines : Evict(l)
  \/ \E a \in Addr, n \in 1..MaxLen : a + n <= MemWords /\ Draw(a, n)
  \/ \E cmd \in {"read", "write"}, d \in DiskAddr, a \in Addr, n \in 1..MaxLen :
       a + n <= MemWords /\ SetPorts(cmd, d, a, n)
  \/ FenceForRead \/ FenceForWrite
  \/ ReadCommand \/ WriteCommand

Spec == Init /\ [][Next]_vars

-----------------------------------------------------------------------------
TypeOK ==
  /\ mem \in [Addr -> Value] /\ view \in [Addr -> Value] /\ ref \in [Addr -> Value]
  /\ \E H \in SUBSET Lines : /\ cached \in [{a \in Addr : LineOf(a) \in H} -> Value]
                            /\ dirty \subseteq H
  /\ disk \in [DiskAddr -> Value]
  /\ pc \in {"run", "read", "write", "read command", "write command"}

\* The program sees memory as it left it and as the disk changed it, in the
\* cache and out of it, whatever was cached when a transfer began (disk.c:11).
Coherent ==
  \A a \in Addr : /\ a \in DOMAIN cached => cached[a] = view[a]
                  /\ LineOf(a) \notin dirty => mem[a] = view[a]

\* Copying physical memory to the reference (sim/device/disk.c:26) never takes
\* back a store that the reference has executed.
ReferenceFollows == ref = view

\* A write command hands over what the program stored (disk.c:24).
SendsCurrent ==
  [][WriteCommand => \A i \in 0..ctl.size - 1 : taken'[i] = view[ctl.mem + i]]_vars
=============================================================================
