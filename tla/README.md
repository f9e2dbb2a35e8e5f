# SWIFT_SIM in TLA+

SWIFT_SIM simulates SWIFT, a six-stage RV32IM pipeline with separate instruction
and data caches behind one AXI master port. The Verilog of the processor
(`simulator/IP/mycpu`) is compiled to C++ and clocked by a simulator
(`simulator/sim`) that plays the AXI slave, owns the physical memory and the
devices, and compares every committed instruction with the NEMU interpreter. A
small operating system (`software/os`, nanos) and its drivers run on top.

This directory holds TLA+ models of the machine, the TLC configurations that
check them on small instances, and proofs checked by TLAPS.

## 1. Inventory

| Component | State | Operations | Talks to | Hard behaviour | Correct when |
|---|---|---|---|---|---|
| Data cache `DCache.sv` | request, return and write-back buffers, two ways of data/tag/valid/dirty, LRU, walk counter, two state machines | hit, miss, refill, write-back, uncached access, fence walk | EX stage, arbiter | refill and write-back overlap; the fence shares the set index with the access in front of it | loads see the last store; nothing dirty is lost; devices are touched once; it always finishes |
| AXI arbiter `axi_arbiter.sv` | a read and a write state machine | grant, address phase, data phase, response | both caches, slave | priority to data; handshake across two clock phases | nobody starves; bursts stay aligned |
| Simulated memory `paddr.cpp` | memory, globals of both channels | `pmem_read`, `pmem_write` once per cycle | arbiter, devices | write channel runs before read channel, after the edge | exactly the beats asked for |
| Instruction cache `ICache.sv` | request/flush/return buffers, two ways, valid bits, LRU, state machine | lookup, miss, refill, flush, invalidate | IF1/IF2, hazard unit, arbiter | flush during a miss; stall during a refill; forced valid bits | the word delivered is the word of memory at the PC of IF2 |
| Pipeline control `Hazard.sv`, `PC.sv`, `SegReg_*.sv` | PC, five segment registers | stall, flush, redirect, forward | caches, CSRs | a trap in WB, a jump in EX, a miss in IF2 and one in LS together | instructions commit once, in order, with the operands of the program |
| CSR file `CSR.sv` | mstatus, mtvec, mcause, mepc | trap, mret, csr write | WB, ID | read in ID, written in WB | traps are precise, mstatus is pushed and popped once |
| Data path `Decode.sv`, `ALU.sv`, `Regfile.sv`, lane control | registers | decode, compute, shift lanes | pipeline | signed and unsigned, shift amounts, x0, sub-word lanes | every instruction leaves what the reference leaves |
| Simulator loop and difftest `sim.cpp`, `difftest.cpp` | run state, copies of both machines, skip flags, trace ring | `cpu_exec`, `difftest_step`, `difftest_sync` | processor, NEMU, devices | a comparison one instruction late; resynchronisation after a device load; commands that cut a run in two | a wrong commit is noticed, a right one is not blamed |
| Devices `sim/device` | map table, device space, key queue, disk ports, frame buffer, clock | map read/write with callbacks, polling | slave, SDL | the disk copies behind the caches; the queue is bounded; the clock runs between two loads | one device per address; a read returns what was stored last; no key the device has taken in is lost |
| Debugger `sim/sdb` | none between commands | parse and evaluate | simulator | unary and binary star, priorities | prints the value of the expression |
| NEMU reference `nemu` | registers, memory | one instruction | difftest | none here | it is the reference |
| nanos `software/os` | file table, contexts, break | file calls, load, trap handler | base port | nested ecall, programs loaded from inside the handler; unsigned offsets | offsets stay inside files; a trap returns behind itself |
| Base port `base-port/base` | none | device drivers | devices | needs fences before DMA; two loads for one time | the device sees what the program wrote |
| Tool library `base-port/tool` | none | 64-bit division, printf, strings | programs | halves of numbers; one counter of padding; overlap | results are those of C |
| Graphics and input `libndl`, `libSDL` | canvas, surfaces | fill, blit, update, poll | special files | places become offsets and places again, in three row lengths | each row drawn is in its place and shows what memory holds of the pixels painted |
| Terminal `nterm` | grid, cursor, dirty marks, line buffers | keys, escape sequences, refresh | SDL, shells | wrap, scroll and backspace across rows; dirty marks | the line shown is the line run |
| Fixed point `libfixedptc`, window manager, other applications, vendored libraries | | | | | not modelled (section 7) |

One clock cycle is one call of `single_cycle` (`sim.cpp:127-143`): rising edge of
the processor, then `pmem_write`, then `pmem_read` with the processor's new
outputs, whose effects the processor sees at the next edge. All the concurrency
of the hardware is inside a cycle: every register moves at once. The software is
single-threaded; what is concurrent with it is the cache (which may write a line
back at any time), the devices, the host's clock and keyboard, and the simulator,
which polls them between instructions. `PROJECT.json` lists the hazards found,
each at its line.

## 2. Modules

```
MemGeometry -- Pmem -- AxiArbiter -+- DCache -- DMem -- DMemProofs
                                   |              `- WriteBackMemory (INSTANCE)
                                   `- ICache -- Pipeline -- IMem -- IMemProofs
Forwarding -- ForwardingProofs
Difftest -- DifftestProofs              `- InstLog (INSTANCE)
Devices -- DevicesProofs                `- DiskDma (EXTENDS), Mmio, Clock (INSTANCE)
Desktop -- DesktopProofs                `- KeyPath (EXTENDS), Canvas, Terminal (INSTANCE)
KeyPath                                 `- KeyFifo (INSTANCE)
Canvas                                  `- Picture (INSTANCE)
Kernel -- KernelProofs                  `- Files (EXTENDS), Syscalls (INSTANCE)
Files                                   `- FileStore (INSTANCE)
Algorithms -- AlgorithmsProofs          `- Execute (EXTENDS), Lanes, Int64, Printf,
                                           Strings, Expr (INSTANCE)

MCDMem, MCIMem, MCForwarding, MCDifftest (with InstLog), MCDesktop
```

A module on the right of a dash extends the one on its left. The `MC` modules
and the `.cfg` files hold the constants of the runs. `Devices`, `Desktop`,
`Kernel` and `Algorithms` are several closed models in one specification: the
models share no state, a variable (`part`, `program`) says which of them moves in
a behaviour, and each property is about one of them. All but `Desktop` do without an
`MC` module: what their `.cfg` names stands at their end.

### The machine

* `MemGeometry` - addresses as (tag, set, word), words as functions from byte
  lanes, lines as functions from word offsets. Tags belong to memory or to the
  device window 0xA0000000.
* `Pmem` - the C functions `pmem_read` and `pmem_write`, one action per path
  through them. Their arguments are the processor's outputs *after* the edge, so
  the composing module passes primed expressions. A read of a device returns any
  word. The slave uses the number of bits of the write mask, not their position;
  so does the model.
* `AxiArbiter` - both state machines; outputs are operators.
* `DCache` - one action per arm of the main state machine (`IdleQuiet` ..
  `FenceDone`) and of the write state machine, one definition per other register.
  The write-back buffer, whose uncached use keeps the old upper words in the code,
  is cleared there; those words are never sent.
* `DMem` - the closed data side. EX issues any sequence of `Requests` and
  bubbles; the instruction cache is reduced to the lines it reads. `view` is
  memory as the retired instructions left it, `calls` the device calls since the
  request in LS was accepted.
* `WriteBackMemory` - what the data side promises: one view, changed by retired
  stores only, read by loads, and a memory that lags behind it.
* `ICache` - as `DCache`, for the instruction cache. Tags and data read through
  a BRAM that registers its address; valid bits are read one edge earlier, from
  a separate register, and forced to 1 when the set does not change.
* `Pipeline` - PC, segment registers, hazard signals, `mepc`. An instruction is
  an opaque word of one of the classes `Branch`, `Load`, `Store`, `Fence`,
  `CsrWrite`, `Mret`, `Ecall`, or of none. Whether a branch is taken, where to,
  and whether a load feeds the next instruction are chosen when it enters EX.
* `IMem` - the closed instruction side. The data cache is reduced to `dmode`:
  free, just missed, reading the bus, or busy without the read channel. `npc` is
  the address of the next instruction of the program. `Patches` are writes to the
  program that a fence in LS commits to memory.
* `Forwarding` - the values in the same pipeline: register file with
  write-through reads, operands forwarded from LS and WB and held through stalls,
  the stall behind a load, mstatus. Each cycle brings any instruction and either
  cache may miss. `regs` and `status` are the registers of a processor that
  executes one instruction at a time.
* `Execute` - decoder, ALU, branch unit and CSR operations, next to the
  reference's interpreter: both execute the same instruction from the same state.
* `Lanes` - masks, shifts and extensions of loads and stores around a memory of
  words, next to the byte memory of the reference.

The closed models meet in assumptions that are checked on the other side: `DMem`
takes the instruction cache to hold a line request, at one address, to its last
beat (`FetchHeld` of `IMem`); `IMem` and `Forwarding` take every request of the
data cache to end (`EveryRequestEnds` of `DMem`); `Lanes` and `DiskDma` take
the data cache to be a write-back memory (`IsWriteBackMemory` of `DMem`).

### The simulator

* `Difftest` - `cpu_exec`, the comparison and the synchronisation around device
  loads, the end of a program, and the commands `c` and `si`. The processor may
  make one mistake anywhere; `wrong` remembers it.
* `InstLog` - the ring of the instruction trace.
* `Mmio` - pages and entries the devices get at the start (any of them may be
  configured, in the order of `init_device`), then lookup, bytes and what the handlers
  do to the device space: the keyboard and the clock store what is about to be read
  (`map.c:47`), the disk takes its command back (`disk.c:38`), a row is drawn into the
  frame buffer (`vga.c:75`), `vga_update_screen` clears the sync register, and an
  assertion of a handler ends the simulator (`"panic"`). What is stored is any byte. The
  entries `ffb_mem` and `ffb_draw` are two devices, as in `init_vga`. The
  bytes malloc returns are a value of their own, `Garbage`.
* `DiskDma` - disk driver, disk device, frame buffer command, the cache with
  evictions at any time, and the reference's copy of memory.
* `KeyPath` - host, key ring, driver, `/dev/events`, NDL and SDL; `KeyFifo` is the
  queue the ring implements. `begun` remembers which event was the oldest when a poll
  began. The text of an event is the code it was made from, with its length; the
  loop that looks a name up is kept as far as it decides which names are found
  (`Found`).
* `Clock` - host clock, device, driver, `gettimeofday`, ticks. Words have few
  bits, so that both overflows happen.
* `Expr` - the debugger's expressions. The model starts from a tree and writes it
  down as tokens, so the value expected is not read off another parser.

### The software

* `Files` - one action per system call on files, with the special files and the
  disk; `FileStore` is what it promises about ordinary files. The disk image is
  opened for reading (`disk.c:42`), so a write moves the position and changes no
  byte, and both modules say so. Sizes are numbers modulo `SizeMod`, and a negative
  seek is one that wraps.
* `Syscalls` - trap entry, context, the calls that nest (`SYS_yield`,
  `SYS_execve`), exit and return.
* `Canvas` - surfaces as arrays, rows as writes at offsets, driver, device and
  window; `Picture` is what an application expects. A surface has each pixel twice:
  as the application painted it (`pixels`) and as physical memory holds it
  (`memory`), and `WriteBack` lets the cache bring one up to the other at any time.
  The device draws `memory` (`vga.c:68`), and no fence comes before it (`gpu.c:40`).
  A line of the cache holds several pixels, here each goes on its own, and an image
  has any memory when its drawing begins: more behaviours than the cache has.
  `unseen` are the pixels of the frame buffer that the window does not show yet. SDL
  paints with no rectangle, and blits inside the surface, as every caller does.
* `Terminal` - grid, cursor, dirty marks, line editing and the picture that
  `refresh_terminal` keeps. One step prints a character or a whole escape sequence;
  a session is the shell with its banner, or a program that prints. Colours and
  tabs are left out.
* `Desktop` - `KeyPath`, `Canvas` and `Terminal` in one specification.
* `Int64` - division of doublewords in halves of `WordBits` bits; `BigEndian`
  says whether `high`, the first member, is the more significant half.
* `Printf` - one conversion; a digit is its value.
* `Strings` - the copying loops, one byte per step, and the comparisons.

Definitions whose comment starts with "Fault" are altered copies of the
definition below them, one plausible slip each. No specification uses them; each
property was seen to fail when its fault takes the place of the original.

## 3. What is checked

Runs that pass (`<module>_<run>.cfg`):

| Run | Module | Instance | Properties |
|---|---|---|---|
| `data` | `MCDMem` | 3 lines in one set and 2 ways, or 4 lines in 2 sets with both fences; 2 words per line | `TypeOK`, `LoadValue`, `CacheCoherent`, `FenceCommits`, `IsWriteBackMemory` |
| `bus` | `MCDMem` | a device register with sub-word stores and fences on words of 2 lanes, or fetches of one line between cached and uncached requests | `BusLockstep`, `DeviceOnce`, `AddressHeld`, `EveryRequestEnds` |
| `program` | `MCIMem` | 6 lines in 2 sets, every class of instruction, one line rewritten by a fence | `TypeOK`, `ProgramOrder`, `FetchedWord`, `TrapPrecise`, `FetchHeld`, `KeepsCommitting` |
| `operands` | `MCForwarding` | 2 registers, 2 values, any program, traps three deep in mstatus | `OperandsCurrent`, `RegistersFollow`, `StatusCurrent` |
| `batch` | `MCDifftest` | all programs of 2 instructions and `ebreak`, one mistake; a trace of 3 entries | `NoFalseAlarm`, `Reported`, `TraceEndsAtHalt` |
| `devices` | `Devices` | 2 lines of 2 words and a disk of 2; words of 8 values, 20 microseconds; 5 words of address space of which 1 to 3 are devices of one or two words, 2 words of memory, 4 pages, 3 map entries | `Coherent`, `ReferenceFollows`, `DevicesApart`, `SendsCurrent`, `TimesRight` |
| `desktop` | `MCDesktop` | a ring of 3 slots, 4 events; a screen of 4 x 3 with canvases of 2 x 1 and 1 x 2, one of 2 x 2 with a canvas as large, an image of 1 x 2, two colours and every state of memory; a grid of 2 x 2 with a line of 2 characters, under the shell and under a program that prints everything | `InOrder`, `WindowCurrent`, `LineShown`, `StaleIsDirty`, `IsFifo`, `FirstReported`, `WaiterServed`, `IsPicture` |
| `calls` | `Kernel` | 2 files on one disk, the special files, `size_t` of 32 values; 2 programs, 3 contexts deep | `OffsetInFile`, `IsFileStore`, `ReturnsBehind` |
| `functions` | `Algorithms` | words of 4 bits with all operands of instructions and one of 4 bytes; numbers of 8 bits; 5 bytes of memory; trees of 3 operators | `InstructionsAgree`, `LibraryRight`, `PrintsValue` |

What each of them shows is said in `PROJECT.json`; the properties are stated in
words above their definitions. The ones that tie the project together:

* four refinements: the data side implements `WriteBackMemory`, the file table
  implements independent files whose contents stay (`FileStore`), the keyboard ring implements a queue
  (`KeyFifo`), and arrays with offsets implement pictures (`Picture`);
* lockstep comparisons of two descriptions in the repository itself: processor
  and reference (`InstructionsAgree`), pipeline and sequential execution
  (`OperandsCurrent`, `RegistersFollow`, `StatusCurrent`);
* the comparison mechanism on which the repository's tests rely (`NoFalseAlarm`,
  `Reported`), with what it cannot see in section 4.

Bounds. The processor has 16 or more sets; sets do not interact except in the
fence walk and in the comparison of the read and the write index, for which two
are enough. Three tags in a set of two ways force evictions of clean and dirty
lines in both orders. Two words per line give a burst a first beat that is not
its last; the counters that would distinguish more words are proved correct for
every length (section 5). Programs of the machine models are not bounded.
Rings have three slots so that they wrap at every offset and overflow. Numbers
have few bits (`SizeMod`, `Width`, `WordBits`, `Longs`, `Word`) so that every pair
of operands, every carry and every wrap-around is tried; the bit widths enter the
code only as the constants named. `Algorithms` takes every upper half of a
number and the lower halves next to 0, to the sign bit and to the largest; all
pairs of the numbers of one half. Grids, screens and canvases are the smallest
that wrap, scroll and have odd and even margins. `MaxFrames`, `MaxSent`, `MaxTime`,
`MaxInput` and `MaxOps` bound counters that the code does not; what
lies behind them is either proved (`Syscalls`, `KeyPath`, `Terminal`) or more of the
same. The grid of 2 x 2 wraps with every second character and scrolls with every
second wrap; larger ones are a matter of proof (section 5).

`CHECK_DEADLOCK FALSE` stands where the system may stop: a halted simulator, a
call that has returned, a clock at its bound.

## 4. Disagreements

Three runs end in a counterexample to the one property they list; the finding in
`PROJECT.json` quotes the line that says otherwise.

* `fence_behind_store` (`MCDMem`) - a fence in EX makes the cache take its write index from the walk counter while the store in front is in LS; a store that hits in a set other than 0 is written to set 0 and lost (`DCache.sv:197`).
* `fencei` (`MCIMem`) - a line invalidated by `fence.i` hits again when the fetch before was in the same set (`ICache.sv:194`).
* `long` (`Int64`) - the halves of a 64-bit number are swapped on a little-endian processor (`int64.c:16`).

Reading the code for the models brought out more places where it does not do
what a comment, an assertion or a caller next to it says. The models do what the
code does there; the instances or the properties leave the case out, so that the
passing runs say something about the rest.

In the machine:

* "uncached" is computed from the register fields also for a fence; `fence iorw, iorw` encodes x31, and if it holds a device address the walk writes to a device with an empty mask (`DCache.sv:180`).
* funct3 is used as the size exponent, so `lbu` asks a device for 16 bytes (`CPU.sv:389`).
* the offset of a sub-word device store is in the mask only, while the slave looks for it in the address (`DCache.sv:370`).
* a word stored at an unaligned address is not read back (`DCache_Write_Ctrl.sv:24`).
* the way used last is the one that is replaced (`ICache.sv:289`).

In the simulator:

* that the last instruction loaded from a device is forgotten between two commands (`sim.cpp:192`).
* the last instruction, and every device load, is never compared (`sim.cpp:199`).
* closing the window overwrites a failed comparison (`device.c:32`).
* `si n` counts cycles, not instructions (`sim.cpp:193`).
* keys nobody reads stop the simulator (`keyboard.c:40`).
* every star before a hexadecimal number is a dereference (`expr.cpp:201`).
* `*sp` aborts the debugger (`expr.cpp:168`).
* `!=` and `&&` abort the debugger (`expr.cpp:180`).
* the frame buffer command reads memory behind dirty lines, so pixels may be drawn as they were before (`gpu.c:40`, `vga.c:68`).
* the disk image is opened for reading only, so what is written to a file is lost although the position moves (`disk.c:42`; `fs.c:74` says the bytes are written).

In the software:

* reads of `/dev/events` and `/proc/dispinfo` ignore the length (`device.c:19`).
* the offset of `/dev/events` and `/proc/dispinfo` moves past their size 0, and `size - open_offset` underflows (`fs.c:60`); the handlers ignore the length.
* descriptor 1 is never open, and its file has size 0 (`fs.c:23`).
* the built-in shell copies a line of up to 255 characters into 30 bytes (`builtin-sh.cpp:28`); `LineShown` is about the line `Terminal::keypress` returns, before that copy.
* a write to the frame buffer past the end of a row is cut off; NDL seeks before every row and never crosses one, so no picture shows it, which is part of `IsPicture` (`device.c:35`).
* the frame buffer returns pixels and the offset counts bytes (`device.c:35`).
* NDL reads several events at once and SDL parses the first; the others are lost to whoever waits for them (`NDL.c:23`, `event.c:24`).
* the newline behind a name is cut off when the loop over the keys reaches the length of the name; ESCAPE, key 1, has been passed by then (`event.c:28`).
* a path that does not exist halts the machine instead of returning an error (`loader.c:16`).
* arguments of `execve` are dropped (`syscall.c:51`).
* every `execve` leaves a context and the frames of the handler on the stack (`loader.c:49`).
* the two words of one time are of two times (`rtc.c:8`).
* time starts again after 71 minutes (`syscall.c:44`).

How the passing runs leave them out: no fence directly behind a cached access
(`FenceAfterAccess = FALSE`), no fence whose register field holds a device address,
reads of a device by signed sizes and words, stores to a device that begin at lane
0, aligned accesses, the command `c` and not `si` behind a device load
(`MCCommands`), no star before a hexadecimal number (`AnyStar = FALSE`) or a
register, numbers of one half in the byte order of the processor (part `narrow`
of `Algorithms`), lengths of reads and writes that do not reach 2^32 together with
the size of the file (the last conjunct of `FilesAssumption`: `open_offset + len` in
`fs.c:59` and `:81` would wrap and the clipping not see it; seeks do wrap, in model
and run). A handler of the frame buffer that is told to draw outside of it is left
out of `Mmio`. Some properties promise less than a caller may expect, because the
code does: `OffsetInFile` is not about `/dev/events` and `/proc/dispinfo`, which have
no size to stay in, and `IsFileStore` has writes that are accepted and lost;
`IsPicture` says that the stored pixel is drawn, which may be older than the painted
one; `TimesRight` asks for a time that is right but for the carries and for ticks
that follow it until the first of them; `FirstReported` and `WaiterServed` are about
the first event of a read, and about names that the loop finds; `ReturnsBehind` is
about traps that return, on a stack with no end.

## 5. What is proved

Eight modules hold theorems, checked by TLAPS for every value of the constants
that satisfies the named assumptions (`GeometryAssumption`, `FilesAssumption`,
...), which TLC evaluates in the runs. Where a model is an instance in another
(`Syscalls`, `Lanes`, ...), its assumption is a definition, and an `ASSUME` of the
composing module states it of the instance.

* `DMemProofs!TypeCorrect` (`TypeOK`) - Every variable of the closed data side keeps its type for every geometry and every program; the address of a burst never leaves its line.
* `DMemProofs!Lockstep` (`BusLockstep`) - Cache, arbiter and slave stay in step through every read and every write burst, for every geometry and every program.
* `DMemProofs!AddressesHeld` (`AddressHeld`) - The addresses of a burst on either channel do not move while it is in progress.
* `DMemProofs!LoadsCorrect` (`LoadValue`) - Every cached load delivers what was last stored to its word, across refills, evictions, write-backs in flight and fences, for every geometry and every program of plain requests.
* `DMemProofs!Coherence` (`CacheCoherent`) - No line is ever in both ways of its set, and a line that is not dirty has the bytes memory has, for every geometry and every program of plain requests.
* `DMemProofs!FencesWrite` (`FenceCommits`) - A fence that retires leaves in memory everything stored before it, however many sets the walk goes through.
* `DMemProofs!WriteBackRefined` (`IsWriteBackMemory`) - Data cache, arbiter and slave together implement the write-back memory: requests are answered from one view, and memory only catches up, a word at a time.
* `DMemProofs!DevicesOnce` (`DeviceOnce`) - An uncached load or store reaches its device exactly once, with its address, its bytes and its answer, and nothing else does, for every program of plain and aligned requests.
* `KernelProofs!OffsetsInFile` (`OffsetInFile`) - No sequence of calls moves an offset out of its file, so the unsigned subtraction in fs_read and fs_write never underflows on a file that has a size.
* `KernelProofs!RefinesFileStore` (`IsFileStore`) - The table, the clipping and the layout of the disk implement independent files of fixed contents with one position each: whatever was opened, sought, read, written (in vain) and closed before, a read delivers the bytes of its own file from that position on, and never past its end.
* `DevicesProofs!DmaCoherent` (`Coherent`) - With the fence of the driver no disk transfer leaves a stale word in the cache or in memory, for every memory, line size and disk.
* `DevicesProofs!ReferenceKept` (`ReferenceFollows`) - The copy of physical memory into the reference after a disk read never takes back a store.
* `DevicesProofs!WritesCurrent` (`SendsCurrent`) - A disk write command hands over the words the program stored last.
* `DevicesProofs!TimesReturned` (`TimesRight`) - For every word size and whenever the host ticks: a time read in two halves is one of the call, but for as many overflows of the low word as lie between them; until the first overflow the ticks of a program never go back.
* `DevicesProofs!MapRight` (`DevicesApart`) - For every configuration of the devices, page size and device space: no two devices, and no device and physical memory, share an address, and a read returns what was last stored at its addresses, by accesses of any size or by the handler of the device that owns them (what the keyboard and the clock prepare, a command taken back, a frame buffer drawn to, a sync register cleared).
* `DifftestProofs!NoAlarm` (`NoFalseAlarm`) - Under `c` a processor without mistakes is never stopped, for every set of programs and whatever the devices answer.
* `DifftestProofs!MistakesReported` (`Reported`) - Under `c` every mistake that is not made by a load from a device stops the simulator when the next instruction commits.
* `DifftestProofs!TraceEnds` (`TraceEndsAtHalt`) - For every capacity of the log, however often it has wrapped and however cpu_exec is called, what is printed is the last commits, oldest first, and on an abort it ends with the instruction that was compared.
* `IMemProofs!TypeCorrect` (`TypeOK`) - Every variable of the closed instruction side keeps its type, for every program and geometry; no address leaves the memory of the slave.
* `IMemProofs!InOrder` (`ProgramOrder`) - Whatever jumps, stalls, flushes, traps and returns lie between them, the instructions that leave WB are those of the program, each once and in order, for every program and geometry.
* `IMemProofs!TrapsPrecise` (`TrapPrecise`) - A trap or return in WB has nothing behind it that could have reached the data cache, and stands there for one cycle.
* `IMemProofs!FetchesHeld` (`FetchHeld`) - The address of a refill of the instruction cache does not move until its last beat, whatever flushes the pipeline meanwhile.
* `IMemProofs!WordsFetched` (`FetchedWord`) - In a program that does not rewrite itself, every word that commits is the word memory has at its address, through misses, refills, replacements and flushes.
* `IMemProofs!UnpatchedFetched` - In a program that does rewrite itself, the same of every word outside the lines a fence writes to; inside them the finding `fencei` says otherwise.
* `DesktopProofs!RefinesFifo` (`IsFifo`) - For every length of the ring the keyboard device is a queue of one entry less, which stops the simulator when it overflows.
* `DesktopProofs!KeysInOrder` (`InOrder`) - The program gets the keys in the order in which the host sent them.
* `DesktopProofs!FirstIsReported` (`FirstReported`) - For every ring, buffer and set of keys, with the host sending between any two steps: an event SDL_PollEvent returns is the oldest the host has sent that no earlier poll took from the device, pressed or released as the host said.
* `DesktopProofs!PartsBehave` - What moves in a desktop is the keyboard path, the canvas or the terminal, each by its own specification; so what is proved of one holds in the run that checks all three.
* `DesktopProofs!WindowIsCurrent` (`WindowCurrent`) - For every screen, canvas, image and colour: between two rows the window shows every pixel of the frame buffer, or the simulator has been told to copy it.
* `DesktopProofs!CanvasIsPicture` (`IsPicture`) - For every screen, every canvas not larger than it and every image: arrays, strides, offsets and rows through libSDL, NDL, the file and the device draw each row of a picture in its place, from what memory holds of its pixels, whenever the cache writes them back.
* `DesktopProofs!TerminalFresh` (`StaleIsDirty`) - For every size of grid, whatever is printed, typed and escaped: the cursor stays in the grid, and a cell whose picture is not its character is marked to be drawn again.
* `DesktopProofs!LineIsRun` (`LineShown`) - For every grid the line cannot fill: the characters before the cursor are the line that enter runs, across wraps, scrolling and corrections.
* `ForwardingProofs!OperandsRight` (`OperandsCurrent`) - For any registers, values and program both operands in EX are those of sequential execution.
* `ForwardingProofs!StatusRight` (`StatusCurrent`) - A csrr in EX has the mstatus that the instructions before it leave.
* `ForwardingProofs!RegistersRight` (`RegistersFollow`) - What LS and WB leave behind is the state of the processor that executes one instruction at a time.
* `KernelProofs!TrapsReturn` (`ReturnsBehind`) - For any depth of nested traps and loaded programs, a trap that returns goes on behind its own ecall with its own registers.
* `KernelProofs!Composition` - A behaviour of the kernel is one of the file table and one of the traps, so what is proved of each holds in the run that checks both.
* `AlgorithmsProofs!Agreement` (`InstructionsAgree`) - For every word whose width is a power of two: after any program of instructions that compute, decoder, ALU, branch unit and CSR operations leave what the reference leaves, and so do masks, shifts and extensions after any aligned loads and stores of any memory.
* `AlgorithmsProofs!LibrariesRight` (`LibraryRight`) - For halves of 2 to 32 bits the division, shift by shift, ends in quotient and remainder of numbers stored upper half first, and of numbers of one half stored as on RISC-V; copies of any memory become what their source was, compared strings have the sign of their first difference, and text is cut and padded on the right side.

Each of these modules also proves the types of its component. Each proof is an
inductive invariant `IInv`, shown to hold initially and to be preserved by every
action, with one step per action.

* `DMemProofs`: `IInv`, which is `TypeOK /\ BusLockstep`. Neither is inductive
  alone: that the slave's beat counter stays inside the line needs the agreement of
  arbiter, cache and slave on the burst, and that agreement needs the types. Then
  `CInv`, relative to `IInv`, from which coherence, the value of loads, the
  commitment of fences and the refinement of `WriteBackMemory` follow. It says where
  the last value of every line is in every cycle: in the one way that holds the line
  (`Placed`, `Current`), else in memory or in the words still to be sent of the
  write-back buffer (`WriteBack`); that a line which is replaced, or passed by a
  walk, was written first (`Saved`); and that the return buffer is a prefix of the
  line that missed (`ReadIn`). `CacheCoherent` is a conjunct of it and not inductive:
  a refill is clean because what it read had been written, and a dirty bit may be
  cleared because the walk has passed the line. These theorems have one hypothesis,
  `PlainRequests`: a load names no byte lane, the register fields of a fence do not
  make up the address of a device, and a fence does not directly follow a cached
  access (section 4; the run `fence_behind_store` shows what happens if it does).
  `DInv` adds to both which calls the request in LS has made of its device at each
  point of its burst; `DevicesOnce` also assumes `AlignedRequests`, that a store to
  a device names its byte lanes from the first one on, since the slave looks at
  their number only.
* `KernelProofs`: for the files (`TableInv`), `TypeOK /\ OffsetInFile`. An offset
  inside its file is what keeps `size - open_offset` from wrapping around; with it the
  clipped length is the smaller of request and rest, and `LayoutAssumption` (every
  file lies on the disk) makes what a read finds there the contents of its file. For the traps
  (`TrapInv`): each context on the stack is that of the call pending at the same
  depth, with 4 added to its pc once it is about to be restored (`Matched`).
  `Composition` brings both to the specification of the run.
* `IMemProofs`: three invariants, each relative to the one before. `IInv`:
  `TypeOK`, every address points into the program's memory (`InProgram`; without
  it a refill could leave the slave's memory), and arbiter, slave and caches agree on the
  beat of the burst (`BusInStep`). `OInv`: cache and IF2 hold the same fetch
  (`Paired`), what the kind of an instruction tells of the slots behind it
  (`Decoded`: behind a taken jump, a fence or a trap everything is a bubble until the
  redirection), and the slots from WB back to `pc_if1` form one path of the program
  (`Ordered`); `ProgramOrder` is only what that path is at WB, and is not inductive
  because a flush decides two stages earlier what commits later. `FInv`: what the
  ways hold is memory's (`LinesRight`), what is read in is a prefix of the line that
  missed (`LineIn`), the read port shows the set that is asked for (`LookedUp`), and
  each slot carries the word of its address (`SlotsRight`). All three were checked
  by TLC on both programs of `MCIMem` before they were proved. `FInv` is about lines
  no fence writes to: the cache takes the set it is looking up for valid even when
  fence.i has just invalidated it (finding `fencei`), so an old word of a rewritten
  line may still commit. `WordsFetched` takes from it the case that there is no such
  line.
  `PipelineAssumption` says what the decoder makes of the word classes: a branch is
  no load, fence, CSR write, mret or ecall, and an ecall no mret.
* `DevicesProofs`: for the disk, `Coherent` and `ReferenceFollows`, strengthened by
  what the driver's fence leaves (`Fenced`: nothing is cached, or nothing dirty,
  while the device copies) and by the bounds of a requested transfer. For the clock
  (`ClockInv`): each word that was loaded is that of some time of the call, and no
  ticks were given out that lie behind its beginning; the rest is arithmetic of
  quotients, with the lemmas `Division` to `Monotone`. For the map (`MapInv`): regions
  are whole words outside of physical memory and lie behind one another in the
  device space (`Table`), and the place of an address something was stored at, by the
  program or by a handler, holds what was stored (`HeldAt`). One lemma says that a store
  into one region keeps this (`StoreKeeps`: two addresses have two places); the
  bytes an access writes (`WrittenHeld`), what a handler stores (`CalledHeld`), the
  clearing of the sync register and the registers a device starts with are cases of
  it, and a read then finds the history (`ReadBytes`). `MmioAssumption` says that registers are whole words, as all of
  `sim/device` are, and that no device is larger than physical memory: `add_mmio_map`
  looks only at the two ends of a region, so a larger one could hide all of it.
* `DifftestProofs`: the reference is in step unless it is about to be overwritten,
  and an uncompared mistake is visible and about to be compared (`IInv`, which needs
  the command `c`). For the trace, which needs nothing of how `cpu_exec` is called:
  the last entries of the log lie backwards from `rear`, and `front` is where they
  end (`LogInv`); the ring arithmetic of `display` then prints them (`InvShows`);
  an abort leaves the compared instruction as the last of them (`AbortedLast`).
* `DesktopProofs`: `PartsBehave` takes the desktop apart, then each part has its own
  invariant. For the keys (`IInv`): what was sent is what was taken followed by the
  ring; and what a poll has read begins with the event that was the oldest when it
  began, and goes on where the device has got to (`Begun`, from which `FirstReported`
  follows). For the canvas (`CanvasInv`): surface and drawn image are arrays of
  their sizes, twice, the frame buffer is one, what is drawn fits the canvas, and the
  canvas the screen. The steps of
  `IsPicture` then rest on the lemmas `IndexRange`, `IndexUnique` and `Division`,
  that a column and a row are recovered from `y * w + x`, and on `RowDrawn`, that
  no row is cut and none runs into the next. `WindowCurrent` is inductive. For the
  terminal (`TermInv`, which is `StaleIsDirty`): one lemma per operation of `term.cpp` says
  what it leaves (`putchIs` to `PutIs`), among them that every cell it changes is
  marked (`Marked`) and that whatever an escape sequence does to the cursor, the
  clamping at its end repairs. `LineShown` is about the text `strcpy` takes and not
  inductive: `LineInv` adds that the shell stays in cook mode, that the line ends
  with a NUL before the end of the array, and that nothing is typed before the
  banner is out; `TypedIs` and `ErasedIs` say that printing moves the line by at
  most a row and loses none of it. `TerminalAssumption` takes from the code that a
  line (255 characters) is shorter than the grid without its last row (48 columns of
  15 rows), without which scrolling would take the beginning of the line away.
* `ForwardingProofs`: the state of sequential execution is the register file
  overlaid with the results in WB and LS; a load in LS is not used in EX; a trap or
  return has nothing behind it.
* `AlgorithmsProofs`: `AlgorithmsInv`, one part per function that is called.
  *Instructions*: the two machines are in the same state. `StepAgrees` goes through the
  opcodes; that a branch, a shift, a product and a quotient of the ALU are those of
  the interpreter is arithmetic of words of `2^Width` values, and the operations on bits
  (`And`, `Or`, `Xor`, defined by the sets of bits of their operands) need only
  that they give words and do not care for the order of their operands.
  *Lanes* (`LanesInv`): a line is the four bytes the reference has at its
  addresses.
  *Division* (`DivisionInv`): the doublewords hold the operands (`OperandsTaken`), and in
  each turn of the loop what has been seen of the numerator is the denominator
  times the quotient found so far plus the remainder, which is less than the
  denominator (`Progress`, `LoopRight`). The subtraction in a doubleword needs more: a
  denominator above half of the range meets at most one turn, from a numerator that
  is as large. The ways that skip the loop (`ByLowerPower` and its neighbours) are
  arithmetic of quotients; `Ctz` and the count of leading zeros are proved turn by
  turn, from 16 down, for any width the turns cover.
  *Strings* (`StringsInv`): the bytes moved so far are those that were at the source
  before the call, whichever way the loop runs (`Between`).
  *Text* (`PrintfInv`): the output is the conversion of what was asked for, whose padding
  is on one side only.
  Facts about powers of two do not come from the provers' arithmetic: `2^k` is the
  number of subsets of `1..k` (`PowerType`, `PowerStep`), and what holds at 0 and at
  every successor holds everywhere by the lemma `Induction`, stated of a set and proved
  from the well-foundedness of the numbers.

Only model-checked:

* `FetchedWord` of `IMem` inside the lines a program rewrites; outside of them it is
  proved.
* `PrintsValue`: what the parser of the debugger computes of an expression, and that
  the digits printf writes are those of its number. Both are recursive functions over
  data of any length, and the library's theorems about such functions take an operator
  as a parameter, which the provers cannot instantiate.
* All liveness (`EveryRequestEnds`, `KeepsCommitting`, `WaiterServed`): TLAPS does
  not reason about ENABLED.

## 6. Fairness

`cpu_exec` (`sim.cpp:193-230`) calls `single_cycle` in a loop, so a step of the
hardware is always taken: `WF_vars(Next)` in `DMem` and `IMem`, for
`EveryRequestEnds` and `KeepsCommitting`. In `IMem` the reduced data cache may also
not stay busy forever without the read channel, which is `EveryRequestEnds` of
`DMem`. In `KeyPath` the program polls in a loop, as the applications do, so its
step is weakly fair (`LiveSpec`, and `DesktopSpec` of `Desktop`); the host is not, it
may stop pressing keys. `WaiterServed` says of one poll that it ends and returns the
event that is there, whatever else the host sends meanwhile: it does not rest on
`MaxSent`, since a full buffer ends the poll. It says nothing of events behind the
first of a read, nor after an overflow, which stops the simulator.

## 7. Not modelled, and plan

Not modelled:

* Where the bytes of the serial port go and which time the calendar registers of the
  clock give (`Mmio` has both devices, with any bytes), statistics, image loading and argument parsing of the simulator: input
  and output without state.
* The address of each segment an ELF file is loaded to, and `mem.c`, whose break
  only grows. `_sbrk` of libos.
* `SDL_FillRect` with a rectangle takes the width of the rectangle for the length
  of a row; no program passes one. Blits over the edge of a surface, tabs at the
  right edge of the terminal, input lines of 255 characters and expressions of more
  than 32 tokens write behind arrays: undefined behaviour that the models stop
  short of.
* The fixed-point library, whose functions are shifts and constants. Its product
  is formed in one word before the shift (`fixedptc.h:140`), its quotient is formed
  before the shift and has no fraction (`:146`), and `fixedpt_ceil` is always 0
  (`:158`).
* The size given to `snprintf`, which the code ignores; no program calls it.
* Audio; the window manager, which needs the pipes and processes nanos lacks; the
  external shell of the terminal, for the same reason.
* The programs under `picotest` and `functest` that only execute instructions.
* Vendored code: newlib, compiler-rt, Lua, stb_image, stb_truetype, stb_vorbis,
  the rest of SDL_image, SDL_ttf and SDL_mixer, NEMU's build tools. It is by far the
  largest part of the repository's lines, so the share of all lines the models
  translate is small; of the repository's own code they cover most of what keeps
  state.

Plan:

1. **`FetchedWord` on programs that rewrite themselves**: the words outside the
   rewritten lines are proved (`UnpatchedFetched`); inside them, which fetches may
   still return the old word, and until when.
2. **Refinement of the pipeline**: `Forwarding` as an implementation of a processor
   that executes one instruction at a time, from the invariants proved already.
