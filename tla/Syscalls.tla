------------------------------ MODULE Syscalls ------------------------------
(***************************************************************************)
(* The traps of nanos-lite (software/os/src: trap.S, irq.c, syscall.c,     *)
(* loader.c) on the CSRs of the processor.  Every ecall saves a context on *)
(* the stack of the program that makes it; SYS_yield makes another ecall   *)
(* inside the handler, and SYS_execve calls the new program from inside    *)
(* the handler, so that contexts pile up in the order of the calls.        *)
(* File calls, whose effect is module Files, are one service here.         *)
(***************************************************************************)
EXTENDS Integers, Sequences

CONSTANTS
  Site,          \* the addresses of the ecalls of a program
  KernelSite,    \* the ecall of yield
  Value,         \* what the registers other than a0 may hold, taken together
  Ret,           \* what a service may return in a0
  File,          \* the paths given to execve
  Exists,        \* those that name a program
  Top,           \* the unit of the oldest of the levels in mstatus: 512
  MaxFrames      \* bound: contexts on the stack

SyscallsAssumption ==
  /\ Site \subseteq Int /\ KernelSite \in Int
  /\ KernelSite \notin Site
  /\ Exists \subseteq File /\ Value # {} /\ Top \in Nat \ {0} /\ MaxFrames \in Nat

VARIABLES
  at,            \* what runs: user, dispatch, restore, yielded or halted
  pc,            \* where the program, or yield, is about to go on
  a0, gpr,       \* a0, and the other registers
  mepc, mstatus,
  frames,        \* the contexts on the stack, the newest last
  prog,          \* the program that was loaded last
  pending        \* history: the ecalls that have not returned, the newest last

vars == <<at, pc, a0, gpr, mepc, mstatus, frames, prog, pending>>

Number == {"yield_irq", "SYS_yield", "SYS_exit", "SYS_execve", "service"}
Context == [nr : Number, mepc : Int, mstatus : 0..8 * Top - 1, a0 : Ret, gpr : Value]
Ecall == [site : Int, nr : Number, mstatus : 0..8 * Top - 1, a0 : Ret, gpr : Value]

Init ==
  /\ at = "user" /\ pc \in Site /\ a0 \in Ret /\ gpr \in Value
  /\ mepc = 0 /\ mstatus = 0 /\ frames = <<>> /\ pending = <<>>
  /\ prog \in Exists

-----------------------------------------------------------------------------
(* The hardware and trap.S *)

\* CSR.sv: a trap pushes 3'h6, mret pops.
Trapped(s) == (s % Top) * 8 + 6
Returned(s) == Top + s \div 8

newest == frames[Len(frames)]
Older(seq) == SubSeq(seq, 1, Len(seq) - 1)

\* An ecall at site, and __trap_vector up to the call of __irq_handle.
Trap(site, nr) ==
  /\ Len(frames) < MaxFrames
  /\ mepc' = site /\ mstatus' = Trapped(mstatus)
  /\ frames' = Append(frames, [nr |-> nr, mepc |-> mepc', mstatus |-> mstatus',
                               a0 |-> a0, gpr |-> gpr])
  /\ pending' = Append(pending, [site |-> site, nr |-> nr, mstatus |-> mstatus,
                                 a0 |-> a0, gpr |-> gpr])
  /\ at' = "dispatch" /\ pc' = site
  /\ UNCHANGED <<a0, gpr, prog>>

\* Fault: mret without mepc from the context, as if nothing had trapped since.
Restored_NoEpc(frame) ==
  mepc' = mepc /\ mstatus' = Returned(frame.mstatus) /\ a0' = frame.a0 /\ gpr' = frame.gpr

\* Both CSRs and every register are loaded from the context; then mret.
Restored(frame) ==
  mepc' = frame.mepc /\ mstatus' = Returned(frame.mstatus) /\ a0' = frame.a0 /\ gpr' = frame.gpr

Restore ==
  /\ at = "restore"
  /\ Restored(newest) /\ pc' = mepc'
  /\ frames' = Older(frames) /\ pending' = Older(pending)
  /\ at' = IF pc' = KernelSite + 4 THEN "yielded" ELSE "user"
  /\ UNCHANGED prog

-----------------------------------------------------------------------------
(* irq.c and syscall.c *)

\* Fault: the handler of yield does not step over the ecall.
Behind_Again(frame) == IF frame.nr = "yield_irq" THEN frame.mepc ELSE frame.mepc + 4

Behind(frame) == frame.mepc + 4

\* The handler returns: mepc of the context moves on, and a0 if ret is given.
Return(ret) ==
  /\ frames' = Append(Older(frames), [newest EXCEPT !.mepc = Behind(newest), !.a0 = ret])
  /\ gpr' \in Value          \* the handler leaves its own values there
  /\ at' = "restore"
  /\ UNCHANGED <<pc, a0, mepc, mstatus, prog, pending>>

\* EVENT_YIELD: __event_handle does nothing else; schedule is never called.
yield_irq == at = "dispatch" /\ newest.nr = "yield_irq" /\ Return(newest.a0)

service == /\ at = "dispatch" /\ newest.nr = "service"
           /\ \E ret \in Ret : Return(ret)

\* SYS_yield: another trap on top of the context that is being handled.
SYS_yield == at = "dispatch" /\ newest.nr = "SYS_yield" /\ Trap(KernelSite, "yield_irq")

\* yield returns into syscall_handle, which sets no SYS_RET.
yielded == at = "yielded" /\ Return(newest.a0)

SYS_exit ==
  /\ at = "dispatch" /\ newest.nr = "SYS_exit"
  /\ at' = "halted"
  /\ UNCHANGED <<pc, a0, gpr, mepc, mstatus, frames, prog, pending>>

\* user_naive_load: the program replaces the one that called, whose context
\* stays on the stack.  elf_load asserts
\* that the file exists.
SYS_execve ==
  /\ at = "dispatch" /\ newest.nr = "SYS_execve"
  /\ \E path \in File :
       IF path \in Exists
       THEN /\ at' = "user" /\ pc' \in Site /\ gpr' \in Value /\ a0' \in Ret
            /\ prog' = path
            /\ UNCHANGED <<mepc, mstatus, frames, pending>>
       ELSE /\ at' = "halted"
            /\ UNCHANGED <<pc, a0, gpr, mepc, mstatus, frames, prog, pending>>

\* The program: it computes, and makes any call from any of its sites.
Program ==
  \/ /\ at = "user" /\ a0' \in Ret /\ gpr' \in Value
     /\ UNCHANGED <<at, pc, mepc, mstatus, frames, prog, pending>>
  \/ /\ at = "user"
     /\ \E site \in Site, nr \in Number : Trap(site, nr)

Next == \/ Program \/ yield_irq \/ service \/ SYS_yield \/ yielded
        \/ SYS_exit \/ SYS_execve \/ Restore

Spec == Init /\ [][Next]_vars

-----------------------------------------------------------------------------
(* Properties *)

\* The registers, mstatus and the contexts are what the machine can hold.
TypeOK ==
  /\ at \in {"user", "dispatch", "restore", "yielded", "halted"}
  /\ pc \in Int /\ mepc \in Int /\ mstatus \in 0..8 * Top - 1
  /\ a0 \in Ret /\ gpr \in Value /\ prog \in Exists
  /\ frames \in Seq(Context) /\ pending \in Seq(Ecall) /\ Len(frames) = Len(pending)

\* A trap that returns goes on behind its own ecall with the registers it was
\* made with, a0 apart when it is a service, and with the levels of mstatus
\* below the oldest, whatever was trapped inside its handler since (syscall.c:20
\* makes an ecall there, which overwrites mepc and mstatus).
Returns ==
  at = "restore" /\ frames' # frames =>
    LET call == pending[Len(pending)] IN
      /\ pc' = call.site + 4 /\ gpr' = call.gpr
      /\ call.nr # "service" => a0' = call.a0
      /\ mstatus' = Top + (call.mstatus % Top)
ReturnsBehind == [][Returns]_vars
=============================================================================
