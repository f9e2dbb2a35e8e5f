------------------------------- MODULE Kernel -------------------------------
(***************************************************************************)
(* The system calls of nanos: the file calls of module Files and the traps *)
(* of module Syscalls that bring them.  The two share no state: program    *)
(* says which of them a behaviour is about.                                *)
(*   Ordinary  two ordinary files that share a disk                        *)
(*   Special   the special files: what they do is no concern of the others *)
(*   Nesting   ecalls of programs and of the kernel, and contexts that pile*)
(*             up, with programs loaded from inside a call                 *)
(***************************************************************************)
EXTENDS Files, Sequences

CONSTANTS
  Site, KernelSite, Value, Ret, File, Exists, Top, MaxFrames  \* of Syscalls

VARIABLES
  program,  \* the descriptors and the lengths a program uses
  at, pc, a0, gpr, mepc, mstatus, frames, prog, pending

traps == <<at, pc, a0, gpr, mepc, mstatus, frames, prog, pending>>

Y == INSTANCE Syscalls

ASSUME KernelAssumption == Y!SyscallsAssumption

Ordinary == [fds |-> Disk, lens |-> {1, 3}]
Special  == [fds |-> Fd \ Disk, lens |-> {4, 8}]
Nesting  == [fds |-> {}, lens |-> {}]

\* What is not called stays at one initial state.
Resting ==
  /\ program # Special => screen = [p \in Pixels |-> 0]
  /\ program # Ordinary => disk = [p \in DiskPos |-> 0]
  /\ program # Nesting =>
       /\ pc = CHOOSE s \in Site : TRUE
       /\ a0 = CHOOSE r \in Ret : TRUE
       /\ gpr = CHOOSE v \in Value : TRUE
       /\ prog = CHOOSE f \in Exists : TRUE

KernelInit == program \in {Ordinary, Special, Nesting} /\ Init /\ Y!Init /\ Resting

CallFiles ==
  /\ program # Nesting /\ Next /\ UNCHANGED traps
  /\ IF halted' THEN program = Special
     ELSE call'.fd \in program.fds /\ call'.len \in program.lens \cup {0}

Traps == program = Nesting /\ Y!Next /\ UNCHANGED vars

KernelNext == UNCHANGED program /\ (CallFiles \/ Traps)

KernelSpec == KernelInit /\ [][KernelNext]_<<vars, traps, program>>

\* A trap that returns goes on behind its own ecall, with its own registers and
\* with the levels of mstatus below the oldest (Syscalls).
ReturnsBehind == Y!ReturnsBehind

-----------------------------------------------------------------------------
(* The table that is checked: three special files and two ordinary ones.     *)

Fields(kind, size, offset) == [kind |-> kind, size |-> size, offset |-> offset]
Table ==
  <<Fields("serial", 0, 0), Fields("dispinfo", 0, 0), Fields("fb", 16, 0),
    Fields("disk", 2, 0), Fields("disk", 2, 2)>>

TableKind   == [f \in 0..Len(Table) - 1 |-> Table[f + 1].kind]
TableSize   == [f \in 0..Len(Table) - 1 |-> Table[f + 1].size]
TableOffset == [f \in 0..Len(Table) - 1 |-> Table[f + 1].offset]
=============================================================================
