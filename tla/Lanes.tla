------------------------------- MODULE Lanes -------------------------------
(***************************************************************************)
(* Loads and stores of bytes, halves and words: the lane control of the    *)
(* processor (DCache_Read_Ctrl.sv, DCache_Write_Ctrl.sv) around the word   *)
(* the data cache gives and takes, and the same instructions on the        *)
(* byte-addressed memory of the reference (nemu/src/memory/paddr.c).  The  *)
(* cache is what DMem shows it to be, a memory of words that keeps the     *)
(* lanes a store's mask leaves out.  Both start equal and do the same.     *)
(***************************************************************************)
EXTENDS Integers

CONSTANT
  Words      \* bound: words of memory

\* A byte is cut down to its sign bit, which is what an extension copies.
Byte == 0..1
Lane == 0..3
Addr == 0..4 * Words - 1
\* A word, from its lowest byte up
Word == [Lane -> Byte]

\* funct3 of the instructions; LOAD_B .. LOAD_UH of config.sv
LoadType == {"b", "h", "w", "ub", "uh"}
StoreType == {"b", "h", "w"}
Len(type) == CASE type \in {"b", "ub"} -> 1 [] type \in {"h", "uh"} -> 2 [] OTHER -> 4

LanesAssumption == Words \in Nat \ {0}

VARIABLES
  lines,   \* words of the processor's memory
  memory,  \* bytes of the reference's
  reg,     \* what a load wrote to the register and a store takes, there and here
  ref_reg

vars == <<lines, memory, reg, ref_reg>>

Init ==
  /\ lines = [i \in 0..Words - 1 |-> [l \in Lane |-> 0]]
  /\ memory = [a \in Addr |-> 0]
  /\ reg \in Word /\ ref_reg = reg

-----------------------------------------------------------------------------
(* The processor *)

\* A shift by whole bytes; zeros come in.
ShiftDown(w, n) == [l \in Lane |-> IF l + n \in Lane THEN w[l + n] ELSE 0]
ShiftUp(w, n) == [l \in Lane |-> IF l - n \in Lane THEN w[l - n] ELSE 0]

\* Fault: a half is extended with the sign of its lower byte.
Extended_LowByte(w, type) ==
  LET sign == IF type \in {"b", "h"} THEN w[0] ELSE 0
  IN [l \in Lane |-> IF l < Len(type) THEN w[l] ELSE sign]

Extended(w, type) ==
  LET sign == IF type \in {"b", "h"} THEN w[Len(type) - 1] ELSE 0
  IN [l \in Lane |-> IF l < Len(type) THEN w[l] ELSE sign]

rdata(type, a) == Extended(ShiftDown(lines[a \div 4], a % 4), type)

\* Fault: the mask of a half does not move with the address.
wstrb_Fixed(type, a) ==
  CASE type = "b" -> {a % 4} [] type = "h" -> {0, 1} [] OTHER -> Lane

wstrb(type, a) ==
  CASE type = "b" -> {a % 4} [] type = "h" -> {a % 4, (a % 4) + 1} \cap Lane [] OTHER -> Lane

mem_wdata(type, a, w) == IF type = "w" THEN w ELSE ShiftUp(w, a % 4)

Written(type, a, w) ==
  [lines EXCEPT ![a \div 4] =
     [l \in Lane |-> IF l \in wstrb(type, a) THEN mem_wdata(type, a, w)[l] ELSE @[l]]]

-----------------------------------------------------------------------------
(* The reference *)

\* host_read of len bytes, then the extension of the instruction
RefRead(type, a) ==
  LET top == memory[a + Len(type) - 1] IN
  [l \in Lane |-> IF l < Len(type) THEN memory[a + l]
                  ELSE IF type \in {"b", "h"} THEN top ELSE 0]

RefWritten(type, a, w) ==
  [b \in Addr |-> IF b \in a..a + Len(type) - 1 THEN w[b - a] ELSE memory[b]]

-----------------------------------------------------------------------------
\* Accesses do not cross the boundary of their size, as compilers emit them.
Allowed(type, a) == a + Len(type) - 1 \in Addr /\ a % Len(type) = 0

Load(type, a) ==
  /\ Allowed(type, a)
  /\ reg' = rdata(type, a) /\ ref_reg' = RefRead(type, a)
  /\ UNCHANGED <<lines, memory>>

Store(type, a) ==
  /\ Allowed(type, a)
  /\ lines' = Written(type, a, reg) /\ memory' = RefWritten(type, a, ref_reg)
  /\ UNCHANGED <<reg, ref_reg>>

\* Anything else that writes the register
Compute == /\ reg' \in Word /\ ref_reg' = reg'
           /\ UNCHANGED <<lines, memory>>

Next ==
  \/ \E type \in LoadType, a \in Addr : Load(type, a)
  \/ \E type \in StoreType, a \in Addr : Store(type, a)
  \/ Compute

Spec == Init /\ [][Next]_vars

-----------------------------------------------------------------------------
(* Properties *)

\* No sequence of aligned loads and stores of mixed sizes makes the processor's
\* memory or register differ from the reference's: masks, shifts and extensions
\* of DCache_Write_Ctrl.sv and DCache_Read_Ctrl.sv fit each other.
LanesAgree ==
  /\ reg = ref_reg
  /\ \A a \in Addr : lines[a \div 4][a % 4] = memory[a]
=============================================================================
