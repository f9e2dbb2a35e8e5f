---------------------------- MODULE MemGeometry ----------------------------
(***************************************************************************)
(* Addresses, words and cache lines as the caches, the bus and the         *)
(* simulated physical memory of SWIFT_SIM see them.                        *)
(*                                                                         *)
(* A 32-bit address is cut into the fields the caches cut it into (tag,    *)
(* set index, word of the line); its two lowest bits only choose byte      *)
(* lanes and live in the write mask of a store.  A tag belongs either to   *)
(* the physical memory or to the uncached device window 0xA0000000.        *)
(***************************************************************************)
EXTENDS Integers, FiniteSets

CONSTANTS
  Tags,        \* tags of lines in physical memory
  DeviceTags,  \* tags whose addresses have 0xA in bits 31:28
  SetNum,      \* sets of a cache way
  WordNum,     \* words of a cache line
  LaneNum,     \* byte lanes of a word
  Byte         \* the values a byte takes

ASSUME GeometryAssumption ==
  /\ SetNum \in Nat \ {0}
  /\ WordNum \in Nat \ {0}
  /\ LaneNum \in Nat \ {0}
  /\ Tags # {}
  /\ Byte # {}
  /\ Tags \cap DeviceTags = {}

Sets  == 0 .. SetNum - 1
Words == 0 .. WordNum - 1
Lanes == 0 .. LaneNum - 1
Ways  == {0, 1}

Word == [Lanes -> Byte]
Line == [Words -> Word]
Addr == [tag : Tags \cup DeviceTags, set : Sets, word : Words]

ZeroWord == [l \in Lanes |-> CHOOSE b \in Byte : TRUE]
ZeroLine == [i \in Words |-> ZeroWord]

LineBase(a) == [a EXCEPT !.word = 0]

\* The line buffers are shift registers: a new word enters at the top.
Shift(line, w) == [i \in Words |-> IF i = WordNum - 1 THEN w ELSE line[i + 1]]

\* A store changes the lanes of its mask and keeps the others.
Merge(old, new, strb) == [l \in Lanes |-> IF l \in strb THEN new[l] ELSE old[l]]
=============================================================================
