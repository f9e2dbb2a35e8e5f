----------------------------- MODULE Algorithms -----------------------------
(***************************************************************************)
(* What is computed without the machine around it: instructions, and the   *)
(* functions of the libraries and of the debugger.  They share no state:   *)
(* one of them is called in a behaviour, part says which.                  *)
(*   integer, csr  instructions on words of four bits, the smallest in     *)
(*                 which a product, a shift amount and the most negative   *)
(*                 number all differ from their neighbours                 *)
(*   lanes         loads and stores of two words of four bytes             *)
(*   wide          division with halves of four bits, any upper and eight  *)
(*                 lower ones; the halves named as on a machine that       *)
(*                 stores the upper one first                              *)
(*   narrow        the same as RISC-V names them, numbers that fit a half  *)
(*   printf        numbers of eight bits at the ends of their range, short *)
(*                 texts, all flags                                        *)
(*   string        five bytes of memory, a zero and two letters            *)
(*   debugger      expressions of words of four bits, and a memory that    *)
(*                 maps no two addresses alike                             *)
(***************************************************************************)
EXTENDS Execute

CONSTANTS
  Words,                                          \* of Lanes
  WordBits, Doubles, Singles,                     \* of Int64: its numbers
  Longs, Numbers, Texts, Widths, Precisions,      \* of Printf
  Memory, Bytes                                   \* of Strings: places of memory, and bytes

VARIABLES
  part,
  lines, memory, reg, ref_reg,
  pc, call, num, den, quo, rmd, sr, carry, quot, rem,
  asked, out,
  mem, op, dst, to, from, size, copied, before, compared,
  tokens, value, prec, ops, equals

lanes      == <<lines, memory, reg, ref_reg>>
division   == <<pc, call, num, den, quo, rmd, sr, carry, quot, rem>>
conversion == <<asked, out>>
bytes      == <<mem, op, dst, to, from, size, copied, before, compared>>
expression == <<tokens, value, prec, ops, equals>>
all        == <<vars, lanes, division, conversion, bytes, expression, part>>

L == INSTANCE Lanes
W == INSTANCE Int64 WITH
       BigEndian <- TRUE, Operands <- Doubles, n <- num, d <- den, q <- quo, r <- rmd
N == INSTANCE Int64 WITH
       BigEndian <- FALSE, Operands <- Singles, n <- num, d <- den, q <- quo, r <- rmd
P == INSTANCE Printf
S == INSTANCE Strings WITH
       Size <- Memory, Byte <- Bytes, p <- to, q <- from, n <- size, i <- copied

\* No two addresses hold the same word.
Loaded(a) == (5 * a + 3) % 16
E == INSTANCE Expr WITH
       Wide <- 256, Size <- 16, Atoms <- {<<"hex", 2>>, <<"reg", 13>>},
       Ops <- {"-", "*", "/", "=="}, MaxOps <- 3, AnyStar <- FALSE, paddr_read <- Loaded

ASSUME AlgorithmsAssumption ==
  /\ L!LanesAssumption /\ W!Int64Assumption /\ N!Int64Assumption
  /\ Singles \subseteq 0..2 ^ WordBits - 1
  /\ P!PrintfAssumption /\ S!StringsAssumption

\* What is not called stays at one initial state.
AlgorithmsInit ==
  /\ part \in {"integer", "csr", "lanes", "wide", "narrow", "printf", "string", "debugger"}
  /\ IF part = "narrow" THEN N!Init ELSE W!Init
  /\ Init /\ L!Init /\ P!Init /\ S!Init /\ E!Init
  /\ part # "lanes" => reg = [l \in L!Lane |-> 0]
  /\ part # "string" => mem = [k \in S!Place |-> 0]
  /\ part # "debugger" => value = 13

\* The CSR instructions with a lui to load the registers, or all others.
Chosen(i) == IF part = "csr" THEN i.opcode \in {"lui", "system"} ELSE i.opcode # "system"

Instructions ==
  /\ part \in {"integer", "csr"}
  /\ \E i \in {j \in Inst : Chosen(j)} : Step(i)
  /\ UNCHANGED <<lanes, division, conversion, bytes, expression>>

Called ==
  \/ part = "lanes" /\ L!Next /\ UNCHANGED <<division, conversion, bytes, expression>>
  \/ part = "wide" /\ W!Next /\ UNCHANGED <<lanes, conversion, bytes, expression>>
  \/ part = "narrow" /\ N!Next /\ UNCHANGED <<lanes, conversion, bytes, expression>>
  \/ part = "printf" /\ P!Next /\ UNCHANGED <<lanes, division, bytes, expression>>
  \/ part = "string" /\ S!Next /\ UNCHANGED <<lanes, division, conversion, expression>>
  \/ part = "debugger" /\ E!Next /\ UNCHANGED <<lanes, division, conversion, bytes>>

AlgorithmsNext == UNCHANGED part /\ (Instructions \/ (Called /\ UNCHANGED vars))

AlgorithmsSpec == AlgorithmsInit /\ [][AlgorithmsNext]_all

-----------------------------------------------------------------------------
(* Properties *)

\* After any instructions that compute, and any loads and stores of mixed sizes,
\* processor and reference hold the same (Execute, Lanes).
InstructionsAgree == ResultsAgree /\ (part = "lanes" => L!LanesAgree)

\* Between two iterations of __udivmoddi4 the bits seen of the numerator are the
\* denominator times the quotient found so far plus the remainder, and the entry
\* points return quotient and remainder (Int64).
DivisionRight ==
  /\ part = "wide" => W!TypeOK /\ W!Halfway /\ W!Divides
  /\ part = "narrow" => N!Divides

\* Copies become what their source was, overlapping or not; joined strings are
\* strings; the sign of a comparison is that of the first difference (Strings).
StringsRight == part = "string" => S!Copied /\ S!Joined /\ S!Ordered

\* What the libraries that stand in for the C library compute: quotients, copies
\* and comparisons, and a text cut and padded on the right side (Printf).
LibraryRight == DivisionRight /\ StringsRight /\ (part = "printf" => P!TextPadded)

\* What is printed is the value that was meant: of the expression the user of the
\* debugger typed (Expr), and of the number printf was given, which can be read
\* back from the text, as wide as it was asked for (Printf).
PrintsValue ==
  /\ part = "debugger" => E!PrintsValue
  /\ part = "printf" => P!NumberReadBack

-----------------------------------------------------------------------------
(* The instance that is checked *)

SomeDoubles == {k \in 0..255 : k % 16 \in {0, 1, 2, 7, 8, 9, 14, 15}}
SomeTexts == {<<>>, <<10>>, <<11, 12, 13>>}
SomeWidths == {-3, 0, 1, 6}
SomePrecisions == {-1, 0, 2, 5}
=============================================================================
