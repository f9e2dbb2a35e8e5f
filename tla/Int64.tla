------------------------------- MODULE Int64 -------------------------------
(***************************************************************************)
(* Division of 64-bit numbers on a processor that has none                 *)
(* (base-port/tool/src/int64.c): __udivmoddi4, a shift-and-subtract loop   *)
(* on two doublewords kept in halves behind eight special cases, and the   *)
(* entry points that divide signed numbers through it.  A half has         *)
(* WordBits bits instead of 32.  Which half of a number the first member   *)
(* of udwords is depends on the byte order the file is compiled for; on    *)
(* RISC-V `high` is the lower one.                                         *)
(***************************************************************************)
EXTENDS Integers

CONSTANTS
  WordBits,   \* n_uword_bits, a power of 2
  BigEndian,  \* does the upper half of a number come first in memory?
  Operands    \* the magnitudes of the numbers that are divided

Word == 2 ^ WordBits
DoubleWord == Word * Word
Half == 0..Word - 1

Int64Assumption ==
  /\ \E k \in 1..5 : WordBits = 2 ^ k
  /\ BigEndian \in BOOLEAN /\ Operands \subseteq 0..DoubleWord - 1

VARIABLES
  pc,          \* "idle", "enter", "loop", "done"
  call,        \* the numbers given, and whether they are signed
  n, d, q, r,  \* udwords: numerator, denominator, quotient, remainder
  sr, carry,   \* iterations left; the bit of the quotient found last
  quot, rem    \* what __udivmoddi4 returns and leaves in *rem

vars == <<pc, call, n, d, q, r, sr, carry, quot, rem>>

All(u) == IF BigEndian THEN u.high * Word + u.low ELSE u.low * Word + u.high
Udwords(x) ==
  IF BigEndian THEN [high |-> x \div Word, low |-> x % Word]
               ELSE [high |-> x % Word, low |-> x \div Word]
Zero == Udwords(0)

Init ==
  /\ pc = "idle" /\ call = [signed |-> FALSE, a |-> 0, b |-> 0]
  /\ n = Zero /\ d = Zero /\ q = Zero /\ r = Zero
  /\ sr = 0 /\ carry = 0 /\ quot = 0 /\ rem = 0

-----------------------------------------------------------------------------
(* Halves *)

\* Fault: the bits shifted out are kept.
Shl_Wide(x, k) == x * 2 ^ k

Shl(x, k) == (x * 2 ^ k) % Word
Shr(x, k) == x \div 2 ^ k
PowerOfTwo(x) == \E k \in 0..WordBits - 1 : x = 2 ^ k

\* One turn of __clzsi2 and of __ctzsi2: of the 2 t bits that may hold the one
\* looked for, x keeps t and r counts the others if they are zeros.
Upper(s, t) ==
  IF t >= WordBits THEN s
  ELSE IF s.x < 2 ^ t THEN [s EXCEPT !.r = @ + t] ELSE [s EXCEPT !.x = Shr(@, t)]
Lower(s, t) ==
  IF t >= WordBits THEN s
  ELSE IF s.x % 2 ^ t = 0 THEN [x |-> Shr(s.x, t), r |-> s.r + t] ELSE s

\* Fault: a single bit that is left counts as a zero.
clz_One(x) ==
  LET s == Upper(Upper(Upper(Upper([x |-> x, r |-> 0], 16), 8), 4), 2)
  IN  s.r + (IF s.x < 2 THEN 2 ELSE 0)

clz(x) ==
  LET s == Upper(Upper(Upper(Upper([x |-> x, r |-> 0], 16), 8), 4), 2)
  IN  s.r + (IF s.x < 2 THEN 2 - s.x ELSE 0)

ctz(x) ==
  LET s == Lower(Lower(Lower(Lower([x |-> x, r |-> 0], 16), 8), 4), 2)
  IN  s.r + (IF s.x % 2 = 1 THEN 0 ELSE 2 - (s.x % 4) \div 2)

-----------------------------------------------------------------------------
(* Signs *)

Negative(x) == x >= DoubleWord \div 2
Negated(x) == (DoubleWord - x) % DoubleWord
Magnitude(x) == IF Negative(x) THEN Negated(x) ELSE x

\* Fault: the remainder takes the sign of the denominator.
SignedRem_OfB(a, b) == IF Negative(b) THEN Negated(rem) ELSE rem

SignedRem(a, b) == IF Negative(a) THEN Negated(rem) ELSE rem
SignedQuot(a, b) == IF Negative(a) # Negative(b) THEN Negated(quot) ELSE quot
\* __divmoddi4 multiplies back.
DivmodRem(a, b) == (a - SignedQuot(a, b) * b) % DoubleWord

-----------------------------------------------------------------------------
(* __udivmoddi4 *)

\* __udivdi3, __umoddi3, __divdi3, __moddi3; division by 0 is undefined.
Call(signed, a, b) ==
  /\ b # 0
  /\ pc' = "enter" /\ call' = [signed |-> signed, a |-> a, b |-> b]
  /\ n' = Udwords(IF signed THEN Magnitude(a) ELSE a)
  /\ d' = Udwords(IF signed THEN Magnitude(b) ELSE b)
  /\ UNCHANGED <<q, r, sr, carry, quot, rem>>

Answer(x, y) ==
  /\ pc' = "done" /\ quot' = x /\ rem' = y
  /\ UNCHANGED <<call, n, d, q, r, sr, carry>>

Distance == clz(d.high) - clz(n.high)

\* 0 X / 0 X and 0 X / K X
ShortNumerator ==
  /\ n.high = 0
  /\ \/ d.high = 0 /\ Answer(n.low \div d.low, n.low % d.low)
     \/ d.high # 0 /\ Answer(0, n.low)

\* K 0 / K 0
UpperHalves ==
  /\ n.high # 0 /\ d.low = 0 /\ n.low = 0
  /\ Answer(n.high \div d.high, All([high |-> n.high % d.high, low |-> 0]))

\* K K / K 0 and K X / 0 K, the denominator a power of 2
UpperPower ==
  /\ n.high # 0 /\ d.low = 0 /\ n.low # 0 /\ PowerOfTwo(d.high)
  /\ Answer(Shr(n.high, ctz(d.high)), All([high |-> n.high % d.high, low |-> n.low]))

LowerPower ==
  /\ n.high # 0 /\ d.high = 0 /\ PowerOfTwo(d.low)
  /\ LET s == ctz(d.low)
     IN  Answer(IF d.low = 1 THEN All(n)
                ELSE All([high |-> Shr(n.high, s),
                          low |-> Shl(n.high, WordBits - s) + Shr(n.low, s)]),
                n.low % d.low)

\* The halves of n << (2 WordBits - s) and of n >> s.
Shift(s) ==
  /\ pc' = "loop" /\ sr' = s /\ carry' = 0
  /\ \/ /\ s < WordBits
        /\ q' = [high |-> Shl(n.low, WordBits - s), low |-> 0]
        /\ r' = [high |-> Shr(n.high, s), low |-> Shl(n.high, WordBits - s) + Shr(n.low, s)]
     \/ /\ s = WordBits
        /\ q' = [high |-> n.low, low |-> 0]
        /\ r' = [high |-> 0, low |-> n.high]
     \/ /\ s > WordBits
        /\ q' = [high |-> Shl(n.high, 2 * WordBits - s) + Shr(n.low, s - WordBits),
                 low |-> Shl(n.low, 2 * WordBits - s)]
        /\ r' = [high |-> 0, low |-> Shr(n.high, s - WordBits)]
  /\ UNCHANGED <<call, n, d, quot, rem>>

\* A longer denominator, which as an unsigned sr is a large one, leaves all of
\* the numerator.
ByDistance(last) ==
  \/ Distance \in 0..last /\ Shift(Distance + 1)
  \/ Distance \notin 0..last /\ Answer(0, All(n))

\* K K / K 0
UpperDenominator ==
  /\ n.high # 0 /\ d.low = 0 /\ n.low # 0 /\ ~PowerOfTwo(d.high)
  /\ ByDistance(WordBits - 2)

\* K X / K K
WholeDenominator ==
  /\ n.high # 0 /\ d.high # 0 /\ d.low # 0
  /\ ByDistance(WordBits - 1)

\* K X / 0 K
LowerDenominator ==
  /\ n.high # 0 /\ d.high = 0 /\ ~PowerOfTwo(d.low)
  /\ Shift(1 + WordBits + clz(d.low) - clz(n.high))

Enter ==
  /\ pc = "enter"
  /\ \/ ShortNumerator \/ UpperHalves \/ UpperPower
     \/ LowerPower \/ UpperDenominator \/ WholeDenominator \/ LowerDenominator

\* Fault: a remainder that equals the denominator is not reduced.
Fits_Greater(x) == (All(d) - x) % DoubleWord >= DoubleWord \div 2

\* (di_int)(d.all - r.all - 1) >> (n_udword_bits - 1)
Fits(x) == (All(d) - x - 1) % DoubleWord >= DoubleWord \div 2

\* r:q moves up by one bit, the bit found last comes in below, and the
\* denominator goes out of r if it fits.
Iterate ==
  LET up == [high |-> Shl(r.high, 1) + Shr(r.low, WordBits - 1),
             low |-> Shl(r.low, 1) + Shr(q.high, WordBits - 1)]
      next == IF Fits(All(up)) THEN 1 ELSE 0
  IN  /\ pc = "loop" /\ sr > 0
      /\ sr' = sr - 1 /\ carry' = next
      /\ q' = [high |-> Shl(q.high, 1) + Shr(q.low, WordBits - 1), low |-> Shl(q.low, 1) + carry]
      /\ r' = Udwords((All(up) - next * All(d)) % DoubleWord)
      /\ UNCHANGED <<pc, call, n, d, quot, rem>>

Leave == pc = "loop" /\ sr = 0 /\ Answer((2 * All(q) + carry) % DoubleWord, All(r))

\* The locals are gone.
Return ==
  /\ pc = "done" /\ pc' = "idle" /\ call' = [signed |-> FALSE, a |-> 0, b |-> 0]
  /\ n' = Zero /\ d' = Zero /\ q' = Zero /\ r' = Zero
  /\ sr' = 0 /\ carry' = 0 /\ quot' = 0 /\ rem' = 0

Next ==
  \/ /\ pc = "idle"
     /\ \E a, b \in Operands :
          \/ Call(FALSE, a, b)
          \/ \E x \in {a, Negated(a)}, y \in {b, Negated(b)} : Call(TRUE, x, y)
  \/ Enter \/ Iterate \/ Leave \/ Return

Spec == Init /\ [][Next]_vars

-----------------------------------------------------------------------------
(* Properties *)

TypeOK ==
  /\ pc \in {"idle", "enter", "loop", "done"}
  /\ \A u \in {n, d, q, r} : u.high \in Half /\ u.low \in Half
  /\ sr \in 0..2 * WordBits - 1 /\ carry \in 0..1
  /\ quot \in 0..DoubleWord - 1 /\ rem \in 0..DoubleWord - 1

\* Between two iterations the bits of the numerator seen so far are the
\* denominator times the bits of the quotient found so far, plus r, which is
\* smaller than the denominator; the bits not seen are on top of q.
Halfway ==
  pc = "loop" =>
    LET below == 2 ^ (2 * WordBits - sr)
        found == 2 * (All(q) % below) + carry
    IN  /\ All(r) < All(d)
        /\ All(n) = (All(d) * found + All(r)) * 2 ^ sr + All(q) \div below

\* int64.c:24-71: "Returns: a / b", "Returns: a % b" and both,
\* for unsigned numbers and, rounding towards zero, for signed ones.
Divides ==
  LET a == call.a
      b == call.b
      whole == Magnitude(a) \div Magnitude(b)
      rest == Magnitude(a) % Magnitude(b)
  IN  pc = "done" =>
        IF ~call.signed THEN quot = a \div b /\ rem = a % b
        ELSE /\ SignedQuot(a, b) = IF Negative(a) # Negative(b) THEN Negated(whole) ELSE whole
             /\ SignedRem(a, b) = IF Negative(a) THEN Negated(rest) ELSE rest
             /\ DivmodRem(a, b) = SignedRem(a, b)
=============================================================================
