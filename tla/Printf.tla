------------------------------- MODULE Printf -------------------------------
(***************************************************************************)
(* One conversion of vsnprintf (base-port/tool/src/stdio.c): the number,   *)
(* character or string, the signs and prefixes before it and the padding   *)
(* around it, counted down in one variable.  A digit is its value, another *)
(* character a negative number; a long has Longs values.                   *)
(***************************************************************************)
EXTENDS Integers, SequencesExt

CONSTANTS
  Longs,       \* 2^32 in the code
  Numbers,     \* the arguments of %d, %u, %x, as longs
  Texts,       \* the arguments of %s
  Widths, Precisions

PrintfAssumption ==
  /\ Longs \in Nat \ {0} /\ Numbers \subseteq 0..Longs - 1
  /\ Texts \subseteq Seq(Int) /\ Widths \subseteq Int /\ Precisions \subseteq Nat \cup {-1}

VARIABLES
  asked,  \* the conversion: its letter, flags, width (or -1), precision (or -1) and argument
  out     \* what it appends to the output

vars == <<asked, out>>

Flags == {"LEFT", "PLUS", "SPACE", "SPECIAL", "ZEROPAD"}

Space == -1
MinusSign == -2
PlusSign == -3
LetterX == -4

\* while (size-- > 0) *str++ = c
Pad(c, n) == IF n > 0 THEN [i \in 1..n |-> c] ELSE <<>>

-----------------------------------------------------------------------------
(* number *)

Minus(x) == (Longs - x) % Longs
IsNegative(x) == x >= Longs \div 2

\* tmp, the least significant digit first; 0 has one digit.
tmp(num, base) ==
  LET rest[n \in 0..Longs - 1] == IF n = 0 THEN <<>> ELSE <<n % base>> \o rest[n \div base]
  IN  IF num = 0 THEN <<0>> ELSE rest[num]

SignOf(num, flags) ==
  IF "SIGN" \notin flags THEN <<>>
  ELSE IF IsNegative(num) THEN <<MinusSign>>
  ELSE IF "PLUS" \in flags THEN <<PlusSign>>
  ELSE IF "SPACE" \in flags THEN <<Space>> ELSE <<>>

PrefixOf(base, flags) ==
  IF "SPECIAL" \notin flags THEN <<>>
  ELSE CASE base = 8 -> <<0>> [] base = 16 -> <<0, LetterX>> [] OTHER -> <<>>

\* Fault: LEFT leaves ZEROPAD on.
Effective_Both(type) == type

Effective(type) == IF "LEFT" \in type THEN type \ {"ZEROPAD"} ELSE type

number(num, base, width, precision, type) ==
  LET flags == Effective(type)
      digits == tmp(IF "SIGN" \in flags /\ IsNegative(num) THEN Minus(num) ELSE num, base)
      least == IF Len(digits) > precision THEN Len(digits) ELSE precision
      size == width - Len(SignOf(num, flags)) - Len(PrefixOf(base, flags)) - least
  IN  (IF flags \cap {"ZEROPAD", "LEFT"} = {} THEN Pad(Space, size) ELSE <<>>)
      \o SignOf(num, flags) \o PrefixOf(base, flags)
      \o (IF "ZEROPAD" \in flags THEN Pad(0, size) ELSE <<>>)
      \o Pad(0, least - Len(digits)) \o Reverse(digits)
      \o (IF "LEFT" \in flags THEN Pad(Space, size) ELSE <<>>)

-----------------------------------------------------------------------------
(* vsnprintf *)

character(c, width, flags) ==
  IF "LEFT" \in flags THEN <<c>> \o Pad(Space, width - 1) ELSE Pad(Space, width - 1) \o <<c>>

\* Fault: a precision of 0 is taken for none.
Kept_Zero(s, precision) ==
  IF precision \in 1..Len(s) - 1 THEN SubSeq(s, 1, precision) ELSE s

\* strnlen, for which a precision of -1 is no limit.
Kept(s, precision) ==
  IF precision \in 0..Len(s) - 1 THEN SubSeq(s, 1, precision) ELSE s

text(s, width, precision, flags) ==
  LET kept == Kept(s, precision)
  IN  IF "LEFT" \in flags THEN kept \o Pad(Space, width - Len(kept))
      ELSE Pad(Space, width - Len(kept)) \o kept

\* A width from an argument brings its own sign.
FieldWidth(w) == IF w < -1 THEN -w ELSE w
WidthFlags(w) == IF w < -1 THEN {"LEFT"} ELSE {}

Base(letter) == CASE letter = "o" -> 8 [] letter \in {"x", "p"} -> 16 [] OTHER -> 10
PointerWidth == Len(tmp(Longs - 1, 16))

Converted(letter, flags, width, precision, arg) ==
  LET w == FieldWidth(width)
      f == flags \cup WidthFlags(width)
  IN  CASE letter = "c" -> character(arg, w, f)
        [] letter = "s" -> text(arg, w, precision, f)
        [] letter = "d" -> number(arg, 10, w, precision, f \cup {"SIGN"})
        [] letter = "p" /\ w = -1 ->
             number(arg, 16, PointerWidth, precision, f \cup {"ZEROPAD"})
        [] OTHER -> number(arg, Base(letter), w, precision, f)

Arguments(letter) == CASE letter = "c" -> {10} [] letter = "s" -> Texts [] OTHER -> Numbers

Conversion(letter, flags, width, precision, arg) ==
  /\ asked = <<>>
  /\ asked' = [letter |-> letter, flags |-> flags, width |-> width,
               precision |-> precision, arg |-> arg]
  /\ out' = Converted(letter, flags, width, precision, arg)

Init == asked = <<>> /\ out = <<>>

Finish == asked # <<>> /\ asked' = <<>> /\ out' = <<>>

Next ==
  \/ Finish
  \/ \E letter \in {"c", "s", "d", "u", "x", "o", "p"}, flags \in SUBSET Flags,
        width \in Widths, precision \in Precisions :
       \E arg \in Arguments(letter) : Conversion(letter, flags, width, precision, arg)

Spec == Init /\ [][Next]_vars

-----------------------------------------------------------------------------
(* Properties *)

Value(digits, base) == FoldLeft(LAMBDA v, d : v * base + d, 0, digits)
Blank(s) == \A i \in DOMAIN s : s[i] = Space
Most(m, n) == IF m > n THEN m ELSE n

\* What is printed for a number can be read back: blanks, the sign and the
\* prefix, and digits with the value of the number, at least precision of them;
\* blanks behind them only with LEFT, before them only without, zeros beyond the
\* precision only with ZEROPAD; and the whole is as wide as asked or as needed.
NumberReadBack ==
  asked # <<>> /\ asked.letter \in {"d", "u", "x", "o", "p"} =>
    LET base == Base(asked.letter)
        left == "LEFT" \in asked.flags \/ asked.width < -1
        signed == asked.letter = "d"
        head == SignOf(asked.arg, asked.flags \cup (IF signed THEN {"SIGN"} ELSE {}))
                \o PrefixOf(base, asked.flags)
        magnitude == IF signed /\ IsNegative(asked.arg) THEN Minus(asked.arg) ELSE asked.arg
        pointer == asked.letter = "p" /\ asked.width = -1
        needed == Most(asked.precision, Len(tmp(magnitude, base)))
    IN  \E b, e \in 0..Len(out) :
          LET digits == SubSeq(out, b + Len(head) + 1, e)
          IN  /\ Blank(SubSeq(out, 1, b)) /\ Blank(SubSeq(out, e + 1, Len(out)))
              /\ IF left THEN b = 0 ELSE e = Len(out)
              /\ SubSeq(out, b + 1, b + Len(head)) = head
              /\ \A i \in DOMAIN digits : digits[i] \in 0..base - 1
              /\ Value(digits, base) = magnitude
              /\ \/ Len(digits) = needed
                 \/ Len(digits) > needed /\ (pointer \/ "ZEROPAD" \in asked.flags)
              /\ Len(out) = Most(IF pointer THEN PointerWidth ELSE FieldWidth(asked.width),
                                 Len(head) + needed)

\* A string is cut to its precision and padded to its width on the right side.
TextPadded ==
  asked # <<>> /\ asked.letter = "s" =>
    LET left == "LEFT" \in asked.flags \/ asked.width < -1
        n == IF asked.precision = -1 \/ asked.precision > Len(asked.arg)
             THEN Len(asked.arg) ELSE asked.precision
    IN  /\ Len(out) = Most(n, FieldWidth(asked.width))
        /\ LET first == IF left THEN 0 ELSE Len(out) - n
           IN  /\ SubSeq(out, first + 1, first + n) = SubSeq(asked.arg, 1, n)
               /\ Blank(SubSeq(out, 1, first)) /\ Blank(SubSeq(out, first + n + 1, Len(out)))
=============================================================================
