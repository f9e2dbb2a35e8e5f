-------------------------- MODULE AlgorithmsProofs --------------------------
(***************************************************************************)
(* Proofs about what is computed: the instructions, the lanes of loads and *)
(* stores, the division of 64-bit numbers by halves, the copies and        *)
(* comparisons of strings and the padding of text.  They hold for words    *)
(* whose width is a power of two, halves of up to 32 bits, any memory and  *)
(* any operands.                                                           *)
(***************************************************************************)
EXTENDS Algorithms, FiniteSetTheorems, FunctionTheorems, SequenceTheorems,
        WellFoundedInduction, TLAPS

\* A set of numbers that starts at 0 and leaves no successor out is all of them.
LEMMA Induction ==
  ASSUME NEW T, T \subseteq Nat, 0 \in T, \A k \in T : k + 1 \in T
  PROVE  T = Nat
<1> DEFINE Less == OpToRel(<, Nat)
           Rest == Nat \ T
<1>1. IsWellFoundedOn(Less, Nat)
  BY NatLessThanWellFounded
<1>2. ASSUME Rest # {} PROVE FALSE
  <2>1. \E x \in Rest : \A y \in Rest : ~(<<y, x>> \in Less)
    <3> HIDE DEF Less
    <3> QED BY <1>1, <1>2, WFMin
  <2>2. PICK x \in Rest : \A y \in Rest : ~(<<y, x>> \in Less)
    BY <2>1
  <2>3. x \in Nat /\ x # 0 /\ x - 1 \in Nat /\ x - 1 + 1 = x
    OBVIOUS
  <2>4. x - 1 \in Rest
    BY <2>3
  <2>5. <<x - 1, x>> \in Less
    BY <2>3 DEF OpToRel
  <2> QED BY <2>2, <2>4, <2>5
<1> QED BY <1>2

\* Powers of two are the numbers of subsets, and one more element doubles them.
LEMMA PowerType == ASSUME NEW k \in Nat PROVE 2 ^ k \in Nat /\ 2 ^ k = Cardinality(SUBSET (1..k))
<1>1. IsFiniteSet(1..k) /\ Cardinality(1..k) = k
  BY FS_Interval
<1>2. IsFiniteSet(SUBSET (1..k)) /\ Cardinality(SUBSET (1..k)) = 2 ^ Cardinality(1..k)
  BY <1>1, FS_SUBSET
<1>3. Cardinality(SUBSET (1..k)) \in Nat
  BY <1>2, FS_CardinalityType
<1> QED BY <1>1, <1>2, <1>3

\* A power of two is twice the one before.
LEMMA PowerStep == ASSUME NEW k \in Nat PROVE 2 ^ (k + 1) = 2 * 2 ^ k
<1> DEFINE Old == SUBSET (1..k)
           New == {T \in SUBSET (1..k + 1) : k + 1 \in T}
           f == [T \in Old |-> T \cup {k + 1}]
<1>1. IsFiniteSet(1..k)
  BY FS_Interval
<1>2. IsFiniteSet(Old)
  BY <1>1, FS_SUBSET
<1>3. f \in Bijection(Old, New)
  <2>1. f \in [Old -> New]
    OBVIOUS
  <2>2. ASSUME NEW A \in Old, NEW B \in Old, f[A] = f[B] PROVE A = B
    <3>1. k + 1 \notin A /\ k + 1 \notin B
      OBVIOUS
    <3> QED BY <2>2, <3>1
  <2>3. ASSUME NEW T \in New PROVE \E A \in Old : f[A] = T
    <3>1. T \ {k + 1} \in Old
      OBVIOUS
    <3>2. f[T \ {k + 1}] = T
      BY <3>1
    <3> QED BY <3>1, <3>2
  <2> QED BY <2>1, <2>2, <2>3, Fun_IsBij
<1>4. IsFiniteSet(New) /\ Cardinality(New) = Cardinality(Old)
  <2>1. ExistsBijection(Old, New)
    BY <1>3 DEF ExistsBijection
  <2> HIDE DEF Old, New
  <2> QED BY <1>2, <2>1, FS_Bijection
<1>5. SUBSET (1..k + 1) = Old \cup New /\ Old \cap New = {}
  OBVIOUS
<1>6. Cardinality(Old \cup New) = Cardinality(Old) + Cardinality(New)
  <2> HIDE DEF Old, New
  <2>1. Cardinality(Old \cup New) = Cardinality(Old) + Cardinality(New) - Cardinality(Old \cap New)
    BY <1>2, <1>4, FS_Union
  <2>2. Cardinality(Old \cap New) = 0
    BY <1>5, FS_EmptySet
  <2>3. Cardinality(Old) \in Nat /\ Cardinality(New) \in Nat
    BY <1>2, <1>4, FS_CardinalityType
  <2> QED BY <2>1, <2>2, <2>3
<1>7. Cardinality(Old) = 2 ^ k /\ Cardinality(Old \cup New) = 2 ^ (k + 1) /\ 2 ^ k \in Nat
  BY <1>5, PowerType
<1> QED
  <2> HIDE DEF Old, New
  <2> QED BY <1>4, <1>6, <1>7

\* 2 ^ 0 = 1, so powers are positive and grow.
LEMMA PowerPositive == \A k \in Nat : 2 ^ k \in Nat \ {0} /\ 2 ^ k > k
<1> DEFINE T == {k \in Nat : 2 ^ k \in Nat \ {0} /\ 2 ^ k > k}
<1>1. 0 \in T
  OBVIOUS
<1>2. ASSUME NEW k \in T PROVE k + 1 \in T
  BY PowerStep
<1>3. T = Nat
  <2> HIDE DEF T
  <2>1. T \subseteq Nat
    BY DEF T
  <2> QED BY <1>1, <1>2, <2>1, Induction
<1> QED BY <1>3

\* Powers of two multiply by adding their exponents.
LEMMA PowerSum == \A i, j \in Nat : 2 ^ (i + j) = 2 ^ i * 2 ^ j
<1> SUFFICES ASSUME NEW i \in Nat PROVE \A j \in Nat : 2 ^ (i + j) = 2 ^ i * 2 ^ j
  OBVIOUS
<1> DEFINE T == {j \in Nat : 2 ^ (i + j) = 2 ^ i * 2 ^ j}
<1>1. 0 \in T
  <2>1. 2 ^ 0 = 1
    OBVIOUS
  <2>2. i + 0 = i
    OBVIOUS
  <2>3. 2 ^ i \in Nat
    BY PowerType
  <2> QED BY <2>1, <2>2, <2>3
<1>2. ASSUME NEW j \in T PROVE j + 1 \in T
  <2>1. 2 ^ (j + 1) = 2 * 2 ^ j
    BY PowerStep
  <2>2. 2 ^ (i + j + 1) = 2 * 2 ^ (i + j)
    BY PowerStep
  <2>3. 2 ^ i \in Nat /\ 2 ^ j \in Nat
    BY PowerType
  <2>4. i + (j + 1) = i + j + 1
    OBVIOUS
  <2> DEFINE a == 2 ^ i
             b == 2 ^ j
  <2>5. \A x, y \in Nat : 2 * (x * y) = x * (2 * y)
    OBVIOUS
  <2>6. 2 ^ (i + (j + 1)) = 2 ^ i * 2 ^ (j + 1)
    BY <2>1, <2>2, <2>3, <2>4, <2>5
  <2> QED BY <2>6
<1>3. T = Nat
  <2> HIDE DEF T
  <2>1. T \subseteq Nat
    BY DEF T
  <2> QED BY <1>1, <1>2, <2>1, Induction
<1> QED BY <1>3

\* What division and remainder are, and that nothing else is.
LEMMA Division ==
  \A m \in Nat \ {0}, x \in Int :
    /\ x \div m \in Int /\ x % m \in 0..m - 1 /\ x = (x \div m) * m + (x % m)
    /\ x >= 0 => x \div m >= 0
<1> SUFFICES ASSUME NEW m \in Nat \ {0}, NEW x \in Int
             PROVE  /\ x \div m \in Int /\ x % m \in 0..m - 1 /\ x = (x \div m) * m + (x % m)
                    /\ x >= 0 => x \div m >= 0
  OBVIOUS
<1>1. x \div m \in Int /\ x % m \in 0..m - 1
  OBVIOUS
<1>2. x = m * (x \div m) + (x % m)
  OBVIOUS
<1>3. x = (x \div m) * m + (x % m)
  <2> DEFINE q == x \div m
             r == x % m
  <2>1. q \in Int /\ r \in Int /\ x = m * q + r
    BY <1>1, <1>2
  <2> HIDE DEF q, r
  <2>2. x = q * m + r
    BY <2>1
  <2> QED BY <2>2 DEF q, r
<1>4. x >= 0 => x \div m >= 0
  OBVIOUS
<1> QED BY <1>1, <1>3, <1>4

\* Quotient and remainder are the only numbers that divide.
LEMMA Unique ==
  \A m \in Nat \ {0}, q, r \in Int : r \in 0..m - 1 => (q * m + r) \div m = q /\ (q * m + r) % m = r
<1> SUFFICES ASSUME NEW m \in Nat \ {0}, NEW q \in Int, NEW r \in 0..m - 1
             PROVE  (q * m + r) \div m = q /\ (q * m + r) % m = r
  OBVIOUS
<1> DEFINE x == q * m + r
           p == x \div m
           s == x % m
<1>0. x \in Int /\ x = q * m + r
  OBVIOUS
<1> HIDE DEF x
<1>1. p \in Int /\ s \in 0..m - 1 /\ x = p * m + s
  BY <1>0, Division
<1> HIDE DEF p, s
<1>2. (q - p) * m = s - r
  <2>1. q * m + r = p * m + s
    BY <1>0, <1>1
  <2>2. (q - p) * m = q * m - p * m
    BY <1>1
  <2>3. q * m \in Int /\ p * m \in Int /\ r \in Int /\ s \in Int
    BY <1>1
  <2> QED BY <2>1, <2>2, <2>3
<1>3. q = p
  <2> DEFINE k == q - p
  <2>1. k \in Int /\ k * m < m /\ k * m > -m
    BY <1>1, <1>2
  <2> HIDE DEF k
  <2>2. ~(k >= 1)
    <3> SUFFICES ASSUME k >= 1 PROVE FALSE
      OBVIOUS
    <3>1. (k - 1) * m >= 0
      BY <2>1
    <3>2. (k - 1) * m = k * m - m
      BY <2>1
    <3> QED BY <2>1, <3>1, <3>2
  <2>3. ~(k <= -1)
    <3> SUFFICES ASSUME k <= -1 PROVE FALSE
      OBVIOUS
    <3>1. (-1 - k) * m >= 0
      BY <2>1
    <3>2. (-1 - k) * m = -m - k * m
      BY <2>1
    <3> QED BY <2>1, <3>1, <3>2
  <2>4. k = 0
    BY <2>1, <2>2, <2>3
  <2> QED BY <1>1, <2>4 DEF k
<1>4. s = r
  <2>1. (q - p) * m = 0
    BY <1>1, <1>3
  <2>2. s - r = 0
    BY <1>2, <2>1
  <2>3. s \in Int /\ r \in Int
    BY <1>1
  <2> QED BY <2>2, <2>3
<1>5. x \div m = q /\ x % m = r
  BY <1>3, <1>4 DEF p, s
<1> QED BY <1>0, <1>5

-----------------------------------------------------------------------------
(* Execute: words *)

\* A word has twice as many values as its lower half, and they are powers of two.
LEMMA WordsDouble ==
  /\ Width \in Nat \ {0} /\ Size = 2 * Top /\ Top \in Nat \ {0} /\ Size \in Nat \ {0, 1}
  /\ \A k \in Nat : 2 ^ k \in Nat \ {0}
<1>1. \A k \in Nat : 2 ^ k \in Nat \ {0}
  BY PowerPositive
<1>2. Width \in Nat \ {0}
  BY <1>1, ExecuteAssumption
<1>3. 2 ^ (Width - 1 + 1) = 2 * 2 ^ (Width - 1)
  <2>1. Width - 1 \in Nat
    BY <1>2
  <2> QED BY <2>1, PowerStep
<1>4. Width - 1 + 1 = Width
  BY <1>2
<1>5. Size = 2 * Top /\ Top \in Nat \ {0}
  BY <1>1, <1>2, <1>3, <1>4 DEF Size, Top
<1> QED BY <1>1, <1>2, <1>5

\* Wrapping gives a word and leaves words alone.
LEMMA WrapWord ==
  /\ \A x \in Int : Wrap(x) \in Word
  /\ \A x \in Word : Wrap(x) = x /\ Signed(x) \in Int /\ x \in Nat
<1> Size \in Nat \ {0}
  BY WordsDouble
<1>1. \A x \in Int : x % Size \in 0..Size - 1
  BY Division
<1>2. \A x \in 0..Size - 1 : x % Size = x
  <2> TAKE x \in 0..Size - 1
  <2>1. (0 * Size + x) % Size = x
    BY Unique
  <2>2. 0 * Size + x = x
    OBVIOUS
  <2> QED BY <2>1, <2>2
<1> QED BY <1>1, <1>2 DEF Wrap, Word, Signed

\* A multiple of the modulus changes nothing.
LEMMA ModMultiple ==
  \A m \in Nat \ {0}, x, k \in Int : (x + k * m) % m = x % m
<1> SUFFICES ASSUME NEW m \in Nat \ {0}, NEW x \in Int, NEW k \in Int
             PROVE  (x + k * m) % m = x % m
  OBVIOUS
<1> DEFINE q == x \div m
           r == x % m
<1>1. q \in Int /\ r \in 0..m - 1 /\ x = q * m + r
  BY Division
<1> HIDE DEF q, r
<1>2. x + k * m = (q + k) * m + r
  <2>1. (q + k) * m = q * m + k * m
    BY <1>1
  <2>2. q * m \in Int /\ k * m \in Int /\ r \in Int
    BY <1>1
  <2> QED BY <1>1, <2>1, <2>2
<1>3. ((q + k) * m + r) % m = r
  <2> DEFINE p == q + k
  <2>1. p \in Int /\ r \in Int /\ r \in 0..m - 1
    BY <1>1
  <2> HIDE DEF p
  <2>2. (p * m + r) % m = r
    BY <2>1, Unique
  <2> QED BY <2>2 DEF p
<1> QED BY <1>2, <1>3 DEF r

\* It does not matter whether a summand was wrapped before the sum is.
LEMMA WrapSum == \A x, y \in Int : Wrap(x + (y % Size)) = Wrap(x + y)
<1> SUFFICES ASSUME NEW x \in Int, NEW y \in Int PROVE Wrap(x + (y % Size)) = Wrap(x + y)
  OBVIOUS
<1>1. Size \in Nat \ {0}
  BY WordsDouble
<1> DEFINE q == y \div Size
           r == y % Size
<1>2. q \in Int /\ r \in Int /\ y = q * Size + r
  BY <1>1, Division
<1> HIDE DEF q, r
<1>3. x + y = (x + r) + q * Size
  BY <1>1, <1>2
<1>4. ((x + r) + q * Size) % Size = (x + r) % Size
  <2> DEFINE p == x + r
  <2>1. p \in Int
    BY <1>2
  <2> HIDE DEF p
  <2>2. (p + q * Size) % Size = p % Size
    BY <1>1, <1>2, <2>1, ModMultiple
  <2> QED BY <2>2 DEF p
<1> QED BY <1>3, <1>4 DEF Wrap, r

\* The lower and the upper half of a product of two words.
LEMMA Halves ==
  \A x \in Int : /\ (x % (Size * Size)) % Size = x % Size
                 /\ (x % (Size * Size)) \div Size = (x \div Size) % Size
<1> SUFFICES ASSUME NEW x \in Int
             PROVE  /\ (x % (Size * Size)) % Size = x % Size
                    /\ (x % (Size * Size)) \div Size = (x \div Size) % Size
  OBVIOUS
<1> DEFINE m == Size
           q == x \div m
           r == x % m
           p == q \div m
           t == q % m
<1>1. m \in Nat \ {0}
  BY WordsDouble
<1>2. q \in Int /\ r \in 0..m - 1 /\ x = q * m + r
  BY <1>1, Division
<1>3. p \in Int /\ t \in 0..m - 1 /\ q = p * m + t
  BY <1>1, <1>2, Division
<1>4. x % m = r /\ q % m = t /\ q = x \div m
  OBVIOUS
<1> HIDE DEF m, q, r, p, t
<1>5. m * m \in Nat \ {0} /\ t * m + r \in 0..m * m - 1
  <2>1. m * m \in Nat \ {0}
    BY <1>1
  <2>2. t * m >= 0 /\ t * m \in Int
    BY <1>1, <1>3
  <2>3. (m - 1 - t) * m >= 0
    BY <1>1, <1>3
  <2>4. (m - 1 - t) * m = m * m - m - t * m
    BY <1>1, <1>3
  <2> QED BY <1>1, <1>2, <2>1, <2>2, <2>3, <2>4
<1>6. x = p * (m * m) + (t * m + r)
  <2>1. (p * m + t) * m = p * (m * m) + t * m
    BY <1>1, <1>3
  <2>2. p * (m * m) \in Int /\ t * m \in Int /\ r \in Int
    BY <1>1, <1>2, <1>3
  <2> QED BY <1>2, <1>3, <2>1, <2>2
<1>7. x % (m * m) = t * m + r
  BY <1>2, <1>3, <1>5, <1>6, Unique
<1>8. (t * m + r) % m = r /\ (t * m + r) \div m = t
  BY <1>1, <1>2, <1>3, Unique
<1> QED BY <1>4, <1>7, <1>8 DEF m

\* A word as the number it stands for, with its sign.
LEMMA Signs ==
  \A w \in Word :
    /\ Signed(w) \in -Top..Top - 1
    /\ Signed(w) < 0 <=> w >= Top
    /\ Signed(w) = IF w >= Top THEN w - Size ELSE w
    /\ Absolute(w) = Magnitude(Signed(w)) /\ Absolute(w) \in 0..Top
    /\ w # 0 => Absolute(w) # 0
    /\ Absolute(w) = Top => w = Top
<1> SUFFICES ASSUME NEW w \in Word
             PROVE  /\ Signed(w) \in -Top..Top - 1
                    /\ Signed(w) < 0 <=> w >= Top
                    /\ Signed(w) = IF w >= Top THEN w - Size ELSE w
                    /\ Absolute(w) = Magnitude(Signed(w)) /\ Absolute(w) \in 0..Top
                    /\ w # 0 => Absolute(w) # 0
                    /\ Absolute(w) = Top => w = Top
  OBVIOUS
<1>1. Size = 2 * Top /\ Top \in Nat \ {0} /\ Size \in Nat \ {0} /\ w \in Nat /\ w < Size
  BY WordsDouble DEF Word
<1>2. Signed(w) = IF w >= Top THEN w - Size ELSE w
  BY DEF Signed
<1>3. CASE w >= Top
  <2>1. Size - w \in Word
    BY <1>1, <1>3 DEF Word
  <2>2. Wrap(-w) = Size - w
    <3>1. (-1) * Size + (Size - w) = -w
      BY <1>1
    <3>2. Size - w \in 0..Size - 1 /\ Size - w \in Int
      BY <1>1, <1>3
    <3>3. ((-1) * Size + (Size - w)) % Size = Size - w
      <4> DEFINE m == Size
                 r == Size - w
      <4>1. m \in Nat \ {0} /\ r \in Int /\ r \in 0..m - 1 /\ -1 \in Int
        BY <1>1, <3>2
      <4> HIDE DEF m, r
      <4>2. ((-1) * m + r) % m = r
        BY <4>1, Unique
      <4> QED BY <4>2 DEF m, r
    <3> QED BY <3>1, <3>3 DEF Wrap
  <2>3. Absolute(w) = Size - w
    BY <1>3, <2>2 DEF Absolute
  <2> QED BY <1>1, <1>2, <1>3, <2>3 DEF Magnitude
<1>4. CASE w < Top
  BY <1>1, <1>2, <1>4 DEF Absolute, Magnitude
<1> QED BY <1>1, <1>3, <1>4

\* Widened to two words, a signed number differs from itself by a multiple of
\* their modulus, and so does a product.
LEMMA Widened ==
  \A w \in Word : \E e \in 0..1 : Extend(w) = Signed(w) + e * (Size * Size)
<1> TAKE w \in Word
<1>1. Size \in Nat \ {0} /\ w \in Nat
  BY WordsDouble DEF Word
<1>2. Size * (Size - 1) = Size * Size - Size
  BY <1>1
<1>3. Size * Size \in Int
  BY <1>1
<1>4. CASE w >= Top
  <2>1. Extend(w) = Signed(w) + 1 * (Size * Size)
    BY <1>1, <1>2, <1>3, <1>4 DEF Extend, Signed
  <2> QED BY <2>1
<1>5. CASE ~(w >= Top)
  <2>1. Extend(w) = Signed(w) + 0 * (Size * Size)
    BY <1>1, <1>3, <1>5 DEF Extend, Signed
  <2> QED BY <2>1
<1> QED BY <1>4, <1>5

\* Factors may be replaced by numbers that are the same modulo m.
LEMMA Product ==
  \A m \in Nat \ {0}, x, y, d, e \in Int :
    ((x + d * m) * (y + e * m)) % m = (x * y) % m
<1> SUFFICES ASSUME NEW m \in Nat \ {0}, NEW x \in Int, NEW y \in Int, NEW d \in Int, NEW e \in Int
             PROVE  ((x + d * m) * (y + e * m)) % m = (x * y) % m
  OBVIOUS
<1> DEFINE k == x * e + d * y + d * e * m
           z == x * y
<1>1. k \in Int /\ z \in Int
  OBVIOUS
<1>2. (x + d * m) * (y + e * m) = z + k * m
  OBVIOUS
<1> HIDE DEF k
<1>3. (z + k * m) % m = z % m
  <2> HIDE DEF z
  <2> QED BY <1>1, ModMultiple
<1> QED BY <1>2, <1>3

\* The 64-bit products of the ALU are the products of the signed or unsigned
\* factors, modulo the square of the size of a word.
LEMMA Widths64 ==
  \A a, b \in Word :
    /\ result_64(0, a, b) = (Signed(a) * Signed(b)) % (Size * Size)
    /\ result_64(1, a, b) = (Signed(a) * Signed(b)) % (Size * Size)
    /\ result_64(2, a, b) = (Signed(a) * b) % (Size * Size)
    /\ result_64(3, a, b) = (a * b) % (Size * Size)
<1> TAKE a, b \in Word
<1> DEFINE m == Size * Size
<1>1. m \in Nat \ {0}
  BY WordsDouble
<1>2. Signed(a) \in Int /\ Signed(b) \in Int /\ b \in Int /\ a \in Int
  BY Signs, WrapWord
<1>3. PICK d \in 0..1 : Extend(a) = Signed(a) + d * m
  BY Widened
<1>4. PICK e \in 0..1 : Extend(b) = Signed(b) + e * m
  BY Widened
<1> HIDE DEF m
<1>5. (Extend(a) * Extend(b)) % m = (Signed(a) * Signed(b)) % m
  <2> DEFINE x == Signed(a)
             y == Signed(b)
  <2>1. x \in Int /\ y \in Int /\ d \in Int /\ e \in Int
    BY <1>2
  <2> HIDE DEF x, y
  <2>2. \A u, v, f, g \in Int : ((u + f * m) * (v + g * m)) % m = (u * v) % m
    BY <1>1, Product, Zenon
  <2>3. \A f, g \in Int : ((x + f * m) * (y + g * m)) % m = (x * y) % m
    BY <2>1, <2>2, Zenon
  <2>4. ((x + d * m) * (y + e * m)) % m = (x * y) % m
    BY <2>1, <2>3, Zenon
  <2> QED BY <1>3, <1>4, <2>4 DEF x, y
<1>6. (Extend(a) * b) % m = (Signed(a) * b) % m
  <2> DEFINE x == Signed(a)
  <2>1. x \in Int /\ d \in Int /\ b \in Int /\ 0 \in Int
    BY <1>2
  <2> HIDE DEF x
  <2>2. \A u, v, f, g \in Int : ((u + f * m) * (v + g * m)) % m = (u * v) % m
    BY <1>1, Product, Zenon
  <2>3. \A f, g \in Int : ((x + f * m) * (b + g * m)) % m = (x * b) % m
    BY <2>1, <2>2, Zenon
  <2>4. ((x + d * m) * (b + 0 * m)) % m = (x * b) % m
    BY <2>1, <2>3, Zenon
  <2>5. b + 0 * m = b
    BY <1>1, <2>1
  <2> QED BY <1>3, <2>4, <2>5 DEF x
<1> QED BY <1>5, <1>6 DEF m, result_64

\* MUL, MULH, MULHSU and MULHU
LEMMA Multiplied ==
  ASSUME NEW a \in Word, NEW b \in Word
  PROVE  /\ Wrap(result_64(0, a, b)) = Wrap(Signed(a) * Signed(b))
         /\ result_64(1, a, b) \div Size = Wrap((Signed(a) * Signed(b)) \div Size)
         /\ result_64(2, a, b) \div Size = Wrap((Signed(a) * b) \div Size)
         /\ result_64(3, a, b) \div Size = (a * b) \div Size
         /\ (a * b) \div Size \in Word
<1>1. Signed(a) \in Int /\ Signed(b) \in Int /\ b \in Int /\ a \in Int
  BY Signs, WrapWord
<1>2. Signed(a) * Signed(b) \in Int /\ Signed(a) * b \in Int /\ a * b \in Int
  BY <1>1
<1>3. \A x \in Int : (x % (Size * Size)) \div Size = Wrap(x \div Size)
  BY Halves DEF Wrap
<1>4. \A x \in Int : Wrap(x % (Size * Size)) = Wrap(x)
  BY Halves DEF Wrap
<1>5. (a * b) \div Size \in Word
  <2> DEFINE m == Size
             q == (a * b) \div m
             r == (a * b) % m
  <2>1. m \in Nat \ {0} /\ a \in 0..m - 1 /\ b \in 0..m - 1
    BY WordsDouble DEF Word
  <2>2. q \in Int /\ r \in 0..m - 1 /\ a * b = q * m + r /\ a * b >= 0
    BY <1>2, <2>1, Division
  <2>3. q >= 0
    BY <1>2, <2>1, <2>2, Division
  <2>4. a * b < m * m
    <3>1. a * b <= a * m
      BY <2>1
    <3>2. (m - 1 - a) * m >= 0
      BY <2>1
    <3>3. (m - 1 - a) * m = m * m - m - a * m
      BY <2>1
    <3>4. a * m \in Int /\ m * m \in Int /\ a * b \in Int
      BY <2>1
    <3> QED BY <2>1, <3>1, <3>2, <3>3, <3>4
  <2> HIDE DEF m, q, r
  <2>5. q < m
    <3> SUFFICES ASSUME q >= m PROVE FALSE
      BY <2>1, <2>2
    <3>1. (q - m) * m >= 0
      BY <2>1, <2>2
    <3>2. (q - m) * m = q * m - m * m
      BY <2>1, <2>2
    <3>3. q * m \in Int /\ m * m \in Int /\ a * b \in Int /\ r \in Int /\ r >= 0
      BY <1>2, <2>1, <2>2
    <3> QED BY <2>2, <2>4, <3>1, <3>2, <3>3
  <2> QED BY <2>1, <2>2, <2>3, <2>5 DEF Word, m, q
<1> QED BY <1>2, <1>3, <1>4, <1>5, Widths64, WrapWord

\* A quotient of numbers does not leave their range.
LEMMA QuotientRange ==
  \A x \in Nat, y \in Nat \ {0} :
    x \div y \in 0..x /\ x % y \in 0..y - 1 /\ x % y <= x /\ x = y * (x \div y) + (x % y)
<1> TAKE x \in Nat, y \in Nat \ {0}
<1> DEFINE q == x \div y
           r == x % y
<1>1. q \in Int /\ r \in 0..y - 1 /\ x = q * y + r /\ q >= 0
  <2>1. x \in Int /\ x >= 0
    OBVIOUS
  <2>2. q \in Int /\ r \in 0..y - 1 /\ x = q * y + r
    BY <2>1, Division
  <2>3. q >= 0
    BY <2>1, Division
  <2> QED BY <2>2, <2>3
<1> HIDE DEF q, r
<1>2. q * y >= q /\ q * y \in Int /\ q * y = y * q
  <2>1. q * (y - 1) >= 0
    BY <1>1
  <2>2. q * (y - 1) = q * y - q
    BY <1>1
  <2> QED BY <1>1, <2>1, <2>2
<1>3. q <= x /\ r <= x /\ x = y * q + r
  BY <1>1, <1>2
<1> QED BY <1>1, <1>3 DEF q, r

\* DIV and REM of a divisor other than 0: what the ALU makes of the magnitudes is
\* what C's division makes of the signed numbers, the one overflow included.
LEMMA SignedDivision ==
  ASSUME NEW a \in Word, NEW b \in Word, b # 0
  PROVE  /\ Divided(4, a, b) = (IF a = Top /\ b = Size - 1 THEN Top
                                ELSE Wrap(Quotient(Signed(a), Signed(b))))
         /\ Divided(6, a, b) = (IF a = Top /\ b = Size - 1 THEN 0
                                ELSE Wrap(Signed(a) - Signed(b) * Quotient(Signed(a), Signed(b))))
         /\ Divided(4, a, b) \in Word /\ Divided(6, a, b) \in Word
<1> DEFINE x == Absolute(a)
           y == Absolute(b)
           q == x \div y
           r == x % y
<1>1. /\ Size = 2 * Top /\ Top \in Nat \ {0} /\ Size \in Nat \ {0}
      /\ x \in 0..Top /\ y \in 1..Top /\ x \in Nat /\ y \in Nat \ {0}
  BY Signs, WordsDouble
<1>2. /\ Signed(a) = IF a >= Top THEN -x ELSE x
      /\ Signed(b) = IF b >= Top THEN -y ELSE y
      /\ Signed(a) \in Int /\ Signed(b) \in Int
      /\ (Signed(a) < 0) = (a >= Top) /\ (Signed(b) < 0) = (b >= Top)
      /\ Magnitude(Signed(a)) = x /\ Magnitude(Signed(b)) = y
  <2>1. Magnitude(Signed(a)) = x /\ Magnitude(Signed(b)) = y
    BY Signs
  <2>2. /\ Signed(a) \in Int /\ Signed(b) \in Int
        /\ Signed(a) < 0 <=> a >= Top
        /\ Signed(b) < 0 <=> b >= Top
    BY Signs, <1>1
  <2>3. /\ Signed(a) = IF a >= Top THEN -x ELSE x
        /\ Signed(b) = IF b >= Top THEN -y ELSE y
    <3> HIDE DEF x, y
    <3>1. \A z \in Int : z = IF z < 0 THEN -Magnitude(z) ELSE Magnitude(z)
      BY DEF Magnitude
    <3> QED BY <2>1, <2>2, <3>1
  <2> QED BY <2>1, <2>2, <2>3
<1>3. q \in 0..x /\ r \in 0..y - 1 /\ r <= x /\ x = y * q + r
  BY <1>1, QuotientRange
<1>4. q \in Word /\ r \in Word /\ q \in Int /\ r \in Int
  <2> HIDE DEF q, r, x, y
  <2> QED BY <1>1, <1>3 DEF Word
<1>5. Quotient(Signed(a), Signed(b)) = IF (a >= Top) = (b >= Top) THEN q ELSE -q
  <2> HIDE DEF x, y
  <2> QED BY <1>2 DEF Quotient
<1>6. Signed(a) - Signed(b) * Quotient(Signed(a), Signed(b)) = IF a >= Top THEN -r ELSE r
  <2> HIDE DEF x, y, q, r
  <2>1. y * q \in Int /\ (-y) * q = -(y * q) /\ y * (-q) = -(y * q) /\ (-y) * (-q) = y * q
    BY <1>1, <1>4
  <2>2. CASE a >= Top /\ b >= Top
    BY <1>1, <1>2, <1>3, <1>4, <1>5, <2>1, <2>2
  <2>3. CASE a >= Top /\ ~(b >= Top)
    BY <1>1, <1>2, <1>3, <1>4, <1>5, <2>1, <2>3
  <2>4. CASE ~(a >= Top) /\ b >= Top
    BY <1>1, <1>2, <1>3, <1>4, <1>5, <2>1, <2>4
  <2>5. CASE ~(a >= Top) /\ ~(b >= Top)
    BY <1>1, <1>2, <1>3, <1>4, <1>5, <2>1, <2>5
  <2> QED BY <2>2, <2>3, <2>4, <2>5
<1>7. /\ Divided(4, a, b) = IF (a >= Top) = (b >= Top) THEN q ELSE Wrap(-q)
      /\ Divided(6, a, b) = IF a >= Top THEN Wrap(-r) ELSE r
  <2>1. CASE a >= Top /\ b >= Top
    BY <2>1 DEF Divided
  <2>2. CASE a >= Top /\ ~(b >= Top)
    BY <2>2 DEF Divided
  <2>3. CASE ~(a >= Top) /\ b >= Top
    BY <2>3 DEF Divided
  <2>4. CASE ~(a >= Top) /\ ~(b >= Top)
    BY <2>4 DEF Divided
  <2> QED BY <2>1, <2>2, <2>3, <2>4
<1>8. Wrap(q) = q /\ Wrap(r) = r /\ Wrap(-q) \in Word /\ Wrap(-r) \in Word
  <2> HIDE DEF q, r
  <2>1. -q \in Int /\ -r \in Int
    BY <1>4
  <2> QED BY <1>4, <2>1, WrapWord
<1>9. ASSUME a = Top, b = Size - 1 PROVE q = Top /\ r = 0 /\ Wrap(-r) = 0
  <2>1. x = Top /\ y = 1
    <3>1. Signed(a) = -Top /\ Signed(b) = -1
      BY <1>1, <1>9, Signs
    <3>2. x = Magnitude(-Top) /\ y = Magnitude(-1)
      BY <1>2, <3>1
    <3>3. Magnitude(-Top) = Top /\ Magnitude(-1) = 1
      <4>1. \A z \in Nat \ {0} : Magnitude(-z) = z
        BY DEF Magnitude
      <4> QED BY <1>1, <4>1
    <3> QED BY <3>2, <3>3
  <2> HIDE DEF x, y, q, r
  <2>2. r = 0
    BY <1>1, <1>3, <2>1
  <2>3. q = Top
    BY <1>1, <1>3, <1>4, <2>1, <2>2
  <2>4. Wrap(-r) = Wrap(0) /\ 0 \in Word
    BY <1>1, <2>2 DEF Word
  <2> QED BY <2>2, <2>3, <2>4, WrapWord
<1>10. a = Top /\ b = Size - 1 => a >= Top /\ b >= Top
  BY <1>1
<1> HIDE DEF x, y, q, r
<1> QED BY <1>4, <1>5, <1>6, <1>7, <1>8, <1>9, <1>10

\* Bit k of a number and of the number with a bit above it
LEMMA HigherBit ==
  \A n, k \in Nat, w \in Nat : k < n => ((w + 2 ^ n) \div 2 ^ k) % 2 = (w \div 2 ^ k) % 2
<1> SUFFICES ASSUME NEW n \in Nat, NEW k \in Nat, NEW w \in Nat, k < n
             PROVE  ((w + 2 ^ n) \div 2 ^ k) % 2 = (w \div 2 ^ k) % 2
  OBVIOUS
<1> DEFINE m == 2 ^ k
           h == 2 ^ (n - k - 1)
           x == w \div m
           y == w % m
<1>1. m \in Nat \ {0} /\ h \in Nat \ {0} /\ n - k - 1 \in Nat
  BY PowerPositive
<1>2. 2 ^ n = (2 * h) * m
  <2>1. 2 ^ (n - k - 1 + 1) = 2 * h
    BY <1>1, PowerStep
  <2>2. n - k - 1 + 1 = n - k /\ n - k \in Nat /\ (n - k) + k = n
    OBVIOUS
  <2>3. 2 ^ (n - k) = 2 * h
    BY <2>1, <2>2
  <2>4. 2 ^ ((n - k) + k) = 2 ^ (n - k) * 2 ^ k
    BY <2>2, PowerSum
  <2> QED BY <2>2, <2>3, <2>4
<1>3. x \in Int /\ y \in 0..m - 1 /\ w = x * m + y
  <2>1. w \in Int
    OBVIOUS
  <2> QED BY <1>1, <2>1, Division
<1> HIDE DEF m, h, x, y
<1>4. w + 2 ^ n = (x + 2 * h) * m + y
  <2>1. (x + 2 * h) * m = x * m + (2 * h) * m
    BY <1>1, <1>3
  <2>2. x * m \in Int /\ (2 * h) * m \in Int /\ y \in Int
    BY <1>1, <1>3
  <2> QED BY <1>2, <1>3, <2>1, <2>2
<1>5. (w + 2 ^ n) \div m = x + h * 2
  <2> DEFINE z == x + 2 * h
  <2>1. z \in Int /\ z = x + h * 2 /\ y \in Int
    BY <1>1, <1>3
  <2> HIDE DEF z
  <2>2. (z * m + y) \div m = z
    BY <1>1, <1>3, <2>1, Unique
  <2> QED BY <1>4, <2>1, <2>2 DEF z
<1>6. (x + h * 2) % 2 = x % 2
  BY <1>1, <1>3, ModMultiple
<1> QED BY <1>5, <1>6 DEF m, x

\* Every set of bits is the bits of a word.
LEMMA WordOfBits ==
  \A n \in Nat : \A bits \in SUBSET (0..n - 1) : \E w \in 0..2 ^ n - 1 :
     \A k \in 0..n - 1 : (w \div 2 ^ k) % 2 = 1 <=> k \in bits
<1> DEFINE Full(n) == \A bits \in SUBSET (0..n - 1) : \E w \in 0..2 ^ n - 1 :
                     \A k \in 0..n - 1 : (w \div 2 ^ k) % 2 = 1 <=> k \in bits
           T == {n \in Nat : Full(n)}
<1>1. 0 \in T
  <2>1. Full(0)
    <3>1. 0 \in 0..2 ^ 0 - 1 /\ 0..0 - 1 = {}
      OBVIOUS
    <3> QED BY <3>1
  <2> QED BY <2>1
<1>2. ASSUME NEW n \in T PROVE n + 1 \in T
  <2>1. n \in Nat /\ Full(n)
    OBVIOUS
  <2>2. ASSUME NEW bits \in SUBSET (0..n)
        PROVE  \E w \in 0..2 ^ (n + 1) - 1 :
                 \A k \in 0..n : (w \div 2 ^ k) % 2 = 1 <=> k \in bits
    <3>1. bits \ {n} \in SUBSET (0..n - 1)
      BY <2>1
    <3>2. PICK w \in 0..2 ^ n - 1 :
            \A k \in 0..n - 1 : (w \div 2 ^ k) % 2 = 1 <=> k \in bits \ {n}
      BY <2>1, <3>1
    <3>3. 2 ^ n \in Nat \ {0} /\ 2 ^ (n + 1) = 2 * 2 ^ n /\ w \in Nat /\ w < 2 ^ n
      BY <2>1, PowerPositive, PowerStep
    <3>4. CASE n \notin bits
      <4>1. w \in 0..2 ^ (n + 1) - 1
        BY <3>3
      <4>2. w \div 2 ^ n = 0
        <5> DEFINE m == 2 ^ n
        <5>1. m \in Nat \ {0} /\ w \in 0..m - 1 /\ w \in Int
          BY <3>3
        <5> HIDE DEF m
        <5>2. (0 * m + w) \div m = 0
          BY <5>1, Unique
        <5>3. 0 * m + w = w
          BY <5>1
        <5> QED BY <5>2, <5>3 DEF m
      <4>3. ASSUME NEW k \in 0..n PROVE (w \div 2 ^ k) % 2 = 1 <=> k \in bits
        <5>1. CASE k = n
          <6>1. 0 % 2 # 1
            OBVIOUS
          <6> QED BY <3>4, <4>2, <5>1, <6>1
        <5>2. CASE k # n
          <6>1. k \in 0..n - 1
            BY <2>1, <5>2
          <6> QED BY <3>2, <5>2, <6>1
        <5> QED BY <5>1, <5>2
      <4> QED BY <4>1, <4>3
    <3>5. CASE n \in bits
      <4> DEFINE v == w + 2 ^ n
      <4>1. v \in 0..2 ^ (n + 1) - 1
        BY <3>3
      <4>2. v \div 2 ^ n = 1
        <5> DEFINE m == 2 ^ n
        <5>1. m \in Nat \ {0} /\ w \in 0..m - 1 /\ w \in Int
          BY <3>3
        <5> HIDE DEF m
        <5>2. (1 * m + w) \div m = 1
          BY <5>1, Unique
        <5>3. 1 * m + w = w + m
          BY <5>1
        <5> QED BY <5>2, <5>3 DEF m
      <4>3. ASSUME NEW k \in 0..n PROVE (v \div 2 ^ k) % 2 = 1 <=> k \in bits
        <5>1. CASE k = n
          <6>1. 1 % 2 = 1
            OBVIOUS
          <6> HIDE DEF v
          <6> QED BY <3>5, <4>2, <5>1, <6>1
        <5>2. CASE k # n
          <6>1. k \in 0..n - 1 /\ k \in Nat /\ k < n
            BY <2>1, <5>2
          <6>2. (v \div 2 ^ k) % 2 = (w \div 2 ^ k) % 2
            BY <2>1, <3>3, <6>1, HigherBit
          <6> HIDE DEF v
          <6> QED BY <3>2, <5>2, <6>1, <6>2
        <5> QED BY <5>1, <5>2
      <4> HIDE DEF v
      <4> QED BY <4>1, <4>3
    <3> QED BY <3>4, <3>5
  <2>3. 0..(n + 1) - 1 = 0..n
    BY <2>1
  <2>4. Full(n + 1)
    <3> SUFFICES ASSUME NEW bits \in SUBSET (0..(n + 1) - 1)
                 PROVE  \E w \in 0..2 ^ (n + 1) - 1 :
                          \A k \in 0..(n + 1) - 1 : (w \div 2 ^ k) % 2 = 1 <=> k \in bits
      OBVIOUS
    <3> QED BY <2>2, <2>3
  <2>5. n + 1 \in Nat
    BY <2>1
  <2> HIDE DEF Full
  <2> QED BY <2>4, <2>5
<1>3. T = Nat
  <2> HIDE DEF Full
  <2>1. T \subseteq Nat
    OBVIOUS
  <2> HIDE DEF T
  <2> QED BY <1>1, <1>2, <2>1, Induction
<1> QED BY <1>3

\* And, or and exclusive or of words are words.
LEMMA BitOperations ==
  \A a, b \in Word : And(a, b) \in Word /\ Or(a, b) \in Word /\ Xor(a, b) \in Word
<1>1. ASSUME NEW bits \in SUBSET (0..Width - 1) PROVE WithBits[bits] \in Word
  <2>1. Width \in Nat
    BY WordsDouble
  <2>2. PICK w \in 0..2 ^ Width - 1 :
          \A k \in 0..Width - 1 : (w \div 2 ^ k) % 2 = 1 <=> k \in bits
    BY <2>1, WordOfBits
  <2>3. w \in Word /\ Bits[w] = bits
    BY <2>2 DEF Word, Size, Bits
  <2>4. WithBits[bits] = CHOOSE v \in Word : Bits[v] = bits
    BY DEF WithBits
  <2> QED BY <2>3, <2>4
<1>2. \A w \in Word : Bits[w] \subseteq 0..Width - 1
  BY DEF Bits
<1> QED BY <1>1, <1>2 DEF And, Or, Xor

\* The operations of the ALU other than multiplication and division
LEMMA PlainOperations ==
  ASSUME NEW a \in Word, NEW b \in Word, NEW alt \in BOOLEAN, NEW f \in Funct
  PROVE  LET v == ALU([alt |-> alt, m |-> FALSE, f |-> f], a, b)
         IN  /\ f = 0 => v = Value(IF alt THEN "sub" ELSE "add", a, b)
             /\ f = 1 => v = Value("sll", a, b)
             /\ f = 2 => v = Value("slt", a, b)
             /\ f = 3 => v = Value("sltu", a, b)
             /\ f = 4 => v = Value("xor", a, b)
             /\ f = 5 => v = Value(IF alt THEN "sra" ELSE "srl", a, b)
             /\ f = 6 => v = Value("or", a, b)
             /\ f = 7 => v = Value("and", a, b)
             /\ v \in Word
<1> DEFINE shift == 2 ^ (b % Width)
           v == ALU([alt |-> alt, m |-> FALSE, f |-> f], a, b)
<1>1. /\ a \in Nat /\ a < Size /\ b \in Nat /\ b < Size /\ Signed(a) \in Int /\ Signed(b) \in Int
      /\ Size \in Nat \ {0, 1} /\ 0 \in Word /\ 1 \in Word
  BY WordsDouble, WrapWord DEF Word
<1>2. shift \in Nat \ {0}
  <2>1. b % Width \in 0..Width - 1 /\ Width \in Nat \ {0}
    BY <1>1, WordsDouble, Division
  <2>2. b % Width \in Nat
    BY <2>1
  <2> QED BY <2>2, PowerPositive
<1>3. a * shift \in Int /\ Signed(a) \div shift \in Int /\ a \div shift \in 0..a
  <2> HIDE DEF shift
  <2>1. a \div shift \in 0..a
    BY <1>1, <1>2, QuotientRange
  <2>2. Signed(a) \div shift \in Int
    BY <1>1, <1>2, Division
  <2> QED BY <1>1, <1>2, <2>1, <2>2
<1>4. \A c : Truth(c) \in Word
  BY <1>1 DEF Truth
<1>5. f = 0 => v = Value(IF alt THEN "sub" ELSE "add", a, b) /\ v \in Word
  <2> SUFFICES ASSUME f = 0 PROVE v = Value(IF alt THEN "sub" ELSE "add", a, b) /\ v \in Word
    OBVIOUS
  <2>1. v = IF alt THEN Wrap(a - b) ELSE Wrap(a + b)
    BY DEF ALU
  <2>2. Value("sub", a, b) = Wrap(a - b) /\ Value("add", a, b) = Wrap(a + b)
    BY DEF Value
  <2>3. Wrap(a - b) \in Word /\ Wrap(a + b) \in Word
    BY <1>1, WrapWord
  <2> QED BY <2>1, <2>2, <2>3
<1>6. f = 1 => v = Value("sll", a, b) /\ v \in Word
  <2> SUFFICES ASSUME f = 1 PROVE v = Value("sll", a, b) /\ v \in Word
    OBVIOUS
  <2>1. v = Wrap(a * shift)
    BY DEF ALU
  <2>2. Value("sll", a, b) = Wrap(a * shift)
    BY DEF Value
  <2> QED BY <1>3, <2>1, <2>2, WrapWord
<1>7. f = 2 => v = Value("slt", a, b) /\ v \in Word
  BY <1>4 DEF ALU, Value
<1>8. f = 3 => v = Value("sltu", a, b) /\ v \in Word
  BY <1>4 DEF ALU, Value
<1>9. f = 4 => v = Value("xor", a, b) /\ v \in Word
  BY BitOperations DEF ALU, Value
<1>10. f = 5 => v = Value(IF alt THEN "sra" ELSE "srl", a, b) /\ v \in Word
  <2> SUFFICES ASSUME f = 5 PROVE v = Value(IF alt THEN "sra" ELSE "srl", a, b) /\ v \in Word
    OBVIOUS
  <2>1. v = IF alt THEN Wrap(Signed(a) \div shift) ELSE a \div shift
    BY DEF ALU
  <2>2. Value("sra", a, b) = Wrap(Signed(a) \div shift) /\ Value("srl", a, b) = a \div shift
    BY DEF Value
  <2>3. Wrap(Signed(a) \div shift) \in Word
    BY <1>3, WrapWord
  <2>4. a \div shift \in Word
    <3> HIDE DEF shift
    <3> QED BY <1>1, <1>3 DEF Word
  <2> QED BY <2>1, <2>2, <2>3, <2>4
<1>11. f = 6 => v = Value("or", a, b) /\ v \in Word
  BY BitOperations DEF ALU, Value
<1>12. f = 7 => v = Value("and", a, b) /\ v \in Word
  BY BitOperations DEF ALU, Value
<1>13. f \in 0..7
  BY DEF Funct
<1> HIDE DEF v
<1>14. v \in Word
  BY <1>5, <1>6, <1>7, <1>8, <1>9, <1>10, <1>11, <1>12, <1>13
<1> QED BY <1>5, <1>6, <1>7, <1>8, <1>9, <1>10, <1>11, <1>12, <1>14 DEF v

\* Multiplications and divisions
LEMMA LongOperations ==
  ASSUME NEW a \in Word, NEW b \in Word, NEW alt \in BOOLEAN, NEW f \in Funct
  PROVE  LET v == ALU([alt |-> alt, m |-> TRUE, f |-> f], a, b)
         IN  /\ v = Value(RType[3][f + 1], a, b)
             /\ v \in Word
<1> DEFINE v == ALU([alt |-> alt, m |-> TRUE, f |-> f], a, b)
<1>1. /\ a \in Nat /\ a < Size /\ b \in Nat /\ b < Size /\ Signed(a) \in Int /\ Signed(b) \in Int
      /\ Size \in Nat \ {0, 1} /\ Size - 1 \in Word /\ 0 \in Word
  BY WordsDouble, WrapWord DEF Word
<1>2. Signed(a) * Signed(b) \in Int /\ Signed(a) * b \in Int
  BY <1>1
<1>3. (Signed(a) * Signed(b)) \div Size \in Int /\ (Signed(a) * b) \div Size \in Int
  BY <1>1, <1>2, Division
<1>4. CASE f = 0
  <2>1. v = Wrap(result_64(0, a, b))
    BY <1>4 DEF ALU
  <2>2. Value("mul", a, b) = Wrap(Signed(a) * Signed(b))
    BY DEF Value
  <2>3. RType[3][f + 1] = "mul"
    BY <1>4 DEF RType
  <2> QED BY <1>2, <2>1, <2>2, <2>3, Multiplied, WrapWord
<1>5. CASE f = 1
  <2>1. v = result_64(1, a, b) \div Size
    BY <1>5 DEF ALU
  <2>2. Value("mulh", a, b) = Wrap((Signed(a) * Signed(b)) \div Size)
    BY DEF Value
  <2>3. RType[3][f + 1] = "mulh"
    BY <1>5 DEF RType
  <2> QED BY <1>3, <2>1, <2>2, <2>3, Multiplied, WrapWord
<1>6. CASE f = 2
  <2>1. v = result_64(2, a, b) \div Size
    BY <1>6 DEF ALU
  <2>2. Value("mulhsu", a, b) = Wrap((Signed(a) * b) \div Size)
    BY DEF Value
  <2>3. RType[3][f + 1] = "mulhsu"
    BY <1>6 DEF RType
  <2> QED BY <1>3, <2>1, <2>2, <2>3, Multiplied, WrapWord
<1>7. CASE f = 3
  <2>1. v = result_64(3, a, b) \div Size
    BY <1>7 DEF ALU
  <2>2. Value("mulhu", a, b) = (a * b) \div Size
    BY DEF Value
  <2>3. RType[3][f + 1] = "mulhu"
    BY <1>7 DEF RType
  <2> QED BY <2>1, <2>2, <2>3, Multiplied
<1>8. CASE f = 4
  <2>1. v = IF b = 0 THEN Size - 1 ELSE Divided(4, a, b)
    BY <1>8 DEF ALU
  <2>2. Value("div", a, b) = IF a = Top /\ b = Size - 1 THEN Top
                             ELSE IF b # 0 THEN Wrap(Quotient(Signed(a), Signed(b))) ELSE Size - 1
    BY DEF Value
  <2>3. RType[3][f + 1] = "div"
    BY <1>8 DEF RType
  <2>4. b = Size - 1 => b # 0
    BY <1>1
  <2> QED BY <1>1, <2>1, <2>2, <2>3, <2>4, SignedDivision
<1>9. CASE f = 5
  <2>1. v = IF b = 0 THEN Size - 1 ELSE a \div b
    BY <1>9 DEF ALU, Divided
  <2>2. Value("divu", a, b) = IF b # 0 THEN a \div b ELSE Size - 1
    BY DEF Value
  <2>3. RType[3][f + 1] = "divu"
    BY <1>9 DEF RType
  <2>4. b # 0 => a \div b \in Word
    <3>1. b # 0 => a \div b \in 0..a
      BY <1>1, QuotientRange
    <3> QED BY <1>1, <3>1 DEF Word
  <2> QED BY <1>1, <2>1, <2>2, <2>3, <2>4
<1>10. CASE f = 6
  <2>1. v = IF b = 0 THEN a ELSE Divided(6, a, b)
    BY <1>10 DEF ALU
  <2>2. Value("rem", a, b) =
          IF a = Top /\ b = Size - 1 THEN 0
          ELSE IF b # 0 THEN Wrap(Signed(a) - Signed(b) * Quotient(Signed(a), Signed(b))) ELSE a
    BY DEF Value
  <2>3. RType[3][f + 1] = "rem"
    BY <1>10 DEF RType
  <2>4. b = Size - 1 => b # 0
    BY <1>1
  <2> QED BY <1>1, <2>1, <2>2, <2>3, <2>4, SignedDivision
<1>11. CASE f = 7
  <2>1. v = IF b = 0 THEN a ELSE a % b
    BY <1>11 DEF ALU, Divided
  <2>2. Value("remu", a, b) = IF b # 0 THEN a % b ELSE a
    BY DEF Value
  <2>3. RType[3][f + 1] = "remu"
    BY <1>11 DEF RType
  <2>4. b # 0 => a % b \in Word
    BY <1>1, QuotientRange DEF Word
  <2> QED BY <1>1, <2>1, <2>2, <2>3, <2>4
<1>12. f = 0 \/ f = 1 \/ f = 2 \/ f = 3 \/ f = 4 \/ f = 5 \/ f = 6 \/ f = 7
  BY DEF Funct
<1> QED BY <1>4, <1>5, <1>6, <1>7, <1>8, <1>9, <1>10, <1>11, <1>12

\* The registers, the pc and the CSR of processor and reference.
State == [regs : [0..2 -> Word], pc : Word, csr : Word]

\* The eight values of funct3, one by one.
LEMMA FunctCases ==
  \A f \in Funct : f = 0 \/ f = 1 \/ f = 2 \/ f = 3 \/ f = 4 \/ f = 5 \/ f = 6 \/ f = 7
BY DEF Funct

\* The fields of an instruction, as the operators of the ALU expect them.
LEMMA Fields ==
  ASSUME NEW i \in Inst
  PROVE  /\ i.funct3 \in Funct /\ i.b30 \in {0, 1} /\ i.b25 \in {0, 1} /\ i.rd \in 0..2 /\ i.imm \in Word
         /\ i.opcode \in Opcode
<1>1. /\ i.funct3 \in Funct /\ i.b30 \in 0..1 /\ i.b25 \in 0..1 /\ i.rd \in 0..2 /\ i.imm \in Imms
      /\ i.opcode \in Opcodes
  BY DEF Inst
<1>2. 0..1 = {0, 1}
  OBVIOUS
<1> QED BY <1>1, <1>2, ExecuteAssumption

\* An instruction with an immediate operand: the ALU computes what the reference
\* does for the same name, and it is a word.
LEMMA ImmediateComputed ==
  ASSUME NEW a \in Word, NEW b \in Word, NEW f \in Funct, NEW alt \in BOOLEAN, alt => f = 5,
         NEW name, name = IF alt THEN "sra" ELSE IType[f + 1]
  PROVE  LET v == ALU([alt |-> alt, m |-> FALSE, f |-> f], a, b)
         IN  v = Value(name, a, b) /\ v \in Word
<1>1. CASE alt = TRUE
  <2> DEFINE v == ALU([alt |-> TRUE, m |-> FALSE, f |-> f], a, b)
  <2>1. v \in Word /\ (f = 5 => v = Value("sra", a, b))
    BY PlainOperations, ZenonT(60)
  <2> QED BY <1>1, <2>1
<1>2. CASE alt = FALSE
  <2>1. name = IType[f + 1]
    BY <1>2
  <2> DEFINE v == ALU([alt |-> FALSE, m |-> FALSE, f |-> f], a, b)
  <2>2. /\ f = 0 => v = Value("add", a, b)
        /\ f = 1 => v = Value("sll", a, b)
        /\ f = 2 => v = Value("slt", a, b)
        /\ f = 3 => v = Value("sltu", a, b)
        /\ f = 4 => v = Value("xor", a, b)
        /\ f = 5 => v = Value("srl", a, b)
        /\ f = 6 => v = Value("or", a, b)
        /\ f = 7 => v = Value("and", a, b)
        /\ v \in Word
    BY PlainOperations, ZenonT(60)
  <2> HIDE DEF v
  <2>3. ASSUME f = 0 PROVE v = Value(name, a, b)
    <3>1. name = "add"
      BY <2>1, <2>3 DEF IType
    <3> QED BY <2>2, <2>3, <3>1
  <2>4. ASSUME f = 1 PROVE v = Value(name, a, b)
    <3>1. name = "sll"
      BY <2>1, <2>4 DEF IType
    <3> QED BY <2>2, <2>4, <3>1
  <2>5. ASSUME f = 2 PROVE v = Value(name, a, b)
    <3>1. name = "slt"
      BY <2>1, <2>5 DEF IType
    <3> QED BY <2>2, <2>5, <3>1
  <2>6. ASSUME f = 3 PROVE v = Value(name, a, b)
    <3>1. name = "sltu"
      BY <2>1, <2>6 DEF IType
    <3> QED BY <2>2, <2>6, <3>1
  <2>7. ASSUME f = 4 PROVE v = Value(name, a, b)
    <3>1. name = "xor"
      BY <2>1, <2>7 DEF IType
    <3> QED BY <2>2, <2>7, <3>1
  <2>8. ASSUME f = 5 PROVE v = Value(name, a, b)
    <3>1. name = "srl"
      BY <2>1, <2>8 DEF IType
    <3> QED BY <2>2, <2>8, <3>1
  <2>9. ASSUME f = 6 PROVE v = Value(name, a, b)
    <3>1. name = "or"
      BY <2>1, <2>9 DEF IType
    <3> QED BY <2>2, <2>9, <3>1
  <2>10. ASSUME f = 7 PROVE v = Value(name, a, b)
    <3>1. name = "and"
      BY <2>1, <2>10 DEF IType
    <3> QED BY <2>2, <2>10, <3>1
  <2>11. v = Value(name, a, b)
    BY FunctCases, <2>3, <2>4, <2>5, <2>6, <2>7, <2>8, <2>9, <2>10
  <2> QED BY <1>2, <2>2, <2>11 DEF v
<1> QED BY <1>1, <1>2

\* The same for two registers, with multiplication and division.
LEMMA RegisterComputed ==
  ASSUME NEW a \in Word, NEW b \in Word, NEW f \in Funct, NEW alt \in BOOLEAN, NEW m \in BOOLEAN,
         ~(alt /\ m), NEW name, name # "inv",
         name = IF m THEN RType[3][f + 1] ELSE IF alt THEN RType[2][f + 1] ELSE RType[1][f + 1]
  PROVE  LET v == ALU([alt |-> alt, m |-> m, f |-> f], a, b)
         IN  v = Value(name, a, b) /\ v \in Word
<1>1. CASE m = TRUE
  <2>1. name = RType[3][f + 1] /\ alt = FALSE
    BY <1>1
  <2> DEFINE v == ALU([alt |-> FALSE, m |-> TRUE, f |-> f], a, b)
  <2>2. v \in Word /\ v = Value(RType[3][f + 1], a, b)
    BY LongOperations
  <2> QED BY <1>1, <2>1, <2>2
<1>2. CASE m = FALSE /\ alt = FALSE
  <2>1. name = RType[1][f + 1]
    BY <1>2
  <2> DEFINE v == ALU([alt |-> FALSE, m |-> FALSE, f |-> f], a, b)
  <2>2. /\ f = 0 => v = Value("add", a, b)
        /\ f = 1 => v = Value("sll", a, b)
        /\ f = 2 => v = Value("slt", a, b)
        /\ f = 3 => v = Value("sltu", a, b)
        /\ f = 4 => v = Value("xor", a, b)
        /\ f = 5 => v = Value("srl", a, b)
        /\ f = 6 => v = Value("or", a, b)
        /\ f = 7 => v = Value("and", a, b)
        /\ v \in Word
    BY PlainOperations, ZenonT(60)
  <2> HIDE DEF v
  <2>3. ASSUME f = 0 PROVE v = Value(name, a, b)
    <3>1. name = "add"
      BY <2>1, <2>3 DEF RType
    <3> QED BY <2>2, <2>3, <3>1
  <2>4. ASSUME f = 1 PROVE v = Value(name, a, b)
    <3>1. name = "sll"
      BY <2>1, <2>4 DEF RType
    <3> QED BY <2>2, <2>4, <3>1
  <2>5. ASSUME f = 2 PROVE v = Value(name, a, b)
    <3>1. name = "slt"
      BY <2>1, <2>5 DEF RType
    <3> QED BY <2>2, <2>5, <3>1
  <2>6. ASSUME f = 3 PROVE v = Value(name, a, b)
    <3>1. name = "sltu"
      BY <2>1, <2>6 DEF RType
    <3> QED BY <2>2, <2>6, <3>1
  <2>7. ASSUME f = 4 PROVE v = Value(name, a, b)
    <3>1. name = "xor"
      BY <2>1, <2>7 DEF RType
    <3> QED BY <2>2, <2>7, <3>1
  <2>8. ASSUME f = 5 PROVE v = Value(name, a, b)
    <3>1. name = "srl"
      BY <2>1, <2>8 DEF RType
    <3> QED BY <2>2, <2>8, <3>1
  <2>9. ASSUME f = 6 PROVE v = Value(name, a, b)
    <3>1. name = "or"
      BY <2>1, <2>9 DEF RType
    <3> QED BY <2>2, <2>9, <3>1
  <2>10. ASSUME f = 7 PROVE v = Value(name, a, b)
    <3>1. name = "and"
      BY <2>1, <2>10 DEF RType
    <3> QED BY <2>2, <2>10, <3>1
  <2>11. v = Value(name, a, b)
    BY FunctCases, <2>3, <2>4, <2>5, <2>6, <2>7, <2>8, <2>9, <2>10
  <2> QED BY <1>2, <2>2, <2>11 DEF v
<1>3. CASE m = FALSE /\ alt = TRUE
  <2>1. name = RType[2][f + 1]
    BY <1>3
  <2>2. f # 1
    BY <2>1 DEF RType
  <2>3. f # 2
    BY <2>1 DEF RType
  <2>4. f # 3
    BY <2>1 DEF RType
  <2>5. f # 4
    BY <2>1 DEF RType
  <2>6. f # 6
    BY <2>1 DEF RType
  <2>7. f # 7
    BY <2>1 DEF RType
  <2> DEFINE v == ALU([alt |-> TRUE, m |-> FALSE, f |-> f], a, b)
  <2>8. /\ f = 0 => v = Value("sub", a, b)
        /\ f = 5 => v = Value("sra", a, b)
        /\ v \in Word
    BY PlainOperations, ZenonT(60)
  <2> HIDE DEF v
  <2>9. CASE f = 0
    <3>1. name = "sub"
      BY <2>1, <2>9 DEF RType
    <3> QED BY <1>3, <2>8, <2>9, <3>1 DEF v
  <2>10. CASE f = 5
    <3>1. name = "sra"
      BY <2>1, <2>10 DEF RType
    <3> QED BY <1>3, <2>8, <2>10, <3>1 DEF v
  <2> QED BY FunctCases, <2>2, <2>3, <2>4, <2>5, <2>6, <2>7, <2>9, <2>10
<1> QED BY <1>1, <1>2, <1>3

\* What a computing instruction writes to its register.
LEMMA Computed ==
  ASSUME NEW a \in Word, NEW b \in Word, NEW i \in Inst, i.opcode \in {"op", "imm"}, Name(i) # "inv"
  PROVE  ALU(alu_op(i), a, b) = Value(Name(i), a, b) /\ Value(Name(i), a, b) \in Word
<1> DEFINE f == i.funct3
           b30 == i.b30
           b25 == i.b25
           name == Name(i)
<1>1. f \in Funct /\ b30 \in {0, 1} /\ b25 \in {0, 1} /\ name # "inv"
  BY Fields
<1>2. CASE i.opcode = "imm"
  <2> DEFINE alt == f = 5 /\ b30 = 1
             v == ALU([alt |-> alt, m |-> FALSE, f |-> f], a, b)
  <2>1. ALU(alu_op(i), a, b) = v
    BY <1>2 DEF alu_op
  <2>2. name = IF alt THEN "sra" ELSE IType[f + 1]
    BY <1>2 DEF Name
  <2>3. alt \in BOOLEAN /\ (alt => f = 5)
    OBVIOUS
  <2>4. v = Value(name, a, b) /\ v \in Word
    <3> HIDE DEF f, b30, name, alt
    <3> QED BY <1>1, <2>2, <2>3, ImmediateComputed
  <2> QED BY <2>1, <2>4
<1>3. CASE i.opcode = "op"
  <2> DEFINE alt == b30 = 1
             m == b25 = 1
             v == ALU([alt |-> alt, m |-> m, f |-> f], a, b)
  <2>1. ALU(alu_op(i), a, b) = v
    BY <1>3 DEF alu_op
  <2>2. name = IF alt /\ m THEN "inv" ELSE RType[1 + b30 + 2 * b25][f + 1]
    BY <1>3 DEF Name
  <2>3. alt \in BOOLEAN /\ m \in BOOLEAN /\ ~(alt /\ m)
    BY <1>1, <2>2
  <2>4. 1 + b30 + 2 * b25 = IF m THEN 3 ELSE IF alt THEN 2 ELSE 1
    <3> HIDE DEF b30, b25
    <3> QED BY <1>1, <2>3
  <2>5. name = IF m THEN RType[3][f + 1] ELSE IF alt THEN RType[2][f + 1] ELSE RType[1][f + 1]
    <3> HIDE DEF f, b30, b25, name, alt, m
    <3> QED BY <2>2, <2>3, <2>4
  <2>6. v = Value(name, a, b) /\ v \in Word
    <3> HIDE DEF f, name, alt, m
    <3> QED BY <1>1, <2>3, <2>5, RegisterComputed
  <2> QED BY <2>1, <2>6
<1> QED BY <1>2, <1>3

\* What the other instructions write is a sum.
LEMMA Summed ==
  ASSUME NEW a \in Int, NEW b \in Int, NEW i \in Inst, i.opcode \notin {"op", "imm"}
  PROVE  ALU(alu_op(i), a, b) = Wrap(a + b)
<1>1. alu_op(i) = [alt |-> FALSE, m |-> FALSE, f |-> 0]
  BY DEF alu_op
<1> QED BY <1>1 DEF ALU

\* A branch is taken by the processor when it is by the reference.
LEMMA BranchAgrees ==
  ASSUME NEW a, NEW b, NEW i \in Inst, i.opcode = "branch", Name(i) # "inv"
  PROVE  jump(i, a, b) = Taken(Name(i), a, b) /\ jump(i, a, b) \in BOOLEAN
<1> DEFINE f == i.funct3
           name == Name(i)
           j == jump(i, a, b)
<1>1. f \in Funct /\ name # "inv" /\ name = BType[f + 1]
  BY Fields DEF Name
<1>2. j = CASE f = 0 -> a = b [] f = 1 -> a # b
            [] f = 4 -> Signed(a) < Signed(b) [] f = 5 -> Signed(a) >= Signed(b)
            [] f = 6 -> a < b [] f = 7 -> a >= b [] OTHER -> FALSE
  BY DEF jump
<1> HIDE DEF f, name
<1>3. f = 0 \/ f = 1 \/ f = 4 \/ f = 5 \/ f = 6 \/ f = 7
  <2>1. f # 2
    BY <1>1 DEF BType
  <2>2. f # 3
    BY <1>1 DEF BType
  <2> QED BY <1>1, <2>1, <2>2, FunctCases
<1>4. CASE f = 0
  <2>1. name = "beq"
    BY <1>1, <1>4 DEF BType
  <2> QED BY <1>2, <1>4, <2>1 DEF Taken, name
<1>5. CASE f = 1
  <2>1. name = "bne"
    BY <1>1, <1>5 DEF BType
  <2> QED BY <1>2, <1>5, <2>1 DEF Taken, name
<1>6. CASE f = 4
  <2>1. name = "blt"
    BY <1>1, <1>6 DEF BType
  <2> QED BY <1>2, <1>6, <2>1 DEF Taken, name
<1>7. CASE f = 5
  <2>1. name = "bge"
    BY <1>1, <1>7 DEF BType
  <2> QED BY <1>2, <1>7, <2>1 DEF Taken, name
<1>8. CASE f = 6
  <2>1. name = "bltu"
    BY <1>1, <1>8 DEF BType
  <2> QED BY <1>2, <1>8, <2>1 DEF Taken, name
<1>9. CASE f = 7
  <2>1. name = "bgeu"
    BY <1>1, <1>9 DEF BType
  <2> QED BY <1>2, <1>9, <2>1 DEF Taken, name
<1> QED BY <1>3, <1>4, <1>5, <1>6, <1>7, <1>8, <1>9

\* Both write the same to a CSR.
LEMMA CsrAgrees ==
  ASSUME NEW s \in State, NEW i \in Inst, NEW w \in Word,
         w = IF i.funct3 >= 4 THEN i.imm ELSE s.regs[1]
  PROVE  /\ csr_wdata(i, s) = CASE i.funct3 % 4 = 1 -> w [] i.funct3 % 4 = 2 -> Or(w, s.csr)
                                [] OTHER -> And(Complement(w), s.csr)
         /\ csr_wdata(i, s) \in Word
<1> DEFINE k == i.funct3 % 4
<1>1. s.csr \in Word
  BY DEF State
<1>2. Complement(w) \in Word
  BY WordsDouble DEF Complement, Word
<1>3. Or(s.csr, w) = Or(w, s.csr) /\ And(s.csr, Complement(w)) = And(Complement(w), s.csr)
  <2>1. \A A, B : A \cup B = B \cup A /\ A \cap B = B \cap A
    OBVIOUS
  <2> QED BY <2>1 DEF Or, And
<1>4. Or(w, s.csr) \in Word /\ And(Complement(w), s.csr) \in Word
  BY <1>1, <1>2, BitOperations
<1>5. csr_wdata(i, s) = CASE k = 1 -> w [] k = 2 -> Or(s.csr, w) [] OTHER -> And(s.csr, Complement(w))
  BY DEF csr_wdata
<1> HIDE DEF k
<1>6. CASE k = 1
  BY <1>5, <1>6 DEF k
<1>7. CASE k = 2
  <2>1. csr_wdata(i, s) = Or(w, s.csr)
    BY <1>3, <1>5, <1>7
  <2> QED BY <1>4, <1>7, <2>1 DEF k
<1>8. CASE k # 1 /\ k # 2
  <2>1. csr_wdata(i, s) = And(Complement(w), s.csr)
    BY <1>3, <1>5, <1>8
  <2> QED BY <1>4, <1>8, <2>1 DEF k
<1> QED BY <1>6, <1>7, <1>8

\* One instruction has the same effect on both sides.
LEMMA StepAgrees ==
  ASSUME NEW s \in State, NEW i \in Inst, Name(i) # "inv", Encoded(i)
  PROVE  Processor(i, s) = Reference(i, s) /\ Reference(i, s) \in State
<1> DEFINE a == s.regs[1]
           b == s.regs[2]
           rd == i.rd
           R(v) == IF rd = 0 THEN s.regs ELSE [s.regs EXCEPT ![rd] = v]
           result == ALU(alu_op(i), alu_rs1(i, s), alu_rs2(i, s))
           regs == IF rf_we(i) THEN [s.regs EXCEPT ![rd] = result] ELSE s.regs
           snpc == Wrap(s.pc + 4)
           pcx == IF jump(i, a, b) THEN jump_target(i, s) ELSE snpc
           csrx == IF i.opcode = "system" THEN csr_wdata(i, s) ELSE s.csr
<1>1. /\ a \in Word /\ b \in Word /\ s.pc \in Word /\ s.csr \in Word /\ s.regs \in [0..2 -> Word]
      /\ s = [regs |-> s.regs, pc |-> s.pc, csr |-> s.csr]
  BY DEF State
<1>2. i.imm \in Word /\ rd \in 0..2 /\ i.opcode \in Opcode
  BY Fields
<1>3. Word \subseteq Int /\ Size \in Nat \ {0, 1}
  BY WordsDouble DEF Word
<1>4. snpc \in Word /\ Wrap(s.pc + i.imm) \in Word /\ Wrap(a + i.imm) \in Word
  BY <1>1, <1>2, <1>3, WrapWord
<1>5. \A v \in Word : R(v) \in [0..2 -> Word]
  BY <1>1, <1>2
<1>6. Processor(i, s) = [regs |-> regs, pc |-> pcx, csr |-> csrx]
  BY DEF Processor
<1>7. \A v \in Word : i.opcode # "branch" /\ result = v => regs = R(v)
  BY <1>2 DEF rf_we
<1>8. \A v \in [0..2 -> Word], p, c \in Word : [regs |-> v, pc |-> p, csr |-> c] \in State
  BY DEF State
<1>9. i.opcode \notin {"branch", "jal", "jalr"} => pcx = snpc
  BY DEF jump
<1>10. i.opcode \in {"jal", "jalr"} =>
          /\ pcx = Wrap((IF i.opcode = "jalr" THEN a ELSE s.pc) + i.imm)
          /\ result = snpc
  <2> SUFFICES ASSUME i.opcode \in {"jal", "jalr"}
               PROVE  /\ pcx = Wrap((IF i.opcode = "jalr" THEN a ELSE s.pc) + i.imm)
                      /\ result = snpc
    OBVIOUS
  <2>1. jump(i, a, b)
    BY DEF jump
  <2>2. alu_rs1(i, s) = s.pc /\ alu_rs2(i, s) = 4 % Size
    BY DEF alu_rs1, alu_rs2
  <2>3. 4 % Size \in Int
    BY <1>3, Division
  <2>4. ALU(alu_op(i), s.pc, 4 % Size) = Wrap(s.pc + (4 % Size))
    <3> HIDE DEF a, b, R, result, regs, snpc, pcx, csrx
    <3> QED BY <1>1, <1>3, <2>3, Summed
  <2>5. Wrap(s.pc + (4 % Size)) = Wrap(s.pc + 4)
    BY <1>1, <1>3, WrapSum
  <2> QED BY <2>1, <2>2, <2>4, <2>5 DEF jump_target
<1>11. CASE i.opcode \in {"op", "imm"}
  <2> DEFINE c == IF i.opcode = "op" THEN b ELSE i.imm
             v == Value(Name(i), a, c)
  <2>1. c \in Word /\ alu_rs1(i, s) = a /\ alu_rs2(i, s) = c
    BY <1>1, <1>2, <1>11 DEF alu_rs1, alu_rs2
  <2>2. result = v /\ v \in Word
    <3>1. ALU(alu_op(i), a, c) = Value(Name(i), a, c) /\ Value(Name(i), a, c) \in Word
      <4> HIDE DEF a, c
      <4> QED BY <1>1, <1>11, <2>1, Computed
    <3> QED BY <2>1, <3>1
  <2>3. Reference(i, s) = [s EXCEPT !.regs = R(v), !.pc = snpc]
    BY <1>11 DEF Reference
  <2>4. csrx = s.csr /\ pcx = snpc /\ regs = R(v)
    BY <1>7, <1>9, <1>11, <2>2
  <2> HIDE DEF a, b, v, R, snpc, pcx, csrx, regs
  <2>5. Reference(i, s) = [regs |-> R(v), pc |-> snpc, csr |-> s.csr]
    BY <1>1, <2>3
  <2> QED BY <1>1, <1>4, <1>5, <1>6, <1>8, <2>2, <2>4, <2>5
<1>12. CASE i.opcode = "branch"
  <2>1. jump(i, a, b) = Taken(Name(i), a, b) /\ jump(i, a, b) \in BOOLEAN
    <3> HIDE DEF a, b
    <3> QED BY <1>12, BranchAgrees
  <2>2. jump_target(i, s) = Wrap(s.pc + i.imm)
    BY <1>12 DEF jump_target
  <2>3. Reference(i, s) = [s EXCEPT !.pc = IF Taken(Name(i), a, b) THEN Wrap(s.pc + i.imm) ELSE snpc]
    BY <1>12 DEF Reference
  <2>4. csrx = s.csr /\ regs = s.regs
    BY <1>12 DEF rf_we
  <2>5. pcx = IF Taken(Name(i), a, b) THEN Wrap(s.pc + i.imm) ELSE snpc
    BY <2>1, <2>2
  <2>6. pcx \in Word
    BY <1>4, <2>5
  <2> HIDE DEF a, b, R, pcx, csrx, regs
  <2>7. Reference(i, s) = [regs |-> s.regs, pc |-> pcx, csr |-> s.csr]
    BY <1>1, <2>3, <2>5
  <2> QED BY <1>1, <1>6, <1>8, <2>4, <2>6, <2>7
<1>13. CASE i.opcode = "jal"
  <2>1. Reference(i, s) = [s EXCEPT !.regs = R(snpc), !.pc = Wrap(s.pc + i.imm)]
    BY <1>13 DEF Reference
  <2>2. csrx = s.csr /\ pcx = Wrap(s.pc + i.imm) /\ regs = R(snpc)
    BY <1>4, <1>7, <1>10, <1>13
  <2> HIDE DEF a, b, R, snpc, pcx, csrx, regs
  <2>3. Reference(i, s) = [regs |-> R(snpc), pc |-> pcx, csr |-> s.csr]
    BY <1>1, <2>1, <2>2
  <2> QED BY <1>1, <1>4, <1>5, <1>6, <1>8, <2>2, <2>3
<1>14. CASE i.opcode = "jalr"
  <2>1. Reference(i, s) = [s EXCEPT !.regs = R(snpc), !.pc = Wrap(a + i.imm)]
    BY <1>14 DEF Reference
  <2>2. csrx = s.csr /\ pcx = Wrap(a + i.imm) /\ regs = R(snpc)
    BY <1>4, <1>7, <1>10, <1>14
  <2> HIDE DEF a, b, R, snpc, pcx, csrx, regs
  <2>3. Reference(i, s) = [regs |-> R(snpc), pc |-> pcx, csr |-> s.csr]
    BY <1>1, <2>1, <2>2
  <2> QED BY <1>1, <1>4, <1>5, <1>6, <1>8, <2>2, <2>3
<1>15. CASE i.opcode = "lui"
  <2>1. Reference(i, s) = [s EXCEPT !.regs = R(i.imm), !.pc = snpc]
    BY <1>15 DEF Reference
  <2>2. result = i.imm
    <3>1. alu_rs1(i, s) = 0 /\ alu_rs2(i, s) = i.imm
      BY <1>15 DEF alu_rs1, alu_rs2
    <3> DEFINE m == i.imm
    <3>2. m \in Word /\ m \in Int
      BY <1>2, <1>3
    <3>3. ALU(alu_op(i), 0, m) = Wrap(0 + m) /\ Wrap(0 + m) = m
      <4> HIDE DEF m
      <4>1. ALU(alu_op(i), 0, m) = Wrap(0 + m)
        BY <1>15, <3>2, Summed
      <4>2. 0 + m = m /\ Wrap(m) = m
        BY <3>2, WrapWord
      <4> QED BY <4>1, <4>2
    <3> QED BY <3>1, <3>3
  <2>3. csrx = s.csr /\ pcx = snpc /\ regs = R(i.imm)
    BY <1>2, <1>7, <1>9, <1>15, <2>2
  <2> HIDE DEF a, b, R, snpc, pcx, csrx, regs
  <2>4. Reference(i, s) = [regs |-> R(i.imm), pc |-> pcx, csr |-> s.csr]
    BY <1>1, <2>1, <2>3
  <2> QED BY <1>1, <1>2, <1>4, <1>5, <1>6, <1>8, <2>3, <2>4
<1>16. CASE i.opcode = "auipc"
  <2> DEFINE v == Wrap(s.pc + i.imm)
  <2>1. Reference(i, s) = [s EXCEPT !.regs = R(v), !.pc = snpc]
    BY <1>16 DEF Reference
  <2>2. result = v
    <3>1. alu_rs1(i, s) = s.pc /\ alu_rs2(i, s) = i.imm
      BY <1>16 DEF alu_rs1, alu_rs2
    <3>2. ALU(alu_op(i), s.pc, i.imm) = Wrap(s.pc + i.imm)
      BY <1>1, <1>2, <1>3, <1>16, Summed
    <3> QED BY <3>1, <3>2
  <2>3. csrx = s.csr /\ pcx = snpc /\ regs = R(v)
    BY <1>4, <1>7, <1>9, <1>16, <2>2
  <2>4. v \in Word
    BY <1>4
  <2> HIDE DEF a, b, R, snpc, pcx, csrx, regs, v
  <2>5. Reference(i, s) = [regs |-> R(v), pc |-> pcx, csr |-> s.csr]
    BY <1>1, <2>1, <2>3
  <2> QED BY <1>1, <1>4, <1>5, <1>6, <1>8, <2>3, <2>4, <2>5
<1>17. CASE i.opcode = "system"
  <2> DEFINE w == IF i.funct3 >= 4 THEN i.imm ELSE a
             c == CASE i.funct3 % 4 = 1 -> w [] i.funct3 % 4 = 2 -> Or(w, s.csr)
                    [] OTHER -> And(Complement(w), s.csr)
  <2>1. Reference(i, s) = [regs |-> R(s.csr), pc |-> snpc, csr |-> c]
    BY <1>17 DEF Reference
  <2>2. result = s.csr
    <3>1. alu_rs1(i, s) = 0 /\ alu_rs2(i, s) = s.csr
      BY <1>17 DEF alu_rs1, alu_rs2
    <3>2. ALU(alu_op(i), 0, s.csr) = Wrap(0 + s.csr)
      BY <1>1, <1>3, <1>17, Summed
    <3>3. 0 + s.csr = s.csr /\ Wrap(s.csr) = s.csr
      BY <1>1, <1>3, WrapWord
    <3> QED BY <3>1, <3>2, <3>3
  <2>3. w \in Word
    BY <1>1, <1>2
  <2>4. csr_wdata(i, s) = c /\ csr_wdata(i, s) \in Word
    <3>1. w = IF i.funct3 >= 4 THEN i.imm ELSE s.regs[1]
      OBVIOUS
    <3> HIDE DEF w
    <3> QED BY <2>3, <3>1, CsrAgrees
  <2>5. csrx = c /\ pcx = snpc /\ regs = R(s.csr)
    BY <1>1, <1>7, <1>9, <1>17, <2>2, <2>4
  <2>6. c \in Word
    BY <2>4
  <2> HIDE DEF a, b, R, snpc, pcx, csrx, regs, c
  <2> QED BY <1>1, <1>4, <1>5, <1>6, <1>8, <2>1, <2>5, <2>6
<1> QED BY <1>2, <1>11, <1>12, <1>13, <1>14, <1>15, <1>16, <1>17 DEF Opcode

-----------------------------------------------------------------------------
(* Lanes *)

\* The lines, the memory and the registers hold bytes, and agree.
LanesTyped ==
  /\ lines \in [0..Words - 1 -> [0..3 -> 0..1]]
  /\ memory \in [L!Addr -> 0..1]
  /\ reg \in [0..3 -> 0..1]

LanesInv == LanesTyped /\ L!LanesAgree

\* An address is a word and a lane in it.
LEMMA InWords ==
  \A a \in Nat : /\ a \div 4 \in Nat /\ a % 4 \in 0..3 /\ a = 4 * (a \div 4) + (a % 4)
                 /\ \A w \in Nat : a < 4 * w => a \div 4 \in 0..w - 1
<1> TAKE a \in Nat
<1> DEFINE k == a \div 4
           o == a % 4
<1>1. k \in Int /\ k >= 0 /\ o \in 0..3 /\ a = k * 4 + o
  BY Division
<1>2. \A w \in Nat : a < 4 * w => k \in 0..w - 1
  <2> HIDE DEF k, o
  <2> SUFFICES ASSUME NEW w \in Nat, a < 4 * w PROVE k \in 0..w - 1
    OBVIOUS
  <2> QED BY <1>1
<1>3. a = 4 * k + o
  <2> HIDE DEF k, o
  <2> QED BY <1>1
<1> QED BY <1>1, <1>2, <1>3

\* An aligned datum does not leave its word.
LEMMA OffsetWithin ==
  ASSUME NEW a \in Nat, NEW len \in {1, 2, 4}, a % len = 0
  PROVE  (a % 4) + len <= 4
<1> DEFINE k == a \div 4
           o == a % 4
           h == a \div 2
<1>1. k \in Int /\ k >= 0 /\ o \in 0..3 /\ a = k * 4 + o
  BY Division
<1>2. h \in Int /\ a % 2 \in 0..1 /\ a = h * 2 + (a % 2)
  <2>1. 2 \in Nat \ {0}
    OBVIOUS
  <2>2. a \div 2 \in Int /\ a % 2 \in 0..2 - 1 /\ a = (a \div 2) * 2 + (a % 2)
    BY <2>1, Division
  <2> QED BY <2>2
<1>3. CASE len = 1
  BY <1>1, <1>3
<1>4. CASE len = 2
  <2>1. a = h * 2
    BY <1>2, <1>4
  <2> HIDE DEF k, o, h
  <2> QED BY <1>1, <1>2, <1>4, <2>1 DEF o
<1>5. CASE len = 4
  BY <1>1, <1>5
<1> QED BY <1>3, <1>4, <1>5

\* The bytes of the types that are loaded and stored.
LEMMA Lengths ==
  /\ L!Len("b") = 1 /\ L!Len("ub") = 1 /\ L!Len("h") = 2 /\ L!Len("uh") = 2 /\ L!Len("w") = 4
BY DEF L!Len

\* The lanes of an aligned datum are lanes of one word, and its bytes are in memory.
LEMMA LanesInside ==
  ASSUME NEW a \in L!Addr, NEW type \in L!LoadType, L!Allowed(type, a), Words \in Nat \ {0}
  PROVE  LET n == L!Len(type)
         IN  /\ n \in {1, 2, 4} /\ n \in 1..4
             /\ a \in Nat /\ a \div 4 \in 0..Words - 1 /\ a % 4 \in 0..3 /\ a = 4 * (a \div 4) + (a % 4)
             /\ (a % 4) + n <= 4
             /\ \A l \in 0..n - 1 : /\ a + l \in L!Addr /\ (a % 4) + l \in 0..3
                                    /\ (a + l) \div 4 = a \div 4 /\ (a + l) % 4 = (a % 4) + l
<1> DEFINE n == L!Len(type)
<1>1. n \in {1, 2, 4} /\ a \in Nat /\ a < 4 * Words /\ a + n - 1 < 4 * Words /\ a % n = 0
  BY Lengths DEF L!LoadType, L!Addr, L!Allowed
<1>2. a \div 4 \in 0..Words - 1 /\ a % 4 \in 0..3 /\ a = 4 * (a \div 4) + (a % 4)
  BY <1>1, InWords
<1>3. (a % 4) + n <= 4
  <2> HIDE DEF n
  <2> QED BY <1>1, OffsetWithin
<1>4. ASSUME NEW l \in 0..n - 1
      PROVE  /\ a + l \in L!Addr /\ (a % 4) + l \in 0..3
             /\ (a + l) \div 4 = a \div 4 /\ (a + l) % 4 = (a % 4) + l
  <2> HIDE DEF n
  <2>1. (a % 4) + l \in 0..3 /\ a + l = 4 * (a \div 4) + ((a % 4) + l)
    BY <1>1, <1>2, <1>3
  <2>2. (a + l) \div 4 = a \div 4 /\ (a + l) % 4 = (a % 4) + l
    BY <1>1, <2>1
  <2> QED BY <1>1, <2>1, <2>2 DEF L!Addr
<1> QED BY <1>1, <1>2, <1>3, <1>4

\* A load through the lanes delivers the bytes of memory, extended the same way.
LEMMA LoadAgrees ==
  ASSUME LanesInv, NEW a \in L!Addr, NEW type \in L!LoadType, L!Load(type, a), Words \in Nat \ {0}
  PROVE  LanesInv'
<1> DEFINE n == L!Len(type)
           k == a \div 4
           o == a % 4
           line == lines[k]
           shifted == [l \in 0..3 |-> IF l + o \in 0..3 THEN line[l + o] ELSE 0]
           sign == IF type \in {"b", "h"} THEN shifted[n - 1] ELSE 0
           read == [l \in 0..3 |-> IF l < n THEN shifted[l] ELSE sign]
           top == memory[a + n - 1]
           ref_read == [l \in 0..3 |-> IF l < n THEN memory[a + l]
                                       ELSE IF type \in {"b", "h"} THEN top ELSE 0]
<1>1. /\ n \in 1..4 /\ k \in 0..Words - 1 /\ o \in 0..3 /\ o + n <= 4 /\ a \in Nat
      /\ \A l \in 0..n - 1 : /\ a + l \in L!Addr /\ o + l \in 0..3
                             /\ (a + l) \div 4 = k /\ (a + l) % 4 = o + l
  BY LanesInside DEF L!Load
<1>2. reg' = read /\ ref_reg' = ref_read /\ lines' = lines /\ memory' = memory
  BY DEF L!Load, L!rdata, L!RefRead, L!Extended, L!ShiftDown, L!Lane
<1>3. \A b \in L!Addr : lines[b \div 4][b % 4] = memory[b]
  BY DEF LanesInv, L!LanesAgree
<1>4. line \in [0..3 -> 0..1]
  BY <1>1 DEF LanesInv, LanesTyped
<1> HIDE DEF n, k, o
<1>5. \A l \in 0..n - 1 : shifted[l] = memory[a + l]
  <2> TAKE l \in 0..n - 1
  <2>1. l \in 0..3 /\ l + o = o + l /\ l + o \in 0..3
    BY <1>1
  <2>2. lines[(a + l) \div 4][(a + l) % 4] = memory[a + l]
    BY <1>1, <1>3
  <2>3. lines[k][o + l] = memory[a + l]
    BY <1>1, <2>2
  <2> QED BY <2>1, <2>3
<1>6. sign = IF type \in {"b", "h"} THEN top ELSE 0
  <2>1. n - 1 \in 0..n - 1 /\ a + (n - 1) = a + n - 1
    BY <1>1
  <2>2. shifted[n - 1] = top
    BY <1>5, <2>1
  <2> QED BY <2>2
<1>7. shifted \in [0..3 -> 0..1]
  BY <1>1, <1>4
<1>8. sign \in 0..1
  <2>1. n - 1 \in 0..3
    BY <1>1
  <2> QED BY <1>7, <2>1
<1> HIDE DEF shifted, sign, top
<1>9. read = ref_read
  <2>1. ASSUME NEW l \in 0..3 PROVE read[l] = ref_read[l]
    <3>1. CASE l < n
      <4>1. l \in 0..n - 1
        BY <1>1, <3>1
      <4> QED BY <1>5, <3>1, <4>1
    <3>2. CASE ~(l < n)
      BY <1>6, <3>2
    <3> QED BY <3>1, <3>2
  <2> QED BY <2>1
<1>10. read \in [0..3 -> 0..1]
  BY <1>7, <1>8
<1> QED BY <1>2, <1>9, <1>10 DEF LanesInv, LanesTyped, L!LanesAgree

\* A store writes the strobed lanes, which are the bytes of the datum and no others.
LEMMA StoreAgrees ==
  ASSUME LanesInv, NEW a \in L!Addr, NEW type \in L!StoreType, L!Store(type, a), Words \in Nat \ {0}
  PROVE  LanesInv'
<1> DEFINE n == L!Len(type)
           k == a \div 4
           o == a % 4
           mask == L!wstrb(type, a)
           data == L!mem_wdata(type, a, reg)
           line == [l \in 0..3 |-> IF l \in mask THEN data[l] ELSE lines[k][l]]
<1>0. type \in L!LoadType
  BY DEF L!LoadType, L!StoreType
<1>1. /\ n \in {1, 2, 4} /\ n \in 1..4 /\ k \in 0..Words - 1 /\ o \in 0..3 /\ o + n <= 4 /\ a \in Nat
      /\ a = 4 * k + o
  BY <1>0, LanesInside DEF L!Store
<1>2. /\ lines' = [lines EXCEPT ![k] = line] /\ reg' = reg /\ ref_reg' = ref_reg
      /\ memory' = [b \in L!Addr |-> IF b \in a..a + n - 1 THEN ref_reg[b - a] ELSE memory[b]]
  BY DEF L!Store, L!Written, L!RefWritten, L!Lane
<1>3. /\ reg = ref_reg /\ reg \in [0..3 -> 0..1] /\ lines \in [0..Words - 1 -> [0..3 -> 0..1]]
      /\ memory \in [L!Addr -> 0..1] /\ \A b \in L!Addr : lines[b \div 4][b % 4] = memory[b]
  BY DEF LanesInv, LanesTyped, L!LanesAgree
<1>4. mask = o..o + n - 1
  <2>1. CASE type = "b"
    <3>1. n = 1
      BY <2>1, Lengths
    <3>2. mask = {o}
      BY <2>1 DEF L!wstrb
    <3> HIDE DEF mask, o, n
    <3> QED BY <1>1, <3>1, <3>2
  <2>2. CASE type = "h"
    <3>1. n = 2
      BY <2>2, Lengths
    <3>2. mask = {o, o + 1} \cap (0..3)
      <4>1. L!wstrb(type, a) = {a % 4, (a % 4) + 1} \cap L!Lane
        BY <2>2 DEF L!wstrb
      <4> QED BY <4>1 DEF L!Lane
    <3> HIDE DEF mask, o, n
    <3>3. o + 1 \in 0..3 /\ o \in 0..3 /\ o + n - 1 = o + 1
      BY <1>1, <3>1
    <3>4. {o, o + 1} \cap (0..3) = o..o + 1
      <4>1. o \in 0..3 /\ o + 1 \in 0..3
        BY <3>3
      <4>2. {o, o + 1} \cap (0..3) = {o, o + 1}
        BY <4>1
      <4>3. {o, o + 1} = o..o + 1
        BY <4>1
      <4> QED BY <4>2, <4>3
    <3> QED BY <3>2, <3>3, <3>4
  <2>3. CASE type = "w"
    <3>1. n = 4
      BY <2>3, Lengths
    <3>2. mask = 0..3
      BY <2>3 DEF L!wstrb, L!Lane
    <3> HIDE DEF mask, o, n
    <3> QED BY <1>1, <3>1, <3>2
  <2> QED BY <2>1, <2>2, <2>3 DEF L!StoreType
<1>5. \A l \in mask : data[l] = reg[l - o] /\ l \in 0..3 /\ l - o \in 0..n - 1
  <2> TAKE l \in mask
  <2>1. l \in 0..3 /\ l - o \in 0..n - 1 /\ l - o \in 0..3
    <3> HIDE DEF mask, o, n
    <3> QED BY <1>1, <1>4
  <2>2. CASE type = "w"
    <3>1. n = 4
      BY <2>2, Lengths
    <3>2. data = reg
      BY <2>2 DEF L!mem_wdata
    <3> HIDE DEF mask, o, n, data
    <3>3. o = 0
      BY <1>1, <3>1
    <3> QED BY <2>1, <3>2, <3>3
  <2>3. CASE type # "w"
    <3>1. data = [m \in 0..3 |-> IF m - o \in 0..3 THEN reg[m - o] ELSE 0]
      BY <2>3 DEF L!mem_wdata, L!ShiftUp, L!Lane
    <3> HIDE DEF mask, o, n, data
    <3> QED BY <2>1, <3>1
  <2> QED BY <2>2, <2>3
<1> HIDE DEF n, k, o, mask, data
<1>6. line \in [0..3 -> 0..1]
  <2>1. ASSUME NEW l \in 0..3 PROVE (IF l \in mask THEN data[l] ELSE lines[k][l]) \in 0..1
    <3>1. CASE l \in mask
      <4>1. l - o \in 0..3
        BY <1>1, <1>5, <3>1
      <4> QED BY <1>3, <1>5, <3>1, <4>1
    <3>2. CASE l \notin mask
      BY <1>1, <1>3, <3>2
    <3> QED BY <3>1, <3>2
  <2> QED BY <2>1
<1>7. ASSUME NEW b \in L!Addr PROVE lines'[b \div 4][b % 4] = memory'[b]
  <2> DEFINE j == b \div 4
             l == b % 4
  <2>1. b \in Nat /\ j \in 0..Words - 1 /\ l \in 0..3 /\ b = 4 * j + l
    BY DEF L!Addr
  <2>2. memory'[b] = IF b \in a..a + n - 1 THEN ref_reg[b - a] ELSE memory[b]
    BY <1>2
  <2>3. lines[j][l] = memory[b]
    BY <1>3
  <2> HIDE DEF j, l, line
  <2>4. b \in a..a + n - 1 <=> j = k /\ l \in mask
    BY <1>1, <1>4, <2>1
  <2>5. CASE j # k
    <3>1. lines'[j] = lines[j]
      BY <1>2, <1>3, <2>1, <2>5
    <3> QED BY <2>2, <2>3, <2>4, <2>5, <3>1 DEF j, l
  <2>6. CASE j = k
    <3>1. lines'[j] = line
      BY <1>2, <1>3, <2>1, <2>6
    <3>2. line[l] = IF l \in mask THEN data[l] ELSE lines[k][l]
      BY <2>1 DEF line
    <3>3. CASE l \in mask
      <4>1. b - a = l - o
        BY <1>1, <2>1, <2>6
      <4>2. data[l] = reg[l - o]
        BY <1>5, <3>3
      <4> QED BY <1>3, <2>2, <2>4, <2>6, <3>1, <3>2, <3>3, <4>1, <4>2 DEF j, l
    <3>4. CASE l \notin mask
      BY <2>2, <2>3, <2>4, <2>6, <3>1, <3>2, <3>4 DEF j, l
    <3> QED BY <3>3, <3>4
  <2> QED BY <2>5, <2>6
<1>8. lines' \in [0..Words - 1 -> [0..3 -> 0..1]]
  <2> HIDE DEF line
  <2> QED BY <1>1, <1>2, <1>3, <1>6
<1>9. memory' \in [L!Addr -> 0..1]
  <2>1. ASSUME NEW b \in L!Addr
        PROVE  (IF b \in a..a + n - 1 THEN ref_reg[b - a] ELSE memory[b]) \in 0..1
    <3>1. CASE b \in a..a + n - 1
      <4>1. b - a \in 0..3
        BY <1>1, <3>1 DEF L!Addr
      <4> QED BY <1>3, <3>1, <4>1
    <3>2. CASE b \notin a..a + n - 1
      BY <1>3, <3>2
    <3> QED BY <3>1, <3>2
  <2> QED BY <1>2, <2>1
<1> QED BY <1>2, <1>3, <1>7, <1>8, <1>9 DEF LanesInv, LanesTyped, L!LanesAgree

\* Every load and store keeps the two memories and the two registers the same.
LEMMA LanesStep ==
  ASSUME LanesInv, L!Next, Words \in Nat \ {0}
  PROVE  LanesInv'
<1>1. ASSUME NEW type \in L!LoadType, NEW a \in L!Addr, L!Load(type, a) PROVE LanesInv'
  BY <1>1, LoadAgrees
<1>2. ASSUME NEW type \in L!StoreType, NEW a \in L!Addr, L!Store(type, a) PROVE LanesInv'
  BY <1>2, StoreAgrees
<1>3. CASE L!Compute
  BY <1>3 DEF L!Compute, LanesInv, LanesTyped, L!LanesAgree, L!Word, L!Lane, L!Byte
<1> QED BY <1>1, <1>2, <1>3 DEF L!Next

\* They are the same when the program starts.
LEMMA LanesStart == ASSUME L!Init, Words \in Nat \ {0} PROVE LanesInv
<1>1. \A a \in L!Addr : a \div 4 \in 0..Words - 1 /\ a % 4 \in 0..3
  BY InWords DEF L!Addr
<1> QED BY <1>1 DEF L!Init, LanesInv, LanesTyped, L!LanesAgree, L!Word, L!Lane, L!Byte

-----------------------------------------------------------------------------
(* Strings *)

\* A set of numbers has a smallest one.
LEMMA Smallest ==
  ASSUME NEW T, T \subseteq Nat, T # {}
  PROVE  \E k \in T : \A j \in T : k <= j
<1> DEFINE Less == OpToRel(<, Nat)
<1>1. IsWellFoundedOn(Less, Nat)
  BY NatLessThanWellFounded
<1>2. \E x \in T : \A y \in T : ~(<<y, x>> \in Less)
  <2> HIDE DEF Less
  <2> QED BY <1>1, WFMin
<1>3. PICK x \in T : \A y \in T : ~(<<y, x>> \in Less)
  BY <1>2
<1>4. ASSUME NEW y \in T PROVE x <= y
  <2>1. ~(y < x)
    BY <1>3 DEF OpToRel
  <2> QED BY <2>1
<1> QED BY <1>4

\* In m, a string of l letters starts at a.
IsString(m, a, l) ==
  a \in Nat /\ l \in Nat /\ a + l < Memory /\ m[a + l] = 0 /\ \A k \in 0..l - 1 : m[a + k] # 0

\* The length of a string is the number of letters before its zero.
LEMMA LengthOf ==
  ASSUME NEW m, NEW a \in Nat, NEW l, IsString(m, a, l), Memory \in Nat
  PROVE  S!Length(m, a) = l
<1> DEFINE Is(j) == m[a + j] = 0 /\ \A k \in 0..j - 1 : m[a + k] # 0
<1>1. l \in 0..Memory - 1 - a /\ Is(l)
  BY DEF IsString
<1>2. ASSUME NEW j \in 0..Memory - 1 - a, Is(j) PROVE j = l
  <2>1. CASE j < l
    <3>1. j \in 0..l - 1
      BY <2>1, <1>1
    <3> QED BY <1>1, <1>2, <3>1
  <2>2. CASE l < j
    <3>1. l \in 0..j - 1
      BY <2>2, <1>1
    <3> QED BY <1>1, <1>2, <3>1
  <2> QED BY <2>1, <2>2, <1>1
<1>3. S!Length(m, a) = CHOOSE j \in 0..Memory - 1 - a : Is(j)
  BY DEF S!Length
<1> HIDE DEF Is
<1> QED BY <1>1, <1>2, <1>3

\* Where a zero follows, there is a string, and strlen finds its end.
LEMMA StringAt ==
  ASSUME NEW a \in S!Place, S!Terminated(a), Memory \in Nat
  PROVE  IsString(mem, a, S!strlen(a))
<1> DEFINE T == {l \in Nat : a + l < Memory /\ mem[a + l] = 0}
<1>1. a \in Nat /\ a < Memory
  BY DEF S!Place
<1>2. T # {}
  <2>1. PICK k \in a..Memory - 1 : mem[k] = 0
    BY DEF S!Terminated
  <2>2. k - a \in Nat /\ a + (k - a) = k
    BY <1>1, <2>1
  <2>3. k - a \in T
    BY <2>1, <2>2
  <2> QED BY <2>3
<1>3. PICK l \in T : \A j \in T : l <= j
  <2>1. T \subseteq Nat
    OBVIOUS
  <2> HIDE DEF T
  <2> QED BY <1>2, <2>1, Smallest
<1>4. ASSUME NEW k \in 0..l - 1 PROVE mem[a + k] # 0
  <2>1. k \in Nat /\ a + k < Memory /\ k < l
    BY <1>1
  <2> QED BY <1>3, <2>1
<1>5. IsString(mem, a, l)
  BY <1>1, <1>4 DEF IsString
<1>6. S!Length(mem, a) = l
  BY <1>1, <1>5, LengthOf
<1> QED BY <1>5, <1>6 DEF S!strlen

\* While a function runs, its loop has copied the first bytes, or the last ones
\* when memmove goes downwards; a string function was called on strings.
StringsTyped ==
  /\ mem \in [S!Place -> Bytes] /\ before \in [S!Place -> Bytes]
  /\ op \in {"none", "memmove", "memcpy", "strcpy", "strcat"}
  /\ dst \in Nat /\ to \in Nat /\ from \in Nat /\ size \in Nat /\ copied \in Nat

\* Between two turns the bytes copied are those of the source when the call began.
Between ==
  op # "none" =>
    /\ to + size <= Memory /\ from + size <= Memory /\ copied <= size /\ compared = S!Nothing
    /\ op # "memmove" => to + size <= from \/ from + size <= to
    /\ mem = [k \in S!Place |->
                IF k \in (IF S!Downwards THEN to + size - copied..to + size - 1 ELSE to..to + copied - 1)
                THEN before[from + k - to] ELSE before[k]]
    /\ op \in {"strcpy", "strcat"} => size > 0 /\ IsString(before, from, size - 1)
    /\ op = "strcpy" => to = dst
    /\ op = "strcat" => to >= dst /\ IsString(before, dst, to - dst)

\* The invariant of the functions of string.c, in parts.
StringsInv == StringsTyped /\ Between /\ S!Ordered

\* What a call finds: nothing is copied yet, and its strings are as long as it says.
LEMMA CallStarts ==
  ASSUME StringsInv, Memory \in Nat,
         NEW f \in {"memmove", "memcpy", "strcpy", "strcat"}, NEW a \in S!Place, NEW b \in S!Place,
         NEW skip \in Nat, NEW l \in Nat, S!Call(f, a, skip, b, l),
         f \in {"strcpy", "strcat"} => l > 0 /\ IsString(mem, b, l - 1),
         f = "strcpy" => skip = 0, f = "strcat" => IsString(mem, a, skip)
  PROVE  StringsInv'
<1>1. a \in Nat /\ b \in Nat
  BY DEF S!Place
<1>2. /\ op' = f /\ dst' = a /\ to' = a + skip /\ from' = b /\ size' = l /\ copied' = 0
      /\ before' = mem /\ compared' = S!Nothing /\ mem' = mem
      /\ a + skip + l <= Memory /\ b + l <= Memory
      /\ f # "memmove" => S!Apart(a, b, skip + l)
  BY DEF S!Call
<1>3. StringsTyped'
  BY <1>1, <1>2 DEF StringsInv, StringsTyped
<1>4. mem' = [k \in S!Place |->
                IF k \in (IF S!Downwards' THEN to' + size' - copied'..to' + size' - 1
                          ELSE to'..to' + copied' - 1)
                THEN before'[from' + k - to'] ELSE before'[k]]
  <2>1. to' + size' - copied'..to' + size' - 1 = {} /\ to'..to' + copied' - 1 = {}
    BY <1>1, <1>2
  <2>2. mem = [k \in S!Place |-> mem[k]]
    BY DEF StringsInv, StringsTyped
  <2> QED BY <1>2, <2>1, <2>2
<1>5. f # "memmove" => to' + size' <= from' \/ from' + size' <= to'
  BY <1>1, <1>2 DEF S!Apart
<1>6. to' - dst' = skip /\ to' >= dst' /\ (f = "strcpy" => to' = dst')
  BY <1>1, <1>2
<1>7. Between'
  BY <1>1, <1>2, <1>4, <1>5, <1>6 DEF Between, S!Downwards
<1>8. S!Ordered'
  BY <1>2 DEF S!Ordered, S!Nothing
<1> QED BY <1>3, <1>7, <1>8 DEF StringsInv

\* One turn of the loop copies one byte from where the source has not been
\* overwritten, upwards or downwards.
LEMMA TurnCopies ==
  ASSUME StringsInv, S!Turn, Memory \in Nat
  PROVE  StringsInv'
<1> DEFINE k == IF S!Downwards THEN size - 1 - copied ELSE copied
           done == IF S!Downwards THEN to + size - copied..to + size - 1 ELSE to..to + copied - 1
           done1 == IF S!Downwards THEN to + size - (copied + 1)..to + size - 1
                    ELSE to..to + (copied + 1) - 1
<1>1. /\ op # "none" /\ copied < size /\ copied' = copied + 1
      /\ mem' = [mem EXCEPT ![to + k] = mem[from + k]]
      /\ op' = op /\ dst' = dst /\ to' = to /\ from' = from /\ size' = size
      /\ before' = before /\ compared' = compared
  BY DEF S!Turn
<1>2. /\ to + size <= Memory /\ from + size <= Memory /\ copied <= size /\ compared = S!Nothing
      /\ op # "memmove" => to + size <= from \/ from + size <= to
      /\ mem = [j \in S!Place |-> IF j \in done THEN before[from + j - to] ELSE before[j]]
  BY <1>1 DEF StringsInv, Between
<1>3. /\ mem \in [S!Place -> Bytes] /\ before \in [S!Place -> Bytes]
      /\ dst \in Nat /\ to \in Nat /\ from \in Nat /\ size \in Nat /\ copied \in Nat
  BY DEF StringsInv, StringsTyped
<1>4. S!Downwards' <=> S!Downwards
  <2>1. op' = op /\ to' = to /\ from' = from
    BY <1>1
  <2> QED BY <2>1 DEF S!Downwards
<1>5. k \in 0..size - 1 /\ to + k \in S!Place /\ from + k \in S!Place
  <2>1. k \in 0..size - 1
    <3>1. CASE S!Downwards
      BY <1>1, <1>2, <1>3, <3>1
    <3>2. CASE ~S!Downwards
      BY <1>1, <1>2, <1>3, <3>2
    <3> QED BY <3>1, <3>2
  <2> HIDE DEF k
  <2> QED BY <1>2, <1>3, <2>1 DEF S!Place
<1>6. from + k \notin done /\ to + k \notin done /\ \A j \in Int : j \in done1 <=> j \in done \/ j = to + k
  <2>1. CASE S!Downwards
    BY <1>1, <1>2, <1>3, <2>1 DEF S!Downwards
  <2>2. CASE ~S!Downwards
    BY <1>1, <1>2, <1>3, <2>2 DEF S!Downwards
  <2> QED BY <2>1, <2>2
<1>7. mem[from + k] = before[from + k] /\ before[from + k] \in Bytes
  BY <1>2, <1>3, <1>5, <1>6
<1> HIDE DEF k, done, done1
<1>8. \A j \in S!Place :
        mem'[j] = IF j \in done1 THEN before[from + j - to] ELSE before[j]
  <2> TAKE j \in S!Place
  <2>0. j \in Int
    BY DEF S!Place
  <2>1. CASE j = to + k
    <3>1. from + j - to = from + k
      BY <1>3, <1>5, <2>1
    <3>2. mem'[j] = before[from + k]
      BY <1>1, <1>3, <1>7, <2>1
    <3> QED BY <1>6, <2>0, <2>1, <3>1, <3>2
  <2>2. CASE j # to + k
    <3>1. mem'[j] = mem[j]
      BY <1>1, <1>3, <2>2
    <3>2. mem[j] = IF j \in done THEN before[from + j - to] ELSE before[j]
      BY <1>2
    <3>3. j \in done1 <=> j \in done
      BY <1>6, <2>0, <2>2
    <3> QED BY <3>1, <3>2, <3>3
  <2> QED BY <2>1, <2>2
<1>9. mem' \in [S!Place -> Bytes]
  BY <1>1, <1>3, <1>7
<1>10. mem' = [j \in S!Place |-> IF j \in done1 THEN before[from + j - to] ELSE before[j]]
  BY <1>8, <1>9
<1>11. mem' = [j \in S!Place |->
                IF j \in (IF S!Downwards' THEN to' + size' - copied'..to' + size' - 1
                          ELSE to'..to' + copied' - 1)
                THEN before'[from' + j - to'] ELSE before'[j]]
  <2>1. done1 = IF S!Downwards' THEN to' + size' - copied'..to' + size' - 1 ELSE to'..to' + copied' - 1
    BY <1>1, <1>4 DEF done1
  <2> HIDE DEF S!Downwards
  <2> QED BY <1>1, <1>10, <2>1
<1>12. StringsTyped'
  BY <1>1, <1>3, <1>9 DEF StringsInv, StringsTyped
<1>13. copied' <= size'
  BY <1>1, <1>3
<1>14. /\ op' \in {"strcpy", "strcat"} => size' > 0 /\ IsString(before', from', size' - 1)
       /\ op' = "strcpy" => to' = dst'
       /\ op' = "strcat" => to' >= dst' /\ IsString(before', dst', to' - dst')
  BY <1>1 DEF StringsInv, Between
<1>15. Between'
  BY <1>1, <1>2, <1>11, <1>13, <1>14 DEF Between
<1>16. S!Ordered'
  BY <1>1, <1>2 DEF S!Ordered, S!Nothing
<1> QED BY <1>12, <1>15, <1>16 DEF StringsInv

\* After a return nothing is being copied.
LEMMA ReturnLeaves ==
  ASSUME StringsInv, S!Return
  PROVE  StringsInv'
<1>1. /\ op # "none" /\ op' = "none" /\ dst' = 0 /\ to' = 0 /\ from' = 0 /\ size' = 0 /\ copied' = 0
      /\ before' = mem /\ mem' = mem /\ compared' = compared
  BY DEF S!Return
<1>2. compared = S!Nothing
  BY <1>1 DEF StringsInv, Between
<1> QED BY <1>1, <1>2 DEF StringsInv, StringsTyped, Between, S!Ordered, S!Nothing

\* Two strings differ k letters on for the first time.
Differ(a, b, k) == mem[a + k] # mem[b + k] /\ \A j \in 0..k - 1 : mem[a + j] = mem[b + j]
\* A comparison stops k letters on, if not before.
Ends(a, b, k) == mem[a + k] = 0 \/ mem[b + k] = 0 \/ mem[a + k] # mem[b + k]

\* Where a comparison stops is the first difference or end, if there is one.
LEMMA StopAt ==
  ASSUME NEW a, NEW b, NEW l \in Nat
  PROVE  LET k == S!Stop(a, b, l)
         IN  /\ k \in 0..l /\ (k < l => Ends(a, b, k)) /\ \A j \in 0..k - 1 : ~Ends(a, b, j)
             /\ \A e \in 0..l : (e < l => Ends(a, b, e)) /\ (\A j \in 0..e - 1 : ~Ends(a, b, j)) => k = e
<1> DEFINE Is(k) == (k < l => Ends(a, b, k)) /\ \A j \in 0..k - 1 : ~Ends(a, b, j)
           T == {k \in 0..l : k < l => Ends(a, b, k)}
<1>1. S!Stop(a, b, l) = CHOOSE k \in 0..l : Is(k)
  BY DEF S!Stop, Ends
<1>2. PICK k \in T : \A j \in T : k <= j
  <2>1. l \in T /\ T \subseteq Nat
    OBVIOUS
  <2> HIDE DEF T
  <2> QED BY <2>1, Smallest
<1>3. k \in 0..l /\ Is(k)
  <2>1. ASSUME NEW j \in 0..k - 1 PROVE ~Ends(a, b, j)
    <3>1. j \in 0..l /\ j < k
      OBVIOUS
    <3> QED BY <1>2, <3>1
  <2> QED BY <1>2, <2>1
<1>4. ASSUME NEW i \in 0..l, NEW e \in 0..l, Is(i), Is(e) PROVE i = e
  <2>1. CASE i < e
    <3>1. i < l /\ i \in 0..e - 1
      BY <2>1
    <3> QED BY <1>4, <3>1
  <2>2. CASE e < i
    <3>1. e < l /\ e \in 0..i - 1
      BY <2>2
    <3> QED BY <1>4, <3>1
  <2> QED BY <2>1, <2>2
<1>5. S!Stop(a, b, l) = k
  <2> HIDE DEF Is
  <2> QED BY <1>1, <1>3, <1>4
<1>6. ASSUME NEW e \in 0..l, Is(e) PROVE k = e
  BY <1>3, <1>4, <1>6
<1> QED BY <1>3, <1>5, <1>6

\* strcmp has the sign of the first difference of two strings.
LEMMA StringsCompared ==
  ASSUME StringsInv, Memory \in Nat, Bytes \subseteq Nat, NEW a \in S!Place, NEW b \in S!Place, S!strcmp(a, b)
  PROVE  S!Ordered'
<1> DEFINE k == S!Stop(a, b, Memory)
           length == S!strlen(a)
           x == mem[a + k]
           y == mem[b + k]
<1>1. /\ S!Terminated(a) /\ mem' = mem
      /\ compared' = [op |-> "strcmp", a |-> a, b |-> b, n |-> 0, ret |-> S!Sign(x, y)]
  BY DEF S!strcmp, S!Compared
<1>2. IsString(mem, a, length)
  BY <1>1, StringAt
<1>3. /\ length \in Nat /\ a \in Nat /\ a + length < Memory /\ mem[a + length] = 0
      /\ \A j \in 0..length - 1 : mem[a + j] # 0
  BY <1>2 DEF IsString
<1>4. /\ k \in 0..Memory /\ (k < Memory => Ends(a, b, k))
      /\ \A j \in 0..k - 1 : ~Ends(a, b, j)
  BY StopAt
<1> HIDE DEF k, length
<1>5. k <= length /\ k < Memory
  <2>1. ASSUME length < k PROVE FALSE
    <3>1. length \in 0..k - 1
      BY <1>3, <1>4, <2>1
    <3> QED BY <1>3, <1>4, <3>1 DEF Ends
  <2> QED BY <1>3, <1>4, <2>1
<1>6. k \in 0..length /\ Ends(a, b, k)
  BY <1>3, <1>4, <1>5
<1>7. \A j \in 0..k - 1 : mem[a + j] = mem[b + j]
  BY <1>4 DEF Ends
<1>8. /\ compared'.op = "strcmp" /\ compared'.a = a /\ compared'.b = b /\ compared'.ret = S!Sign(x, y)
  BY <1>1
<1>9. IF \E j \in 0..length : Differ(a, b, j)
      THEN \E j \in 0..length : Differ(a, b, j) /\ S!Sign(x, y) = S!Sign(mem[a + j], mem[b + j])
      ELSE S!Sign(x, y) = 0
  <2>1. CASE x # y
    <3>1. Differ(a, b, k)
      BY <1>7, <2>1 DEF Differ
    <3> QED BY <1>6, <3>1
  <2>2. CASE x = y
    <3>1. x = 0
      BY <1>6, <2>2 DEF Ends
    <3>2. k = length
      <4>1. ASSUME k < length PROVE FALSE
        <5>1. k \in 0..length - 1
          BY <1>3, <1>4, <4>1
        <5> QED BY <1>3, <3>1, <5>1
      <4> QED BY <1>3, <1>4, <1>5, <4>1
    <3>3. \A j \in 0..length : mem[a + j] = mem[b + j]
      <4> TAKE j \in 0..length
      <4>1. CASE j = k
        BY <2>2, <4>1
      <4>2. CASE j # k
        <5>1. j \in 0..k - 1
          BY <1>3, <3>2, <4>2
        <5> QED BY <1>7, <5>1
      <4> QED BY <4>1, <4>2
    <3>4. S!Sign(x, y) = 0
      BY <2>2, <3>1 DEF S!Sign
    <3> QED BY <3>3, <3>4 DEF Differ
  <2> QED BY <2>1, <2>2
<1>10. S!strlen(a)' = length
  BY <1>1 DEF S!strlen, length
<1> HIDE DEF x, y
<1> QED BY <1>1, <1>8, <1>9, <1>10 DEF S!Ordered, Differ

\* strncmp and memcmp have the sign of the first difference within the length.
LEMMA BytesCompared ==
  ASSUME StringsInv, Memory \in Nat, NEW a \in S!Place, NEW b \in S!Place, NEW l \in 0..Memory,
         S!ncmp(a, b, l)
  PROVE  S!Ordered'
<1> DEFINE k == S!Stop(a, b, l)
           x == mem[a + k]
           y == mem[b + k]
           ret == IF k = l THEN 0 ELSE IF x = 0 THEN -1 ELSE IF y = 0 THEN 1 ELSE S!Sign(x, y)
<1>1. /\ mem' = mem
      /\ compared' = [op |-> "ncmp", a |-> a, b |-> b, n |-> l, ret |-> ret]
  BY DEF S!ncmp, S!Compared
<1>2. /\ k \in 0..l /\ (k < l => Ends(a, b, k))
      /\ \A j \in 0..k - 1 : ~Ends(a, b, j)
  BY StopAt
<1> HIDE DEF k
<1>3. ASSUME \A j \in 0..l - 1 : mem[a + j] # 0 /\ mem[b + j] # 0
      PROVE  IF \E j \in 0..l - 1 : Differ(a, b, j)
             THEN \E j \in 0..l - 1 : Differ(a, b, j) /\ ret = S!Sign(mem[a + j], mem[b + j])
             ELSE ret = 0
  <2>1. CASE k = l
    <3>1. \A j \in 0..l - 1 : mem[a + j] = mem[b + j]
      BY <1>2, <2>1 DEF Ends
    <3> QED BY <2>1, <3>1 DEF Differ
  <2>2. CASE k # l
    <3>1. k \in 0..l - 1 /\ Ends(a, b, k)
      BY <1>2, <2>2
    <3>2. x # 0 /\ y # 0 /\ x # y
      BY <1>3, <3>1 DEF Ends
    <3>3. Differ(a, b, k)
      BY <1>2, <3>2 DEF Differ, Ends
    <3>4. ret = S!Sign(x, y)
      BY <2>2, <3>2
    <3> QED BY <3>1, <3>3, <3>4
  <2> QED BY <2>1, <2>2
<1> HIDE DEF ret
<1>4. /\ compared'.op = "ncmp" /\ compared'.a = a /\ compared'.b = b /\ compared'.n = l
      /\ compared'.ret = ret
  BY <1>1
<1> QED BY <1>1, <1>3, <1>4 DEF S!Ordered, Differ

\* Every call and every turn keep the invariant.
LEMMA StringsStep ==
  ASSUME StringsInv, S!Next, Memory \in Nat, Bytes \subseteq Nat
  PROVE  StringsInv'
<1>1. ASSUME NEW a \in S!Place, NEW b \in S!Place, NEW l \in 0..Memory, S!memmove(a, b, l) \/ S!memcpy(a, b, l)
      PROVE  StringsInv'
  BY <1>1, CallStarts DEF S!memmove, S!memcpy
<1>2. ASSUME NEW a \in S!Place, NEW b \in S!Place, S!strcpy(a, b) PROVE StringsInv'
  <2> DEFINE l == S!strlen(b)
  <2>1. S!Terminated(b) /\ S!Call("strcpy", a, 0, b, l + 1)
    BY <1>2 DEF S!strcpy
  <2>2. IsString(mem, b, l)
    BY <2>1, StringAt
  <2>3. l \in Nat /\ l + 1 \in Nat /\ l + 1 > 0 /\ (l + 1) - 1 = l
    BY <2>2 DEF IsString
  <2> DEFINE m == l + 1
  <2>4. m \in Nat /\ m > 0 /\ IsString(mem, b, m - 1) /\ S!Call("strcpy", a, 0, b, m)
    BY <2>1, <2>2, <2>3
  <2> HIDE DEF m
  <2> QED BY <2>4, CallStarts
<1>3. ASSUME NEW a \in S!Place, NEW b \in S!Place, S!strcat(a, b) PROVE StringsInv'
  <2> DEFINE l == S!strlen(b)
             skip == S!strlen(a)
             m == l + 1
  <2>1. S!Terminated(a) /\ S!Terminated(b) /\ S!Call("strcat", a, skip, b, l + 1)
    BY <1>3 DEF S!strcat
  <2>2. IsString(mem, b, l) /\ IsString(mem, a, skip)
    BY <2>1, StringAt
  <2>3. l \in Nat /\ skip \in Nat /\ (l + 1) - 1 = l
    BY <2>2 DEF IsString
  <2>4. m \in Nat /\ m > 0 /\ IsString(mem, b, m - 1) /\ S!Call("strcat", a, skip, b, m)
    BY <2>1, <2>2, <2>3
  <2> HIDE DEF m, skip
  <2> QED BY <2>2, <2>3, <2>4, CallStarts
<1>4. ASSUME NEW a \in S!Place, NEW b \in S!Place, S!strcmp(a, b) PROVE StringsInv'
  <2>1. S!Ordered'
    BY <1>4, StringsCompared
  <2>2. /\ op = "none" /\ mem' = mem /\ op' = op /\ dst' = dst /\ to' = to /\ from' = from
        /\ size' = size /\ copied' = copied /\ before' = before
    BY <1>4 DEF S!strcmp, S!Compared
  <2> QED BY <2>1, <2>2 DEF StringsInv, StringsTyped, Between
<1>5. ASSUME NEW a \in S!Place, NEW b \in S!Place, NEW l \in 0..Memory, S!ncmp(a, b, l) PROVE StringsInv'
  <2>1. S!Ordered'
    BY <1>5, BytesCompared
  <2>2. /\ op = "none" /\ mem' = mem /\ op' = op /\ dst' = dst /\ to' = to /\ from' = from
        /\ size' = size /\ copied' = copied /\ before' = before
    BY <1>5 DEF S!ncmp, S!Compared
  <2> QED BY <2>1, <2>2 DEF StringsInv, StringsTyped, Between
<1>6. CASE S!Turn
  BY <1>6, TurnCopies
<1>7. CASE S!Return
  BY <1>7, ReturnLeaves
<1> QED BY <1>1, <1>2, <1>3, <1>4, <1>5, <1>6, <1>7 DEF S!Next

\* Nothing has been called at first.
LEMMA StringsStart == ASSUME S!Init, 0 \in Bytes PROVE StringsInv
BY DEF S!Init, StringsInv, StringsTyped, Between, S!Ordered, S!Nothing

\* What the invariant says when all bytes are copied.
LEMMA StringsConclude ==
  ASSUME StringsInv, Memory \in Nat
  PROVE  S!Copied /\ S!Joined /\ S!Ordered
<1>1. S!Copied
  <2> SUFFICES ASSUME op # "none", copied = size
               PROVE  mem = [k \in S!Place |-> IF k \in to..to + size - 1 THEN before[from + k - to]
                                               ELSE before[k]]
    BY DEF S!Copied
  <2>1. to + size - copied = to /\ to + copied - 1 = to + size - 1
    BY DEF StringsInv, StringsTyped
  <2> HIDE DEF S!Downwards
  <2>2. (IF S!Downwards THEN to + size - copied..to + size - 1 ELSE to..to + copied - 1)
          = to..to + size - 1
    BY <2>1
  <2> QED BY <2>2 DEF StringsInv, Between
<1>2. S!Joined
  <2> SUFFICES ASSUME copied = size, op \in {"strcpy", "strcat"}
               PROVE  /\ op = "strcpy" => S!Length(mem, dst) = S!Length(before, from)
                      /\ op = "strcat" =>
                           S!Length(mem, dst) = S!Length(before, dst) + S!Length(before, from)
    BY DEF S!Joined
  <2> DEFINE l == size - 1
             skip == to - dst
  <2>1. mem = [k \in S!Place |-> IF k \in to..to + size - 1 THEN before[from + k - to] ELSE before[k]]
    BY <1>1 DEF S!Copied
  <2>2. /\ to + size <= Memory /\ from + size <= Memory /\ size > 0 /\ IsString(before, from, l)
        /\ op = "strcpy" => to = dst
        /\ op = "strcat" => to >= dst /\ IsString(before, dst, skip)
    BY DEF StringsInv, Between
  <2>3. dst \in Nat /\ to \in Nat /\ from \in Nat /\ size \in Nat
    BY DEF StringsInv, StringsTyped
  <2>4. S!Length(before, from) = l
    BY <2>2, <2>3, LengthOf
  <2>5. /\ l \in Nat /\ before[from + l] = 0 /\ \A k \in 0..l - 1 : before[from + k] # 0
    BY <2>2 DEF IsString
  <2>6. \A k \in 0..l : mem[to + k] = before[from + k]
    <3> TAKE k \in 0..l
    <3>1. to + k \in S!Place /\ to + k \in to..to + size - 1 /\ from + (to + k) - to = from + k
      BY <2>2, <2>3 DEF S!Place
    <3>2. from + (to + k) - to = from + k
      BY <2>3
    <3> HIDE DEF l
    <3> QED BY <2>1, <3>1, <3>2
  <2>7. mem[to + l] = 0 /\ \A k \in 0..l - 1 : mem[to + k] # 0
    <3> HIDE DEF l
    <3> QED BY <2>5, <2>6
  <2>8. CASE op = "strcpy"
    <3>1. to + l < Memory /\ to = dst
      BY <2>2, <2>3, <2>8
    <3>2. IsString(mem, dst, l)
      <4> HIDE DEF l
      <4> QED BY <2>3, <2>5, <2>7, <3>1 DEF IsString
    <3>3. S!Length(mem, dst) = l
      BY <2>3, <3>2, LengthOf
    <3> QED BY <2>4, <2>8, <3>3
  <2>9. CASE op = "strcat"
    <3>1. /\ skip \in Nat /\ \A k \in 0..skip - 1 : before[dst + k] # 0
      BY <2>2, <2>9 DEF IsString
    <3>2. S!Length(before, dst) = skip
      BY <2>2, <2>3, <2>9, LengthOf
    <3>3. to = dst + skip /\ to + l < Memory
      BY <2>2, <2>3, <2>9
    <3> HIDE DEF l, skip
    <3>4. IsString(mem, dst, skip + l)
      <4>1. dst + (skip + l) = to + l
        BY <2>3, <2>5, <3>1, <3>3
      <4>2. ASSUME NEW k \in 0..skip + l - 1 PROVE mem[dst + k] # 0
        <5>1. CASE k < skip
          <6>1. k \in 0..skip - 1
            BY <3>1, <5>1
          <6>2. dst + k \in S!Place /\ dst + k \notin to..to + size - 1
            BY <2>3, <2>5, <3>1, <3>3, <6>1 DEF S!Place
          <6>3. mem[dst + k] = before[dst + k]
            BY <2>1, <6>2
          <6> QED BY <3>1, <6>1, <6>3
        <5>2. CASE k >= skip
          <6>1. k - skip \in 0..l - 1 /\ dst + k = to + (k - skip)
            BY <2>3, <2>5, <3>1, <3>3, <5>2
          <6> QED BY <2>7, <6>1
        <5> QED BY <3>1, <5>1, <5>2
      <4> QED BY <2>3, <2>5, <2>7, <3>1, <3>3, <4>1, <4>2 DEF IsString
    <3>5. S!Length(mem, dst) = skip + l
      BY <2>3, <3>4, LengthOf
    <3> QED BY <2>4, <2>9, <3>2, <3>5
  <2> QED BY <2>8, <2>9
<1> QED BY <1>1, <1>2 DEF StringsInv

-----------------------------------------------------------------------------
(* Printf *)

\* A padding is as many blanks as are missing, or none.
LEMMA Padded ==
  ASSUME NEW m \in Int
  PROVE  LET pad == P!Pad(P!Space, m)
         IN  /\ pad \in Seq(Int) /\ Len(pad) = (IF m > 0 THEN m ELSE 0)
             /\ \A j \in 1..Len(pad) : pad[j] = P!Space
<1>1. CASE m > 0
  <2>1. P!Pad(P!Space, m) = [j \in 1..m |-> P!Space]
    BY <1>1 DEF P!Pad
  <2>2. [j \in 1..m |-> P!Space] \in [1..m -> Int]
    BY DEF P!Space
  <2>3. m \in Nat /\ Seq(Int) = UNION {[1..n -> Int] : n \in Nat}
    BY <1>1
  <2> QED BY <1>1, <2>1, <2>2
<1>2. CASE ~(m > 0)
  BY <1>2 DEF P!Pad
<1> QED BY <1>1, <1>2

\* A part of a text that holds blanks only is blank.
LEMMA Blanks ==
  ASSUME NEW s, NEW a \in Int, NEW b \in Int, \A j \in a..b : s[j] = P!Space
  PROVE  P!Blank(SubSeq(s, a, b))
<1> DEFINE t == SubSeq(s, a, b)
<1>1. \A j \in a..b : s[j] \in Int
  BY DEF P!Space
<1>2. /\ t \in Seq(Int) /\ Len(t) = (IF a <= b THEN b - a + 1 ELSE 0)
      /\ \A j \in 1..b - a + 1 : t[j] = s[a + j - 1]
  BY <1>1, SubSeqProperties
<1>3. DOMAIN t = 1..Len(t)
  BY <1>2, LenProperties
<1> HIDE DEF t
<1>4. ASSUME NEW j \in DOMAIN t PROVE t[j] = P!Space
  <2>1. j \in 1..b - a + 1 /\ a + j - 1 \in a..b
    BY <1>2, <1>3
  <2> QED BY <1>2, <2>1
<1> QED BY <1>4 DEF P!Blank, t

\* The argument of %s, cut to n letters
LEMMA KeptOf ==
  ASSUME NEW s \in Seq(Int), NEW precision \in Nat \cup {-1}
  PROVE  LET n == IF precision = -1 \/ precision > Len(s) THEN Len(s) ELSE precision
         IN  n \in 0..Len(s) /\ P!Kept(s, precision) = SubSeq(s, 1, n)
<1>1. Len(s) \in Nat
  BY LenProperties
<1>2. SubSeq(s, 1, Len(s)) = s
  BY SubSeqFull
<1>3. CASE precision \in 0..Len(s) - 1
  BY <1>1, <1>3 DEF P!Kept
<1>4. CASE precision \notin 0..Len(s) - 1
  BY <1>1, <1>2, <1>4 DEF P!Kept
<1> QED BY <1>3, <1>4

\* Kept text on one side, blanks on the other
LEMMA TextRight ==
  ASSUME NEW s \in Seq(Int), NEW n \in 0..Len(s), NEW w \in Int, NEW left \in BOOLEAN
  PROVE  LET kept == SubSeq(s, 1, n)
             pad == P!Pad(P!Space, w - n)
             o == IF left THEN kept \o pad ELSE pad \o kept
             first == IF left THEN 0 ELSE Len(o) - n
         IN  /\ Len(kept) = n /\ Len(o) = P!Most(n, w)
             /\ SubSeq(o, first + 1, first + n) = kept
             /\ P!Blank(SubSeq(o, 1, first)) /\ P!Blank(SubSeq(o, first + n + 1, Len(o)))
<1> DEFINE kept == SubSeq(s, 1, n)
           pad == P!Pad(P!Space, w - n)
           o == IF left THEN kept \o pad ELSE pad \o kept
           first == IF left THEN 0 ELSE Len(o) - n
<1>1. n \in Nat /\ Len(s) \in Nat /\ n <= Len(s)
  BY LenProperties
<1>2. kept \in Seq(Int) /\ Len(kept) = n
  <2>1. \A j \in 1..n : s[j] \in Int
    BY <1>1, ElementOfSeq
  <2>2. /\ kept \in Seq(Int) /\ Len(kept) = (IF 1 <= n THEN n - 1 + 1 ELSE 0)
    BY <1>1, <2>1, SubSeqProperties
  <2> QED BY <1>1, <2>2
<1>3. /\ pad \in Seq(Int) /\ Len(pad) = (IF w - n > 0 THEN w - n ELSE 0)
      /\ \A j \in 1..Len(pad) : pad[j] = P!Space
  <2>1. w - n \in Int
    BY <1>1
  <2> QED BY <2>1, Padded
<1> HIDE DEF kept, pad
<1>4. n + Len(pad) = P!Most(n, w) /\ Len(pad) \in Nat
  BY <1>1, <1>3 DEF P!Most
<1>5. CASE left = TRUE
  <2>1. /\ o \in Seq(Int) /\ Len(o) = n + Len(pad)
        /\ \A j \in 1..n + Len(pad) : o[j] = IF j <= n THEN kept[j] ELSE pad[j - n]
    BY <1>2, <1>3, <1>5, ConcatProperties
  <2>2. first = 0
    BY <1>5
  <2> HIDE DEF o, first
  <2>3. SubSeq(o, 1, n) = kept
    <3> DEFINE t == SubSeq(o, 1, n)
    <3>1. \A j \in 1..n : o[j] = kept[j] /\ kept[j] \in Int
      BY <1>1, <1>2, <1>4, <2>1, ElementOfSeq
    <3>2. /\ t \in Seq(Int) /\ Len(t) = (IF 1 <= n THEN n - 1 + 1 ELSE 0)
          /\ \A j \in 1..n - 1 + 1 : t[j] = o[1 + j - 1]
      BY <1>1, <3>1, SubSeqProperties
    <3>3. n - 1 + 1 = n /\ \A j \in 1..n : 1 + j - 1 = j
      BY <1>1
    <3>4. Len(t) = Len(kept) /\ \A j \in 1..Len(t) : t[j] = kept[j]
      BY <1>1, <1>2, <3>1, <3>2, <3>3
    <3> HIDE DEF t
    <3> QED BY <1>2, <3>2, <3>4, SeqEqual DEF t
  <2>4. P!Blank(SubSeq(o, 1, 0))
    BY Blanks
  <2>5. P!Blank(SubSeq(o, n + 1, Len(o)))
    <3>1. ASSUME NEW j \in n + 1..Len(o) PROVE o[j] = P!Space
      <4>1. j \in 1..n + Len(pad) /\ ~(j <= n) /\ j - n \in 1..Len(pad)
        BY <1>1, <1>4, <2>1
      <4>2. o[j] = pad[j - n]
        BY <2>1, <4>1
      <4> QED BY <1>3, <4>1, <4>2
    <3>2. n + 1 \in Int /\ Len(o) \in Int
      BY <1>1, <1>4, <2>1
    <3> QED BY <3>1, <3>2, Blanks
  <2>6. first + 1 = 1 /\ first + n = n /\ first + n + 1 = n + 1
    BY <1>1, <2>2
  <2> QED BY <1>2, <1>4, <2>1, <2>2, <2>3, <2>4, <2>5, <2>6 DEF kept, pad, o, first
<1>6. CASE left = FALSE
  <2> DEFINE m == Len(pad)
  <2>1. /\ o \in Seq(Int) /\ Len(o) = m + n
        /\ \A j \in 1..m + n : o[j] = IF j <= m THEN pad[j] ELSE kept[j - m]
    BY <1>2, <1>3, <1>6, ConcatProperties
  <2>2. first = m
    <3> HIDE DEF o
    <3> QED BY <1>1, <1>4, <1>6, <2>1
  <2> HIDE DEF o, first, m
  <2>0. m \in Nat
    BY <1>4 DEF m
  <2>3. SubSeq(o, m + 1, m + n) = kept
    <3> DEFINE t == SubSeq(o, m + 1, m + n)
    <3>1. \A j \in 1..n : o[m + j] = kept[j] /\ kept[j] \in Int
      <4> TAKE j \in 1..n
      <4>1. m + j \in 1..m + n /\ ~(m + j <= m) /\ (m + j) - m = j
        BY <1>1, <2>0
      <4> QED BY <1>2, <2>1, <4>1, ElementOfSeq
    <3>2. \A j \in m + 1..m + n : o[j] \in Int
      <4> TAKE j \in m + 1..m + n
      <4>1. j - m \in 1..n /\ m + (j - m) = j
        BY <1>1, <2>0
      <4> QED BY <3>1, <4>1
    <3>3. m + 1 \in Int /\ m + n \in Int
      BY <1>1, <2>0
    <3>4. /\ t \in Seq(Int) /\ Len(t) = (IF m + 1 <= m + n THEN (m + n) - (m + 1) + 1 ELSE 0)
          /\ \A j \in 1..(m + n) - (m + 1) + 1 : t[j] = o[(m + 1) + j - 1]
      BY <3>2, <3>3, SubSeqProperties
    <3>5. (m + n) - (m + 1) + 1 = n /\ \A j \in 1..n : (m + 1) + j - 1 = m + j
      BY <1>1, <2>0
    <3>6. Len(t) = Len(kept) /\ \A j \in 1..Len(t) : t[j] = kept[j]
      BY <1>1, <1>2, <2>0, <3>1, <3>4, <3>5
    <3> HIDE DEF t
    <3> QED BY <1>2, <3>4, <3>6, SeqEqual DEF t
  <2>4. P!Blank(SubSeq(o, 1, m))
    <3>1. \A j \in 1..m : o[j] = P!Space
      BY <1>1, <1>3, <2>0, <2>1, SMTT(30) DEF m
    <3> QED BY <2>0, <3>1, Blanks
  <2>5. P!Blank(SubSeq(o, m + n + 1, Len(o)))
    <3>1. m + n + 1 \in Int /\ Len(o) \in Int /\ \A j \in m + n + 1..Len(o) : o[j] = P!Space
      BY <1>1, <2>0, <2>1
    <3> QED BY <3>1, Blanks
  <2>6. Len(o) = P!Most(n, w)
    BY <1>1, <1>4, <2>0, <2>1 DEF m
  <2> QED BY <1>2, <2>2, <2>3, <2>4, <2>5, <2>6 DEF kept, pad, o, first
<1> QED BY <1>5, <1>6

\* What is put out is what was asked for, converted.
PrintfInv ==
  asked # <<>> =>
    \E letter \in {"c", "s", "d", "u", "x", "o", "p"}, flags \in SUBSET P!Flags,
       width \in Widths, precision \in Precisions :
       \E arg \in P!Arguments(letter) :
          /\ asked = [letter |-> letter, flags |-> flags, width |-> width,
                      precision |-> precision, arg |-> arg]
          /\ out = P!Converted(letter, flags, width, precision, arg)

\* Nothing has been asked for at first.
LEMMA PrintfStart == P!Init => PrintfInv
BY DEF P!Init, PrintfInv

\* The output is always that of the conversion that was asked for.
LEMMA PrintfStep == ASSUME PrintfInv, P!Next PROVE PrintfInv'
BY DEF PrintfInv, P!Next, P!Finish, P!Conversion

\* The text of a string conversion is padded on the right side.
LEMMA PrintfConcludes ==
  ASSUME PrintfInv, Texts \subseteq Seq(Int), Widths \subseteq Int, Precisions \subseteq Nat \cup {-1}
  PROVE  P!TextPadded
<1> SUFFICES ASSUME asked # <<>>, asked.letter = "s" PROVE P!TextPadded
  BY DEF P!TextPadded
<1>1. PICK letter \in {"c", "s", "d", "u", "x", "o", "p"}, flags \in SUBSET P!Flags,
           width \in Widths, precision \in Precisions :
        \E arg \in P!Arguments(letter) :
          /\ asked = [letter |-> letter, flags |-> flags, width |-> width,
                      precision |-> precision, arg |-> arg]
          /\ out = P!Converted(letter, flags, width, precision, arg)
  BY DEF PrintfInv
<1>2. PICK arg \in P!Arguments(letter) :
          /\ asked = [letter |-> letter, flags |-> flags, width |-> width,
                      precision |-> precision, arg |-> arg]
          /\ out = P!Converted(letter, flags, width, precision, arg)
  BY <1>1
<1>3. /\ letter = "s" /\ asked.flags = flags /\ asked.width = width /\ asked.precision = precision
      /\ asked.arg = arg
  BY <1>2
<1>4. arg \in Seq(Int) /\ width \in Int /\ precision \in Nat \cup {-1}
  BY <1>3 DEF P!Arguments
<1> DEFINE left == "LEFT" \in flags \/ width < -1
           n == IF precision = -1 \/ precision > Len(arg) THEN Len(arg) ELSE precision
           w == P!FieldWidth(width)
           kept == SubSeq(arg, 1, n)
           pad == P!Pad(P!Space, w - n)
           o == IF left THEN kept \o pad ELSE pad \o kept
           first == IF left THEN 0 ELSE Len(o) - n
<1>5. n \in 0..Len(arg) /\ P!Kept(arg, precision) = kept
  BY <1>4, KeptOf
<1>6. w \in Int
  BY <1>4 DEF P!FieldWidth
<1>7. left \in BOOLEAN
  OBVIOUS
<1>8. /\ Len(kept) = n /\ Len(o) = P!Most(n, w)
      /\ SubSeq(o, first + 1, first + n) = kept
      /\ P!Blank(SubSeq(o, 1, first)) /\ P!Blank(SubSeq(o, first + n + 1, Len(o)))
  <2> HIDE DEF left, n, w
  <2> QED BY <1>4, <1>5, <1>6, <1>7, TextRight
<1>9. out = o
  <2>1. out = P!text(arg, w, precision, flags \cup P!WidthFlags(width))
    BY <1>2, <1>3 DEF P!Converted
  <2>2. ("LEFT" \in flags \cup P!WidthFlags(width)) <=> left
    BY DEF P!WidthFlags
  <2>3. P!text(arg, w, precision, flags \cup P!WidthFlags(width)) =
          IF "LEFT" \in flags \cup P!WidthFlags(width)
          THEN P!Kept(arg, precision) \o P!Pad(P!Space, w - Len(P!Kept(arg, precision)))
          ELSE P!Pad(P!Space, w - Len(P!Kept(arg, precision))) \o P!Kept(arg, precision)
    BY DEF P!text
  <2> HIDE DEF left, n, w, kept
  <2> QED BY <1>5, <1>8, <2>1, <2>2, <2>3
<1> HIDE DEF o
<1> QED BY <1>3, <1>8, <1>9 DEF P!TextPadded

-----------------------------------------------------------------------------
(* Int64 *)

\* A half that begins with a 1 is at least this.
TopHalf == 2 ^ (WordBits - 1)

\* The sizes of the halves, and of a pair of them.
LEMMA WordSizes ==
  ASSUME W!Int64Assumption
  PROVE  /\ WordBits \in {2, 4, 8, 16, 32} /\ W!Word = 2 * TopHalf /\ TopHalf \in Nat \ {0}
         /\ W!Word \in Nat \ {0} /\ W!DoubleWord = W!Word * W!Word /\ W!DoubleWord \in Nat \ {0}
         /\ W!DoubleWord = 2 * (TopHalf * W!Word) /\ W!DoubleWord \div 2 = TopHalf * W!Word
         /\ TopHalf * W!Word \in Nat \ {0} /\ W!Word = 2 ^ WordBits
<1>1. WordBits \in {2, 4, 8, 16, 32}
  <2>1. PICK k \in 1..5 : WordBits = 2 ^ k
    BY DEF W!Int64Assumption
  <2>2. k = 1 \/ k = 2 \/ k = 3 \/ k = 4 \/ k = 5
    OBVIOUS
  <2>3. 2 ^ 1 = 2 /\ 2 ^ 2 = 4 /\ 2 ^ 3 = 8 /\ 2 ^ 4 = 16 /\ 2 ^ 5 = 32
    OBVIOUS
  <2> QED BY <2>1, <2>2, <2>3
<1>2. TopHalf \in Nat \ {0} /\ W!Word \in Nat \ {0} /\ W!Word = 2 * TopHalf
  <2>1. WordBits - 1 \in Nat /\ (WordBits - 1) + 1 = WordBits
    BY <1>1
  <2>2. 2 ^ ((WordBits - 1) + 1) = 2 * 2 ^ (WordBits - 1)
    BY <2>1, PowerStep
  <2> QED BY <2>1, <2>2, PowerPositive DEF TopHalf, W!Word
<1> HIDE DEF TopHalf
<1> DEFINE b == W!Word
           h == TopHalf
<1>3. b * b = 2 * (h * b) /\ h * b \in Nat \ {0} /\ b * b \in Nat \ {0}
  <2> HIDE DEF b, h
  <2>1. b \in Nat \ {0} /\ h \in Nat \ {0} /\ b = 2 * h
    BY <1>2 DEF b, h
  <2>2. h * b \in Nat \ {0} /\ b * b = (2 * h) * b /\ (2 * h) * b = 2 * (h * b)
    BY <2>1
  <2> QED BY <2>2
<1>4. W!DoubleWord = b * b
  BY DEF W!DoubleWord
<1>5. W!DoubleWord \div 2 = h * b
  <2> DEFINE p == h * b
  <2> HIDE DEF p
  <2>1. p \in Nat /\ W!DoubleWord = p * 2 + 0 /\ 0 \in 0..2 - 1
    BY <1>3, <1>4 DEF p
  <2>2. (p * 2 + 0) \div 2 = p
    BY <2>1, Unique
  <2> QED BY <2>1, <2>2 DEF p
<1> QED BY <1>1, <1>2, <1>3, <1>4, <1>5 DEF W!Word

\* A half moved up within a half, and the bits of another moved down below it
LEMMA Moved ==
  ASSUME W!Int64Assumption, NEW k \in 0..WordBits, NEW x \in W!Half, NEW y \in W!Half
  PROVE  LET m == 2 ^ k
             o == 2 ^ (WordBits - k)
         IN  /\ m \in Nat \ {0} /\ o \in Nat \ {0} /\ m * o = W!Word
             /\ W!Shl(x, WordBits - k) = (x % m) * o
             /\ W!Shr(x, k) = x \div m /\ x \div m \in 0..o - 1
             /\ x % m \in 0..m - 1 /\ x = (x \div m) * m + (x % m)
             /\ (x % m) * o + (y \div m) \in W!Half /\ (x % m) * o \in W!Half
<1> DEFINE m == 2 ^ k
           o == 2 ^ (WordBits - k)
           b == W!Word
           e == x \div m
           f == x % m
           g == y \div m
<1>1. k \in Nat /\ WordBits - k \in Nat /\ k + (WordBits - k) = WordBits
  BY WordSizes
<1>2. m \in Nat \ {0} /\ o \in Nat \ {0} /\ m * o = b
  BY <1>1, PowerPositive, PowerSum DEF W!Word
<1>3. x \in Nat /\ x < b /\ y \in Nat /\ y < b /\ b \in Nat \ {0}
  BY WordSizes DEF W!Half
<1>4. /\ e \in Nat /\ f \in 0..m - 1 /\ x = e * m + f
      /\ g \in Nat /\ y % m \in 0..m - 1 /\ y = g * m + (y % m)
  <2> HIDE DEF m
  <2>1. x \in Int /\ y \in Int /\ x >= 0 /\ y >= 0 /\ m \in Nat \ {0}
    BY <1>2, <1>3
  <2>2. x \div m \in Int /\ x % m \in 0..m - 1 /\ x = (x \div m) * m + (x % m) /\ x \div m >= 0
    BY <2>1, Division
  <2>3. y \div m \in Int /\ y % m \in 0..m - 1 /\ y = (y \div m) * m + (y % m) /\ y \div m >= 0
    BY <2>1, Division
  <2> QED BY <2>2, <2>3
<1>5. W!Shl(x, WordBits - k) = (x * o) % b /\ W!Shr(x, k) = e
  BY DEF W!Shl, W!Shr
<1> DEFINE z == y % m
<1> HIDE DEF m, o, b, e, f, g, z
<1>6. e < o /\ g < o
  <2>1. ASSUME NEW i \in Nat, NEW j \in Nat, i * m + j < o * m PROVE i < o
    <3>1. CASE i >= o
      <4>1. PICK c \in Nat : i = o + c
        <5>1. i - o \in Nat /\ i = o + (i - o)
          BY <1>2, <3>1
        <5> QED BY <5>1
      <4>2. i * m = o * m + c * m /\ c * m >= 0 /\ o * m \in Int
        BY <1>2, <4>1
      <4> QED BY <1>2, <2>1, <4>2
    <3> QED BY <1>2, <3>1
  <2>2. m * o = o * m
    BY <1>2
  <2>3. z \in Nat /\ f \in Nat
    BY <1>2, <1>4 DEF z
  <2> QED BY <1>2, <1>3, <1>4, <2>1, <2>2, <2>3 DEF z
<1>7. f * o \in Nat /\ f * o + o <= b /\ x * o = e * b + f * o
  <2>1. f \in Nat /\ f + 1 <= m
    BY <1>2, <1>4
  <2>2. (f + 1) * o <= m * o
    BY <1>2, <2>1
  <2>3. (f + 1) * o = f * o + o /\ f * o \in Nat
    BY <1>2, <2>1
  <2>4. x * o = (e * m) * o + f * o /\ (e * m) * o = e * (m * o)
    BY <1>2, <1>4, <2>1
  <2> QED BY <1>2, <2>2, <2>3, <2>4
<1>8. f * o \in 0..b - 1 /\ f * o + g \in 0..b - 1
  <2> DEFINE p == f * o
  <2> HIDE DEF p
  <2>1. p \in Nat /\ p + o <= b
    BY <1>7 DEF p
  <2>2. p \in 0..b - 1 /\ p + g \in 0..b - 1
    BY <1>2, <1>3, <1>4, <1>6, <2>1
  <2> QED BY <2>2 DEF p
<1>9. (x * o) % b = f * o
  <2> DEFINE p == f * o
  <2>1. x * o = e * b + p /\ p \in 0..b - 1
    BY <1>7, <1>8
  <2> HIDE DEF p
  <2>2. (e * b + p) % b = p
    <3>1. e \in Int /\ p \in Int /\ b \in Nat \ {0} /\ p \in 0..b - 1
      BY <1>3, <1>4, <2>1
    <3> QED BY <3>1, Unique
  <2> QED BY <2>1, <2>2 DEF p
<1> QED BY <1>2, <1>4, <1>5, <1>6, <1>8, <1>9 DEF m, o, b, e, f, g, W!Half

\* One turn of __clzsi2: s.x is what X shifted down leaves of it, below 2 ^ m.
Within(t) == IF t <= WordBits THEN t ELSE WordBits

Found(X, s, m, e) ==
  /\ s \in [x : Nat, r : Nat] /\ e \in Nat /\ s.r + e = WordBits - m
  /\ s.x \in 1..2 ^ m - 1
  /\ s.x * 2 ^ e <= X /\ X < (s.x + 1) * 2 ^ e

\* What one halving of the search in __clzsi2 does to it.
LEMMA UpperTurn ==
  ASSUME W!Int64Assumption, NEW X \in Nat, NEW s, NEW e, NEW t \in {2, 4, 8, 16},
         Found(X, s, Within(2 * t), e)
  PROVE  \E f : Found(X, W!Upper(s, t), Within(t), f)
<1>1. WordBits \in {2, 4, 8, 16, 32} /\ (t >= WordBits \/ 2 * t <= WordBits)
  BY WordSizes
<1>2. CASE t >= WordBits
  <2>1. Within(2 * t) = WordBits /\ Within(t) = WordBits /\ W!Upper(s, t) = s
    BY <1>1, <1>2 DEF Within, W!Upper
  <2> QED BY <2>1
<1>3. CASE 2 * t <= WordBits
  <2> DEFINE p == 2 ^ t
             x == s.x
             g == 2 ^ e
             y == x \div p
  <2>1. Within(2 * t) = 2 * t /\ Within(t) = t /\ ~(t >= WordBits)
    BY <1>1, <1>3 DEF Within
  <2>2. /\ s \in [x : Nat, r : Nat] /\ e \in Nat /\ s.r + e = WordBits - 2 * t
        /\ x \in 1..2 ^ (2 * t) - 1 /\ x * g <= X /\ X < (x + 1) * g
    BY <2>1 DEF Found
  <2>3. p \in Nat \ {0} /\ g \in Nat \ {0} /\ 2 ^ (2 * t) = p * p /\ 2 ^ (e + t) = g * p
    <3>1. t \in Nat /\ 2 * t = t + t
      OBVIOUS
    <3> QED BY <2>2, <3>1, PowerPositive, PowerSum
  <2>4. W!Upper(s, t) = IF x < p THEN [s EXCEPT !.r = @ + t] ELSE [s EXCEPT !.x = x \div p]
    BY <2>1 DEF W!Upper, W!Shr
  <2>5. s = [x |-> x, r |-> s.r] /\ x \in Nat /\ s.r \in Nat /\ x >= 1 /\ x < p * p
    BY <2>2, <2>3
  <2>6. CASE x < p
    <3>1. W!Upper(s, t) = [x |-> x, r |-> s.r + t]
      BY <2>4, <2>5, <2>6
    <3>2. s.r + t + e = WordBits - t /\ s.r + t \in Nat
      BY <1>1, <2>2, <2>5
    <3> HIDE DEF x, p
    <3>3. Found(X, [x |-> x, r |-> s.r + t], t, e)
      BY <2>2, <2>3, <2>5, <2>6, <3>2 DEF Found, p
    <3> QED BY <2>1, <3>1, <3>3
  <2>7. CASE ~(x < p)
    <3>1. W!Upper(s, t) = [x |-> y, r |-> s.r]
      BY <2>4, <2>5, <2>7
    <3>2. s.r + (e + t) = WordBits - t /\ e + t \in Nat
      BY <1>1, <2>2, <2>5
    <3>3. y \in Int /\ x % p \in 0..p - 1 /\ x = y * p + (x % p) /\ y >= 0
      <4> HIDE DEF p, x
      <4> QED BY <2>3, <2>5, Division
    <3> DEFINE z == x % p
    <3> HIDE DEF x, p, y, g, z
    <3>4. y \in 1..p - 1
      <4>1. CASE y = 0
        <5>1. y * p = 0
          BY <2>3, <4>1
        <5> QED BY <2>3, <2>7, <3>3, <5>1 DEF z
      <4>2. CASE y >= p
        <5>1. PICK c \in Nat : y = p + c
          <6>1. y - p \in Nat /\ y = p + (y - p)
            BY <2>3, <3>3, <4>2
          <6> QED BY <6>1
        <5>2. y * p = p * p + c * p /\ c * p >= 0 /\ p * p \in Int
          BY <2>3, <5>1
        <5>3. z \in Nat /\ x = y * p + z
          BY <2>3, <3>3 DEF z
        <5> QED BY <2>3, <2>5, <5>2, <5>3
      <4> QED BY <2>3, <3>3, <4>1, <4>2
    <3>5. y * (g * p) <= X /\ X < (y + 1) * (g * p)
      <4>1. z \in 0..p - 1 /\ x = y * p + z /\ y \in Nat
        BY <3>3 DEF z
      <4>2. y * p <= x /\ x + 1 <= (y + 1) * p
        <5>1. (y + 1) * p = y * p + p /\ y * p \in Int
          BY <2>3, <4>1
        <5> QED BY <2>3, <4>1, <5>1
      <4>3. (y * p) * g <= x * g /\ (x + 1) * g <= ((y + 1) * p) * g
        <5>1. y * p \in Nat /\ (y + 1) * p \in Nat
          BY <2>3, <4>1
        <5>2. \A i, j \in Nat : i <= j => i * g <= j * g
          <6> TAKE i, j \in Nat
          <6> HAVE i <= j
          <6>1. PICK c \in Nat : j = i + c
            <7>1. j - i \in Nat /\ j = i + (j - i)
              OBVIOUS
            <7> QED BY <7>1
          <6>2. j * g = i * g + c * g /\ c * g >= 0 /\ i * g \in Int /\ c * g \in Int
            BY <2>3, <6>1
          <6> QED BY <6>2
        <5> QED BY <2>5, <4>2, <5>1, <5>2
      <4>4. (y * p) * g = y * (g * p) /\ ((y + 1) * p) * g = (y + 1) * (g * p)
        BY <2>3, <4>1
      <4>5. x * g \in Int /\ (x + 1) * g \in Int /\ y * (g * p) \in Int /\ (y + 1) * (g * p) \in Int
        BY <2>3, <2>5, <4>1
      <4> QED BY <2>2, <4>3, <4>4, <4>5 DEF g, x
    <3>6. Found(X, [x |-> y, r |-> s.r], t, e + t)
      BY <2>3, <2>5, <3>2, <3>4, <3>5 DEF Found, p
    <3> QED BY <2>1, <3>1, <3>6
  <2> QED BY <2>6, <2>7
<1> QED BY <1>1, <1>2, <1>3

\* __clzsi2 returns the number of zeros above the highest one.
LEMMA Clz ==
  ASSUME W!Int64Assumption, NEW X \in 1..W!Word - 1
  PROVE  LET c == W!clz(X)
         IN  /\ c \in 0..WordBits - 1
             /\ 2 ^ (WordBits - 1 - c) <= X /\ X < 2 ^ (WordBits - c)
<1> DEFINE s0 == [x |-> X, r |-> 0]
           s1 == W!Upper(s0, 16)
           s2 == W!Upper(s1, 8)
           s3 == W!Upper(s2, 4)
           s4 == W!Upper(s3, 2)
<1>0. X \in Nat /\ WordBits \in {2, 4, 8, 16, 32} /\ W!Word = 2 ^ WordBits /\ W!Word \in Nat
  BY WordSizes
<1>1. Found(X, s0, Within(2 * 16), 0)
  <2>1. Within(2 * 16) = WordBits
    BY <1>0 DEF Within
  <2>2. 2 ^ 0 = 1 /\ X * 1 <= X /\ X < (X + 1) * 1
    BY <1>0
  <2>3. 0 + 0 = WordBits - WordBits
    BY <1>0
  <2> QED BY <1>0, <2>1, <2>2, <2>3 DEF Found
<1> HIDE DEF s0
<1>2. PICK e1 : Found(X, s1, Within(2 * 8), e1)
  <2>1. 2 * 8 = 16
    OBVIOUS
  <2> QED BY <1>0, <1>1, <2>1, UpperTurn
<1> HIDE DEF s1
<1>3. PICK e2 : Found(X, s2, Within(2 * 4), e2)
  <2>1. 2 * 4 = 8
    OBVIOUS
  <2> QED BY <1>0, <1>2, <2>1, UpperTurn
<1> HIDE DEF s2
<1>4. PICK e3 : Found(X, s3, Within(2 * 2), e3)
  <2>1. 2 * 2 = 4
    OBVIOUS
  <2> QED BY <1>0, <1>3, <2>1, UpperTurn
<1> HIDE DEF s3
<1>5. PICK e : Found(X, s4, Within(2), e)
  BY <1>0, <1>4, UpperTurn
<1> DEFINE x == s4.x
           r == s4.r
           g == 2 ^ e
<1>6. W!clz(X) = r + (IF x < 2 THEN 2 - x ELSE 0)
  BY DEF W!clz, s0, s1, s2, s3
<1> HIDE DEF s4
<1>7. /\ x \in 1..3 /\ r \in Nat /\ e \in Nat /\ r + e = WordBits - 2
      /\ x * g <= X /\ X < (x + 1) * g /\ g \in Nat \ {0}
  <2>1. Within(2) = 2 /\ 2 ^ 2 = 4
    BY <1>0 DEF Within
  <2>2. Found(X, s4, 2, e)
    BY <1>5, <2>1
  <2>3. /\ s4 \in [x : Nat, r : Nat] /\ e \in Nat /\ s4.r + e = WordBits - 2
        /\ s4.x \in 1..2 ^ 2 - 1 /\ s4.x * 2 ^ e <= X /\ X < (s4.x + 1) * 2 ^ e
    BY <2>2 DEF Found
  <2>4. r \in Nat /\ 2 ^ 2 - 1 = 3
    BY <2>1, <2>3
  <2>5. g \in Nat \ {0}
    BY <2>3, PowerPositive
  <2> QED BY <2>3, <2>4, <2>5
<1>8. 2 ^ (e + 1) = 2 * g /\ 2 ^ (e + 1 + 1) = 4 * g
  <2>1. e + 1 \in Nat
    BY <1>7
  <2>2. 2 ^ (e + 1) = 2 * 2 ^ e /\ 2 ^ ((e + 1) + 1) = 2 * 2 ^ (e + 1)
    BY <1>7, <2>1, PowerStep
  <2> QED BY <1>7, <2>2
<1> HIDE DEF x, r, g
<1>9. CASE x = 1
  <2>1. W!clz(X) = r + 1
    BY <1>6, <1>7, <1>9
  <2>2. r + 1 \in 0..WordBits - 1 /\ WordBits - 1 - (r + 1) = e /\ WordBits - (r + 1) = e + 1
    BY <1>0, <1>7
  <2>3. g <= X /\ X < 2 * g
    BY <1>7, <1>9
  <2> QED BY <1>8, <2>1, <2>2, <2>3 DEF g
<1>10. CASE x \in {2, 3}
  <2>1. W!clz(X) = r
    BY <1>6, <1>7, <1>10
  <2>2. r \in 0..WordBits - 1 /\ WordBits - 1 - r = e + 1 /\ WordBits - r = e + 1 + 1
    BY <1>0, <1>7
  <2>3. 2 * g <= X /\ X < 4 * g
    BY <1>7, <1>10
  <2> QED BY <1>8, <2>1, <2>2, <2>3
<1> QED BY <1>7, <1>9, <1>10

\* One turn of __ctzsi2: s.x is a power of 2, the j-th.
LEMMA LowerTurn ==
  ASSUME W!Int64Assumption, NEW k \in Nat, NEW s, NEW j \in Nat, NEW t \in {2, 4, 8, 16},
         s \in [x : Nat, r : Nat], s.x = 2 ^ j, s.r + j = k, j < Within(2 * t)
  PROVE  \E i \in Nat : LET u == W!Lower(s, t)
                        IN  u \in [x : Nat, r : Nat] /\ u.x = 2 ^ i /\ u.r + i = k /\ i < Within(t)
<1>1. WordBits \in {2, 4, 8, 16, 32} /\ (t >= WordBits \/ 2 * t <= WordBits)
  BY WordSizes
<1>2. CASE t >= WordBits
  <2>1. Within(2 * t) = WordBits /\ Within(t) = WordBits /\ W!Lower(s, t) = s
    BY <1>1, <1>2 DEF Within, W!Lower
  <2> QED BY <2>1
<1>3. CASE 2 * t <= WordBits
  <2> DEFINE p == 2 ^ t
             y == 2 ^ (j - t)
             r == s.r
  <2>1. Within(2 * t) = 2 * t /\ Within(t) = t /\ ~(t >= WordBits)
    BY <1>1, <1>3 DEF Within
  <2>2. s = [x |-> 2 ^ j, r |-> r] /\ r \in Nat
    OBVIOUS
  <2>3. W!Lower(s, t) = IF 2 ^ j % p = 0 THEN [x |-> 2 ^ j \div p, r |-> r + t] ELSE s
    BY <2>1 DEF W!Lower, W!Shr
  <2>4. p \in Nat \ {0} /\ t \in Nat \ {0}
    BY PowerPositive
  <2>5. CASE j >= t
    <3>1. j - t \in Nat /\ j - t < t /\ j = (j - t) + t
      BY <2>1, <2>5
    <3>2. y \in Nat \ {0} /\ 2 ^ j = y * p
      BY <2>4, <3>1, PowerPositive, PowerSum
    <3>3. 2 ^ j % p = 0 /\ 2 ^ j \div p = y
      <4> HIDE DEF p, y
      <4>1. p \in Nat \ {0} /\ y \in Int /\ 0 \in Int /\ 0 \in 0..p - 1 /\ y * p = y * p + 0
        BY <2>4, <3>2
      <4>2. (y * p + 0) \div p = y /\ (y * p + 0) % p = 0
        BY <4>1, Unique
      <4> QED BY <3>2, <4>1, <4>2
    <3>4. W!Lower(s, t) = [x |-> y, r |-> r + t] /\ r + t \in Nat /\ r + t + (j - t) = k
      BY <2>2, <2>3, <2>4, <3>3
    <3> QED BY <2>1, <3>1, <3>2, <3>4
  <2>6. CASE j < t
    <3>1. t - j \in Nat \ {0} /\ t = (t - j) + j
      BY <2>4, <2>6
    <3> DEFINE g == 2 ^ j
               h == 2 ^ (t - j)
    <3>2. g \in Nat \ {0} /\ h \in Nat \ {0, 1} /\ p = h * g
      <4>1. h > t - j
        BY <3>1, PowerPositive
      <4> QED BY <3>1, <4>1, PowerPositive, PowerSum
    <3>3. g < p
      <4> HIDE DEF g, h, p
      <4>1. PICK c \in Nat : h = c + 2
        <5>1. h - 2 \in Nat /\ h = (h - 2) + 2
          BY <3>2
        <5> QED BY <5>1
      <4>2. h * g = c * g + 2 * g /\ c * g >= 0 /\ c * g \in Int
        BY <3>2, <4>1
      <4> QED BY <3>2, <4>2
    <3>4. g % p = g
      <4> HIDE DEF g, p
      <4>1. p \in Nat \ {0} /\ g \in Int /\ 0 \in Int /\ g \in 0..p - 1 /\ 0 * p + g = g
        BY <2>4, <3>2, <3>3
      <4>2. (0 * p + g) % p = g
        BY <4>1, Unique
      <4> QED BY <4>1, <4>2
    <3>5. W!Lower(s, t) = s
      BY <2>3, <3>2, <3>4
    <3> QED BY <2>1, <2>6, <3>5
  <2> QED BY <2>4, <2>5, <2>6
<1> QED BY <1>1, <1>2, <1>3

\* __ctzsi2 returns the exponent of a power of 2.
LEMMA Ctz ==
  ASSUME W!Int64Assumption, NEW k \in 0..WordBits - 1
  PROVE  W!ctz(2 ^ k) = k
<1> DEFINE Exponent(s, j) == s \in [x : Nat, r : Nat] /\ s.x = 2 ^ j /\ s.r + j = k
           s0 == [x |-> 2 ^ k, r |-> 0]
           s1 == W!Lower(s0, 16)
           s2 == W!Lower(s1, 8)
           s3 == W!Lower(s2, 4)
           s4 == W!Lower(s3, 2)
<1>0. k \in Nat /\ k < WordBits /\ WordBits \in {2, 4, 8, 16, 32}
  BY WordSizes
<1>1. Exponent(s0, k) /\ k < Within(2 * 16)
  <2>1. Within(2 * 16) = WordBits
    BY <1>0 DEF Within
  <2> QED BY <1>0, <2>1, PowerPositive
<1> HIDE DEF s0
<1>2. PICK j1 \in Nat : Exponent(s1, j1) /\ j1 < Within(2 * 8)
  <2>1. 2 * 8 = 16
    OBVIOUS
  <2> QED BY <1>0, <1>1, <2>1, LowerTurn
<1> HIDE DEF s1
<1>3. PICK j2 \in Nat : Exponent(s2, j2) /\ j2 < Within(2 * 4)
  <2>1. 2 * 4 = 8
    OBVIOUS
  <2> QED BY <1>0, <1>2, <2>1, LowerTurn
<1> HIDE DEF s2
<1>4. PICK j3 \in Nat : Exponent(s3, j3) /\ j3 < Within(2 * 2)
  <2>1. 2 * 2 = 4
    OBVIOUS
  <2> QED BY <1>0, <1>3, <2>1, LowerTurn
<1> HIDE DEF s3
<1>5. PICK j \in Nat : Exponent(s4, j) /\ j < Within(2)
  BY <1>0, <1>4, LowerTurn
<1>6. W!ctz(2 ^ k) = s4.r + (IF s4.x % 2 = 1 THEN 0 ELSE 2 - (s4.x % 4) \div 2)
  BY DEF W!ctz, s0, s1, s2, s3
<1> HIDE DEF s4
<1>7. j \in {0, 1}
  BY <1>0, <1>5 DEF Within
<1>8. 2 ^ 0 = 1 /\ 2 ^ 1 = 2
  OBVIOUS
<1>9. CASE j = 0
  <2>1. s4.x = 1 /\ s4.r = k
    BY <1>5, <1>8, <1>9
  <2>2. 1 % 2 = 1
    OBVIOUS
  <2> QED BY <1>0, <1>6, <2>1, <2>2
<1>10. CASE j = 1
  <2>1. s4.x = 2 /\ s4.r + 1 = k /\ s4.r \in Nat
    BY <1>5, <1>8, <1>10
  <2>2. 2 % 2 = 0 /\ 2 - (2 % 4) \div 2 = 1
    OBVIOUS
  <2> QED BY <1>6, <2>1, <2>2
<1> QED BY <1>7, <1>9, <1>10

\* The value of a number kept in two halves.
LEMMA Whole ==
  ASSUME W!Int64Assumption, NEW x \in W!Half, NEW y \in W!Half
  PROVE  /\ x \in Nat /\ y \in Nat /\ x + 1 <= W!Word /\ y + 1 <= W!Word
         /\ x * W!Word \in Nat /\ x * W!Word + y \in 0..W!DoubleWord - 1
         /\ x * W!Word + y < (x + 1) * W!Word
<1> DEFINE b == W!Word
<1>1. b \in Nat \ {0} /\ x \in Nat /\ y \in Nat /\ x + 1 <= b /\ y + 1 <= b
  BY WordSizes DEF W!Half
<1>2. W!DoubleWord = b * b
  BY WordSizes
<1> HIDE DEF b
<1>3. x * b \in Nat /\ (x + 1) * b = x * b + b
  BY <1>1
<1>4. (x + 1) * b <= b * b
  <2>1. PICK c \in Nat : b = (x + 1) + c
    <3>1. b - (x + 1) \in Nat /\ b = (x + 1) + (b - (x + 1))
      BY <1>1
    <3> QED BY <3>1
  <2>2. b * b = (x + 1) * b + c * b
    <3>1. ((x + 1) + c) * b = (x + 1) * b + c * b
      BY <1>1
    <3> QED BY <2>1, <3>1
  <2>3. c * b \in Nat /\ (x + 1) * b \in Nat
    BY <1>1
  <2> QED BY <2>2, <2>3
<1>5. x * b + y < (x + 1) * b /\ x * b + y \in 0..b * b - 1
  <2>1. b * b \in Nat /\ (x + 1) * b \in Nat
    BY <1>1
  <2> QED BY <1>1, <1>3, <1>4, <2>1
<1> QED BY <1>1, <1>2, <1>3, <1>5 DEF b

\* A number moved up by one bit, another bit coming in below: the bit on top is
\* lost.
LEMMA ShiftedUp ==
  ASSUME W!Int64Assumption, NEW x \in W!Half, NEW y \in W!Half, NEW c \in 0..1
  PROVE  LET hi == W!Shl(x, 1) + W!Shr(y, WordBits - 1)
             lo == W!Shl(y, 1) + c
         IN  /\ hi \in W!Half /\ lo \in W!Half
             /\ W!Shr(x, WordBits - 1) \in 0..1
             /\ \E rest \in 0..TopHalf * W!Word - 1 :
                  /\ x * W!Word + y = W!Shr(x, WordBits - 1) * (TopHalf * W!Word) + rest
                  /\ hi * W!Word + lo = 2 * rest + c
<1> DEFINE b == W!Word
           h == TopHalf
           e == x \div h
           f == x % h
           g == y \div h
           z == y % h
<1>1. /\ WordBits - 1 \in 0..WordBits /\ WordBits - (WordBits - 1) = 1 /\ 2 ^ 1 = 2
      /\ b \in Nat \ {0} /\ h \in Nat \ {0} /\ b = 2 * h /\ x \in Nat /\ y \in Nat
  BY WordSizes DEF W!Half
<1>a. ASSUME NEW u \in W!Half, NEW v \in W!Half
      PROVE  /\ W!Shl(u, 1) = (u % h) * 2 /\ W!Shr(u, WordBits - 1) = u \div h /\ u \div h \in 0..1
             /\ u % h \in 0..h - 1 /\ u = (u \div h) * h + (u % h)
             /\ (u % h) * 2 + (v \div h) \in W!Half
  <2> DEFINE k == WordBits - 1
             o == 2 ^ (WordBits - k)
  <2>1. k \in 0..WordBits
    BY <1>1
  <2>2. o = 2 /\ WordBits - k = 1 /\ h = 2 ^ k
    BY <1>1 DEF TopHalf
  <2> HIDE DEF k, h
  <2>3. /\ W!Shl(u, WordBits - k) = (u % 2 ^ k) * o
        /\ W!Shr(u, k) = u \div 2 ^ k /\ u \div 2 ^ k \in 0..o - 1
        /\ u % 2 ^ k \in 0..2 ^ k - 1 /\ u = (u \div 2 ^ k) * 2 ^ k + (u % 2 ^ k)
        /\ (u % 2 ^ k) * o + (v \div 2 ^ k) \in W!Half
    BY <2>1, Moved
  <2>4. W!Shr(u, k) = W!Shr(u, WordBits - 1)
    BY DEF k
  <2>5. 0..o - 1 = 0..1
    BY <2>2
  <2> QED BY <2>2, <2>3, <2>4, <2>5
<1>2. /\ W!Shl(x, 1) = f * 2 /\ f \in 0..h - 1 /\ x = e * h + f /\ e \in 0..1
      /\ f * 2 + g \in W!Half /\ W!Shr(x, WordBits - 1) = e
  BY <1>a
<1>3. /\ W!Shl(y, 1) = z * 2 /\ z \in 0..h - 1 /\ y = g * h + z /\ g \in 0..1
      /\ W!Shr(y, WordBits - 1) = g
  BY <1>a
<1> DEFINE hi == W!Shl(x, 1) + W!Shr(y, WordBits - 1)
           lo == W!Shl(y, 1) + c
           rest == f * b + y
<1>4. hi = f * 2 + g /\ lo = z * 2 + c /\ hi \in W!Half
  BY <1>2, <1>3
<1>5. W!Half = 0..b - 1
  BY DEF W!Half
<1> HIDE DEF b, h, e, f, g, z, hi, lo
<1>6. lo \in W!Half
  BY <1>1, <1>3, <1>4, <1>5
<1>7. f * b \in Nat /\ f * b + b <= h * b /\ h * b \in Nat
  <2>1. PICK k \in Nat : h = f + 1 + k
    <3>1. h - (f + 1) \in Nat /\ h = f + 1 + (h - (f + 1))
      BY <1>1, <1>2
    <3> QED BY <3>1
  <2>2. f \in Nat
    BY <1>2
  <2>3. (f + 1 + k) * b = f * b + b + k * b
    BY <1>1, <2>2
  <2>4. k * b \in Nat /\ f * b \in Nat
    BY <1>1, <2>2
  <2> QED BY <1>1, <2>1, <2>3, <2>4
<1>8. rest \in 0..h * b - 1
  BY <1>1, <1>5, <1>7
<1>9. x * b + y = e * (h * b) + rest
  <2>1. (e * h + f) * b = e * (h * b) + f * b /\ e * (h * b) \in Int
    BY <1>1, <1>2
  <2> QED BY <1>1, <1>2, <1>7, <2>1
<1>10. hi * b + lo = 2 * rest + c
  <2>1. (f * 2 + g) * b = 2 * (f * b) + g * b /\ g * b = 2 * (g * h) /\ g * h \in Int
    <3>1. g = 0 \/ g = 1
      BY <1>3
    <3>2. f \in Nat
      BY <1>2
    <3>3. CASE g = 0
      BY <1>1, <3>2, <3>3
    <3>4. CASE g = 1
      BY <1>1, <3>2, <3>4
    <3> QED BY <3>1, <3>3, <3>4
  <2>2. z \in Nat
    BY <1>3
  <2> QED BY <1>1, <1>3, <1>4, <1>7, <2>1, <2>2
<1>11. \E rest1 \in 0..h * b - 1 : x * b + y = e * (h * b) + rest1 /\ hi * b + lo = 2 * rest1 + c
  BY <1>8, <1>9, <1>10
<1> QED BY <1>2, <1>4, <1>6, <1>11 DEF b, h, hi, lo

\* A number moved down by no more than the bits of a half.
LEMMA MovedDown ==
  ASSUME W!Int64Assumption, NEW k \in 0..WordBits, NEW x \in W!Half, NEW y \in W!Half
  PROVE  LET hi == W!Shr(x, k)
             lo == W!Shl(x, WordBits - k) + W!Shr(y, k)
         IN  /\ hi \in W!Half /\ lo \in W!Half /\ 2 ^ k \in Nat \ {0} /\ y % 2 ^ k \in 0..2 ^ k - 1
             /\ x * W!Word + y = (hi * W!Word + lo) * 2 ^ k + (y % 2 ^ k)
<1> DEFINE b == W!Word
           m == 2 ^ k
           o == 2 ^ (WordBits - k)
           e == x \div m
           f == x % m
           g == y \div m
           z == y % m
           hi == W!Shr(x, k)
           lo == W!Shl(x, WordBits - k) + W!Shr(y, k)
<1>1. /\ m \in Nat \ {0} /\ o \in Nat \ {0} /\ m * o = b
      /\ W!Shl(x, WordBits - k) = f * o /\ hi = e /\ e \in 0..o - 1
      /\ f \in 0..m - 1 /\ x = e * m + f /\ f * o + g \in W!Half
  BY Moved
<1>2. W!Shr(y, k) = g /\ g \in 0..o - 1 /\ z \in 0..m - 1 /\ y = g * m + z
  BY Moved
<1>3. W!Half = 0..b - 1 /\ b \in Nat \ {0}
  BY WordSizes DEF W!Half
<1>4. lo = f * o + g
  BY <1>1, <1>2
<1> HIDE DEF b, m, o, e, f, g, z, hi, lo
<1>5. hi \in W!Half
  <2>1. o <= b
    <3>1. PICK c \in Nat : m = 1 + c
      <4>1. m - 1 \in Nat /\ m = 1 + (m - 1)
        BY <1>1
      <4> QED BY <4>1
    <3>2. (1 + c) * o = o + c * o /\ c * o \in Nat
      BY <1>1, <3>1
    <3> QED BY <1>1, <3>1, <3>2
  <2> QED BY <1>1, <1>3, <2>1
<1>6. x * b + y = (hi * b + lo) * m + z
  <2>1. e \in Nat /\ f \in Nat /\ g \in Nat /\ z \in Nat
    BY <1>1, <1>2
  <2>2. (e * m + f) * b = (e * m) * b + f * b /\ f * b = (f * o) * m
    <3>1. f * (m * o) = (f * o) * m
      BY <1>1, <2>1
    <3> QED BY <1>1, <2>1, <3>1
  <2>3. (e * b + (f * o + g)) * m = (e * b) * m + (f * o) * m + g * m /\ (e * b) * m = (e * m) * b
    <3>1. e * b \in Nat /\ f * o \in Nat
      BY <1>1, <1>3, <2>1
    <3>2. \A i, j, l \in Nat : (i + (j + l)) * m = i * m + j * m + l * m
      BY <1>1
    <3>3. (e * b) * m = (e * m) * b
      BY <1>1, <1>3, <2>1
    <3> QED BY <2>1, <3>1, <3>2, <3>3
  <2>4. (e * m) * b \in Nat /\ (f * o) * m \in Nat /\ g * m \in Nat
    <3>1. e * m \in Nat /\ f * o \in Nat
      BY <1>1, <2>1
    <3> QED BY <1>1, <1>3, <2>1, <3>1
  <2> QED BY <1>1, <1>2, <1>4, <2>1, <2>2, <2>3, <2>4
<1> QED BY <1>1, <1>2, <1>3, <1>4, <1>5, <1>6 DEF b, m, z, hi, lo

\* x are the upper s bits of a number and y the others, on top of a doubleword.
Split(a, s, x, y) ==
  \E left \in 0..2 ^ s - 1 : y = left * 2 ^ (2 * WordBits - s) /\ a = x * 2 ^ s + left

\* The distance is smaller than a half.
LEMMA ShiftLower ==
  ASSUME W!Int64Assumption, NEW s \in 1..WordBits - 1, NEW x \in W!Half, NEW y \in W!Half
  PROVE  LET hi == W!Shr(x, s)
             lo == W!Shl(x, WordBits - s) + W!Shr(y, s)
             t == W!Shl(y, WordBits - s)
         IN  /\ hi \in W!Half /\ lo \in W!Half /\ t \in W!Half
             /\ Split(x * W!Word + y, s, hi * W!Word + lo, t * W!Word + 0)
<1> DEFINE b == W!Word
           o == 2 ^ (WordBits - s)
           left == y % 2 ^ s
           t == W!Shl(y, WordBits - s)
           hi == W!Shr(x, s)
           lo == W!Shl(x, WordBits - s) + W!Shr(y, s)
<1>0. s \in 0..WordBits
  BY WordSizes
<1>1. hi \in W!Half /\ lo \in W!Half /\ left \in 0..2 ^ s - 1 /\ x * b + y = (hi * b + lo) * 2 ^ s + left
  BY <1>0, MovedDown
<1>2. t = left * o /\ o \in Nat \ {0} /\ left * o \in W!Half
  BY <1>0, Moved
<1>3. 2 ^ (2 * WordBits - s) = b * o /\ b \in Nat
  <2>1. WordBits \in Nat /\ WordBits - s \in Nat /\ 2 * WordBits - s = WordBits + (WordBits - s)
    BY WordSizes
  <2> QED BY <2>1, PowerSum, PowerPositive DEF W!Word
<1>4. 2 ^ s \in Nat \ {0}
  BY PowerPositive
<1> HIDE DEF b, o, left, t, hi, lo
<1>5. t * b + 0 = left * (b * o)
  <2>1. left \in Nat
    BY <1>1, <1>4
  <2>2. (left * o) * b = left * (b * o) /\ left * (b * o) \in Nat
    BY <1>2, <1>3, <2>1
  <2> QED BY <1>2, <2>2
<1>6. t * b + 0 = left * 2 ^ (2 * WordBits - s)
  BY <1>3, <1>5
<1>7. Split(x * b + y, s, hi * b + lo, t * b + 0)
  BY <1>1, <1>6 DEF Split
<1> QED BY <1>1, <1>2, <1>7 DEF b, t, hi, lo

\* The distance is that of a half.
LEMMA ShiftHalf ==
  ASSUME W!Int64Assumption, NEW x \in W!Half, NEW y \in W!Half
  PROVE  Split(x * W!Word + y, WordBits, 0 * W!Word + x, y * W!Word + 0)
<1> DEFINE b == W!Word
<1>1. 2 * WordBits - WordBits = WordBits /\ b = 2 ^ WordBits /\ b \in Nat
  BY WordSizes
<1>2. W!Half = 0..b - 1
  BY DEF W!Half
<1> HIDE DEF b
<1>3. y \in 0..b - 1 /\ y * b + 0 = y * b /\ 0 * b + x = x
  BY <1>1, <1>2
<1>4. Split(x * b + y, WordBits, 0 * b + x, y * b + 0)
  BY <1>1, <1>3 DEF Split
<1> QED BY <1>4 DEF b

\* The distance is larger than a half.
LEMMA ShiftUpper ==
  ASSUME W!Int64Assumption, NEW s \in 1..2 * WordBits - 1, s > WordBits,
         NEW x \in W!Half, NEW y \in W!Half
  PROVE  LET hi == W!Shl(x, 2 * WordBits - s) + W!Shr(y, s - WordBits)
             lo == W!Shl(y, 2 * WordBits - s)
             t == W!Shr(x, s - WordBits)
         IN  /\ hi \in W!Half /\ lo \in W!Half /\ t \in W!Half
             /\ Split(x * W!Word + y, s, 0 * W!Word + t, hi * W!Word + lo)
<1> DEFINE b == W!Word
           k == s - WordBits
           m == 2 ^ k
           o == 2 ^ (WordBits - k)
           e == x \div m
           f == x % m
           g == y \div m
           z == y % m
           t == W!Shr(x, s - WordBits)
           hi == W!Shl(x, 2 * WordBits - s) + W!Shr(y, s - WordBits)
           lo == W!Shl(y, 2 * WordBits - s)
<1>0. WordBits \in Nat /\ k \in 0..WordBits /\ k \in Nat /\ 2 * WordBits - s = WordBits - k /\ s = k + WordBits
  <2>1. WordBits \in Nat
    BY WordSizes
  <2>2. s \in Nat /\ s <= 2 * WordBits - 1
    BY <2>1
  <2> QED BY <2>1, <2>2
<1>1. /\ t = W!Shr(x, k) /\ hi = W!Shl(x, WordBits - k) + W!Shr(y, k)
      /\ lo = W!Shl(y, WordBits - k)
  BY <1>0
<1>2. 2 ^ s = m * b /\ b \in Nat \ {0} /\ 2 ^ (2 * WordBits - s) = o
  BY <1>0, WordSizes, PowerSum
<1>3. W!Half = 0..b - 1
  BY DEF W!Half
<1> HIDE DEF k
<1>4. /\ m \in Nat \ {0} /\ o \in Nat \ {0} /\ m * o = b
      /\ W!Shl(x, WordBits - k) = f * o /\ W!Shr(x, k) = e /\ e \in 0..o - 1
      /\ f \in 0..m - 1 /\ x = e * m + f /\ f * o + g \in W!Half
  BY <1>0, Moved
<1>5. /\ W!Shr(y, k) = g /\ g \in 0..o - 1 /\ z \in 0..m - 1 /\ y = g * m + z
      /\ W!Shl(y, WordBits - k) = z * o /\ z * o \in W!Half
  BY <1>0, Moved
<1> HIDE DEF b, m, o, e, f, g, z, t, hi, lo
<1>6. t = e /\ hi = f * o + g /\ lo = z * o
  BY <1>1, <1>4, <1>5
<1>7. e \in Nat /\ f \in Nat /\ g \in Nat /\ z \in Nat /\ x \in Nat /\ y \in 0..b - 1
  BY <1>3, <1>4, <1>5
<1>8. t \in W!Half
  <2>1. e <= e * m
    <3>1. PICK c \in Nat : m = 1 + c
      <4>1. m - 1 \in Nat /\ m = 1 + (m - 1)
        BY <1>4
      <4> QED BY <4>1
    <3>2. e * (1 + c) = e + e * c /\ e * c \in Nat
      BY <1>7, <3>1
    <3> QED BY <1>7, <3>1, <3>2
  <2>2. e * m \in Nat
    BY <1>4, <1>7
  <2>3. x \in 0..b - 1
    BY <1>3
  <2> QED BY <1>2, <1>3, <1>4, <1>6, <1>7, <2>1, <2>2, <2>3
<1> DEFINE left == f * b + y
<1>9. left \in 0..m * b - 1
  <2>1. PICK c \in Nat : m = f + 1 + c
    <3>1. m - (f + 1) \in Nat /\ m = f + 1 + (m - (f + 1))
      BY <1>4
    <3> QED BY <3>1
  <2>2. (f + 1 + c) * b = f * b + b + c * b /\ c * b \in Nat /\ f * b \in Nat
    BY <1>2, <1>7, <2>1
  <2> QED BY <1>2, <1>7, <2>1, <2>2
<1>10. x * b + y = t * (m * b) + left
  <2>1. (e * m + f) * b = e * (m * b) + f * b /\ e * (m * b) \in Nat /\ f * b \in Nat
    BY <1>2, <1>4, <1>7
  <2> QED BY <1>4, <1>6, <1>7, <2>1
<1>11. hi * b + lo = left * o
  <2>1. (f * b + y) * o = (f * b) * o + y * o
    <3>1. f * b \in Nat /\ y \in Nat
      BY <1>2, <1>7
    <3> QED BY <1>4, <3>1
  <2>2. (f * o + g) * b = (f * o) * b + g * b /\ (f * o) * b = (f * b) * o
    <3>1. f * o \in Nat
      BY <1>4, <1>7
    <3>2. (f * o + g) * b = (f * o) * b + g * b
      BY <1>2, <1>7, <3>1
    <3>3. (f * o) * b = (f * b) * o
      BY <1>2, <1>4, <1>7
    <3> QED BY <3>2, <3>3
  <2>3. y * o = g * b + z * o
    <3>1. (g * m + z) * o = (g * m) * o + z * o
      <4>1. g * m \in Nat
        BY <1>4, <1>7
      <4> QED BY <1>4, <1>7, <4>1
    <3>2. (g * m) * o = g * (m * o)
      BY <1>4, <1>7
    <3> QED BY <1>4, <1>5, <3>1, <3>2
  <2>4. (f * b) * o \in Nat /\ g * b \in Nat /\ z * o \in Nat
    <3>1. f * b \in Nat
      BY <1>2, <1>7
    <3> QED BY <1>2, <1>4, <1>7, <3>1
  <2> QED BY <1>6, <2>1, <2>2, <2>3, <2>4
<1>12. Split(x * b + y, s, 0 * b + t, hi * b + lo)
  <2>1. 0 * b + t = t
    BY <1>2, <1>6, <1>7
  <2> HIDE DEF left
  <2>2. /\ left \in 0..2 ^ s - 1 /\ hi * b + lo = left * 2 ^ (2 * WordBits - s)
        /\ x * b + y = (0 * b + t) * 2 ^ s + left
    BY <1>2, <1>9, <1>10, <1>11, <2>1
  <2> QED BY <2>2 DEF Split
<1>13. hi \in W!Half /\ lo \in W!Half
  BY <1>4, <1>5, <1>6
<1> QED BY <1>8, <1>12, <1>13 DEF b, t, hi, lo

\* Products of natural numbers keep their order.
LEMMA Ordered ==
  /\ \A i, j, k \in Nat : i <= j => i * k <= j * k
  /\ \A i, j, k \in Nat : i * k < j * k => i < j
<1>1. ASSUME NEW i \in Nat, NEW j \in Nat, NEW k \in Nat, i <= j PROVE i * k <= j * k
  <2>1. PICK c \in Nat : j = i + c
    <3>1. j - i \in Nat /\ j = i + (j - i)
      BY <1>1
    <3> QED BY <3>1
  <2>2. (i + c) * k = i * k + c * k /\ c * k \in Nat /\ i * k \in Nat
    OBVIOUS
  <2> QED BY <2>1, <2>2
<1>2. ASSUME NEW i \in Nat, NEW j \in Nat, NEW k \in Nat, i * k < j * k PROVE i < j
  <2>1. ASSUME j <= i PROVE FALSE
    <3>1. j * k <= i * k
      BY <1>1, <2>1
    <3>2. j * k \in Nat /\ i * k \in Nat
      OBVIOUS
    <3> QED BY <1>2, <3>1, <3>2
  <2> QED BY <2>1
<1> QED BY <1>1, <1>2

\* The zeros on top bound a number.
LEMMA Magnitudes ==
  ASSUME W!Int64Assumption, NEW x \in W!Half \ {0}, NEW y \in W!Half
  PROVE  LET c == W!clz(x)
         IN  /\ c \in 0..WordBits - 1
             /\ 2 ^ (WordBits - 1 - c) \in Nat \ {0} /\ 2 ^ (WordBits - c) \in Nat \ {0}
             /\ 2 ^ (WordBits - 1 - c) <= x /\ x < 2 ^ (WordBits - c)
             /\ 2 ^ (WordBits - 1 - c) * W!Word <= x * W!Word + y
             /\ x * W!Word + y < 2 ^ (WordBits - c) * W!Word
<1> DEFINE b == W!Word
           c == W!clz(x)
           p == 2 ^ (WordBits - 1 - c)
           o == 2 ^ (WordBits - c)
<1>0. x \in 1..W!Word - 1 /\ WordBits \in Nat /\ b \in Nat \ {0}
  BY WordSizes DEF W!Half
<1>1. c \in 0..WordBits - 1 /\ p <= x /\ x < o
  BY <1>0, Clz
<1>2. p \in Nat \ {0} /\ o \in Nat \ {0}
  <2> HIDE DEF c
  <2>1. WordBits - 1 - c \in Nat /\ WordBits - c \in Nat
    BY <1>0, <1>1
  <2> QED BY <2>1, PowerPositive
<1>3. x * b \in Nat /\ x * b + y < (x + 1) * b /\ y \in Nat /\ x \in Nat /\ x + 1 \in Nat
  BY Whole
<1> HIDE DEF b, c, p, o
<1>4. p * b <= x * b /\ (x + 1) * b <= o * b
  <2>1. x + 1 <= o
    BY <1>1, <1>2, <1>3
  <2> QED BY <1>0, <1>1, <1>2, <1>3, <2>1, Ordered
<1>5. p * b \in Nat /\ o * b \in Nat /\ (x + 1) * b \in Nat
  BY <1>0, <1>2, <1>3
<1>6. p * b <= x * b + y /\ x * b + y < o * b
  BY <1>3, <1>4, <1>5
<1> QED BY <1>1, <1>2, <1>6 DEF b, c, p, o

\* Denominators of more than a half: what the distance of the two numbers says.
LEMMA FarApart ==
  ASSUME W!Int64Assumption, NEW x \in W!Half \ {0}, NEW y \in W!Half,
         NEW u \in W!Half \ {0}, NEW v \in W!Half
  PROVE  LET k == W!clz(u) - W!clz(x)
             a == x * W!Word + y
             e == u * W!Word + v
         IN  /\ k \in Int /\ k <= WordBits - 1 /\ (k = WordBits - 1 => u = 1)
             /\ k < 0 => a < e
             /\ k >= 0 => a < e * 2 ^ (k + 1)
             /\ k >= 0 /\ e > TopHalf * W!Word => k = 0 /\ a >= TopHalf * W!Word
<1> DEFINE b == W!Word
           cx == W!clz(x)
           cu == W!clz(u)
           px == 2 ^ (WordBits - 1 - cx)
           ox == 2 ^ (WordBits - cx)
           pu == 2 ^ (WordBits - 1 - cu)
           ou == 2 ^ (WordBits - cu)
           a == x * b + y
           e == u * b + v
           k == cu - cx
<1>1. /\ cx \in 0..WordBits - 1 /\ px \in Nat \ {0} /\ ox \in Nat \ {0}
      /\ px <= x /\ x < ox /\ px * b <= a /\ a < ox * b
  BY Magnitudes
<1>2. /\ cu \in 0..WordBits - 1 /\ pu \in Nat \ {0} /\ ou \in Nat \ {0}
      /\ pu <= u /\ u < ou /\ pu * b <= e /\ e < ou * b
  BY Magnitudes
<1>3. WordBits \in Nat /\ b \in Nat \ {0} /\ TopHalf \in Nat \ {0} /\ TopHalf * b \in Nat
  BY WordSizes
<1>4. a \in Nat /\ e \in Nat /\ u \in Nat
  BY Whole
<1> HIDE DEF b, cx, cu, a, e
<1>5. k \in Int /\ k <= WordBits - 1
  BY <1>1, <1>2, <1>3
<1>6. ASSUME k = WordBits - 1 PROVE u = 1
  <2>1. WordBits - cu = 1
    BY <1>1, <1>2, <1>3, <1>6
  <2>2. 2 ^ 1 = 2
    OBVIOUS
  <2>3. u < 2 /\ u # 0
    BY <1>2, <2>1, <2>2
  <2> QED BY <1>4, <2>3
<1>7. ASSUME k < 0 PROVE a < e
  <2>1. WordBits - cx \in Nat /\ (WordBits - 1 - cu) - (WordBits - cx) \in Nat
    BY <1>1, <1>2, <1>3, <1>7
  <2> DEFINE i == (WordBits - 1 - cu) - (WordBits - cx)
  <2>2. WordBits - 1 - cu = (WordBits - cx) + i
    BY <1>1, <1>2, <1>3
  <2>3. pu = ox * 2 ^ i
    <3> HIDE DEF i
    <3>1. 2 ^ ((WordBits - cx) + i) = 2 ^ (WordBits - cx) * 2 ^ i
      BY <2>1, PowerSum DEF i
    <3> QED BY <2>2, <3>1
  <2>4. 2 ^ i \in Nat \ {0}
    BY <2>1, PowerPositive
  <2> DEFINE f == 2 ^ i
  <2> HIDE DEF ox, pu, f
  <2>5. pu >= ox
    <3>1. 1 * ox <= f * ox
      BY <1>1, <2>4, Ordered DEF f
    <3>2. f * ox = ox * f /\ 1 * ox = ox /\ f * ox \in Nat
      BY <1>1, <2>4 DEF f
    <3> QED BY <1>1, <2>3, <2>4, <3>1, <3>2 DEF f
  <2>6. ox * b <= pu * b /\ ox * b \in Nat /\ pu * b \in Nat
    BY <1>1, <1>2, <1>3, <2>5, Ordered
  <2> QED BY <1>1, <1>2, <1>4, <2>6
<1>8. ASSUME k >= 0 PROVE a < e * 2 ^ (k + 1)
  <2>1. k + 1 \in Nat /\ WordBits - 1 - cu \in Nat /\ (WordBits - 1 - cu) + (k + 1) = WordBits - cx
    BY <1>1, <1>2, <1>3, <1>8
  <2> DEFINE f == 2 ^ (k + 1)
  <2>2. ox = pu * f /\ f \in Nat \ {0}
    <3> HIDE DEF k
    <3>1. 2 ^ ((WordBits - 1 - cu) + (k + 1)) = 2 ^ (WordBits - 1 - cu) * 2 ^ (k + 1)
      BY <2>1, PowerSum
    <3> QED BY <2>1, <3>1, PowerPositive
  <2> HIDE DEF ox, pu, f
  <2>3. ox * b = (pu * b) * f /\ pu * b \in Nat
    BY <1>2, <1>3, <2>2
  <2>4. (pu * b) * f <= e * f /\ e * f \in Nat
    BY <1>2, <1>4, <2>2, <2>3, Ordered
  <2>5. (pu * b) * f \in Nat
    BY <2>2, <2>3
  <2>6. a < e * f
    BY <1>1, <1>4, <2>3, <2>4, <2>5
  <2> QED BY <2>6 DEF f
<1>9. ASSUME k >= 0, e > TopHalf * b PROVE k = 0 /\ a >= TopHalf * b
  <2>1. cu = 0
    <3> SUFFICES ASSUME cu # 0 PROVE FALSE
      OBVIOUS
    <3>1. WordBits - cu \in Nat /\ cu - 1 \in Nat /\ WordBits - 1 = (WordBits - cu) + (cu - 1)
      BY <1>2, <1>3
    <3>2. TopHalf = ou * 2 ^ (cu - 1) /\ 2 ^ (cu - 1) \in Nat \ {0}
      BY <3>1, PowerSum, PowerPositive DEF TopHalf
    <3> DEFINE f == 2 ^ (cu - 1)
    <3> HIDE DEF f, ou
    <3>3. ou <= TopHalf
      <4>1. 1 * ou <= f * ou
        BY <1>2, <3>2, Ordered DEF f
      <4>2. f * ou = ou * f /\ 1 * ou = ou
        BY <1>2, <3>2 DEF f
      <4> QED BY <3>2, <4>1, <4>2 DEF f
    <3>4. ou * b <= TopHalf * b /\ ou * b \in Nat
      BY <1>2, <1>3, <3>3, Ordered
    <3> QED BY <1>2, <1>3, <1>4, <1>9, <3>4
  <2>2. cx = 0 /\ k = 0
    BY <1>1, <1>9, <2>1
  <2>3. px = TopHalf
    <3>1. WordBits - 1 - cx = WordBits - 1
      BY <1>3, <2>2
    <3> QED BY <3>1 DEF TopHalf
  <2>4. a >= TopHalf * b
    BY <1>1, <2>3
  <2> QED BY <2>2, <2>4
<1> QED BY <1>5, <1>6, <1>7, <1>8, <1>9 DEF b, cx, cu, a, e

\* Denominators of a half that are no power of 2.
LEMMA FarBelow ==
  ASSUME W!Int64Assumption, NEW x \in W!Half \ {0}, NEW y \in W!Half,
         NEW v \in W!Half \ {0}, ~W!PowerOfTwo(v)
  PROVE  LET s == 1 + WordBits + W!clz(v) - W!clz(x)
         IN  /\ s \in 1..2 * WordBits - 1
             /\ x * W!Word + y < v * 2 ^ s
<1> DEFINE b == W!Word
           cx == W!clz(x)
           cv == W!clz(v)
           ox == 2 ^ (WordBits - cx)
           pv == 2 ^ (WordBits - 1 - cv)
           ov == 2 ^ (WordBits - cv)
           a == x * b + y
           s == 1 + WordBits + cv - cx
           f == 2 ^ s
<1>1. cx \in 0..WordBits - 1 /\ ox \in Nat \ {0} /\ a < ox * b
  BY Magnitudes
<1>2. cv \in 0..WordBits - 1 /\ pv \in Nat \ {0} /\ ov \in Nat \ {0} /\ pv <= v /\ v < ov
  BY Magnitudes
<1>3. WordBits \in Nat /\ WordBits >= 2 /\ b \in Nat \ {0} /\ b = 2 ^ WordBits
  BY WordSizes
<1>4. a \in Nat /\ v \in Nat
  BY Whole
<1> HIDE DEF b, cx, cv, a
<1>5. cv # WordBits - 1
  <2> SUFFICES ASSUME cv = WordBits - 1 PROVE FALSE
    OBVIOUS
  <2>1. WordBits - cv = 1
    BY <1>3
  <2>2. 2 ^ 1 = 2 /\ 2 ^ 0 = 1
    OBVIOUS
  <2>3. v < 2
    BY <1>2, <2>1, <2>2
  <2>4. v = 1 /\ 0 \in 0..WordBits - 1
    BY <1>3, <1>4, <2>3
  <2> QED BY <2>2, <2>4 DEF W!PowerOfTwo
<1>6. s \in 1..2 * WordBits - 1 /\ s \in Nat
  BY <1>1, <1>2, <1>3, <1>5
<1>7. ox * b = pv * f /\ f \in Nat \ {0}
  <2>1. /\ WordBits - cx \in Nat /\ WordBits - 1 - cv \in Nat
        /\ (WordBits - 1 - cv) + s = (WordBits - cx) + WordBits
    BY <1>1, <1>2, <1>3
  <2> HIDE DEF s
  <2>2. 2 ^ ((WordBits - 1 - cv) + s) = 2 ^ (WordBits - 1 - cv) * 2 ^ s
    BY <1>6, <2>1, PowerSum
  <2>3. 2 ^ ((WordBits - cx) + WordBits) = 2 ^ (WordBits - cx) * 2 ^ WordBits
    BY <1>3, <2>1, PowerSum
  <2> QED BY <1>3, <1>6, <2>1, <2>2, <2>3, PowerPositive
<1> HIDE DEF s, f, ox, pv
<1>8. a < v * f
  <2>1. pv * f <= v * f
    BY <1>2, <1>4, <1>7, Ordered
  <2>2. pv * f \in Nat /\ v * f \in Nat
    BY <1>2, <1>4, <1>7
  <2> QED BY <1>1, <1>4, <1>7, <2>1, <2>2
<1> QED BY <1>6, <1>8 DEF b, cx, cv, a, s, f

\* Between two iterations: a is the numerator, e the denominator, y what is in q
\* and x what is in r; s bits of a are to be seen, c is the bit found last.
Progress(a, e, y, x, s, c) ==
  \E seen, left \in Nat :
    /\ seen < 2 ^ (2 * WordBits - s) /\ left < 2 ^ s
    /\ y = left * 2 ^ (2 * WordBits - s) + seen
    /\ x < e /\ a = (e * (2 * seen + c) + x) * 2 ^ s + left

\* The shifted numerator starts the loop.
LEMMA LoopStart ==
  ASSUME W!Int64Assumption, NEW s \in 1..2 * WordBits - 1, NEW a \in Nat, NEW e \in Nat,
         NEW x \in Nat, NEW y \in Nat, Split(a, s, x, y), a < e * 2 ^ s
  PROVE  Progress(a, e, y, x, s, 0)
<1> DEFINE f == 2 ^ s
           o == 2 ^ (2 * WordBits - s)
<1>1. f \in Nat \ {0} /\ o \in Nat \ {0}
  <2>1. WordBits \in Nat
    BY WordSizes
  <2>2. 2 * WordBits - s \in Nat /\ s \in Nat
    BY <2>1
  <2> QED BY <2>2, PowerPositive
<1>2. PICK left \in 0..f - 1 : y = left * o /\ a = x * f + left
  BY DEF Split
<1>3. a < e * f
  OBVIOUS
<1> HIDE DEF f, o
<1>4. left \in Nat /\ left < f
  BY <1>1, <1>2
<1>5. x < e
  <2>1. x * f \in Nat /\ e * f \in Nat
    BY <1>1
  <2>2. x * f < e * f
    BY <1>2, <1>3, <1>4, <2>1
  <2> QED BY <1>1, <2>2, Ordered
<1>6. y = left * o + 0 /\ a = (e * (2 * 0 + 0) + x) * f + left /\ 0 < o
  <2>1. left * o \in Nat /\ e * (2 * 0 + 0) + x = x
    BY <1>1, <1>4
  <2> QED BY <1>1, <1>2, <2>1
<1> QED BY <1>4, <1>5, <1>6 DEF Progress, f, o

\* The same for all numbers, without the halves.
LEMMA ShiftedIn ==
  ASSUME W!Int64Assumption
  PROVE  \A x, y \in W!Half, c \in 0..1 :
           /\ W!Shr(x, WordBits - 1) \in 0..1
           /\ \E rest \in 0..TopHalf * W!Word - 1 :
                /\ x * W!Word + y = W!Shr(x, WordBits - 1) * (TopHalf * W!Word) + rest
                /\ (W!Shl(x, 1) + W!Shr(y, WordBits - 1)) * W!Word + (W!Shl(y, 1) + c) = 2 * rest + c
<1> TAKE x, y \in W!Half, c \in 0..1
<1> QED BY ShiftedUp

\* One iteration, of which hi and lo are the halves of q, hj and lj those of r.
LEMMA LoopTurn ==
  ASSUME W!Int64Assumption, NEW s \in 1..2 * WordBits - 1, NEW c \in 0..1,
         NEW a \in 0..W!DoubleWord - 1, NEW e \in 1..W!DoubleWord - 1,
         NEW hi \in W!Half, NEW lo \in W!Half, NEW hj \in W!Half, NEW lj \in W!Half,
         Progress(a, e, hi * W!Word + lo, hj * W!Word + lj, s, c),
         e > TopHalf * W!Word => s = 1 /\ a >= TopHalf * W!Word
  PROVE  LET uh == W!Shl(hj, 1) + W!Shr(lj, WordBits - 1)
             ul == W!Shl(lj, 1) + W!Shr(hi, WordBits - 1)
             up == uh * W!Word + ul
             found == IF (e - up - 1) % W!DoubleWord >= W!DoubleWord \div 2 THEN 1 ELSE 0
             qh == W!Shl(hi, 1) + W!Shr(lo, WordBits - 1)
             ql == W!Shl(lo, 1) + c
             x == (up - found * e) % W!DoubleWord
         IN  /\ qh \in W!Half /\ ql \in W!Half /\ x \in 0..W!DoubleWord - 1
             /\ Progress(a, e, qh * W!Word + ql, x, s - 1, found)
<1> DEFINE b == W!Word
           H == TopHalf * b
           bit == W!Shr(hi, WordBits - 1)
           top == W!Shr(hj, WordBits - 1)
           uh == W!Shl(hj, 1) + W!Shr(lj, WordBits - 1)
           ul == W!Shl(lj, 1) + bit
           up == uh * b + ul
           D == W!DoubleWord
           found == IF (e - up - 1) % D >= D \div 2 THEN 1 ELSE 0
           qh == W!Shl(hi, 1) + W!Shr(lo, WordBits - 1)
           ql == W!Shl(lo, 1) + c
           y == hi * b + lo
           x == hj * b + lj
           yy == qh * b + ql
           xx == (up - found * e) % D
           p == 2 ^ (2 * WordBits - s)
           T == 2 ^ (s - 1)
<1>1. WordBits \in Nat /\ H \in Nat \ {0} /\ D = 2 * H /\ D \div 2 = H /\ b = 2 * TopHalf
  BY WordSizes
<1>2. /\ qh \in W!Half /\ ql \in W!Half /\ bit \in 0..1
      /\ \E rest \in 0..H - 1 : y = bit * H + rest /\ yy = 2 * rest + c
  BY ShiftedUp, ZenonT(60)
<1>3. /\ top \in 0..1
      /\ \E rest \in 0..H - 1 : x = top * H + rest /\ up = 2 * rest + bit
  <2> HIDE DEF bit
  <2>1. /\ W!Shr(hj, WordBits - 1) \in 0..1
        /\ \E rest \in 0..TopHalf * W!Word - 1 :
             /\ hj * W!Word + lj = W!Shr(hj, WordBits - 1) * (TopHalf * W!Word) + rest
             /\ (W!Shl(hj, 1) + W!Shr(lj, WordBits - 1)) * W!Word + (W!Shl(lj, 1) + bit) = 2 * rest + bit
    BY <1>2, ShiftedIn, SMTT(60)
  <2> QED BY <2>1
<1>4. p \in Nat \ {0} /\ T \in Nat \ {0} /\ 2 ^ s = 2 * T /\ 2 ^ (2 * WordBits - (s - 1)) = 2 * p /\ p * T = H
  <2>1. /\ s - 1 \in Nat /\ (s - 1) + 1 = s /\ 2 * WordBits - s \in Nat
        /\ (2 * WordBits - s) + 1 = 2 * WordBits - (s - 1)
        /\ (2 * WordBits - s) + (s - 1) = (WordBits - 1) + WordBits
        /\ WordBits - 1 \in Nat
    <3>1. WordBits \in Nat /\ WordBits >= 2
      BY WordSizes
    <3> QED BY <3>1
  <2>2. 2 ^ s = 2 * 2 ^ (s - 1) /\ 2 ^ ((2 * WordBits - s) + 1) = 2 * 2 ^ (2 * WordBits - s)
    BY <2>1, PowerStep
  <2>3. 2 ^ ((2 * WordBits - s) + (s - 1)) = p * T
    BY <2>1, PowerSum
  <2>4. 2 ^ ((WordBits - 1) + WordBits) = H
    BY <1>1, <2>1, PowerSum DEF TopHalf, W!Word
  <2>5. p \in Nat \ {0} /\ T \in Nat \ {0}
    BY <2>1, PowerPositive
  <2> QED BY <2>1, <2>2, <2>3, <2>4, <2>5
<1>5. PICK seen \in Nat, left \in Nat :
        /\ seen < p /\ left < 2 * T /\ y = left * p + seen
        /\ x < e /\ a = (e * (2 * seen + c) + x) * (2 * T) + left
  BY <1>4 DEF Progress
<1>6. x \in Nat /\ y \in Nat
  BY Whole
<1>7. a \in Nat /\ a < 2 * H /\ e \in Nat \ {0} /\ e < 2 * H
  BY <1>1
<1>8. e > H => s = 1 /\ a >= H
  OBVIOUS
<1>9. s = 1 => T = 1
  <2>1. 2 ^ 0 = 1
    OBVIOUS
  <2>2. s = 1 => s - 1 = 0
    OBVIOUS
  <2> QED BY <2>1, <2>2
<1>10. found = IF (e - up - 1) % D >= H THEN 1 ELSE 0
  BY <1>1
<1> HIDE DEF H, bit, top, uh, ul, up, D, found, qh, ql, y, x, yy, p, T
<1>11. PICK less \in Nat : less < T /\ left = bit * T + less
  <2>1. PICK i \in 0..1, l \in Nat : l < T /\ left = i * T + l
    <3>1. CASE left < T
      <4>1. 0 * T = 0
        BY <1>4
      <4>2. left = 0 * T + left
        BY <4>1
      <4> QED BY <3>1, <4>2
    <3>2. CASE left >= T
      <4>1. left - T \in Nat /\ left - T < T /\ left = 1 * T + (left - T)
        BY <1>4, <1>5, <3>2
      <4> QED BY <4>1
    <3> QED BY <1>4, <3>1, <3>2
  <2>2. l * p + seen \in 0..H - 1 /\ y = i * H + (l * p + seen)
    <3>1. (l + 1) * p <= T * p /\ (l + 1) * p = l * p + p /\ l * p \in Nat /\ T * p = H
      <4>1. l + 1 <= T /\ l + 1 \in Nat
        BY <1>4, <2>1
      <4>2. (l + 1) * p <= T * p
        BY <1>4, <4>1, Ordered
      <4> QED BY <1>4, <2>1, <4>2
    <3>2. (i * T + l) * p = i * H + l * p
      <4>1. i = 0 \/ i = 1
        OBVIOUS
      <4>2. CASE i = 0
        BY <1>1, <1>4, <3>1, <4>2
      <4>3. CASE i = 1
        BY <1>1, <1>4, <3>1, <4>3
      <4> QED BY <4>1, <4>2, <4>3
    <3>3. i * H \in Nat
      BY <1>1
    <3>4. l * p + seen \in 0..H - 1
      BY <1>1, <1>4, <1>5, <3>1
    <3>5. y = i * H + (l * p + seen)
      BY <1>5, <2>1, <3>1, <3>2, <3>3
    <3> QED BY <3>4, <3>5
  <2>3. PICK rest \in 0..H - 1 : y = bit * H + rest
    BY <1>2
  <2> DEFINE g == l * p + seen
  <2> HIDE DEF g
  <2>4. H \in Nat \ {0} /\ bit \in Int /\ i \in Int /\ rest \in Int /\ g \in Int /\ g \in 0..H - 1 /\ y = i * H + g
    BY <1>1, <1>2, <2>2 DEF g
  <2>5. y \div H = i /\ y \div H = bit
    BY <2>3, <2>4, Unique
  <2> QED BY <2>1, <2>5
<1>12. yy = less * (2 * p) + (2 * seen + c)
  <2>1. PICK rest \in 0..H - 1 : y = bit * H + rest /\ yy = 2 * rest + c
    BY <1>2
  <2>2. y = bit * H + (less * p + seen) /\ less * p \in Nat
    <3>1. (bit * T + less) * p = bit * H + less * p /\ less * p \in Nat
      <4>1. bit = 0 \/ bit = 1
        BY <1>2
      <4>2. CASE bit = 0
        BY <1>1, <1>4, <4>2
      <4>3. CASE bit = 1
        BY <1>1, <1>4, <4>3
      <4> QED BY <4>1, <4>2, <4>3
    <3>2. bit * H \in Nat
      BY <1>1, <1>2
    <3> QED BY <1>5, <1>11, <3>1, <3>2
  <2>3. bit * H \in Nat
    BY <1>1, <1>2
  <2>4. rest = less * p + seen
    BY <2>1, <2>2, <2>3
  <2>5. less * (2 * p) = 2 * (less * p)
    BY <1>4
  <2> QED BY <2>1, <2>2, <2>4, <2>5
<1> DEFINE z == 2 * seen + c
           w == 2 * x + bit
<1>13. z \in Nat /\ z < 2 * p /\ w \in Nat /\ w < 2 * e
  <2>1. c \in Nat /\ c <= 1 /\ bit \in Nat /\ bit <= 1
    BY <1>2
  <2> QED BY <1>4, <1>5, <1>6, <1>7, <2>1
<1>14. a = (2 * (e * z) + w) * T + less /\ e * z \in Nat
  <2>1. a = (e * z + x) * (2 * T) + (bit * T + less)
    BY <1>5, <1>11
  <2> HIDE DEF z
  <2>2. e * z \in Nat
    BY <1>7, <1>13
  <2> DEFINE m == e * z
  <2> HIDE DEF m
  <2>a. m \in Nat /\ x \in Nat /\ T \in Nat /\ bit \in Nat
    BY <1>2, <1>4, <1>6, <2>2 DEF m
  <2>3. (m + x) * (2 * T) = (2 * m + 2 * x) * T /\ (2 * m + 2 * x) * T \in Nat /\ bit * T \in Nat
    <3>1. m + x \in Nat /\ 2 * m + 2 * x = 2 * (m + x)
      BY <2>a
    <3>2. \A i \in Nat : i * (2 * T) = (2 * i) * T /\ (2 * i) * T \in Nat
      BY <2>a
    <3>3. bit * T \in Nat
      BY <2>a
    <3> QED BY <3>1, <3>2, <3>3
  <2>4. (2 * m + 2 * x) * T + bit * T = (2 * m + (2 * x + bit)) * T
    <3>1. \A i, j \in Nat : i * T + j * T = (i + j) * T
      BY <1>4
    <3>2. 2 * m + 2 * x \in Nat /\ bit \in Nat /\ (2 * m + 2 * x) + bit = 2 * m + (2 * x + bit)
      BY <1>2, <1>6, <2>2 DEF m
    <3>3. (2 * m + 2 * x) * T + bit * T = ((2 * m + 2 * x) + bit) * T
      BY <3>1, <3>2
    <3> QED BY <3>2, <3>3
  <2> QED BY <2>1, <2>2, <2>3, <2>4 DEF m
<1> HIDE DEF z, w
<1>15. w <= a
  <2>1. w * 1 <= w * T
    <3>1. 1 * w <= T * w
      BY <1>4, <1>13, Ordered
    <3> QED BY <1>4, <1>13, <3>1
  <2>2. (2 * (e * z) + w) * T = 2 * (e * z) * T + w * T /\ 2 * (e * z) * T \in Nat /\ w * T \in Nat
    BY <1>4, <1>13, <1>14
  <2> QED BY <1>7, <1>11, <1>13, <1>14, <2>1, <2>2
<1>16. up = w
  <2>1. PICK rest \in 0..H - 1 : x = top * H + rest /\ up = 2 * rest + bit
    BY <1>3
  <2>2. top = 0 \/ top = 1
    BY <1>3
  <2>3. top = 0
    <3>1. CASE top = 1
      <4>1. x = H + rest
        BY <1>1, <2>1, <3>1
      <4> QED BY <1>1, <1>2, <1>7, <1>15, <4>1 DEF w
    <3> QED BY <2>2, <3>1
  <2> QED BY <1>1, <1>2, <2>1, <2>3 DEF w
<1>17. (w >= e => e - w - 1 >= -H) /\ (w < e => e - w - 1 < H)
  <2>1. CASE e <= H
    BY <1>1, <1>7, <1>13, <2>1
  <2>2. CASE e > H
    <3>1. T = 1 /\ less = 0 /\ a >= H
      BY <1>8, <1>9, <1>11, <2>2
    <3>2. a = 2 * (e * z) + w
      BY <1>13, <1>14, <3>1
    <3>3. z = 0
      <4> SUFFICES ASSUME z >= 1 PROVE FALSE
        BY <1>13
      <4>1. 1 * e <= z * e /\ z * e = e * z
        BY <1>7, <1>13, Ordered
      <4> QED BY <1>1, <1>7, <1>13, <2>2, <3>2, <4>1
    <3>4. e * 0 = 0
      BY <1>7
    <3>5. w = a
      BY <1>13, <3>2, <3>3, <3>4
    <3> QED BY <1>1, <1>7, <2>2, <3>1, <3>5
  <2> QED BY <1>1, <1>7, <2>1, <2>2
<1>18. ASSUME NEW i \in Int, i >= -H, i < H PROVE (i % D >= H) <=> (i < 0)
  <2>1. D \in Nat \ {0} /\ D = 2 * H /\ H \in Nat
    BY <1>1
  <2>2. CASE i >= 0
    <3>1. i \in Int /\ 0 \in Int /\ i \in 0..D - 1 /\ 0 * D + i = i
      BY <1>18, <2>1, <2>2
    <3>2. (0 * D + i) % D = i
      BY <2>1, <3>1, Unique
    <3>3. i % D = i
      BY <3>1, <3>2
    <3> QED BY <1>18, <2>1, <2>2, <3>3
  <2>3. CASE i < 0
    <3> DEFINE j == i + D
    <3>1. j \in Int /\ -1 \in Int /\ j \in 0..D - 1 /\ (-1) * D + j = i /\ j >= H
      BY <1>18, <2>1, <2>3
    <3> HIDE DEF j
    <3>2. ((-1) * D + j) % D = j
      BY <2>1, <3>1, Unique
    <3>3. i % D = j
      BY <3>1, <3>2
    <3> QED BY <1>18, <2>1, <2>3, <3>1, <3>3
  <2> QED BY <2>2, <2>3
<1>19. found = IF w >= e THEN 1 ELSE 0
  <2> DEFINE i == e - w - 1
  <2>1. i \in Int /\ i >= -H /\ i < H /\ (i < 0 <=> w >= e)
    BY <1>1, <1>7, <1>13, <1>17
  <2>2. found = IF i % D >= H THEN 1 ELSE 0
    BY <1>10, <1>16
  <2> HIDE DEF i
  <2>3. (i % D >= H) <=> (i < 0)
    BY <1>18, <2>1
  <2> QED BY <2>1, <2>2, <2>3
<1> DEFINE k == w - found * e
<1>20. k \in 0..e - 1 /\ k \in 0..D - 1 /\ k \in Nat /\ found \in 0..1 /\ w = found * e + k
  <2>1. CASE w >= e
    <3>1. found = 1 /\ k = w - e
      BY <1>7, <1>13, <1>19, <2>1
    <3> HIDE DEF k
    <3> QED BY <1>1, <1>7, <1>13, <2>1, <3>1
  <2>2. CASE w < e
    <3>1. found = 0 /\ k = w
      BY <1>7, <1>13, <1>19, <2>2
    <3> HIDE DEF k
    <3> QED BY <1>1, <1>7, <1>13, <2>2, <3>1
  <2> QED BY <1>7, <1>13, <2>1, <2>2
<1>21. xx = k
  <2>1. xx = k % D
    BY <1>16 DEF xx
  <2> HIDE DEF k
  <2>2. D \in Nat \ {0} /\ 0 \in Int /\ k \in Int /\ 0 * D + k = k
    BY <1>1, <1>20
  <2>3. (0 * D + k) % D = k
    BY <1>20, <2>2, Unique
  <2> QED BY <2>1, <2>2, <2>3
<1> HIDE DEF k, xx
<1>22. a = (e * (2 * z + found) + xx) * T + less
  <2>1. 2 * (e * z) + w = e * (2 * z + found) + k
    <3>1. found = 0 \/ found = 1
      BY <1>20
    <3>2. e * (2 * z) = 2 * (e * z)
      BY <1>7, <1>13
    <3>3. CASE found = 0
      <4>1. w = k
        BY <1>7, <1>20, <3>3
      <4>2. 2 * z + found = 2 * z
        BY <1>13, <3>3
      <4> QED BY <3>2, <4>1, <4>2
    <3>4. CASE found = 1
      <4>1. w = e + k
        BY <1>7, <1>20, <3>4
      <4>2. e * (2 * z + 1) = e * (2 * z) + e
        BY <1>7, <1>13
      <4>3. e * (2 * z) \in Nat
        BY <1>7, <1>13
      <4> QED BY <1>7, <1>20, <3>2, <3>4, <4>1, <4>2, <4>3
    <3> QED BY <3>1, <3>3, <3>4
  <2> QED BY <1>14, <1>21, <2>1
<1>23. Progress(a, e, yy, xx, s - 1, found)
  <2>1. z < 2 ^ (2 * WordBits - (s - 1)) /\ less < 2 ^ (s - 1)
    BY <1>4, <1>11, <1>13 DEF T
  <2>2. yy = less * 2 ^ (2 * WordBits - (s - 1)) + z
    BY <1>4, <1>12 DEF z
  <2>3. xx < e
    BY <1>7, <1>20, <1>21
  <2>4. a = (e * (2 * z + found) + xx) * 2 ^ (s - 1) + less
    BY <1>22 DEF T
  <2> QED BY <1>11, <1>13, <2>1, <2>2, <2>3, <2>4 DEF Progress
<1> QED BY <1>2, <1>20, <1>21, <1>23 DEF b, bit, uh, ul, up, D, found, qh, ql, xx, yy

\* With no bits left to be seen, quotient and remainder are found.
LEMMA LoopEnd ==
  ASSUME W!Int64Assumption, NEW c \in 0..1, NEW a \in 0..W!DoubleWord - 1,
         NEW e \in 1..W!DoubleWord - 1, NEW x \in Nat, NEW y, Progress(a, e, y, x, 0, c)
  PROVE  (2 * y + c) % W!DoubleWord = a \div e /\ x = a % e
<1> DEFINE o == 2 ^ (2 * WordBits - 0)
           D == W!DoubleWord
<1>1. 2 ^ 0 = 1
  OBVIOUS
<1>2. PICK seen \in Nat, left \in Nat :
        left < 2 ^ 0 /\ y = left * o + seen /\ x < e /\ a = (e * (2 * seen + c) + x) * 2 ^ 0 + left
  BY DEF Progress
<1>3. o \in Nat /\ D \in Nat \ {0}
  <2>1. 2 * WordBits - 0 \in Nat
    BY WordSizes
  <2> QED BY <2>1, WordSizes, PowerPositive
<1> HIDE DEF o, D
<1>4. left = 0 /\ 0 * o = 0
  BY <1>1, <1>2, <1>3
<1> DEFINE z == 2 * y + c
<1>5. y = seen /\ z = 2 * seen + c /\ z \in Nat /\ y \in Nat
  BY <1>2, <1>4
<1>6. a = (e * z + x) * 1 + 0
  BY <1>1, <1>2, <1>4, <1>5
<1>7. e \in Nat \ {0} /\ a \in Nat /\ a < D
  BY <1>3 DEF D
<1> HIDE DEF z
<1>8. e * z \in Nat /\ a = e * z + x
  BY <1>5, <1>6, <1>7
<1>9. z * e + x = a /\ x \in 0..e - 1 /\ z \in Int /\ x \in Int
  BY <1>2, <1>5, <1>7, <1>8
<1>10. a \div e = z /\ a % e = x
  BY <1>7, <1>9, Unique
<1>11. z < D
  <2>1. 1 * z <= e * z /\ 1 * z = z
    BY <1>5, <1>7, Ordered
  <2> QED BY <1>2, <1>3, <1>5, <1>7, <1>8, <2>1
<1>12. z % D = z
  <2>1. 0 * D + z = z /\ z \in 0..D - 1 /\ z \in Int /\ 0 \in Int
    BY <1>3, <1>5, <1>11
  <2>2. (0 * D + z) % D = z
    BY <1>3, <2>1, Unique
  <2> QED BY <2>1, <2>2
<1> QED BY <1>10, <1>12 DEF z, D

\* Two halves and the number they are.
LEMMA InHalves ==
  ASSUME W!Int64Assumption
  PROVE  /\ \A z \in 0..W!DoubleWord - 1 :
              /\ W!Udwords(z) \in [high : W!Half, low : W!Half] /\ W!All(W!Udwords(z)) = z
         /\ \A x, y \in W!Half :
              /\ [high |-> x, low |-> y] \in [high : W!Half, low : W!Half]
              /\ W!All([high |-> x, low |-> y]) = x * W!Word + y
         /\ \A u \in [high : W!Half, low : W!Half] :
              /\ W!All(u) = u.high * W!Word + u.low /\ W!All(u) \in 0..W!DoubleWord - 1
              /\ u.high \in W!Half /\ u.low \in W!Half
<1>1. ASSUME NEW z \in 0..W!DoubleWord - 1
      PROVE  W!Udwords(z) \in [high : W!Half, low : W!Half] /\ W!All(W!Udwords(z)) = z
  <2> DEFINE b == W!Word
             x == z \div b
             y == z % b
  <2>1. W!Udwords(z) = [high |-> x, low |-> y] /\ W!All(W!Udwords(z)) = x * b + y
    BY DEF W!Udwords, W!All
  <2>2. b \in Nat \ {0} /\ z \in Nat /\ z < b * b
    BY WordSizes
  <2>3. W!Half = 0..b - 1
    BY DEF W!Half
  <2> HIDE DEF b
  <2>4. x \in Int /\ y \in 0..b - 1 /\ z = x * b + y /\ x >= 0
    <3>1. b \in Nat \ {0} /\ z \in Int /\ z >= 0
      BY <2>2
    <3> QED BY <3>1, Division
  <2> HIDE DEF x, y
  <2>5. x < b
    <3>1. x \in Nat /\ x * b \in Nat /\ b * b \in Nat /\ x * b < b * b
      BY <2>2, <2>4
    <3> QED BY <2>2, <3>1, Ordered
  <2> QED BY <2>1, <2>2, <2>3, <2>4, <2>5
<1>2. ASSUME NEW u \in [high : W!Half, low : W!Half]
      PROVE  /\ W!All(u) = u.high * W!Word + u.low /\ W!All(u) \in 0..W!DoubleWord - 1
             /\ u.high \in W!Half /\ u.low \in W!Half
  <2>1. u.high \in W!Half /\ u.low \in W!Half
    OBVIOUS
  <2>2. W!All(u) = u.high * W!Word + u.low
    BY DEF W!All
  <2>3. u.high * W!Word + u.low \in 0..W!DoubleWord - 1
    BY <2>1, Whole
  <2> QED BY <2>1, <2>2, <2>3
<1>3. \A x, y \in W!Half :
        /\ [high |-> x, low |-> y] \in [high : W!Half, low : W!Half]
        /\ W!All([high |-> x, low |-> y]) = x * W!Word + y
  BY DEF W!All
<1> QED BY <1>1, <1>2, <1>3

\* Quotient and remainder are no larger than the numerator and the denominator.
LEMMA Quotients ==
  ASSUME W!Int64Assumption, NEW a \in 0..W!DoubleWord - 1, NEW e \in 1..W!DoubleWord - 1
  PROVE  /\ a \div e \in 0..W!DoubleWord - 1 /\ a % e \in 0..W!DoubleWord - 1
         /\ a < e => a \div e = 0 /\ a % e = a
         /\ e = 1 => a \div e = a /\ a % e = 0
<1> DEFINE D == W!DoubleWord
           i == a \div e
           j == a % e
<1>1. D \in Nat /\ a \in Nat /\ a < D /\ e \in Nat \ {0} /\ e < D /\ e \in Int /\ a \in Int
  BY WordSizes
<1> HIDE DEF D
<1>2. i \in Int /\ j \in 0..e - 1 /\ a = i * e + j /\ i >= 0
  BY <1>1, Division
<1>3. ASSUME a < e PROVE a \div e = 0 /\ a % e = a
  <2>1. 0 * e + a = a /\ a \in 0..e - 1 /\ 0 \in Int
    BY <1>1, <1>3
  <2>2. (0 * e + a) \div e = 0 /\ (0 * e + a) % e = a
    BY <1>1, <2>1, Unique
  <2> QED BY <2>1, <2>2
<1>4. ASSUME e = 1 PROVE a \div e = a /\ a % e = 0
  <2>1. a * e + 0 = a /\ 0 \in 0..e - 1 /\ 0 \in Int
    BY <1>1, <1>4
  <2>2. (a * e + 0) \div e = a /\ (a * e + 0) % e = 0
    BY <1>1, <2>1, Unique
  <2> QED BY <2>1, <2>2
<1> HIDE DEF i, j
<1>5. i <= i * e /\ i * e \in Nat /\ i \in Nat
  <2>1. i \in Nat
    BY <1>2
  <2>2. 1 * i <= e * i /\ 1 * i = i /\ e * i = i * e
    BY <1>1, <2>1, Ordered
  <2> QED BY <1>1, <2>1, <2>2
<1>6. i \in 0..D - 1 /\ j \in 0..D - 1
  BY <1>1, <1>2, <1>5
<1> QED BY <1>3, <1>4, <1>6 DEF D, i, j

\* Denominators whose lower half is 0: the lower half of the numerator remains.
LEMMA ByUpper ==
  ASSUME W!Int64Assumption, NEW x \in W!Half, NEW y \in W!Half, NEW u \in W!Half \ {0}
  PROVE  LET a == x * W!Word + y
             e == u * W!Word + 0
         IN  /\ x \div u \in Nat /\ x % u \in W!Half
             /\ a \div e = x \div u /\ a % e = (x % u) * W!Word + y
<1> DEFINE b == W!Word
           i == x \div u
           j == x % u
           e == u * b + 0
           a == x * b + y
           g == j * b + y
<1>1. b \in Nat \ {0} /\ W!Half = 0..b - 1
  BY WordSizes DEF W!Half
<1> HIDE DEF b
<1>2. u \in Nat \ {0} /\ x \in Nat /\ y \in Nat /\ y < b /\ x < b /\ u < b /\ x \in Int
  BY <1>1
<1>3. i \in Int /\ j \in 0..u - 1 /\ x = i * u + j /\ i >= 0
  BY <1>2, Division
<1> HIDE DEF i, j
<1>4. i \in Nat /\ j \in Nat /\ j \in W!Half
  BY <1>1, <1>2, <1>3
<1>5. g \in 0..e - 1 /\ g \in Int /\ e \in Nat \ {0}
  <2>1. (j + 1) * b <= u * b /\ (j + 1) * b = j * b + b /\ j * b \in Nat /\ u * b \in Nat
    <3>1. j + 1 <= u /\ j + 1 \in Nat
      BY <1>2, <1>3
    <3>2. (j + 1) * b <= u * b
      BY <1>1, <1>2, <3>1, Ordered
    <3> QED BY <1>1, <1>2, <1>4, <3>2
  <2> QED BY <1>1, <1>2, <2>1
<1>6. a = i * e + g
  <2>1. (i * u + j) * b = i * (u * b) + j * b /\ i * (u * b) \in Nat /\ j * b \in Nat /\ u * b + 0 = u * b
    BY <1>1, <1>2, <1>4
  <2> QED BY <1>2, <1>3, <2>1
<1> HIDE DEF a, e, g
<1>7. a \div e = i /\ a % e = g
  <2>1. i \in Int
    BY <1>4
  <2>2. (i * e + g) \div e = i /\ (i * e + g) % e = g
    BY <1>5, <2>1, Unique
  <2> QED BY <1>6, <2>2
<1> QED BY <1>4, <1>7 DEF a, b, e, g, i, j

\* Denominators that are a power of 2 in the lower half.
LEMMA ByLowerPower ==
  ASSUME W!Int64Assumption, NEW x \in W!Half, NEW y \in W!Half, NEW u \in W!Half, W!PowerOfTwo(u)
  PROVE  LET s == W!ctz(u)
             a == x * W!Word + y
             hi == W!Shr(x, s)
             lo == W!Shl(x, WordBits - s) + W!Shr(y, s)
         IN  /\ hi \in W!Half /\ lo \in W!Half /\ W!Shr(x, s) = x \div u
             /\ a \div u = hi * W!Word + lo /\ a % u = y % u
<1>1. PICK k \in 0..WordBits - 1 : u = 2 ^ k
  BY DEF W!PowerOfTwo
<1>2. W!ctz(u) = k
  BY <1>1, Ctz
<1>3. k \in 0..WordBits
  BY WordSizes
<1> DEFINE b == W!Word
           hi == W!Shr(x, k)
           lo == W!Shl(x, WordBits - k) + W!Shr(y, k)
           g == hi * b + lo
           z == y % u
           a == x * b + y
<1>4. hi \in W!Half /\ lo \in W!Half /\ u \in Nat \ {0} /\ z \in 0..u - 1 /\ a = g * u + z
  BY <1>1, <1>3, MovedDown
<1>5. g \in Int
  <2> HIDE DEF hi, lo
  <2>1. g \in 0..W!DoubleWord - 1 /\ W!DoubleWord \in Nat
    BY <1>4, Whole, WordSizes
  <2> QED BY <2>1
<1>6. z \in Int
  BY <1>4
<1> HIDE DEF g, z, a
<1>7. (g * u + z) \div u = g /\ (g * u + z) % u = z
  BY <1>4, <1>5, <1>6, Unique
<1>8. W!Shr(x, k) = x \div u
  BY <1>1 DEF W!Shr
<1> QED BY <1>2, <1>4, <1>7, <1>8 DEF a, g, z

\* The number that is divided for x.
Operand(x) == IF call.signed THEN W!Magnitude(x) ELSE x

\* The two halves of a number.
Pair == [high : W!Half, low : W!Half]

\* The variables of a division keep their types.
DivisionTyped ==
  /\ pc \in {"idle", "enter", "loop", "done"}
  /\ call \in [signed : BOOLEAN, a : 0..W!DoubleWord - 1, b : 0..W!DoubleWord - 1]
  /\ num \in Pair /\ den \in Pair /\ quo \in Pair /\ rmd \in Pair
  /\ sr \in 0..2 * WordBits - 1 /\ carry \in 0..1
  /\ quot \in 0..W!DoubleWord - 1 /\ rem \in 0..W!DoubleWord - 1

\* The doublewords hold the magnitudes of the operands, the divisor not 0.
OperandsTaken ==
  pc # "idle" =>
    /\ call.b # 0 /\ W!All(den) # 0
    /\ W!All(num) = Operand(call.a) /\ W!All(den) = Operand(call.b)

\* A denominator of more than a half is subtracted at most once, from the whole
\* numerator, which is as large.
LoopRight ==
  pc = "loop" =>
    /\ Progress(W!All(num), W!All(den), W!All(quo), W!All(rmd), sr, carry)
    /\ W!All(den) > TopHalf * W!Word => sr <= 1 /\ W!All(num) >= TopHalf * W!Word

\* What __udivmoddi4 returns is quotient and remainder.
ResultRight ==
  pc = "done" => quot = W!All(num) \div W!All(den) /\ rem = W!All(num) % W!All(den)

\* The inductive invariant of a division.
DivisionInv == DivisionTyped /\ OperandsTaken /\ LoopRight /\ ResultRight

\* The pair of halves that is 0.
LEMMA ZeroPair == ASSUME W!Int64Assumption PROVE W!Zero \in Pair /\ W!All(W!Zero) = 0
<1>1. 0 \in 0..W!DoubleWord - 1
  BY WordSizes
<1> QED BY <1>1, InHalves DEF W!Zero, Pair

\* What the variables hold between two calls has their types.
LEMMA Idle ==
  ASSUME W!Int64Assumption
  PROVE  /\ 0 \in 0..W!DoubleWord - 1 /\ 0 \in 0..2 * WordBits - 1 /\ 0 \in 0..1
         /\ [signed |-> FALSE, a |-> 0, b |-> 0] \in
              [signed : BOOLEAN, a : 0..W!DoubleWord - 1, b : 0..W!DoubleWord - 1]
BY WordSizes

\* No division runs at first.
LEMMA DivisionStart == ASSUME W!Int64Assumption, W!Init PROVE DivisionInv
<1>1. DivisionTyped
  BY Idle, ZeroPair DEF W!Init, DivisionTyped
<1> QED BY <1>1 DEF W!Init, DivisionInv, OperandsTaken, LoopRight, ResultRight

\* And none after a return.
LEMMA DivisionReturn == ASSUME W!Int64Assumption, W!Return PROVE DivisionInv'
<1>1. DivisionTyped'
  BY Idle, ZeroPair DEF W!Return, DivisionTyped
<1> QED BY <1>1 DEF W!Return, DivisionInv, OperandsTaken, LoopRight, ResultRight

\* The magnitude of a signed number, and what is the same number modulo the width.
LEMMA SignsTaken ==
  ASSUME W!Int64Assumption, NEW x \in 0..W!DoubleWord - 1
  PROVE  /\ W!Negated(x) \in 0..W!DoubleWord - 1
         /\ W!Negated(x) = IF x = 0 THEN 0 ELSE W!DoubleWord - x
         /\ W!Magnitude(x) \in 0..W!DoubleWord - 1
         /\ W!Magnitude(x) = IF W!Negative(x) THEN W!DoubleWord - x ELSE x
         /\ x # 0 => W!Magnitude(x) # 0
<1> DEFINE D == W!DoubleWord
<1>1. D \in Nat \ {0} /\ x \in Nat /\ x < D
  BY WordSizes
<1>2. D \div 2 \in Nat \ {0}
  BY WordSizes
<1>3. W!Negated(x) = (D - x) % D
  BY DEF W!Negated
<1> HIDE DEF D
<1>4. (D - x) % D = IF x = 0 THEN 0 ELSE D - x
  <2>1. CASE x = 0
    <3>1. 1 * D + 0 = D - x /\ 0 \in 0..D - 1 /\ 1 \in Int /\ 0 \in Int
      BY <1>1, <2>1
    <3>2. (1 * D + 0) % D = 0
      BY <1>1, <3>1, Unique
    <3> QED BY <2>1, <3>1, <3>2
  <2>2. CASE x # 0
    <3> DEFINE y == D - x
    <3>1. 0 * D + y = y /\ y \in 0..D - 1 /\ y \in Int /\ 0 \in Int
      BY <1>1, <2>2
    <3> HIDE DEF y
    <3>2. (0 * D + y) % D = y
      BY <1>1, <3>1, Unique
    <3>3. y % D = y
      BY <3>1, <3>2
    <3> QED BY <2>2, <3>3 DEF y
  <2> QED BY <2>1, <2>2
<1>5. W!Negated(x) \in 0..D - 1 /\ W!Negated(x) = IF x = 0 THEN 0 ELSE D - x
  BY <1>1, <1>3, <1>4
<1>6. W!Magnitude(x) = IF x >= D \div 2 THEN W!Negated(x) ELSE x
  BY DEF W!Magnitude, W!Negative, D
<1>7. W!Negative(x) <=> x >= D \div 2
  BY DEF W!Negative, D
<1>8. W!Magnitude(x) = (IF x >= D \div 2 THEN D - x ELSE x) /\ W!Magnitude(x) \in 0..D - 1
      /\ (x # 0 => W!Magnitude(x) # 0)
  BY <1>1, <1>2, <1>5, <1>6 DEF D
<1> QED BY <1>5, <1>7, <1>8 DEF D

\* An entry point hands the magnitudes of its operands to __udivmoddi4.
LEMMA DivisionCall ==
  ASSUME W!Int64Assumption, DivisionInv, NEW z \in BOOLEAN,
         NEW x \in 0..W!DoubleWord - 1, NEW y \in 0..W!DoubleWord - 1, W!Call(z, x, y)
  PROVE  DivisionInv'
<1> DEFINE i == IF z THEN W!Magnitude(x) ELSE x
           j == IF z THEN W!Magnitude(y) ELSE y
<1>1. /\ y # 0 /\ pc' = "enter" /\ call' = [signed |-> z, a |-> x, b |-> y]
      /\ num' = W!Udwords(i) /\ den' = W!Udwords(j)
      /\ UNCHANGED <<quo, rmd, sr, carry, quot, rem>>
  BY DEF W!Call
<1>2. i \in 0..W!DoubleWord - 1 /\ j \in 0..W!DoubleWord - 1 /\ j # 0
  BY <1>1, SignsTaken
<1> HIDE DEF i, j
<1>3. num' \in Pair /\ den' \in Pair /\ W!All(num') = i /\ W!All(den') = j
  BY <1>1, <1>2, InHalves DEF Pair
<1>4. DivisionTyped'
  BY <1>1, <1>3 DEF DivisionInv, DivisionTyped
<1>5. Operand(call.a)' = i /\ Operand(call.b)' = j /\ call'.b = y
  BY <1>1 DEF Operand, i, j
<1>6. OperandsTaken'
  BY <1>1, <1>2, <1>3, <1>5 DEF OperandsTaken, W!All
<1> QED BY <1>1, <1>4, <1>6 DEF DivisionInv, LoopRight, ResultRight

\* What is known of the numbers when one of the cases of __udivmoddi4 is taken.
LEMMA Entered ==
  ASSUME W!Int64Assumption, DivisionInv, pc # "idle"
  PROVE  LET x == num.high
             y == num.low
             u == den.high
             v == den.low
             a == W!All(num)
             e == W!All(den)
         IN  /\ x \in W!Half /\ y \in W!Half /\ u \in W!Half /\ v \in W!Half
             /\ a = x * W!Word + y /\ e = u * W!Word + v
             /\ a \in 0..W!DoubleWord - 1 /\ e \in 1..W!DoubleWord - 1
             /\ u = 0 => v # 0 /\ e = v
<1>1. num \in Pair /\ den \in Pair /\ W!All(den) # 0
  BY DEF DivisionInv, DivisionTyped, OperandsTaken
<1>2. /\ num.high \in W!Half /\ num.low \in W!Half /\ den.high \in W!Half /\ den.low \in W!Half
      /\ W!All(num) = num.high * W!Word + num.low /\ W!All(den) = den.high * W!Word + den.low
      /\ W!All(num) \in 0..W!DoubleWord - 1 /\ W!All(den) \in 0..W!DoubleWord - 1
  BY <1>1, InHalves DEF Pair
<1>3. W!All(den) \in 1..W!DoubleWord - 1
  BY <1>1, <1>2, WordSizes
<1>4. ASSUME den.high = 0 PROVE den.low # 0 /\ W!All(den) = den.low
  <2>1. den.low \in Nat /\ W!Word \in Nat
    BY <1>2, Whole, WordSizes
  <2>2. 0 * W!Word + den.low = den.low
    BY <2>1
  <2> QED BY <1>1, <1>2, <1>4, <2>2
<1> QED BY <1>2, <1>3, <1>4

\* An early return with quotient and remainder ends the division right.
LEMMA Answered ==
  ASSUME W!Int64Assumption, DivisionInv, pc # "idle", NEW i, NEW j, W!Answer(i, j),
         i = W!All(num) \div W!All(den), j = W!All(num) % W!All(den)
  PROVE  DivisionInv'
<1>1. pc' = "done" /\ quot' = i /\ rem' = j /\ UNCHANGED <<call, num, den, quo, rmd, sr, carry>>
  BY DEF W!Answer
<1>2. i \in 0..W!DoubleWord - 1 /\ j \in 0..W!DoubleWord - 1
  BY Entered, Quotients
<1>3. DivisionTyped'
  BY <1>1, <1>2 DEF DivisionInv, DivisionTyped
<1>4. OperandsTaken'
  BY <1>1 DEF DivisionInv, OperandsTaken, Operand, W!All
<1>5. W!All(num)' = W!All(num) /\ W!All(den)' = W!All(den)
  BY <1>1 DEF W!All
<1>6. ResultRight'
  BY <1>1, <1>5 DEF ResultRight
<1> QED BY <1>1, <1>3, <1>4, <1>6 DEF DivisionInv, LoopRight

\* The loop starts with its invariant, when the denominator times 2 ^ s exceeds
\* the numerator; a denominator of more than half the range is shifted by one.
LEMMA Shifted ==
  ASSUME W!Int64Assumption, DivisionInv, pc = "enter", NEW s \in 1..2 * WordBits - 1, W!Shift(s),
         W!All(num) < W!All(den) * 2 ^ s,
         W!All(den) > TopHalf * W!Word => s = 1 /\ W!All(num) >= TopHalf * W!Word
  PROVE  DivisionInv'
<1> DEFINE b == W!Word
           x == num.high
           y == num.low
           a == W!All(num)
           e == W!All(den)
<1>1. /\ x \in W!Half /\ y \in W!Half /\ a = x * b + y
      /\ a \in 0..W!DoubleWord - 1 /\ e \in 1..W!DoubleWord - 1
  BY Entered
<1>2. pc' = "loop" /\ sr' = s /\ carry' = 0 /\ UNCHANGED <<call, num, den, quot, rem>>
  BY DEF W!Shift
<1>3. WordBits \in Nat /\ 0 \in W!Half
  BY WordSizes DEF W!Half
<1>4. \/ /\ s < WordBits
         /\ quo' = [high |-> W!Shl(y, WordBits - s), low |-> 0]
         /\ rmd' = [high |-> W!Shr(x, s), low |-> W!Shl(x, WordBits - s) + W!Shr(y, s)]
      \/ /\ s = WordBits
         /\ quo' = [high |-> y, low |-> 0]
         /\ rmd' = [high |-> 0, low |-> x]
      \/ /\ s > WordBits
         /\ quo' = [high |-> W!Shl(x, 2 * WordBits - s) + W!Shr(y, s - WordBits),
                    low |-> W!Shl(y, 2 * WordBits - s)]
         /\ rmd' = [high |-> 0, low |-> W!Shr(x, s - WordBits)]
  BY DEF W!Shift
<1> HIDE DEF a, e, x, y
<1>5. quo' \in Pair /\ rmd' \in Pair /\ Split(a, s, W!All(rmd'), W!All(quo'))
  <2>1. CASE s < WordBits
    <3> DEFINE hi == W!Shr(x, s)
               lo == W!Shl(x, WordBits - s) + W!Shr(y, s)
               t == W!Shl(y, WordBits - s)
    <3>1. s \in 1..WordBits - 1
      BY <1>3, <2>1
    <3>2. hi \in W!Half /\ lo \in W!Half /\ t \in W!Half /\ Split(x * b + y, s, hi * b + lo, t * b + 0)
      BY <1>1, <3>1, ShiftLower
    <3>3. quo' = [high |-> t, low |-> 0] /\ rmd' = [high |-> hi, low |-> lo]
      BY <1>3, <1>4, <2>1
    <3> HIDE DEF hi, lo, t
    <3>4. W!All(quo') = t * b + 0 /\ W!All(rmd') = hi * b + lo /\ quo' \in Pair /\ rmd' \in Pair
      BY <1>3, <3>2, <3>3, InHalves DEF Pair
    <3> QED BY <1>1, <3>2, <3>4
  <2>2. CASE s = WordBits
    <3>1. quo' = [high |-> y, low |-> 0] /\ rmd' = [high |-> 0, low |-> x]
      BY <1>3, <1>4, <2>2
    <3>2. W!All(quo') = y * b + 0 /\ W!All(rmd') = 0 * b + x /\ quo' \in Pair /\ rmd' \in Pair
      BY <1>1, <1>3, <3>1, InHalves DEF Pair
    <3>3. Split(x * b + y, WordBits, 0 * b + x, y * b + 0)
      BY <1>1, ShiftHalf
    <3> QED BY <1>1, <2>2, <3>2, <3>3
  <2>3. CASE s > WordBits
    <3> DEFINE hi == W!Shl(x, 2 * WordBits - s) + W!Shr(y, s - WordBits)
               lo == W!Shl(y, 2 * WordBits - s)
               t == W!Shr(x, s - WordBits)
    <3>1. hi \in W!Half /\ lo \in W!Half /\ t \in W!Half /\ Split(x * b + y, s, 0 * b + t, hi * b + lo)
      BY <1>1, <2>3, ShiftUpper
    <3>2. quo' = [high |-> hi, low |-> lo] /\ rmd' = [high |-> 0, low |-> t]
      BY <1>3, <1>4, <2>3
    <3> HIDE DEF hi, lo, t
    <3>3. W!All(quo') = hi * b + lo /\ W!All(rmd') = 0 * b + t /\ quo' \in Pair /\ rmd' \in Pair
      BY <1>3, <3>1, <3>2, InHalves DEF Pair
    <3> QED BY <1>1, <3>1, <3>3
  <2> QED BY <1>3, <2>1, <2>2, <2>3
<1>6. Progress(a, e, W!All(quo'), W!All(rmd'), s, 0)
  <2>1. W!All(quo') \in 0..W!DoubleWord - 1 /\ W!All(rmd') \in 0..W!DoubleWord - 1
    BY <1>5, InHalves DEF Pair
  <2>2. W!All(quo') \in Nat /\ W!All(rmd') \in Nat /\ a \in Nat /\ e \in Nat /\ a < e * 2 ^ s
    BY <1>1, <2>1, WordSizes DEF a, e
  <2> DEFINE i == W!All(quo')
             j == W!All(rmd')
  <2> HIDE DEF i, j
  <2>3. i \in Nat /\ j \in Nat /\ Split(a, s, j, i)
    BY <1>5, <2>2 DEF i, j
  <2>4. Progress(a, e, i, j, s, 0)
    BY <2>2, <2>3, LoopStart
  <2> QED BY <2>4 DEF i, j
<1>7. W!All(num)' = a /\ W!All(den)' = e /\ W!All(quo)' = W!All(quo') /\ W!All(rmd)' = W!All(rmd')
  BY <1>2 DEF W!All, a, e
<1>8. LoopRight'
  <2>1. e > TopHalf * b => s <= 1 /\ a >= TopHalf * b
    BY <1>3 DEF a, e
  <2> QED BY <1>2, <1>6, <1>7, <2>1 DEF LoopRight
<1>9. DivisionTyped'
  <2>1. 0 \in 0..1 /\ s \in 0..2 * WordBits - 1
    BY <1>3
  <2> QED BY <1>2, <1>5, <2>1 DEF DivisionInv, DivisionTyped
<1>10. OperandsTaken'
  BY <1>2 DEF DivisionInv, OperandsTaken, Operand, W!All
<1> QED BY <1>2, <1>8, <1>9, <1>10 DEF DivisionInv, ResultRight

\* A numerator of one half is divided by half-width division.
LEMMA EnterShort ==
  ASSUME W!Int64Assumption, DivisionInv, pc = "enter", W!ShortNumerator
  PROVE  DivisionInv'
<1> DEFINE b == W!Word
           x == num.high
           y == num.low
           u == den.high
           v == den.low
           a == W!All(num)
           e == W!All(den)
<1>1. /\ x \in W!Half /\ y \in W!Half /\ u \in W!Half /\ v \in W!Half
      /\ a = x * b + y /\ e = u * b + v /\ a \in 0..W!DoubleWord - 1 /\ e \in 1..W!DoubleWord - 1
      /\ u = 0 => v # 0 /\ e = v
  BY Entered
<1>2. /\ x = 0
      /\ \/ u = 0 /\ W!Answer(y \div v, y % v)
         \/ u # 0 /\ W!Answer(0, y)
  BY DEF W!ShortNumerator
<1> HIDE DEF a, e, x, y, u, v
<1>3. a = y /\ y \in Nat /\ y + 1 <= b /\ b \in Nat
  <2>1. y \in Nat /\ y + 1 <= b /\ b \in Nat
    BY <1>1, Whole, WordSizes
  <2>2. 0 * b + y = y
    BY <2>1
  <2> QED BY <1>1, <1>2, <2>1, <2>2
<1>4. CASE u = 0
  <2>1. y \div v = a \div e /\ y % v = a % e
    BY <1>1, <1>3, <1>4
  <2> QED BY <1>2, <1>4, <2>1, Answered DEF a, e
<1>5. CASE u # 0
  <2>1. u \in Nat /\ u >= 1 /\ v \in Nat
    BY <1>1, <1>5, Whole
  <2>2. 1 * b <= u * b /\ 1 * b = b /\ u * b \in Nat
    BY <1>3, <2>1, Ordered
  <2>3. a < e
    BY <1>1, <1>3, <2>1, <2>2
  <2>4. a \div e = 0 /\ a % e = y
    BY <1>1, <1>3, <2>3, Quotients
  <2> QED BY <1>2, <1>5, <2>4, Answered DEF a, e
<1> QED BY <1>4, <1>5

\* A denominator with an empty lower half: its upper half divides, or shifts.
LEMMA EnterUpper ==
  ASSUME W!Int64Assumption, DivisionInv, pc = "enter", W!UpperHalves \/ W!UpperPower
  PROVE  DivisionInv'
<1> DEFINE b == W!Word
           x == num.high
           y == num.low
           u == den.high
           v == den.low
           a == W!All(num)
           e == W!All(den)
           z == [high |-> x % u, low |-> y]
<1>1. /\ x \in W!Half /\ y \in W!Half /\ u \in W!Half /\ v \in W!Half
      /\ a = x * b + y /\ e = u * b + v
      /\ u = 0 => v # 0
  BY Entered
<1>2. /\ v = 0
      /\ \/ y = 0 /\ W!Answer(x \div u, W!All(z))
         \/ W!PowerOfTwo(u) /\ W!Answer(W!Shr(x, W!ctz(u)), W!All(z))
  <2>1. CASE W!UpperHalves
    BY <2>1 DEF W!UpperHalves
  <2>2. CASE W!UpperPower
    BY <2>2 DEF W!UpperPower
  <2> QED BY <2>1, <2>2
<1> HIDE DEF a, e, x, y, u, v
<1>3. u \in W!Half \ {0}
  BY <1>1, <1>2
<1>4. x % u \in W!Half /\ a \div e = x \div u /\ a % e = (x % u) * b + y
  BY <1>1, <1>2, <1>3, ByUpper
<1>5. W!All(z) = a % e
  BY <1>1, <1>4, InHalves
<1>6. CASE W!PowerOfTwo(u)
  <2>1. W!Shr(x, W!ctz(u)) = x \div u
    BY <1>1, <1>6, ByLowerPower
  <2> HIDE DEF z
  <2> QED BY <1>2, <1>4, <1>5, <2>1, Answered DEF a, e
<1>7. CASE ~W!PowerOfTwo(u)
  <2> HIDE DEF z
  <2> QED BY <1>2, <1>4, <1>5, <1>7, Answered DEF a, e
<1> QED BY <1>6, <1>7

\* A denominator that is a power of two in the lower half shifts the numerator.
LEMMA EnterLowerPower ==
  ASSUME W!Int64Assumption, DivisionInv, pc = "enter", W!LowerPower
  PROVE  DivisionInv'
<1> DEFINE b == W!Word
           x == num.high
           y == num.low
           u == den.high
           v == den.low
           a == W!All(num)
           e == W!All(den)
           s == W!ctz(v)
           hi == W!Shr(x, s)
           lo == W!Shl(x, WordBits - s) + W!Shr(y, s)
<1>1. /\ x \in W!Half /\ y \in W!Half /\ u \in W!Half /\ v \in W!Half
      /\ a = x * b + y /\ e = u * b + v /\ a \in 0..W!DoubleWord - 1 /\ e \in 1..W!DoubleWord - 1
      /\ u = 0 => v # 0 /\ e = v
  BY Entered
<1>2. u = 0 /\ W!PowerOfTwo(v)
      /\ W!Answer(IF v = 1 THEN a ELSE W!All([high |-> hi, low |-> lo]), y % v)
  BY DEF W!LowerPower
<1> HIDE DEF a, e, x, y, u, v
<1>3. /\ hi \in W!Half /\ lo \in W!Half
      /\ a \div v = hi * b + lo /\ a % v = y % v
  BY <1>1, <1>2, ByLowerPower
<1> HIDE DEF hi, lo
<1>4. W!All([high |-> hi, low |-> lo]) = a \div v
  BY <1>3, InHalves
<1>5. e = 1 => a \div e = a
  BY <1>1, Quotients
<1>6. (IF v = 1 THEN a ELSE W!All([high |-> hi, low |-> lo])) = a \div e
  BY <1>1, <1>2, <1>4, <1>5
<1>7. y % v = a % e
  BY <1>1, <1>2, <1>3
<1> DEFINE i == IF v = 1 THEN a ELSE W!All([high |-> hi, low |-> lo])
<1>8. W!Answer(i, y % v) /\ i = a \div e
  BY <1>2, <1>6
<1> HIDE DEF i
<1> QED BY <1>7, <1>8, Answered DEF a, e

\* A denominator with an upper half is shifted by the distance of the leading bits.
LEMMA EnterByDistance ==
  ASSUME W!Int64Assumption, DivisionInv, pc = "enter", W!UpperDenominator \/ W!WholeDenominator
  PROVE  DivisionInv'
<1> DEFINE b == W!Word
           x == num.high
           y == num.low
           u == den.high
           v == den.low
           a == W!All(num)
           e == W!All(den)
           k == W!clz(u) - W!clz(x)
<1>1. /\ x \in W!Half /\ y \in W!Half /\ u \in W!Half /\ v \in W!Half
      /\ a = x * b + y /\ e = u * b + v /\ a \in 0..W!DoubleWord - 1 /\ e \in 1..W!DoubleWord - 1
      /\ u = 0 => v # 0
  BY Entered
<1>2. W!Distance = k
  BY DEF W!Distance
<1>3. /\ x # 0 /\ u # 0
      /\ \/ ~W!PowerOfTwo(u) /\ W!ByDistance(WordBits - 2)
         \/ W!ByDistance(WordBits - 1)
  <2>1. CASE W!UpperDenominator
    BY <1>1, <2>1 DEF W!UpperDenominator
  <2>2. CASE W!WholeDenominator
    BY <2>2 DEF W!WholeDenominator
  <2> QED BY <2>1, <2>2
<1> HIDE DEF x, y, u, v
<1>4. /\ k \in Int /\ k <= WordBits - 1 /\ (k = WordBits - 1 => u = 1)
      /\ k < 0 => a < e
      /\ k >= 0 => a < e * 2 ^ (k + 1)
      /\ k >= 0 /\ e > TopHalf * b => k = 0 /\ a >= TopHalf * b
  BY <1>1, <1>3, FarApart
<1>5. WordBits \in Nat /\ WordBits >= 2
  BY WordSizes
<1>6. u = 1 => W!PowerOfTwo(u)
  <2>1. 2 ^ 0 = 1 /\ 0 \in 0..WordBits - 1
    BY <1>5
  <2> QED BY <2>1 DEF W!PowerOfTwo
<1>7. \/ k \in 0..WordBits - 1 /\ W!Shift(k + 1)
      \/ k < 0 /\ W!Answer(0, a)
  <2>1. CASE ~W!PowerOfTwo(u) /\ W!ByDistance(WordBits - 2)
    <3>1. \/ k \in 0..WordBits - 2 /\ W!Shift(k + 1)
          \/ k \notin 0..WordBits - 2 /\ W!Answer(0, a)
      BY <1>2, <2>1 DEF W!ByDistance
    <3>2. k # WordBits - 1
      BY <1>4, <1>6, <2>1
    <3> HIDE DEF k
    <3>3. k \notin 0..WordBits - 2 => k < 0
      BY <1>4, <1>5, <3>2
    <3>4. k \in 0..WordBits - 2 => k \in 0..WordBits - 1
      BY <1>5
    <3> QED BY <3>1, <3>3, <3>4
  <2>2. CASE W!ByDistance(WordBits - 1)
    <3>1. \/ k \in 0..WordBits - 1 /\ W!Shift(k + 1)
          \/ k \notin 0..WordBits - 1 /\ W!Answer(0, a)
      BY <1>2, <2>2 DEF W!ByDistance
    <3> HIDE DEF k
    <3>2. k \notin 0..WordBits - 1 => k < 0
      BY <1>4, <1>5
    <3> QED BY <3>1, <3>2
  <2> QED BY <1>3, <2>1, <2>2
<1> HIDE DEF k
<1>8. CASE k \in 0..WordBits - 1 /\ W!Shift(k + 1)
  <2> DEFINE s == k + 1
  <2>1. s \in 1..2 * WordBits - 1
    BY <1>5, <1>8
  <2>2. a < e * 2 ^ s
    BY <1>4, <1>5, <1>8
  <2>3. e > TopHalf * b => s = 1 /\ a >= TopHalf * b
    BY <1>4, <1>5, <1>8
  <2>4. W!Shift(s)
    BY <1>8
  <2> HIDE DEF s
  <2> QED BY <2>1, <2>2, <2>3, <2>4, Shifted
<1>9. CASE k < 0 /\ W!Answer(0, a)
  <2>1. a \div e = 0 /\ a % e = a
    BY <1>1, <1>4, <1>9, Quotients
  <2> HIDE DEF a, e
  <2> QED BY <1>9, <2>1, Answered DEF a, e
<1> QED BY <1>7, <1>8, <1>9

\* A denominator in the lower half is shifted by one word more.
LEMMA EnterLower ==
  ASSUME W!Int64Assumption, DivisionInv, pc = "enter", W!LowerDenominator
  PROVE  DivisionInv'
<1> DEFINE b == W!Word
           x == num.high
           y == num.low
           u == den.high
           v == den.low
           a == W!All(num)
           e == W!All(den)
           s == 1 + WordBits + W!clz(v) - W!clz(x)
<1>1. /\ x \in W!Half /\ y \in W!Half /\ v \in W!Half
      /\ a = x * b + y
      /\ u = 0 => v # 0 /\ e = v
  BY Entered
<1>2. x # 0 /\ u = 0 /\ ~W!PowerOfTwo(v) /\ W!Shift(s)
  BY DEF W!LowerDenominator
<1> HIDE DEF x, y, u, v
<1>3. s \in 1..2 * WordBits - 1 /\ x * b + y < v * 2 ^ s
  BY <1>1, <1>2, FarBelow
<1> HIDE DEF s
<1>4. a < e * 2 ^ s /\ e = v
  BY <1>1, <1>2, <1>3
<1>5. ~(e > TopHalf * b)
  <2>1. v \in Nat /\ v + 1 <= b /\ b \in Nat \ {0} /\ TopHalf \in Nat \ {0} /\ TopHalf * b \in Nat
    BY <1>1, Whole, WordSizes
  <2>2. 1 * b <= TopHalf * b /\ 1 * b = b
    BY <2>1, Ordered
  <2> QED BY <1>4, <2>1, <2>2
<1> QED BY <1>2, <1>3, <1>4, <1>5, Shifted

\* One iteration of the loop keeps its invariant.
LEMMA DivisionIterate ==
  ASSUME W!Int64Assumption, DivisionInv, W!Iterate
  PROVE  DivisionInv'
<1> DEFINE b == W!Word
           D == W!DoubleWord
           a == W!All(num)
           e == W!All(den)
           hi == quo.high
           lo == quo.low
           hj == rmd.high
           lj == rmd.low
           uh == W!Shl(hj, 1) + W!Shr(lj, WordBits - 1)
           ul == W!Shl(lj, 1) + W!Shr(hi, WordBits - 1)
           up == uh * b + ul
           found == IF (e - up - 1) % D >= D \div 2 THEN 1 ELSE 0
           qh == W!Shl(hi, 1) + W!Shr(lo, WordBits - 1)
           ql == W!Shl(lo, 1) + carry
           x == (up - found * e) % D
<1>1. /\ pc = "loop" /\ sr > 0 /\ sr' = sr - 1 /\ carry' = found
      /\ quo' = [high |-> qh, low |-> ql]
      /\ rmd' = W!Udwords(x)
      /\ UNCHANGED <<pc, call, num, den, quot, rem>>
  <2>1. W!All([high |-> uh, low |-> ul]) = up
    BY DEF W!All
  <2> DEFINE r == [high |-> uh, low |-> ul]
             next == IF W!Fits(W!All(r)) THEN 1 ELSE 0
  <2>2. /\ pc = "loop" /\ sr > 0 /\ sr' = sr - 1 /\ carry' = next
        /\ quo' = [high |-> qh, low |-> ql]
        /\ rmd' = W!Udwords((W!All(r) - next * e) % D)
        /\ UNCHANGED <<pc, call, num, den, quot, rem>>
    BY DEF W!Iterate
  <2>3. W!Fits(up) <=> (e - up - 1) % D >= D \div 2
    BY DEF W!Fits
  <2> HIDE DEF r, up, e
  <2> QED BY <2>1, <2>2, <2>3 DEF r
<1>2. /\ hi \in W!Half /\ lo \in W!Half /\ hj \in W!Half /\ lj \in W!Half
      /\ W!All(quo) = hi * b + lo /\ W!All(rmd) = hj * b + lj
  BY InHalves DEF DivisionInv, DivisionTyped, Pair
<1>3. a \in 0..D - 1 /\ e \in 1..D - 1
  BY <1>1, Entered
<1>4. sr \in 1..2 * WordBits - 1 /\ carry \in 0..1 /\ WordBits \in Nat
  BY <1>1, WordSizes DEF DivisionInv, DivisionTyped
<1>5. /\ Progress(a, e, hi * b + lo, hj * b + lj, sr, carry)
      /\ e > TopHalf * b => sr = 1 /\ a >= TopHalf * b
  BY <1>1, <1>2, <1>4 DEF DivisionInv, LoopRight
<1> HIDE DEF a, e, hi, lo, hj, lj
<1>6. /\ qh \in W!Half /\ ql \in W!Half /\ x \in 0..D - 1
      /\ Progress(a, e, qh * b + ql, x, sr - 1, found)
  BY <1>2, <1>3, <1>4, <1>5, LoopTurn
<1>7. found \in 0..1
  OBVIOUS
<1> HIDE DEF qh, ql, x, found
<1>8. quo' \in Pair /\ rmd' \in Pair /\ W!All(quo') = qh * b + ql /\ W!All(rmd') = x
  BY <1>1, <1>6, InHalves DEF Pair
<1>9. W!All(num)' = a /\ W!All(den)' = e /\ W!All(quo)' = W!All(quo') /\ W!All(rmd)' = W!All(rmd')
  BY <1>1 DEF W!All, a, e
<1>10. DivisionTyped'
  <2>1. sr - 1 \in 0..2 * WordBits - 1
    BY <1>4
  <2> QED BY <1>1, <1>7, <1>8, <2>1 DEF DivisionInv, DivisionTyped
<1>11. LoopRight'
  <2>1. Progress(a, e, W!All(quo'), W!All(rmd'), sr', carry')
    BY <1>1, <1>6, <1>8
  <2>2. e > TopHalf * b => sr' <= 1 /\ a >= TopHalf * b
    BY <1>1, <1>4, <1>5
  <2> QED BY <1>9, <2>1, <2>2 DEF LoopRight
<1>12. OperandsTaken'
  BY <1>1 DEF DivisionInv, OperandsTaken, Operand, W!All
<1> QED BY <1>1, <1>10, <1>11, <1>12 DEF DivisionInv, ResultRight

\* When all bits were shifted, the loop has found quotient and remainder.
LEMMA DivisionLeave ==
  ASSUME W!Int64Assumption, DivisionInv, W!Leave
  PROVE  DivisionInv'
<1> DEFINE a == W!All(num)
           e == W!All(den)
           x == W!All(rmd)
           y == W!All(quo)
<1>1. pc = "loop" /\ sr = 0 /\ W!Answer((2 * y + carry) % W!DoubleWord, x)
  BY DEF W!Leave
<1>2. a \in 0..W!DoubleWord - 1 /\ e \in 1..W!DoubleWord - 1
  BY <1>1, Entered
<1>3. carry \in 0..1 /\ x \in Nat
  <2>1. carry \in 0..1 /\ rmd \in Pair
    BY DEF DivisionInv, DivisionTyped
  <2>2. x \in 0..W!DoubleWord - 1
    BY <2>1, InHalves DEF Pair
  <2> QED BY <2>1, <2>2, WordSizes
<1>4. Progress(a, e, y, x, 0, carry)
  BY <1>1 DEF DivisionInv, LoopRight
<1> HIDE DEF a, e, x, y
<1>5. (2 * y + carry) % W!DoubleWord = a \div e /\ x = a % e
  BY <1>2, <1>3, <1>4, LoopEnd
<1> DEFINE i == (2 * y + carry) % W!DoubleWord
<1> HIDE DEF i
<1>6. W!Answer(i, x) /\ i = a \div e
  BY <1>1, <1>5 DEF i
<1> QED BY <1>1, <1>5, <1>6, Answered DEF a, e

\* Every step of a division keeps the invariant.
LEMMA DivisionStep == ASSUME W!Int64Assumption, DivisionInv, W!Next PROVE DivisionInv'
<1>1. ASSUME NEW x \in Doubles, NEW y \in Doubles, W!Call(FALSE, x, y)
      PROVE  DivisionInv'
  <2>1. x \in 0..W!DoubleWord - 1 /\ y \in 0..W!DoubleWord - 1
    BY DEF W!Int64Assumption
  <2> QED BY <1>1, <2>1, DivisionCall
<1>2. ASSUME NEW x \in Doubles, NEW y \in Doubles,
             NEW i \in {x, W!Negated(x)}, NEW j \in {y, W!Negated(y)}, W!Call(TRUE, i, j)
      PROVE  DivisionInv'
  <2>1. x \in 0..W!DoubleWord - 1 /\ y \in 0..W!DoubleWord - 1
    BY DEF W!Int64Assumption
  <2>2. W!Negated(x) \in 0..W!DoubleWord - 1 /\ W!Negated(y) \in 0..W!DoubleWord - 1
    BY <2>1, SignsTaken
  <2>3. i \in 0..W!DoubleWord - 1 /\ j \in 0..W!DoubleWord - 1
    BY <2>1, <2>2
  <2> QED BY <1>2, <2>3, DivisionCall
<1>3. ASSUME W!Enter PROVE DivisionInv'
  <2>1. pc = "enter"
    BY <1>3 DEF W!Enter
  <2> QED BY <1>3, <2>1, EnterShort, EnterUpper, EnterLowerPower, EnterByDistance, EnterLower
          DEF W!Enter
<1> QED BY <1>1, <1>2, <1>3, DivisionIterate, DivisionLeave, DivisionReturn DEF W!Next

\* It is about the variables of the division only.
LEMMA DivisionKept == ASSUME DivisionInv, UNCHANGED division PROVE DivisionInv'
BY DEF DivisionInv, DivisionTyped, OperandsTaken, LoopRight, ResultRight, Operand, division, W!All

\* The loop's state determines quotient and remainder of what it has seen.
LEMMA DivisionHalfway ==
  ASSUME W!Int64Assumption, DivisionInv
  PROVE  W!TypeOK /\ W!Halfway
<1>1. W!TypeOK
  BY InHalves DEF DivisionInv, DivisionTyped, Pair, W!TypeOK
<1>2. ASSUME pc = "loop" PROVE W!Halfway
  <2> DEFINE o == 2 ^ (2 * WordBits - sr)
             f == 2 ^ sr
             a == W!All(num)
             e == W!All(den)
             x == W!All(rmd)
             y == W!All(quo)
  <2>1. PICK seen \in Nat, left \in Nat :
          /\ seen < o /\ left < f /\ y = left * o + seen
          /\ x < e /\ a = (e * (2 * seen + carry) + x) * f + left
    BY <1>2 DEF DivisionInv, LoopRight, Progress
  <2>2. o \in Nat \ {0}
    <3>1. WordBits \in Nat /\ sr \in 0..2 * WordBits - 1
      BY WordSizes DEF DivisionInv, DivisionTyped
    <3>2. 2 * WordBits - sr \in Nat
      BY <3>1
    <3> QED BY <3>2, PowerPositive
  <2> HIDE DEF o, f, a, e, x, y
  <2>3. seen \in 0..o - 1 /\ seen \in Int /\ left \in Int
    BY <2>1, <2>2
  <2>4. (left * o + seen) \div o = left /\ (left * o + seen) % o = seen
    BY <2>2, <2>3, Unique
  <2>5. y \div o = left /\ y % o = seen
    BY <2>1, <2>4
  <2>6. x < e /\ a = (e * (2 * (y % o) + carry) + x) * f + (y \div o)
    BY <2>1, <2>5
  <2> QED BY <2>6 DEF W!Halfway, o, f, a, e, x, y
<1>3. W!Halfway
  BY <1>2 DEF W!Halfway
<1> QED BY <1>1, <1>3

\* The remainder of numbers of which one, the other or both were negated modulo D.
Cancels(D, y, i, j, g, h) ==
  /\ \E k \in Int : (i * y + j) - i * y = k * D + j
  /\ \E k \in Int : (D - (i * y + j)) - (g * D - i) * y = k * D + (h * D - j)
  /\ \E k \in Int : (i * y + j) - (g * D - i) * (D - y) = k * D + j
  /\ \E k \in Int : (D - (i * y + j)) - i * (D - y) = k * D + (h * D - j)

\* Whatever signs the operands have, their remainders differ by a multiple of D.
LEMMA SignsCancel ==
  \A D \in Nat \ {0}, y, i, j \in Nat, g, h \in Int : Cancels(D, y, i, j, g, h)
<1> TAKE D \in Nat \ {0}, y, i, j \in Nat, g, h \in Int
<1> DEFINE m == i * y
           z == g * D
           l == g * y
           n == i * D
           o == h * D
<1>1. m \in Int /\ z \in Int /\ l \in Int /\ n \in Int /\ o \in Int /\ z * y = l * D /\ z * D \in Int /\ l * D \in Int
  OBVIOUS
<1>2. (m + j) - m = 0 * D + j
  <2>1. 0 * D = 0
    OBVIOUS
  <2> HIDE DEF m
  <2> QED BY <1>1, <2>1
<1>3. (z - i) * y = l * D - m /\ (z - i) * (D - y) = z * D - l * D - n + m /\ i * (D - y) = n - m
  <2>1. \A t \in Int : (t - i) * y = t * y - i * y /\ (t - i) * (D - y) = t * D - t * y - i * D + i * y
    OBVIOUS
  <2>2. i * (D - y) = i * D - i * y
    OBVIOUS
  <2> QED BY <1>1, <2>1, <2>2
<1>4. /\ (1 - l - h) * D = D - l * D - o /\ (i + l - z) * D = n + l * D - z * D
      /\ (1 - i - h) * D = D - n - o
  <2>1. \A t \in Int : (1 - t - h) * D = D - t * D - h * D
    OBVIOUS
  <2>2. \A t, p1 \in Int : (i + t - p1) * D = i * D + t * D - p1 * D
    OBVIOUS
  <2> QED BY <1>1, <2>1, <2>2
<1>5. 1 - l - h \in Int /\ i + l - z \in Int /\ 1 - i - h \in Int
  BY <1>1
<1> HIDE DEF m, z, l, n, o
<1>6. (D - (m + j)) - (z - i) * y = (1 - l - h) * D + (o - j)
  BY <1>1, <1>3, <1>4
<1>7. (m + j) - (z - i) * (D - y) = (i + l - z) * D + j
  BY <1>1, <1>3, <1>4
<1>8. (D - (m + j)) - i * (D - y) = (1 - i - h) * D + (o - j)
  BY <1>1, <1>3, <1>4
<1>9. \E k \in Int : (m + j) - m = k * D + j
  BY <1>2
<1>10. \E k \in Int : (D - (m + j)) - (z - i) * y = k * D + (o - j)
  BY <1>5, <1>6
<1>11. \E k \in Int : (m + j) - (z - i) * (D - y) = k * D + j
  BY <1>5, <1>7
<1>12. \E k \in Int : (D - (m + j)) - i * (D - y) = k * D + (o - j)
  BY <1>5, <1>8
<1> QED BY <1>9, <1>10, <1>11, <1>12 DEF Cancels, m, z, o

\* Multiplying back what was divided gives the signed remainder.
LEMMA MultipliedBack ==
  ASSUME W!Int64Assumption, NEW a \in 0..W!DoubleWord - 1, NEW b \in 1..W!DoubleWord - 1,
         quot = W!Magnitude(a) \div W!Magnitude(b), rem = W!Magnitude(a) % W!Magnitude(b),
         quot \in 0..W!DoubleWord - 1, rem \in 0..W!DoubleWord - 1
  PROVE  W!DivmodRem(a, b) = W!SignedRem(a, b)
<1> DEFINE D == W!DoubleWord
           x == W!Magnitude(a)
           y == W!Magnitude(b)
           i == W!SignedQuot(a, b)
           j == W!SignedRem(a, b)
<1>1. D \in Nat \ {0} /\ a \in Nat /\ b \in Nat \ {0}
  BY WordSizes
<1>0. W!Negative(a) \in BOOLEAN /\ W!Negative(b) \in BOOLEAN
  BY DEF W!Negative
<1>2. x \in Nat /\ x = (IF W!Negative(a) THEN D - a ELSE a)
  BY <1>1, SignsTaken
<1>3. y \in Nat \ {0} /\ y = (IF W!Negative(b) THEN D - b ELSE b)
  <2>1. b \in 0..D - 1 /\ b # 0
    BY <1>1
  <2> QED BY <1>1, <2>1, SignsTaken
<1>4. quot \in Nat /\ rem \in Nat /\ x = quot * y + rem
  <2> HIDE DEF x, y
  <2>1. x \in Int /\ x = (x \div y) * y + (x % y)
    <3>1. x \in Int /\ y \in Nat \ {0}
      BY <1>2, <1>3
    <3> QED BY <3>1, Division
  <2> QED BY <1>1, <2>1 DEF x, y
<1>5. \E k \in Int : i = IF W!Negative(a) # W!Negative(b) THEN k * D - quot ELSE quot
  <2>1. W!Negated(quot) = IF quot = 0 THEN 0 ELSE D - quot
    BY SignsTaken
  <2>2. i = IF W!Negative(a) # W!Negative(b) THEN W!Negated(quot) ELSE quot
    BY DEF W!SignedQuot
  <2>3. CASE quot = 0
    <3>1. 0 * D - quot = 0
      BY <1>1, <1>4, <2>3
    <3> QED BY <2>1, <2>2, <2>3, <3>1
  <2>4. CASE quot # 0
    <3>1. 1 * D - quot = D - quot
      BY <1>1, <1>4
    <3> QED BY <2>1, <2>2, <2>4, <3>1
  <2> QED BY <2>3, <2>4
<1>6. j \in 0..D - 1 /\ \E k \in Int : j = IF W!Negative(a) THEN k * D - rem ELSE rem
  <2>1. W!Negated(rem) \in 0..D - 1 /\ W!Negated(rem) = IF rem = 0 THEN 0 ELSE D - rem
    BY SignsTaken
  <2>2. j = IF W!Negative(a) THEN W!Negated(rem) ELSE rem
    BY DEF W!SignedRem
  <2>3. CASE rem = 0
    <3>1. 0 * D - rem = 0
      BY <1>1, <1>4, <2>3
    <3> QED BY <2>1, <2>2, <2>3, <3>1
  <2>4. CASE rem # 0
    <3>1. 1 * D - rem = D - rem
      BY <1>1, <1>4
    <3> QED BY <2>1, <2>2, <2>4, <3>1
  <2> QED BY <2>3, <2>4
<1> HIDE DEF D, x, y, i, j
<1>7. PICK g \in Int : i = IF W!Negative(a) # W!Negative(b) THEN g * D - quot ELSE quot
  BY <1>5
<1>8. PICK h \in Int : j = IF W!Negative(a) THEN h * D - rem ELSE rem
  BY <1>6
<1>9. \E k \in Int : a - i * b = k * D + j
  <2>0. Cancels(D, y, quot, rem, g, h)
    <3>1. D \in Nat \ {0} /\ y \in Nat /\ quot \in Nat /\ rem \in Nat
      BY <1>1, <1>3, <1>4
    <3> QED BY <3>1, SignsCancel
  <2>1. CASE ~W!Negative(a) /\ ~W!Negative(b)
    <3>1. a = quot * y + rem /\ b = y /\ i = quot /\ j = rem
      BY <1>0, <1>2, <1>3, <1>4, <1>7, <1>8, <2>1
    <3> QED BY <3>1, <2>0 DEF Cancels
  <2>2. CASE W!Negative(a) /\ ~W!Negative(b)
    <3>1. a = D - (quot * y + rem) /\ b = y /\ i = g * D - quot /\ j = h * D - rem
      <4>1. a = D - x /\ b = y
        BY <1>1, <1>2, <1>3, <2>2
      <4> QED BY <1>0, <1>4, <1>7, <1>8, <2>2, <4>1
    <3> QED BY <3>1, <2>0 DEF Cancels
  <2>3. CASE ~W!Negative(a) /\ W!Negative(b)
    <3>1. a = quot * y + rem /\ b = D - y /\ i = g * D - quot /\ j = rem
      <4>1. a = x /\ b = D - y
        BY <1>1, <1>2, <1>3, <2>3
      <4> QED BY <1>0, <1>4, <1>7, <1>8, <2>3, <4>1
    <3> QED BY <3>1, <2>0 DEF Cancels
  <2>4. CASE W!Negative(a) /\ W!Negative(b)
    <3>1. a = D - (quot * y + rem) /\ b = D - y /\ i = quot /\ j = h * D - rem
      <4>1. a = D - x /\ b = D - y
        BY <1>1, <1>2, <1>3, <2>4
      <4> QED BY <1>0, <1>4, <1>7, <1>8, <2>4, <4>1
    <3> QED BY <3>1, <2>0 DEF Cancels
  <2> QED BY <2>1, <2>2, <2>3, <2>4
<1>10. PICK k \in Int : a - i * b = k * D + j
  BY <1>9
<1>11. (k * D + j) % D = j
  <2>1. j \in Int
    BY <1>1, <1>6
  <2> QED BY <1>1, <1>6, <2>1, Unique
<1>12. W!DivmodRem(a, b) = (a - i * b) % D
  BY DEF W!DivmodRem, i, D
<1> QED BY <1>10, <1>11, <1>12 DEF j

\* What the entry points return is right if quotient and remainder are those of
\* the numbers divided.
LEMMA Returned ==
  ASSUME W!Int64Assumption,
         call \in [signed : BOOLEAN, a : 0..W!DoubleWord - 1, b : 0..W!DoubleWord - 1],
         pc = "done" => /\ call.b # 0
                        /\ quot = Operand(call.a) \div Operand(call.b)
                        /\ rem = Operand(call.a) % Operand(call.b)
                        /\ quot \in 0..W!DoubleWord - 1 /\ rem \in 0..W!DoubleWord - 1
  PROVE  W!Divides
<1> SUFFICES ASSUME pc = "done" PROVE W!Divides
  BY DEF W!Divides
<1> DEFINE a == call.a
           b == call.b
           x == W!Magnitude(a)
           y == W!Magnitude(b)
<1>1. /\ b # 0 /\ quot = Operand(a) \div Operand(b) /\ rem = Operand(a) % Operand(b)
      /\ quot \in 0..W!DoubleWord - 1 /\ rem \in 0..W!DoubleWord - 1
  OBVIOUS
<1>2. a \in 0..W!DoubleWord - 1 /\ b \in 0..W!DoubleWord - 1 /\ b \in 1..W!DoubleWord - 1
  BY <1>1, WordSizes
<1>3. CASE ~call.signed
  <2>1. Operand(a) = a /\ Operand(b) = b
    BY <1>3 DEF Operand
  <2>2. quot = a \div b /\ rem = a % b
    BY <1>1, <2>1
  <2> QED BY <1>3, <2>2 DEF W!Divides
<1>4. CASE call.signed
  <2>1. Operand(a) = x /\ Operand(b) = y
    BY <1>4 DEF Operand
  <2>2. quot = x \div y /\ rem = x % y
    BY <1>1, <2>1
  <2>3. W!SignedQuot(a, b) = IF W!Negative(a) # W!Negative(b) THEN W!Negated(x \div y) ELSE x \div y
    BY <2>2 DEF W!SignedQuot
  <2>4. W!SignedRem(a, b) = IF W!Negative(a) THEN W!Negated(x % y) ELSE x % y
    BY <2>2 DEF W!SignedRem
  <2> HIDE DEF a, b
  <2>5. W!DivmodRem(a, b) = W!SignedRem(a, b)
    BY <1>1, <1>2, <2>2, MultipliedBack
  <2> USE DEF a, b
  <2> QED BY <1>4, <2>3, <2>4, <2>5 DEF W!Divides
<1> QED BY <1>3, <1>4

\* The entry points return quotient and remainder, with the signs they have in C.
LEMMA DivisionConcludes == ASSUME W!Int64Assumption, DivisionInv PROVE W!Divides
<1>1. call \in [signed : BOOLEAN, a : 0..W!DoubleWord - 1, b : 0..W!DoubleWord - 1]
  BY DEF DivisionInv, DivisionTyped
<1>2. ASSUME pc = "done"
      PROVE  /\ call.b # 0
             /\ quot = Operand(call.a) \div Operand(call.b)
             /\ rem = Operand(call.a) % Operand(call.b)
             /\ quot \in 0..W!DoubleWord - 1 /\ rem \in 0..W!DoubleWord - 1
  BY <1>2 DEF DivisionInv, DivisionTyped, OperandsTaken, ResultRight
<1> QED BY <1>1, <1>2, Returned

\* On RISC-V numbers that fit a half have nothing in the member named low.
NarrowInv ==
  /\ pc \in {"idle", "enter", "done"}
  /\ call \in [signed : BOOLEAN, a : 0..W!DoubleWord - 1, b : 0..W!DoubleWord - 1]
  /\ pc # "idle" =>
       /\ call.b # 0 /\ Operand(call.b) # 0
       /\ Operand(call.a) \in W!Half /\ Operand(call.b) \in W!Half
       /\ num = [high |-> Operand(call.a), low |-> 0]
       /\ den = [high |-> Operand(call.b), low |-> 0]
  /\ pc = "done" =>
       quot = Operand(call.a) \div Operand(call.b) /\ rem = Operand(call.a) % Operand(call.b)

\* The byte order changes no more than which half is which.
LEMMA SameNumbers ==
  /\ \A x : N!Magnitude(x) = W!Magnitude(x) /\ N!Negated(x) = W!Negated(x)
  /\ N!Divides <=> W!Divides
<1>1. \A x : N!Negated(x) = W!Negated(x) /\ (N!Negative(x) <=> W!Negative(x))
  BY DEF N!Negated, W!Negated, N!Negative, W!Negative, N!DoubleWord, W!DoubleWord, N!Word, W!Word
<1>2. \A x : N!Magnitude(x) = W!Magnitude(x)
  BY DEF N!Negated, W!Negated, N!Negative, W!Negative, N!DoubleWord, W!DoubleWord, N!Word, W!Word,
         N!Magnitude, W!Magnitude
<1>3. N!Divides <=> W!Divides
  BY DEF N!Negated, W!Negated, N!Negative, W!Negative, N!DoubleWord, W!DoubleWord, N!Word, W!Word,
         N!Magnitude, W!Magnitude, N!Divides, W!Divides, N!SignedQuot, W!SignedQuot,
         N!SignedRem, W!SignedRem, N!DivmodRem, W!DivmodRem
<1> QED BY <1>1, <1>2, <1>3

\* With the halves named as on RISC-V, a number that fits one is the half named high.
LEMMA NarrowPair ==
  ASSUME W!Int64Assumption, NEW x \in W!Half
  PROVE  N!Udwords(x) = [high |-> x, low |-> 0]
<1> DEFINE b == W!Word
<1>1. b \in Nat \ {0}
  BY WordSizes
<1>2. x \in 0..b - 1
  BY DEF W!Half
<1>3. N!Udwords(x) = [high |-> x % b, low |-> x \div b]
  BY DEF N!Udwords, N!Word, W!Word
<1> HIDE DEF b
<1>4. x \in Int /\ 0 \in Int /\ 0 * b + x = x
  BY <1>1, <1>2
<1>5. (0 * b + x) \div b = 0 /\ (0 * b + x) % b = x
  BY <1>1, <1>2, <1>4, Unique
<1> QED BY <1>3, <1>4, <1>5

\* Such a number and its negation have it as their magnitude.
LEMMA NarrowMagnitude ==
  ASSUME W!Int64Assumption, NEW x \in W!Half
  PROVE  /\ x \in 0..W!DoubleWord - 1 /\ W!Negated(x) \in 0..W!DoubleWord - 1
         /\ W!Magnitude(x) = x /\ W!Magnitude(W!Negated(x)) = x
<1> DEFINE D == W!DoubleWord
           m == TopHalf * W!Word
<1>1. D = 2 * m /\ D \div 2 = m /\ m \in Nat \ {0} /\ x \in Nat /\ x < m
  <2> DEFINE b == W!Word
  <2>1. /\ D = 2 * m /\ D \div 2 = m /\ m = TopHalf * b /\ m \in Nat \ {0}
        /\ TopHalf \in Nat \ {0} /\ b \in Nat \ {0}
    BY WordSizes
  <2>2. x \in Nat /\ x + 1 <= b
    BY Whole
  <2> HIDE DEF b, D, m
  <2>3. 1 * b <= TopHalf * b /\ 1 * b = b
    BY <2>1, Ordered
  <2> QED BY <2>1, <2>2, <2>3
<1> HIDE DEF D, m
<1>2. x \in 0..D - 1
  BY <1>1
<1>3. W!Negative(x) <=> x >= m
  BY <1>1 DEF W!Negative, D
<1>4. W!Magnitude(x) = x
  <2>1. W!Magnitude(x) = IF W!Negative(x) THEN D - x ELSE x
    BY <1>2, SignsTaken DEF D
  <2> QED BY <1>1, <1>3, <2>1
<1>5. W!Negated(x) \in 0..D - 1 /\ W!Negated(x) = IF x = 0 THEN 0 ELSE D - x
  BY <1>2, SignsTaken DEF D
<1>6. W!Magnitude(W!Negated(x)) = x
  <2>1. CASE x = 0
    BY <1>4, <1>5, <2>1
  <2>2. CASE x # 0
    <3> DEFINE y == W!Negated(x)
    <3>1. y = D - x /\ y \in 0..D - 1 /\ y >= m
      BY <1>1, <1>5, <2>2
    <3> HIDE DEF y
    <3>2. W!Negative(y) <=> y >= m
      BY <1>1 DEF W!Negative, D
    <3>3. W!Magnitude(y) = IF W!Negative(y) THEN D - y ELSE y
      BY <3>1, SignsTaken DEF D
    <3>4. W!Magnitude(y) = x
      BY <1>1, <3>1, <3>2, <3>3
    <3> QED BY <3>4 DEF y
  <2> QED BY <2>1, <2>2
<1> QED BY <1>2, <1>4, <1>5, <1>6 DEF D

\* No division runs at first.
LEMMA NarrowStart == ASSUME W!Int64Assumption, N!Init PROVE NarrowInv
<1>1. pc = "idle" /\ call = [signed |-> FALSE, a |-> 0, b |-> 0]
  BY DEF N!Init
<1> QED BY <1>1, Idle DEF NarrowInv

\* And none after a return.
LEMMA NarrowReturn == ASSUME W!Int64Assumption, N!Return PROVE NarrowInv'
<1>1. pc' = "idle" /\ call' = [signed |-> FALSE, a |-> 0, b |-> 0]
  BY DEF N!Return
<1> QED BY <1>1, Idle DEF NarrowInv

\* Operands that fit a half reach __udivmoddi4 in the halves it reads.
LEMMA NarrowCall ==
  ASSUME W!Int64Assumption, NEW z \in BOOLEAN, NEW x \in W!Half, NEW y \in W!Half,
         NEW i \in {x, W!Negated(x)}, NEW j \in {y, W!Negated(y)}, ~z => i = x /\ j = y,
         N!Call(z, i, j)
  PROVE  NarrowInv'
<1>1. /\ j # 0 /\ pc' = "enter" /\ call' = [signed |-> z, a |-> i, b |-> j]
      /\ num' = N!Udwords(IF z THEN N!Magnitude(i) ELSE i)
      /\ den' = N!Udwords(IF z THEN N!Magnitude(j) ELSE j)
  BY DEF N!Call
<1>2. /\ x \in 0..W!DoubleWord - 1 /\ W!Negated(x) \in 0..W!DoubleWord - 1
      /\ y \in 0..W!DoubleWord - 1 /\ W!Negated(y) \in 0..W!DoubleWord - 1
      /\ W!Magnitude(i) = x /\ W!Magnitude(j) = y
  <2>1. /\ x \in 0..W!DoubleWord - 1 /\ W!Negated(x) \in 0..W!DoubleWord - 1
        /\ W!Magnitude(x) = x /\ W!Magnitude(W!Negated(x)) = x
    BY NarrowMagnitude
  <2>2. /\ y \in 0..W!DoubleWord - 1 /\ W!Negated(y) \in 0..W!DoubleWord - 1
        /\ W!Magnitude(y) = y /\ W!Magnitude(W!Negated(y)) = y
    BY NarrowMagnitude
  <2> QED BY <2>1, <2>2
<1>3. i \in 0..W!DoubleWord - 1 /\ j \in 0..W!DoubleWord - 1
  BY <1>2
<1>4. (IF z THEN N!Magnitude(i) ELSE i) = x /\ (IF z THEN N!Magnitude(j) ELSE j) = y
  BY <1>2, SameNumbers
<1>5. num' = [high |-> x, low |-> 0] /\ den' = [high |-> y, low |-> 0]
  BY <1>1, <1>4, NarrowPair
<1>6. Operand(call.a)' = x /\ Operand(call.b)' = y /\ call'.b = j
  BY <1>1, <1>2 DEF Operand
<1>7. y # 0
  <2>1. j # 0 => W!Magnitude(j) # 0
    BY <1>3, SignsTaken
  <2> QED BY <1>1, <1>2, <2>1
<1>8. call' \in [signed : BOOLEAN, a : 0..W!DoubleWord - 1, b : 0..W!DoubleWord - 1]
  BY <1>1, <1>3
<1> QED BY <1>1, <1>5, <1>6, <1>7, <1>8 DEF NarrowInv

\* They are divided by half-width division at once.
LEMMA NarrowEnter ==
  ASSUME W!Int64Assumption, NarrowInv, N!Enter
  PROVE  NarrowInv'
<1> DEFINE a == Operand(call.a)
           b == Operand(call.b)
<1>1. /\ pc = "enter" /\ call.b # 0 /\ b # 0 /\ a \in W!Half /\ b \in W!Half
      /\ num = [high |-> a, low |-> 0] /\ den = [high |-> b, low |-> 0]
      /\ call \in [signed : BOOLEAN, a : 0..W!DoubleWord - 1, b : 0..W!DoubleWord - 1]
  BY DEF N!Enter, NarrowInv
<1>2. num.high = a /\ num.low = 0 /\ den.high = b /\ den.low = 0
  BY <1>1
<1> HIDE DEF a, b
<1>3. b \in Nat \ {0} /\ a \in Nat /\ W!Word \in Nat \ {0}
  BY <1>1, Whole, WordSizes
<1>4. N!Answer(a \div b, a % b)
  <2>1. CASE N!ShortNumerator
    <3>1. a = 0 /\ N!Answer(0, 0)
      BY <1>1, <1>2, <2>1 DEF N!ShortNumerator
    <3>2. 0 * b + 0 = 0 /\ 0 \in 0..b - 1 /\ 0 \in Int
      BY <1>3
    <3>3. (0 * b + 0) \div b = 0 /\ (0 * b + 0) % b = 0
      BY <1>3, <3>2, Unique
    <3>4. a \div b = 0 /\ a % b = 0
      BY <3>1, <3>2, <3>3
    <3> QED BY <3>1, <3>4
  <2>2. CASE N!UpperHalves
    <3>1. N!Answer(a \div b, N!All([high |-> a % b, low |-> 0]))
      BY <1>2, <2>2 DEF N!UpperHalves
    <3>2. N!All([high |-> a % b, low |-> 0]) = a % b
      <4>1. N!All([high |-> a % b, low |-> 0]) = 0 * W!Word + (a % b)
        BY DEF N!All, N!Word, W!Word
      <4>2. a % b \in Int
        BY <1>3
      <4>3. 0 * W!Word + (a % b) = a % b
        BY <1>3, <4>2
      <4> QED BY <4>1, <4>3
    <3> QED BY <3>1, <3>2
  <2>3. CASE N!UpperPower
    BY <1>2, <2>3 DEF N!UpperPower
  <2>4. CASE N!LowerPower
    BY <1>1, <1>2, <2>4 DEF N!LowerPower
  <2>5. CASE N!UpperDenominator
    BY <1>2, <2>5 DEF N!UpperDenominator
  <2>6. CASE N!WholeDenominator
    BY <1>2, <2>6 DEF N!WholeDenominator
  <2>7. CASE N!LowerDenominator
    BY <1>1, <1>2, <2>7 DEF N!LowerDenominator
  <2> QED BY <2>1, <2>2, <2>3, <2>4, <2>5, <2>6, <2>7 DEF N!Enter
<1>5. /\ pc' = "done" /\ quot' = a \div b /\ rem' = a % b
      /\ UNCHANGED <<call, num, den>>
  BY <1>4 DEF N!Answer
<1>6. Operand(call.a)' = a /\ Operand(call.b)' = b
  BY <1>5 DEF Operand, a, b
<1> QED BY <1>1, <1>5, <1>6 DEF NarrowInv

\* Every step keeps the invariant.
LEMMA NarrowStep ==
  ASSUME W!Int64Assumption, Singles \subseteq 0..2 ^ WordBits - 1, NarrowInv, N!Next
  PROVE  NarrowInv'
<1>0. Singles \subseteq W!Half
  BY DEF W!Half, W!Word
<1>1. ASSUME NEW x \in Singles, NEW y \in Singles, N!Call(FALSE, x, y)
      PROVE  NarrowInv'
  <2>1. x \in W!Half /\ y \in W!Half /\ x \in {x, W!Negated(x)} /\ y \in {y, W!Negated(y)} /\ FALSE \in BOOLEAN
    BY <1>0
  <2> QED BY <1>1, <2>1, NarrowCall
<1>2. ASSUME NEW x \in Singles, NEW y \in Singles,
             NEW i \in {x, N!Negated(x)}, NEW j \in {y, N!Negated(y)}, N!Call(TRUE, i, j)
      PROVE  NarrowInv'
  <2>1. x \in W!Half /\ y \in W!Half /\ i \in {x, W!Negated(x)} /\ j \in {y, W!Negated(y)} /\ TRUE \in BOOLEAN
    BY <1>0, SameNumbers
  <2> QED BY <1>2, <2>1, NarrowCall
<1>3. pc # "loop"
  BY DEF NarrowInv
<1>4. ~N!Iterate /\ ~N!Leave
  BY <1>3 DEF N!Iterate, N!Leave
<1> QED BY <1>1, <1>2, <1>4, NarrowEnter, NarrowReturn DEF N!Next

\* It is about the variables of the division only.
LEMMA NarrowKept == ASSUME NarrowInv, UNCHANGED division PROVE NarrowInv'
BY DEF NarrowInv, Operand, division

\* So the misnamed halves do no harm to numbers that fit one.
LEMMA NarrowConcludes == ASSUME W!Int64Assumption, NarrowInv PROVE N!Divides
<1>1. call \in [signed : BOOLEAN, a : 0..W!DoubleWord - 1, b : 0..W!DoubleWord - 1]
  BY DEF NarrowInv
<1>2. ASSUME pc = "done"
      PROVE  /\ call.b # 0
             /\ quot = Operand(call.a) \div Operand(call.b)
             /\ rem = Operand(call.a) % Operand(call.b)
             /\ quot \in 0..W!DoubleWord - 1 /\ rem \in 0..W!DoubleWord - 1
  <2> DEFINE a == Operand(call.a)
             b == Operand(call.b)
  <2>1. call.b # 0 /\ quot = a \div b /\ rem = a % b /\ a \in W!Half /\ b \in W!Half /\ b # 0
    BY <1>2 DEF NarrowInv
  <2> HIDE DEF a, b
  <2>2. a \in 0..W!DoubleWord - 1 /\ b \in 0..W!DoubleWord - 1
    BY <2>1, NarrowMagnitude
  <2>3. b \in 1..W!DoubleWord - 1
    BY <2>1, <2>2, WordSizes
  <2>4. a \div b \in 0..W!DoubleWord - 1 /\ a % b \in 0..W!DoubleWord - 1
    BY <2>2, <2>3, Quotients
  <2> QED BY <2>1, <2>4 DEF a, b
<1>3. W!Divides
  BY <1>1, <1>2, Returned
<1> QED BY <1>3, SameNumbers

-----------------------------------------------------------------------------
(* What runs, and what it keeps *)

\* The inductive invariant: processor and reference hold the same, and whatever
\* is called keeps its own invariant.
AlgorithmsInv ==
  /\ hw \in State /\ ref = hw
  /\ part = "lanes" => LanesInv
  /\ part = "wide" => DivisionInv
  /\ part = "narrow" => NarrowInv
  /\ part = "printf" => PrintfInv
  /\ part = "string" => StringsInv

\* What the modules assume of their constants, in the names used here
LEMMA Assumed ==
  /\ Words \in Nat \ {0} /\ W!Int64Assumption /\ Singles \subseteq 0..2 ^ WordBits - 1
  /\ Texts \subseteq Seq(Int) /\ Widths \subseteq Int /\ Precisions \subseteq Nat \cup {-1}
  /\ Memory \in Nat /\ Bytes \subseteq Nat /\ 0 \in Bytes
BY AlgorithmsAssumption DEF L!LanesAssumption, P!PrintfAssumption, S!StringsAssumption

\* A call of one of them leaves what the others work on alone.
LEMMA OthersKept ==
  /\ LanesInv /\ UNCHANGED lanes => LanesInv'
  /\ PrintfInv /\ UNCHANGED conversion => PrintfInv'
  /\ StringsInv /\ UNCHANGED bytes => StringsInv'
<1>1. LanesInv /\ UNCHANGED lanes => LanesInv'
  BY DEF LanesInv, LanesTyped, L!LanesAgree, lanes
<1>2. PrintfInv /\ UNCHANGED conversion => PrintfInv'
  BY DEF PrintfInv, conversion
<1>3. ASSUME StringsInv, UNCHANGED bytes PROVE StringsInv'
  <2>1. /\ mem' = mem /\ op' = op /\ dst' = dst /\ to' = to /\ from' = from /\ size' = size
        /\ copied' = copied /\ before' = before /\ compared' = compared
    BY <1>3 DEF bytes
  <2>2. StringsTyped'
    BY <1>3, <2>1 DEF StringsInv, StringsTyped
  <2>3. Between'
    BY <1>3, <2>1 DEF StringsInv, Between, S!Downwards, IsString
  <2>4. S!Ordered'
    <3>1. \A a : S!strlen(a)' = S!strlen(a)
      BY <2>1 DEF S!strlen, S!Length
    <3> QED BY <1>3, <2>1, <3>1 DEF StringsInv, S!Ordered
  <2> QED BY <2>2, <2>3, <2>4 DEF StringsInv
<1> QED BY <1>1, <1>2, <1>3

\* Every one of them starts right.
LEMMA AlgorithmsStart == AlgorithmsInit => AlgorithmsInv
<1> SUFFICES ASSUME AlgorithmsInit PROVE AlgorithmsInv
  OBVIOUS
<1>1. hw \in State /\ ref = hw
  <2>1. 0 \in Word
    BY WordsDouble DEF Word
  <2> QED BY <2>1 DEF AlgorithmsInit, Init, State
<1>2. part = "narrow" => NarrowInv
  BY Assumed, NarrowStart DEF AlgorithmsInit
<1>3. part = "wide" => DivisionInv
  BY Assumed, DivisionStart DEF AlgorithmsInit
<1>4. LanesInv /\ PrintfInv /\ StringsInv
  BY Assumed, LanesStart, PrintfStart, StringsStart DEF AlgorithmsInit
<1> QED BY <1>1, <1>2, <1>3, <1>4 DEF AlgorithmsInv

\* And stays right.
LEMMA AlgorithmsStep == AlgorithmsInv /\ [AlgorithmsNext]_all => AlgorithmsInv'
<1> SUFFICES ASSUME AlgorithmsInv, [AlgorithmsNext]_all PROVE AlgorithmsInv'
  OBVIOUS
<1>1. part' = part
  BY DEF AlgorithmsNext, all
<1>2. hw' \in State /\ ref' = hw'
  <2>1. ASSUME NEW i \in Inst, Step(i) PROVE hw' \in State /\ ref' = hw'
    <3>1. hw' = Processor(i, hw) /\ ref' = Reference(i, hw)
      BY <2>1 DEF Step, AlgorithmsInv
    <3> QED BY <2>1, <3>1, StepAgrees DEF Step, AlgorithmsInv
  <2>2. CASE UNCHANGED vars
    BY <2>2 DEF vars, AlgorithmsInv
  <2> QED BY <2>1, <2>2 DEF AlgorithmsNext, Instructions, all
<1>3. (part = "lanes" => LanesInv)'
  BY <1>1, Assumed, OthersKept, LanesStep DEF AlgorithmsInv, AlgorithmsNext, Instructions, Called, all
<1>4. (part = "wide" => DivisionInv)'
  BY <1>1, Assumed, DivisionKept, DivisionStep DEF AlgorithmsInv, AlgorithmsNext, Instructions, Called, all
<1>5. (part = "narrow" => NarrowInv)'
  BY <1>1, Assumed, NarrowKept, NarrowStep DEF AlgorithmsInv, AlgorithmsNext, Instructions, Called, all
<1>6. (part = "printf" => PrintfInv)'
  BY <1>1, OthersKept, PrintfStep DEF AlgorithmsInv, AlgorithmsNext, Instructions, Called, all
<1>7. (part = "string" => StringsInv)'
  BY <1>1, Assumed, OthersKept, StringsStep DEF AlgorithmsInv, AlgorithmsNext, Instructions, Called, all
<1> QED BY <1>2, <1>3, <1>4, <1>5, <1>6, <1>7 DEF AlgorithmsInv

\* The invariant holds in every state, whatever is called.
THEOREM Kept == AlgorithmsSpec => []AlgorithmsInv
BY AlgorithmsStart, AlgorithmsStep, PTL DEF AlgorithmsSpec

\* Processor (ALU.sv, Decode.sv, Branch.sv, the lane control of the data cache)
\* and reference hold the same after any program of the instructions that compute
\* and after any aligned loads and stores, whatever the width of a word is.
THEOREM Agreement == AlgorithmsSpec => []InstructionsAgree
<1>1. AlgorithmsInv => InstructionsAgree
  BY DEF AlgorithmsInv, InstructionsAgree, ResultsAgree, LanesInv
<1> QED BY <1>1, Kept, PTL

\* The division of int64.c, the copies and comparisons of string.c and the texts
\* of stdio.c compute what they stand for, for halves of 2 to 32 bits, whatever
\* the numbers, the size of the memory and the texts are.
THEOREM LibrariesRight == AlgorithmsSpec => []LibraryRight
<1>1. AlgorithmsInv => LibraryRight
  <2> SUFFICES ASSUME AlgorithmsInv PROVE LibraryRight
    OBVIOUS
  <2>1. part = "wide" => W!TypeOK /\ W!Halfway /\ W!Divides
    BY Assumed, DivisionHalfway, DivisionConcludes DEF AlgorithmsInv
  <2>2. part = "narrow" => N!Divides
    BY Assumed, NarrowConcludes DEF AlgorithmsInv
  <2>3. part = "string" => S!Copied /\ S!Joined /\ S!Ordered
    BY Assumed, StringsConclude DEF AlgorithmsInv
  <2>4. part = "printf" => P!TextPadded
    BY Assumed, PrintfConcludes DEF AlgorithmsInv
  <2> QED BY <2>1, <2>2, <2>3, <2>4 DEF LibraryRight, DivisionRight, StringsRight
<1> QED BY <1>1, Kept, PTL
=============================================================================
