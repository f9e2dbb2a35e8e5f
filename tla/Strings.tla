------------------------------ MODULE Strings ------------------------------
(***************************************************************************)
(* The memory and string functions of base-port/tool/src/string.c: loops   *)
(* that copy one byte per turn, and comparisons.  Pointers are indices of  *)
(* a small memory.                                                         *)
(***************************************************************************)
EXTENDS Integers

CONSTANTS Size, Byte

StringsAssumption == Size \in Nat /\ Byte \subseteq Nat /\ 0 \in Byte

VARIABLES
  mem,        \* the memory
  op,         \* the function that runs, "none" between calls
  dst, p, q,  \* its first argument, and where its loop writes and reads
  n, i,       \* bytes its loop copies, and has copied
  before,     \* history: the memory when it was called
  compared    \* history: the last comparison, its operands and its result

vars == <<mem, op, dst, p, q, n, i, before, compared>>

Place == 0..Size - 1
Nothing == [op |-> "none", a |-> 0, b |-> 0, n |-> 0, ret |-> 0]

Init ==
  /\ mem \in [Place -> Byte] /\ before = mem
  /\ op = "none" /\ dst = 0 /\ p = 0 /\ q = 0 /\ n = 0 /\ i = 0
  /\ compared = Nothing

-----------------------------------------------------------------------------
(* Copies *)

Terminated(a) == \E k \in a..Size - 1 : mem[k] = 0
Length(m, a) == CHOOSE l \in 0..Size - 1 - a : m[a + l] = 0 /\ \A k \in 0..l - 1 : m[a + k] # 0
strlen(a) == Length(mem, a)
Apart(a, b, l) == a + l <= b \/ b + l <= a

\* The loop copies l bytes from b to a + skip; C leaves it to the caller that
\* there is room and that only memmove gets regions that overlap.
Call(f, a, skip, b, l) ==
  /\ op = "none" /\ a + skip + l <= Size /\ b + l <= Size
  /\ f # "memmove" => Apart(a, b, skip + l)
  /\ op' = f /\ dst' = a /\ p' = a + skip /\ q' = b /\ n' = l /\ i' = 0
  /\ before' = mem /\ compared' = Nothing
  /\ UNCHANGED mem

memmove(a, b, l) == Call("memmove", a, 0, b, l)
memcpy(a, b, l) == Call("memcpy", a, 0, b, l)
\* Both copy the terminator.
strcpy(a, b) == Terminated(b) /\ Call("strcpy", a, 0, b, strlen(b) + 1)
strcat(a, b) == Terminated(a) /\ Terminated(b) /\ Call("strcat", a, strlen(a), b, strlen(b) + 1)

\* Fault: the two directions are mixed up.
Downwards_Below == op = "memmove" /\ p < q

\* memmove copies from the end unless the target lies below the source.
Downwards == op = "memmove" /\ p >= q

\* Fault: the terminator is left out.
Turn_NoEnd ==
  /\ op # "none" /\ i < n /\ i' = i + 1
  /\ LET k == IF Downwards THEN n - 1 - i ELSE i
     IN  mem' = IF op = "strcat" /\ i = n - 1 THEN mem ELSE [mem EXCEPT ![p + k] = mem[q + k]]
  /\ UNCHANGED <<op, dst, p, q, n, before, compared>>

Turn ==
  /\ op # "none" /\ i < n /\ i' = i + 1
  /\ LET k == IF Downwards THEN n - 1 - i ELSE i
     IN  mem' = [mem EXCEPT ![p + k] = mem[q + k]]
  /\ UNCHANGED <<op, dst, p, q, n, before, compared>>

Return ==
  /\ op # "none" /\ i = n
  /\ op' = "none" /\ dst' = 0 /\ p' = 0 /\ q' = 0 /\ n' = 0 /\ i' = 0
  /\ before' = mem
  /\ UNCHANGED <<mem, compared>>

-----------------------------------------------------------------------------
(* Comparisons *)

Sign(x, y) == IF x > y THEN 1 ELSE IF x < y THEN -1 ELSE 0

\* Where the loop of strcmp, strncmp and memcmp stops: behind l bytes, at a
\* byte that is 0 or at bytes that differ.
Stop(a, b, l) ==
  CHOOSE k \in 0..l :
    /\ k < l => mem[a + k] = 0 \/ mem[b + k] = 0 \/ mem[a + k] # mem[b + k]
    /\ \A j \in 0..k - 1 : mem[a + j] # 0 /\ mem[b + j] # 0 /\ mem[a + j] = mem[b + j]

Compared(f, a, b, l, ret) ==
  /\ op = "none"
  /\ compared' = [op |-> f, a |-> a, b |-> b, n |-> l, ret |-> ret]
  /\ UNCHANGED <<mem, op, dst, p, q, n, i, before>>

\* Fault: a string is not greater than its beginning.
strcmp_NoTail(a, b) ==
  /\ Terminated(a) /\ Terminated(b)
  /\ LET k == Stop(a, b, Size)
     IN  Compared("strcmp", a, b, 0, IF mem[a + k] = 0 \/ mem[b + k] = 0 THEN 0
                                     ELSE Sign(mem[a + k], mem[b + k]))

strcmp(a, b) ==
  /\ Terminated(a) /\ Terminated(b)
  /\ LET k == Stop(a, b, Size)
     IN  Compared("strcmp", a, b, 0, Sign(mem[a + k], mem[b + k]))

\* strncmp and memcmp; of two zeros the second counts as greater.
ncmp(a, b, l) ==
  /\ a + l <= Size /\ b + l <= Size
  /\ LET k == Stop(a, b, l)
     IN  Compared("ncmp", a, b, l, IF k = l THEN 0 ELSE IF mem[a + k] = 0 THEN -1
                                   ELSE IF mem[b + k] = 0 THEN 1 ELSE Sign(mem[a + k], mem[b + k]))

Next ==
  \/ \E a, b \in Place :
       \/ strcpy(a, b) \/ strcat(a, b) \/ strcmp(a, b)
       \/ \E l \in 0..Size : memmove(a, b, l) \/ memcpy(a, b, l) \/ ncmp(a, b, l)
  \/ Turn \/ Return

Spec == Init /\ [][Next]_vars

-----------------------------------------------------------------------------
(* Properties *)

\* Whatever the order of the bytes, in the end the target is what the source
\* was, also where they overlap, and nothing else has changed.
Copied ==
  op # "none" /\ i = n =>
    mem = [k \in Place |-> IF k \in p..p + n - 1 THEN before[q + k - p] ELSE before[k]]

\* functest/src/string.c:22: the copy or the sum of two strings is a string
\* again, with the length of what was joined.
Joined ==
  i = n =>
    /\ op = "strcpy" => Length(mem, dst) = Length(before, q)
    /\ op = "strcat" => Length(mem, dst) = Length(before, dst) + Length(before, q)

\* functest/src/string.c:17-24: the sign of a comparison is that of the first
\* bytes that differ, the terminator being smaller than all.  Counted
\* comparisons of equal bytes are 0 if no zero is among them.
Ordered ==
  LET c == compared
      differ(k) == mem[c.a + k] # mem[c.b + k] /\ \A j \in 0..k - 1 : mem[c.a + j] = mem[c.b + j]
  IN  /\ c.op = "strcmp" =>
           IF \E k \in 0..strlen(c.a) : differ(k)
           THEN \E k \in 0..strlen(c.a) : differ(k) /\ c.ret = Sign(mem[c.a + k], mem[c.b + k])
           ELSE c.ret = 0
      /\ c.op = "ncmp" /\ (\A k \in 0..c.n - 1 : mem[c.a + k] # 0 /\ mem[c.b + k] # 0) =>
           IF \E k \in 0..c.n - 1 : differ(k)
           THEN \E k \in 0..c.n - 1 : differ(k) /\ c.ret = Sign(mem[c.a + k], mem[c.b + k])
           ELSE c.ret = 0
=============================================================================
