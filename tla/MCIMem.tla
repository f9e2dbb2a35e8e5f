------------------------------- MODULE MCIMem -------------------------------
(***************************************************************************)
(* Small instances of IMem: programs of a few lines.                       *)
(***************************************************************************)
EXTENDS IMem

CONSTANTS t1, t2, t3, nop, add, br, ld, fence, csrw, mret, ecall

W(b)        == [l \in Lanes |-> b]
At(t, s, w) == [tag |-> t, set |-> s, word |-> w]
L(a, b)     == [i \in Words |-> IF i = 0 THEN W(a) ELSE W(b)]

NopWord     == W(nop)
BranchWords == {W(br)}
LoadWords   == {W(ld)}
FenceWords  == {W(fence)}
CsrWords    == {W(csrw)}
MretWords   == {W(mret)}
EcallWords  == {W(ecall)}
NoWords     == {}

Start       == At(t1, 0, 0)
Vector      == At(t2, 0, 0)
NextOf      == [t \in Tags |-> IF t = t1 THEN t2 ELSE IF t = t2 THEN t3 ELSE t1]

\* Three lines compete for the two ways of each of two sets: branches, loads, a
\* fence, a written mepc, an ecall, and a handler that may or may not return.
JumpTargets == {At(t1, 0, 1), At(t3, 0, 0), At(t3, 1, 0)}
JumpImage   ==
  [t \in Tags |-> [s \in Sets |->
     CASE t = t1 /\ s = 0 -> L(csrw, br)
       [] t = t1 /\ s = 1 -> L(ld, br)
       [] t = t2 /\ s = 0 -> L(add, br)
       [] t = t2 /\ s = 1 -> L(fence, mret)
       [] t = t3 /\ s = 0 -> L(ld, ecall)
       [] t = t3 /\ s = 1 -> L(ld, ld)]]

\* A word of the program that a fence replaces.
JumpPatches == {[addr |-> At(t1, 1, 0), inst |-> W(add)]}

\* A loop that loads a new first instruction into a routine it has already
\* called (os/src/loader.c), issues a fence.i, and calls it again.  The call
\* comes from the line before the routine's set.
ReloadTargets == {At(t1, 0, 0), At(t3, 1, 0)}
ReloadImage   ==
  [t \in Tags |-> [s \in Sets |-> IF t = t1 /\ s = 0 THEN L(fence, br) ELSE L(add, br)]]
ReloadPatches == {[addr |-> At(t3, 1, 0), inst |-> W(nop)]}
=============================================================================
