------------------------------ MODULE KeyFifo ------------------------------
(***************************************************************************)
(* What the keyboard device promises: the codes it accepts come out one by *)
(* one, in their order, until it has more than it can hold.                *)
(***************************************************************************)
EXTENDS Sequences, Naturals

CONSTANTS Code, Most
VARIABLES pending, dead

vars == <<pending, dead>>

Init == pending = <<>> /\ dead = FALSE

Accept(c) == Len(pending) < Most /\ pending' = Append(pending, c) /\ UNCHANGED dead
Take == pending # <<>> /\ pending' = Tail(pending) /\ UNCHANGED dead
Overflow == Len(pending) = Most /\ dead' = TRUE /\ pending' = <<>>

Next == ~dead /\ (Take \/ Overflow \/ \E c \in Code : Accept(c))
Spec == Init /\ [][Next]_vars
=============================================================================
