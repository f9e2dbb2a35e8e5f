------------------------------ MODULE InstLog ------------------------------
(***************************************************************************)
(* The instruction trace of the simulator (sim.cpp, CircularQueue): a ring *)
(* of the last committed instructions, printed when a program ends and by  *)
(* the `si` command.  One slot stays free, so that front = rear says empty.*)
(***************************************************************************)
EXTENDS Integers, Sequences

CONSTANTS
  Capacity, \* slots of the ring
  Entry,    \* what is logged: pc and instruction
  Junk      \* what the slots may hold before they are written

LogAssumption == Capacity \in Nat /\ Capacity > 1 /\ Junk \subseteq Entry

VARIABLES
  queue, front, rear,
  committed \* history: what was enqueued, the last Capacity of it

vars == <<queue, front, rear, committed>>
Slot == 0..Capacity - 1

Init == queue \in [Slot -> Junk] /\ front = 0 /\ rear = 0 /\ committed = <<>>

\* Fault: the oldest entry is not pushed out.
FrontAfter_Stays(r, f) == f

\* Fault: front runs off the end of the ring.
FrontAfter_NoWrap(r, f) == IF r = f THEN f + 1 ELSE f

\* A full ring gives up its oldest entry.
FrontAfter(r, f) == IF r = f THEN (f + 1) % Capacity ELSE f

\* How many entries the ring holds.
Count(f, r) == IF r >= f THEN r - f ELSE Capacity - f + r

\* Fault: the slot of rear itself counts.
Start_Late(f, r, n) == IF Count(f, r) > n THEN (r - n + 1 + Capacity) % Capacity ELSE f

\* The oldest of the last n entries.
Start(f, r, n) == IF Count(f, r) > n THEN (r - n + Capacity) % Capacity ELSE f

\* What display(n) prints, and display() for n = Capacity.
Shown(q, f, r, n) ==
  [i \in 1..(IF n > Count(f, r) THEN Count(f, r) ELSE n) |-> q[(Start(f, r, n) + i - 1) % Capacity]]

LastOf(s, n) == SubSeq(s, (IF Len(s) > n THEN Len(s) - n ELSE 0) + 1, Len(s))

enqueue(e) ==
  /\ queue' = [queue EXCEPT ![rear] = e]
  /\ rear' = (rear + 1) % Capacity
  /\ front' = FrontAfter(rear', front)
  /\ committed' = LastOf(Append(committed, e), Capacity)

Next == \E e \in Entry : enqueue(e)
Spec == Init /\ [][Next]_vars

-----------------------------------------------------------------------------
TypeOK ==
  /\ queue \in [Slot -> Entry] /\ front \in Slot /\ rear \in Slot
  /\ committed \in Seq(Entry) /\ Len(committed) <= Capacity

\* display(n) prints the last n commits, as far as the ring still holds them
\* (one less than its slots), oldest first (sim.cpp:83-106).
ShowsLatest ==
  \A n \in 0..Capacity + 1 :
    Shown(queue, front, rear, n) = LastOf(committed, IF n < Capacity THEN n ELSE Capacity - 1)
=============================================================================
