----------------------------- MODULE FileStore -----------------------------
(***************************************************************************)
(* What a file table promises about ordinary files, without saying where   *)
(* they lie: each has contents of a fixed size and one position, whoever   *)
(* opened it.  Reads deliver the contents from the position on.  Writes    *)
(* are accepted and lost, as the disk image is open for reading only, so   *)
(* the contents never change; both move the position by what they transfer.*)
(***************************************************************************)
EXTENDS Integers

CONSTANTS
  Ordinary, \* the ordinary files
  Size      \* how many bytes each holds

VARIABLES
  contents, \* what each file holds
  position, \* where its next transfer begins
  open,     \* is it open?
  data      \* what the last read delivered

vars == <<contents, position, open, data>>

Init ==
  /\ position = [f \in Ordinary |-> 0]
  /\ open = [f \in Ordinary |-> FALSE]
  /\ data = <<>>

Move(f, p) == position' = [position EXCEPT ![f] = p]

Open(f) ==
  /\ open' = [open EXCEPT ![f] = TRUE]
  /\ Move(f, 0)
  /\ UNCHANGED <<contents, data>>

Close(f) ==
  /\ open[f]
  /\ open' = [open EXCEPT ![f] = FALSE]
  /\ Move(f, 0)
  /\ UNCHANGED <<contents, data>>

Seek(f) ==
  /\ open[f]
  /\ \E p \in 0..Size[f] : Move(f, p)
  /\ UNCHANGED <<contents, open, data>>

\* n bytes, from the position on, never past the end.
Read(f) ==
  /\ open[f]
  /\ \E n \in 0..Size[f] - position[f] :
       /\ data' = [i \in 0..n - 1 |-> contents[f][position[f] + i]]
       /\ Move(f, position[f] + n)
  /\ UNCHANGED <<contents, open>>

\* The position moves as if n bytes had been replaced.
Write(f) ==
  /\ open[f]
  /\ \E n \in 0..Size[f] - position[f] : Move(f, position[f] + n)
  /\ UNCHANGED <<contents, open, data>>

Next ==
  \E f \in Ordinary : Open(f) \/ Close(f) \/ Seek(f) \/ Read(f) \/ Write(f)

Spec == Init /\ [][Next]_vars
=============================================================================
