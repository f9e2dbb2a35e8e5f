------------------------------- MODULE MCDMem -------------------------------
(***************************************************************************)
(* Small instances of DMem.  A program is a set of requests: EX issues any *)
(* sequence of them, with bubbles anywhere between them, while the         *)
(* instruction cache reads the program's fetch lines.                      *)
(***************************************************************************)
EXTENDS DMem

CONSTANTS
  t1, t2, t3, dev,
  Programs   \* one of them runs

VARIABLE program

At(t, s, w)   == [tag |-> t, set |-> s, word |-> w]
Value(b)      == [l \in Lanes |-> b]
LoadOf(a, z)  == [op |-> "load", addr |-> a, data |-> ZeroWord, strb |-> {}, size |-> z]
Load(a)       == LoadOf(a, 2)
Put(a, v, m)  == [op |-> "store", addr |-> a, data |-> v, strb |-> m, size |-> 2]
Store(a, b)   == Put(a, Value(b), Lanes)
FenceAt(o, a) == [op |-> o, addr |-> a, data |-> ZeroWord, strb |-> {}, size |-> 0]

Program(requests, lines) == [requests |-> requests, lines |-> lines]

\* Three lines compete for the two ways of one set.
Evicting ==
  Program({Load(At(t, 0, 0)) : t \in Tags} \cup {Store(At(t, 0, 0), 1) : t \in Tags}
            \cup {Load(At(t2, 0, 1)), Store(At(t1, 0, 0), 0)}, {})

\* Two sets, with a way shared by two lines in the first.
Fencing ==
  Program({Store(At(t1, 0, 0), 1), Store(At(t1, 1, 1), 1), Store(At(t2, 0, 0), 1),
           Load(At(t2, 0, 0)), FenceAt("fence", At(t1, 0, 0)), FenceAt("fencei", At(t1, 1, 0))},
          {})

\* A device register, sub-word stores, and fences right behind device stores.
Register == At(dev, 0, 0)
Driving ==
  Program({LoadOf(Register, 0), Put(Register, Value(1), {0}), Put(Register, Value(1), {0, 1}),
           Put(At(t1, 0, 0), Value(1), {1}), Load(At(t2, 0, 0)), FenceAt("fence", At(t1, 0, 0))},
          {})

\* Instruction fetches compete with the data cache for the bus.
Fetching ==
  Program({Load(At(t1, 0, 0)), Load(At(t2, 0, 0)), Store(At(t3, 0, 0), 1), LoadOf(Register, 2)},
          {At(t1, 0, 0)})

DataPrograms == {Evicting, Fencing}
BusPrograms  == {Driving, Fetching}

AllRequests == UNION {p.requests : p \in Programs}
AllLines    == UNION {p.lines : p \in Programs}

MCInit == Init /\ program \in Programs

MCNext ==
  /\ Next /\ UNCHANGED program
  /\ ex' \in program.requests \cup {Bubble}
  /\ program.lines = {} => i_rvalid' = FALSE /\ i_raddr' = i_raddr

MCSpec == MCInit /\ [][MCNext]_<<vars, program>> /\ WF_<<vars, program>>(MCNext)
=============================================================================
