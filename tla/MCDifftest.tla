---------------------------- MODULE MCDifftest ----------------------------
(***************************************************************************)
(* All programs of MCLength instructions over the given operations,        *)
(* followed by ebreak.                                                     *)
(***************************************************************************)
EXTENDS Difftest

CONSTANT MCReg, MCOp, MCLength

MCCommands == {-1}  \* `c` only: an `si` right behind a load from a device aborts

MCProgram ==
  {Append(p, [op |-> "ebreak", rd |-> r, rs |-> r]) :
     p \in [1..MCLength -> [op : MCOp, rd : MCReg, rs : MCReg]],
     r \in {CHOOSE x \in MCReg : TRUE}}
=============================================================================
