---------------------------- MODULE MCForwarding ----------------------------
(* Instances of Forwarding for TLC. *)
EXTENDS Forwarding

Op(k, rd, rs1, rs2) == [kind |-> k, rd |-> rd, rs1 |-> rs1, rs2 |-> rs2]

\* The instructions on registers; one that needs an operand less has x0 there.
Arithmetic ==
  [kind : {"alu"}, rd : Reg, rs1 : Reg, rs2 : Reg]
    \cup [kind : {"load"}, rd : Reg, rs1 : Reg, rs2 : {x0}]
    \cup [kind : {"store"}, rd : {x0}, rs1 : Reg, rs2 : Reg]
    \cup {Op("jump", r, x0, x0) : r \in Reg} \cup {Op("branch", x0, x0, x0)}

\* The privileged instructions, with accesses that miss around them.
Privileged ==
  {Op("csr", r, r, x0) : r \in Reg}
    \cup {Op(k, x0, x0, x0) : k \in {"ecall", "mret", "fence", "branch", "store"}}
    \cup {Op("load", r, x0, x0) : r \in Reg}

Programs == Arithmetic \cup Privileged
=============================================================================
