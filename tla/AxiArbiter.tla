----------------------------- MODULE AxiArbiter -----------------------------
(***************************************************************************)
(* simulator/IP/mycpu/axi_arbiter.sv: the two state machines that share    *)
(* the one AXI master port between the instruction cache (reads) and the   *)
(* data cache (reads and writes).  Its slave is Pmem, whose signals it     *)
(* reads directly; the requests of the caches are parameters.              *)
(***************************************************************************)
EXTENDS Pmem

VARIABLES r_crt, w_crt

arbiterVars == <<r_crt, w_crt>>

ArbiterInit == r_crt = "R_IDLE" /\ w_crt = "W_IDLE"

-----------------------------------------------------------------------------
(* Outputs: all of them depend on the state registers and the slave only. *)

arvalid == r_crt \in {"I_AR", "D_AR"}
rready  == r_crt \in {"I_R", "D_R"}

i_rready == r_crt = "I_R" /\ rvalid
\* Fault: the last beat is looked for in the address phase.
i_rlast_Phase == r_crt = "I_AR" /\ rlast
i_rlast  == r_crt = "I_R" /\ rlast
d_rready == r_crt = "D_R" /\ rvalid
d_rlast  == r_crt = "D_R" /\ rlast

awvalid  == w_crt = "D_AW"
wvalid   == w_crt = "D_W"
wlast(d_wlast)   == w_crt = "D_W" /\ d_wlast
bready(d_bready) == w_crt = "D_B" /\ d_bready
d_wready == w_crt = "D_W" /\ wready
d_bvalid == w_crt = "D_B" /\ bvalid

-----------------------------------------------------------------------------
(* Read state machine: the data cache has priority when the port is free. *)

GrantNone(i_rvalid, d_rvalid) ==
  r_crt = "R_IDLE" /\ ~i_rvalid /\ ~d_rvalid /\ r_crt' = "R_IDLE"
GrantI(i_rvalid, d_rvalid) ==
  r_crt = "R_IDLE" /\ i_rvalid /\ ~d_rvalid /\ r_crt' = "I_AR"
GrantD(d_rvalid) ==
  r_crt = "R_IDLE" /\ d_rvalid /\ r_crt' = "D_AR"

ReadAddress ==
  \/ r_crt = "I_AR" /\ r_crt' = IF arready THEN "I_R" ELSE "I_AR"
  \/ r_crt = "D_AR" /\ r_crt' = IF arready THEN "D_R" ELSE "D_AR"

ReadData ==
  /\ r_crt \in {"I_R", "D_R"}
  /\ r_crt' = IF rvalid /\ rlast THEN "R_IDLE" ELSE r_crt

ReadFsm(i_rvalid, d_rvalid) ==
  \/ GrantNone(i_rvalid, d_rvalid)
  \/ GrantI(i_rvalid, d_rvalid)
  \/ GrantD(d_rvalid)
  \/ ReadAddress
  \/ ReadData

-----------------------------------------------------------------------------
(* Write state machine: only the data cache writes. *)

\* Fault: any accepted word ends the data phase.
WriteFsm_AnyWord(d_wvalid, d_wlast) ==
  \/ w_crt = "W_IDLE" /\ w_crt' = IF d_wvalid THEN "D_AW" ELSE "W_IDLE"
  \/ w_crt = "D_AW"   /\ w_crt' = IF awready THEN "D_W" ELSE "D_AW"
  \/ w_crt = "D_W"    /\ w_crt' = IF wready THEN "D_B" ELSE "D_W"
  \/ w_crt = "D_B"    /\ w_crt' = IF bvalid THEN "W_IDLE" ELSE "D_B"

WriteFsm(d_wvalid, d_wlast) ==
  \/ w_crt = "W_IDLE" /\ w_crt' = IF d_wvalid THEN "D_AW" ELSE "W_IDLE"
  \/ w_crt = "D_AW"   /\ w_crt' = IF awready THEN "D_W" ELSE "D_AW"
  \/ w_crt = "D_W"    /\ w_crt' = IF wready /\ d_wlast THEN "D_B" ELSE "D_W"
  \/ w_crt = "D_B"    /\ w_crt' = IF bvalid THEN "W_IDLE" ELSE "D_B"

ArbiterTypeOK ==
  /\ r_crt \in {"R_IDLE", "I_AR", "I_R", "D_AR", "D_R"}
  /\ w_crt \in {"W_IDLE", "D_AW", "D_W", "D_B"}
=============================================================================
