\* Every program of two instructions and ebreak, with at most one wrong result.
SPECIFICATION Spec
CONSTANTS
  Reg = {0, 1}
  MCReg = {0, 1}
  MCOp = {"inc", "lw", "bnez"}
  MCLength = 2
  Modulus = 2
  Program <- MCProgram
  Capacity = 3
  Steps <- MCCommands
  Faulty = TRUE
INVARIANTS NoFalseAlarm Reported TraceEndsAtHalt
