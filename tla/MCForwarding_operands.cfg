SPECIFICATION Spec
CONSTANTS
  x0 = x0
  Reg = {x0, x1}
  zero = 0
  Value = {0, 1}
  Top = 8
  NewStatus = {0, 9}
  Program <- Programs
INVARIANTS OperandsCurrent RegistersFollow StatusCurrent
