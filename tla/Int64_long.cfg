\* The byte order of the processor, and numbers that need both halves.
SPECIFICATION Spec
CONSTANTS
  WordBits = 4
  BigEndian = FALSE
  Operands = {1, 7, 16, 33, 100, 255}
INVARIANT Divides
CHECK_DEADLOCK FALSE
