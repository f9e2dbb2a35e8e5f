CONSTANTS
  Width = 4
  ShiftBits = 2
  Opcodes = {"lui", "auipc", "jal", "jalr", "branch", "imm", "op", "system"}
  Imms = {0, 1, 5, 7, 8, 15}
  Words = 2
  WordBits = 4
  Doubles <- SomeDoubles
  Singles = {0, 1, 2, 3, 4, 5, 6, 7, 8, 9, 10, 11, 12, 13, 14, 15}
  Longs = 256
  Numbers = {0, 9, 100, 127, 128, 255}
  Texts <- SomeTexts
  Widths <- SomeWidths
  Precisions <- SomePrecisions
  Memory = 5
  Bytes = {0, 1, 2}
SPECIFICATION AlgorithmsSpec
INVARIANTS InstructionsAgree LibraryRight PrintsValue
CHECK_DEADLOCK FALSE
