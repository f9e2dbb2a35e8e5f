\* Two lines of two words, and a smaller disk.
CONSTANTS
  MemWords = 4
  LineWords = 2
  DiskWords = 2
  MaxLen = 3
  Value = {0, 1}
\* Words of three bits.
CONSTANTS
  ClockWord = 8
  Second = 4
  Milli = 2
  MaxTime = 20
\* Physical memory in the middle of five words of two bytes, devices of one and
\* two words on all places, pages of two words.
CONSTANTS
  MBASE = 2
  MSIZE = 4
  PAGE_SIZE = 4
  IO_SPACE_MAX = 16
  NR_MAP = 3
  Places = {0, 2, 4, 6, 8}
  Lens = {2, 4}
  WORD = 2
  Byte = {0, 1}
  Garbage = garbage
SPECIFICATION DevicesSpec
INVARIANTS Coherent ReferenceFollows DevicesApart
PROPERTIES SendsCurrent TimesRight
CHECK_DEADLOCK FALSE
