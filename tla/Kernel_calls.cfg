CONSTANTS
  Kind <- TableKind
  FileSize <- TableSize
  DiskOffset <- TableOffset
  FILE_NUM = 5
  DiskSize = 4
  SizeMod = 32
  Lens = {1, 3, 4, 8}
  Byte = {0, 1}
  ScreenW = 2
  MsgLens = {0, 8}
  Site = {100, 200}
  KernelSite = 300
  Value = {0, 1}
  Ret = {0, 1}
  File = {"menu", "bird", "typo"}
  Exists = {"menu", "bird"}
  Top = 512
  MaxFrames = 3
SPECIFICATION KernelSpec
INVARIANT OffsetInFile
PROPERTIES  ReturnsBehind
CHECK_DEADLOCK FALSE
