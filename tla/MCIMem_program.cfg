CONSTANTS
  t1 = t1
  t2 = t2
  t3 = t3
  nop = nop
  add = add
  br = br
  ld = ld
  fence = fence
  csrw = csrw
  mret = mret
  ecall = ecall
  Tags = {t1, t2, t3}
  DeviceTags = {}
  SetNum = 2
  WordNum = 2
  LaneNum = 1
  Byte = {nop, add, br, ld, fence, csrw, mret, ecall}
  Nop <- NopWord
  NoTag = NoTag
  Branch <- BranchWords
  Load <- LoadWords
  Store <- NoWords
  Fence <- FenceWords
  CsrWrite <- CsrWords
  Mret <- MretWords
  Ecall <- EcallWords
  NextTag <- NextOf
  ResetPc <- Start
  TrapVector <- Vector
  Targets <- JumpTargets
  Image <- JumpImage
  Patches <- JumpPatches
SPECIFICATION Spec
INVARIANTS TypeOK ProgramOrder FetchedWord TrapPrecise
PROPERTIES FetchHeld KeepsCommitting
