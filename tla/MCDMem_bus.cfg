SPECIFICATION MCSpec
CONSTANTS
  t1 = t1
  t2 = t2
  t3 = t3
  dev = dev
  Tags = {t1, t2, t3}
  DeviceTags = {dev}
  SetNum = 1
  WordNum = 2
  LaneNum = 2
  Byte = {0, 1}
  Requests <- AllRequests
  FenceAfterAccess = FALSE
  Programs <- BusPrograms
  FetchLines <- AllLines
INVARIANTS BusLockstep DeviceOnce
PROPERTIES AddressHeld EveryRequestEnds
