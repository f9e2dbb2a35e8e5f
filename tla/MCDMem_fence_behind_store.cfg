SPECIFICATION MCSpec
CONSTANTS
  t1 = t1
  t2 = t2
  t3 = t3
  dev = dev
  Tags = {t1, t2, t3}
  DeviceTags = {dev}
  SetNum = 2
  WordNum = 2
  LaneNum = 1
  Byte = {0, 1}
  Requests <- AllRequests
  FenceAfterAccess = TRUE
  Programs <- DataPrograms
  FetchLines <- AllLines
INVARIANT LoadValue
