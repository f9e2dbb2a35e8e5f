CONSTANTS
  Keys = 2
  Length <- MCLength
  QueueLen = 3
  BufLen = 12
  MaxSent = 4
  Color = {0, 1}
  Screens <- MCScreens
  CanvasSizes <- MCCanvasSizes
  Images <- MCImages
  w = 2
  h = 2
  MaxInput = 3
  Char = {"a", "b"}
  Sessions <- MCSessions
SPECIFICATION DesktopSpec
INVARIANTS InOrder WindowCurrent LineShown StaleIsDirty
PROPERTIES IsFifo FirstReported WaiterServed IsPicture
CHECK_DEADLOCK FALSE
