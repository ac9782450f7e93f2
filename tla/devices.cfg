SPECIFICATION DevicesSpec
CONSTANTS
  BootInfos <- MCBootInfos
  MaxBelow = 2
  VGA_WIDTH = 80
  VGA_HEIGHT = 25
  IntMax = 511
  Chars <- MCChars
  MaxText = 3
  MaxSent = 3
  Half = 4
  MaxMs = 3
  EarlyTicks = 5
  MaxTicks = 9
  Devs = 32
  Machines <- MCMachines
  StackLimit = 3
  Byte = 8
  SCREEN_WIDTH = 5
  SCREEN_HEIGHT = 4
  Moves <- MCMoves
  Addresses <- MCAddresses
INVARIANTS DevicesTypeOK LinesStayInOrder CursorPastText NumeralsAreRight
  SerialInOrder SleepsLongEnough OnlyMisreadsAreMissed FollowsTheMouse SegmentsDecode
PROPERTIES SleepEnds ScanEnds
\* a scan, a sleep and a conversion end
CHECK_DEADLOCK FALSE
