SPECIFICATION LogSpec
CONSTANTS
  BootInfos <- GoodScreens
  MaxBelow = 0
PROPERTY ScrollsUp
