CONSTANTS
  LastAddr = 14
  Code <- GuestCode
  ResetVector <- GuestReset
  Psa <- GuestPsa
  Wild = {7}
  MaxShadowStack = 3
  BpAddr = {}
  WatchAddr = {}
  ViLevels = {FALSE, TRUE}
  NviLevels = {FALSE, TRUE}
  MaxStack = 3
  MaxMixed = 3
  MaxPoints = 0
SPECIFICATION FairSpec
CHECK_DEADLOCK FALSE
PROPERTY ModeSaved
