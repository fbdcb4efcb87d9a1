CONSTANTS
  LastAddr = 14
  Code <- GuestCode
  ResetVector <- GuestReset
  Psa <- GuestPsa
  Wild = {7}
  MaxShadowStack = 3
  BpAddr = {2}
  WatchAddr = {0}
  ViLevels = {FALSE, TRUE}
  NviLevels = {FALSE, TRUE}
  MaxStack = 4
  MaxMixed = 3
  MaxPoints = 1
SPECIFICATION Spec
CHECK_DEADLOCK FALSE
INVARIANT SessionInv
INVARIANT ReturnsPair
INVARIANT ShadowIsCalls
PROPERTY NormalIsConfined
PROPERTY WatchHonoured
