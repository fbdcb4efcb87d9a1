CONSTANTS
  LastAddr = 2
  Code <- LoopCode
  ResetPC = 0
  IrqPC = 0
  StackSlots = 3
  MaxShadowStack = 3
  Stoppers = {t1}
  HostWaits = "event"
  DeviceLevels = {FALSE}
  BpAddr = {}
  EntryPC = {}
SPECIFICATION FairSpec
CHECK_DEADLOCK FALSE
PROPERTY StopperReturns
