CONSTANTS
  LastAddr = 9
  Code <- InterruptCode
  ResetPC = 0
  IrqPC = 7
  StackSlots = 5
  MaxShadowStack = 4
  Stoppers = {}
  HostWaits = "stop"
  DeviceLevels = {FALSE, TRUE}
  BpAddr = {5, 9}
  EntryPC = {}
SPECIFICATION FairSpec
CHECK_DEADLOCK FALSE
INVARIANT ShadowFaithful
INVARIANT StepOutLands
INVARIANT UserBreakpointsArmed
INVARIANT BreakpointHonoured
INVARIANT LastCallbackIsState
INVARIANT StepOverReturns
PROPERTY StopReturns
