CONSTANTS
  LastAddr = 3
  Code <- ShortCode
  ResetPC = 1
  IrqPC = 0
  StackSlots = 3
  MaxShadowStack = 3
  Stoppers = {t1}
  HostWaits = "state"
  DeviceLevels = {FALSE}
  BpAddr = {2}
  EntryPC = {1}
SPECIFICATION Spec
CHECK_DEADLOCK FALSE
INVARIANT RunningHasWorker
INVARIANT NeverTerminates
INVARIANT StepOutTargetOwned
INVARIANT NoStrayBreakpoint
INVARIANT WorkerNeverOutlivesInstance
INVARIANT SessionInv
PROPERTY OneDriver
PROPERTY StopMeansStopped
PROPERTY Lifecycle
