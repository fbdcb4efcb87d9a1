CONSTANTS
  Base = 2
  Data = {"system", "a"}
  System = "system"
  Zero = "zero"
  Files <- HostFiles
  LastAddr = 34
  Code <- Bios
  Requests <- BiosRequests
  Fills = {"a"}
  CurSec = 31
  Slots = 4
  BpAddr = {13}
  Watchpoints <- UserWatchpoints
  StepLimit = 7
  MaxPoints = 1
  Mounts <- HostMounts
  Edits <- UserEdits
SPECIFICATION FairSpec
CHECK_DEADLOCK FALSE
INVARIANT SessionInv
INVARIANT TransferIsTheOneAsked
PROPERTY ImageIsGuarded
PROPERTY BreakpointHonoured
PROPERTY StepsLand
PROPERTY WatchHonoured
PROPERTY CallsReturn
