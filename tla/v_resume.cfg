CONSTANTS
  Base = 2
  Data = {"system", "a"}
  System = "system"
  Zero = "zero"
  Files <- HostFiles
  LastAddr = 34
  Code <- Bios
  Requests <- OneSector
  Fills = {"a"}
  CurSec = 31
  Slots = 4
  BpAddr = {13}
  Watchpoints = {}
  StepLimit = 1
  MaxPoints = 1
  Mounts <- HostMounts
  Edits = {}
SPECIFICATION FairSpec
CHECK_DEADLOCK FALSE
PROPERTY ResumeLeavesBreakpoint
