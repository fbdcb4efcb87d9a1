CONSTANTS
  Base = 2
  Data = {"system", "a"}
  System = "system"
  Zero = "zero"
  Files <- HostFiles
  LastAddr = 34
  Code <- Bios
  Requests <- OneSector
  Fills = {"a"}
  CurSec = 31
  Slots = 4
  BpAddr = {}
  Watchpoints = {}
  StepLimit = 1
  MaxPoints = 0
  Mounts <- HostMounts
  Edits = {}
SPECIFICATION FairSpec
CHECK_DEADLOCK FALSE
INVARIANT ErrorIsTrue
