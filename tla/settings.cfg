CONSTANTS
  Key = {CpuVariant, Theme}
  ResetKey = {CpuVariant}
  CpuVariant = CpuVariant
  Value = {Z8002, Z8001, other}
  Supported = {Z8002, Z8001}
  Default = Z8002
  Torn = Torn
  NoFile = NoFile
SPECIFICATION Spec
INVARIANT HardwareIsApplied
PROPERTY DeferredTogether
PROPERTY LoadRestores
