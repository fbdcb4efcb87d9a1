CONSTANTS
  BYTE = 8
  MAX_CYCLES = 3
  High = 2
  MaxElapsed = 60
SPECIFICATION Spec
CHECK_DEADLOCK FALSE
INVARIANT OnePrintPerTick
