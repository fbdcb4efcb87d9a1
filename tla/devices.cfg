CONSTANTS
  Char = {a, cr, nul}
  Zero = nul
  CR = cr
  FIFO_SIZE = 3
  PausesAt = {"enable", "load", "echo"}
  MaxTyped = 4
  BYTE = 8
  MAX_CYCLES = 3
  Stored = {0, 1, 3, 7}
  MaxRan = 20
SPECIFICATION DevicesSpec
INVARIANT ReadyIsKept
INVARIANT EchoFaithful
INVARIANT HandlerHasInput
INVARIANT PeriodExact
PROPERTY Fifo
PROPERTY InputIsConsumed
