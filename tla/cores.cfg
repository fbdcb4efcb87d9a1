CONSTANTS
  Edge = {0, 1, 8, 9, 15, 16, 112, 126, 127, 128, 129, 143, 144, 153, 154, 240, 254, 255}
  WideEdge = {0, 1, 255, 256, 4095, 4096, 28672, 32767, 32768, 33023, 61440, 65535}
  Packed = {0, 1, 5, 9, 16, 25, 64, 73, 80, 89, 144, 148, 153}
SPECIFICATION Spec
INVARIANT ResultsAreExact
INVARIANT ListedIsExecuted
