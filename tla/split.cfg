SPECIFICATION Spec
CONSTANTS
  Packets <- SplitPackets
  Tops <- SplitTops
  Buf = 14
  Stalls = 0
  Sessions = 1
INVARIANT WholeMessages
CHECK_DEADLOCK FALSE
