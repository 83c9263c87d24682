SPECIFICATION Spec
CONSTANTS
  Packets <- StreamPackets
  Tops <- StreamTops
  Buf = 14
  Stalls = 1
  Sessions = 2
INVARIANTS TypeOK WholeMessages WithinBuffer
PROPERTY NoHalfMessage
CHECK_DEADLOCK FALSE
