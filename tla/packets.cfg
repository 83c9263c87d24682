SPECIFICATION Spec
CONSTANTS
  Base = 8
  BufferLength = 36
  InBufferLength = 20
  Infos <- MCInfos
  Messages <- MCMessages
  Filters = {1, 5}
  Share = 3
  Incoming <- MCIncoming
  AliasMaxima = {1, 2}
  MaxItems = 1
  Uses <- MCUses
  Unkept <- MCUnkept
INVARIANTS TypeOK WholePublishes ControlFramed ConnectUnderstood ReceivedAsMeant
