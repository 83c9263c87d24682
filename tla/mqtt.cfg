SPECIFICATION Spec
CONSTANTS
  pub0 = pub0
  pub1 = pub1
  pub2 = pub2
  sub = sub
  Msgs <- SafeMsgs
  Type <- SafeType
  QoS <- SafeQoS
  Draw <- SafeDraw
  Window = 2
  MaxSends = 1
  MaxFaults = 2
INVARIANTS TypeOK KeptOnce AcknowledgedIsDelivered RepeatsAreFlagged TakenOncePerSession PingOfThisSession
PROPERTY KeepsPromise
CHECK_DEADLOCK FALSE
