SPECIFICATION Spec
CONSTANTS
  pub0 = pub0
  pub1 = pub1
  pub2 = pub2
  sub = sub
  Msgs <- TwinMsgs
  Type <- TwinType
  QoS <- TwinQoS
  Draw <- TwinDraw
  Window = 2
  MaxSends = 0
  MaxFaults = 0
INVARIANT AcknowledgedIsDelivered
CHECK_DEADLOCK FALSE
