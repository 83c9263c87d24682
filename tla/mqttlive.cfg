SPECIFICATION FairSpec
CONSTANTS
  pub0 = pub0
  pub1 = pub1
  pub2 = pub2
  sub = sub
  Msgs <- LiveMsgs
  Type <- LiveType
  QoS <- LiveQoS
  Draw <- LiveDraw
  Window = 2
  MaxSends = 1
  MaxFaults = 1
PROPERTIES OutboxDrains DeadIsNoticed
CHECK_DEADLOCK FALSE
