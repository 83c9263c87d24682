SPECIFICATION FairSpec
CONSTANTS
  t1 = t1
  t2 = t2
  MaxRetries = 1
  Tasks <- MCTasks
  HostMsgs = {"request", "json", "command", "badCommand"}
  MaxSends = 2
  MaxInbox = 2
  MaxFaults = 2
INVARIANTS TypeOK OneUpdate HandleIsConnected GiveUpIsFinal
PROPERTIES StatusOrder InstalledIsBooted ImplementsService UpdateEnds NoFeedback SessionRecovers
CHECK_DEADLOCK FALSE
