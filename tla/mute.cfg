SPECIFICATION FairSpec
CONSTANTS
  t1 = t1
  t2 = t2
  MaxRetries = 1
  Tasks = {t1}
  HostMsgs = {"request"}
  MaxSends = 1
  MaxInbox = 1
  MaxFaults = 1
PROPERTIES RepliesWhileConnected
CHECK_DEADLOCK FALSE
