SPECIFICATION FairSpec
CONSTANTS
  Objects <- MCObjects
  KindOf <- MCKindOf
  KeeperOf <- MCKeeperOf
  Calls <- MCCalls
  MaxCalls = 3
  Threads = 2
  MaxAsks = 1
  None = None
INVARIANT LoopNeverWaits
PROPERTIES CallsReturn
CHECK_DEADLOCK FALSE
