\* One sensor and one restart.  No deadlock check: the bounds end the posts.
SPECIFICATION ProxyFairSpec
CONSTANTS
  Clients = {c1}
  Batches <- MCShortBatches
  QueueCapacity = 2
  kMaxSizePendingWriteEventsQueue = 2
  MaxEvents = 4
  MaxRestarts = 1
CHECK_DEADLOCK FALSE
INVARIANTS
  ProxyTypeOK
  AwakeForEvents
  AsleepInTheEnd
PROPERTIES
  PendingDrains
  InitializeCompletes
