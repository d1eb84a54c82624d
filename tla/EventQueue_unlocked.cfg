\* A wake-up event posted without a wakelock.
SPECIFICATION Spec
CONSTANTS
  Clients = {c1}
  Batches <- MCOneWakeup
  QueueCapacity = 2
  kMaxSizePendingWriteEventsQueue = 4
  MaxEvents = 2
  MaxRestarts = 1
CHECK_DEADLOCK FALSE
INVARIANTS
  WakeupPostsLocked
