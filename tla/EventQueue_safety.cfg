\* Two sensors.  No deadlock check: the system is done when the bounds are.
SPECIFICATION Spec
CONSTANTS
  Clients = {c1, c2}
  Batches <- MCBatches
  QueueCapacity = 2
  kMaxSizePendingWriteEventsQueue = 4
  MaxEvents = 5
  MaxRestarts = 1
SYMMETRY ClientSymmetry
CHECK_DEADLOCK FALSE
INVARIANTS
  SizeMatches
  NoLostPendingWake
  NoStaleEvents
  BalanceKept
PROPERTIES
  StreamSpec
