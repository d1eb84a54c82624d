\* Two clients, whose posts may bring no wake-up event, and a restart.
SPECIFICATION Spec
CONSTANTS
  Clients = {c1, c2}
  Deltas = {0, 1}
  Acks = {1, 2}
  kWakelockTimeoutNs = 1
  QueueCapacity = 1
  MaxPosts = 2
  MaxRestarts = 1
SYMMETRY ClientSymmetry
INVARIANTS
  TypeOK
  HeldWhenCounted
  NoLostIncrementWake
  ResetOnlyAfterTimeout
PROPERTIES
  HeldOnlyWhenCounted
