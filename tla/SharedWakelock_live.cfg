\* Liveness: one client, so that no symmetry is needed.
SPECIFICATION FairSpec
CONSTANTS
  Clients = {c1}
  Deltas = {1}
  Acks = {1}
  kWakelockTimeoutNs = 1
  QueueCapacity = 1
  MaxPosts = 2
  MaxRestarts = 2
PROPERTIES
  Released
  StopCompletes
