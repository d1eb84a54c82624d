\* Calls enough to fill the pipe.  No deadlock check: a destroyed sensor stops.
SPECIFICATION FairSpec
CONSTANTS
  PipeCapacity = 3
  MaxCalls = 5
  MaxPosts = 5
CHECK_DEADLOCK FALSE
INVARIANTS
  OneEventPerActivation
PROPERTIES
  TouchReported
  DisablingInterruptsPoll
  CallsReturn
  DisabledDestroyed
