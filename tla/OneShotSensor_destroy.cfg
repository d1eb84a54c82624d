\* An enabled sensor is destroyed.
SPECIFICATION FairSpec
CONSTANTS
  PipeCapacity = 5
  MaxCalls = 2
  MaxPosts = 5
CHECK_DEADLOCK FALSE
PROPERTIES
  Destroyed
