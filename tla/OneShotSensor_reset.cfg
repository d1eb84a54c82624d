\* A touch during initialize.
SPECIFICATION Spec
CONSTANTS
  PipeCapacity = 5
  MaxCalls = 2
  MaxPosts = 5
CHECK_DEADLOCK FALSE
PROPERTIES
  NoEventsBeforeReset
