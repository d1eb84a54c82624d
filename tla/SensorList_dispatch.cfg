\* Five sub-HALs: indices 0 and 1, 2 and 3 with the sign bit, and 4, which wraps.
SPECIFICATION Spec
CONSTANTS
  HandlesPerSubHal = 2
  SignIndex = 2
  SensorLists <- MCSensorLists
  MaxSubHals = 5
CHECK_DEADLOCK FALSE
INVARIANTS
  TypeOK
  DispatchedToOwner
  DirectReportToOwner
PROPERTIES
  NoneReplaced
