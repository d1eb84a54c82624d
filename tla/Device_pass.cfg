\* One reboot; three calls and two changes of mode before and after it.
SPECIFICATION DeviceSpec
CONSTANTS
  Callers = {c1, c2}
  Features <- MCFeatures
  GESTURE_MAP <- MCGestures
  ShownBase = 16
  StoredBase = 10
  MaxCalls = 3
  Versions <- MCVersions
  Modes <- MCModes
  MaxSets = 2
  MaxReboots = 1
CHECK_DEADLOCK FALSE
SYMMETRY CallerSymmetry
INVARIANTS
  DeviceTypeOK
  GesturesAsAsked
  ModelOfDevice
  ModeSettled
