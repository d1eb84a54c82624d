\* The first of two sub-HALs is SensorsSubHal.  The period of 7 overflows 3 bits.
SPECIFICATION SubHalFairSpec
CONSTANTS
  NumSubHals = 2
  MaxCalls = 2
  Own = 0
  MinDelay = 1
  MaxDelay = 2
  Half = 4
  Periods = {1, 2, 7}
  MaxClockSets = 1
  MaxSetBack = 1
INVARIANTS
  SubHalTypeOK
  ModesAgree
  OkMeansAllAgree
  SleepsNoLonger
  InjectionAgreed
PROPERTIES
  NotTooOften
  SamplesKeepComing
