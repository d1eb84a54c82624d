---------------------------- MODULE SubHalProofs ----------------------------
(***************************************************************************)
(* TLAPS proofs about OperationMode, Sensor and their composition SubHal,  *)
(* for any number of sub-HALs, any delays and any periods.                 *)
(***************************************************************************)
EXTENDS SubHal, TLAPS

-----------------------------------------------------------------------------
(* The operation mode of HalProxy and its sub-HALs.                        *)

(* The loop variables stay in their ranges and the modes are modes.        *)
THEOREM TypeCorrect == Spec => []TypeOK
<1>1. Init => TypeOK
  BY ConstantsAssumption DEF Init, TypeOK, Modes, SubHals
<1>2. TypeOK /\ [Next]_vars => TypeOK'
  <2> SUFFICES ASSUME TypeOK, [Next]_vars PROVE TypeOK'
    OBVIOUS
  <2> USE ConstantsAssumption DEF TypeOK, Modes, SubHals
  <2>1. ASSUME NEW m \in Modes, SetOperationMode(m) PROVE TypeOK'
    BY <2>1 DEF SetOperationMode, Call
  <2>2. CASE SetSubHal
    BY <2>2 DEF SetSubHal, SetMode
  <2>3. CASE SubHalRefuses
    BY <2>3 DEF SubHalRefuses
  <2>4. CASE SetDone
    BY <2>4 DEF SetDone
  <2>5. CASE RollBack
    BY <2>5 DEF RollBack, SetMode
  <2>6. CASE RollBackRefused
    BY <2>6 DEF RollBackRefused
  <2>7. CASE RollBackDone
    BY <2>7 DEF RollBackDone
  <2>8. ASSUME NEW res \in {"OK", "failed"}, Initialize(res) PROVE TypeOK'
    BY <2>8 DEF Initialize, Call
  <2>9. CASE InitializeSubHal
    BY <2>9 DEF InitializeSubHal, SetMode
  <2>10. CASE InitializeFails
    BY <2>10 DEF InitializeFails
  <2>11. CASE InitializeDone
    BY <2>11 DEF InitializeDone
  <2>12. CASE UNCHANGED vars
    BY <2>12 DEF vars
  <2>13. QED
    BY <2>1, <2>2, <2>3, <2>4, <2>5, <2>6, <2>7, <2>8, <2>9, <2>10, <2>11, <2>12 DEF Next
<1>3. QED
  BY <1>1, <1>2, PTL DEF Spec

-----------------------------------------------------------------------------
(* The mode of each sub-HAL at every point of the loops: those behind the  *)
(* loop variable have been set, those ahead have not.                      *)
ModeOf(s) ==
  CASE control = "set"        -> IF s < subHalIndex THEN target ELSE mCurrentOperationMode
    [] control = "rollback"   -> IF i <= s /\ s < subHalIndex
                                 THEN target ELSE mCurrentOperationMode
    [] control = "initialize" -> IF s < subHalIndex THEN "NORMAL" ELSE mCurrentOperationMode
    [] control = "idle"       -> mCurrentOperationMode

(* While the result is OK, the sub-HALs behind the loop variable are not   *)
(* astray; at the end of a call that is all of them.                       *)
Progress ==
  /\ control = "idle" /\ result = "OK" => astray = {}
  /\ control \in {"set", "initialize"} /\ result = "OK" =>
       \A s \in SubHals : s < subHalIndex => s \notin astray
  /\ control = "rollback" => result = "failed"

IInv ==
  /\ TypeOK
  /\ \A s \in SubHals \ astray : mode[s] = ModeOf(s)
  /\ Progress

LEMMA InitIInv == Init => IInv
<1> SUFFICES ASSUME Init PROVE IInv
  OBVIOUS
<1>1. TypeOK
  BY ConstantsAssumption DEF Init, TypeOK, Modes, SubHals
<1>2. QED
  BY <1>1 DEF Init, IInv, ModeOf, Progress, SubHals

LEMMA StepIInv == IInv /\ TypeOK' /\ [Next]_vars => IInv'
<1> SUFFICES ASSUME IInv, TypeOK', [Next]_vars PROVE IInv'
  OBVIOUS
<1> USE ConstantsAssumption DEF IInv, TypeOK, Modes, SubHals, ModeOf, Progress
<1>1. ASSUME NEW m \in Modes, SetOperationMode(m) PROVE IInv'
  BY <1>1 DEF SetOperationMode, Call
<1>2. CASE SetSubHal
  BY <1>2 DEF SetSubHal, SetMode
<1>3. CASE SubHalRefuses
  BY <1>3 DEF SubHalRefuses
<1>4. CASE SetDone
  BY <1>4 DEF SetDone
<1>5. CASE RollBack
  BY <1>5 DEF RollBack, SetMode
<1>6. CASE RollBackRefused
  BY <1>6 DEF RollBackRefused
<1>7. CASE RollBackDone
  BY <1>7 DEF RollBackDone
<1>8. ASSUME NEW res \in {"OK", "failed"}, Initialize(res) PROVE IInv'
  BY <1>8 DEF Initialize, Call
<1>9. CASE InitializeSubHal
  BY <1>9 DEF InitializeSubHal, SetMode
<1>10. CASE InitializeFails
  BY <1>10 DEF InitializeFails
<1>11. CASE InitializeDone
  BY <1>11 DEF InitializeDone
<1>12. CASE UNCHANGED vars
  BY <1>12 DEF vars
<1>13. QED
  BY <1>1, <1>2, <1>3, <1>4, <1>5, <1>6, <1>7, <1>8, <1>9, <1>10, <1>11, <1>12 DEF Next

(* While setOperationMode or initializeCommon is in a loop, the sub-HALs   *)
(* it has passed have the new mode and the others still have the old one.  *)
THEOREM Invariance == Spec => []IInv
<1>1. Spec => []TypeOK
  BY TypeCorrect
<1>2. IInv /\ TypeOK' /\ [Next]_vars => IInv'
  BY StepIInv
<1>3. QED
  BY InitIInv, <1>1, <1>2, PTL DEF Spec

(* Sub-HALs are in the mode HalProxy believes them to be in, however many  *)
(* there are and whichever refuse.                                         *)
THEOREM ModesCorrect == Spec => []ModesAgree
<1>1. IInv => ModesAgree
  BY DEF IInv, ModesAgree, ModeOf
<1>2. QED
  BY Invariance, <1>1, PTL

(* A call that returns OK leaves all of them in that mode.                 *)
THEOREM OkCorrect == Spec => []OkMeansAllAgree
<1>1. IInv => OkMeansAllAgree
  BY DEF IInv, OkMeansAllAgree, ModeOf, Progress
<1>2. QED
  BY Invariance, <1>1, PTL

-----------------------------------------------------------------------------
(* The composition.                                                        *)

(* The calls of HalProxy are those of OperationMode, whose theorems apply. *)
THEOREM ImplementsOperationMode == SubHalSpec => Spec
<1>1. SubHalInit => Init
  BY DEF SubHalInit
<1>2. [SubHalNext]_subHalVars => [Next]_vars
  BY DEF SubHalNext, subHalVars, Activate, Batch, ModeStep, ModeCall, SensorStep, Next
<1>3. QED
  BY <1>1, <1>2, PTL DEF SubHalSpec, Spec

-----------------------------------------------------------------------------
(* The sensor, whatever is called and when.                                *)

(* The thread keeps the mutex from its test to the post.                   *)
SamplesActive == thread = "sampling" => Active

(* Both clocks agree and so do the periods, and a sample that is due is so *)
(* for every period asked for since the last one.                          *)
Regular ==
  ~irregular =>
    /\ age = gap
    /\ mSamplingPeriodNs = wanted
    /\ leastWanted <= wanted
    /\ thread = "sampling" /\ left = 0 => leastWanted <= gap

(* The wait is computed and begun for the current period.                  *)
WaitComputed ==
  \/ thread \in {"sampling", "presleep"}
  \/ thread = "timed" /\ ~notified

WaitFits ==
  WaitComputed /\ ~overtaken /\ ~irregular => left <= Greater(mSamplingPeriodNs - age, 0)

SensorInv == SensorTypeOK /\ SamplesActive /\ Regular /\ WaitFits

LEMMA ClampedType ==
  ASSUME NEW period \in Periods
  PROVE  Clamped(period) \in 0..MaxDelay /\ BatchPeriod(period) \in 0..MaxDelay
<1>1. period \in Int /\ Truncated(period) \in Int
  BY SensorAssumption DEF Truncated
<1>2. ASSUME NEW n \in Int PROVE Clamped(n) \in 0..MaxDelay
  BY <1>2, SensorAssumption DEF Clamped, Smaller, Greater
<1>3. QED
  BY <1>1, <1>2 DEF BatchPeriod

LEMMA SensorInitInv == SensorInit => SensorInv
<1> SUFFICES ASSUME SensorInit PROVE SensorInv
  OBVIOUS
<1>1. SensorTypeOK
  <2>1. /\ dataInjection \in BOOLEAN /\ mIsEnabled \in BOOLEAN /\ notified \in BOOLEAN
        /\ irregular \in BOOLEAN /\ overtaken \in BOOLEAN
    BY Zenon DEF SensorInit
  <2>2. /\ mSamplingPeriodNs \in 0..MaxDelay /\ left \in 0..(MaxDelay + MaxSetBack)
        /\ age \in (-MaxSetBack)..MaxDelay /\ clockSets \in 0..MaxClockSets
        /\ gap \in 0..MaxDelay /\ wanted \in 0..MaxDelay /\ leastWanted \in 0..MaxDelay
    BY SensorAssumption DEF SensorInit
  <2>3. QED
    BY <2>1, <2>2 DEF SensorInit, SensorTypeOK
<1>2. SamplesActive /\ Regular /\ WaitFits
  BY SensorAssumption DEF SensorInit, SamplesActive, Regular, WaitComputed, WaitFits
<1>3. QED
  BY <1>1, <1>2 DEF SensorInv

(* The thread.                                                             *)
LEMMA RunStepInv ==
  ASSUME SensorInv, RunStep \/ RunSpuriouslyWakes
  PROVE  SensorInv'
<1> USE SensorAssumption DEF SensorInv, SensorTypeOK, SamplesActive, Regular, WaitComputed,
        WaitFits, Active, Greater, RunGoto, scheduleVars, clockVars
<1>1. CASE RunWaits
  BY <1>1 DEF RunWaits
<1>2. CASE RunWakes
  BY <1>2 DEF RunWakes
<1>3. CASE RunReadsClock
  BY <1>3 DEF RunReadsClock, TimeToNextSample
<1>4. CASE RunPosts
  BY <1>4 DEF RunPosts
<1>5. CASE RunSleeps
  BY <1>5 DEF RunSleeps
<1>6. CASE WakeUp
  <2>1. SensorTypeOK'
    <3>1. notified' \in BOOLEAN /\ overtaken' \in BOOLEAN
      BY <1>6, Zenon DEF WakeUp
    <3>2. left' \in 0..(MaxDelay + MaxSetBack)
      BY <1>6 DEF WakeUp
    <3>3. QED
      BY <1>6, <3>1, <3>2 DEF WakeUp
  <2>2. SamplesActive' /\ Regular' /\ WaitFits'
    BY <1>6 DEF WakeUp
  <2>3. QED
    BY <2>1, <2>2
<1>7. QED
  BY <1>1, <1>2, <1>3, <1>4, <1>5, <1>6 DEF RunStep, RunTimedWakes, RunSpuriouslyWakes

(* The clocks.                                                             *)
LEMMA ClockStepInv ==
  ASSUME SensorInv, Tick \/ SetClock
  PROVE  SensorInv'
<1> USE SensorAssumption DEF SensorInv, SensorTypeOK, SamplesActive, Regular, WaitComputed,
        WaitFits, Active, Greater, Smaller, Asleep, scheduleVars, clockVars
<1>1. CASE Tick
  BY <1>1 DEF Tick
<1>2. CASE SetClock
  BY <1>2 DEF SetClock
<1>3. QED
  BY <1>1, <1>2

(* The calls.                                                              *)
LEMMA ActivateInv ==
  ASSUME SensorInv, NEW enable \in BOOLEAN, SensorActivate(enable)
  PROVE  SensorInv'
BY SensorAssumption DEF SensorActivate, SensorInv, SensorTypeOK, SamplesActive, Regular,
   WaitComputed, WaitFits, Active, MutexFree, Asleep, Notify, scheduleVars, clockVars

LEMMA SetOperationModeInv ==
  ASSUME SensorInv, NEW m \in Modes, SensorSetOperationMode(m)
  PROVE  SensorInv'
BY SensorAssumption DEF SensorSetOperationMode, SensorInv, SensorTypeOK, SamplesActive, Regular,
   WaitComputed, WaitFits, Active, MutexFree, Asleep, Notify, Modes, scheduleVars, clockVars

LEMMA BatchInv ==
  ASSUME SensorInv, NEW period \in Periods, SensorBatch(period)
  PROVE  SensorInv'
<1> USE SensorAssumption DEF SensorBatch, SensorInv, scheduleVars, clockVars
<1>1. SensorTypeOK'
  BY ClampedType DEF SensorTypeOK, Smaller, Notify, Asleep
<1>2. SamplesActive'
  BY DEF SamplesActive, Active
<1>3. Regular'
  <2> SUFFICES ASSUME ~irregular' PROVE Regular'
    BY DEF Regular
  <2>1. ~irregular /\ Truncated(period) = period
    OBVIOUS
  <2>2. mSamplingPeriodNs' = wanted'
    BY <2>1 DEF BatchPeriod
  <2>3. leastWanted' <= leastWanted /\ leastWanted' <= wanted'
    BY ClampedType DEF SensorTypeOK, Smaller
  <2>4. leastWanted' \in Int /\ wanted' \in Int /\ leastWanted \in Int /\ gap \in Int
    BY ClampedType DEF SensorTypeOK, Smaller
  <2>5. QED
    BY <2>1, <2>2, <2>3, <2>4 DEF Regular
<1>4. WaitFits'
  BY ClampedType DEF WaitFits, WaitComputed, SensorTypeOK, Notify, Asleep, Greater
<1>5. QED
  BY <1>1, <1>2, <1>3, <1>4

-----------------------------------------------------------------------------
(* The sensor and the calls of HalProxy.                                   *)

(* The sensor has the mode that HalProxy gave its sub-HAL, which never     *)
(* refuses.                                                                *)
OwnMode == mMode = mode[Own] /\ Own \notin astray

SInv == SensorInv /\ OwnMode

LEMMA SensorInvStep ==
  ASSUME SensorInv, TypeOK, [SubHalNext]_subHalVars
  PROVE  SensorInv'
<1>1. ASSUME NEW enable \in BOOLEAN, SensorActivate(enable) PROVE SensorInv'
  BY <1>1, ActivateInv
<1>2. ASSUME NEW s, NEW m \in Modes, SetSensorMode(s, m) PROVE SensorInv'
  <2>1. CASE SensorSetOperationMode(m)
    BY <2>1, SetOperationModeInv
  <2>2. CASE UNCHANGED sensorVars
    BY <2>2 DEF sensorVars, scheduleVars, clockVars, SensorInv, SensorTypeOK, SamplesActive,
       Active, Regular, WaitFits, WaitComputed
  <2>3. QED
    BY <1>2, <2>1, <2>2 DEF SetSensorMode
<1>3. CASE UNCHANGED sensorVars
  BY <1>3 DEF sensorVars, scheduleVars, clockVars, SensorInv, SensorTypeOK, SamplesActive,
     Active, Regular, WaitFits, WaitComputed
<1>4. CASE \E enable \in BOOLEAN : Activate(enable)
  BY <1>4, <1>1 DEF Activate
<1>5. CASE \E period \in Periods : Batch(period)
  BY <1>5, BatchInv DEF Batch
<1>6. CASE ModeStep
  BY <1>6, <1>2, <1>3 DEF ModeStep, TypeOK, Modes
<1>7. CASE ModeCall
  BY <1>7, <1>1, <1>3 DEF ModeCall
<1>8. CASE SensorStep
  BY <1>8, RunStepInv, ClockStepInv DEF SensorStep
<1>9. CASE UNCHANGED subHalVars
  BY <1>9, <1>3 DEF subHalVars
<1>10. QED
  BY <1>4, <1>5, <1>6, <1>7, <1>8, <1>9 DEF SubHalNext

LEMMA OwnModeStep ==
  ASSUME OwnMode, TypeOK, [SubHalNext]_subHalVars
  PROVE  OwnMode'
<1> USE SubHalAssumption DEF OwnMode
<1>1. CASE UNCHANGED <<mode, astray, mMode>>
  BY <1>1
<1>2. CASE SetSubHal /\ SetSensorMode(subHalIndex, target)
  BY <1>2 DEF SetSubHal, SetMode, SetSensorMode, SensorSetOperationMode, TypeOK, sensorVars
<1>3. CASE RollBack /\ SetSensorMode(i, mCurrentOperationMode)
  BY <1>3 DEF RollBack, SetMode, SetSensorMode, SensorSetOperationMode, TypeOK, sensorVars
<1>4. CASE InitializeSubHal /\ SetSensorMode(subHalIndex, "NORMAL")
  BY <1>4 DEF InitializeSubHal, SetMode, SetSensorMode, SensorSetOperationMode, TypeOK, sensorVars
<1>5. CASE UNCHANGED sensorVars /\ RollBackRefused /\ i # Own
  BY <1>5 DEF RollBackRefused, sensorVars
<1>6. CASE UNCHANGED sensorVars /\ InitializeFails /\ subHalIndex # Own
  BY <1>6 DEF InitializeFails, sensorVars
<1>7. CASE ModeStep
  BY <1>7, <1>1, <1>2, <1>3, <1>4, <1>5, <1>6
     DEF ModeStep, sensorVars, SubHalRefuses, SetDone, RollBackDone, InitializeDone
<1>8. CASE \E enable \in BOOLEAN : Activate(enable)
  BY <1>8, <1>1 DEF Activate, SensorActivate, vars
<1>9. CASE \E period \in Periods : Batch(period)
  BY <1>9, <1>1 DEF Batch, SensorBatch, vars
<1>10. CASE ModeCall
  BY <1>10, <1>1 DEF ModeCall, SetOperationMode, Initialize, SensorActivate, sensorVars
<1>11. CASE SensorStep
  BY <1>11, <1>1 DEF SensorStep, vars, RunStep, RunWaits, RunWakes, RunReadsClock, RunPosts,
     RunSleeps, RunTimedWakes, RunSpuriouslyWakes, WakeUp, Tick, SetClock
<1>12. CASE UNCHANGED subHalVars
  BY <1>12, <1>1 DEF subHalVars, vars, sensorVars
<1>13. QED
  BY <1>7, <1>8, <1>9, <1>10, <1>11, <1>12 DEF SubHalNext

(* Both parts keep their invariants when they are joined, and the sensor   *)
(* is in the mode that HalProxy takes its sub-HAL to be in.                *)
THEOREM SubHalInvariance == SubHalSpec => [](SInv /\ IInv)
<1>1. SubHalInit => SInv
  BY SensorInitInv, SubHalAssumption DEF SubHalInit, SInv, OwnMode, Init, SensorInit
<1>2. SInv /\ IInv /\ [SubHalNext]_subHalVars => SInv'
  BY SensorInvStep, OwnModeStep DEF SInv, IInv
<1>3. SubHalSpec => []IInv
  BY ImplementsOperationMode, Invariance
<1>4. QED
  BY <1>1, <1>2, <1>3, PTL DEF SubHalSpec

(* The types of HalProxy's mode and of the sensor: however a 64-bit period *)
(* is truncated, the sensor keeps one within its delays.                   *)
THEOREM SubHalTypeCorrect == SubHalSpec => []SubHalTypeOK
<1>1. SInv /\ IInv => SubHalTypeOK
  BY DEF SInv, SensorInv, IInv, SubHalTypeOK
<1>2. QED
  BY SubHalInvariance, <1>1, PTL

(* Data is injected in the mode HalProxy announced and in no other.        *)
THEOREM InjectionCorrect == SubHalSpec => []InjectionAgreed
<1>1. SInv /\ IInv => InjectionAgreed
  BY SubHalAssumption DEF SInv, SensorInv, SensorTypeOK, OwnMode, IInv, TypeOK, Modes, ModeOf,
     InjectionAgreed, InjectSensorData, InjectEvent
<1>2. QED
  BY SubHalInvariance, <1>1, PTL

(* No sample of a disabled sensor, and none between injected data.         *)
THEOREM NoStrayCorrect == SubHalSpec => NoStraySamples
<1>1. SInv /\ IInv /\ RunPosts =>
        mIsEnabled /\ (control = "idle" => mCurrentOperationMode = "NORMAL")
  BY SubHalAssumption DEF SInv, SensorInv, SamplesActive, Active, OwnMode, IInv, ModeOf,
     RunPosts, RunGoto
<1>2. SInv /\ IInv /\ [SubHalNext]_subHalVars =>
        [RunPosts => mIsEnabled
                       /\ (control = "idle" => mCurrentOperationMode = "NORMAL")]_subHalVars
  BY <1>1
<1>3. QED
  BY SubHalInvariance, <1>2, PTL DEF SubHalSpec, NoStraySamples

(* The sensor is not sampled more often than asked for, for any delays and *)
(* periods, unless a clock is set or a period is truncated.                *)
THEOREM NotTooOftenCorrect == SubHalSpec => NotTooOften
<1>1. SInv /\ RunPosts => gap >= leastWanted \/ irregular
  BY SensorAssumption DEF SInv, SensorInv, SensorTypeOK, Regular, RunPosts, RunGoto
<1>2. SInv /\ [SubHalNext]_subHalVars =>
        [RunPosts => gap >= leastWanted \/ irregular]_sensorVars
  BY <1>1
<1>3. QED
  BY SubHalInvariance, <1>2, PTL DEF SubHalSpec, NotTooOften

(* The thread sleeps for the current period and not for an earlier one.    *)
THEOREM SleepsNoLongerCorrect == SubHalSpec => []SleepsNoLonger
<1>1. SInv => SleepsNoLonger
  BY DEF SInv, SensorInv, WaitFits, WaitComputed, SleepsNoLonger
<1>2. QED
  BY SubHalInvariance, <1>1, PTL
=============================================================================
