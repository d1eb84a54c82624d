------------------------------- MODULE SubHal -------------------------------
(***************************************************************************)
(* HalProxy with SensorsSubHal (sensors/SensorsSubHal.cpp) as one of its   *)
(* sub-HALs: the operation mode of OperationMode reaches the sensor of     *)
(* Sensor, and data is injected through HalProxy, which tests its own      *)
(* mode, into the sensor, which tests its own.                             *)
(***************************************************************************)
EXTENDS OperationMode, Sensor

CONSTANT Own   \* index of SensorsSubHal

ASSUME SubHalAssumption == Own \in SubHals

subHalVars == <<vars, sensorVars>>

SubHalTypeOK == TypeOK /\ SensorTypeOK

SubHalInit == Init /\ SensorInit

-----------------------------------------------------------------------------
(* Calls for the handle of the sensor; for any other they return BAD_VALUE.*)

Activate(enable) ==
  /\ control = "idle"
  /\ SensorActivate(enable)
  /\ UNCHANGED vars

Batch(period) ==
  /\ control = "idle"
  /\ SensorBatch(period)
  /\ UNCHANGED vars

(* What HalProxy::injectSensorData returns, after SensorsSubHal::          *)
(* injectSensorData_2_1.  With OK the event is posted, as any other is.    *)
InjectSensorData(sensorType) ==
  IF mCurrentOperationMode = "NORMAL" /\ sensorType # "ADDITIONAL_INFO"
  THEN "BAD_VALUE"
  ELSE InjectEvent(sensorType)

-----------------------------------------------------------------------------
(* The calls of OperationMode: SensorsSubHal passes the mode on to its     *)
(* sensor, and never refuses.                                              *)

OwnDropsMode(s, m) == UNCHANGED sensorVars   \* mutant

SetSensorMode(s, m) ==
  IF s = Own THEN SensorSetOperationMode(m) ELSE UNCHANGED sensorVars

ModeStep ==
  \/ SetSubHal /\ SetSensorMode(subHalIndex, target)
  \/ RollBack /\ SetSensorMode(i, mCurrentOperationMode)
  \/ InitializeSubHal /\ SetSensorMode(subHalIndex, "NORMAL")
  \/ UNCHANGED sensorVars
       /\ \/ SubHalRefuses /\ subHalIndex # Own
          \/ RollBackRefused /\ i # Own
          \/ InitializeFails /\ subHalIndex # Own
          \/ SetDone \/ RollBackDone \/ InitializeDone

(* initializeCommon disables all sensors before anything else.             *)
ModeCall ==
  \/ UNCHANGED sensorVars /\ \E m \in Modes : SetOperationMode(m)
  \/ SensorActivate(FALSE) /\ \E res \in {"OK", "failed"} : Initialize(res)

SensorStep ==
  /\ RunStep \/ RunSpuriouslyWakes \/ Tick \/ SetClock
  /\ UNCHANGED vars

SubHalNext ==
  \/ \E enable \in BOOLEAN : Activate(enable)
  \/ \E period \in Periods : Batch(period)
  \/ ModeStep
  \/ ModeCall
  \/ SensorStep

SubHalSpec == SubHalInit /\ [][SubHalNext]_subHalVars

(* The thread runs, and time passes however often the thread wakes up (so  *)
(* the strong fairness).  No caller has to call, and no spurious wake-up   *)
(* is relied on.                                                           *)
SubHalFairness ==
  /\ WF_subHalVars(RunStep /\ UNCHANGED vars)
  /\ SF_subHalVars(Tick /\ UNCHANGED vars)

SubHalFairSpec == SubHalSpec /\ SubHalFairness

-----------------------------------------------------------------------------
(* Properties.                                                             *)

(* Data is injected exactly in the mode HalProxy announced: the tests of   *)
(* its mode and of the sensor's never disagree, after any successes,       *)
(* refusals, rollbacks and initializations of the other sub-HALs.          *)
InjectionAgreed ==
  control = "idle" =>
    (InjectSensorData("other") = "OK") =
      (dataInjection /\ mCurrentOperationMode = "DATA_INJECTION")

(* No sample mixes with injected data, and none comes from a disabled      *)
(* sensor: once a call has returned, the thread of the sensor knows.       *)
NoStraySamples ==
  [][RunPosts => mIsEnabled /\ (control = "idle" => mCurrentOperationMode = "NORMAL")]_subHalVars
=============================================================================
