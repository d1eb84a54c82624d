------------------------------- MODULE Sensor -------------------------------
(***************************************************************************)
(* A sensor of the base class Sensor (sensors/Sensor.cpp): the thread that *)
(* samples it, and the calls SensorsSubHal forwards to it.  SubHal joins   *)
(* it to the calls of HalProxy; the tap sensors of this device, which      *)
(* replace run(), are in OneShotSensor, with the lifetime of the thread.   *)
(*                                                                         *)
(* Time is relative to the last sample, by the settable clock that run()   *)
(* reads and by the steady clock of its wait.  Only sleeping takes time.   *)
(***************************************************************************)
EXTENDS Integers

CONSTANTS
  MinDelay, MaxDelay,  \* of mSensorInfo, in the unit of the periods
  Half,                \* half the values of int32_t: 2^31
  Periods,             \* int64_t sampling periods the framework asks for
  MaxClockSets,        \* bound: how often the settable clock is set
  MaxSetBack           \* bound: how far behind the last sample it is set

ASSUME SensorAssumption ==
  /\ MinDelay \in Nat /\ MaxDelay \in Nat /\ MinDelay <= MaxDelay
  /\ Half \in Nat \ {0} /\ MaxDelay < Half
  /\ Periods \subseteq Int
  /\ MaxClockSets \in Nat /\ MaxSetBack \in Nat

VARIABLES
  dataInjection,      \* a flag of mSensorInfo: supportsDataInjection
  mIsEnabled,
  mMode,
  mSamplingPeriodNs,
  thread,             \* where run() is; it has mRunMutex unless it sleeps
  left,               \* nextSampleTime - now, and then the rest of the wait
  notified,           \* a notification of mWaitCV reached the thread asleep
  age,                \* settable clock - mLastSampleTimeNs
  clockSets,
  gap,                \* steady time since the last sample
  wanted,             \* what the framework asked for: the period it gets when
                      \* nothing overflows
  leastWanted,        \* the least of that since the last sample
  irregular,          \* since then the clock was set, or an overflow was in force
  overtaken           \* a change of the period came after run() read it and
                      \* before it slept

scheduleVars == <<mSamplingPeriodNs, wanted, leastWanted, overtaken>>
clockVars    == <<age, clockSets, gap, irregular>>
sensorVars   == <<dataInjection, mIsEnabled, mMode, thread, left, notified,
                  scheduleVars, clockVars>>

Smaller(a, b) == IF a <= b THEN a ELSE b
Greater(a, b) == IF a >= b THEN a ELSE b

SensorTypeOK ==
  /\ dataInjection \in BOOLEAN
  /\ mIsEnabled \in BOOLEAN
  /\ mMode \in {"NORMAL", "DATA_INJECTION"}
  /\ mSamplingPeriodNs \in 0..MaxDelay
  /\ thread \in {"loop", "waiting", "sampling", "presleep", "timed"}
  /\ left \in 0..(MaxDelay + MaxSetBack)
  /\ notified \in BOOLEAN
  /\ age \in (-MaxSetBack)..MaxDelay
  /\ clockSets \in 0..MaxClockSets
  /\ gap \in 0..MaxDelay
  /\ wanted \in 0..MaxDelay /\ leastWanted \in 0..MaxDelay
  /\ irregular \in BOOLEAN
  /\ overtaken \in BOOLEAN

SensorInit ==
  /\ dataInjection \in BOOLEAN
  /\ mIsEnabled = FALSE
  /\ mMode = "NORMAL"
  /\ mSamplingPeriodNs = 0
  /\ thread = "loop"
  /\ left = 0
  /\ notified = FALSE
  /\ age = MaxDelay
  /\ clockSets = 0
  /\ gap = MaxDelay
  /\ wanted = 0
  /\ leastWanted = 0
  /\ irregular = FALSE
  /\ overtaken = FALSE

Active == mIsEnabled /\ mMode = "NORMAL"

Asleep == thread \in {"waiting", "timed"}

MutexFree == Asleep

Notify == notified' = (notified \/ Asleep)

-----------------------------------------------------------------------------
(* run()                                                                   *)

RunGoto(from, to) ==
  /\ thread = from
  /\ thread' = to

RunWaits ==
  /\ RunGoto("loop", "waiting")
  /\ ~Active
  /\ UNCHANGED <<dataInjection, mIsEnabled, mMode, left, notified, scheduleVars, clockVars>>

(* The wait goes on unless its predicate holds.                            *)
RunWakes ==
  /\ thread = "waiting" /\ notified
  /\ thread' = IF Active THEN "loop" ELSE "waiting"
  /\ notified' = FALSE
  /\ UNCHANGED <<dataInjection, mIsEnabled, mMode, left, scheduleVars, clockVars>>

(* nextSampleTime - now, 0 if the sample is due.  The mutant takes every   *)
(* wake-up for the end of the period.                                      *)
AlwaysDue == 0

TimeToNextSample == Greater(mSamplingPeriodNs - age, 0)

RunReadsClock ==
  /\ RunGoto("loop", "sampling")
  /\ Active
  /\ left' = TimeToNextSample
  /\ UNCHANGED <<dataInjection, mIsEnabled, mMode, notified, scheduleVars, clockVars>>

(* The period is read again for the next sample.                           *)
RunPosts ==
  /\ RunGoto("sampling", "presleep")
  /\ left = 0
  /\ left' = mSamplingPeriodNs
  /\ age' = 0
  /\ gap' = 0
  /\ leastWanted' = wanted
  /\ irregular' = (mSamplingPeriodNs # wanted)
  /\ UNCHANGED <<dataInjection, mIsEnabled, mMode, notified, mSamplingPeriodNs, wanted,
                 overtaken, clockSets>>

(* wait_for                                                                *)
RunSleeps ==
  /\ RunGoto("presleep", "timed") \/ (left > 0 /\ RunGoto("sampling", "timed"))
  /\ UNCHANGED <<dataInjection, mIsEnabled, mMode, left, notified, scheduleVars, clockVars>>

WakeUp ==
  /\ RunGoto("timed", "loop")
  /\ left' = 0
  /\ notified' = FALSE
  /\ overtaken' = FALSE
  /\ UNCHANGED <<dataInjection, mIsEnabled, mMode, mSamplingPeriodNs, wanted, leastWanted,
                 clockVars>>

RunTimedWakes == (notified \/ left = 0) /\ WakeUp

RunSpuriouslyWakes == ~notified /\ left > 0 /\ WakeUp

RunStep == RunWaits \/ RunWakes \/ RunReadsClock \/ RunPosts \/ RunSleeps \/ RunTimedWakes

-----------------------------------------------------------------------------
(* What the binder thread calls.                                           *)

ActivateSilently(enable) ==   \* mutant: notifies only what is disabled
  /\ MutexFree
  /\ mIsEnabled' = enable
  /\ IF enable THEN UNCHANGED notified ELSE Notify
  /\ UNCHANGED <<dataInjection, mMode, thread, left, scheduleVars, clockVars>>

SensorActivate(enable) ==
  /\ MutexFree
  /\ mIsEnabled' = enable
  /\ IF mIsEnabled # enable THEN Notify ELSE UNCHANGED notified
  /\ UNCHANGED <<dataInjection, mMode, thread, left, scheduleVars, clockVars>>

SensorSetOperationMode(mode) ==
  /\ MutexFree
  /\ mMode' = mode
  /\ IF mMode # mode THEN Notify ELSE UNCHANGED notified
  /\ UNCHANGED <<dataInjection, mIsEnabled, thread, left, scheduleVars, clockVars>>

(* int64_t to int32_t, in SensorsSubHal::batch.                            *)
Truncated(period) == ((period + Half) % (2 * Half)) - Half

Clamped(period) == Smaller(Greater(period, MinDelay), MaxDelay)

Unclamped(period) == Truncated(period)   \* mutant

BatchPeriod(period) == Clamped(Truncated(period))

(* Mutant: the thread is not told.                                         *)
BatchSilently(period) ==
  /\ mSamplingPeriodNs' = BatchPeriod(period)
  /\ wanted' = Clamped(period)
  /\ leastWanted' = Smaller(leastWanted, Clamped(period))
  /\ irregular' = (irregular \/ Truncated(period) # period)
  /\ overtaken' = (overtaken \/ (~Asleep /\ mSamplingPeriodNs # BatchPeriod(period)))
  /\ UNCHANGED <<dataInjection, mIsEnabled, mMode, thread, left, notified, age, clockSets, gap>>

(* Sensor::batch, which does not take the mutex.                           *)
SensorBatch(period) ==
  /\ mSamplingPeriodNs' = BatchPeriod(period)
  /\ IF mSamplingPeriodNs # BatchPeriod(period)
     THEN Notify /\ overtaken' = (overtaken \/ ~Asleep)
     ELSE UNCHANGED <<notified, overtaken>>
  /\ wanted' = Clamped(period)
  /\ leastWanted' = Smaller(leastWanted, Clamped(period))
  /\ irregular' = (irregular \/ Truncated(period) # period)
  /\ UNCHANGED <<dataInjection, mIsEnabled, mMode, thread, left, age, clockSets, gap>>

(* What injectEvent returns.                                               *)
InjectEvent(sensorType) ==
  CASE sensorType = "ADDITIONAL_INFO" -> "OK"
    [] sensorType # "ADDITIONAL_INFO" /\ ~dataInjection -> "INVALID_OPERATION"
    [] OTHER -> IF mMode = "DATA_INJECTION" THEN "OK" ELSE "BAD_VALUE"

-----------------------------------------------------------------------------
(* Time passes while the thread sleeps, and on after the end of its wait.  *)
Tick ==
  /\ Asleep
  /\ age' = Smaller(age + 1, MaxDelay)
  /\ gap' = Smaller(gap + 1, MaxDelay)
  /\ left' = Greater(left - 1, 0)
  /\ UNCHANGED <<dataInjection, mIsEnabled, mMode, thread, notified, scheduleVars, clockSets,
                 irregular>>

(* CLOCK_REALTIME is set.                                                  *)
SetClock ==
  /\ clockSets < MaxClockSets
  /\ clockSets' = clockSets + 1
  /\ age' \in (-MaxSetBack)..MaxDelay
  /\ irregular' = TRUE
  /\ UNCHANGED <<dataInjection, mIsEnabled, mMode, thread, left, notified, scheduleVars, gap>>

-----------------------------------------------------------------------------
(* Properties.                                                             *)

(* No sample comes earlier after the last one than the framework asked for *)
(* in between, whatever wakes the thread up, unless the clock was set or a *)
(* request of more than 32 bits was truncated into a short one.            *)
NotTooOften == [][RunPosts => gap >= leastWanted \/ irregular]_sensorVars

(* A sleeping thread is there for the current period and not for a longer  *)
(* one of before: batch will "wake up the 'run' thread to check if a new   *)
(* event should be generated now".  It does so without the mutex, and the  *)
(* thread misses it if it is about to sleep.                               *)
SleepsNoLonger ==
  thread = "timed" /\ ~notified /\ ~overtaken /\ ~irregular =>
    left <= Greater(mSamplingPeriodNs - age, 0)

(* An active sensor is sampled again and again, also after the clock was   *)
(* set back, which makes it wait that much longer.                         *)
SamplesKeepComing == (Active /\ gap > 0) ~> (gap = 0 \/ ~Active)
=============================================================================
