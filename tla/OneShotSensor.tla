--------------------------- MODULE OneShotSensor ---------------------------
(***************************************************************************)
(* A SysfsPollingOneShotSensor (sensors/Sensor.cpp): its thread, which     *)
(* waits on mWaitCV while the sensor is disabled and polls the touch panel *)
(* file and a self-pipe while it is enabled; activate and setOperationMode *)
(* of the binder thread; construction, destruction, and what initialize of *)
(* HalProxy does to it.                                                    *)
(*                                                                         *)
(* The binder thread is one (service.cpp), so that calls do not overlap.   *)
(* batch, flush and injectEvent change no state of a one-shot sensor.      *)
(***************************************************************************)
EXTENDS Integers

CONSTANTS
  PipeCapacity,   \* bytes that fit in the self-pipe
  MaxCalls,       \* bound: calls of the binder thread
  MaxPosts        \* bound: the count of posts saturates

ASSUME ConstantsAssumption ==
  /\ PipeCapacity \in Nat \ {0}
  /\ MaxCalls \in Nat
  /\ MaxPosts \in Nat

VARIABLES
  mIsEnabled, mMode,
  mStopThread,
  run,          \* which run() the thread was dispatched to
  thread,       \* where the thread is in run()
  notified,     \* a notification reached the thread asleep on mWaitCV
  tapReady,     \* poll reported the touch panel file
  pipeReady,    \* poll reported the pipe
  pipe,         \* bytes in the pipe
  pipeOpen,     \* pipe() succeeded
  pressed,      \* the touch panel file reads '1'
  attention,    \* the file changed since it was read
  control,      \* where the binder thread is
  mThreadsRun,  \* of HalProxy, which drops what is posted while FALSE
  calls,        \* bounded counter
  activations,  \* how often the sensor was switched on
  posted        \* how many events it posted

sensorVars  == <<mIsEnabled, mMode, mStopThread>>
threadVars  == <<run, thread, notified, tapReady, pipeReady>>
fileVars    == <<pressed, attention>>
controlVars == <<control, mThreadsRun, calls>>
vars == <<sensorVars, threadVars, pipe, pipeOpen, fileVars, controlVars,
          activations, posted>>

Runs == {"none", "Sensor", "SysfsPollingOneShotSensor"}
ThreadStates == {"created", "loop", "waiting", "polling", "polled", "pollFailed",
                 "sampled", "done"}
ControlStates == {"Sensor", "OneShotSensor", "SysfsPollingOneShotSensor",  \* constructors
                  "idle", "activate", "setOperationMode",
                  "initDisable", "initActivate", "initStart", "initReset", "initMode",
                  "destroy", "join", "destroyed"}

TypeOK ==
  /\ mIsEnabled \in BOOLEAN
  /\ mMode \in {"NORMAL", "DATA_INJECTION"}
  /\ mStopThread \in BOOLEAN
  /\ run \in Runs
  /\ thread \in ThreadStates
  /\ notified \in BOOLEAN
  /\ tapReady \in BOOLEAN
  /\ pipeReady \in BOOLEAN
  /\ pipe \in 0..PipeCapacity
  /\ pipeOpen \in BOOLEAN
  /\ pressed \in BOOLEAN
  /\ attention \in BOOLEAN
  /\ control \in ControlStates
  /\ mThreadsRun \in BOOLEAN
  /\ calls \in 0..MaxCalls
  /\ activations \in Nat
  /\ posted \in Nat

(* In the constructor of Sensor, which has just started the thread.        *)
(* mStopThread is not initialized: before C++20 an atomic_bool starts with *)
(* whatever the memory holds.                                              *)
Init ==
  /\ mIsEnabled = FALSE
  /\ mMode = "NORMAL"
  /\ mStopThread \in BOOLEAN
  /\ run = "none"
  /\ thread = "created"
  /\ notified = FALSE
  /\ tapReady = FALSE
  /\ pipeReady = FALSE
  /\ pipe = 0
  /\ pipeOpen = FALSE
  /\ pressed = FALSE
  /\ attention = FALSE
  /\ control = "Sensor"
  /\ mThreadsRun = TRUE
  /\ calls = 0
  /\ activations = 0
  /\ posted = 0

-----------------------------------------------------------------------------
(* mRunMutex: the thread keeps it in its loop, activate while it writes    *)
(* into the pipe; every other critical section is one step.                *)
MutexFreeUnlessPolling ==   \* mutant: the lock is held while polling
  thread \notin {"loop", "polling"} /\ control \notin {"activate", "initActivate"}

MutexFree == thread # "loop" /\ control \notin {"activate", "initActivate"}

Notify == notified' = (notified \/ thread = "waiting")

(* What run() waits for.                                                   *)
Active == mIsEnabled /\ mMode = "NORMAL"

(* interruptPoll: the write blocks when the pipe is full.                  *)
InterruptPoll ==
  IF pipeOpen
  THEN pipe < PipeCapacity /\ pipe' = pipe + 1
  ELSE UNCHANGED pipe

-----------------------------------------------------------------------------
(* The touch panel (external).                                             *)

TouchPanel ==
  /\ pressed' \in BOOLEAN
  /\ attention' = TRUE
  /\ UNCHANGED <<sensorVars, threadVars, pipe, pipeOpen, controlVars, activations, posted>>

-----------------------------------------------------------------------------
(* The thread.                                                             *)

(* The virtual call of run() goes to the class under construction.         *)
RunStart ==
  /\ thread = "created"
  /\ MutexFree
  /\ run' = IF control \in {"Sensor", "OneShotSensor"}
            THEN "Sensor"
            ELSE "SysfsPollingOneShotSensor"
  /\ thread' = "loop"
  /\ UNCHANGED <<sensorVars, notified, tapReady, pipeReady, pipe, pipeOpen, fileVars,
                 controlVars, activations, posted>>

RunExit ==
  /\ thread = "loop"
  /\ mStopThread
  /\ thread' = "done"
  /\ UNCHANGED <<sensorVars, run, notified, tapReady, pipeReady, pipe, pipeOpen, fileVars,
                 controlVars, activations, posted>>

RunWait ==
  /\ thread = "loop"
  /\ ~mStopThread
  /\ ~Active
  /\ thread' = "waiting"
  /\ UNCHANGED <<sensorVars, run, notified, tapReady, pipeReady, pipe, pipeOpen, fileVars,
                 controlVars, activations, posted>>

(* The wait ends if its predicate holds, and otherwise goes on.            *)
RunWake ==
  /\ thread = "waiting"
  /\ notified
  /\ MutexFree
  /\ notified' = FALSE
  /\ thread' = IF Active \/ mStopThread THEN "loop" ELSE "waiting"
  /\ UNCHANGED <<sensorVars, run, tapReady, pipeReady, pipe, pipeOpen, fileVars,
                 controlVars, activations, posted>>

RunSpuriousWake ==
  /\ thread = "waiting"
  /\ ~notified
  /\ MutexFree
  /\ Active \/ mStopThread
  /\ thread' = "loop"
  /\ UNCHANGED <<sensorVars, run, notified, tapReady, pipeReady, pipe, pipeOpen, fileVars,
                 controlVars, activations, posted>>

(* "Cannot hold lock while polling."                                       *)
RunPoll ==
  /\ thread = "loop"
  /\ run = "SysfsPollingOneShotSensor"
  /\ ~mStopThread
  /\ Active
  /\ thread' = "polling"
  /\ UNCHANGED <<sensorVars, run, notified, tapReady, pipeReady, pipe, pipeOpen, fileVars,
                 controlVars, activations, posted>>

PollReturns ==
  /\ thread = "polling"
  /\ attention \/ pipe > 0
  /\ tapReady' = attention
  /\ pipeReady' = (pipe > 0)
  /\ thread' = "polled"
  /\ UNCHANGED <<sensorVars, run, notified, pipe, pipeOpen, fileVars, controlVars,
                 activations, posted>>

(* A signal is enough: EINTR is an error like any other.                   *)
PollFails ==
  /\ thread = "polling"
  /\ thread' = "pollFailed"
  /\ UNCHANGED <<sensorVars, run, notified, tapReady, pipeReady, pipe, pipeOpen, fileVars,
                 controlVars, activations, posted>>

RunGivesUp ==
  /\ thread = "pollFailed"
  /\ MutexFree
  /\ mStopThread' = TRUE
  /\ thread' = "loop"
  /\ UNCHANGED <<mIsEnabled, mMode, run, notified, tapReady, pipeReady, pipe, pipeOpen,
                 fileVars, controlVars, activations, posted>>

Post == posted' = IF posted < MaxPosts THEN posted + 1 ELSE posted

(* Mutant: the sensor stays enabled.                                       *)
RunPostsEnabled ==
  /\ thread = "polled"
  /\ MutexFree
  /\ tapReady /\ pressed
  /\ attention' = FALSE
  /\ Post
  /\ thread' = "loop"
  /\ UNCHANGED <<sensorVars, run, notified, tapReady, pipeReady, pipe, pipeOpen,
                 pressed, controlVars, activations>>

(* The event of a touch: neither mIsEnabled nor mMode is tested again.     *)
RunPosts ==
  /\ thread = "polled"
  /\ MutexFree
  /\ tapReady /\ pressed
  /\ attention' = FALSE
  /\ mIsEnabled' = FALSE
  /\ Post
  /\ thread' = "loop"
  /\ UNCHANGED <<mMode, mStopThread, run, notified, tapReady, pipeReady, pipe, pipeOpen,
                 pressed, controlVars, activations>>

(* No touch: the file has been read if poll reported it, and one byte is   *)
(* taken from the pipe if poll reported that.                              *)
RunInterrupted ==
  /\ thread = "polled"
  /\ MutexFree
  /\ ~(tapReady /\ pressed)
  /\ attention' = (attention /\ ~tapReady)
  /\ pipe' = IF pipeReady THEN pipe - 1 ELSE pipe
  /\ thread' = "loop"
  /\ UNCHANGED <<sensorVars, run, notified, tapReady, pipeReady, pipeOpen, pressed,
                 controlVars, activations, posted>>

(* Sensor::run, when the thread was dispatched before the constructor of   *)
(* SysfsPollingOneShotSensor: an event at every sampling period, 0 here.   *)
RunSamples ==
  /\ thread = "loop"
  /\ run = "Sensor"
  /\ ~mStopThread
  /\ Active
  /\ Post
  /\ thread' = "sampled"
  /\ UNCHANGED <<sensorVars, run, notified, tapReady, pipeReady, pipe, pipeOpen, fileVars,
                 controlVars, activations>>

RunSamplesAgain ==
  /\ thread = "sampled"
  /\ MutexFree
  /\ thread' = "loop"
  /\ UNCHANGED <<sensorVars, run, notified, tapReady, pipeReady, pipe, pipeOpen, fileVars,
                 controlVars, activations, posted>>

ThreadStep ==
  \/ RunStart \/ RunExit \/ RunWait \/ RunWake
  \/ RunPoll \/ PollReturns \/ RunGivesUp \/ RunPosts \/ RunInterrupted
  \/ RunSamples \/ RunSamplesAgain

-----------------------------------------------------------------------------
(* The binder thread.                                                      *)

ControlGoto(from, to) ==
  /\ control = from
  /\ control' = to

ConstructOneShotSensor ==
  /\ ControlGoto("Sensor", "OneShotSensor")
  /\ UNCHANGED <<sensorVars, threadVars, pipe, pipeOpen, fileVars, mThreadsRun, calls,
                 activations, posted>>

ConstructSysfsPolling ==
  /\ ControlGoto("OneShotSensor", "SysfsPollingOneShotSensor")
  /\ UNCHANGED <<sensorVars, threadVars, pipe, pipeOpen, fileVars, mThreadsRun, calls,
                 activations, posted>>

(* The pipe and the touch panel file are opened; without either of them    *)
(* the thread is told to stop, but not notified.                           *)
OpenFiles ==
  /\ ControlGoto("SysfsPollingOneShotSensor", "idle")
  /\ pipeOpen' \in BOOLEAN
  /\ mStopThread' \in {TRUE} \cup (IF pipeOpen' THEN {mStopThread} ELSE {})
  /\ UNCHANGED <<mIsEnabled, mMode, threadVars, pipe, fileVars, mThreadsRun, calls,
                 activations, posted>>

Call == calls < MaxCalls /\ calls' = calls + 1

(* activate(enable), up to interruptPoll.                                  *)
Activate(enable) ==
  /\ MutexFree
  /\ Call
  /\ IF mIsEnabled # enable
     THEN /\ ControlGoto("idle", "activate")
          /\ mIsEnabled' = enable
          /\ activations' = IF enable THEN activations + 1 ELSE activations
     ELSE ControlGoto("idle", "idle") /\ UNCHANGED <<mIsEnabled, activations>>
  /\ UNCHANGED <<mMode, mStopThread, threadVars, pipe, pipeOpen, fileVars, mThreadsRun,
                 posted>>

(* Mutant: only a waiting thread is told.                                  *)
ActivateNotifies ==
  /\ ControlGoto("activate", "idle") \/ ControlGoto("initActivate", "initStart")
  /\ Notify
  /\ UNCHANGED <<sensorVars, run, thread, tapReady, pipeReady, pipe, pipeOpen, fileVars,
                 mThreadsRun, calls, activations, posted>>

(* interruptPoll and notify_all of activate, still with the mutex.         *)
ActivateInterrupts ==
  /\ ControlGoto("activate", "idle") \/ ControlGoto("initActivate", "initStart")
  /\ InterruptPoll
  /\ Notify
  /\ UNCHANGED <<sensorVars, run, thread, tapReady, pipeReady, pipeOpen, fileVars,
                 mThreadsRun, calls, activations, posted>>

(* Mutant: a waiting thread is not told.                                   *)
SetModeSilently(mode) ==
  /\ MutexFree
  /\ mMode' = mode
  /\ UNCHANGED <<mIsEnabled, mStopThread, threadVars, pipe, pipeOpen, fileVars,
                 activations, posted>>

(* Sensor::setOperationMode.                                               *)
SetMode(mode) ==
  /\ MutexFree
  /\ mMode' = mode
  /\ IF mMode # mode THEN Notify ELSE UNCHANGED notified
  /\ UNCHANGED <<mIsEnabled, mStopThread, run, thread, tapReady, pipeReady, pipe, pipeOpen,
                 fileVars, activations, posted>>

SetOperationMode(mode) ==
  /\ ControlGoto("idle", "setOperationMode")
  /\ Call
  /\ SetMode(mode)
  /\ UNCHANGED mThreadsRun

(* interruptPoll of setOperationMode, after the mutex.                     *)
SetOperationModeInterrupts ==
  /\ ControlGoto("setOperationMode", "idle") \/ ControlGoto("initMode", "idle")
  /\ InterruptPoll
  /\ UNCHANGED <<sensorVars, threadVars, pipeOpen, fileVars, mThreadsRun, calls,
                 activations, posted>>

(* HalProxy::initializeCommon: the threads of HalProxy are stopped, every  *)
(* sensor is disabled, the threads are started, and the sub-HAL is         *)
(* initialized, which sets the mode of its sensors to NORMAL.              *)
InitializeStops ==
  /\ ControlGoto("idle", "initDisable")
  /\ Call
  /\ mThreadsRun' = FALSE
  /\ UNCHANGED <<sensorVars, threadVars, pipe, pipeOpen, fileVars, activations, posted>>

InitializeDisables ==
  /\ MutexFree
  /\ IF mIsEnabled
     THEN ControlGoto("initDisable", "initActivate")
     ELSE ControlGoto("initDisable", "initStart")
  /\ mIsEnabled' = FALSE
  /\ UNCHANGED <<mMode, mStopThread, threadVars, pipe, pipeOpen, fileVars, mThreadsRun,
                 calls, activations, posted>>

InitializeStarts ==
  /\ ControlGoto("initStart", "initReset")
  /\ mThreadsRun' = TRUE
  /\ UNCHANGED <<sensorVars, threadVars, pipe, pipeOpen, fileVars, calls, activations,
                 posted>>

InitializeResets ==
  /\ ControlGoto("initReset", "initMode")
  /\ SetMode("NORMAL")
  /\ UNCHANGED <<mThreadsRun, calls>>

(* ~SysfsPollingOneShotSensor, then ~Sensor and its join.                  *)
DestroyInterrupts ==
  /\ ControlGoto("idle", "destroy")
  /\ InterruptPoll
  /\ UNCHANGED <<sensorVars, threadVars, pipeOpen, fileVars, mThreadsRun, calls,
                 activations, posted>>

DestroyStopsSilently ==   \* mutant: a waiting thread is not told
  /\ ControlGoto("destroy", "join")
  /\ MutexFree
  /\ mStopThread' = TRUE
  /\ mIsEnabled' = FALSE
  /\ UNCHANGED <<mMode, threadVars, pipe, pipeOpen, fileVars, mThreadsRun, calls,
                 activations, posted>>

DestroyStops ==
  /\ ControlGoto("destroy", "join")
  /\ MutexFree
  /\ mStopThread' = TRUE
  /\ mIsEnabled' = FALSE
  /\ Notify
  /\ UNCHANGED <<mMode, run, thread, tapReady, pipeReady, pipe, pipeOpen, fileVars,
                 mThreadsRun, calls, activations, posted>>

DestroyJoins ==
  /\ ControlGoto("join", "destroyed")
  /\ thread = "done"
  /\ UNCHANGED <<sensorVars, threadVars, pipe, pipeOpen, fileVars, mThreadsRun, calls,
                 activations, posted>>

(* What the binder thread does once it has begun something.                *)
ControlGoesOn ==
  \/ ConstructOneShotSensor \/ ConstructSysfsPolling \/ OpenFiles
  \/ ActivateInterrupts \/ SetOperationModeInterrupts
  \/ InitializeDisables \/ InitializeStarts \/ InitializeResets
  \/ DestroyStops \/ DestroyJoins

ControlBegins ==
  \/ \E enable \in BOOLEAN : Activate(enable)
  \/ \E mode \in {"NORMAL", "DATA_INJECTION"} : SetOperationMode(mode)
  \/ InitializeStops
  \/ DestroyInterrupts

Next ==
  \/ ThreadStep
  \/ RunSpuriousWake
  \/ PollFails
  \/ ControlGoesOn
  \/ ControlBegins
  \/ TouchPanel

Spec == Init /\ [][Next]_vars

(* Both threads run; the binder thread gets the mutex although the thread  *)
(* of the sensor takes it again and again.  Nobody has to touch the panel  *)
(* or to call.                                                             *)
Fairness == WF_vars(ThreadStep) /\ SF_vars(ControlGoesOn)

FairSpec == Spec /\ Fairness

-----------------------------------------------------------------------------
(* Properties.                                                             *)

(* One-shot: a sensor posts at most one event each time it is switched on, *)
(* however touches, calls and the unlocked poll overlap - if its thread    *)
(* was dispatched to SysfsPollingOneShotSensor::run at all.                *)
OneEventPerActivation == run # "Sensor" => posted <= activations

(* A touch is reported, or something keeps it from being: the sensor is    *)
(* disabled or its mode changed, the touch ends, the thread has ended, or  *)
(* the pipe is full: then activate blocks with the mutex the thread needs. *)
TouchReported ==
  (run # "Sensor" /\ Active /\ attention /\ pressed) ~>
    \/ run = "Sensor" \/ mStopThread
    \/ ~Active \/ ~attention \/ ~pressed
    \/ pipe = PipeCapacity

(* Disabling a sensor gets its thread out of the poll, which has no        *)
(* timeout: no touch is consumed by a sensor long disabled.                *)
DisablingInterruptsPoll ==
  (control = "idle" /\ ~Active /\ thread = "polling") ~>
    (thread # "polling" \/ Active \/ control # "idle")

(* A call returns, also one of initialize or of a destructor that finds    *)
(* the sensor disabled, unless its write finds the pipe full: nobody reads *)
(* it while the sensor is disabled.                                        *)
CallsReturn ==
  control \notin {"idle", "join"} ~>
    (control \in {"idle", "join", "destroyed"} \/ pipe = PipeCapacity)

(* A disabled sensor can be destroyed.                                     *)
DisabledDestroyed ==
  (control = "destroy" /\ ~mIsEnabled) ~> control = "destroyed"

(* Any sensor can: "Ensure that lock is unlocked before calling            *)
(* mRunThread.join() or a deadlock will occur" (~Sensor).                  *)
Destroyed == control = "join" ~> control = "destroyed"

(* "When we start threads again we do not get new events until after       *)
(* initialize resets the subhals" (HalProxy::initializeCommon).            *)
NoEventsBeforeReset == [][control = "initReset" => posted' = posted]_vars
=============================================================================
