------------------------ MODULE OneShotSensorProofs ------------------------
(***************************************************************************)
(* TLAPS proofs about OneShotSensor, for a pipe of any size and any number *)
(* of calls.                                                               *)
(***************************************************************************)
EXTENDS OneShotSensor, TLAPS

(* OneEventPerActivation is not inductive by itself: what makes it so is   *)
(* that a thread that may still post has an activation of its own that no  *)
(* event has answered.                                                     *)
MayPost == mIsEnabled \/ thread \in {"polling", "polled"}

ActivationToAnswer == run # "Sensor" /\ MayPost => posted < activations

(* The thread is dispatched once, when it starts, and only the one         *)
(* dispatched to Sensor::run samples.                                      *)
Dispatched ==
  /\ run = "none" <=> thread = "created"
  /\ thread = "sampled" => run = "Sensor"

Counts == posted \in Nat /\ activations \in Nat

IInv == Counts /\ Dispatched /\ OneEventPerActivation /\ ActivationToAnswer

(* Steps that post nothing, enable nothing and do not begin a poll.        *)
LEMMA QuietStep ==
  ASSUME IInv,
         posted' = posted, activations' = activations,
         mIsEnabled' => mIsEnabled,
         run' = run,
         \/ thread' = thread
         \/ thread # "created" /\ thread' \in {"loop", "waiting", "pollFailed", "done"}
  PROVE  IInv'
BY DEF IInv, Counts, Dispatched, OneEventPerActivation, ActivationToAnswer, MayPost

LEMMA IInvInit == Init => IInv
BY DEF Init, IInv, Counts, Dispatched, OneEventPerActivation, ActivationToAnswer, MayPost

LEMMA IInvThread ==
  ASSUME IInv, MaxPosts \in Nat, ThreadStep \/ RunSpuriousWake \/ PollFails
  PROVE  IInv'
<1> USE DEF sensorVars, threadVars, fileVars, controlVars
<1>1. CASE RunStart
  BY <1>1 DEF RunStart, IInv, Counts, Dispatched, OneEventPerActivation,
              ActivationToAnswer, MayPost
<1>2. CASE RunExit \/ RunWait
  BY <1>2, QuietStep DEF RunExit, RunWait
<1>3. CASE RunWake \/ RunSpuriousWake
  BY <1>3, QuietStep DEF RunWake, RunSpuriousWake
<1>4. CASE RunPoll
  BY <1>4 DEF RunPoll, Active, IInv, Counts, Dispatched, OneEventPerActivation,
              ActivationToAnswer, MayPost
<1>5. CASE PollReturns
  BY <1>5 DEF PollReturns, IInv, Counts, Dispatched, OneEventPerActivation,
              ActivationToAnswer, MayPost
<1>6. CASE PollFails \/ RunGivesUp
  BY <1>6, QuietStep DEF PollFails, RunGivesUp
<1>7. CASE RunPosts
  <2>1. posted' \in Nat /\ posted' <= posted + 1
    BY <1>7 DEF RunPosts, Post, IInv, Counts
  <2>2. run # "Sensor" => posted < activations
    BY <1>7 DEF RunPosts, IInv, ActivationToAnswer, MayPost
  <2>3. /\ thread = "polled" /\ thread' = "loop"
        /\ mIsEnabled' = FALSE /\ run' = run /\ activations' = activations
    BY <1>7 DEF RunPosts
  <2>4. QED
    BY <2>1, <2>2, <2>3 DEF IInv, Counts, Dispatched, OneEventPerActivation,
                            ActivationToAnswer, MayPost
<1>8. CASE RunInterrupted
  BY <1>8, QuietStep DEF RunInterrupted
<1>9. CASE RunSamples
  <2>1. posted' \in Nat
    BY <1>9 DEF RunSamples, Post, IInv, Counts
  <2>2. /\ run = "Sensor" /\ run' = run /\ activations' = activations
        /\ thread' = "sampled"
    BY <1>9 DEF RunSamples
  <2>3. QED
    BY <2>1, <2>2 DEF IInv, Counts, Dispatched, OneEventPerActivation,
                      ActivationToAnswer, MayPost
<1>10. CASE RunSamplesAgain
  BY <1>10, QuietStep DEF RunSamplesAgain
<1>11. QED
  BY <1>1, <1>2, <1>3, <1>4, <1>5, <1>6, <1>7, <1>8, <1>9, <1>10 DEF ThreadStep

LEMMA IInvControlGoesOn ==
  ASSUME IInv, ControlGoesOn
  PROVE  IInv'
<1> USE DEF sensorVars, threadVars, fileVars, controlVars
<1>0. CASE OpenFiles
  BY <1>0, QuietStep DEF OpenFiles
<1>1. CASE ConstructOneShotSensor \/ ConstructSysfsPolling
  BY <1>1, QuietStep DEF ConstructOneShotSensor, ConstructSysfsPolling
<1>2. CASE ActivateInterrupts \/ SetOperationModeInterrupts
  BY <1>2, QuietStep
     DEF ActivateInterrupts, SetOperationModeInterrupts
<1>3. CASE InitializeDisables \/ InitializeStarts \/ InitializeResets
  BY <1>3, QuietStep
     DEF InitializeDisables, InitializeStarts, InitializeResets, SetMode
<1>4. CASE DestroyStops \/ DestroyJoins
  BY <1>4, QuietStep DEF DestroyStops, DestroyJoins
<1>5. QED
  BY <1>0, <1>1, <1>2, <1>3, <1>4 DEF ControlGoesOn

LEMMA IInvControlBegins ==
  ASSUME IInv, ControlBegins
  PROVE  IInv'
<1> USE DEF sensorVars, threadVars, fileVars, controlVars
<1>1. ASSUME NEW enable \in BOOLEAN, Activate(enable)
      PROVE  IInv'
  <2>1. posted' = posted /\ run' = run /\ thread' = thread
    BY <1>1 DEF Activate
  <2>2. CASE mIsEnabled # enable /\ enable
    <3>1. activations' = activations + 1
      BY <1>1, <2>2 DEF Activate
    <3>2. QED
      BY <2>1, <3>1 DEF IInv, Counts, Dispatched, OneEventPerActivation,
                        ActivationToAnswer, MayPost
  <2>3. CASE ~(mIsEnabled # enable /\ enable)
    <3>1. activations' = activations /\ (mIsEnabled' => mIsEnabled)
      BY <1>1, <2>3 DEF Activate
    <3>2. QED
      BY <2>1, <3>1, QuietStep
  <2>4. QED
    BY <2>2, <2>3
<1>2. ASSUME NEW mode \in {"NORMAL", "DATA_INJECTION"}, SetOperationMode(mode)
      PROVE  IInv'
  BY <1>2, QuietStep DEF SetOperationMode, SetMode
<1>3. CASE InitializeStops \/ DestroyInterrupts
  BY <1>3, QuietStep DEF InitializeStops, DestroyInterrupts
<1>4. QED
  BY <1>1, <1>2, <1>3 DEF ControlBegins

LEMMA IInvStep == IInv /\ [Next]_vars => IInv'
<1> SUFFICES ASSUME IInv, [Next]_vars
             PROVE  IInv'
  OBVIOUS
<1> USE DEF sensorVars, threadVars, fileVars, controlVars
<1>1. CASE ThreadStep \/ RunSpuriousWake \/ PollFails
  BY <1>1, IInvThread, ConstantsAssumption
<1>2. CASE ControlGoesOn
  BY <1>2, IInvControlGoesOn
<1>3. CASE ControlBegins
  BY <1>3, IInvControlBegins
<1>4. CASE TouchPanel
  BY <1>4, QuietStep DEF TouchPanel
<1>5. CASE UNCHANGED vars
  BY <1>5, QuietStep DEF vars
<1>6. QED
  BY <1>1, <1>2, <1>3, <1>4, <1>5 DEF Next

(* A sensor whose thread runs SysfsPollingOneShotSensor::run posts at most *)
(* one event for each time it was switched on, although it polls without   *)
(* the lock and tests nothing again afterwards.                            *)
THEOREM OneShot == Spec => []OneEventPerActivation
<1>1. Spec => []IInv
  BY IInvInit, IInvStep, PTL DEF Spec
<1>2. QED
  BY <1>1, PTL DEF IInv

-----------------------------------------------------------------------------
(* Types.  Only the thread takes bytes from the pipe, so that one reported *)
(* by poll is still there when it reads it.                                *)
Flags ==
  /\ mIsEnabled \in BOOLEAN
  /\ mStopThread \in BOOLEAN
  /\ notified \in BOOLEAN
  /\ tapReady \in BOOLEAN
  /\ pipeReady \in BOOLEAN
  /\ pipeOpen \in BOOLEAN
  /\ pressed \in BOOLEAN
  /\ attention \in BOOLEAN
  /\ mThreadsRun \in BOOLEAN

Places ==
  /\ mMode \in {"NORMAL", "DATA_INJECTION"}
  /\ run \in Runs
  /\ thread \in ThreadStates
  /\ control \in ControlStates

Numbers ==
  /\ pipe \in 0..PipeCapacity
  /\ calls \in 0..MaxCalls
  /\ activations \in Nat
  /\ posted \in Nat

ReportedByteThere == thread = "polled" /\ pipeReady => pipe > 0

TInv == Flags /\ Places /\ Numbers /\ ReportedByteThere

LEMMA FlagsStep == Flags /\ [Next]_vars => Flags'
<1> SUFFICES ASSUME Flags, [Next]_vars
             PROVE  Flags'
  OBVIOUS
<1> USE DEF Flags, sensorVars, threadVars, fileVars, controlVars, Notify
<1>1. CASE ThreadStep
  <2>0. CASE RunStart \/ RunExit
    BY <2>0, Zenon DEF RunStart, RunExit
  <2>1. CASE RunWait \/ RunWake \/ RunPoll
    BY <2>1, Zenon DEF RunWait, RunWake, RunPoll
  <2>2. CASE PollReturns
    <3>1. (pipe > 0) \in BOOLEAN
      BY SMT
    <3>2. QED
      BY <2>2, <3>1, Zenon DEF PollReturns
  <2>3. CASE RunGivesUp \/ RunPosts
    BY <2>3, Zenon DEF RunGivesUp, RunPosts
  <2>4. CASE RunInterrupted
    BY <2>4, Zenon DEF RunInterrupted
  <2>5. CASE RunSamples \/ RunSamplesAgain
    BY <2>5, Zenon DEF RunSamples, RunSamplesAgain
  <2>6. QED
    BY <1>1, <2>0, <2>1, <2>2, <2>3, <2>4, <2>5 DEF ThreadStep
<1>2. CASE RunSpuriousWake \/ PollFails
  BY <1>2, Zenon DEF RunSpuriousWake, PollFails
<1>3. CASE ControlGoesOn
  <2>1. CASE OpenFiles
    <3>1. mStopThread' \in {TRUE, mStopThread}
      BY <2>1 DEF OpenFiles
    <3>2. QED
      BY <2>1, <3>1, Zenon DEF OpenFiles
  <2>2. CASE ConstructOneShotSensor \/ ConstructSysfsPolling
    BY <2>2, Zenon DEF ConstructOneShotSensor, ConstructSysfsPolling
  <2>3. CASE ActivateInterrupts \/ SetOperationModeInterrupts
    BY <2>3, Zenon DEF ActivateInterrupts, SetOperationModeInterrupts
  <2>4. CASE InitializeDisables \/ InitializeStarts
    BY <2>4, Zenon DEF InitializeDisables, InitializeStarts
  <2>5. CASE InitializeResets
    BY <2>5, Zenon DEF InitializeResets, SetMode
  <2>6. CASE DestroyStops \/ DestroyJoins
    BY <2>6, Zenon DEF DestroyStops, DestroyJoins
  <2>7. QED
    BY <1>3, <2>1, <2>2, <2>3, <2>4, <2>5, <2>6 DEF ControlGoesOn
<1>4. CASE ControlBegins
  <2>1. ASSUME NEW enable \in BOOLEAN, Activate(enable)
        PROVE  Flags'
    BY <2>1, Zenon DEF Activate
  <2>2. ASSUME NEW m \in {"NORMAL", "DATA_INJECTION"}, SetOperationMode(m)
        PROVE  Flags'
    BY <2>2, Zenon DEF SetOperationMode, SetMode
  <2>3. CASE InitializeStops \/ DestroyInterrupts
    BY <2>3, Zenon DEF InitializeStops, DestroyInterrupts
  <2>4. QED
    BY <1>4, <2>1, <2>2, <2>3 DEF ControlBegins
<1>5. CASE UNCHANGED vars
  BY <1>5, Zenon DEF vars
<1>6. CASE TouchPanel
  BY <1>6, Zenon DEF TouchPanel
<1>7. QED
  BY <1>1, <1>2, <1>3, <1>4, <1>5, <1>6 DEF Next

LEMMA PlacesStep == Places /\ [Next]_vars => Places'
<1> SUFFICES ASSUME Places, [Next]_vars
             PROVE  Places'
  OBVIOUS
<1> USE DEF Places, Runs, ThreadStates, ControlStates, ControlGoto,
            sensorVars, threadVars, fileVars, controlVars
<1>1. CASE ThreadStep
  BY <1>1 DEF ThreadStep, RunStart, RunExit, RunWait, RunWake, RunPoll, PollReturns,
              RunGivesUp, RunPosts, RunInterrupted, RunSamples, RunSamplesAgain
<1>2. CASE RunSpuriousWake \/ PollFails \/ TouchPanel
  BY <1>2 DEF RunSpuriousWake, PollFails, TouchPanel
<1>3. CASE ControlGoesOn
  BY <1>3 DEF ControlGoesOn, ConstructOneShotSensor, ConstructSysfsPolling, OpenFiles,
              ActivateInterrupts, SetOperationModeInterrupts, InitializeDisables,
              InitializeStarts, InitializeResets, SetMode, DestroyStops, DestroyJoins
<1>4. CASE ControlBegins
  BY <1>4 DEF ControlBegins, Activate, SetOperationMode, SetMode, InitializeStops,
              DestroyInterrupts
<1>5. CASE UNCHANGED vars
  BY <1>5 DEF vars
<1>6. QED
  BY <1>1, <1>2, <1>3, <1>4, <1>5 DEF Next

LEMMA NumbersStep ==
  Numbers /\ ReportedByteThere /\ [Next]_vars => Numbers' /\ ReportedByteThere'
<1> SUFFICES ASSUME Numbers, ReportedByteThere, [Next]_vars
             PROVE  Numbers' /\ ReportedByteThere'
  OBVIOUS
<1> USE ConstantsAssumption DEF Numbers, ReportedByteThere,
        sensorVars, threadVars, fileVars, controlVars
<1>1. CASE ThreadStep
  <2>1. CASE RunStart \/ RunExit \/ RunWait \/ RunWake \/ RunPoll
    BY <2>1 DEF RunStart, RunExit, RunWait, RunWake, RunPoll
  <2>2. CASE PollReturns
    <3>1. /\ pipeReady' = (pipe > 0)
          /\ UNCHANGED <<pipe, calls, activations, posted>>
      BY <2>2 DEF PollReturns
    <3>2. Numbers'
      BY <3>1
    <3>3. pipeReady' => pipe' > 0
      BY <3>1
    <3>4. QED
      BY <3>2, <3>3
  <2>3. CASE RunPosts \/ RunSamples
    BY <2>3 DEF RunPosts, RunSamples, Post
  <2>4. CASE RunInterrupted
    <3>1. thread = "polled" /\ thread' = "loop"
      BY <2>4 DEF RunInterrupted
    <3>2. pipe' = pipe \/ (pipe > 0 /\ pipe' = pipe - 1)
      BY <2>4 DEF RunInterrupted
    <3>3. UNCHANGED <<calls, activations, posted>>
      BY <2>4 DEF RunInterrupted
    <3>4. QED
      BY <3>1, <3>2, <3>3
  <2>5. CASE RunGivesUp \/ RunSamplesAgain
    BY <2>5 DEF RunGivesUp, RunSamplesAgain
  <2>6. QED
    BY <1>1, <2>1, <2>2, <2>3, <2>4, <2>5 DEF ThreadStep
<1>2. CASE RunSpuriousWake \/ PollFails \/ TouchPanel
  BY <1>2 DEF RunSpuriousWake, PollFails, TouchPanel
<1>3. CASE ControlGoesOn
  <2>1. CASE ActivateInterrupts \/ SetOperationModeInterrupts
    BY <2>1 DEF ActivateInterrupts, SetOperationModeInterrupts, InterruptPoll
  <2>2. CASE InitializeResets
    BY <2>2 DEF InitializeResets, SetMode
  <2>3. CASE ConstructOneShotSensor \/ ConstructSysfsPolling \/ OpenFiles
    <3>1. UNCHANGED <<thread, pipeReady, pipe, calls, activations, posted>>
      BY <2>3, Zenon DEF ConstructOneShotSensor, ConstructSysfsPolling, OpenFiles
    <3>2. QED
      BY <3>1
  <2>4. CASE InitializeDisables \/ InitializeStarts \/ DestroyStops \/ DestroyJoins
    BY <2>4 DEF InitializeDisables, InitializeStarts, DestroyStops, DestroyJoins
  <2>5. QED
    BY <1>3, <2>1, <2>2, <2>3, <2>4 DEF ControlGoesOn
<1>4. CASE ControlBegins
  <2>1. ASSUME NEW enable \in BOOLEAN, Activate(enable)
        PROVE  Numbers' /\ ReportedByteThere'
    BY <2>1 DEF Activate, Call
  <2>2. ASSUME NEW m \in {"NORMAL", "DATA_INJECTION"}, SetOperationMode(m)
        PROVE  Numbers' /\ ReportedByteThere'
    BY <2>2 DEF SetOperationMode, SetMode, Call
  <2>3. CASE InitializeStops \/ DestroyInterrupts
    BY <2>3 DEF InitializeStops, DestroyInterrupts, Call, InterruptPoll
  <2>4. QED
    BY <1>4, <2>1, <2>2, <2>3 DEF ControlBegins
<1>5. CASE UNCHANGED vars
  BY <1>5 DEF vars
<1>6. QED
  BY <1>1, <1>2, <1>3, <1>4, <1>5 DEF Next

LEMMA TInvCorrect == Spec => []TInv
<1>1. Init => TInv
  <2> SUFFICES ASSUME Init PROVE TInv
    OBVIOUS
  <2>1. Flags
    BY Zenon DEF Init, Flags
  <2>2. Places /\ Numbers /\ ReportedByteThere
    BY ConstantsAssumption DEF Init, Places, Numbers, ReportedByteThere, Runs,
                               ThreadStates, ControlStates
  <2>3. QED
    BY <2>1, <2>2 DEF TInv
<1>2. TInv /\ [Next]_vars => TInv'
  BY FlagsStep, PlacesStep, NumbersStep DEF TInv
<1>3. QED
  BY <1>1, <1>2, PTL DEF Spec

(* All variables keep their types.  That pipe does is the point: the byte  *)
(* that ends a poll is read once, writers block when the pipe is full, and *)
(* the thread never blocks reading an empty pipe while it has the mutex.   *)
THEOREM TypeCorrect == Spec => []TypeOK
<1>1. TInv => TypeOK
  BY Zenon DEF TInv, Flags, Places, Numbers, TypeOK
<1>2. QED
  BY <1>1, TInvCorrect, PTL

-----------------------------------------------------------------------------
(* The hand-over between the binder thread and the thread of the sensor.   *)
(*                                                                         *)
(* A poll has no timeout, and a wait is only tested again when notified.   *)
(* So whoever makes the condition of the thread's loop change while it is  *)
(* in the poll or in the wait must leave a byte or a notification behind,  *)
(* or still be in the call that will.                                      *)
Constructors == {"Sensor", "OneShotSensor", "SysfsPollingOneShotSensor"}

Interrupting == {"activate", "initActivate", "setOperationMode"}

PollInterrupted ==
  thread = "polling" /\ ~Active => pipe > 0 \/ control \in Interrupting \cup {"join"}

WaitNotified ==
  thread = "waiting" /\ (Active \/ control = "join") => notified \/ control = "activate"

(* No sensor is enabled before its constructor is over, and then a thread  *)
(* without a pipe has been told to stop, so that a poll is one of a sensor *)
(* with a pipe to write to.                                                *)
Opened ==
  /\ control \in Constructors => ~mIsEnabled /\ thread # "polling"
  /\ control \notin Constructors => pipeOpen \/ mStopThread
  /\ thread = "polling" => pipeOpen
  /\ control = "join" => mStopThread

HandOver == Opened /\ PollInterrupted /\ WaitNotified

(* Steps that change none of what HandOver is about but, perhaps, take the *)
(* thread out of its poll and its wait, or add a notification.             *)
LEMMA KeepsHandOver ==
  ASSUME HandOver,
         mIsEnabled' = mIsEnabled, mMode' = mMode, mStopThread' = mStopThread,
         pipe' = pipe, pipeOpen' = pipeOpen, control' = control,
         thread' \notin {"polling", "waiting"} \/ UNCHANGED <<thread, notified>>
  PROVE  HandOver'
BY DEF HandOver, Opened, PollInterrupted, WaitNotified, Active

LEMMA HandOverInit == Init => HandOver
BY DEF Init, HandOver, Opened, PollInterrupted, WaitNotified, Active, Constructors

LEMMA HandOverThread ==
  ASSUME TInv, HandOver, ThreadStep \/ RunSpuriousWake \/ PollFails
  PROVE  HandOver'
<1> USE DEF sensorVars, threadVars, fileVars, controlVars
<1>1. CASE RunStart \/ RunExit \/ PollReturns \/ PollFails \/ RunSpuriousWake
  BY <1>1, KeepsHandOver DEF RunStart, RunExit, PollReturns, PollFails, RunSpuriousWake
<1>2. CASE RunWait
  <2>1. control # "join"
    BY <1>2 DEF RunWait, HandOver, Opened
  <2>2. QED
    BY <1>2, <2>1 DEF RunWait, HandOver, Opened, PollInterrupted, WaitNotified, Active
<1>3. CASE RunWake
  <2>1. CASE Active \/ mStopThread
    <3>1. thread' = "loop"
      BY <1>3, <2>1, Zenon DEF RunWake
    <3>2. QED
      BY <1>3, <3>1, KeepsHandOver DEF RunWake
  <2>2. CASE ~Active /\ ~mStopThread
    BY <1>3, <2>2 DEF RunWake, HandOver, Opened, PollInterrupted, WaitNotified, Active
  <2>3. QED
    BY <2>1, <2>2
<1>4. CASE RunPoll
  <2>1. ~mStopThread /\ Active /\ thread' = "polling"
    BY <1>4 DEF RunPoll
  <2>2. control \notin Constructors /\ pipeOpen
    BY <2>1 DEF HandOver, Opened, Active
  <2>3. QED
    BY <1>4, <2>1, <2>2
       DEF RunPoll, HandOver, Opened, PollInterrupted, WaitNotified, Active
<1>5. CASE RunGivesUp \/ RunPosts \/ RunInterrupted
  BY <1>5 DEF RunGivesUp, RunPosts, RunInterrupted, HandOver, Opened, PollInterrupted,
              WaitNotified, Active
<1>6. CASE RunSamples \/ RunSamplesAgain
  BY <1>6, KeepsHandOver DEF RunSamples, RunSamplesAgain
<1>7. QED
  BY <1>1, <1>2, <1>3, <1>4, <1>5, <1>6 DEF ThreadStep

(* interruptPoll leaves a byte behind for a thread in its poll.            *)
LEMMA InterruptLeavesByte ==
  ASSUME TInv, InterruptPoll
  PROVE  pipe' >= pipe /\ (pipeOpen => pipe' > 0)
BY ConstantsAssumption DEF InterruptPoll, TInv, Numbers

(* Notify leaves a notification behind for a thread in its wait.           *)
LEMMA NotifyReaches ==
  ASSUME Notify
  PROVE  (thread = "waiting" => notified') /\ (notified => notified')
BY Zenon DEF Notify

LEMMA HandOverGoesOn ==
  ASSUME TInv, HandOver, ControlGoesOn
  PROVE  HandOver'
<1> USE DEF sensorVars, threadVars, fileVars, controlVars, ControlGoto
<1>0. notified \in BOOLEAN /\ pipe \in Nat
  BY ConstantsAssumption DEF TInv, Flags, Numbers
<1>1. CASE ConstructOneShotSensor \/ ConstructSysfsPolling
  BY <1>1 DEF ConstructOneShotSensor, ConstructSysfsPolling, HandOver, Opened,
              PollInterrupted, WaitNotified, Active, Constructors, Interrupting
<1>2. CASE ActivateInterrupts
  <2>1. InterruptPoll /\ Notify
    BY <1>2 DEF ActivateInterrupts
  <2>2. thread = "polling" => pipe' > 0
    BY <2>1, InterruptLeavesByte DEF HandOver, Opened
  <2>3. thread = "waiting" => notified'
    BY <2>1, NotifyReaches
  <2>4. /\ UNCHANGED <<mIsEnabled, mMode, mStopThread, thread, pipeOpen>>
        /\ control \in {"activate", "initActivate"} /\ control' \in {"idle", "initStart"}
    BY <1>2 DEF ActivateInterrupts
  <2>5. QED
    BY <2>2, <2>3, <2>4 DEF HandOver, Opened, PollInterrupted, WaitNotified, Constructors
<1>3. CASE SetOperationModeInterrupts
  <2>1. InterruptPoll
    BY <1>3 DEF SetOperationModeInterrupts
  <2>2. thread = "polling" => pipe' > 0
    BY <2>1, InterruptLeavesByte DEF HandOver, Opened
  <2>3. QED
    BY <1>3, <2>2 DEF SetOperationModeInterrupts, HandOver, Opened, PollInterrupted,
                      WaitNotified, Active, Constructors
<1>4. CASE InitializeDisables \/ InitializeStarts
  BY <1>4 DEF InitializeDisables, InitializeStarts, HandOver, Opened, PollInterrupted,
              WaitNotified, Active, Constructors, Interrupting
<1>5. CASE InitializeResets
  <2>1. mMode' # mMode /\ thread = "waiting" => notified'
    BY <1>5, NotifyReaches DEF InitializeResets, SetMode
  <2>2. notified => notified'
    BY <1>5, NotifyReaches DEF InitializeResets, SetMode
  <2>3. /\ UNCHANGED <<mIsEnabled, mStopThread, thread, pipe, pipeOpen>>
        /\ mMode' = "NORMAL"
        /\ control = "initReset" /\ control' = "initMode"
    BY <1>5 DEF InitializeResets, SetMode
  <2>4. QED
    BY <2>1, <2>2, <2>3 DEF HandOver, Opened, PollInterrupted, WaitNotified, Active,
                            Constructors, Interrupting
<1>6. CASE DestroyStops
  <2>1. thread = "waiting" => notified'
    BY <1>6, NotifyReaches DEF DestroyStops
  <2>2. /\ UNCHANGED <<thread, pipe, pipeOpen>>
        /\ mStopThread' /\ ~mIsEnabled'
        /\ control = "destroy" /\ control' = "join"
    BY <1>6 DEF DestroyStops
  <2>3. QED
    BY <2>1, <2>2 DEF HandOver, Opened, PollInterrupted, WaitNotified, Constructors
<1>7. CASE DestroyJoins
  BY <1>7 DEF DestroyJoins, HandOver, Opened, PollInterrupted, WaitNotified, Constructors
<1>8. CASE OpenFiles
  <2>1. /\ UNCHANGED <<mIsEnabled, mMode, thread, notified, pipe>>
        /\ control = "SysfsPollingOneShotSensor" /\ control' = "idle"
    BY <1>8, Zenon DEF OpenFiles
  <2>2. pipeOpen' \/ mStopThread'
    BY <1>8, Zenon DEF OpenFiles
  <2>3. ~mIsEnabled /\ thread # "polling"
    BY <2>1 DEF HandOver, Opened, Constructors
  <2>4. QED
    BY <2>1, <2>2, <2>3 DEF HandOver, Opened, PollInterrupted, WaitNotified, Active,
                            Constructors
<1>9. QED
  BY <1>1, <1>2, <1>3, <1>4, <1>5, <1>6, <1>7, <1>8 DEF ControlGoesOn

LEMMA HandOverBegins ==
  ASSUME TInv, HandOver, ControlBegins
  PROVE  HandOver'
<1> USE DEF sensorVars, threadVars, fileVars, controlVars, ControlGoto
<1>1. ASSUME NEW enable \in BOOLEAN, Activate(enable)
      PROVE  HandOver'
  <2>1. CASE mIsEnabled # enable
    BY <1>1, <2>1 DEF Activate, HandOver, Opened, PollInterrupted, WaitNotified,
                      Constructors, Interrupting
  <2>2. CASE mIsEnabled = enable
    BY <1>1, <2>2, KeepsHandOver DEF Activate
  <2>3. QED
    BY <2>1, <2>2
<1>2. ASSUME NEW m \in {"NORMAL", "DATA_INJECTION"}, SetOperationMode(m)
      PROVE  HandOver'
  <2>1. mMode' # mMode /\ thread = "waiting" => notified'
    BY <1>2, NotifyReaches DEF SetOperationMode, SetMode
  <2>2. notified => notified'
    BY <1>2, NotifyReaches DEF SetOperationMode, SetMode
  <2>3. /\ UNCHANGED <<mIsEnabled, mStopThread, thread, pipe, pipeOpen>>
        /\ control = "idle" /\ control' = "setOperationMode"
    BY <1>2 DEF SetOperationMode, SetMode
  <2>4. QED
    BY <2>1, <2>2, <2>3 DEF HandOver, Opened, PollInterrupted, WaitNotified, Active,
                            Constructors, Interrupting
<1>3. CASE InitializeStops
  BY <1>3 DEF InitializeStops, HandOver, Opened, PollInterrupted, WaitNotified, Active,
              Constructors, Interrupting
<1>4. CASE DestroyInterrupts
  <2>1. InterruptPoll
    BY <1>4 DEF DestroyInterrupts
  <2>2. thread = "polling" => pipe' > 0
    BY <2>1, InterruptLeavesByte DEF HandOver, Opened
  <2>3. QED
    BY <1>4, <2>2 DEF DestroyInterrupts, HandOver, Opened, PollInterrupted, WaitNotified,
                      Active, Constructors, Interrupting
<1>5. QED
  BY <1>1, <1>2, <1>3, <1>4 DEF ControlBegins

LEMMA HandOverStep == TInv /\ HandOver /\ [Next]_vars => HandOver'
<1> SUFFICES ASSUME TInv, HandOver, [Next]_vars
             PROVE  HandOver'
  OBVIOUS
<1>1. CASE TouchPanel \/ UNCHANGED vars
  BY <1>1, KeepsHandOver
     DEF TouchPanel, vars, sensorVars, threadVars, fileVars, controlVars
<1>2. QED
  BY <1>1, HandOverThread, HandOverGoesOn, HandOverBegins DEF Next

(* The thread is never left in its poll, which has no timeout, or in its   *)
(* wait, after the sensor was switched off or on or its mode was changed:  *)
(* a byte or a notification is there, or the call is about to leave it.    *)
(* The exception is the destructor of an enabled sensor, which interrupts  *)
(* the poll before it disables the sensor (Destroyed).                     *)
THEOREM HandOverCorrect == Spec => [](PollInterrupted /\ WaitNotified)
<1>1. Spec => []HandOver
  BY TInvCorrect, HandOverInit, HandOverStep, PTL DEF Spec
<1>2. QED
  BY <1>1, PTL DEF HandOver
=============================================================================
