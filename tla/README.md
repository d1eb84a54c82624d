# Formal models of the OnePlus 9 device tree

This directory holds TLA+ specifications of the code of this repository, the
TLC runs that check them on small instances, and TLAPS proofs of the results
that hold for all instances. `PROJECT.json` lists components, runs, theorems,
the source lines each definition translates (`map`), the places where the code
is hard to test (`hazards`), and for every property a mutation of the code that
breaks it (`mutants`).

## 1. The system

Most of the repository is configuration: overlays, permissions, makefiles. The
program logic is in `sensors/`, a Sensors HAL that multiplexes several *sub-HALs*
into one service, with one sub-HAL of its own for the tap sensors of the touch
panel. Outside it there are a power extension, a property initializer, init
scripts and blob maintenance scripts.

| Part | State | Operations | Talks to |
|---|---|---|---|
| `HalProxy` wakelock | `mWakelockRefCount`, start and reset times, the kernel wakelock | increment, decrement, reset, `handleWakelocks` thread | wake lock FMQ (framework), `ScopedWakelock` of every post, pending-writes thread |
| `HalProxy` event path | event FMQ, `mPendingWriteEventsQueue` and its size | `postEventsToMessageQueue`, `handlePendingWrites` thread | sub-HAL threads, framework, wakelock |
| `HalProxy` control | `mThreadsRun`, queues, flags, threads | `initializeCommon`, `stopThreads`, `disableAllSensors` | all of the above, one binder thread |
| Sensor list | `mSensors`, `mSubHalList`, `mDirectChannelSubHal` | constructors, `initializeSensorList`, dispatch of `activate`, `batch`, `flush`, `configDirectReport` | sub-HALs |
| Operation mode | `mCurrentOperationMode`, the mode of each sub-HAL | `setOperationMode` with rollback, reset by `initializeCommon` | sub-HALs |
| Dynamic sensors | `mDynamicSensors`, the framework's callback | `onDynamicSensorsConnected`, `...Disconnected` | sub-HAL threads, framework |
| `HalProxyCallback` | index of a sub-HAL | `postEvents`, `processEvents`, `createScopedWakelock` | sub-HAL, event path |
| `SensorsSubHal` | map of sensors, mode, callback | forwards every call to a sensor | `HalProxy`, sensors |
| `Sensor` and subclasses | `mIsEnabled`, `mMode`, `mStopThread`, one thread, `mRunMutex`, `mWaitCV`, a self-pipe | `activate`, `setOperationMode`, `run`, constructor, destructor | procfs node of the touch panel |
| Power feature | procfs gesture mask | `setDeviceSpecificFeature`, without a lock | kernel |
| Property initializer | read-only system properties | `vendor_load_properties` | init, bootloader |
| Touch polling triggers | two properties, one of them persistent, and the driver's switch | `on property` triggers of `init.oplus.touch.rc` | init, framework, kernel |
| Other init scripts, blob scripts | device nodes, file lists | one-time writes, line rewriting | init, build host |

`HalProxy.h`, the message queues (FMQ), `EventFlag`, `ScopedWakelock` and the
other sub-HALs are in other repositories: they are modelled by what the code here
does with them, and marked external in `map`.

What makes the code hard is in `HalProxy` and `Sensor`. Two mutexes and two
condition variables are used by three kinds of threads; both worker threads give
up their mutex to block in a queue and come back to state that has moved; counts
of wake-up events are added in one place and given back in four; `initialize` can
be called again at any time and tears down what all others use, partly without
the mutexes; `notify_one` is called with and without the mutex; a sensor thread
is started by a base-class constructor, blocks in a `poll` without a timeout and
is woken through a pipe; a sampling thread schedules itself by a clock that can be
set, by a period that changes without its mutex. Outside `sensors/`, the gesture
mask is read and written back without a lock and in two bases, and the touch mode
goes through a chain of property changes that init handles later than they happen.

What makes each part correct:

- wakelock: held while something is counted, given up in the end, no increment
  slept through or thrown away;
- event path: order kept, nothing twice, nothing of an old session, the queue
  drains, its size is right, the counts of events on their way are kept;
- control: `initialize` ends, and the threads come back;
- sensor list: a call reaches the sub-HAL that listed the sensor;
- wakelock and event path together: awake for every wake-up event until it is
  acknowledged, and not a moment longer;
- operation mode: all sub-HALs agree with the proxy, and data is injected exactly
  in the mode the proxy announced;
- sampled sensors: no more often than asked, no slower than the current period
  demands, again and again;
- dynamic sensors: the framework knows what the proxy knows;
- tap sensors: one event per activation, touches reported, calls return,
  destruction ends;
- device: gestures are as asked, identity properties belong together, the driver
  gets the last touch mode.

## 2. The modules

How they depend on each other: `HalProxy` extends `EventQueue`, `SubHal` extends
`OperationMode` and `Sensor`, `Device` extends `PowerFeature`, `InitProperties` and
`TouchScript`. `EventQueue` is shown to implement `EventStream`, `SubHal` to
implement `OperationMode`.

### SharedWakelock

Variables are the fields, the program counter of the wakelock thread, of each
posting client and of the control thread, and the wake lock FMQ. `Increment`,
`Decrement` and `ResetSharedWakelock` are the three functions of the code after
their test of `mThreadsRun`; the test is a step of its own where the code makes
it outside the mutex (`CreateScoped`, `PostEvents`, `DestroyScoped`), since the
threads may be stopped in between. Critical sections are single steps, except
those of the thread, which holds the mutex from `loop` to its wait or its read.
`presleep` is the gap between a false wait predicate and the sleep: the mutex is
held there, but `stopThreads` notifies without it.

Time is relative: the age of the last increment (saturating just above the
timeout), the rest of a blocking read, and for every `ScopedWakelock` whether it
was made at this instant, earlier, or before the last reset. That is all the code
compares. A read with a time left of 0 is a read without a timeout, as in the FMQ.

### EventQueue and EventStream

`EventQueue` has the event FMQ, the pending queue with its size variable, the
pending-writes thread, sensor threads in `SensorsSubHal::postEvents`, and the
control thread through `stopThreads` and `initializeCommon`. Events are numbered.
The wakelock is reduced to `balance`, the count that the events of the session
account for, so that the ledger of wake-up events can be checked without time.
`NoStaleEvents` and its neighbours use history variables (`sessionStart`,
`lastRead`, `overflowed`, `split`, `uncounted`).

`EventStream` is the abstract specification: a set of numbered events of which
the oldest is read, and any run may be lost. `EventQueue` implements it under the
mapping to the numbers of the events in both queues (`StreamSpec`), which leaves
out those of the pending queue that the thread has just written and not yet taken
out.

### HalProxy

`EventQueue` joined with `mWakelockRefCount`: every step that changes `balance`
changes the count, and so do the `ScopedWakelock` around a post, acknowledgements
and the timeout. The wakelock thread is reduced to what it does to the count, with
a timeout at any time; when it may time out, and that the kernel wakelock follows
the count, is `SharedWakelock`'s subject. `Owed` is what the count stands for:
wake-up events on their way, read and unacknowledged, acknowledged but not taken
(two numbers: the framework acknowledges as many events as it likes at once, and
the thread takes the acknowledgements in any portions), and posts in progress. `timedOut`, `split`, `uncounted`, `overflowed` and
`leftover` are history variables that name the exceptions.

### OneShotSensor

One `SysfsPollingOneShotSensor`, with its thread, the binder thread and the touch
panel. Construction is modelled step by step because the thread is started by
the first constructor: `RunStart` dispatches `run()` by how much has been
constructed, so that it may be that of `Sensor`. `mStopThread` starts with either
value, since nothing initializes it. The pipe has a capacity and its writer
blocks. `initialize` is modelled as this sensor sees it: threads stopped, sensor
disabled, threads started, mode reset.

### SensorList

The constructor of `HalProxy`: sub-HALs are loaded, their sensors listed, flags
of direct channels cleared. Handles are integers of two parts with a sign,
converted as the code converts them. `Dispatch` and `ConfigDirectReport` are what
calls for a handle do with the finished list; the latter takes the handle -1 for
all sensors, which it only stops. A sensor can be listed under -1 itself: the last
handle of the last index of a byte.

### OperationMode, Sensor and SubHal

`OperationMode` is `setOperationMode` and `initializeCommon` over all sub-HALs, one
sub-HAL per step, each of which may refuse. `astray` remembers who refused the last
attempt to roll it back or to initialize it.

`Sensor` is the base class: `run()` split where it sleeps, tests, reads the clock,
posts and computes its wait, and the calls, of which `batch` does not take
`mRunMutex`. Time is relative to the last sample: `age` by the clock that can be
set, `gap` by the steady one, `left` for the wait. An `int64_t` period becomes an
`int32_t` of `2 * Half` values before it is clamped. `wanted`, `leastWanted`,
`irregular` and `overtaken` are history variables of the properties.

`SubHal` composes both: one sub-HAL is `SensorsSubHal`, which passes the mode to
its sensor and never refuses; the others are external. `InjectSensorData` is the
chain of tests from `HalProxy` to the sensor.

### DynamicSensors

Threads of sub-HALs in the two callbacks, with the loop under the mutex taken
sensor by sensor, because `initializeCommon` clears the map without the mutex.
The data race of that clear with an insertion is taken to fall before or after
it. `view` is what the framework was told through the current callback.
`straddled` remembers connections that overlapped the clear or the swap.

### Device: PowerFeature, InitProperties and TouchScript

`PowerFeature` has one record per binder thread between its read and its write of
the mask, which is the set of its bits. `Text` and `Number` are the conversions of
the code: a number written in one base and parsed in another, up to the first digit
that is none there. `Reread` takes bits through both, except that it leaves them
alone if the bases are the same: `SameBaseKeeps` in `MCDevice` has TLC compute that
a number then comes back as it was, for the masks of the instance and more.
`InitProperties` is the two switches of `vendor_load_properties`. `TouchScript` has
the queue of property changes of init, and the triggers that take them. `Device`
puts them behind a boot and reboots, which leave the persistent property alone.

### Modules for TLC and proofs

`MCSharedWakelock`, `MCEventQueue`, `MCHalProxy`, `MCSensorList`, `MCDynamicSensors`
and `MCDevice` define the instances; `OneShotSensor` and `SubHal` are instantiated
in their configurations. The `*Proofs` modules hold the theorems, one for each of
`SharedWakelock`, `EventQueue`, `HalProxy`, `OneShotSensor`, `SensorList`,
`SubHal` (with `OperationMode` and `Sensor`), `DynamicSensors` and `Device`.

## 3. The runs

| Run | Question | Bounds and why they suffice |
|---|---|---|
| `SharedWakelock_safety` | Is the lock held while counted, and only left behind by a post that adds nothing? Can the thread sleep through an increment, or a reset throw a fresh one away? | two clients and two posts, so that one can post across a timeout, a restart or the other's give-back; acknowledgements of 1 and 2, so that they exceed the count; timeout of 1 tick gives all three orders of age and timeout; one restart |
| `SharedWakelock_live` | Is an unacknowledged lock given up, does stopping end? | one client (no symmetry in a liveness check), two restarts, so that a restart follows a restart |
| `EventQueue_safety` | Size, wake-ups, stale events, ledger, and the refinement of `EventStream` | posts of none to three events over an FMQ of two and a pending queue of four: direct, partial, queued, chunked, overflowing; five events in all, one restart |
| `HalProxy_pass` | Is the count what is owed, neither less nor more? Does the pending queue drain, does `initialize` end? | one sensor (no symmetry in a liveness check); posts of one and three events over an FMQ of two and a pending queue of two: direct, partial, overflowing; four events, one restart |
| `EventQueue_unlocked` | The assertion of `HalProxyCallbackBase::postEvents` of wake-up events; violated | smallest instance |
| `OneShotSensor_pass` | One event per activation; touches reported, poll interrupted, calls return, disabled sensor destroyed | five calls and a pipe of three bytes: it fills up; five posts (only the wrong `run()` posts without bound) |
| `OneShotSensor_destroy`, `OneShotSensor_reset` | The comments of `~Sensor` and `initializeCommon`; both are violated | two calls |
| `SensorList_dispatch` | Dispatch, direct channels, replaced entries | two handles per sub-HAL and four index values, two of them with the sign bit, the last of which gives a sensor the handle -1; five sub-HALs, so that one wraps |
| `SubHal_pass` | Agreement of modes after any calls, injection, the schedule of a sampled sensor | two sub-HALs, so that the other may refuse before or after the own one; two calls of the mode, any number of `activate` and `batch`; delays of 1 to 2 and 3-bit periods, of which 7 wraps to a negative one; the clock is set once, back or forth |
| `DynamicSensors_safety` | View of the framework, sensors left enabled | two threads of two sensors, one malformed; nothing is bounded |
| `Device_pass` | Gestures, identity, touch mode | two callers, so that one reads before the other writes; two gestures, whose bits give masks that read the same in both bases and masks that do not, and an unsupported feature; three calls and two mode changes before and after one reboot; four pairs of versions, known, mixed and unset |

The type invariant of `EventQueue` is a part of `ProxyTypeOK`; that of
`OneShotSensor` is proved and not run. The mode invariants of `OperationMode` are
checked in `SubHal_pass`, whose other sub-HAL refuses as any may, and proved for
every number of them.

Deadlock is checked except where the system may stop: when the events, calls or
restarts of an instance are used up, when a sensor is destroyed, or when the list is
complete.

### Disagreements found

- `WakeupPostsLocked` (`EventQueue_unlocked`): a `ScopedWakelock` made while the
  threads are stopped is unlocked; the post that follows, after they were
  started, brings wake-up events and fails the assertion at
  `HalProxyCallback.cpp:47`.
- `Destroyed` (`OneShotSensor_destroy`): `~SysfsPollingOneShotSensor` interrupts
  the poll before `~Sensor` sets `mStopThread`; an enabled sensor polls again.
- `NoEventsBeforeReset` (`OneShotSensor_reset`): a thread that left `poll` before
  its sensor was disabled posts after the threads were started again.

The assertion at `HalProxyCallback.cpp:52`, that a locked wakelock comes with wake-up
events, does not hold either: `processEvents` drops events after the wakelock was
taken for them. What follows from it, an increment by 0 that acquires the kernel
wakelock for nothing, is the exception in `HeldOnlyWhenCounted`.

Some properties hold only with an exception that is written into them and
explained there: a notification of `stopThreads` that falls into the gap of
a thread (`StopCompletes`, `InitializeCompletes`), a read with a time left of 0
(`Released`), split posts and overflows (`BalanceKept`, `AwakeForEvents`,
`AsleepInTheEnd`), acknowledgements that come after a timeout (`AwakeForEvents`), a
count that survives a restart (`AsleepInTheEnd`), truncated periods and a clock
that is set (`NotTooOften`), a `batch` while the thread is about to sleep
(`SleepsNoLonger`), a mask that was not read or is stale when it is written, and
drivers of other bases (`GesturesAsAsked`), connections that
overlap `initialize` (`ViewAgrees`, `NoneLeftEnabled`), a full pipe
(`CallsReturn`, `TouchReported`), a poll that failed (`TouchReported`), a thread that
was dispatched to `Sensor::run` (`OneEventPerActivation`, `TouchReported`), a sensor
listed under the handle of all sensors (`DirectReportToOwner`). These are the places where the code falls short
of the plain statement: the property rules the faulty step out instead of catching
it, and says that nothing else goes wrong.

### Fairness

Weak fairness of every thread's own steps: the scheduler runs them. Time
passes, and a blocking write or read ends at its timeout. The framework and
the callers owe nothing, and no spurious wake-up is relied on. A sensor that has
begun a post goes on to its `~ScopedWakelock`. Strong fairness stands for a mutex
that another thread takes and releases again and again: `DisableSensors` in
`HalProxy` and the binder thread in `OneShotSensor`; and in `SubHal` for time that
passes although the thread keeps waking up.

## 4. The proofs

| Theorem | For every | Argument |
|---|---|---|
| `SharedWakelockProofs!TypeCorrect` | clients, deltas, timeout, bounds | one lemma per group of actions, over `IncrementFacts`, `DecrementFacts` and `ResetFacts` |
| `...!HeldCorrect`, `NoLostWake`, `ResetCorrect` | same | `Safe`, the conjunction of the three with what is true of the thread in `presleep` and `resetting`: the mutex keeps increments out. `NoLostIncrementWake` alone is not inductive, since the thread could fall asleep over a positive count |
| `...!HeldOnlyCorrect` | same | a step argument: every give-back ends with the count and lock unchanged or with `held' = (count' > 0)` |
| `...!ReaderWokenCorrect`, `JoinableCorrect` | same | `StopInv`: `mThreadsRun` follows the steps of `stopThreads`, so that a thread told to stop neither sleeps nor reads again, and a full queue is as good as the 0 written into it |
| `EventQueueProofs!TypeCorrect`, `SizeMatchesCorrect`, `NoStaleEventsCorrect` | sensor threads, posts, sizes of the queues, restarts | `QueueInv`: `TypeOK`, `ControlInv`, `OrderInv` and `SizeMatches`; see below |
| `...!BalanceKeptCorrect` | same | `WakeupInv` on top of it: the count kept with a pending post is that of its events, or more after a split. A write gives back as much as it takes off the way |
| `...!StreamSpecCorrect`, `ReadInOrder` | same | every step maps to a post, a read or a loss of a run of `EventStream`, or to no step; `InOrder` follows from `OrderInv` |
| `...!NoLostPendingWakeCorrect` | same | `WakeInv`: `NoLostPendingWake` is inductive only with `PresleepEmpty`, the queue stays empty between the wait predicate and the sleep, which the mutex ensures |
| `...!JoinableCorrect` | same | from `ControlInv`: a thread told to stop does not go to sleep again, and posts only add notifications |
| `HalProxyProofs!ProxyIsEventQueue` | same, any finite set of sensors | every step of the composition is one of `EventQueue` or leaves its variables alone: its invariants carry over |
| `...!ProxyTypeCorrect`, `AwakeForEventsCorrect`, `AsleepInTheEndCorrect` | same | `ProxyInv`: `QueueInv`, `WakeupInv`, the types of the new variables, and `NoneScoped`. Step by step, the count moves with what is owed |
| `OneShotSensorProofs!OneShot` | capacity and bounds | posts lag behind activations by one exactly while the sensor is enabled and was not disabled since |
| `OneShotSensorProofs!TypeCorrect` | same | with `ReportedByteThere`: only the thread takes bytes from the pipe, so that one that poll reported is there when it is read |
| `...!HandOverCorrect` | same | `HandOver`: with `Opened`, a thread polls only after the constructor, with a pipe to write to; then each call that changes what `run()` waits for leaves a byte and a notification, or is still about to |
| `SensorListProofs!TypeCorrect`, `DispatchCorrect`, `DirectReportCorrect`, `NoneReplacedCorrect` | widths of handle and index, any lists | `Arithmetic`: division and remainder invert the shift; `SetInjective`; `AllSensorsHasSign`, that only an index with the sign bit gives -1; entries are those of their sub-HAL and direct only for the chosen one |
| `SubHalProofs!TypeCorrect`, `ModesCorrect`, `OkCorrect` | number of sub-HALs and calls | loop invariants: sub-HALs below the loop variable have the new mode, the others the old |
| `DynamicSensorsProofs!TypeCorrect`, `ViewCorrect`, `EnabledCorrect` | threads, handles, malformed handles | per sensor: map and view differ only by what a call is about to tell; after the disable step nothing samples except straddled connections |
| `...!ImplementsOperationMode` | sub-HALs, delays, periods | every step of the composition is a step of `OperationMode` or leaves its variables alone: its invariants carry over |
| `...!SubHalTypeCorrect`, `InjectionCorrect`, `SleepsNoLongerCorrect` | same | `SInv`: `SensorInv` of the sensor by itself, with `OwnMode`, the sensor is in the mode that the proxy has recorded for its sub-HAL, which is never astray. `SleepsNoLonger` needs what `run()` has computed before it sleeps (`WaitFits`) |
| `...!NoStrayCorrect`, `NotTooOftenCorrect` | same | step arguments from the same invariant: the thread that posts found the sensor active under the mutex it still has (`SamplesActive`), and the last sample old enough (`Regular`, `WaitComputed`) |
| `DeviceProofs!GesturesCorrect` | callers, gestures, reboots, bounds | `PowerInv`: with the types, `ReadInv`, what a caller has read and nobody has changed since is the mask. Two gestures never share a bit (`PowerAssumption`), so that disabling one leaves the others |
| `...!ModelCorrect` | pairs of versions | `PropertiesInv`: properties are loaded over those of the image, once per boot; `LoadKeepsModel` goes through both switches |
| `...!ModeCorrect` | modes, changes, reboots | `TouchInv`: `DebugInv` and `SwitchInv`; see below |
| `...!DeviceTypeCorrect` | all of these | from `PowerInv` and `TouchInv` |

Two arguments need a word. In `EventQueue` an event can be in both queues at once:
the thread takes it out of the pending queue only when it has written it and got
the mutex back. `SizeMatches`, `NoStaleEvents` and the refinement all speak of sets
of events, and none of them is inductive. `OrderInv` makes them so: both queues are
in the order of the posts, the FMQ comes before what pends and is not yet written,
and all of it after the last event that was read. It gives every event one place,
so that lengths of the queues become sizes of these sets, a write moves the oldest
pending events without changing the set on its way, and a failed one loses exactly
a run of it. `ControlInv` adds that by the time `initializeCommon` clears the pending
queue without the mutex the thread is gone and no post is in progress: that is what
its comment relies on, and why no stale event survives. A lemma per step says what
it does to the set of events on their way; the theorems above are its consequences.
For the wakelock a restart is the one step that needs more: `NoneScoped`, no
`ScopedWakelock` outlives `disableAllSensors`, since a sensor is disabled under the
mutex its post holds.

`ModeSettled` says something only when no change is queued. What is true before is
that the *last* queued change to a property decides: `DebugInv`, that it carries the
mode that was set, or, if none is queued, that the persistent property has it;
`SwitchInv`, the same of the driver and the persistent property after the boot,
where the change that reports the boot counts as one that carries whatever the
property has by then. `ChangedQueue` and `HandledQueue` say what appending and
handling a change does to the last one of a property. Each invariant was checked by
TLC on the instances of the runs before it was proved.

The assumptions are those named in the modules: bounds are natural numbers,
capacities and timeouts positive, lists are lists of sensors, sensors finitely many,
bits distinct. Every invariant and action property that a passing run checks is also
a theorem. Only model-checked are the liveness properties (`Released`,
`StopCompletes`, `PendingDrains`, `InitializeCompletes`, `TouchReported`,
`DisablingInterruptsPoll`, `CallsReturn`, `DisabledDestroyed`, `SamplesKeepComing`):
fairness and ENABLED are out of the prover's reach. Where they rest on a wake-up
that must not get lost, the part of them that is safety is proved: `JoinableCorrect`
(of both threads) for `StopCompletes` and `InitializeCompletes`, `HandOverCorrect`
for `DisablingInterruptsPoll` and `DisabledDestroyed`. `HandOver` names the one
exception, a destructor in its `join`, which is the fault that the run
`OneShotSensor_destroy` shows. Out of reach too is what `Text` and `Number`
compute, which are recursive over digits: the proofs use `Reread` only where both
bases are the same, and what it does there is checked by `SameBaseKeeps` for bounded
numbers.

## 5. Not modelled

- `debug` and the list getters: read-only formatting.
- `service.cpp`: one binder thread serves all calls; the modules rely on it.
- `Sensor::flush`: it changes no state and posts one event, as any other post.
- The map of sensors in `SensorsSubHal`: calls for a sensor change that sensor
  only, so `SubHal` has one. Its assignment of `mCallback` in `initialize`, which
  races with posts, depends on the reference counting of `sp`, which is elsewhere.
- Mutexes inside external sub-HALs: whether `disableAllSensors`, which calls them
  under `mDynamicSensorsMutex`, can deadlock with their own threads depends on them.
- Versions that are not numbers, on which `stoi` throws at boot, and contents of the
  gesture file that are not, on which it throws in the power service.
- What the threads do without an event flag: `initializeCommon` answers `BAD_VALUE`
  when it cannot create one, which `OperationMode` has as a result, and starts them
  all the same.
- The time a post takes: `Sensor::run` computes its wait from the clock it read
  before posting. The bounds of the schedule (`NotTooOften`, `SleepsNoLonger`) hold
  as long as only sleeping takes time.
- Crashes of the process: nothing is persisted; a crash is a new start.
- The undefined outcomes of the unlocked `clear` of the map (a crash of the
  process) and the single-reader protocol inside the FMQ.
- The other init scripts: permissions of device nodes and one-time writes.
- Blob scripts: sequential, on the build host.
- Overlays, makefiles, sepolicy, XML: data without behaviour.

## 6. Plan

Done, in this order: SharedWakelock, EventQueue with EventStream, OneShotSensor,
SensorList, OperationMode, DynamicSensors, Sensor and SubHal, HalProxy, and Device
with its three parts; proofs of all their invariants and action properties, of
both refinements, and of the safety part of the liveness properties.

Next:

1. Dynamic sensors joined to the event path, for the disconnection that overtakes
   events of its sensor (`HalProxy.cpp:418`) and for `countNumWakeupEvents`, whose
   lookup inserts empty entries into `mSensors` (`HalProxy.cpp:758`).
2. Proofs: that what `HalProxy` leaves open of the wakelock thread is what
   `SharedWakelock` does.
