--------------------------- MODULE SharedWakelock ---------------------------
(***************************************************************************)
(* The reference-counted wakelock that HalProxy shares between all its     *)
(* sub-HALs (sensors/HalProxy.cpp): the counter and its kernel wakelock,   *)
(* the wakelock thread handleWakelocks with its condition variable and its *)
(* blocking read of the wake lock queue, the timeout, and the part of      *)
(* initializeCommon and stopThreads that stops and restarts that thread.   *)
(*                                                                         *)
(* The callers are as general as the interface allows: each client is a    *)
(* sub-HAL thread inside HalProxyCallbackBase::postEvents; it may or may   *)
(* not take a ScopedWakelock, adds any number of wake-up events of Deltas, *)
(* and drops the ScopedWakelock.  The framework acknowledges any number of *)
(* events at any time, and the pending-writes thread gives back any number.*)
(*                                                                         *)
(* Time.  The code compares clock readings in three places only: how long  *)
(* ago mWakelockTimeoutStartTime was (timeoutAge), how much of a blocking  *)
(* read is left (timeLeft), and whether a ScopedWakelock is older than     *)
(* mWakelockTimeoutResetTime (created).  The model keeps those three and   *)
(* a Tick instead of an ever growing clock.                                *)
(***************************************************************************)
EXTENDS Integers, Sequences, FiniteSets

CONSTANTS
  Clients,              \* threads of the sub-HALs that post events
  Deltas,               \* possible numbers of wake-up events in one post
  Acks,                 \* possible numbers in one acknowledgement or give-back
  kWakelockTimeoutNs,   \* the timeout, in ticks
  QueueCapacity,        \* size of the wake lock FMQ
  MaxPosts,             \* bound: posts in a behaviour
  MaxRestarts           \* bound: calls of initialize after the first one

ASSUME ConstantsAssumption ==
  /\ Deltas \subseteq Nat
  /\ Acks \subseteq Nat \ {0}
  /\ kWakelockTimeoutNs \in Nat \ {0}
  /\ QueueCapacity \in Nat \ {0}
  /\ MaxPosts \in Nat
  /\ MaxRestarts \in Nat

VARIABLES
  mThreadsRun,
  mWakelockRefCount,
  held,            \* the kernel holds kWakelockName for this process
  timeoutAge,      \* getTimeNow() - mWakelockTimeoutStartTime, saturating
  wakeLockQueue,   \* the FMQ the framework acknowledges on
  thread,          \* where handleWakelocks is
  notified,        \* a notification reached the thread asleep on mWakelockCV
  timeLeft,        \* what is left of the timeout of the blocking read
  ack,             \* what the blocking read returned
  client,          \* where each client is in postEvents
  locked,          \* ScopedWakelock::isLocked of each client
  created,         \* age of the ScopedWakelock relative to the last reset
  delta,           \* numWakeupEvents of the post in progress
  giveBack,        \* count the pending-writes thread is about to give back
  control,         \* where initializeCommon / stopThreads is
  posts, restarts  \* bounded counters

wakelockVars == <<mWakelockRefCount, held, timeoutAge>>
threadVars   == <<thread, notified, timeLeft, ack>>
clientVars   == <<client, locked, created, delta, posts>>
controlVars  == <<mThreadsRun, control, restarts>>
vars == <<wakelockVars, threadVars, clientVars, controlVars, wakeLockQueue, giveBack>>

Forever == -1   \* the FMQ reads a timeout of 0 ns as "no timeout"

ThreadStates  == {"starting", "loop", "presleep", "sleeping", "resetting", "reading", "gotAck", "done"}
ClientStates  == {"idle", "creating", "holding", "adding", "posted", "destroying"}
ControlStates == {"running", "wake", "notify", "join", "reset", "start"}
ScopedAges    == {"now", "past", "stale"}

Lesser(a, b) == IF a <= b THEN a ELSE b

TypeOK ==
  /\ mThreadsRun \in BOOLEAN
  /\ mWakelockRefCount \in Nat
  /\ held \in BOOLEAN
  /\ timeoutAge \in 0..(kWakelockTimeoutNs + 1)
  /\ wakeLockQueue \in Seq(Nat)
  /\ thread \in ThreadStates
  /\ notified \in BOOLEAN
  /\ timeLeft \in {Forever} \cup (0..kWakelockTimeoutNs)
  /\ ack \in Nat
  /\ client \in [Clients -> ClientStates]
  /\ locked \in [Clients -> BOOLEAN]
  /\ created \in [Clients -> ScopedAges]
  /\ delta \in [Clients -> Nat]
  /\ giveBack \in Nat
  /\ control \in ControlStates
  /\ posts \in 0..MaxPosts
  /\ restarts \in 0..MaxRestarts

(* The state after the first call of initialize: threads just started.     *)
Init ==
  /\ mThreadsRun = TRUE
  /\ mWakelockRefCount = 0
  /\ held = FALSE
  /\ timeoutAge = 0
  /\ wakeLockQueue = <<>>
  /\ thread = "starting"
  /\ notified = FALSE
  /\ timeLeft = 0
  /\ ack = 0
  /\ client = [c \in Clients |-> "idle"]
  /\ locked = [c \in Clients |-> FALSE]
  /\ created = [c \in Clients |-> "past"]
  /\ delta = [c \in Clients |-> 0]
  /\ giveBack = 0
  /\ control = "running"
  /\ posts = 0
  /\ restarts = 0

-----------------------------------------------------------------------------
(* mWakelockMutex.  Every critical section is one step except those of the *)
(* wakelock thread, which keeps the mutex throughout its loop and gives it *)
(* up only to sleep on mWakelockCV and to block on the wake lock queue.    *)
(* Mutants: the wait predicate, the timeout test outside the mutex.        *)
MutexFreeWhilePresleep == thread \notin {"loop", "resetting"}
MutexFreeWhileResetting == thread \notin {"loop", "presleep"}

MutexFree == thread \notin {"loop", "presleep", "resetting"}

(* mWakelockCV.notify_one(): lost unless the thread is asleep on it.       *)
NotifyWakelockCV == notified' = (notified \/ thread = "sleeping")

(* incrementRefCountAndMaybeAcquireWakelock, after its mThreadsRun test.   *)
Increment(n) ==
  /\ MutexFree
  /\ IF mWakelockRefCount = 0
     THEN held' = TRUE /\ NotifyWakelockCV
     ELSE UNCHANGED <<held, notified>>
  /\ timeoutAge' = 0
  /\ mWakelockRefCount' = mWakelockRefCount + n

(* Mutants of Decrement: no std::min, a release that does not test for 0,  *)
(* no release when more is given back than was counted.                    *)
DecrementUnchecked(n, isStale) ==
  IF mWakelockRefCount = 0 \/ isStale
  THEN UNCHANGED <<mWakelockRefCount, held>>
  ELSE /\ mWakelockRefCount' = mWakelockRefCount - n
       /\ held' = (mWakelockRefCount' # 0)

DecrementReleases(n, isStale) ==
  IF mWakelockRefCount = 0 \/ isStale
  THEN UNCHANGED <<mWakelockRefCount, held>>
  ELSE /\ mWakelockRefCount' = mWakelockRefCount - Lesser(mWakelockRefCount, n)
       /\ held' = FALSE

DecrementKeeps(n, isStale) ==
  IF mWakelockRefCount = 0 \/ isStale
  THEN UNCHANGED <<mWakelockRefCount, held>>
  ELSE /\ mWakelockRefCount' = mWakelockRefCount - Lesser(mWakelockRefCount, n)
       /\ held' = (mWakelockRefCount # n)

(* decrementRefCountAndMaybeReleaseWakelock, after its mThreadsRun test;   *)
(* isStale stands for timeoutStart < mWakelockTimeoutResetTime.            *)
Decrement(n, isStale) ==
  IF mWakelockRefCount = 0 \/ isStale
  THEN UNCHANGED <<mWakelockRefCount, held>>
  ELSE /\ mWakelockRefCount' = mWakelockRefCount - Lesser(mWakelockRefCount, n)
       /\ held' = (mWakelockRefCount' # 0)

(* Mutant: the give-back of the reset is taken for a stale one.            *)
ResetSharedWakelockStale ==
  /\ Decrement(mWakelockRefCount, TRUE)
  /\ created' = [c \in Clients |->
                   IF created[c] = "past" THEN "stale" ELSE created[c]]

(* resetSharedWakelock: the decrement inside it tests mThreadsRun, so it   *)
(* gives nothing back once the threads are told to stop.  The reset time   *)
(* becomes now: scoped wakelocks created at an earlier instant are stale.  *)
ResetSharedWakelock ==
  /\ IF mThreadsRun
     THEN Decrement(mWakelockRefCount, FALSE)
     ELSE UNCHANGED <<mWakelockRefCount, held>>
  /\ created' = [c \in Clients |->
                   IF created[c] = "past" THEN "stale" ELSE created[c]]

-----------------------------------------------------------------------------
(* The clients: HalProxyCallbackBase::createScopedWakelock and postEvents. *)

Goto(c, state) == client' = [client EXCEPT ![c] = state]

(* createScopedWakelock(lock): the increment first tests mThreadsRun.      *)
CreateScoped(c, lock) ==
  /\ client[c] = "idle"
  /\ posts < MaxPosts
  /\ posts' = posts + 1
  /\ Goto(c, IF lock /\ mThreadsRun THEN "creating" ELSE "holding")
  /\ locked' = [locked EXCEPT ![c] = FALSE]
  /\ UNCHANGED <<wakelockVars, threadVars, created, delta, controlVars,
                 wakeLockQueue, giveBack>>

CreateScopedLocked(c) ==
  /\ client[c] = "creating"
  /\ Increment(1)
  /\ locked' = [locked EXCEPT ![c] = TRUE]
  /\ created' = [created EXCEPT ![c] = "now"]
  /\ Goto(c, "holding")
  /\ UNCHANGED <<thread, timeLeft, ack, delta, posts, controlVars,
                 wakeLockQueue, giveBack>>

(* postEvents returns early when the threads do not run; otherwise         *)
(* postEventsToMessageQueue adds the wake-up events of the post when the   *)
(* scoped wakelock is locked and the increment still sees the threads run. *)
PostEvents(c, n) ==
  /\ client[c] = "holding"
  /\ IF locked[c] /\ mThreadsRun
     THEN delta' = [delta EXCEPT ![c] = n] /\ Goto(c, "adding")
     ELSE Goto(c, "posted") /\ UNCHANGED delta
  /\ UNCHANGED <<wakelockVars, threadVars, locked, created, posts, controlVars,
                 wakeLockQueue, giveBack>>

AddWakeupEvents(c) ==
  /\ client[c] = "adding"
  /\ Increment(delta[c])
  /\ Goto(c, "posted")
  /\ UNCHANGED <<thread, timeLeft, ack, locked, created, delta, posts, controlVars,
                 wakeLockQueue, giveBack>>

(* ~ScopedWakelock: a locked one gives its count back.                     *)
DestroyScoped(c) ==
  /\ client[c] = "posted"
  /\ Goto(c, IF locked[c] /\ mThreadsRun THEN "destroying" ELSE "idle")
  /\ UNCHANGED <<wakelockVars, threadVars, locked, created, delta, posts,
                 controlVars, wakeLockQueue, giveBack>>

DestroyScopedLocked(c) ==
  /\ client[c] = "destroying"
  /\ MutexFree
  /\ Decrement(1, created[c] = "stale")
  /\ Goto(c, "idle")
  /\ UNCHANGED <<timeoutAge, threadVars, locked, created, delta, posts,
                 controlVars, wakeLockQueue, giveBack>>

ClientStep(c) ==
  \/ \E lock \in BOOLEAN : CreateScoped(c, lock)
  \/ CreateScopedLocked(c)
  \/ \E n \in Deltas : PostEvents(c, n)
  \/ AddWakeupEvents(c)
  \/ DestroyScoped(c)
  \/ DestroyScopedLocked(c)

-----------------------------------------------------------------------------
(* handlePendingWrites gives back the wake-up events of a failed write.    *)

GiveBack(n) ==
  /\ mThreadsRun
  /\ giveBack = 0
  /\ giveBack' = n
  /\ UNCHANGED <<wakelockVars, threadVars, clientVars, controlVars, wakeLockQueue>>

GiveBackLocked ==
  /\ giveBack # 0
  /\ MutexFree
  /\ Decrement(giveBack, FALSE)
  /\ giveBack' = 0
  /\ UNCHANGED <<timeoutAge, threadVars, clientVars, controlVars, wakeLockQueue>>

(* The framework acknowledges wake-up events it has handled.               *)
FrameworkAck(n) ==
  /\ Len(wakeLockQueue) < QueueCapacity
  /\ wakeLockQueue' = Append(wakeLockQueue, n)
  /\ UNCHANGED <<wakelockVars, threadVars, clientVars, controlVars, giveBack>>

-----------------------------------------------------------------------------
(* handleWakelocks, the wakelock thread.                                   *)

ThreadStart ==
  /\ thread = "starting"
  /\ thread' = "loop"
  /\ UNCHANGED <<wakelockVars, notified, timeLeft, ack, clientVars, controlVars,
                 wakeLockQueue, giveBack>>

(* Leaving the loop: the last resetSharedWakelock, then the thread ends.   *)
ThreadExit ==
  /\ thread = "loop"
  /\ ~mThreadsRun
  /\ ResetSharedWakelock
  /\ thread' = "done"
  /\ UNCHANGED <<timeoutAge, notified, timeLeft, ack, client, locked, delta, posts,
                 controlVars, wakeLockQueue, giveBack>>

(* The wait predicate is false: the mutex is kept until the thread sleeps. *)
ThreadWait ==
  /\ thread = "loop"
  /\ mThreadsRun
  /\ mWakelockRefCount = 0
  /\ thread' = "presleep"
  /\ UNCHANGED <<wakelockVars, notified, timeLeft, ack, clientVars, controlVars,
                 wakeLockQueue, giveBack>>

ThreadSleep ==
  /\ thread = "presleep"
  /\ thread' = "sleeping"
  /\ UNCHANGED <<wakelockVars, notified, timeLeft, ack, clientVars, controlVars,
                 wakeLockQueue, giveBack>>

ThreadWake ==
  /\ thread = "sleeping"
  /\ notified
  /\ thread' = "loop"
  /\ notified' = FALSE
  /\ UNCHANGED <<wakelockVars, timeLeft, ack, clientVars, controlVars,
                 wakeLockQueue, giveBack>>

(* A condition variable may also wake up for no reason.                    *)
ThreadSpuriousWake ==
  /\ thread = "sleeping"
  /\ ~notified
  /\ thread' = "loop"
  /\ UNCHANGED <<wakelockVars, notified, timeLeft, ack, clientVars, controlVars,
                 wakeLockQueue, giveBack>>

(* sharedWakelockDidTimeout: reset, or block on the queue for the rest.    *)
ThreadTimedOut ==
  /\ thread = "loop"
  /\ mThreadsRun
  /\ mWakelockRefCount > 0
  /\ timeoutAge > kWakelockTimeoutNs
  /\ thread' = "resetting"
  /\ UNCHANGED <<wakelockVars, notified, timeLeft, ack, clientVars, controlVars,
                 wakeLockQueue, giveBack>>

ThreadReset ==
  /\ thread = "resetting"
  /\ ResetSharedWakelock
  /\ thread' = "loop"
  /\ UNCHANGED <<timeoutAge, notified, timeLeft, ack, client, locked, delta, posts,
                 controlVars, wakeLockQueue, giveBack>>

ThreadRead ==
  /\ thread = "loop"
  /\ mThreadsRun
  /\ mWakelockRefCount > 0
  /\ timeoutAge <= kWakelockTimeoutNs
  /\ thread' = "reading"
  /\ timeLeft' = IF timeoutAge = kWakelockTimeoutNs
                 THEN Forever
                 ELSE kWakelockTimeoutNs - timeoutAge
  /\ UNCHANGED <<wakelockVars, notified, ack, clientVars, controlVars,
                 wakeLockQueue, giveBack>>

ThreadReadSucceeds ==
  /\ thread = "reading"
  /\ wakeLockQueue # <<>>
  /\ ack' = Head(wakeLockQueue)
  /\ wakeLockQueue' = Tail(wakeLockQueue)
  /\ thread' = "gotAck"
  /\ UNCHANGED <<wakelockVars, notified, timeLeft, clientVars, controlVars, giveBack>>

ThreadReadTimesOut ==
  /\ thread = "reading"
  /\ wakeLockQueue = <<>>
  /\ timeLeft = 0
  /\ thread' = "loop"
  /\ UNCHANGED <<wakelockVars, notified, timeLeft, ack, clientVars, controlVars,
                 wakeLockQueue, giveBack>>

ThreadHandleAck ==
  /\ thread = "gotAck"
  /\ IF mThreadsRun
     THEN Decrement(ack, FALSE)
     ELSE UNCHANGED <<mWakelockRefCount, held>>
  /\ thread' = "loop"
  /\ UNCHANGED <<timeoutAge, notified, timeLeft, ack, clientVars, controlVars,
                 wakeLockQueue, giveBack>>

ThreadStep ==
  \/ ThreadStart \/ ThreadExit \/ ThreadWait \/ ThreadSleep \/ ThreadWake
  \/ ThreadTimedOut \/ ThreadReset
  \/ ThreadRead \/ ThreadReadSucceeds \/ ThreadReadTimesOut \/ ThreadHandleAck

-----------------------------------------------------------------------------
(* initializeCommon on the binder thread: stopThreads, which never takes   *)
(* mWakelockMutex, then resetSharedWakelock, the new queue and the new     *)
(* threads.                                                                *)

StopStore ==
  /\ control = "running"
  /\ restarts < MaxRestarts
  /\ restarts' = restarts + 1
  /\ mThreadsRun' = FALSE
  /\ control' = "wake"
  /\ UNCHANGED <<wakelockVars, threadVars, clientVars, wakeLockQueue, giveBack>>

(* Mutant: the blocked reader is not woken.                                *)
StopWithoutWake ==
  /\ control = "wake"
  /\ control' = "notify"
  /\ UNCHANGED <<wakelockVars, threadVars, clientVars, mThreadsRun, restarts,
                 wakeLockQueue, giveBack>>

(* mWakeLockQueue->write(&kZero): nothing is written into a full queue.    *)
StopWake ==
  /\ control = "wake"
  /\ wakeLockQueue' = IF Len(wakeLockQueue) < QueueCapacity
                      THEN Append(wakeLockQueue, 0)
                      ELSE wakeLockQueue
  /\ control' = "notify"
  /\ UNCHANGED <<wakelockVars, threadVars, clientVars, mThreadsRun, restarts, giveBack>>

StopNotify ==
  /\ control = "notify"
  /\ NotifyWakelockCV
  /\ control' = "join"
  /\ UNCHANGED <<wakelockVars, thread, timeLeft, ack, clientVars, mThreadsRun, restarts,
                 wakeLockQueue, giveBack>>

StopJoin ==
  /\ control = "join"
  /\ giveBack = 0
  /\ thread = "done"
  /\ control' = "reset"
  /\ UNCHANGED <<wakelockVars, threadVars, clientVars, mThreadsRun, restarts,
                 wakeLockQueue, giveBack>>

InitReset ==
  /\ control = "reset"
  /\ MutexFree
  /\ ResetSharedWakelock
  /\ control' = "start"
  /\ UNCHANGED <<timeoutAge, threadVars, client, locked, delta, posts, mThreadsRun, restarts,
                 wakeLockQueue, giveBack>>

InitStart ==
  /\ control = "start"
  /\ wakeLockQueue' = <<>>
  /\ mThreadsRun' = TRUE
  /\ thread' = "starting"
  /\ control' = "running"
  /\ UNCHANGED <<wakelockVars, notified, timeLeft, ack, clientVars, restarts, giveBack>>

ControlStep ==
  StopStore \/ StopWake \/ StopNotify \/ StopJoin \/ InitReset \/ InitStart

-----------------------------------------------------------------------------
Tick ==
  /\ timeoutAge' = Lesser(timeoutAge + 1, kWakelockTimeoutNs + 1)
  /\ timeLeft' = IF timeLeft > 0 THEN timeLeft - 1 ELSE timeLeft
  /\ created' = [c \in Clients |->
                   IF created[c] = "now" THEN "past" ELSE created[c]]
  /\ UNCHANGED <<mWakelockRefCount, held, thread, notified, ack, client, locked, delta,
                 posts, controlVars, wakeLockQueue, giveBack>>

Next ==
  \/ \E c \in Clients : ClientStep(c)
  \/ \E n \in Acks : GiveBack(n)
  \/ GiveBackLocked
  \/ \E n \in Acks : FrameworkAck(n)
  \/ ThreadStep
  \/ ThreadSpuriousWake
  \/ ControlStep
  \/ Tick

Spec == Init /\ [][Next]_vars

(* Every thread that can step does, and time passes; the framework and the *)
(* caller of initialize owe nothing, and no spurious wakeup is promised.   *)
Fairness ==
  /\ WF_vars(ThreadStep)
  /\ WF_vars(Tick)
  /\ \A c \in Clients : WF_vars(ClientStep(c))
  /\ WF_vars(GiveBackLocked)
  /\ WF_vars(StopWake) /\ WF_vars(StopNotify) /\ WF_vars(StopJoin)
  /\ WF_vars(InitReset) /\ WF_vars(InitStart)

FairSpec == Spec /\ Fairness

-----------------------------------------------------------------------------
(* Properties.                                                             *)

(* The kernel wakelock is never dropped under a positive count: whatever   *)
(* interleaving of posts, acknowledgements, timeouts, failed writes and    *)
(* restarts led here, an unacknowledged wake-up event keeps the device     *)
(* awake (incrementRefCount..., decrementRefCount..., resetSharedWakelock).*)
HeldWhenCounted == mWakelockRefCount > 0 => held

(* The converse: the lock comes to be kept with nothing to count in one    *)
(* way only, a post under a ScopedWakelock whose wake-up events are all    *)
(* filtered (processEvents) after a timeout reset took the count of its    *)
(* wakelock.  No give-back, however late or large, leaves the lock behind. *)
AddsNothing(c) == client[c] = "adding" /\ delta[c] = 0 /\ client'[c] = "posted"

HeldOnlyWhenCounted ==
  [][held' /\ mWakelockRefCount' = 0 =>
       \/ held /\ mWakelockRefCount = 0
       \/ \E c \in Clients : AddsNothing(c)]_vars

(* The notification of an increment from 0 is never lost, although the     *)
(* increment notifies only on that edge: whenever the wakelock thread      *)
(* sleeps over a positive count, a notification is on its way.             *)
NoLostIncrementWake == thread = "sleeping" /\ mWakelockRefCount > 0 => notified

(* The timeout test and the reset are one critical section: no increment   *)
(* that restarted the timeout is thrown away by the reset that follows.    *)
ResetOnlyAfterTimeout == thread = "resetting" => timeoutAge > kWakelockTimeoutNs

(* A wakelock that nobody acknowledges is given up in the end: the count   *)
(* gets to 0, or the threads are stopped, or the thread blocks in a read   *)
(* whose time left was computed as 0 ns, which the queue takes for no      *)
(* timeout at all (sharedWakelockDidTimeout's strict comparison).          *)
Released ==
  (mThreadsRun /\ mWakelockRefCount > 0) ~>
    \/ mWakelockRefCount = 0
    \/ ~mThreadsRun
    \/ thread = "reading" /\ timeLeft = Forever

(* stopThreads gets through its join and initializeCommon to its end, from *)
(* whatever the wakelock thread was doing when told to stop.  The one      *)
(* exception is a thread between its wait predicate and its sleep when     *)
(* stopThreads notifies: stopThreads does not take mWakelockMutex, the     *)
(* notification is lost and the join may never return.                     *)
Joinable == control = "join" /\ thread # "presleep" /\ (thread = "sleeping" => notified)

StopCompletes == Joinable ~> control = "running"
=============================================================================
