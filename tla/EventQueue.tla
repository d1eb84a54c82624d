----------------------------- MODULE EventQueue -----------------------------
(***************************************************************************)
(* The way of an event from a sub-HAL to the framework (sensors/           *)
(* HalProxy.cpp): postEventsToMessageQueue writes into the event FMQ what  *)
(* fits and queues the rest; the pending writes thread                     *)
(* (handlePendingWrites) moves the rest into the FMQ with a blocking write *)
(* that can time out; initializeCommon stops the thread, clears the queues *)
(* and starts again with a new FMQ.                                        *)
(*                                                                         *)
(* An event is its number, in the order of the posts, and whether it is a  *)
(* wake-up event.  The wakelock is reduced to the balance of its count     *)
(* that the events of this session account for; SharedWakelock models the  *)
(* lock itself, its timeout and the count of the ScopedWakelock.           *)
(***************************************************************************)
EXTENDS Integers, SequencesExt

CONSTANTS
  Clients,                          \* sensor threads that post events
  Batches,                          \* posts: sequences of wake-up flags, <<>> for
                                    \* a post of which processEvents left nothing
  QueueCapacity,                    \* quantum count of the event FMQ
  kMaxSizePendingWriteEventsQueue,
  MaxEvents,                        \* bound: no post begins after so many events
  MaxRestarts                       \* bound: calls of initialize after the first

ASSUME ConstantsAssumption ==
  /\ Batches \subseteq Seq(BOOLEAN)
  /\ QueueCapacity \in Nat \ {0}
  /\ kMaxSizePendingWriteEventsQueue \in Nat
  /\ MaxEvents \in Nat
  /\ MaxRestarts \in Nat

VARIABLES
  mThreadsRun,
  mEventQueue,                   \* what is in the FMQ
  mPendingWriteEventsQueue,      \* [events, numWakeupEvents] of posts that did not fit
  mSizePendingWriteEventsQueue,
  thread,                        \* where handlePendingWrites is
  notified,                      \* a notification reached the thread asleep
  client,                        \* where each client is in SensorsSubHal::postEvents
  batch,                         \* what it is posting
  locked,                        \* ScopedWakelock::isLocked of its wakelock
  control,                       \* where initializeCommon / stopThreads is
  restarts,
  nextId,                        \* number of the next event
  sessionStart,                  \* first number of this session
  lastRead,                      \* number of the last event the framework read
  balance,                       \* counted - given back - read, in this session
  overflowed,                    \* this session dropped events of a full queue
  split,                         \* this session wrote a post in several parts
  uncounted                      \* this session posted wake-up events without the lock

queueVars   == <<mEventQueue, mPendingWriteEventsQueue, mSizePendingWriteEventsQueue>>
threadVars  == <<thread, notified>>
controlVars == <<mThreadsRun, control, restarts, sessionStart>>
clientVars  == <<client, batch, locked>>
ledgerVars  == <<balance, overflowed, split, uncounted>>
vars == <<queueVars, threadVars, clientVars, controlVars, nextId, lastRead, ledgerVars>>

ThreadStates  == {"starting", "loop", "presleep", "sleeping", "writing", "wrote", "done"}
ControlStates == {"running", "drain", "notify", "join", "disable", "clear", "start"}

Event == [id : Nat \ {0}, wake : BOOLEAN]
PendingPost == [events : Seq(Event), numWakeupEvents : Nat]

TypeOK ==
  /\ mThreadsRun \in BOOLEAN
  /\ mEventQueue \in Seq(Event)
  /\ Len(mEventQueue) <= QueueCapacity
  /\ mPendingWriteEventsQueue \in Seq(PendingPost)
  /\ mSizePendingWriteEventsQueue \in 0..kMaxSizePendingWriteEventsQueue
  /\ thread \in ThreadStates
  /\ notified \in BOOLEAN
  /\ client \in [Clients -> {"idle", "scoped", "checked"}]
  /\ batch \in [Clients -> Seq(BOOLEAN)]
  /\ locked \in [Clients -> BOOLEAN]
  /\ control \in ControlStates
  /\ restarts \in 0..MaxRestarts
  /\ nextId \in Nat \ {0}
  /\ sessionStart \in 1..nextId
  /\ lastRead \in 0..(nextId - 1)
  /\ balance \in Int
  /\ overflowed \in BOOLEAN
  /\ split \in BOOLEAN
  /\ uncounted \in BOOLEAN

Init ==
  /\ mThreadsRun = TRUE
  /\ mEventQueue = <<>>
  /\ mPendingWriteEventsQueue = <<>>
  /\ mSizePendingWriteEventsQueue = 0
  /\ thread = "starting"
  /\ notified = FALSE
  /\ client = [c \in Clients |-> "idle"]
  /\ batch = [c \in Clients |-> <<>>]
  /\ locked = [c \in Clients |-> FALSE]
  /\ control = "running"
  /\ restarts = 0
  /\ nextId = 1
  /\ sessionStart = 1
  /\ lastRead = 0
  /\ balance = 0
  /\ overflowed = FALSE
  /\ split = FALSE
  /\ uncounted = FALSE

-----------------------------------------------------------------------------
Lesser(a, b) == IF a <= b THEN a ELSE b

(* countNumWakeupEvents(events, n)                                         *)
CountNumWakeupEvents(events, n) == Cardinality({i \in 1..n : events[i].wake})

AvailableToWrite == QueueCapacity - Len(mEventQueue)

(* mEventQueueWriteMutex: every critical section is one step, except that  *)
(* the thread keeps the mutex throughout its loop; it gives it up only to  *)
(* sleep and to write.                                                     *)
MutexFreeWhilePresleep == thread # "loop"   \* mutant: predicate outside the mutex

MutexFree == thread \notin {"loop", "presleep"}

NotifyEventQueueWriteCV == notified' = (notified \/ thread = "sleeping")

-----------------------------------------------------------------------------
(* SensorsSubHal::postEvents on the sensor's thread, which holds the       *)
(* mRunMutex of its sensor all the time: createScopedWakelock, which takes *)
(* the lock for a wake-up sensor only while the threads run; postEvents up *)
(* to areThreadsRunning; postEventsToMessageQueue.                         *)

HasWakeupEvents(b) == \E i \in DOMAIN b : b[i]

(* The pick-up gesture sensor, whose events processEvents may filter out,  *)
(* is a wake-up sensor.                                                    *)
OfWakeUpSensor(b) == b = <<>> \/ HasWakeupEvents(b)

CreateScopedWakelock(c, b) ==
  /\ client[c] = "idle"
  /\ nextId + Len(b) <= MaxEvents + 1
  /\ client' = [client EXCEPT ![c] = "scoped"]
  /\ batch' = [batch EXCEPT ![c] = b]
  /\ locked' = [locked EXCEPT ![c] = OfWakeUpSensor(b) /\ mThreadsRun]
  /\ UNCHANGED <<queueVars, threadVars, controlVars, nextId, lastRead, ledgerVars>>

PostEnds(c) ==
  /\ client' = [client EXCEPT ![c] = "idle"]
  /\ batch' = [batch EXCEPT ![c] = <<>>]
  /\ locked' = [locked EXCEPT ![c] = FALSE]

CheckThreadsRunning(c) ==
  /\ client[c] = "scoped"
  /\ IF mThreadsRun
     THEN client' = [client EXCEPT ![c] = "checked"] /\ UNCHANGED <<batch, locked>>
     ELSE PostEnds(c)
  /\ UNCHANGED <<queueVars, threadVars, controlVars, nextId, lastRead, ledgerVars>>

(* How many events of a post of n go into the FMQ at once: none while      *)
(* earlier ones are pending.  The mutant overtakes the pending ones.       *)
DirectWriteOvertaking(n) == Lesser(n, AvailableToWrite)

DirectWriteSize(n) ==
  IF mPendingWriteEventsQueue = <<>> THEN Lesser(n, AvailableToWrite) ELSE 0

FitsPendingQueue(n) ==
  mSizePendingWriteEventsQueue + n <= kMaxSizePendingWriteEventsQueue

(* The wake-up events of a post with a locked ScopedWakelock are counted,  *)
(* unless the threads were stopped meanwhile.                              *)
PostEventsToMessageQueue(c) ==
  LET events == [i \in DOMAIN batch[c] |-> [id |-> nextId + i - 1, wake |-> batch[c][i]]]
      numWakeupEvents == CountNumWakeupEvents(events, Len(events))
      numToWrite == DirectWriteSize(Len(events))
      eventsLeft == SubSeq(events, numToWrite + 1, Len(events))
      fits == FitsPendingQueue(Len(eventsLeft))
  IN
  /\ client[c] = "checked"
  /\ MutexFree
  /\ PostEnds(c)
  /\ nextId' = nextId + Len(events)
  /\ balance' = IF locked[c] /\ mThreadsRun THEN balance + numWakeupEvents ELSE balance
  /\ uncounted' = (uncounted \/ (numWakeupEvents > 0 /\ ~locked[c]))
  /\ mEventQueue' = mEventQueue \o SubSeq(events, 1, numToWrite)
  /\ IF eventsLeft # <<>> /\ fits
     THEN /\ mPendingWriteEventsQueue' =
               Append(mPendingWriteEventsQueue,
                      [events |-> eventsLeft, numWakeupEvents |-> numWakeupEvents])
          /\ mSizePendingWriteEventsQueue' =
               mSizePendingWriteEventsQueue + Len(eventsLeft)
          /\ NotifyEventQueueWriteCV
     ELSE UNCHANGED <<mPendingWriteEventsQueue, mSizePendingWriteEventsQueue, notified>>
  /\ overflowed' = (overflowed \/ (eventsLeft # <<>> /\ ~fits))
  /\ split' = (split \/ (numToWrite > 0 /\ eventsLeft # <<>>))
  /\ UNCHANGED <<thread, controlVars, lastRead>>

(* The framework reads the FMQ, and acknowledges a wake-up event.          *)
FrameworkRead ==
  /\ mEventQueue # <<>>
  /\ mEventQueue' = Tail(mEventQueue)
  /\ lastRead' = Head(mEventQueue).id
  /\ balance' = IF Head(mEventQueue).wake THEN balance - 1 ELSE balance
  /\ UNCHANGED <<mPendingWriteEventsQueue, mSizePendingWriteEventsQueue, threadVars,
                 clientVars, controlVars, nextId, overflowed, split, uncounted>>

-----------------------------------------------------------------------------
(* handlePendingWrites, the pending writes thread.                         *)

ThreadGoto(from, to) ==
  /\ thread = from
  /\ thread' = to

ThreadStart ==
  /\ ThreadGoto("starting", "loop")
  /\ UNCHANGED <<queueVars, notified, clientVars, controlVars, nextId, lastRead, ledgerVars>>

ThreadExit ==
  /\ ThreadGoto("loop", "done")
  /\ ~mThreadsRun
  /\ UNCHANGED <<queueVars, notified, clientVars, controlVars, nextId, lastRead, ledgerVars>>

(* Mutant: a wait predicate without the test of mThreadsRun.               *)
ThreadWaitEvenIfStopped ==
  /\ ThreadGoto("loop", "presleep")
  /\ mPendingWriteEventsQueue = <<>>
  /\ UNCHANGED <<queueVars, notified, clientVars, controlVars, nextId, lastRead, ledgerVars>>

(* The wait predicate is false: the mutex is kept until the thread sleeps. *)
ThreadWait ==
  /\ ThreadGoto("loop", "presleep")
  /\ mThreadsRun
  /\ mPendingWriteEventsQueue = <<>>
  /\ UNCHANGED <<queueVars, notified, clientVars, controlVars, nextId, lastRead, ledgerVars>>

ThreadSleep ==
  /\ ThreadGoto("presleep", "sleeping")
  /\ UNCHANGED <<queueVars, notified, clientVars, controlVars, nextId, lastRead, ledgerVars>>

ThreadWake ==
  /\ ThreadGoto("sleeping", "loop")
  /\ notified
  /\ notified' = FALSE
  /\ UNCHANGED <<queueVars, clientVars, controlVars, nextId, lastRead, ledgerVars>>

ThreadSpuriousWake ==
  /\ ThreadGoto("sleeping", "loop")
  /\ ~notified
  /\ UNCHANGED <<queueVars, notified, clientVars, controlVars, nextId, lastRead, ledgerVars>>

(* The first post of the queue, taken by reference, and how much of it     *)
(* goes into one write.                                                    *)
PendingFront == Head(mPendingWriteEventsQueue)
NumToWrite == Lesser(Len(PendingFront.events), QueueCapacity)

ThreadBeginWrite ==
  /\ ThreadGoto("loop", "writing")
  /\ mThreadsRun
  /\ mPendingWriteEventsQueue # <<>>
  /\ UNCHANGED <<queueVars, notified, clientVars, controlVars, nextId, lastRead, ledgerVars>>

(* writeBlocking, without the mutex.                                       *)
ThreadWriteSucceeds ==
  /\ ThreadGoto("writing", "wrote")
  /\ AvailableToWrite >= NumToWrite
  /\ mEventQueue' = mEventQueue \o SubSeq(PendingFront.events, 1, NumToWrite)
  /\ UNCHANGED <<mPendingWriteEventsQueue, mSizePendingWriteEventsQueue, notified,
                 clientVars, controlVars, nextId, lastRead, ledgerVars>>

(* The wake-up events given back when a write fails.  The mutant gives     *)
(* back those of the whole post for a part of it.                          *)
NumWakeupEventsOfPost == PendingFront.numWakeupEvents

NumWakeupEventsDropped ==
  IF Len(PendingFront.events) > QueueCapacity /\ PendingFront.numWakeupEvents > 0
  THEN CountNumWakeupEvents(PendingFront.events, QueueCapacity)
  ELSE PendingFront.numWakeupEvents

(* Mutant: a timeout of 0, which the FMQ takes for none.                   *)
ThreadWriteNeverFails ==
  /\ ThreadGoto("writing", "wrote")
  /\ AvailableToWrite < 0
  /\ UNCHANGED <<queueVars, notified, clientVars, controlVars, nextId, lastRead, ledgerVars>>

(* writeBlocking gave up after kPendingWriteTimeoutNs: the events of this  *)
(* write are dropped and their wake-up events given back.                  *)
ThreadWriteFails ==
  /\ ThreadGoto("writing", "wrote")
  /\ AvailableToWrite < NumToWrite
  /\ balance' = IF mThreadsRun THEN balance - NumWakeupEventsDropped ELSE balance
  /\ UNCHANGED <<queueVars, notified, clientVars, controlVars, nextId, lastRead,
                 overflowed, split, uncounted>>

(* The size after a write.  The mutant subtracts the whole post.           *)
SizeWithoutPost == mSizePendingWriteEventsQueue - Len(PendingFront.events)

SizeAfterWrite == mSizePendingWriteEventsQueue - NumToWrite

ThreadFinishWrite ==
  /\ ThreadGoto("wrote", "loop")
  /\ mSizePendingWriteEventsQueue' = SizeAfterWrite
  /\ IF Len(PendingFront.events) > QueueCapacity
     THEN /\ mPendingWriteEventsQueue' =
               [mPendingWriteEventsQueue EXCEPT ![1].events =
                  SubSeq(@, QueueCapacity + 1, Len(@))]
          /\ split' = TRUE
     ELSE /\ mPendingWriteEventsQueue' = Tail(mPendingWriteEventsQueue)
          /\ UNCHANGED split
  /\ UNCHANGED <<mEventQueue, notified, clientVars, controlVars, nextId, lastRead,
                 balance, overflowed, uncounted>>

ThreadStep ==
  \/ ThreadStart \/ ThreadExit \/ ThreadWait \/ ThreadSleep \/ ThreadWake
  \/ ThreadBeginWrite \/ ThreadWriteSucceeds \/ ThreadWriteFails \/ ThreadFinishWrite

-----------------------------------------------------------------------------
(* initializeCommon on the binder thread.                                  *)

ControlGoto(from, to) ==
  /\ control = from
  /\ control' = to

StopStore ==
  /\ ControlGoto("running", "drain")
  /\ restarts < MaxRestarts
  /\ restarts' = restarts + 1
  /\ mThreadsRun' = FALSE
  /\ UNCHANGED <<queueVars, threadVars, clientVars, sessionStart, nextId, lastRead, ledgerVars>>

(* stopThreads reads the FMQ empty, so that a blocked write can go on.     *)
StopDrain ==
  /\ ControlGoto("drain", "notify")
  /\ mEventQueue' = <<>>
  /\ UNCHANGED <<mPendingWriteEventsQueue, mSizePendingWriteEventsQueue, threadVars,
                 clientVars, mThreadsRun, restarts, sessionStart, nextId, lastRead, ledgerVars>>

StopNotify ==
  /\ ControlGoto("notify", "join")
  /\ NotifyEventQueueWriteCV
  /\ UNCHANGED <<queueVars, thread, clientVars, mThreadsRun, restarts, sessionStart, nextId,
                 lastRead, ledgerVars>>

StopJoin ==
  /\ ControlGoto("join", "disable")
  /\ thread = "done"
  /\ UNCHANGED <<queueVars, threadVars, clientVars, mThreadsRun, restarts, sessionStart, nextId,
                 lastRead, ledgerVars>>

(* Mutant: sensors are disabled without waiting for their posts.           *)
InitDisableSensorsUnlocked ==
  /\ ControlGoto("disable", "clear")
  /\ UNCHANGED <<queueVars, threadVars, clientVars, mThreadsRun, restarts, sessionStart,
                 nextId, lastRead, ledgerVars>>

(* disableAllSensors: Sensor::activate takes the mRunMutex under which the *)
(* sensor's thread posts, and so waits for a post in progress.             *)
InitDisableSensors ==
  /\ ControlGoto("disable", "clear")
  /\ \A c \in Clients : client[c] = "idle"
  /\ UNCHANGED <<queueVars, threadVars, clientVars, mThreadsRun, restarts, sessionStart, nextId,
                 lastRead, ledgerVars>>

InitClear ==
  /\ ControlGoto("clear", "start")
  /\ mPendingWriteEventsQueue' = <<>>
  /\ mSizePendingWriteEventsQueue' = 0
  /\ UNCHANGED <<mEventQueue, threadVars, clientVars, mThreadsRun, restarts, sessionStart, nextId,
                 lastRead, ledgerVars>>

(* The new FMQ and the new thread.                                         *)
InitStart ==
  /\ ControlGoto("start", "running")
  /\ mEventQueue' = <<>>
  /\ mThreadsRun' = TRUE
  /\ thread' = "starting"
  /\ sessionStart' = nextId
  /\ balance' = 0
  /\ overflowed' = FALSE
  /\ split' = FALSE
  /\ uncounted' = FALSE
  /\ UNCHANGED <<mPendingWriteEventsQueue, mSizePendingWriteEventsQueue, notified, clientVars,
                 restarts, nextId, lastRead>>

ControlStep ==
  \/ StopStore \/ StopDrain \/ StopNotify \/ StopJoin
  \/ InitDisableSensors \/ InitClear \/ InitStart

-----------------------------------------------------------------------------
ClientStep(c) ==
  \/ \E b \in Batches : CreateScopedWakelock(c, b)
  \/ CheckThreadsRunning(c)
  \/ PostEventsToMessageQueue(c)

Next ==
  \/ \E c \in Clients : ClientStep(c)
  \/ FrameworkRead
  \/ ThreadStep
  \/ ThreadSpuriousWake
  \/ ControlStep

Spec == Init /\ [][Next]_vars

-----------------------------------------------------------------------------
(* Properties.                                                             *)

PendingEvents ==
  UNION {ToSet(mPendingWriteEventsQueue[i].events) : i \in DOMAIN mPendingWriteEventsQueue}

(* A write that has ended, well or badly, has taken its events out of the  *)
(* pending queue although the thread has yet to get the mutex to say so.   *)
Written ==
  IF thread = "wrote" THEN ToSet(SubSeq(PendingFront.events, 1, NumToWrite)) ELSE {}

(* Posted events that were neither read nor lost.  Every event has its own *)
(* number, so a set of them tells as much as a sequence.                   *)
EventsOnTheWay == ToSet(mEventQueue) \cup (PendingEvents \ Written)

WakeupsOnTheWay == Cardinality({e \in EventsOnTheWay : e.wake})

(* mSizePendingWriteEventsQueue, which decides whether a post overflows,   *)
(* is the number of events in the queue: through partial writes, chunks    *)
(* of long posts, failed writes and restarts it never drifts.              *)
SizeMatches == mSizePendingWriteEventsQueue = Cardinality(PendingEvents)

(* The pending writes thread never sleeps through the post that should     *)
(* have woken it.                                                          *)
NoLostPendingWake ==
  thread = "sleeping" /\ mPendingWriteEventsQueue # <<>> => notified

(* No event of before a restart comes out of the queues after it: "the     *)
(* pending write events queue can be cleared safely" (initializeCommon),   *)
(* because disabling a sensor waits for the post it is in.                 *)
NoStaleEvents ==
  mThreadsRun => \A e \in EventsOnTheWay : e.id >= sessionStart

(* The wakelock count covers every wake-up event still on its way to the   *)
(* framework, and is given back exactly, in every session that split no    *)
(* post between two writes and posted none without the lock; it exceeds    *)
(* the events only if some were dropped because the pending queue was full *)
(* (postEventsToMessageQueue gives nothing back for those).  After a split *)
(* the numWakeupEvents of the whole post may be given back for its last    *)
(* part alone.                                                             *)
BalanceKept ==
  mThreadsRun /\ ~split /\ ~uncounted =>
    /\ balance >= WakeupsOnTheWay
    /\ ~overflowed => balance = WakeupsOnTheWay

(* The event path loses events but never reorders or repeats them.         *)
Stream == INSTANCE EventStream WITH stream <- {e.id : e \in EventsOnTheWay}
StreamSpec == Stream!Spec

(* What does not fit in the FMQ at once leaves the pending queue in the    *)
(* end, even if the framework never reads again: the blocking write times  *)
(* out and the thread goes on.                                             *)
PendingDrains ==
  (mThreadsRun /\ mPendingWriteEventsQueue # <<>>) ~>
    (mPendingWriteEventsQueue = <<>> \/ ~mThreadsRun)

(* initializeCommon gets through the join and disableAllSensors to the end *)
(* even when the thread is blocked in a write or a sensor is in the middle *)
(* of a post.  The one exception is a thread between its wait predicate    *)
(* and its sleep when stopThreads notifies: stopThreads does not take the  *)
(* mutex, the notification is lost and the join may never return.          *)
Joinable == control = "join" /\ thread # "presleep" /\ (thread = "sleeping" => notified)

InitializeCompletes == Joinable ~> control = "running"

(* "Wakeup events posted while wakelock unlocked" never happens            *)
(* (the assertion of HalProxyCallbackBase::postEvents).                    *)
WakeupPostsLocked ==
  \A c \in Clients : client[c] = "checked" /\ HasWakeupEvents(batch[c]) => locked[c]
=============================================================================
