------------------------------ MODULE HalProxy ------------------------------
(***************************************************************************)
(* The event path of EventQueue joined with the wakelock that keeps the    *)
(* device awake for its wake-up events (sensors/HalProxy.cpp): every post, *)
(* give-back and acknowledgement changes mWakelockRefCount, and so do the  *)
(* ScopedWakelock of a post and the timeout.                               *)
(*                                                                         *)
(* The wakelock thread is reduced to what it does to the count: it takes   *)
(* an acknowledgement, or resets the count at any time.  SharedWakelock    *)
(* models when, and that the kernel wakelock is held while the count is    *)
(* positive.                                                               *)
(***************************************************************************)
EXTENDS EventQueue

(* The sensors of the sub-HALs: each has one thread.                       *)
ASSUME ClientsAssumption == IsFiniteSet(Clients)

VARIABLES
  mWakelockRefCount,
  scoped,        \* the ScopedWakelock of each client: none, fresh, or stale if
                 \* it is from before the last timeout
  unacked,       \* wake-up events the framework read and did not acknowledge
  acknowledged,  \* wake-up events that messages in the wake lock FMQ acknowledge
  timedOut,      \* this session had a timeout
  leftover       \* this session began with a positive count

wakelockVars == <<mWakelockRefCount, scoped, unacked, acknowledged, timedOut, leftover>>
proxyVars == <<vars, wakelockVars>>

ProxyTypeOK ==
  /\ TypeOK
  /\ mWakelockRefCount \in Nat
  /\ scoped \in [Clients -> {"none", "fresh", "stale"}]
  /\ unacked \in Nat
  /\ acknowledged \in Nat
  /\ timedOut \in BOOLEAN /\ leftover \in BOOLEAN

ProxyInit ==
  /\ Init
  /\ mWakelockRefCount = 0
  /\ scoped = [c \in Clients |-> "none"]
  /\ unacked = 0
  /\ acknowledged = 0
  /\ timedOut = FALSE /\ leftover = FALSE

-----------------------------------------------------------------------------
(* incrementRefCountAndMaybeAcquireWakelock and                            *)
(* decrementRefCountAndMaybeReleaseWakelock, as counts.                    *)
Increment(delta) ==
  mWakelockRefCount' = IF mThreadsRun THEN mWakelockRefCount + delta ELSE mWakelockRefCount

(* Mutant: the count is not kept from wrapping.                            *)
DecrementUnchecked(delta) ==
  mWakelockRefCount' = IF mThreadsRun THEN mWakelockRefCount - delta ELSE mWakelockRefCount

Decrement(delta) ==
  mWakelockRefCount' = IF mThreadsRun
                       THEN mWakelockRefCount - Lesser(mWakelockRefCount, delta)
                       ELSE mWakelockRefCount

(* What a step of EventQueue accounts for.                                 *)
Counted == balance' - balance

Create(c, b) ==
  /\ scoped[c] = "none"
  /\ CreateScopedWakelock(c, b)
  /\ IF locked'[c]
     THEN Increment(1) /\ scoped' = [scoped EXCEPT ![c] = "fresh"]
     ELSE UNCHANGED <<mWakelockRefCount, scoped>>
  /\ UNCHANGED <<unacked, acknowledged, timedOut, leftover>>

Check(c) ==
  /\ CheckThreadsRunning(c)
  /\ UNCHANGED wakelockVars

Post(c) ==
  /\ PostEventsToMessageQueue(c)
  /\ Increment(Counted)
  /\ UNCHANGED <<scoped, unacked, acknowledged, timedOut, leftover>>

(* Mutant: the wakelock is given back though its post counted its events. *)
DestroyGivesBackTwo(c) ==
  /\ client[c] = "idle" /\ scoped[c] # "none"
  /\ Decrement(IF scoped[c] = "fresh" THEN 2 ELSE 0)
  /\ scoped' = [scoped EXCEPT ![c] = "none"]
  /\ UNCHANGED <<vars, unacked, acknowledged, timedOut, leftover>>

(* ~ScopedWakelock, after the post.                                        *)
Destroy(c) ==
  /\ client[c] = "idle" /\ scoped[c] # "none"
  /\ Decrement(IF scoped[c] = "fresh" THEN 1 ELSE 0)
  /\ scoped' = [scoped EXCEPT ![c] = "none"]
  /\ UNCHANGED <<vars, unacked, acknowledged, timedOut, leftover>>

Read ==
  /\ FrameworkRead
  /\ unacked' = unacked - Counted
  /\ UNCHANGED <<mWakelockRefCount, scoped, acknowledged, timedOut, leftover>>

(* The framework acknowledges what it has read (external).                 *)
Acknowledge ==
  /\ \E n \in 1..unacked : unacked' = unacked - n /\ acknowledged' = acknowledged + n
  /\ UNCHANGED <<vars, mWakelockRefCount, scoped, timedOut, leftover>>

(* handleWakelocks reads a message that acknowledges n events, as the      *)
(* framework chose to group them.  The mutant counts messages.             *)
TakeMessage(n) ==
  /\ mThreadsRun
  /\ Decrement(1)
  /\ acknowledged' = acknowledged - n
  /\ UNCHANGED <<vars, scoped, unacked, timedOut, leftover>>

TakeAcknowledgement(n) ==
  /\ mThreadsRun
  /\ Decrement(n)
  /\ acknowledged' = acknowledged - n
  /\ UNCHANGED <<vars, scoped, unacked, timedOut, leftover>>

(* handleWakelocks finds the timeout: locks of before are stale.           *)
TimeOut ==
  /\ mThreadsRun /\ mWakelockRefCount > 0
  /\ Decrement(mWakelockRefCount)
  /\ scoped' = [c \in Clients |-> IF scoped[c] = "none" THEN "none" ELSE "stale"]
  /\ timedOut' = TRUE
  /\ UNCHANGED <<vars, unacked, acknowledged, leftover>>

WriteFails ==
  /\ ThreadWriteFails
  /\ Decrement(-Counted)
  /\ UNCHANGED <<scoped, unacked, acknowledged, timedOut, leftover>>

(* The other steps of handlePendingWrites.                                 *)
WriteStep ==
  /\ ThreadStep /\ ~ThreadWriteFails
  /\ UNCHANGED wakelockVars

(* resetSharedWakelock, in initializeCommon and at the end of the wakelock *)
(* thread, finds mThreadsRun FALSE and leaves the count as it is.          *)
Restart ==
  /\ InitStart
  /\ leftover' = (mWakelockRefCount > 0)
  /\ unacked' = 0
  /\ acknowledged' = 0
  /\ timedOut' = FALSE
  /\ UNCHANGED <<mWakelockRefCount, scoped>>

(* A sensor keeps its mRunMutex until its ScopedWakelock is destroyed.     *)
DisableSensors ==
  /\ InitDisableSensors
  /\ \A c \in Clients : scoped[c] = "none"
  /\ UNCHANGED wakelockVars

StopStep ==
  /\ StopStore \/ StopDrain \/ StopNotify \/ StopJoin \/ InitClear
  /\ UNCHANGED wakelockVars

ProxyNext ==
  \/ \E c \in Clients :
       Check(c) \/ Post(c) \/ Destroy(c) \/ \E b \in Batches : Create(c, b)
  \/ Read \/ Acknowledge
  \/ \E n \in 1..acknowledged : TakeAcknowledgement(n)
  \/ TimeOut
  \/ WriteFails \/ WriteStep
  \/ ThreadSpuriousWake /\ UNCHANGED wakelockVars
  \/ StopStep \/ DisableSensors \/ Restart

ProxySpec == ProxyInit /\ [][ProxyNext]_proxyVars

(* The threads run and a blocked write ends at its timeout at the latest;  *)
(* a sensor goes on with a post it has begun, to ~ScopedWakelock; the      *)
(* framework need never read.  The strong fairness is that of the sensors' *)
(* mutexes: initialize gets one that its sensor keeps taking and giving up.*)
ProxyFairness ==
  /\ WF_proxyVars(WriteFails \/ WriteStep)
  /\ \A c \in Clients : WF_proxyVars(Check(c) \/ Post(c) \/ Destroy(c))
  /\ WF_proxyVars(StopStep /\ ~StopStore) /\ SF_proxyVars(DisableSensors)
  /\ WF_proxyVars(Restart)

ProxyFairSpec == ProxySpec /\ ProxyFairness

-----------------------------------------------------------------------------
(* Properties.                                                             *)

(* What the count stands for: wake-up events on their way, read and not    *)
(* acknowledged, acknowledged and not taken, and posts in progress.        *)
Owed ==
  WakeupsOnTheWay + unacked + acknowledged + Cardinality({c \in Clients : scoped[c] = "fresh"})

(* The device stays awake for every wake-up event until the framework has  *)
(* acknowledged it: no give-back, of a post, a failed write or an          *)
(* acknowledgement, takes what was counted for another event.  The timeout *)
(* is the exception, and after it an acknowledgement of events of before   *)
(* takes the count of later ones; so are posts written in several parts,   *)
(* which give back too much, and those without a lock.                     *)
AwakeForEvents ==
  mThreadsRun /\ ~timedOut /\ ~split /\ ~uncounted => mWakelockRefCount >= Owed

(* The device may sleep once all is acknowledged, without the help of the  *)
(* timeout, unless events were dropped because the pending queue was full, *)
(* or the session began with a count that a restart left behind.           *)
AsleepInTheEnd ==
  mThreadsRun /\ ~overflowed /\ ~leftover => mWakelockRefCount <= Owed
=============================================================================
