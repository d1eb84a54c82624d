--------------------------- MODULE HalProxyProofs ---------------------------
(***************************************************************************)
(* Proofs about HalProxy, for any finite set of sensors: the device stays  *)
(* awake for every wake-up event until it is acknowledged, and may sleep   *)
(* afterwards.                                                             *)
(*                                                                         *)
(* HalProxy is EventQueue with more variables, so the invariants of        *)
(* EventQueueProofs hold of it.  They say what a step does to the number   *)
(* of wake-up events on their way; here it is compared with what the same  *)
(* step does to mWakelockRefCount.  An argument of its own is needed for   *)
(* the restart only: no ScopedWakelock outlives it.                        *)
(***************************************************************************)
EXTENDS HalProxy, EventQueueProofs

(* Every step of HalProxy is one of EventQueue, or does nothing to it.     *)
LEMMA ProxyStepIsStep == [ProxyNext]_proxyVars => [Next]_vars
<1> SUFFICES ASSUME [ProxyNext]_proxyVars
             PROVE  [Next]_vars
  OBVIOUS
<1>1. CASE \E c \in Clients :
             Check(c) \/ Post(c) \/ Destroy(c) \/ \E b \in Batches : Create(c, b)
  BY <1>1, Zenon DEF Check, Post, Destroy, Create, Next, ClientStep
<1>2. CASE Read \/ WriteFails \/ WriteStep \/ (ThreadSpuriousWake /\ UNCHANGED wakelockVars)
  BY <1>2, Zenon DEF Read, WriteFails, WriteStep, Next, ThreadStep
<1>3. CASE Acknowledge \/ (\E n \in 1..acknowledged : TakeAcknowledgement(n)) \/ TimeOut
  BY <1>3, Zenon DEF Acknowledge, TakeAcknowledgement, TimeOut
<1>4. CASE StopStep \/ DisableSensors \/ Restart
  BY <1>4, Zenon DEF StopStep, DisableSensors, Restart, Next, ControlStep
<1>5. CASE UNCHANGED proxyVars
  BY <1>5, Zenon DEF proxyVars
<1> QED
  BY <1>1, <1>2, <1>3, <1>4, <1>5, Zenon DEF ProxyNext

(* Whatever is proved of the event path alone holds of it joined with the  *)
(* wakelock, which never stands in its way.                                *)
THEOREM ProxyIsEventQueue == ProxySpec => Spec
<1>1. ProxyInit => Init
  BY DEF ProxyInit
<1> QED
  BY <1>1, ProxyStepIsStep, PTL DEF ProxySpec, Spec

-----------------------------------------------------------------------------
(* The fresh wakelocks.                                                    *)

Fresh == {c \in Clients : scoped[c] = "fresh"}

WakelockTypeOK ==
  /\ mWakelockRefCount \in Nat
  /\ scoped \in [Clients -> {"none", "fresh", "stale"}]
  /\ unacked \in Nat
  /\ acknowledged \in Nat
  /\ timedOut \in BOOLEAN /\ leftover \in BOOLEAN

LEMMA FreshFacts ==
  IsFiniteSet(Fresh) /\ Cardinality(Fresh) \in Nat
<1>1. IsFiniteSet(Fresh)
  BY ClientsAssumption, FS_Subset DEF Fresh
<1> QED
  BY <1>1, FS_CardinalityType

LEMMA OneMoreFresh ==
  ASSUME NEW c \in Clients, scoped \in [Clients -> {"none", "fresh", "stale"}],
         scoped[c] # "fresh", scoped' = [scoped EXCEPT ![c] = "fresh"]
  PROVE  Cardinality(Fresh') = Cardinality(Fresh) + 1
<1>1. Fresh' = Fresh \cup {c} /\ c \notin Fresh
  BY DEF Fresh
<1> QED
  BY <1>1, FreshFacts, FS_AddElement

LEMMA OneLessFresh ==
  ASSUME NEW c \in Clients, scoped \in [Clients -> {"none", "fresh", "stale"}],
         scoped' = [scoped EXCEPT ![c] = "none"]
  PROVE  Cardinality(Fresh') = IF scoped[c] = "fresh" THEN Cardinality(Fresh) - 1
                               ELSE Cardinality(Fresh)
<1>1. CASE scoped[c] = "fresh"
  <2>1. Fresh' = Fresh \ {c} /\ c \in Fresh
    BY <1>1 DEF Fresh
  <2> QED
    BY <1>1, <2>1, FreshFacts, FS_RemoveElement
<1>2. CASE scoped[c] # "fresh"
  <2>1. Fresh' = Fresh
    BY <1>2 DEF Fresh
  <2> QED
    BY <1>2, <2>1
<1> QED
  BY <1>1, <1>2

LEMMA OwedIsSum == Owed = WakeupsOnTheWay + unacked + acknowledged + Cardinality(Fresh)
  BY DEF Owed, Fresh

-----------------------------------------------------------------------------
(* The invariant: disableAllSensors has waited for the ScopedWakelocks.    *)

NoneScoped == control \in {"clear", "start"} => \A c \in Clients : scoped[c] = "none"

ProxyInv == QueueInv /\ WakeupInv /\ WakelockTypeOK /\ NoneScoped

LEMMA OwedIsNat ==
  ASSUME QueueInv, WakelockTypeOK
  PROVE  Owed \in Nat /\ WakeupsOnTheWay \in Nat
<1>1. WakeupsOnTheWay \in Nat
  BY WakeupsAreCounted
<1> QED
  BY <1>1, FreshFacts, OwedIsSum DEF WakelockTypeOK

(* What a step has to show: that it moves the count with what is owed, as  *)
(* long as the exceptions are not reached.                                 *)
LEMMA CountFollows ==
  ASSUME AwakeForEvents, AsleepInTheEnd,
         mThreadsRun' => mThreadsRun,
         timedOut => timedOut', split => split', uncounted => uncounted',
         overflowed => overflowed', leftover => leftover',
         mThreadsRun /\ ~split' /\ ~uncounted' /\ mWakelockRefCount >= Owed
           => mWakelockRefCount' >= Owed',
         mThreadsRun /\ ~overflowed' /\ mWakelockRefCount <= Owed
           => mWakelockRefCount' <= Owed'
  PROVE  AwakeForEvents' /\ AsleepInTheEnd'
  BY Zenon DEF AwakeForEvents, AsleepInTheEnd

(* Decrementing stops at zero.                                             *)
LEMMA DecrementFacts ==
  ASSUME NEW delta \in Nat, mWakelockRefCount \in Nat, Decrement(delta)
  PROVE  /\ mWakelockRefCount' \in Nat
         /\ mThreadsRun /\ delta <= mWakelockRefCount
              => mWakelockRefCount' = mWakelockRefCount - delta
         /\ mThreadsRun /\ ~(delta <= mWakelockRefCount) => mWakelockRefCount' = 0
  BY DEF Decrement, Lesser

(* The steps of the event path that leave the wakelock alone.              *)
LEMMA SameCount ==
  ASSUME ProxyInv, AwakeForEvents, AsleepInTheEnd, UNCHANGED wakelockVars,
         \/ ~mThreadsRun'
         \/ /\ EventsOnTheWay' = EventsOnTheWay /\ (mThreadsRun' => mThreadsRun)
            /\ (split => split')
            /\ UNCHANGED <<uncounted, overflowed>>
  PROVE  AwakeForEvents' /\ AsleepInTheEnd'
<1>1. CASE ~mThreadsRun'
  BY <1>1, Zenon DEF AwakeForEvents, AsleepInTheEnd
<1>2. CASE /\ EventsOnTheWay' = EventsOnTheWay /\ (mThreadsRun' => mThreadsRun)
           /\ (split => split')
           /\ UNCHANGED <<uncounted, overflowed>>
  <2>1. UNCHANGED <<mWakelockRefCount, scoped, unacked, acknowledged, timedOut, leftover>>
    BY DEF wakelockVars
  <2>2. Owed' = Owed
    BY <1>2, <2>1 DEF Owed, WakeupsOnTheWay
  <2> QED
    BY <1>2, <2>1, <2>2, CountFollows, Zenon
<1> QED
  BY <1>1, <1>2

LEMMA CreateKeeps ==
  ASSUME ProxyInv, AwakeForEvents, AsleepInTheEnd, NEW c \in Clients, NEW b \in Batches, Create(c, b)
  PROVE  WakelockTypeOK' /\ NoneScoped' /\ AwakeForEvents' /\ AsleepInTheEnd'
<1>1. /\ scoped[c] = "none" /\ CreateScopedWakelock(c, b)
      /\ UNCHANGED <<unacked, acknowledged, timedOut, leftover>>
      /\ locked'[c] => Increment(1) /\ scoped' = [scoped EXCEPT ![c] = "fresh"]
      /\ ~locked'[c] => UNCHANGED <<mWakelockRefCount, scoped>>
  BY Zenon DEF Create
<1>2. QuietStep
  BY <1>1, Zenon DEF QuietStep
<1>3. /\ QueueInv /\ WakelockTypeOK /\ NoneScoped
      /\ EventsOnTheWay' = EventsOnTheWay /\ UNCHANGED ledgerVars
      /\ mThreadsRun' => mThreadsRun
  BY <1>2, QuietStepKeeps, Zenon DEF ProxyInv
<1>4. WakeupsOnTheWay' = WakeupsOnTheWay
  BY <1>3 DEF WakeupsOnTheWay
<1>5. UNCHANGED control
  BY <1>1 DEF CreateScopedWakelock, controlVars
<1>6. UNCHANGED <<split, uncounted, overflowed>>
  BY <1>3 DEF ledgerVars
<1>7. Owed \in Nat /\ mWakelockRefCount \in Nat
  BY <1>3, OwedIsNat DEF WakelockTypeOK
<1>8. CASE locked'[c]
  <2>1. mThreadsRun
    <3>1. locked \in [Clients -> BOOLEAN] /\ (OfWakeUpSensor(b) /\ mThreadsRun) \in BOOLEAN
      BY <1>3, Zenon DEF QueueInv, TypeOK
    <3>2. locked' = [locked EXCEPT ![c] = OfWakeUpSensor(b) /\ mThreadsRun]
      BY <1>1 DEF CreateScopedWakelock
    <3>3. locked'[c] = (OfWakeUpSensor(b) /\ mThreadsRun)
      BY <3>1, <3>2, Zenon
    <3> QED
      BY <1>8, <3>3, Zenon
  <2>2. mWakelockRefCount' = mWakelockRefCount + 1 /\ scoped' = [scoped EXCEPT ![c] = "fresh"]
    BY <1>1, <1>8, <2>1 DEF Increment
  <2>3. Cardinality(Fresh') = Cardinality(Fresh) + 1
    BY <1>1, <1>3, <2>2, OneMoreFresh DEF WakelockTypeOK
  <2>4. Owed' = Owed + 1
    <3>1. Owed' = WakeupsOnTheWay' + unacked' + acknowledged' + Cardinality(Fresh')
      BY DEF Owed, Fresh
    <3> QED
      BY <3>1, <1>1, <1>3, <1>4, <2>3, OwedIsSum, WakeupsAreCounted, FreshFacts
         DEF WakelockTypeOK
  <2>5. WakelockTypeOK' /\ NoneScoped'
    <3>1. control = "running"
      BY <1>3, <2>1 DEF QueueInv, ControlInv
    <3> QED
      BY <3>1, <1>1, <1>3, <1>5, <1>7, <2>2 DEF WakelockTypeOK, NoneScoped
  <2>6. /\ mWakelockRefCount >= Owed => mWakelockRefCount' >= Owed'
        /\ mWakelockRefCount <= Owed => mWakelockRefCount' <= Owed'
    BY <1>7, <2>2, <2>4
  <2> QED
    BY <1>1, <1>3, <1>6, <2>5, <2>6, CountFollows, Zenon
<1>9. CASE ~locked'[c]
  <2>1. UNCHANGED <<mWakelockRefCount, scoped>>
    BY <1>1, <1>9
  <2>2. Owed' = Owed
    BY <1>1, <1>4, <2>1 DEF Owed
  <2>3. WakelockTypeOK' /\ NoneScoped'
    BY <1>1, <1>3, <1>5, <2>1 DEF WakelockTypeOK, NoneScoped
  <2> QED
    BY <1>1, <1>3, <1>6, <2>1, <2>2, <2>3, CountFollows, Zenon
<1> QED
  BY <1>8, <1>9

LEMMA DestroyKeeps ==
  ASSUME ProxyInv, AwakeForEvents, AsleepInTheEnd, NEW c \in Clients, Destroy(c)
  PROVE  WakelockTypeOK' /\ NoneScoped' /\ AwakeForEvents' /\ AsleepInTheEnd'
<1> DEFINE delta == IF scoped[c] = "fresh" THEN 1 ELSE 0
<1>1. /\ QueueInv /\ WakelockTypeOK /\ NoneScoped
      /\ Decrement(delta) /\ scoped' = [scoped EXCEPT ![c] = "none"]
      /\ UNCHANGED <<vars, unacked, acknowledged, timedOut, leftover>>
  BY Zenon DEF ProxyInv, Destroy
<1>2. EventsOnTheWay' = EventsOnTheWay
  <2>1. QuietStep
    BY <1>1, Zenon DEF QuietStep
  <2> QED
    BY <1>1, <2>1, QuietStepKeeps
<1>3. UNCHANGED <<mThreadsRun, control, split, uncounted, overflowed>>
  BY <1>1 DEF vars, controlVars, ledgerVars
<1>4. Cardinality(Fresh') = Cardinality(Fresh) - delta /\ delta \in Nat /\ delta <= Cardinality(Fresh)
  <2>1. Cardinality(Fresh') = IF scoped[c] = "fresh" THEN Cardinality(Fresh) - 1
                              ELSE Cardinality(Fresh)
    BY <1>1, OneLessFresh DEF WakelockTypeOK
  <2>2. scoped[c] = "fresh" => Cardinality(Fresh) >= 1
    <3>1. scoped[c] = "fresh" => c \in Fresh
      BY DEF Fresh
    <3>2. Cardinality(Fresh) = 0 => Fresh = {}
      BY FreshFacts, FS_EmptySet
    <3> QED
      BY <3>1, <3>2, FreshFacts
  <2> QED
    BY <2>1, <2>2, FreshFacts
<1> HIDE DEF delta
<1>5. WakeupsOnTheWay' = WakeupsOnTheWay
  BY <1>2 DEF WakeupsOnTheWay
<1>6. Owed' = Owed - delta /\ delta <= Owed /\ Owed \in Nat
  <2>1. Owed' = WakeupsOnTheWay' + unacked' + acknowledged' + Cardinality(Fresh')
    BY DEF Owed, Fresh
  <2> QED
    BY <2>1, <1>1, <1>4, <1>5, OwedIsSum, WakeupsAreCounted, FreshFacts DEF WakelockTypeOK
<1>7. /\ mWakelockRefCount \in Nat /\ mWakelockRefCount' \in Nat
      /\ mThreadsRun /\ delta <= mWakelockRefCount
              => mWakelockRefCount' = mWakelockRefCount - delta
      /\ mThreadsRun /\ ~(delta <= mWakelockRefCount) => mWakelockRefCount' = 0
  BY <1>1, <1>4, DecrementFacts DEF WakelockTypeOK
<1>8. WakelockTypeOK' /\ NoneScoped'
  BY <1>1, <1>3, <1>7 DEF WakelockTypeOK, NoneScoped
<1>9. /\ mThreadsRun /\ mWakelockRefCount >= Owed => mWakelockRefCount' >= Owed'
      /\ mThreadsRun /\ mWakelockRefCount <= Owed => mWakelockRefCount' <= Owed'
  BY <1>4, <1>6, <1>7
<1> QED
  BY <1>1, <1>3, <1>8, <1>9, CountFollows, Zenon

(* A post counts as many wake-up events as it puts on their way, unless it *)
(* was made without the lock; it puts fewer if the pending queue was full. *)
LEMMA PostKeeps ==
  ASSUME ProxyInv, AwakeForEvents, AsleepInTheEnd, NEW c \in Clients, Post(c)
  PROVE  WakelockTypeOK' /\ NoneScoped' /\ AwakeForEvents' /\ AsleepInTheEnd'
<1>1. /\ QueueInv /\ WakelockTypeOK /\ NoneScoped /\ balance \in Int
      /\ PostEventsToMessageQueue(c) /\ Increment(Counted)
      /\ UNCHANGED <<scoped, unacked, acknowledged, timedOut, leftover>>
  BY Zenon DEF ProxyInv, Post, QueueInv, TypeOK
<1>2. PICK w : w = CountNumWakeupEvents(Posted(c), Len(Posted(c)))
  OBVIOUS
<1>3. /\ w \in Nat
      /\ balance' = IF locked[c] /\ mThreadsRun THEN balance + w ELSE balance
      /\ uncounted' = (uncounted \/ (w > 0 /\ ~locked[c]))
      /\ \E x : overflowed' = (overflowed \/ x)
      /\ \E x : split' = (split \/ x)
      /\ UNCHANGED controlVars
      /\ WakeupsOnTheWay' \in Nat
      /\ WakeupsOnTheWay' <= WakeupsOnTheWay + w
      /\ overflowed' = FALSE => WakeupsOnTheWay' = WakeupsOnTheWay + w
  BY <1>1, <1>2, PostWakeups, Zenon
<1>4. /\ overflowed => overflowed'
      /\ split => split'
      /\ uncounted => uncounted'
      /\ ~overflowed' => overflowed' = FALSE
      /\ ~uncounted' => locked[c] \/ ~(w > 0)
  <2>1. overflowed' \in BOOLEAN
    BY <1>1, PostStep, Zenon DEF QueueInv, TypeOK
  <2> QED
    BY <1>3, <2>1, Zenon
<1>5. UNCHANGED <<mThreadsRun, control>>
  BY <1>3 DEF controlVars
<1>6. PICK d : d = Counted
  OBVIOUS
<1>7. /\ d \in Nat /\ d <= w
      /\ mThreadsRun /\ (locked[c] \/ ~(w > 0)) => d = w
  <2>1. CASE locked[c] /\ mThreadsRun
    <3>1. balance' = balance + w
      BY <1>3, <2>1
    <3> QED
      BY <1>1, <1>3, <1>6, <3>1 DEF Counted
  <2>2. CASE ~(locked[c] /\ mThreadsRun)
    <3>1. balance' = balance
      BY <1>3, <2>2, Zenon
    <3>2. d = 0
      BY <1>1, <1>6, <3>1 DEF Counted
    <3> QED
      BY <1>3, <2>2, <3>2
  <2> QED
    BY <2>1, <2>2
<1>8. /\ mWakelockRefCount' = IF mThreadsRun THEN mWakelockRefCount + d ELSE mWakelockRefCount
      /\ mWakelockRefCount \in Nat
  BY <1>1, <1>6 DEF Increment, WakelockTypeOK
<1>9. WakelockTypeOK' /\ NoneScoped'
  BY <1>1, <1>5, <1>7, <1>8 DEF WakelockTypeOK, NoneScoped
<1>10. /\ Owed' \in Nat /\ Owed \in Nat /\ Owed' <= Owed + w
       /\ ~overflowed' => Owed' = Owed + w
  <2>1. Owed' = WakeupsOnTheWay' + unacked' + acknowledged' + Cardinality(Fresh')
    BY DEF Owed, Fresh
  <2>2. Cardinality(Fresh') = Cardinality(Fresh)
    BY <1>1 DEF Fresh
  <2>3. Owed \in Nat /\ WakeupsOnTheWay \in Nat
    BY <1>1, OwedIsNat
  <2>4. ~overflowed' => WakeupsOnTheWay' = WakeupsOnTheWay + w
    BY <1>3, <1>4, Zenon
  <2> QED
    BY <2>1, <2>2, <2>3, <2>4, <1>1, <1>3, OwedIsSum, FreshFacts DEF WakelockTypeOK
<1>11. ASSUME mThreadsRun, ~uncounted', mWakelockRefCount >= Owed
       PROVE  mWakelockRefCount' >= Owed'
  <2>1. d = w
    BY <1>4, <1>7, <1>11, Zenon
  <2> QED
    BY <1>3, <1>8, <1>10, <1>11, <2>1
<1>12. ASSUME mThreadsRun, ~overflowed', mWakelockRefCount <= Owed
       PROVE  mWakelockRefCount' <= Owed'
  BY <1>3, <1>7, <1>8, <1>10, <1>12
<1> QED
  BY <1>1, <1>4, <1>5, <1>9, <1>11, <1>12, CountFollows, Zenon

(* An event that is read is owed until it is acknowledged.                 *)
LEMMA ReadKeeps ==
  ASSUME ProxyInv, AwakeForEvents, AsleepInTheEnd, Read
  PROVE  WakelockTypeOK' /\ NoneScoped' /\ AwakeForEvents' /\ AsleepInTheEnd'
<1>1. /\ QueueInv /\ WakelockTypeOK /\ NoneScoped /\ balance \in Int /\ FrameworkRead
      /\ unacked' = unacked - Counted
      /\ UNCHANGED <<mWakelockRefCount, scoped, acknowledged, timedOut, leftover>>
  BY Zenon DEF ProxyInv, Read, QueueInv, TypeOK
<1>2. /\ WakeupsOnTheWay' \in Nat
      /\ \/ WakeupsOnTheWay' = WakeupsOnTheWay - 1 /\ balance' = balance - 1
         \/ WakeupsOnTheWay' = WakeupsOnTheWay /\ balance' = balance
      /\ UNCHANGED <<mThreadsRun, control, overflowed, split, uncounted>>
  BY <1>1, ReadWakeups DEF controlVars
<1>3. unacked' \in Nat /\ WakeupsOnTheWay' + unacked' = WakeupsOnTheWay + unacked
  BY <1>1, <1>2, OwedIsNat DEF Counted, WakelockTypeOK
<1>4. Owed' = Owed
  <2>1. Owed' = WakeupsOnTheWay' + unacked' + acknowledged' + Cardinality(Fresh')
    BY DEF Owed, Fresh
  <2>2. Cardinality(Fresh') = Cardinality(Fresh)
    BY <1>1 DEF Fresh
  <2> QED
    BY <2>1, <2>2, <1>1, <1>3, OwedIsSum
<1>5. WakelockTypeOK' /\ NoneScoped'
  BY <1>1, <1>2, <1>3 DEF WakelockTypeOK, NoneScoped
<1> QED
  BY <1>1, <1>2, <1>4, <1>5, CountFollows, Zenon

(* The framework and the wakelock thread.                                  *)
LEMMA WakelockStepFacts ==
  ASSUME ProxyInv, UNCHANGED vars
  PROVE  /\ WakeupsOnTheWay' = WakeupsOnTheWay /\ WakeupsOnTheWay \in Nat
         /\ UNCHANGED <<mThreadsRun, control, split, uncounted, overflowed>>
<1>1. EventsOnTheWay' = EventsOnTheWay
  BY QuietStepKeeps, Zenon DEF ProxyInv, QuietStep
<1> QED
  BY <1>1, OwedIsNat DEF WakeupsOnTheWay, vars, controlVars, ledgerVars, ProxyInv

LEMMA AcknowledgeKeeps ==
  ASSUME ProxyInv, AwakeForEvents, AsleepInTheEnd, Acknowledge
  PROVE  WakelockTypeOK' /\ NoneScoped' /\ AwakeForEvents' /\ AsleepInTheEnd'
<1>1. PICK n \in 1..unacked : unacked' = unacked - n /\ acknowledged' = acknowledged + n
  BY DEF Acknowledge
<1>2. /\ UNCHANGED <<vars, mWakelockRefCount, scoped, timedOut, leftover>>
      /\ WakelockTypeOK /\ NoneScoped
  BY Zenon DEF Acknowledge, ProxyInv
<1>3. /\ WakeupsOnTheWay' = WakeupsOnTheWay /\ WakeupsOnTheWay \in Nat
      /\ UNCHANGED <<mThreadsRun, control, split, uncounted, overflowed>>
  BY <1>2, WakelockStepFacts, Zenon
<1>4. WakelockTypeOK' /\ NoneScoped'
  BY <1>1, <1>2, <1>3 DEF WakelockTypeOK, NoneScoped
<1>5. Owed' = Owed
  <2>1. Owed' = WakeupsOnTheWay' + unacked' + acknowledged' + Cardinality(Fresh')
    BY DEF Owed, Fresh
  <2>2. Cardinality(Fresh') = Cardinality(Fresh)
    BY <1>2 DEF Fresh
  <2> QED
    BY <2>1, <2>2, <1>1, <1>2, <1>3, OwedIsSum, FreshFacts DEF WakelockTypeOK
<1> QED
  BY <1>2, <1>3, <1>4, <1>5, CountFollows, Zenon

LEMMA TakeKeeps ==
  ASSUME ProxyInv, AwakeForEvents, AsleepInTheEnd,
         NEW n \in 1..acknowledged, TakeAcknowledgement(n)
  PROVE  WakelockTypeOK' /\ NoneScoped' /\ AwakeForEvents' /\ AsleepInTheEnd'
<1>1. /\ Decrement(n) /\ acknowledged' = acknowledged - n /\ WakelockTypeOK /\ NoneScoped
      /\ UNCHANGED <<vars, scoped, unacked, timedOut, leftover>>
  BY Zenon DEF TakeAcknowledgement, ProxyInv
<1>2. /\ WakeupsOnTheWay' = WakeupsOnTheWay /\ WakeupsOnTheWay \in Nat
      /\ UNCHANGED <<mThreadsRun, control, split, uncounted, overflowed>>
  BY <1>1, WakelockStepFacts, Zenon
<1>3. n \in Nat /\ n <= acknowledged /\ acknowledged \in Nat
  BY <1>1 DEF WakelockTypeOK
<1>4. Owed' = Owed - n /\ n <= Owed /\ Owed \in Nat
  <2>1. Owed' = WakeupsOnTheWay' + unacked' + acknowledged' + Cardinality(Fresh')
    BY DEF Owed, Fresh
  <2>2. Cardinality(Fresh') = Cardinality(Fresh)
    BY <1>1 DEF Fresh
  <2> QED
    BY <2>1, <2>2, <1>1, <1>2, <1>3, OwedIsSum, FreshFacts DEF WakelockTypeOK
<1>5. /\ mWakelockRefCount \in Nat /\ mWakelockRefCount' \in Nat
      /\ mThreadsRun /\ n <= mWakelockRefCount => mWakelockRefCount' = mWakelockRefCount - n
      /\ mThreadsRun /\ ~(n <= mWakelockRefCount) => mWakelockRefCount' = 0
  BY <1>1, <1>3, DecrementFacts DEF WakelockTypeOK
<1>6. WakelockTypeOK' /\ NoneScoped'
  BY <1>1, <1>2, <1>3, <1>5 DEF WakelockTypeOK, NoneScoped
<1>7. /\ mThreadsRun /\ mWakelockRefCount >= Owed => mWakelockRefCount' >= Owed'
      /\ mThreadsRun /\ mWakelockRefCount <= Owed => mWakelockRefCount' <= Owed'
  BY <1>3, <1>4, <1>5
<1> QED
  BY <1>1, <1>2, <1>6, <1>7, CountFollows, Zenon

LEMMA TimeOutKeeps ==
  ASSUME ProxyInv, AwakeForEvents, AsleepInTheEnd, TimeOut
  PROVE  WakelockTypeOK' /\ NoneScoped' /\ AwakeForEvents' /\ AsleepInTheEnd'
<1>1. /\ mThreadsRun /\ Decrement(mWakelockRefCount) /\ timedOut' = TRUE
      /\ scoped' = [c \in Clients |-> IF scoped[c] = "none" THEN "none" ELSE "stale"]
      /\ UNCHANGED <<vars, unacked, acknowledged, leftover>>
      /\ QueueInv /\ WakelockTypeOK /\ NoneScoped
  BY Zenon DEF TimeOut, ProxyInv
<1>2. /\ WakeupsOnTheWay' = WakeupsOnTheWay /\ WakeupsOnTheWay \in Nat
      /\ UNCHANGED <<mThreadsRun, control, split, uncounted, overflowed>>
  BY <1>1, WakelockStepFacts, Zenon
<1>3. mWakelockRefCount' = 0
  BY <1>1 DEF Decrement, Lesser, WakelockTypeOK
<1>4. Owed' \in Nat
  <2>1. Owed' = WakeupsOnTheWay' + unacked' + acknowledged' + Cardinality(Fresh')
    BY DEF Owed, Fresh
  <2>2. Fresh' = {}
    BY <1>1 DEF Fresh
  <2>3. Cardinality(Fresh') = 0
    BY <2>2, FS_EmptySet
  <2> QED
    BY <2>1, <2>3, <1>1, <1>2 DEF WakelockTypeOK
<1>5. WakelockTypeOK' /\ NoneScoped'
  BY <1>1, <1>2, <1>3 DEF WakelockTypeOK, NoneScoped
<1>6. AwakeForEvents'
  BY <1>1, Zenon DEF AwakeForEvents
<1>7. AsleepInTheEnd'
  BY <1>3, <1>4 DEF AsleepInTheEnd
<1> QED
  BY <1>5, <1>6, <1>7

(* A failed write gives back at least what it drops; exactly that as long  *)
(* as no post was split.                                                   *)
LEMMA WriteFailsKeeps ==
  ASSUME ProxyInv, AwakeForEvents, AsleepInTheEnd, WriteFails
  PROVE  WakelockTypeOK' /\ NoneScoped' /\ AwakeForEvents' /\ AsleepInTheEnd'
<1>1. /\ QueueInv /\ WakeupInv /\ WakelockTypeOK /\ NoneScoped /\ balance \in Int
      /\ ThreadWriteFails /\ Decrement(-Counted)
      /\ UNCHANGED <<scoped, unacked, acknowledged, timedOut, leftover>>
  BY Zenon DEF ProxyInv, WriteFails, QueueInv, TypeOK
<1>2. PICK D : D = NumWakeupEventsDropped
  OBVIOUS
<1>3. /\ D \in Nat
      /\ WakeupsOnTheWay' \in Nat
      /\ WakeupsOnTheWay' >= WakeupsOnTheWay - D
      /\ ~split => WakeupsOnTheWay' = WakeupsOnTheWay - D
      /\ balance' = IF mThreadsRun THEN balance - D ELSE balance
      /\ UNCHANGED <<mThreadsRun, control, overflowed, split, uncounted>>
  BY <1>1, <1>2, FailWakeups DEF controlVars
<1>4. PICK d : d = -Counted
  OBVIOUS
<1>5. d \in Nat /\ (mThreadsRun => d = D)
  BY <1>1, <1>3, <1>4 DEF Counted
<1>6. /\ mWakelockRefCount \in Nat /\ mWakelockRefCount' \in Nat
      /\ mThreadsRun /\ d <= mWakelockRefCount => mWakelockRefCount' = mWakelockRefCount - d
      /\ mThreadsRun /\ ~(d <= mWakelockRefCount) => mWakelockRefCount' = 0
  BY <1>1, <1>4, <1>5, DecrementFacts DEF WakelockTypeOK
<1>7. /\ Owed \in Nat /\ Owed' \in Nat /\ Owed' >= Owed - D
      /\ ~split => Owed' = Owed - D
  <2>1. Owed' = WakeupsOnTheWay' + unacked' + acknowledged' + Cardinality(Fresh')
    BY DEF Owed, Fresh
  <2>2. Cardinality(Fresh') = Cardinality(Fresh)
    BY <1>1 DEF Fresh
  <2>3. Owed \in Nat /\ WakeupsOnTheWay \in Nat
    BY <1>1, OwedIsNat
  <2> QED
    BY <2>1, <2>2, <2>3, <1>1, <1>3, OwedIsSum, FreshFacts DEF WakelockTypeOK
<1>8. WakelockTypeOK' /\ NoneScoped'
  BY <1>1, <1>3, <1>6 DEF WakelockTypeOK, NoneScoped
<1>9. ASSUME mThreadsRun, ~split', mWakelockRefCount >= Owed
      PROVE  mWakelockRefCount' >= Owed'
  <2>1. Owed' = Owed - D /\ d = D
    BY <1>3, <1>5, <1>7, <1>9
  <2> QED
    BY <1>3, <1>6, <1>7, <1>9, <2>1
<1>10. ASSUME mThreadsRun, mWakelockRefCount <= Owed
       PROVE  mWakelockRefCount' <= Owed'
  BY <1>3, <1>5, <1>6, <1>7, <1>10
<1> QED
  BY <1>1, <1>3, <1>8, <1>9, <1>10, CountFollows, Zenon

(* The other steps of the event path change neither the count nor what is  *)
(* owed.                                                                   *)
LEMMA OtherStepsKeep ==
  ASSUME ProxyInv, AwakeForEvents, AsleepInTheEnd, UNCHANGED wakelockVars,
         \/ \E c \in Clients : CheckThreadsRunning(c)
         \/ ThreadStep /\ ~ThreadWriteFails
         \/ ThreadSpuriousWake
         \/ UNCHANGED vars
  PROVE  WakelockTypeOK' /\ NoneScoped' /\ AwakeForEvents' /\ AsleepInTheEnd'
<1>1. /\ QueueInv /\ WakelockTypeOK /\ NoneScoped
      /\ UNCHANGED <<mWakelockRefCount, scoped, unacked, acknowledged, timedOut, leftover>>
  BY Zenon DEF ProxyInv, wakelockVars
<1>2. QuietStep \/ ThreadWriteSucceeds \/ ThreadFinishWrite
  BY Zenon DEF ThreadStep, QuietStep, QuietThreadStep
<1>4. /\ EventsOnTheWay' = EventsOnTheWay /\ (mThreadsRun' => mThreadsRun)
      /\ (split => split')
      /\ UNCHANGED <<uncounted, overflowed>>
  <2>1. CASE QuietStep
    BY <1>1, <2>1, QuietStepKeeps DEF ledgerVars
  <2>2. CASE ThreadWriteSucceeds
    <3>1. EventsOnTheWay' = EventsOnTheWay
      BY <1>1, <2>2, WriteSucceedsStep
    <3> QED
      BY <2>2, <3>1 DEF ThreadWriteSucceeds, controlVars, ledgerVars
  <2>3. CASE ThreadFinishWrite
    <3>1. EventsOnTheWay' = EventsOnTheWay
      BY <1>1, <2>3, FinishWriteStep
    <3>2. split' = TRUE \/ split' = split
      BY <2>3 DEF ThreadFinishWrite
    <3> QED
      BY <2>3, <3>1, <3>2 DEF ThreadFinishWrite, controlVars
  <2> QED
    BY <1>2, <2>1, <2>2, <2>3
<1>5. UNCHANGED control
  <2>1. CASE \E c \in Clients : CheckThreadsRunning(c)
    BY <2>1 DEF CheckThreadsRunning, controlVars
  <2>2. CASE ThreadStep \/ ThreadSpuriousWake
    BY <2>2 DEF ThreadStep, ThreadStart, ThreadExit, ThreadWait, ThreadSleep, ThreadWake,
                ThreadBeginWrite, ThreadWriteSucceeds, ThreadWriteFails, ThreadFinishWrite,
                ThreadSpuriousWake, controlVars
  <2>3. CASE UNCHANGED vars
    BY <2>3 DEF vars, controlVars
  <2> QED
    BY <2>1, <2>2, <2>3
<1>6. AwakeForEvents' /\ AsleepInTheEnd'
  BY <1>4, SameCount, Zenon
<1>7. WakelockTypeOK' /\ NoneScoped'
  BY <1>1, <1>5 DEF WakelockTypeOK, NoneScoped
<1> QED
  BY <1>6, <1>7

(* While the threads are stopped nothing is promised.                      *)
LEMMA StopKeeps ==
  ASSUME ProxyInv, StopStep \/ DisableSensors
  PROVE  WakelockTypeOK' /\ NoneScoped' /\ AwakeForEvents' /\ AsleepInTheEnd'
<1>1. /\ QueueInv /\ WakelockTypeOK /\ NoneScoped
      /\ StopStore \/ StopDrain \/ StopNotify \/ StopJoin \/ InitClear \/ InitDisableSensors
      /\ UNCHANGED <<mWakelockRefCount, scoped, unacked, acknowledged, timedOut, leftover>>
  BY Zenon DEF ProxyInv, wakelockVars, StopStep, DisableSensors
<1>2. ~mThreadsRun'
  BY <1>1 DEF QueueInv, ControlInv, StopStore, StopDrain, StopNotify, StopJoin, InitClear,
              InitDisableSensors, ControlGoto
<1>3. WakelockTypeOK'
  BY <1>1 DEF WakelockTypeOK
<1>4. NoneScoped'
  <2>1. CASE DisableSensors
    BY <1>1, <2>1 DEF DisableSensors, NoneScoped
  <2>2. CASE StopStep
    <3>1. control' \in {"clear", "start"} => control = "clear"
      BY <2>2 DEF StopStep, StopStore, StopDrain, StopNotify, StopJoin, InitClear, ControlGoto
    <3> QED
      BY <1>1, <3>1 DEF NoneScoped
  <2> QED
    BY <2>1, <2>2
<1> QED
  BY <1>2, <1>3, <1>4, Zenon DEF AwakeForEvents, AsleepInTheEnd

(* A new session owes nothing.                                             *)
LEMMA RestartKeeps ==
  ASSUME ProxyInv, Restart
  PROVE  WakelockTypeOK' /\ NoneScoped' /\ AwakeForEvents' /\ AsleepInTheEnd'
<1>1. /\ QueueInv /\ WakelockTypeOK /\ NoneScoped /\ InitStart
      /\ leftover' = (mWakelockRefCount > 0) /\ timedOut' = FALSE
      /\ unacked' = 0 /\ acknowledged' = 0
      /\ UNCHANGED <<mWakelockRefCount, scoped>>
  BY Zenon DEF ProxyInv, Restart
<1>2. control = "start" /\ control' = "running"
  BY <1>1 DEF InitStart, ControlGoto
<1>3. Owed' = 0
  <2>1. Owed' = WakeupsOnTheWay' + unacked' + acknowledged' + Cardinality(Fresh')
    BY DEF Owed, Fresh
  <2>2. Cardinality(Fresh') = 0
    <3>1. Fresh' = {}
      BY <1>1, <1>2 DEF Fresh, NoneScoped
    <3> QED
      BY <3>1, FS_EmptySet
  <2>3. WakeupsOnTheWay' = 0
    <3>1. {e \in {} : e.wake} = {}
      OBVIOUS
    <3>2. EventsOnTheWay' = {}
      BY <1>1, StartStep
    <3> QED
      BY <3>1, <3>2, FS_EmptySet DEF WakeupsOnTheWay
  <2> QED
    BY <1>1, <2>1, <2>2, <2>3
<1>4. WakelockTypeOK' /\ NoneScoped'
  <2>1. (mWakelockRefCount > 0) \in BOOLEAN
    BY <1>1 DEF WakelockTypeOK
  <2>2. leftover' \in BOOLEAN /\ timedOut' \in BOOLEAN
    BY <1>1, <2>1, Zenon
  <2> QED
    BY <1>1, <1>2, <2>2 DEF WakelockTypeOK, NoneScoped
<1>5. mWakelockRefCount' = mWakelockRefCount /\ mWakelockRefCount \in Nat
  BY <1>1 DEF WakelockTypeOK
<1>6. mWakelockRefCount' >= Owed' /\ (~(mWakelockRefCount > 0) => mWakelockRefCount' <= Owed')
  BY <1>3, <1>5
<1>7. AwakeForEvents' /\ AsleepInTheEnd'
  BY <1>1, <1>6, Zenon DEF AwakeForEvents, AsleepInTheEnd
<1> QED
  BY <1>4, <1>7

LEMMA ProxyStepKeeps ==
  ASSUME ProxyInv, AwakeForEvents, AsleepInTheEnd, [ProxyNext]_proxyVars
  PROVE  ProxyInv' /\ AwakeForEvents' /\ AsleepInTheEnd'
<1>1. QueueInv' /\ WakeupInv'
  BY ProxyStepIsStep, QueueInvKept, WakeupInvKept, Zenon DEF ProxyInv
<1>2. WakelockTypeOK' /\ NoneScoped' /\ AwakeForEvents' /\ AsleepInTheEnd'
  <2>1. CASE \E c \in Clients : Check(c)
    BY <2>1, OtherStepsKeep, Zenon DEF Check
  <2>2. CASE \E c \in Clients : Post(c) \/ Destroy(c) \/ \E b \in Batches : Create(c, b)
    BY <2>2, PostKeeps, DestroyKeeps, CreateKeeps, Zenon
  <2>3. CASE Read \/ Acknowledge \/ TimeOut \/ WriteFails \/ Restart
    BY <2>3, ReadKeeps, AcknowledgeKeeps, TimeOutKeeps, WriteFailsKeeps, RestartKeeps, Zenon
  <2>4. CASE \E n \in 1..acknowledged : TakeAcknowledgement(n)
    BY <2>4, TakeKeeps, Zenon
  <2>5. CASE WriteStep \/ (ThreadSpuriousWake /\ UNCHANGED wakelockVars)
    BY <2>5, OtherStepsKeep, Zenon DEF WriteStep
  <2>6. CASE StopStep \/ DisableSensors
    BY <2>6, StopKeeps
  <2>7. CASE UNCHANGED proxyVars
    <3>1. UNCHANGED vars /\ UNCHANGED wakelockVars
      BY <2>7, Zenon DEF proxyVars
    <3> QED
      BY <3>1, OtherStepsKeep, Zenon
  <2> QED
    BY <2>1, <2>2, <2>3, <2>4, <2>5, <2>6, <2>7, Zenon DEF ProxyNext
<1> QED
  BY <1>1, <1>2, Zenon DEF ProxyInv

LEMMA InitProxyInv == ProxyInit => ProxyInv /\ AwakeForEvents /\ AsleepInTheEnd
<1> SUFFICES ASSUME ProxyInit
             PROVE  ProxyInv /\ AwakeForEvents /\ AsleepInTheEnd
  OBVIOUS
<1>1. QueueInv /\ WakeupInv
  BY InitQueueInv, InitWakeupInv DEF ProxyInit
<1>2. WakelockTypeOK /\ NoneScoped
  BY DEF ProxyInit, Init, WakelockTypeOK, NoneScoped
<1>3. Owed = 0
  <2>1. Cardinality(Fresh) = 0
    <3>1. Fresh = {}
      BY DEF ProxyInit, Fresh
    <3> QED
      BY <3>1, FS_EmptySet
  <2>2. WakeupsOnTheWay = 0
    <3>1. EventsOnTheWay = {}
      BY EmptyQueue DEF ProxyInit, Init, PendingEvents, AllEvents, EventsOnTheWay
    <3>2. {e \in {} : e.wake} = {}
      OBVIOUS
    <3> QED
      BY <3>1, <3>2, FS_EmptySet DEF WakeupsOnTheWay
  <2> QED
    BY <2>1, <2>2, OwedIsSum DEF ProxyInit
<1>4. AwakeForEvents /\ AsleepInTheEnd
  BY <1>3 DEF ProxyInit, AwakeForEvents, AsleepInTheEnd
<1> QED
  BY <1>1, <1>2, <1>4 DEF ProxyInv

-----------------------------------------------------------------------------
(* The theorems.                                                           *)

(* The joined model keeps its invariant and both bounds on the count,      *)
(* through posts, give-backs, acknowledgements, timeouts and restarts.     *)
THEOREM ProxyInvCorrect == ProxySpec => [](ProxyInv /\ AwakeForEvents /\ AsleepInTheEnd)
<1>1. ProxyInv /\ AwakeForEvents /\ AsleepInTheEnd /\ [ProxyNext]_proxyVars
        => (ProxyInv /\ AwakeForEvents /\ AsleepInTheEnd)'
  BY ProxyStepKeeps, Zenon
<1> QED
  BY InitProxyInv, <1>1, PTL DEF ProxySpec

(* The count of the wakelock never wraps: it is a number in every state,   *)
(* and so is what the framework has to acknowledge.                        *)
THEOREM ProxyTypeCorrect == ProxySpec => []ProxyTypeOK
<1>1. ProxyInv => ProxyTypeOK
  BY Zenon DEF ProxyInv, QueueInv, WakelockTypeOK, ProxyTypeOK
<1> QED
  BY ProxyInvCorrect, <1>1, PTL

(* The device is kept awake for every wake-up event until it is            *)
(* acknowledged, in sessions without a timeout, a split post or a post     *)
(* without the lock: neither ~ScopedWakelock nor a failed write nor an     *)
(* acknowledgement gives back what was counted for another event.          *)
THEOREM AwakeForEventsCorrect == ProxySpec => []AwakeForEvents
  BY ProxyInvCorrect, PTL

(* The count never exceeds what is still owed: when all is acknowledged    *)
(* the wakelock is given up without the help of the timeout, unless events *)
(* were dropped or the session began with a count.                         *)
THEOREM AsleepInTheEndCorrect == ProxySpec => []AsleepInTheEnd
  BY ProxyInvCorrect, PTL
=============================================================================
