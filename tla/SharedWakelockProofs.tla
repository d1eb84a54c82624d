------------------------ MODULE SharedWakelockProofs ------------------------
(***************************************************************************)
(* TLAPS proofs about SharedWakelock, for every set of clients, every      *)
(* timeout and every bound.                                                *)
(***************************************************************************)
EXTENDS SharedWakelock, SequenceTheorems, TLAPS

(* What Increment and Decrement do to the count and to the kernel lock,    *)
(* stated once: every action that touches them goes through these two.     *)
LEMMA IncrementFacts ==
  ASSUME TypeOK, NEW n \in Nat, Increment(n)
  PROVE  /\ MutexFree
         /\ mWakelockRefCount' = mWakelockRefCount + n
         /\ mWakelockRefCount' \in Nat
         /\ held' \in BOOLEAN
         /\ mWakelockRefCount = 0 => held' = TRUE
         /\ mWakelockRefCount > 0 => held' = held /\ notified' = notified
         /\ timeoutAge' = 0
         /\ notified' \in BOOLEAN
         /\ notified => notified'
         /\ thread = "sleeping" /\ mWakelockRefCount = 0 => notified'
<1>1. /\ MutexFree
      /\ mWakelockRefCount' = mWakelockRefCount + n
      /\ mWakelockRefCount' \in Nat
      /\ timeoutAge' = 0
  BY DEF TypeOK, Increment
<1>2. CASE mWakelockRefCount = 0
  <2>1. held' = TRUE /\ NotifyWakelockCV
    BY <1>2 DEF Increment
  <2>2. /\ notified' \in BOOLEAN
        /\ notified => notified'
        /\ thread = "sleeping" => notified'
    BY <2>1, Zenon DEF NotifyWakelockCV
  <2>3. QED
    BY <1>1, <1>2, <2>1, <2>2
<1>3. CASE mWakelockRefCount # 0
  <2>1. held' = held /\ notified' = notified
    BY <1>3 DEF Increment
  <2>2. held \in BOOLEAN /\ notified \in BOOLEAN /\ mWakelockRefCount \in Nat
    BY DEF TypeOK
  <2>3. QED
    BY <1>1, <1>3, <2>1, <2>2
<1>4. QED
  BY <1>2, <1>3

LEMMA DecrementFacts ==
  ASSUME TypeOK, NEW n \in Nat, NEW isStale \in BOOLEAN, Decrement(n, isStale)
  PROVE  /\ mWakelockRefCount' \in 0..mWakelockRefCount
         /\ held' \in BOOLEAN
         /\ \/ mWakelockRefCount' = mWakelockRefCount /\ held' = held
            \/ held' = (mWakelockRefCount' > 0)
<1>1. CASE mWakelockRefCount = 0 \/ isStale
  BY <1>1 DEF TypeOK, Decrement
<1>2. CASE ~(mWakelockRefCount = 0 \/ isStale)
  <2>1. mWakelockRefCount' \in 0..mWakelockRefCount
    BY <1>2 DEF TypeOK, Decrement, Lesser
  <2>2. held' = (mWakelockRefCount' # 0)
    BY <1>2 DEF Decrement
  <2>3. QED
    BY <2>1, <2>2 DEF TypeOK
<1>3. QED
  BY <1>1, <1>2

LEMMA ResetFacts ==
  ASSUME TypeOK, ResetSharedWakelock
  PROVE  /\ mWakelockRefCount' \in 0..mWakelockRefCount
         /\ held' \in BOOLEAN
         /\ \/ mWakelockRefCount' = mWakelockRefCount /\ held' = held
            \/ held' = (mWakelockRefCount' > 0)
         /\ created' \in [Clients -> ScopedAges]
<1>1. created' \in [Clients -> ScopedAges]
  BY DEF TypeOK, ResetSharedWakelock, ScopedAges
<1>2. CASE mThreadsRun
  BY <1>1, <1>2, DecrementFacts DEF TypeOK, ResetSharedWakelock
<1>3. CASE ~mThreadsRun
  BY <1>1, <1>3 DEF TypeOK, ResetSharedWakelock
<1>4. QED
  BY <1>2, <1>3

-----------------------------------------------------------------------------
(* Type correctness.                                                       *)

LEMMA TypeOKInit == Init => TypeOK
<1> SUFFICES ASSUME Init PROVE TypeOK
  OBVIOUS
<1>1. wakeLockQueue \in Seq(Nat)
  BY DEF Init
<1>2. /\ timeoutAge \in 0..(kWakelockTimeoutNs + 1)
      /\ timeLeft \in {Forever} \cup (0..kWakelockTimeoutNs)
      /\ posts \in 0..MaxPosts
      /\ restarts \in 0..MaxRestarts
  BY ConstantsAssumption DEF Init, Forever
<1>3. QED
  BY <1>1, <1>2
     DEF Init, TypeOK, ThreadStates, ClientStates, ControlStates, ScopedAges

LEMMA TypeOKClient ==
  ASSUME TypeOK, NEW c \in Clients, ClientStep(c)
  PROVE  TypeOK'
<1> USE DEF Goto, wakelockVars, threadVars, clientVars, controlVars
<1>1. ASSUME NEW lock \in BOOLEAN, CreateScoped(c, lock)
      PROVE  TypeOK'
  BY <1>1, ConstantsAssumption DEF CreateScoped, TypeOK, ClientStates
<1>2. CASE CreateScopedLocked(c)
  <2>1. Increment(1)
    BY <1>2 DEF CreateScopedLocked
  <2>2. /\ mWakelockRefCount' \in Nat /\ held' \in BOOLEAN
        /\ notified' \in BOOLEAN /\ timeoutAge' = 0
    BY <2>1, IncrementFacts
  <2>3. QED
    BY <1>2, <2>2, ConstantsAssumption
       DEF CreateScopedLocked, TypeOK, ClientStates, ScopedAges
<1>3. ASSUME NEW n \in Deltas, PostEvents(c, n)
      PROVE  TypeOK'
  BY <1>3, ConstantsAssumption DEF PostEvents, TypeOK, ClientStates
<1>4. CASE AddWakeupEvents(c)
  <2>1. Increment(delta[c]) /\ delta[c] \in Nat
    BY <1>4 DEF AddWakeupEvents, TypeOK
  <2>2. /\ mWakelockRefCount' \in Nat /\ held' \in BOOLEAN
        /\ notified' \in BOOLEAN /\ timeoutAge' = 0
    BY <2>1, IncrementFacts
  <2>3. QED
    BY <1>4, <2>2, ConstantsAssumption DEF AddWakeupEvents, TypeOK, ClientStates
<1>5. CASE DestroyScoped(c)
  BY <1>5 DEF DestroyScoped, TypeOK, ClientStates
<1>6. CASE DestroyScopedLocked(c)
  <2>1. Decrement(1, created[c] = "stale")
    BY <1>6 DEF DestroyScopedLocked
  <2>2. mWakelockRefCount' \in 0..mWakelockRefCount /\ held' \in BOOLEAN
    BY <2>1, DecrementFacts
  <2>3. QED
    BY <1>6, <2>2 DEF DestroyScopedLocked, TypeOK, ClientStates
<1>7. QED
  BY <1>1, <1>2, <1>3, <1>4, <1>5, <1>6 DEF ClientStep

LEMMA TypeOKThread ==
  ASSUME TypeOK, ThreadStep \/ ThreadSpuriousWake
  PROVE  TypeOK'
<1> USE DEF wakelockVars, threadVars, clientVars, controlVars
<1>1. CASE ThreadStart
  BY <1>1 DEF ThreadStart, TypeOK, ThreadStates
<1>2. CASE ThreadExit
  BY <1>2, ResetFacts DEF ThreadExit, TypeOK, ThreadStates
<1>3. CASE ThreadWait
  BY <1>3 DEF ThreadWait, TypeOK, ThreadStates
<1>4. CASE ThreadSleep
  BY <1>4 DEF ThreadSleep, TypeOK, ThreadStates
<1>5. CASE ThreadWake
  BY <1>5 DEF ThreadWake, TypeOK, ThreadStates
<1>6. CASE ThreadTimedOut
  BY <1>6 DEF ThreadTimedOut, TypeOK, ThreadStates
<1>7. CASE ThreadReset
  BY <1>7, ResetFacts DEF ThreadReset, TypeOK, ThreadStates
<1>8. CASE ThreadRead
  <2>1. timeLeft' \in {Forever} \cup (0..kWakelockTimeoutNs)
    BY <1>8, ConstantsAssumption DEF ThreadRead, TypeOK
  <2>2. QED
    BY <1>8, <2>1 DEF ThreadRead, TypeOK, ThreadStates
<1>9. CASE ThreadReadSucceeds
  <2>1. ack' \in Nat /\ wakeLockQueue' \in Seq(Nat)
    BY <1>9, HeadTailProperties DEF ThreadReadSucceeds, TypeOK
  <2>2. QED
    BY <1>9, <2>1 DEF ThreadReadSucceeds, TypeOK, ThreadStates
<1>10. CASE ThreadReadTimesOut
  BY <1>10 DEF ThreadReadTimesOut, TypeOK, ThreadStates
<1>11. CASE ThreadHandleAck
  <2>1. mWakelockRefCount' \in Nat /\ held' \in BOOLEAN
    <3>1. CASE mThreadsRun
      <4>1. Decrement(ack, FALSE) /\ ack \in Nat
        BY <1>11, <3>1 DEF ThreadHandleAck, TypeOK
      <4>2. mWakelockRefCount' \in 0..mWakelockRefCount /\ held' \in BOOLEAN
        BY <4>1, DecrementFacts
      <4>3. QED
        BY <4>2 DEF TypeOK
    <3>2. CASE ~mThreadsRun
      BY <1>11, <3>2 DEF ThreadHandleAck, TypeOK
    <3>3. QED
      BY <3>1, <3>2
  <2>2. QED
    BY <1>11, <2>1 DEF ThreadHandleAck, TypeOK, ThreadStates
<1>12. CASE ThreadSpuriousWake
  BY <1>12 DEF ThreadSpuriousWake, TypeOK, ThreadStates
<1>13. QED
  BY <1>1, <1>2, <1>3, <1>4, <1>5, <1>6, <1>7, <1>8, <1>9, <1>10, <1>11, <1>12
     DEF ThreadStep

LEMMA TypeOKControl ==
  ASSUME TypeOK, ControlStep
  PROVE  TypeOK'
<1> USE DEF wakelockVars, threadVars, clientVars, controlVars
<1>1. CASE StopStore
  <2>1. restarts' \in 0..MaxRestarts
    BY <1>1, ConstantsAssumption DEF StopStore, TypeOK
  <2>2. QED
    BY <1>1, <2>1 DEF StopStore, TypeOK, ControlStates
<1>2. CASE StopWake
  <2>1. wakeLockQueue' \in Seq(Nat)
    BY <1>2, AppendProperties DEF StopWake, TypeOK
  <2>2. QED
    BY <1>2, <2>1 DEF StopWake, TypeOK, ControlStates
<1>3. CASE StopNotify
  <2>1. notified' \in BOOLEAN
    BY <1>3, Zenon DEF StopNotify, NotifyWakelockCV
  <2>2. QED
    BY <1>3, <2>1 DEF StopNotify, TypeOK, ControlStates
<1>4. CASE StopJoin
  BY <1>4 DEF StopJoin, TypeOK, ControlStates
<1>5. CASE InitReset
  BY <1>5, ResetFacts DEF InitReset, TypeOK, ControlStates
<1>6. CASE InitStart
  BY <1>6 DEF InitStart, TypeOK, ControlStates, ThreadStates
<1>7. QED
  BY <1>1, <1>2, <1>3, <1>4, <1>5, <1>6 DEF ControlStep

LEMMA TypeOKStep == TypeOK /\ [Next]_vars => TypeOK'
<1> SUFFICES ASSUME TypeOK, [Next]_vars
             PROVE  TypeOK'
  OBVIOUS
<1> USE DEF wakelockVars, threadVars, clientVars, controlVars
<1>1. ASSUME NEW n \in Acks, GiveBack(n)
      PROVE  TypeOK'
  BY <1>1, ConstantsAssumption DEF GiveBack, TypeOK
<1>2. CASE GiveBackLocked
  <2>1. Decrement(giveBack, FALSE) /\ giveBack \in Nat
    BY <1>2 DEF GiveBackLocked, TypeOK
  <2>2. mWakelockRefCount' \in 0..mWakelockRefCount /\ held' \in BOOLEAN
    BY <2>1, DecrementFacts
  <2>3. QED
    BY <1>2, <2>2 DEF GiveBackLocked, TypeOK
<1>3. ASSUME NEW n \in Acks, FrameworkAck(n)
      PROVE  TypeOK'
  <2>1. wakeLockQueue' \in Seq(Nat)
    BY <1>3, ConstantsAssumption, AppendProperties DEF FrameworkAck, TypeOK
  <2>2. QED
    BY <1>3, <2>1 DEF FrameworkAck, TypeOK
<1>4. CASE Tick
  <2>1. timeoutAge' \in 0..(kWakelockTimeoutNs + 1)
    BY <1>4, ConstantsAssumption DEF Tick, TypeOK, Lesser
  <2>2. timeLeft' \in {Forever} \cup (0..kWakelockTimeoutNs)
    BY <1>4, ConstantsAssumption DEF Tick, TypeOK, Forever
  <2>3. created' \in [Clients -> ScopedAges]
    BY <1>4 DEF Tick, TypeOK, ScopedAges
  <2>4. QED
    BY <1>4, <2>1, <2>2, <2>3 DEF Tick, TypeOK
<1>5. CASE UNCHANGED vars
  BY <1>5 DEF vars, TypeOK
<1>6. QED
  BY <1>1, <1>2, <1>3, <1>4, <1>5, TypeOKClient, TypeOKThread, TypeOKControl
     DEF Next

(* The variables of handleWakelocks, its callers and stopThreads keep to   *)
(* their types: in particular the count of wake-up events, an unsigned     *)
(* size_t in the code, never underflows.                                   *)
THEOREM TypeCorrect == Spec => []TypeOK
BY TypeOKInit, TypeOKStep, PTL DEF Spec

-----------------------------------------------------------------------------
(* Safety.                                                                 *)

(* NoLostIncrementWake is not inductive by itself: the step into the sleep *)
(* comes after the test of the wait predicate, and relies on the mutex     *)
(* having kept the count at 0 in between.                                  *)
PresleepEmpty == thread = "presleep" => mWakelockRefCount = 0

Safe ==
  /\ HeldWhenCounted
  /\ NoLostIncrementWake
  /\ PresleepEmpty
  /\ ResetOnlyAfterTimeout

LEMMA IncrementSafe ==
  ASSUME TypeOK, Safe, NEW n \in Nat, Increment(n), thread' = thread
  PROVE  Safe'
<1>1. thread' \notin {"presleep", "resetting"}
  BY IncrementFacts DEF MutexFree
<1>2. CASE mWakelockRefCount = 0
  <2>1. held' = TRUE /\ (thread = "sleeping" => notified')
    BY <1>2, IncrementFacts
  <2>2. QED
    BY <1>1, <2>1
       DEF Safe, HeldWhenCounted, NoLostIncrementWake, PresleepEmpty, ResetOnlyAfterTimeout
<1>3. CASE mWakelockRefCount # 0
  <2>1. mWakelockRefCount > 0
    BY <1>3 DEF TypeOK
  <2>2. held' = held /\ notified' = notified
    BY <2>1, IncrementFacts
  <2>3. QED
    BY <1>1, <2>1, <2>2
       DEF Safe, HeldWhenCounted, NoLostIncrementWake, PresleepEmpty, ResetOnlyAfterTimeout
<1>4. QED
  BY <1>2, <1>3

(* A step that gives back, or leaves the count alone, and does not take    *)
(* the wakelock thread to a state in which the properties say something.   *)
LEMMA GiveBackSafe ==
  ASSUME TypeOK, Safe,
         mWakelockRefCount' \in 0..mWakelockRefCount,
         \/ mWakelockRefCount' = mWakelockRefCount /\ held' = held
         \/ held' = (mWakelockRefCount' > 0),
         timeoutAge' = timeoutAge,
         thread' = thread \/ thread' \notin {"presleep", "sleeping", "resetting"},
         (notified /\ thread' = "sleeping") => notified'
  PROVE  Safe'
<1>1. HeldWhenCounted'
  <2>1. CASE mWakelockRefCount' = mWakelockRefCount /\ held' = held
    BY <2>1 DEF Safe, HeldWhenCounted
  <2>2. CASE held' = (mWakelockRefCount' > 0)
    BY <2>2 DEF HeldWhenCounted
  <2>3. QED
    BY <2>1, <2>2
<1>2. NoLostIncrementWake' /\ PresleepEmpty'
  <2>1. mWakelockRefCount' > 0 => mWakelockRefCount > 0
    BY DEF TypeOK
  <2>2. mWakelockRefCount = 0 => mWakelockRefCount' = 0
    BY DEF TypeOK
  <2>3. QED
    BY <2>1, <2>2 DEF Safe, NoLostIncrementWake, PresleepEmpty
<1>3. ResetOnlyAfterTimeout'
  BY DEF TypeOK, Safe, ResetOnlyAfterTimeout
<1>4. QED
  BY <1>1, <1>2, <1>3 DEF Safe

LEMMA SafeInit == Init => Safe
BY DEF Init, Safe, HeldWhenCounted, NoLostIncrementWake, PresleepEmpty, ResetOnlyAfterTimeout

LEMMA SafeClient ==
  ASSUME TypeOK, Safe, NEW c \in Clients, ClientStep(c)
  PROVE  Safe'
<1> USE DEF wakelockVars, threadVars, clientVars, controlVars
<1>0. mWakelockRefCount \in 0..mWakelockRefCount
  BY DEF TypeOK
<1>1. ASSUME NEW lock \in BOOLEAN, CreateScoped(c, lock)
      PROVE  Safe'
  BY <1>0, <1>1, GiveBackSafe DEF CreateScoped
<1>2. CASE CreateScopedLocked(c)
  BY <1>2, IncrementSafe DEF CreateScopedLocked
<1>3. ASSUME NEW n \in Deltas, PostEvents(c, n)
      PROVE  Safe'
  BY <1>0, <1>3, GiveBackSafe DEF PostEvents
<1>4. CASE AddWakeupEvents(c)
  BY <1>4, IncrementSafe DEF AddWakeupEvents, TypeOK
<1>5. CASE DestroyScoped(c)
  BY <1>0, <1>5, GiveBackSafe DEF DestroyScoped
<1>6. CASE DestroyScopedLocked(c)
  BY <1>6, DecrementFacts, GiveBackSafe DEF DestroyScopedLocked
<1>7. QED
  BY <1>1, <1>2, <1>3, <1>4, <1>5, <1>6 DEF ClientStep

LEMMA SafeThread ==
  ASSUME TypeOK, Safe, ThreadStep \/ ThreadSpuriousWake
  PROVE  Safe'
<1> USE DEF wakelockVars, threadVars, clientVars, controlVars
<1>0. mWakelockRefCount \in 0..mWakelockRefCount
  BY DEF TypeOK
<1>1. CASE ThreadStart
  BY <1>0, <1>1, GiveBackSafe DEF ThreadStart
<1>2. CASE ThreadExit
  BY <1>2, ResetFacts, GiveBackSafe DEF ThreadExit
<1>3. CASE ThreadWait
  BY <1>3 DEF ThreadWait, Safe, HeldWhenCounted, NoLostIncrementWake,
              PresleepEmpty, ResetOnlyAfterTimeout
<1>4. CASE ThreadSleep
  BY <1>4 DEF ThreadSleep, Safe, HeldWhenCounted, NoLostIncrementWake,
              PresleepEmpty, ResetOnlyAfterTimeout
<1>5. CASE ThreadWake
  BY <1>0, <1>5, GiveBackSafe DEF ThreadWake
<1>6. CASE ThreadTimedOut
  BY <1>6 DEF ThreadTimedOut, Safe, HeldWhenCounted, NoLostIncrementWake,
              PresleepEmpty, ResetOnlyAfterTimeout
<1>7. CASE ThreadReset
  BY <1>7, ResetFacts, GiveBackSafe DEF ThreadReset
<1>8. CASE ThreadRead
  BY <1>0, <1>8, GiveBackSafe DEF ThreadRead
<1>9. CASE ThreadReadSucceeds
  BY <1>0, <1>9, GiveBackSafe DEF ThreadReadSucceeds
<1>10. CASE ThreadReadTimesOut
  BY <1>0, <1>10, GiveBackSafe DEF ThreadReadTimesOut
<1>11. CASE ThreadHandleAck
  <2>1. CASE mThreadsRun
    BY <1>11, <2>1, DecrementFacts, GiveBackSafe DEF ThreadHandleAck, TypeOK
  <2>2. CASE ~mThreadsRun
    BY <1>0, <1>11, <2>2, GiveBackSafe DEF ThreadHandleAck
  <2>3. QED
    BY <2>1, <2>2
<1>12. CASE ThreadSpuriousWake
  BY <1>0, <1>12, GiveBackSafe DEF ThreadSpuriousWake
<1>13. QED
  BY <1>1, <1>2, <1>3, <1>4, <1>5, <1>6, <1>7, <1>8, <1>9, <1>10, <1>11, <1>12
     DEF ThreadStep

LEMMA SafeControl ==
  ASSUME TypeOK, Safe, ControlStep
  PROVE  Safe'
<1> USE DEF wakelockVars, threadVars, clientVars, controlVars
<1>0. mWakelockRefCount \in 0..mWakelockRefCount
  BY DEF TypeOK
<1>1. CASE StopStore
  BY <1>0, <1>1, GiveBackSafe DEF StopStore
<1>2. CASE StopWake
  BY <1>0, <1>2, GiveBackSafe DEF StopWake
<1>3. CASE StopNotify
  <2>1. notified => notified'
    BY <1>3, Zenon DEF StopNotify, NotifyWakelockCV
  <2>2. QED
    BY <1>0, <1>3, <2>1, GiveBackSafe DEF StopNotify
<1>4. CASE StopJoin
  BY <1>0, <1>4, GiveBackSafe DEF StopJoin
<1>5. CASE InitReset
  BY <1>5, ResetFacts, GiveBackSafe DEF InitReset
<1>6. CASE InitStart
  BY <1>0, <1>6, GiveBackSafe DEF InitStart
<1>7. QED
  BY <1>1, <1>2, <1>3, <1>4, <1>5, <1>6 DEF ControlStep

LEMMA SafeStep == TypeOK /\ Safe /\ [Next]_vars => Safe'
<1> SUFFICES ASSUME TypeOK, Safe, [Next]_vars
             PROVE  Safe'
  OBVIOUS
<1> USE DEF wakelockVars, threadVars, clientVars, controlVars
<1>0. mWakelockRefCount \in 0..mWakelockRefCount
  BY DEF TypeOK
<1>1. ASSUME NEW n \in Acks, GiveBack(n)
      PROVE  Safe'
  BY <1>0, <1>1, GiveBackSafe DEF GiveBack
<1>2. CASE GiveBackLocked
  BY <1>2, DecrementFacts, GiveBackSafe DEF GiveBackLocked, TypeOK
<1>3. ASSUME NEW n \in Acks, FrameworkAck(n)
      PROVE  Safe'
  BY <1>0, <1>3, GiveBackSafe DEF FrameworkAck
<1>4. CASE Tick
  <2>1. timeoutAge > kWakelockTimeoutNs => timeoutAge' > kWakelockTimeoutNs
    BY <1>4, ConstantsAssumption DEF Tick, TypeOK, Lesser
  <2>2. QED
    BY <1>4, <2>1 DEF Tick, Safe, HeldWhenCounted, NoLostIncrementWake,
                      PresleepEmpty, ResetOnlyAfterTimeout
<1>5. CASE UNCHANGED vars
  BY <1>0, <1>5, GiveBackSafe DEF vars
<1>6. QED
  BY <1>1, <1>2, <1>3, <1>4, <1>5, SafeClient, SafeThread, SafeControl DEF Next

LEMMA SafeAlways == Spec => []Safe
BY TypeCorrect, SafeInit, SafeStep, PTL DEF Spec

(* No interleaving of posts, acknowledgements, timeouts, failed writes and *)
(* restarts releases the kernel wakelock while events are counted.         *)
THEOREM HeldCorrect == Spec => []HeldWhenCounted
BY SafeAlways, PTL DEF Safe

(* The wakelock thread never sleeps through the increment that should have *)
(* woken it, so every acquired wakelock has a thread watching its timeout. *)
THEOREM NoLostWake == Spec => []NoLostIncrementWake
BY SafeAlways, PTL DEF Safe

(* A reset throws a count away only when the timeout has really passed     *)
(* since the last increment.                                               *)
THEOREM ResetCorrect == Spec => []ResetOnlyAfterTimeout
BY SafeAlways, PTL DEF Safe

-----------------------------------------------------------------------------
(* The lock is not left behind: a step either keeps it from being held     *)
(* with nothing to count, or found it so.                                  *)
NotLeftBehind == held' /\ mWakelockRefCount' = 0 => held /\ mWakelockRefCount = 0

(* Every give-back ends in one of two ways (DecrementFacts, ResetFacts).   *)
LEMMA GiveBackNotLeftBehind ==
  ASSUME TypeOK, mWakelockRefCount' \in 0..mWakelockRefCount,
         \/ mWakelockRefCount' = mWakelockRefCount /\ held' = held
         \/ held' = (mWakelockRefCount' > 0)
  PROVE  NotLeftBehind
<1>1. CASE mWakelockRefCount' = mWakelockRefCount /\ held' = held
  BY <1>1 DEF NotLeftBehind
<1>2. CASE held' = (mWakelockRefCount' > 0)
  <2>1. mWakelockRefCount' = 0 => ~(mWakelockRefCount' > 0)
    OBVIOUS
  <2>2. QED
    BY <1>2, <2>1 DEF NotLeftBehind
<1>3. QED
  BY <1>1, <1>2

LEMMA NotLeftBehindClient ==
  ASSUME TypeOK, NEW c \in Clients, ClientStep(c)
  PROVE  NotLeftBehind \/ AddsNothing(c)
<1> USE DEF wakelockVars
<1>1. CASE \/ \E lock \in BOOLEAN : CreateScoped(c, lock)
           \/ \E n \in Deltas : PostEvents(c, n)
           \/ DestroyScoped(c)
  BY <1>1 DEF CreateScoped, PostEvents, DestroyScoped, NotLeftBehind
<1>2. CASE CreateScopedLocked(c)
  <2>1. mWakelockRefCount' = mWakelockRefCount + 1
    BY <1>2, IncrementFacts DEF CreateScopedLocked
  <2>2. QED
    BY <2>1 DEF NotLeftBehind, TypeOK
<1>3. CASE AddWakeupEvents(c)
  <2>1. Increment(delta[c]) /\ delta[c] \in Nat
    BY <1>3 DEF AddWakeupEvents, TypeOK
  <2>2. mWakelockRefCount' = mWakelockRefCount + delta[c]
    BY <2>1, IncrementFacts
  <2>3. CASE delta[c] = 0
    BY <1>3, <2>3 DEF AddWakeupEvents, Goto, AddsNothing, TypeOK
  <2>4. CASE delta[c] # 0
    BY <2>1, <2>2, <2>4 DEF NotLeftBehind, TypeOK
  <2>5. QED
    BY <2>3, <2>4
<1>4. CASE DestroyScopedLocked(c)
  <2>1. Decrement(1, created[c] = "stale")
    BY <1>4 DEF DestroyScopedLocked
  <2>2. QED
    BY <2>1, DecrementFacts, GiveBackNotLeftBehind DEF TypeOK
<1>5. QED
  BY <1>1, <1>2, <1>3, <1>4 DEF ClientStep

LEMMA NotLeftBehindThread ==
  ASSUME TypeOK, ThreadStep \/ ThreadSpuriousWake
  PROVE  NotLeftBehind
<1> USE DEF wakelockVars
<1>1. CASE ThreadExit \/ ThreadReset
  <2>1. ResetSharedWakelock
    BY <1>1 DEF ThreadExit, ThreadReset
  <2>2. QED
    BY <2>1, ResetFacts, GiveBackNotLeftBehind DEF TypeOK
<1>2. CASE ThreadHandleAck
  <2>1. CASE mThreadsRun
    <3>1. Decrement(ack, FALSE) /\ ack \in Nat
      BY <1>2, <2>1 DEF ThreadHandleAck, TypeOK
    <3>2. QED
      BY <3>1, DecrementFacts, GiveBackNotLeftBehind DEF TypeOK
  <2>2. CASE ~mThreadsRun
    BY <1>2, <2>2 DEF ThreadHandleAck, NotLeftBehind
  <2>3. QED
    BY <2>1, <2>2
<1>3. CASE ThreadStart \/ ThreadWait \/ ThreadSleep \/ ThreadWake \/ ThreadTimedOut
  BY <1>3 DEF ThreadStart, ThreadWait, ThreadSleep, ThreadWake, ThreadTimedOut, NotLeftBehind
<1>4. CASE ThreadRead \/ ThreadReadSucceeds \/ ThreadReadTimesOut \/ ThreadSpuriousWake
  BY <1>4 DEF ThreadRead, ThreadReadSucceeds, ThreadReadTimesOut, ThreadSpuriousWake,
              NotLeftBehind
<1>5. QED
  BY <1>1, <1>2, <1>3, <1>4 DEF ThreadStep

LEMMA NotLeftBehindStep ==
  ASSUME TypeOK, [Next]_vars
  PROVE  NotLeftBehind \/ \E c \in Clients : AddsNothing(c)
<1> USE DEF wakelockVars
<1>1. CASE \E c \in Clients : ClientStep(c)
  BY <1>1, NotLeftBehindClient
<1>2. CASE ThreadStep \/ ThreadSpuriousWake
  BY <1>2, NotLeftBehindThread
<1>3. CASE InitReset
  <2>1. ResetSharedWakelock
    BY <1>3 DEF InitReset
  <2>2. QED
    BY <2>1, ResetFacts, GiveBackNotLeftBehind DEF TypeOK
<1>4. CASE StopStore \/ StopWake \/ StopNotify \/ StopJoin \/ InitStart
  BY <1>4 DEF StopStore, StopWake, StopNotify, StopJoin, InitStart, NotLeftBehind
<1>5. CASE GiveBackLocked
  <2>1. Decrement(giveBack, FALSE) /\ giveBack \in Nat
    BY <1>5 DEF GiveBackLocked, TypeOK
  <2>2. QED
    BY <2>1, DecrementFacts, GiveBackNotLeftBehind DEF TypeOK
<1>6. CASE \/ \E n \in Acks : GiveBack(n)
           \/ \E n \in Acks : FrameworkAck(n)
           \/ Tick
           \/ UNCHANGED vars
  BY <1>6 DEF GiveBack, FrameworkAck, Tick, vars, NotLeftBehind
<1>7. QED
  BY <1>1, <1>2, <1>3, <1>4, <1>5, <1>6 DEF Next, ControlStep

(* The kernel wakelock comes to be kept with nothing counted only by a     *)
(* post without wake-up events (HeldOnlyWhenCounted); no give-back, stale, *)
(* late or too large, leaves it behind.                                    *)
THEOREM HeldOnlyCorrect == Spec => HeldOnlyWhenCounted
<1>1. TypeOK /\ [Next]_vars =>
        [held' /\ mWakelockRefCount' = 0 =>
           \/ held /\ mWakelockRefCount = 0
           \/ \E c \in Clients : AddsNothing(c)]_vars
  BY NotLeftBehindStep DEF NotLeftBehind
<1>2. QED
  BY <1>1, TypeCorrect, PTL DEF Spec, HeldOnlyWhenCounted

-----------------------------------------------------------------------------
(* stopThreads and the wakelock thread.  While the threads are being       *)
(* stopped, the wakelock thread does not begin to wait or to read; one     *)
(* that was already blocked in its read has something to read, since       *)
(* stopThreads writes into the queue, or finds it full.                    *)
Stopping == mThreadsRun <=> control = "running"

ReaderWoken == control \in {"notify", "join"} /\ thread = "reading" => wakeLockQueue # <<>>

Joined == control \in {"reset", "start"} => thread = "done"

StopInv == Stopping /\ ReaderWoken /\ Joined

(* What a step that is not one of stopThreads does.                        *)
LEMMA KeepsStopInv ==
  ASSUME StopInv, UNCHANGED controlVars,
         \/ UNCHANGED <<thread, wakeLockQueue>>
         \/ thread' = thread /\ wakeLockQueue' # <<>>
         \/ thread # "done" /\ thread' # "reading"
         \/ thread # "done" /\ mThreadsRun
  PROVE  StopInv'
BY DEF StopInv, Stopping, ReaderWoken, Joined, controlVars

LEMMA StopInvThread ==
  ASSUME StopInv, ThreadStep \/ ThreadSpuriousWake
  PROVE  StopInv'
<1>1. CASE ThreadStart \/ ThreadExit \/ ThreadWait \/ ThreadSleep \/ ThreadWake
  BY <1>1, KeepsStopInv
     DEF ThreadStart, ThreadExit, ThreadWait, ThreadSleep, ThreadWake, controlVars
<1>2. CASE ThreadTimedOut \/ ThreadReset \/ ThreadRead \/ ThreadSpuriousWake
  BY <1>2, KeepsStopInv
     DEF ThreadTimedOut, ThreadReset, ThreadRead, ThreadSpuriousWake, controlVars
<1>3. CASE ThreadReadSucceeds \/ ThreadReadTimesOut \/ ThreadHandleAck
  BY <1>3, KeepsStopInv
     DEF ThreadReadSucceeds, ThreadReadTimesOut, ThreadHandleAck, controlVars
<1>4. QED
  BY <1>1, <1>2, <1>3 DEF ThreadStep

LEMMA StopInvControl ==
  ASSUME TypeOK, StopInv, ControlStep
  PROVE  StopInv'
<1> USE DEF threadVars, StopInv, Stopping, ReaderWoken, Joined
<1>1. CASE StopStore \/ StopNotify \/ StopJoin \/ InitReset \/ InitStart
  BY <1>1 DEF StopStore, StopNotify, StopJoin, InitReset, InitStart
<1>2. CASE StopWake
  <2>1. wakeLockQueue' # <<>>
    <3>1. CASE Len(wakeLockQueue) < QueueCapacity
      BY <1>2, <3>1, AppendProperties DEF StopWake, TypeOK
    <3>2. CASE ~(Len(wakeLockQueue) < QueueCapacity)
      BY <1>2, <3>2, ConstantsAssumption DEF StopWake, TypeOK
    <3>3. QED
      BY <3>1, <3>2
  <2>2. QED
    BY <1>2, <2>1 DEF StopWake
<1>3. QED
  BY <1>1, <1>2 DEF ControlStep

LEMMA StopInvStep == TypeOK /\ StopInv /\ [Next]_vars => StopInv'
<1> SUFFICES ASSUME TypeOK, StopInv, [Next]_vars
             PROVE  StopInv'
  OBVIOUS
<1>1. ASSUME NEW c \in Clients, ClientStep(c)
      PROVE  UNCHANGED <<controlVars, thread, wakeLockQueue>>
  BY <1>1 DEF ClientStep, CreateScoped, CreateScopedLocked, PostEvents, AddWakeupEvents,
              DestroyScoped, DestroyScopedLocked, threadVars
<1>2. ASSUME NEW n \in Acks, GiveBack(n)
      PROVE  UNCHANGED <<controlVars, thread, wakeLockQueue>>
  BY <1>2 DEF GiveBack, threadVars
<1>3. CASE GiveBackLocked \/ Tick \/ UNCHANGED vars
  <2>1. UNCHANGED <<controlVars, thread, wakeLockQueue>>
    BY <1>3 DEF GiveBackLocked, Tick, vars, threadVars
  <2>2. QED
    BY <2>1, KeepsStopInv
<1>4. ASSUME NEW n \in Acks, FrameworkAck(n)
      PROVE  StopInv'
  <2>1. wakeLockQueue' # <<>>
    BY <1>4, ConstantsAssumption, AppendProperties DEF FrameworkAck, TypeOK
  <2>2. QED
    BY <1>4, <2>1, KeepsStopInv DEF FrameworkAck, threadVars
<1>5. QED
  BY <1>1, <1>2, <1>3, <1>4, KeepsStopInv, StopInvThread, StopInvControl DEF Next

LEMMA StopInvAlways == Spec => []StopInv
<1>1. Init => StopInv
  BY DEF Init, StopInv, Stopping, ReaderWoken, Joined
<1>2. QED
  BY <1>1, TypeCorrect, StopInvStep, PTL DEF Spec

(* A thread blocked in its read of the acknowledgements never blocks a     *)
(* stopThreads that has written into the queue: there is something to read *)
(* until it reads, and then it sees that the threads are to stop.          *)
THEOREM ReaderWokenCorrect == Spec => []ReaderWoken
BY StopInvAlways, PTL DEF StopInv

(* A join that can return stays so until it does.                          *)
JoinableKept == [][Joinable => Joinable' \/ control' = "reset"]_vars

(* Steps that neither put the thread to sleep nor take a notification away *)
(* from one asleep.                                                        *)
LEMMA KeepsJoinable ==
  ASSUME Joinable, control' = control,
         \/ thread' \notin {"presleep", "sleeping"}
         \/ thread' = thread /\ (notified => notified')
  PROVE  Joinable'
BY DEF Joinable

LEMMA NotifyKeeps ==
  ASSUME NotifyWakelockCV
  PROVE  notified => notified'
BY Zenon DEF NotifyWakelockCV

LEMMA JoinableClient ==
  ASSUME Joinable, NEW c \in Clients, ClientStep(c)
  PROVE  Joinable'
<1> USE DEF wakelockVars, threadVars, controlVars
<1>1. CASE \/ \E lock \in BOOLEAN : CreateScoped(c, lock)
           \/ \E n \in Deltas : PostEvents(c, n)
           \/ DestroyScoped(c) \/ DestroyScopedLocked(c)
  BY <1>1, KeepsJoinable DEF CreateScoped, PostEvents, DestroyScoped, DestroyScopedLocked
<1>2. CASE CreateScopedLocked(c) \/ AddWakeupEvents(c)
  <2>1. PICK n : Increment(n)
    BY <1>2 DEF CreateScopedLocked, AddWakeupEvents
  <2>2. notified => notified'
    BY <2>1, NotifyKeeps, Zenon DEF Increment
  <2>3. thread' = thread /\ control' = control
    BY <1>2 DEF CreateScopedLocked, AddWakeupEvents
  <2>4. QED
    BY <2>2, <2>3, KeepsJoinable
<1>3. QED
  BY <1>1, <1>2 DEF ClientStep

LEMMA JoinableThread ==
  ASSUME StopInv, Joinable, ThreadStep \/ ThreadSpuriousWake
  PROVE  Joinable'
<1> USE DEF controlVars
<1>1. ~mThreadsRun /\ thread # "presleep"
  BY DEF StopInv, Stopping, Joinable
<1>2. CASE ThreadWait \/ ThreadSleep
  BY <1>1, <1>2 DEF ThreadWait, ThreadSleep
<1>3. CASE ThreadStart \/ ThreadExit \/ ThreadWake \/ ThreadSpuriousWake
  BY <1>3, KeepsJoinable DEF ThreadStart, ThreadExit, ThreadWake, ThreadSpuriousWake
<1>4. CASE ThreadTimedOut \/ ThreadReset \/ ThreadRead
  BY <1>4, KeepsJoinable DEF ThreadTimedOut, ThreadReset, ThreadRead
<1>5. CASE ThreadReadSucceeds \/ ThreadReadTimesOut \/ ThreadHandleAck
  BY <1>5, KeepsJoinable DEF ThreadReadSucceeds, ThreadReadTimesOut, ThreadHandleAck
<1>6. QED
  BY <1>2, <1>3, <1>4, <1>5 DEF ThreadStep

LEMMA JoinableStep ==
  ASSUME StopInv, [Next]_vars, Joinable
  PROVE  Joinable' \/ control' = "reset"
<1> USE DEF threadVars, controlVars
<1>1. CASE \/ \E n \in Acks : GiveBack(n)
           \/ \E n \in Acks : FrameworkAck(n)
           \/ GiveBackLocked \/ Tick \/ UNCHANGED vars
  <2>1. UNCHANGED <<control, thread, notified>>
    BY <1>1 DEF GiveBack, FrameworkAck, GiveBackLocked, Tick, vars
  <2>2. QED
    BY <2>1, KeepsJoinable
<1>2. CASE ControlStep
  BY <1>2 DEF ControlStep, StopStore, StopWake, StopNotify, StopJoin, InitReset, InitStart,
              Joinable
<1>3. QED
  BY <1>1, <1>2, JoinableClient, JoinableThread DEF Next

(* The safety half of StopCompletes: once stopThreads waits in its join    *)
(* and the wakelock thread is anywhere but between its test and its sleep, *)
(* no step of any thread makes the thread sleep through the stop; the next *)
(* thing that can happen to the join is that it returns.                   *)
THEOREM JoinableCorrect == Spec => JoinableKept
<1>1. StopInv /\ [Next]_vars => [Joinable => Joinable' \/ control' = "reset"]_vars
  BY JoinableStep
<1>2. QED
  BY <1>1, StopInvAlways, PTL DEF Spec, JoinableKept
=============================================================================
