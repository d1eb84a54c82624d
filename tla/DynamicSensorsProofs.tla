------------------------ MODULE DynamicSensorsProofs ------------------------
(***************************************************************************)
(* Proofs about DynamicSensors for any threads, sensors and malformed      *)
(* handles: the framework's view and the enabled sensors follow            *)
(* mDynamicSensors over any number of restarts.                            *)
(***************************************************************************)
EXTENDS DynamicSensors, TLAPS

InConnection(t) == pc[t] \in {"connecting", "connected"}
InDisconnection(t) == pc[t] \in {"disconnecting", "disconnected"}

(* A call has work to do only while it lasts.                              *)
Phases ==
  \A t \in Threads :
    /\ pc[t] \notin {"connecting", "disconnecting"} => todo[t] = {}
    /\ pc[t] = "idle" => told[t] = {}
    /\ InDisconnection(t) => (todo[t] \cup told[t]) \cap attached = {}

(* What the map says of a sensor, against what the framework was told or   *)
(* is about to be told.                                                    *)
Agreement(t, x) ==
  IF control = "swap"
  THEN x \notin mDynamicSensors /\ ~(InConnection(t) /\ x \in todo[t] \cup told[t])
  ELSE /\ InConnection(t) /\ x \in told[t] => x \in mDynamicSensors
       /\ InDisconnection(t) /\ x \in told[t] => x \notin mDynamicSensors
       /\ x \notin told[t] /\ ~(InConnection(t) /\ x \in todo[t]) =>
            (x \in mDynamicSensors <=> x \in view)

(* A sensor that samples is known, or about to be, and none is left once   *)
(* they were disabled.                                                     *)
Known(t, x) ==
  x \in enabled =>
    /\ control \in {"idle", "disable"}
    /\ x \in view \/ (InConnection(t) /\ x \in todo[t] \cup told[t])

IInv ==
  /\ TypeOK
  /\ Phases
  /\ \A t \in Threads : \A x \in Of(t) \ straddled : Agreement(t, x) /\ Known(t, x)

-----------------------------------------------------------------------------
(* Every sensor is reported by one thread.                                 *)
LEMMA Owners ==
  /\ \A t \in Threads : Of(t) \subseteq Sensors
  /\ \A t, u \in Threads : \A x \in Of(t) : x \in Of(u) => t = u
  BY DEF Of, Sensors

LEMMA TypeInit == Init => TypeOK
  BY DEF Init, TypeOK

(* The types are kept by every step.                                       *)
LEMMA TypeStep == TypeOK /\ [Next]_vars => TypeOK'
<1> SUFFICES ASSUME TypeOK, [Next]_vars PROVE TypeOK'
  OBVIOUS
<1> USE ConstantsAssumption
<1>1. ASSUME NEW t \in Threads, NEW sensors \in SUBSET Of(t), Connect(t, sensors)
     PROVE  TypeOK'
  BY <1>1, Owners DEF Connect, TypeOK
<1>2. ASSUME NEW t \in Threads, NEW sensors \in SUBSET Of(t), Disconnect(t, sensors)
     PROVE  TypeOK'
  BY <1>2, Owners DEF Disconnect, TypeOK
<1>3. ASSUME NEW t \in Threads, NEW x \in Of(t), ConnectOne(t, x)
     PROVE  TypeOK'
  BY <1>3, Owners DEF ConnectOne, TypeOK
<1>4. ASSUME NEW t \in Threads, NEW x \in Of(t), DisconnectOne(t, x)
     PROVE  TypeOK'
  BY <1>4, Owners DEF DisconnectOne, TypeOK
<1>5. ASSUME NEW t \in Threads, Unlock(t)
     PROVE  TypeOK'
  BY <1>5, Owners DEF Unlock, TypeOK
<1>6. ASSUME NEW t \in Threads, TellConnected(t)
     PROVE  TypeOK'
  BY <1>6, Owners DEF TellConnected, TypeOK
<1>7. ASSUME NEW t \in Threads, TellDisconnected(t)
     PROVE  TypeOK'
  BY <1>7, Owners DEF TellDisconnected, TypeOK
<1>8. ASSUME NEW x \in Sensors, Activate(x)
     PROVE  TypeOK'
  BY <1>8, Owners DEF Activate, TypeOK
<1>9. ASSUME InitializeBegin
     PROVE  TypeOK'
  BY <1>9, Owners DEF InitializeBegin, TypeOK
<1>10. ASSUME InitializeDisable
     PROVE  TypeOK'
  BY <1>10, Owners DEF InitializeDisable, TypeOK
<1>11. ASSUME InitializeClear
     PROVE  TypeOK'
  <2>1. \A t \in Connecting : todo[t] \cup told[t] \subseteq Sensors
    BY Owners DEF Connecting, TypeOK
  <2>2. UNION {todo[t] \cup told[t] : t \in Connecting} \subseteq Sensors
    BY <2>1
  <2> QED
    BY <1>11, <2>2 DEF InitializeClear, TypeOK
<1>12. ASSUME InitializeSwap
     PROVE  TypeOK'
  BY <1>12, Owners DEF InitializeSwap, TypeOK
<1>13. CASE UNCHANGED vars
  BY <1>13, Owners DEF vars, TypeOK
<1> QED
  BY <1>1, <1>2, <1>3, <1>4, <1>5, <1>6, <1>7, <1>8, <1>9, <1>10, <1>11, <1>12, <1>13 DEF Next

(* So are the phases of the calls.                                         *)
LEMMA PhasesStep == TypeOK /\ Phases /\ [Next]_vars => Phases'
<1> SUFFICES ASSUME TypeOK, Phases, [Next]_vars PROVE Phases'
  OBVIOUS
<1>1. ASSUME NEW t \in Threads, NEW sensors \in SUBSET Of(t), Connect(t, sensors)
     PROVE  Phases'
  BY <1>1, Owners DEF Connect, TypeOK, Phases, InDisconnection
<1>2. ASSUME NEW t \in Threads, NEW sensors \in SUBSET Of(t), Disconnect(t, sensors)
     PROVE  Phases'
  BY <1>2, Owners DEF Disconnect, TypeOK, Phases, InDisconnection
<1>3. ASSUME NEW t \in Threads, NEW x \in Of(t), ConnectOne(t, x)
     PROVE  Phases'
  BY <1>3, Owners DEF ConnectOne, TypeOK, Phases, InDisconnection
<1>4. ASSUME NEW t \in Threads, NEW x \in Of(t), DisconnectOne(t, x)
     PROVE  Phases'
  BY <1>4, Owners DEF DisconnectOne, TypeOK, Phases, InDisconnection
<1>5. ASSUME NEW t \in Threads, Unlock(t)
     PROVE  Phases'
  BY <1>5, Owners DEF Unlock, TypeOK, Phases, InDisconnection
<1>6. ASSUME NEW t \in Threads, TellConnected(t)
     PROVE  Phases'
  BY <1>6, Owners DEF TellConnected, TypeOK, Phases, InDisconnection
<1>7. ASSUME NEW t \in Threads, TellDisconnected(t)
     PROVE  Phases'
  BY <1>7, Owners DEF TellDisconnected, TypeOK, Phases, InDisconnection
<1>8. ASSUME NEW x \in Sensors, Activate(x)
     PROVE  Phases'
  BY <1>8, Owners DEF Activate, TypeOK, Phases, InDisconnection
<1>9. ASSUME InitializeBegin
     PROVE  Phases'
  BY <1>9, Owners DEF InitializeBegin, TypeOK, Phases, InDisconnection
<1>10. ASSUME InitializeDisable
     PROVE  Phases'
  BY <1>10, Owners DEF InitializeDisable, TypeOK, Phases, InDisconnection
<1>11. ASSUME InitializeClear
     PROVE  Phases'
  BY <1>11, Owners DEF InitializeClear, TypeOK, Phases, InDisconnection
<1>12. ASSUME InitializeSwap
     PROVE  Phases'
  BY <1>12, Owners DEF InitializeSwap, TypeOK, Phases, InDisconnection
<1>13. CASE UNCHANGED vars
  BY <1>13, Owners DEF vars, TypeOK, Phases, InDisconnection
<1> QED
  BY <1>1, <1>2, <1>3, <1>4, <1>5, <1>6, <1>7, <1>8, <1>9, <1>10, <1>11, <1>12, <1>13 DEF Next

(* And what is said of each sensor.                                        *)
LEMMA SensorStep ==
  ASSUME IInv, [Next]_vars, NEW u \in Threads, NEW y \in Of(u), y \notin straddled'
  PROVE  Agreement(u, y)' /\ Known(u, y)'
<1> DEFINE Goal == Agreement(u, y)' /\ Known(u, y)'
<1> USE DEF InConnection, InDisconnection
<1>1. ASSUME NEW t \in Threads, NEW sensors \in SUBSET Of(t), Connect(t, sensors)
     PROVE  Goal
  BY <1>1, Owners DEF Connect, IInv, TypeOK, Phases, Agreement, Known, MutexFree, Connecting
<1>2. ASSUME NEW t \in Threads, NEW sensors \in SUBSET Of(t), Disconnect(t, sensors)
     PROVE  Goal
  BY <1>2, Owners DEF Disconnect, IInv, TypeOK, Phases, Agreement, Known, MutexFree, Connecting
<1>3. ASSUME NEW t \in Threads, NEW x \in Of(t), ConnectOne(t, x)
     PROVE  Goal
  BY <1>3, Owners DEF ConnectOne, IInv, TypeOK, Phases, Agreement, Known, MutexFree, Connecting
<1>4. ASSUME NEW t \in Threads, NEW x \in Of(t), DisconnectOne(t, x)
     PROVE  Goal
  BY <1>4, Owners DEF DisconnectOne, IInv, TypeOK, Phases, Agreement, Known, MutexFree, Connecting
<1>5. ASSUME NEW t \in Threads, Unlock(t)
     PROVE  Goal
  BY <1>5, Owners DEF Unlock, IInv, TypeOK, Phases, Agreement, Known, MutexFree, Connecting
<1>6. ASSUME NEW t \in Threads, TellConnected(t)
     PROVE  Goal
  BY <1>6, Owners DEF TellConnected, IInv, TypeOK, Phases, Agreement, Known, MutexFree, Connecting
<1>7. ASSUME NEW t \in Threads, TellDisconnected(t)
     PROVE  Goal
  BY <1>7, Owners DEF TellDisconnected, IInv, TypeOK, Phases, Agreement, Known, MutexFree, Connecting
<1>8. ASSUME NEW x \in Sensors, Activate(x)
     PROVE  Goal
  BY <1>8, Owners DEF Activate, IInv, TypeOK, Phases, Agreement, Known, MutexFree, Connecting
<1>9. ASSUME InitializeBegin
     PROVE  Goal
  BY <1>9, Owners DEF InitializeBegin, IInv, TypeOK, Phases, Agreement, Known, MutexFree, Connecting
<1>10. ASSUME InitializeDisable
     PROVE  Goal
  BY <1>10, Owners DEF InitializeDisable, IInv, TypeOK, Phases, Agreement, Known, MutexFree, Connecting
<1>11. ASSUME InitializeClear
     PROVE  Goal
  BY <1>11, Owners DEF InitializeClear, IInv, TypeOK, Phases, Agreement, Known, MutexFree, Connecting
<1>12. ASSUME InitializeSwap
     PROVE  Goal
  BY <1>12, Owners DEF InitializeSwap, IInv, TypeOK, Phases, Agreement, Known, MutexFree, Connecting
<1>13. CASE UNCHANGED vars
  BY <1>13, Owners DEF vars, IInv, TypeOK, Phases, Agreement, Known, MutexFree, Connecting
<1> QED
  BY <1>1, <1>2, <1>3, <1>4, <1>5, <1>6, <1>7, <1>8, <1>9, <1>10, <1>11, <1>12, <1>13 DEF Next

LEMMA Invariance == Spec => []IInv
<1>1. Init => IInv
  <2>1. Init => Phases
    BY DEF Init, Phases, InDisconnection
  <2>2. ASSUME Init, NEW t \in Threads, NEW x \in Of(t) \ straddled
        PROVE  Agreement(t, x) /\ Known(t, x)
    BY <2>2 DEF Init, Agreement, Known, InConnection, InDisconnection
  <2> QED
    BY <2>1, <2>2, TypeInit DEF IInv
<1>2. IInv /\ [Next]_vars => IInv'
  <2> SUFFICES ASSUME IInv, [Next]_vars PROVE IInv'
    OBVIOUS
  <2>1. TypeOK' /\ Phases'
    BY TypeStep, PhasesStep DEF IInv
  <2>2. ASSUME NEW t \in Threads, NEW x \in Of(t), x \notin straddled'
        PROVE  Agreement(t, x)' /\ Known(t, x)'
    BY <2>2, SensorStep
  <2>3. \A t \in Threads : \A x \in Of(t) : Of(t)' = Of(t)
    BY DEF Of
  <2> QED
    BY <2>1, <2>2, <2>3 DEF IInv
<1> QED
  BY <1>1, <1>2, PTL DEF Spec

(* The types, with the malformed handles out of the map, of every callback *)
(* and of the framework's view, for any threads and handles.               *)
THEOREM TypeCorrect == Spec => []TypeOK
<1>1. IInv => TypeOK
  BY DEF IInv
<1> QED
  BY <1>1, Invariance, PTL

(* The callbacks of onDynamicSensorsConnected and Disconnected, made       *)
(* outside the mutex, do not drift from mDynamicSensors.                   *)
THEOREM ViewCorrect == Spec => []ViewAgrees
<1>1. IInv => ViewAgrees
  <2> SUFFICES ASSUME IInv, control # "swap", NEW t \in Threads, pc[t] = "idle",
                      NEW x \in Of(t) \ straddled
               PROVE  x \in mDynamicSensors <=> x \in view
    BY DEF ViewAgrees
  <2> QED
    BY DEF IInv, Phases, Agreement, InConnection
<1> QED
  BY <1>1, Invariance, PTL

(* initializeCommon leaves no dynamic sensor on that the framework does    *)
(* not know.                                                               *)
THEOREM EnabledCorrect == Spec => []NoneLeftEnabled
<1>1. IInv => NoneLeftEnabled
  <2> SUFFICES ASSUME IInv, NEW t \in Threads, pc[t] = "idle",
                      NEW x \in enabled \cap Of(t), x \notin straddled
               PROVE  x \in view
    BY DEF NoneLeftEnabled
  <2> QED
    BY DEF IInv, Known, InConnection
<1> QED
  BY <1>1, Invariance, PTL
=============================================================================
