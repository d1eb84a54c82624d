--------------------------- MODULE DynamicSensors ---------------------------
(***************************************************************************)
(* The dynamic sensors of HalProxy (sensors/HalProxy.cpp).  Threads of the *)
(* sub-HALs report sensors that come and go: under mDynamicSensorsMutex    *)
(* the call changes mDynamicSensors, sensor by sensor, and only after the  *)
(* unlock it calls the framework.  Meanwhile the binder thread activates   *)
(* sensors and runs initializeCommon, which disables the dynamic sensors   *)
(* under the mutex, and then forgets them and replaces the callback        *)
(* without it.                                                             *)
(*                                                                         *)
(* The calls for one sensor come from one thread.  The clear of the map    *)
(* beside an insertion is a data race: it is taken to come before or after *)
(* the insertion (the build may also crash, which is not modelled).        *)
(***************************************************************************)
EXTENDS FiniteSets

CONSTANTS
  Threads,      \* threads of sub-HALs that report sensors
  Handles,      \* the sensors one of them reports
  Malformed     \* sensors with a handle whose first byte is not 0

Sensors == Threads \X Handles

ASSUME ConstantsAssumption == Malformed \subseteq Sensors

VARIABLES
  mDynamicSensors,  \* keys of the map
  pc,               \* where each thread is
  todo,             \* sensors of its call that are still to be looked at
  told,             \* sensors its callback will tell the framework of
  control,          \* where the binder thread is in initializeCommon, or "idle"
  view,             \* what the framework behind the current callback was told
  attached,         \* sensors the sub-HALs have
  enabled,          \* ... and sample
  straddled         \* sensors whose last connection overlapped initializeCommon

vars == <<mDynamicSensors, pc, todo, told, control, view, attached, enabled, straddled>>

Of(t) == {t} \X Handles

TypeOK ==
  /\ mDynamicSensors \subseteq Sensors \ Malformed
  /\ pc \in [Threads -> {"idle", "connecting", "connected", "disconnecting", "disconnected"}]
  /\ todo \in [Threads -> SUBSET Sensors]
  /\ told \in [Threads -> SUBSET (Sensors \ Malformed)]
  /\ \A t \in Threads : todo[t] \cup told[t] \subseteq Of(t)
  /\ control \in {"idle", "disable", "clear", "swap"}
  /\ view \subseteq Sensors \ Malformed
  /\ attached \subseteq Sensors
  /\ enabled \subseteq attached \ Malformed
  /\ straddled \subseteq Sensors

Init ==
  /\ mDynamicSensors = {}
  /\ pc = [t \in Threads |-> "idle"]
  /\ todo = [t \in Threads |-> {}]
  /\ told = [t \in Threads |-> {}]
  /\ control = "idle"
  /\ view = {}
  /\ attached = {}
  /\ enabled = {}
  /\ straddled = {}

MutexFree == \A t \in Threads : pc[t] \notin {"connecting", "disconnecting"}

-----------------------------------------------------------------------------
(* onDynamicSensorsConnected                                               *)

Connect(t, sensors) ==
  /\ pc[t] = "idle"
  /\ MutexFree
  /\ pc' = [pc EXCEPT ![t] = "connecting"]
  /\ todo' = [todo EXCEPT ![t] = sensors]
  /\ attached' = attached \cup sensors
  /\ straddled' = CASE control = "swap" -> straddled \cup sensors
                    [] control = "clear" -> straddled
                    [] OTHER -> straddled \ sensors
  /\ UNCHANGED <<mDynamicSensors, told, control, view, enabled>>

ConnectOneUnchecked(t, x) ==   \* mutant: the first byte is not looked at
  /\ pc[t] = "connecting"
  /\ x \in todo[t]
  /\ todo' = [todo EXCEPT ![t] = @ \ {x}]
  /\ mDynamicSensors' = mDynamicSensors \cup {x}
  /\ told' = [told EXCEPT ![t] = @ \cup {x}]
  /\ UNCHANGED <<pc, control, view, attached, enabled, straddled>>

ConnectOne(t, x) ==
  /\ pc[t] = "connecting"
  /\ x \in todo[t]
  /\ todo' = [todo EXCEPT ![t] = @ \ {x}]
  /\ IF x \in Malformed
     THEN UNCHANGED <<mDynamicSensors, told>>
     ELSE /\ mDynamicSensors' = mDynamicSensors \cup {x}
          /\ told' = [told EXCEPT ![t] = @ \cup {x}]
  /\ UNCHANGED <<pc, control, view, attached, enabled, straddled>>

(* The end of the locked scope, of this call and of the next.              *)
Unlock(t) ==
  /\ pc[t] \in {"connecting", "disconnecting"}
  /\ todo[t] = {}
  /\ pc' = [pc EXCEPT ![t] = IF @ = "connecting" THEN "connected" ELSE "disconnected"]
  /\ UNCHANGED <<mDynamicSensors, todo, told, control, view, attached, enabled, straddled>>

TellConnected(t) ==
  /\ pc[t] = "connected"
  /\ pc' = [pc EXCEPT ![t] = "idle"]
  /\ view' = view \cup told[t]
  /\ told' = [told EXCEPT ![t] = {}]
  /\ UNCHANGED <<mDynamicSensors, todo, control, attached, enabled, straddled>>

-----------------------------------------------------------------------------
(* onDynamicSensorsDisconnected: the sub-HAL has lost the sensors.         *)

Disconnect(t, sensors) ==
  /\ pc[t] = "idle"
  /\ MutexFree
  /\ pc' = [pc EXCEPT ![t] = "disconnecting"]
  /\ todo' = [todo EXCEPT ![t] = sensors]
  /\ attached' = attached \ sensors
  /\ enabled' = enabled \ sensors
  /\ UNCHANGED <<mDynamicSensors, told, control, view, straddled>>

DisconnectOne(t, x) ==
  /\ pc[t] = "disconnecting"
  /\ x \in todo[t]
  /\ todo' = [todo EXCEPT ![t] = @ \ {x}]
  /\ mDynamicSensors' = mDynamicSensors \ {x}
  /\ told' = [told EXCEPT ![t] = @ \cup ({x} \cap mDynamicSensors)]
  /\ UNCHANGED <<pc, control, view, attached, enabled, straddled>>

TellDisconnected(t) ==
  /\ pc[t] = "disconnected"
  /\ pc' = [pc EXCEPT ![t] = "idle"]
  /\ view' = view \ told[t]
  /\ told' = [told EXCEPT ![t] = {}]
  /\ UNCHANGED <<mDynamicSensors, todo, control, attached, enabled, straddled>>

-----------------------------------------------------------------------------
(* The binder thread.                                                      *)

(* activate does not ask whether the sensor is in mDynamicSensors.         *)
Activate(x) ==
  /\ control = "idle"
  /\ x \in view \cap attached
  /\ enabled' \in {enabled \cup {x}, enabled \ {x}}
  /\ UNCHANGED <<mDynamicSensors, pc, todo, told, control, view, attached, straddled>>

InitializeBegin ==
  /\ control = "idle"
  /\ control' = "disable"
  /\ UNCHANGED <<mDynamicSensors, pc, todo, told, view, attached, enabled, straddled>>

InitializeDisableStatic ==   \* mutant: only the sensors of mSensors
  /\ control = "disable"
  /\ MutexFree
  /\ control' = "clear"
  /\ UNCHANGED <<mDynamicSensors, pc, todo, told, view, attached, enabled, straddled>>

InitializeDisable ==
  /\ control = "disable"
  /\ MutexFree
  /\ control' = "clear"
  /\ enabled' = enabled \ mDynamicSensors
  /\ UNCHANGED <<mDynamicSensors, pc, todo, told, view, attached, straddled>>

Connecting == {t \in Threads : pc[t] \in {"connecting", "connected"}}

InitializeKeep ==   \* mutant: the map is not cleared
  /\ control = "clear"
  /\ control' = "swap"
  /\ straddled' = straddled \cup UNION {todo[t] \cup told[t] : t \in Connecting}
  /\ UNCHANGED <<mDynamicSensors, pc, todo, told, view, attached, enabled>>

(* Without the mutex.                                                      *)
InitializeClear ==
  /\ control = "clear"
  /\ control' = "swap"
  /\ mDynamicSensors' = {}
  /\ straddled' = straddled \cup UNION {todo[t] \cup told[t] : t \in Connecting}
  /\ UNCHANGED <<pc, todo, told, view, attached, enabled>>

InitializeSwap ==
  /\ control = "swap"
  /\ control' = "idle"
  /\ view' = {}
  /\ UNCHANGED <<mDynamicSensors, pc, todo, told, attached, enabled, straddled>>

Next ==
  \/ \E t \in Threads :
       \/ \E sensors \in SUBSET Of(t) : Connect(t, sensors) \/ Disconnect(t, sensors)
       \/ \E x \in Of(t) : ConnectOne(t, x) \/ DisconnectOne(t, x)
       \/ Unlock(t)
       \/ TellConnected(t)
       \/ TellDisconnected(t)
  \/ \E x \in Sensors : Activate(x)
  \/ InitializeBegin
  \/ InitializeDisable
  \/ InitializeClear
  \/ InitializeSwap

Spec == Init /\ [][Next]_vars

-----------------------------------------------------------------------------
(* Properties.                                                             *)

(* Of a sensor that no call is under way for, the framework was told what  *)
(* mDynamicSensors says, except from the clear to the swap: the callbacks, *)
(* made outside the mutex, do not drift from the map over any number of    *)
(* restarts.  A sensor whose last connection overlapped the clear or the   *)
(* swap is out of it: the framework may keep it although the map lost it   *)
(* (and then its disconnection is filtered out), or never hear of it.      *)
ViewAgrees ==
  control # "swap" =>
    \A t \in Threads : pc[t] = "idle" =>
      \A x \in Of(t) \ straddled : x \in mDynamicSensors <=> x \in view

(* A sensor that samples is one the framework knows, and can disable:      *)
(* initializeCommon leaves none running that only the old framework knew,  *)
(* except those whose last connection overlapped an initialization.        *)
NoneLeftEnabled ==
  control = "idle" =>
    \A t \in Threads : pc[t] = "idle" =>
      enabled \cap Of(t) \subseteq view \cup straddled
=============================================================================
