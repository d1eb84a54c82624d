----------------------------- MODULE SensorList -----------------------------
(***************************************************************************)
(* The construction of HalProxy (sensors/HalProxy.cpp): the sub-HALs of    *)
(* the configuration files are loaded, their sensors are listed under      *)
(* handles that carry the index of the sub-HAL in the first byte, and one  *)
(* sub-HAL is chosen for direct channels.  After that the list is what     *)
(* activate, batch, flush, injectSensorData and configDirectReport         *)
(* dispatch on.                                                            *)
(*                                                                         *)
(* Handles are int32_t.  A handle has HandlesPerSubHal values below its    *)
(* first byte (2^24) and 2 * SignIndex values in it (SignIndex is 128: the *)
(* index that sets the sign bit).                                          *)
(***************************************************************************)
EXTENDS Integers, Sequences

CONSTANTS
  HandlesPerSubHal,   \* 2^kBitsAfterSubHalIndex
  SignIndex,          \* half the values of a byte
  SensorLists,        \* what a sub-HAL may list
  MaxSubHals          \* bound: sub-HALs in the configuration files

Handle32 == (-(SignIndex * HandlesPerSubHal))..(SignIndex * HandlesPerSubHal - 1)

(* The direct flag stands for MASK_DIRECT_REPORT and MASK_DIRECT_CHANNEL.  *)
Sensor == [handle : Handle32, direct : BOOLEAN, tilt : BOOLEAN]

ASSUME ConstantsAssumption ==
  /\ HandlesPerSubHal \in Nat \ {0}
  /\ SignIndex \in Nat \ {0}
  /\ SensorLists \subseteq Seq(Sensor)
  /\ MaxSubHals \in Nat

VARIABLES
  mSubHalList,            \* the lists of the sub-HALs loaded
  phase,                  \* "loading", "listing" or "serving"
  subHalIndex,            \* cursor of initializeSensorList, from 0 as in the code
  position,               \* sensors of that sub-HAL that are listed
  mSensors,               \* the entries of the sensor list
  mDirectChannelSubHal    \* index of the chosen sub-HAL, or NoSubHal

vars == <<mSubHalList, phase, subHalIndex, position, mSensors, mDirectChannelSubHal>>

NoSubHal == -1

(* An entry of mSensors: its key, the sub-HAL it is of, the handle there,  *)
(* and what the framework is told about it.                                *)
Entry == [key : Handle32, subHal : Nat, handle : Handle32, direct : BOOLEAN,
          pickUp : BOOLEAN]

TypeOK ==
  /\ mSubHalList \in Seq(SensorLists)
  /\ phase \in {"loading", "listing", "serving"}
  /\ subHalIndex \in 0..Len(mSubHalList)
  /\ position \in Nat
  /\ mSensors \subseteq Entry
  /\ mDirectChannelSubHal \in {NoSubHal} \cup Nat

Init ==
  /\ mSubHalList = <<>>
  /\ phase = "loading"
  /\ subHalIndex = 0
  /\ position = 0
  /\ mSensors = {}
  /\ mDirectChannelSubHal = NoSubHal

-----------------------------------------------------------------------------
(* Handles.                                                                *)

(* The conversion of a number of 32 bits to int32_t.  The mutant has more  *)
(* bits.                                                                   *)
ToWiderInt(n) == n

ToInt32(n) ==
  LET bits == n % (2 * SignIndex * HandlesPerSubHal)
  IN  IF bits < SignIndex * HandlesPerSubHal
      THEN bits
      ELSE bits - 2 * SignIndex * HandlesPerSubHal

SubHalIndexIsClear(handle) == handle \in 0..(HandlesPerSubHal - 1)

(* Of a handle whose first byte is clear: the "or" is an addition.         *)
SetSubHalIndex(handle, index) == ToInt32(handle + index * HandlesPerSubHal)

(* The shift keeps the sign: the size_t of a negative handle is larger     *)
(* than any number of sub-HALs, as its negative index here is not in 0..n. *)
ExtractSubHalIndex(handle) == handle \div HandlesPerSubHal

ClearSubHalIndex(handle) == handle % HandlesPerSubHal

IsSubHalIndexValidButLast(handle) ==   \* mutant: off by one
  ExtractSubHalIndex(handle) \in 0..(Len(mSubHalList) - 2)

IsSubHalIndexValid(handle) ==
  ExtractSubHalIndex(handle) \in 0..(Len(mSubHalList) - 1)

-----------------------------------------------------------------------------
(* initializeSubHalListFromConfigFile: a library that can be opened and    *)
(* has the version it should is appended; others are skipped.              *)
LoadSubHal(list) ==
  /\ phase = "loading"
  /\ Len(mSubHalList) < MaxSubHals
  /\ mSubHalList' = Append(mSubHalList, list)
  /\ UNCHANGED <<phase, subHalIndex, position, mSensors, mDirectChannelSubHal>>

LoadingDone ==
  /\ phase = "loading"
  /\ phase' = "listing"
  /\ UNCHANGED <<mSubHalList, subHalIndex, position, mSensors, mDirectChannelSubHal>>

-----------------------------------------------------------------------------
(* initializeSensorList.                                                   *)

List == mSubHalList[subHalIndex + 1]
NextSensor == List[position + 1]

(* setDirectChannelFlags: the first sub-HAL with such a sensor gets the    *)
(* direct channels, and the sensors of all later ones lose their flags.    *)
ChosenSubHal(sensor) ==
  IF mDirectChannelSubHal = NoSubHal /\ sensor.direct
  THEN subHalIndex
  ELSE mDirectChannelSubHal

KeepsDirectAnyway(sensor) ==   \* mutant: later sub-HALs keep the flags
  sensor.direct

KeepsDirect(sensor) ==
  sensor.direct /\ mDirectChannelSubHal \in {NoSubHal, subHalIndex}

ListedEntry(sensor) ==
  [key |-> SetSubHalIndex(sensor.handle, subHalIndex),
   subHal |-> subHalIndex,
   handle |-> sensor.handle,
   direct |-> KeepsDirect(sensor),
   pickUp |-> sensor.tilt]

(* The mutant looks up the entry before the index is in the handle.        *)
ListSensorByHandle ==
  /\ phase = "listing"
  /\ subHalIndex < Len(mSubHalList)
  /\ position < Len(List)
  /\ position' = position + 1
  /\ IF SubHalIndexIsClear(NextSensor.handle)
     THEN /\ mSensors' = {e \in mSensors : e.key # NextSensor.handle}
                           \cup {ListedEntry(NextSensor)}
          /\ mDirectChannelSubHal' = ChosenSubHal(NextSensor)
     ELSE UNCHANGED <<mSensors, mDirectChannelSubHal>>
  /\ UNCHANGED <<mSubHalList, phase, subHalIndex>>

(* The entry replaces one of the same key.                                 *)
ListSensor ==
  /\ phase = "listing"
  /\ subHalIndex < Len(mSubHalList)
  /\ position < Len(List)
  /\ position' = position + 1
  /\ IF SubHalIndexIsClear(NextSensor.handle)
     THEN LET entry == ListedEntry(NextSensor) IN
          /\ mSensors' = {e \in mSensors : e.key # entry.key} \cup {entry}
          /\ mDirectChannelSubHal' = ChosenSubHal(NextSensor)
     ELSE UNCHANGED <<mSensors, mDirectChannelSubHal>>
  /\ UNCHANGED <<mSubHalList, phase, subHalIndex>>

(* At the end of a list, or when its getSensorsList fails.                 *)
NextSubHal ==
  /\ phase = "listing"
  /\ subHalIndex < Len(mSubHalList)
  /\ position \in {0, Len(List)}
  /\ subHalIndex' = subHalIndex + 1
  /\ position' = 0
  /\ UNCHANGED <<mSubHalList, phase, mSensors, mDirectChannelSubHal>>

ListingDone ==
  /\ phase = "listing"
  /\ subHalIndex = Len(mSubHalList)
  /\ phase' = "serving"
  /\ UNCHANGED <<mSubHalList, subHalIndex, position, mSensors, mDirectChannelSubHal>>

Next ==
  \/ \E list \in SensorLists : LoadSubHal(list)
  \/ LoadingDone
  \/ ListSensor
  \/ NextSubHal
  \/ ListingDone

Spec == Init /\ [][Next]_vars

-----------------------------------------------------------------------------
(* Dispatch: the sub-HAL a call is forwarded to, and the handle there.     *)

BadValue == [result |-> "BAD_VALUE"]
Forward(index, handle) == [result |-> "forwarded", subHal |-> index, handle |-> handle]

(* activate, batch, flush, injectSensorData                                *)
Dispatch(handle) ==
  IF IsSubHalIndexValid(handle)
  THEN Forward(ExtractSubHalIndex(handle), ClearSubHalIndex(handle))
  ELSE BadValue

InvalidOperation == [result |-> "INVALID_OPERATION"]

AllSensors == -1                 \* the handle that means all of them
RateLevels == {"STOP", "NORMAL"} \* NORMAL stands for every rate but STOP

(* configDirectReport: whatever the first byte says, it goes to the        *)
(* sub-HAL of the direct channels.  The handle of all sensors is for       *)
(* stopping only, and is forwarded as it is.                               *)
ConfigDirectReport(handle, rate) ==
  IF mDirectChannelSubHal = NoSubHal
  THEN InvalidOperation
  ELSE IF handle # AllSensors
  THEN Forward(mDirectChannelSubHal, ClearSubHalIndex(handle))
  ELSE IF rate = "STOP"
  THEN Forward(mDirectChannelSubHal, AllSensors)
  ELSE BadValue

-----------------------------------------------------------------------------
(* Properties.                                                             *)

(* A call for a listed sensor reaches the sub-HAL that listed it, with the *)
(* handle it knows, as long as the index of the sub-HAL leaves the sign    *)
(* bit alone: its addition, sign-extending shift and mask invert each      *)
(* other.  Sensors of later sub-HALs are listed but refused.               *)
DispatchedToOwner ==
  phase = "serving" =>
    \A e \in mSensors :
      IF e.subHal < SignIndex
      THEN Dispatch(e.key) = Forward(e.subHal, e.handle)
      ELSE Dispatch(e.key) = BadValue \/ Len(mSubHalList) > 2 * SignIndex

(* Every sensor the framework may open a direct channel for is of the      *)
(* sub-HAL that configDirectReport forwards to without looking, and so a   *)
(* stop of all sensors reaches it too: the order in which sensors with and *)
(* without the flags are listed does not matter.  The exception is the     *)
(* sensor that was listed under the handle of all sensors, the last one of *)
(* the last index of a byte: its sub-HAL is one whose sensors Dispatch     *)
(* refuses.                                                                *)
DirectReportToOwner ==
  \A e \in mSensors : e.direct =>
    /\ e.key # AllSensors =>
         \A rate \in RateLevels :
           ConfigDirectReport(e.key, rate) = Forward(e.subHal, e.handle)
    /\ e.key = AllSensors => e.subHal >= SignIndex
    /\ ConfigDirectReport(AllSensors, "STOP") = Forward(e.subHal, AllSensors)

(* No sensor takes the place of one of another sub-HAL, unless there are   *)
(* more sub-HALs than a byte can tell apart: then the key of one is that   *)
(* of another.                                                             *)
NoneReplaced ==
  [][Len(mSubHalList) <= 2 * SignIndex =>
       \A e \in mSensors : e \in mSensors' \/ e.subHal = subHalIndex]_vars
=============================================================================
