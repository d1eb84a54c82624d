---------------------------- MODULE MCSensorList ----------------------------
(***************************************************************************)
(* Instances of SensorList for TLC: two handles per sub-HAL and indices of *)
(* two bits, so that five sub-HALs reach the sign bit and the wrap-around. *)
(***************************************************************************)
EXTENDS SensorList

MCSensor(handle, direct) == [handle |-> handle, direct |-> direct, tilt |-> FALSE]

MCSensorLists ==
  {<<MCSensor(1, FALSE), MCSensor(0, TRUE)>>,
   <<MCSensor(0, FALSE), [handle |-> 1, direct |-> FALSE, tilt |-> TRUE]>>,
   <<MCSensor(1, TRUE), MCSensor(2, TRUE)>>,
   <<MCSensor(-1, TRUE)>>}
=============================================================================
