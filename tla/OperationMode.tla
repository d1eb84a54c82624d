--------------------------- MODULE OperationMode ---------------------------
(***************************************************************************)
(* The operation mode of HalProxy and of its sub-HALs (sensors/            *)
(* HalProxy.cpp): setOperationMode sets the sub-HALs one after the other   *)
(* and rolls back those already set when one refuses; initializeCommon     *)
(* initializes them all, which resets their mode (SensorsSubHal.cpp), and  *)
(* goes on when one fails.  injectSensorData relies on the agreement: it   *)
(* tests the mode of HalProxy, not that of the sub-HAL it passes data to.  *)
(*                                                                         *)
(* One binder thread serves the calls (service.cpp), so they do not        *)
(* overlap.  A sub-HAL that refuses a call is taken to change nothing.     *)
(***************************************************************************)
EXTENDS Integers

CONSTANTS
  NumSubHals,     \* mSubHalList.size()
  MaxCalls        \* bound: calls of setOperationMode and initialize

ASSUME ConstantsAssumption ==
  /\ NumSubHals \in Nat
  /\ MaxCalls \in Nat

VARIABLES
  mCurrentOperationMode,
  mode,         \* the mode of each sub-HAL
  control,      \* where the binder thread is
  target,       \* the mode asked for
  subHalIndex,  \* loop variable: of setOperationMode, of initializeCommon
  i,            \* loop variable of the rollback
  result,       \* of the last call
  calls,
  astray        \* sub-HALs that refused to be rolled back or initialized, and
                \* were not set since

vars == <<mCurrentOperationMode, mode, control, target, subHalIndex, i, result, calls, astray>>

Modes == {"NORMAL", "DATA_INJECTION"}
SubHals == 0..(NumSubHals - 1)

TypeOK ==
  /\ mCurrentOperationMode \in Modes
  /\ mode \in [SubHals -> Modes]
  /\ control \in {"idle", "set", "rollback", "initialize"}
  /\ target \in Modes
  /\ subHalIndex \in 0..NumSubHals
  /\ i \in 0..NumSubHals
  /\ result \in {"OK", "failed"}
  /\ calls \in 0..MaxCalls
  /\ astray \subseteq SubHals

Init ==
  /\ mCurrentOperationMode = "NORMAL"
  /\ mode = [s \in SubHals |-> "NORMAL"]
  /\ control = "idle"
  /\ target = "NORMAL"
  /\ subHalIndex = 0
  /\ i = 0
  /\ result = "OK"
  /\ calls = 0
  /\ astray = {}

-----------------------------------------------------------------------------
Call == calls < MaxCalls /\ calls' = calls + 1

SetMode(s, m) ==
  /\ mode' = [mode EXCEPT ![s] = m]
  /\ astray' = astray \ {s}

SetOperationMode(m) ==
  /\ control = "idle"
  /\ Call
  /\ control' = "set"
  /\ target' = m
  /\ subHalIndex' = 0
  /\ result' = "OK"
  /\ UNCHANGED <<mCurrentOperationMode, mode, i, astray>>

SetSubHal ==
  /\ control = "set"
  /\ subHalIndex < NumSubHals
  /\ SetMode(subHalIndex, target)
  /\ subHalIndex' = subHalIndex + 1
  /\ UNCHANGED <<mCurrentOperationMode, control, target, i, result, calls>>

SubHalRefuses ==
  /\ control = "set"
  /\ subHalIndex < NumSubHals
  /\ control' = "rollback"
  /\ i' = 0
  /\ result' = "failed"
  /\ UNCHANGED <<mCurrentOperationMode, mode, target, subHalIndex, calls, astray>>

SetDone ==
  /\ control = "set"
  /\ subHalIndex = NumSubHals
  /\ control' = "idle"
  /\ mCurrentOperationMode' = target
  /\ UNCHANGED <<mode, target, subHalIndex, i, result, calls, astray>>

(* The result of setOperationMode is ignored in the rollback.  The mutant  *)
(* takes the mode asked for to be the current one from the start.          *)
RollBackToTarget ==
  /\ control = "rollback"
  /\ i < subHalIndex
  /\ i' = i + 1
  /\ SetMode(i, target)
  /\ UNCHANGED <<mCurrentOperationMode, control, target, subHalIndex, result, calls>>

RollBack ==
  /\ control = "rollback"
  /\ i < subHalIndex
  /\ i' = i + 1
  /\ SetMode(i, mCurrentOperationMode)
  /\ UNCHANGED <<mCurrentOperationMode, control, target, subHalIndex, result, calls>>

RollBackRefused ==
  /\ control = "rollback"
  /\ i < subHalIndex
  /\ i' = i + 1
  /\ astray' = astray \cup {i}
  /\ UNCHANGED <<mCurrentOperationMode, mode, control, target, subHalIndex, result, calls>>

RollBackDone ==
  /\ control = "rollback"
  /\ i = subHalIndex
  /\ control' = "idle"
  /\ UNCHANGED <<mCurrentOperationMode, mode, target, subHalIndex, i, result, calls, astray>>

-----------------------------------------------------------------------------
(* initializeCommon: the queues or flags may have made the result          *)
(* BAD_VALUE before the loop, which is run all the same.                   *)
Initialize(res) ==
  /\ control = "idle"
  /\ Call
  /\ control' = "initialize"
  /\ subHalIndex' = 0
  /\ result' = res
  /\ UNCHANGED <<mCurrentOperationMode, mode, target, i, astray>>

InitializeSubHal ==
  /\ control = "initialize"
  /\ subHalIndex < NumSubHals
  /\ subHalIndex' = subHalIndex + 1
  /\ SetMode(subHalIndex, "NORMAL")
  /\ UNCHANGED <<mCurrentOperationMode, control, target, i, result, calls>>

(* Mutant: the result of the last sub-HAL wins.                            *)
InitializeSilentlyFails ==
  /\ control = "initialize"
  /\ subHalIndex < NumSubHals
  /\ subHalIndex' = subHalIndex + 1
  /\ astray' = astray \cup {subHalIndex}
  /\ UNCHANGED <<mCurrentOperationMode, mode, control, target, i, result, calls>>

InitializeFails ==
  /\ control = "initialize"
  /\ subHalIndex < NumSubHals
  /\ subHalIndex' = subHalIndex + 1
  /\ result' = "failed"
  /\ astray' = astray \cup {subHalIndex}
  /\ UNCHANGED <<mCurrentOperationMode, mode, control, target, i, calls>>

InitializeDone ==
  /\ control = "initialize"
  /\ subHalIndex = NumSubHals
  /\ control' = "idle"
  /\ mCurrentOperationMode' = "NORMAL"
  /\ UNCHANGED <<mode, target, subHalIndex, i, result, calls, astray>>

Next ==
  \/ \E m \in Modes : SetOperationMode(m)
  \/ SetSubHal
  \/ SubHalRefuses
  \/ SetDone
  \/ RollBack
  \/ RollBackRefused
  \/ RollBackDone
  \/ \E res \in {"OK", "failed"} : Initialize(res)
  \/ InitializeSubHal
  \/ InitializeFails
  \/ InitializeDone

Spec == Init /\ [][Next]_vars

-----------------------------------------------------------------------------
(* Properties.                                                             *)

(* Between calls every sub-HAL is in the mode HalProxy believes it to be   *)
(* in, after successful, failed and rolled-back calls and initializations  *)
(* in any order, except a sub-HAL that itself refused the last attempt to  *)
(* roll it back or to initialize it.                                       *)
ModesAgree ==
  control = "idle" => \A s \in SubHals \ astray : mode[s] = mCurrentOperationMode

(* A result of OK leaves no exception: neither a rollback nor an           *)
(* initialization that failed is reported as a success, and no sub-HAL     *)
(* that went astray earlier is forgotten.                                  *)
OkMeansAllAgree ==
  control = "idle" /\ result = "OK" =>
    \A s \in SubHals : mode[s] = mCurrentOperationMode
=============================================================================
