---------------------------- MODULE TouchScript -----------------------------
(***************************************************************************)
(* The property triggers of init/init.oplus.touch.rc.  init (external)     *)
(* queues a change of a property when it is set and handles the changes    *)
(* one by one: a trigger fires on a change to its value if its other       *)
(* properties have theirs by then.                                         *)
(***************************************************************************)
EXTENDS Naturals, Sequences

CONSTANTS
  Modes,          \* values given to debug.touch_polling_mode
  MaxSets         \* bound: times it is set between two reboots

ASSUME TouchAssumption == MaxSets \in Nat

VARIABLES
  debugMode,      \* debug.touch_polling_mode
  persistMode,    \* persist.vendor.touch_polling_mode
  bootCompleted,  \* sys.boot_completed is 1
  changes,        \* changes of properties that init has not handled
  gameSwitch,     \* what the driver has for game_switch_enable (external)
  sets

touchVars == <<debugMode, persistMode, bootCompleted, changes, gameSwitch, sets>>

Routed == {"0", "1"}

TouchTypeOK ==
  /\ debugMode \in Modes \cup {"unset"}
  /\ persistMode \in Routed \cup {"unset"}
  /\ bootCompleted \in BOOLEAN
  /\ changes \in Seq([name : {"debug", "persist", "boot_completed"}, value : Modes \cup Routed])
  /\ gameSwitch \in Routed
  /\ sets \in 0..MaxSets

TouchInit ==
  /\ debugMode = "unset"
  /\ persistMode = "unset"
  /\ bootCompleted = FALSE
  /\ changes = <<>>
  /\ gameSwitch = "0"
  /\ sets = 0

Changed(queue, property, v) == Append(queue, [name |-> property, value |-> v])

-----------------------------------------------------------------------------
(* Something sets the property (external).                                 *)
SetDebugMode ==
  /\ sets < MaxSets
  /\ sets' = sets + 1
  /\ \E v \in Modes : debugMode' = v /\ changes' = Changed(changes, "debug", v)
  /\ UNCHANGED <<persistMode, bootCompleted, gameSwitch>>

CompleteBoot ==
  /\ ~bootCompleted
  /\ bootCompleted' = TRUE
  /\ changes' = Changed(changes, "boot_completed", "1")
  /\ UNCHANGED <<debugMode, persistMode, gameSwitch, sets>>

(* Mutant: on property:debug.touch_polling_mode=*.                         *)
RouteAllToPersist ==
  /\ changes # <<>> /\ Head(changes).name = "debug"
  /\ persistMode' = Head(changes).value
  /\ changes' = Changed(Tail(changes), "persist", Head(changes).value)
  /\ UNCHANGED <<debugMode, bootCompleted, gameSwitch, sets>>

(* on property:debug.touch_polling_mode=0 and =1                           *)
RouteToPersist ==
  /\ changes # <<>> /\ Head(changes).name = "debug"
  /\ IF Head(changes).value \in Routed
     THEN /\ persistMode' = Head(changes).value
          /\ changes' = Changed(Tail(changes), "persist", Head(changes).value)
     ELSE changes' = Tail(changes) /\ UNCHANGED persistMode
  /\ UNCHANGED <<debugMode, bootCompleted, gameSwitch, sets>>

(* The value for which a trigger on the persistent property and            *)
(* sys.boot_completed=1 fires.  The mutant knows no change but that of the *)
(* persistent property.                                                    *)
FiresOnPersistOnly(change) ==
  IF change.name = "persist" /\ bootCompleted THEN change.value ELSE "unset"

FiresFor(change) ==
  CASE ~bootCompleted                  -> "unset"
    [] change.name = "persist"         -> change.value
    [] change.name = "boot_completed"  -> persistMode

(* on property:persist.vendor.touch_polling_mode=0 && ... and =1 && ...    *)
WriteGameSwitch ==
  /\ changes # <<>> /\ Head(changes).name # "debug"
  /\ changes' = Tail(changes)
  /\ gameSwitch' = IF FiresFor(Head(changes)) \in Routed THEN FiresFor(Head(changes))
                   ELSE gameSwitch
  /\ UNCHANGED <<debugMode, persistMode, bootCompleted, sets>>

TouchNext == SetDebugMode \/ CompleteBoot \/ RouteToPersist \/ WriteGameSwitch

-----------------------------------------------------------------------------
(* Once init has handled what was set, the last mode that was set is the   *)
(* persistent one and, when the boot is complete, the driver's: before or  *)
(* after the boot, in whatever order the changes came.                     *)
ModeSettled ==
  changes = <<>> =>
    /\ debugMode \in Routed => persistMode = debugMode
    /\ bootCompleted /\ persistMode \in Routed => gameSwitch = persistMode
=============================================================================
