------------------------------- MODULE Device -------------------------------
(***************************************************************************)
(* What the device keeps outside its sensors, across reboots: the gestures *)
(* of PowerFeature, the properties of InitProperties and the touch panel   *)
(* mode of TouchScript.  A reboot ends the calls, and leaves the drivers   *)
(* and all properties but the persistent one as the image has them.        *)
(***************************************************************************)
EXTENDS PowerFeature, InitProperties, TouchScript

CONSTANT MaxReboots     \* bound: reboots of the device

ASSUME DeviceAssumption == MaxReboots \in Nat

VARIABLES loaded, reboots

deviceVars == <<powerVars, bootVars, touchVars, loaded, reboots>>

DeviceTypeOK ==
  /\ PowerTypeOK
  /\ TouchTypeOK
  /\ loaded \in BOOLEAN
  /\ reboots \in 0..MaxReboots

DeviceInit ==
  /\ PowerInit /\ PropertiesInit /\ TouchInit
  /\ loaded = FALSE
  /\ reboots = 0

(* init loads the properties before it starts anything else.               *)
LoadProperties ==
  /\ ~loaded
  /\ loaded' = TRUE
  /\ vendor_load_properties
  /\ UNCHANGED <<powerVars, touchVars, reboots>>

Run ==
  /\ loaded
  /\ \/ PowerNext /\ UNCHANGED touchVars
     \/ TouchNext /\ UNCHANGED powerVars
  /\ UNCHANGED <<bootVars, loaded, reboots>>

Reboot ==
  /\ loaded
  /\ reboots < MaxReboots
  /\ reboots' = reboots + 1
  /\ loaded' = FALSE
  /\ props' = ImageProps
  /\ mask' = {} /\ call' = [c \in Callers |-> NoCall] /\ calls' = 0
  /\ wanted' = {} /\ disturbed' = FALSE
  /\ debugMode' = "unset" /\ bootCompleted' = FALSE
  /\ changes' = <<>> /\ gameSwitch' = "0" /\ sets' = 0
  /\ UNCHANGED <<prj_version, rf_version, persistMode>>

DeviceNext == LoadProperties \/ Run \/ Reboot

DeviceSpec == DeviceInit /\ [][DeviceNext]_deviceVars
=============================================================================
