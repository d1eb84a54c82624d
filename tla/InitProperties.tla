--------------------------- MODULE InitProperties ---------------------------
(***************************************************************************)
(* vendor_load_properties (init/init_oplus.cpp): at boot, the versions the *)
(* bootloader reports override the read-only properties that name the      *)
(* device.                                                                 *)
(***************************************************************************)
EXTENDS Naturals

CONSTANT
  Versions        \* values of ro.boot.prj_version and of ro.boot.rf_version,
                  \* each 0 if the bootloader sets none

VARIABLES prj_version, rf_version, props

bootVars == <<prj_version, rf_version, props>>

(* The properties as the image has them.                                   *)
ImageProps == [device |-> "image", model |-> 0,
               set_idle_timer_ms |-> 4000, set_touch_timer_ms |-> 4000]

(* The last digit of a model, by region.                                   *)
ModelDigit(rf) ==
  CASE rf = 11 -> 0    \* CN
    [] rf = 12 -> 7    \* TMO
    [] rf = 13 -> 1    \* IN
    [] rf = 21 -> 3    \* EU
    [] rf = 22 -> 5    \* NA

(* Mutant: prj_version is not looked at when it is not that of a OnePlus9. *)
ModelOfAnyPro(prj, rf) ==
  IF rf \notin {11, 12, 13, 21, 22}
  THEN 0
  ELSE (IF prj = 12 THEN 2110 ELSE 2120) + ModelDigit(rf)

(* The number of ro.product.odm.model, 0 if none is set for the versions.  *)
Model(prj, rf) ==
  IF prj \notin {11, 12} \/ rf \notin {11, 12, 13, 21, 22}
  THEN 0
  ELSE (IF prj = 12 THEN 2110 ELSE 2120) + ModelDigit(rf)

(* The switch over prj_version.                                            *)
DeviceOverrides(p, prj) ==
  CASE prj = 11 -> [p EXCEPT !.device = "OnePlus9Pro",
                             !.set_idle_timer_ms = 250, !.set_touch_timer_ms = 300]
    [] prj = 12 -> [p EXCEPT !.device = "OnePlus9"]
    [] OTHER    -> p

(* The switch over rf_version.                                             *)
ModelOverrides(p, prj, rf) ==
  [p EXCEPT !.model = IF Model(prj, rf) = 0 THEN @ ELSE Model(prj, rf)]

PropertiesInit ==
  /\ \E v \in Versions : prj_version = v[1] /\ rf_version = v[2]
  /\ props = ImageProps

vendor_load_properties ==
  /\ props' = ModelOverrides(DeviceOverrides(props, prj_version), prj_version, rf_version)
  /\ UNCHANGED <<prj_version, rf_version>>

(* The model that the image or the overrides name is one of the device     *)
(* they name: however the two versions combine, known or not, no phone has *)
(* the model of one device and the name or the display timers of another.  *)
ModelOfDevice ==
  /\ props.model \div 10 = 212 => props.device = "OnePlus9Pro"
  /\ props.model \div 10 = 211 => props.device = "OnePlus9"
  /\ props.device = "OnePlus9Pro" <=> props.set_idle_timer_ms < 4000
=============================================================================
