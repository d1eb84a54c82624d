---------------------------- MODULE DeviceProofs ----------------------------
(***************************************************************************)
(* Proofs about Device, for any callers, gestures, versions, modes and     *)
(* number of reboots.  The three parts of a device share nothing but the   *)
(* reboot, so each has an invariant of its own.                            *)
(***************************************************************************)
EXTENDS Device, SequenceTheorems, TLAPS

(* What each part is left by a step: its own step, a boot or nothing.      *)
PowerReboots ==
  /\ mask' = {} /\ call' = [c \in Callers |-> NoCall] /\ calls' = 0
  /\ wanted' = {} /\ disturbed' = FALSE

TouchReboots ==
  /\ debugMode' = "unset" /\ bootCompleted' = FALSE
  /\ changes' = <<>> /\ gameSwitch' = "0" /\ sets' = 0
  /\ UNCHANGED persistMode

LEMMA Parts ==
  ASSUME [DeviceNext]_deviceVars
  PROVE  /\ PowerNext \/ PowerReboots \/ UNCHANGED powerVars
         /\ TouchNext \/ TouchReboots \/ UNCHANGED touchVars
         /\ \/ ~loaded /\ loaded' /\ vendor_load_properties
            \/ ~loaded' /\ props' = ImageProps
            \/ UNCHANGED <<loaded, bootVars>>
<1>1. CASE LoadProperties
  BY <1>1, Zenon DEF LoadProperties
<1>2. CASE Run
  BY <1>2, Zenon DEF Run
<1>3. CASE Reboot
  BY <1>3, Zenon DEF Reboot, PowerReboots, TouchReboots
<1>4. CASE UNCHANGED deviceVars
  BY <1>4, Zenon DEF deviceVars
<1> QED
  BY <1>1, <1>2, <1>3, <1>4 DEF DeviceNext

-----------------------------------------------------------------------------
(* The properties.                                                         *)

(* Before they are loaded the properties are those of the image.           *)
PropertiesInv == (~loaded => props = ImageProps) /\ ModelOfDevice

(* vendor_load_properties goes by the same versions in both its switches.  *)
LEMMA LoadKeepsModel ==
  ASSUME props = ImageProps, vendor_load_properties
  PROVE  ModelOfDevice'
<1>1. PICK prj, rf : prj = prj_version /\ rf = rf_version
  OBVIOUS
<1>2. props' = ModelOverrides(DeviceOverrides(ImageProps, prj), prj, rf)
  BY <1>1 DEF vendor_load_properties
<1>3. CASE prj \notin {11, 12} \/ rf \notin {11, 12, 13, 21, 22}
  <2>1. Model(prj, rf) = 0
    BY <1>3 DEF Model
  <2> QED
    BY <1>2, <2>1 DEF ModelOverrides, DeviceOverrides, ImageProps, ModelOfDevice
<1>4. CASE prj \in {11, 12} /\ rf \in {11, 12, 13, 21, 22}
  <2>1. /\ Model(prj, rf) \in Nat /\ Model(prj, rf) # 0
        /\ prj = 12 => Model(prj, rf) \in 2110..2119
        /\ prj = 11 => Model(prj, rf) \in 2120..2129
    BY <1>4 DEF Model, ModelDigit
  <2>2. props'.model = Model(prj, rf)
    BY <1>2, <1>4, <2>1 DEF ModelOverrides, DeviceOverrides, ImageProps
  <2>3. /\ prj = 11 => props'.device = "OnePlus9Pro" /\ props'.set_idle_timer_ms = 250
        /\ prj = 12 => props'.device = "OnePlus9" /\ props'.set_idle_timer_ms = 4000
    BY <1>2, <1>4 DEF ModelOverrides, DeviceOverrides, ImageProps
  <2> QED
    BY <1>4, <2>1, <2>2, <2>3 DEF ModelOfDevice
<1> QED
  BY <1>3, <1>4

(* Whatever versions the bootloader reports, the model named is one of the *)
(* device named, and the display timers are those of that device.          *)
THEOREM ModelCorrect == DeviceSpec => []ModelOfDevice
<1>1. DeviceInit => PropertiesInv
  BY DEF DeviceInit, PropertiesInit, PropertiesInv, ModelOfDevice, ImageProps
<1>2. PropertiesInv /\ [DeviceNext]_deviceVars => PropertiesInv'
  <2> SUFFICES ASSUME PropertiesInv, [DeviceNext]_deviceVars
               PROVE  PropertiesInv'
    OBVIOUS
  <2>1. CASE ~loaded /\ loaded' /\ vendor_load_properties
    BY <2>1, LoadKeepsModel DEF PropertiesInv
  <2>2. CASE ~loaded' /\ props' = ImageProps
    BY <2>2 DEF PropertiesInv, ModelOfDevice, ImageProps
  <2>3. CASE UNCHANGED <<loaded, bootVars>>
    BY <2>3 DEF PropertiesInv, ModelOfDevice, bootVars
  <2> QED
    BY <2>1, <2>2, <2>3, Parts
<1>3. PropertiesInv => ModelOfDevice
  BY DEF PropertiesInv
<1> QED
  BY <1>1, <1>2, <1>3, PTL DEF DeviceSpec

-----------------------------------------------------------------------------
(* The gestures.                                                           *)

Hexadecimal == ShownBase = 16 /\ StoredBase = 10

(* What a caller has read, and nobody has changed since, is the mask.      *)
ReadInv ==
  Hexadecimal => \A c \in Callers : call[c] # NoCall /\ ~call[c].stale => call[c].contents = mask

PowerInv == PowerTypeOK /\ ReadInv /\ GesturesAsAsked

LEMMA RereadType ==
  ASSUME NEW bits \in SUBSET Bits, NEW printed, NEW parsed
  PROVE  /\ Reread(printed, parsed, bits) \in SUBSET Bits
         /\ printed = parsed => Reread(printed, parsed, bits) = bits
  BY DEF Reread, BitsOf

LEMMA BeginCallInv ==
  ASSUME PowerInv, NEW c \in Callers, BeginCall(c)
  PROVE  PowerInv'
<1>1. /\ PowerTypeOK /\ ReadInv /\ GesturesAsAsked
      /\ UNCHANGED <<mask, wanted, disturbed>>
      /\ calls < MaxCalls /\ calls' = calls + 1
  BY DEF PowerInv, BeginCall
<1>2. PICK f \in Features, enabled \in BOOLEAN, readable \in BOOLEAN :
        call' = IF f \notin Supported
                THEN call
                ELSE [call EXCEPT ![c] =
                        [feature |-> f, enabled |-> enabled, stale |-> ~readable,
                         contents |-> IF readable THEN Contents(mask) ELSE {}]]
  BY DEF BeginCall
<1>3. calls' \in 0..MaxCalls
  BY <1>1, PowerAssumption DEF PowerTypeOK
<1>4. GesturesAsAsked'
  BY <1>1 DEF GesturesAsAsked
<1>5. CASE f \notin Supported
  BY <1>1, <1>2, <1>3, <1>4, <1>5 DEF PowerInv, PowerTypeOK, ReadInv
<1>6. CASE f \in Supported
  <2>1. PICK new : new = [feature |-> f, enabled |-> enabled, stale |-> ~readable,
                          contents |-> IF readable THEN Contents(mask) ELSE {}]
    OBVIOUS
  <2>2. call' = [call EXCEPT ![c] = new]
    BY <1>2, <1>6, <2>1
  <2>3. /\ Contents(mask) \in SUBSET Bits
        /\ Hexadecimal => Contents(mask) = mask
    BY <1>1, RereadType DEF PowerTypeOK, Contents, Hexadecimal
  <2>4. new \in Call
    <3>1. PICK contents \in SUBSET Bits : contents = IF readable THEN Contents(mask) ELSE {}
      BY <2>3
    <3>2. (~readable) \in BOOLEAN
      OBVIOUS
    <3> QED
      BY <1>6, <2>1, <3>1, <3>2 DEF Call
  <2>5. Hexadecimal /\ ~new.stale => new.contents = mask
    BY <2>1, <2>3
  <2>6. PowerTypeOK'
    BY <1>1, <1>3, <2>2, <2>4 DEF PowerTypeOK
  <2>7. ReadInv'
    BY <1>1, <2>2, <2>5 DEF ReadInv, PowerTypeOK, Hexadecimal
  <2> QED
    BY <1>4, <2>6, <2>7 DEF PowerInv
<1> QED
  BY <1>5, <1>6

LEMMA WriteMaskInv ==
  ASSUME PowerInv, NEW c \in Callers, WriteMask(c)
  PROVE  PowerInv'
<1> DEFINE this == call[c]
           bit == GESTURE_MAP[this.feature]
           contents == IF this.enabled THEN this.contents \cup {bit} ELSE this.contents \ {bit}
<1>1. /\ PowerTypeOK /\ ReadInv /\ GesturesAsAsked
      /\ this # NoCall /\ mask' = Stored(contents)
      /\ wanted' = IF this.enabled THEN wanted \cup {this.feature} ELSE wanted \ {this.feature}
      /\ disturbed' = (disturbed \/ this.stale)
      /\ call' = [d \in Callers |->
                   IF d = c \/ call[d] = NoCall THEN NoCall ELSE [call[d] EXCEPT !.stale = TRUE]]
      /\ UNCHANGED calls
  BY DEF PowerInv, WriteMask
<1>2. this \in Call
  BY <1>1 DEF PowerTypeOK
<1>3. /\ this.feature \in Supported /\ this.enabled \in BOOLEAN
      /\ this.contents \in SUBSET Bits /\ this.stale \in BOOLEAN
  BY <1>2 DEF Call
<1>4. bit \in Bits
  BY <1>3, PowerAssumption
<1>5. contents \in SUBSET Bits
  BY <1>3, <1>4
<1>6. Stored(contents) \in SUBSET Bits /\ (Hexadecimal => Stored(contents) = contents)
  BY <1>5, RereadType DEF Stored, Hexadecimal
<1>7. \A d \in Callers : call'[d] = NoCall \/ (call'[d] \in Call /\ call'[d].stale)
  <2> SUFFICES ASSUME NEW d \in Callers, call[d] # NoCall, d # c
               PROVE  [call[d] EXCEPT !.stale = TRUE] \in Call
                      /\ [call[d] EXCEPT !.stale = TRUE].stale
    BY <1>1
  <2>1. call[d] \in Call
    BY <1>1 DEF PowerTypeOK
  <2> QED
    BY <2>1 DEF Call
<1>8. wanted' \subseteq Supported
  BY <1>1, <1>3 DEF PowerTypeOK
<1>9. PowerTypeOK'
  <2>1. disturbed' \in BOOLEAN
    BY <1>1, <1>3, Zenon DEF PowerTypeOK
  <2>2. call' \in [Callers -> Call \cup {NoCall}]
    BY <1>1, <1>7
  <2> QED
    BY <1>1, <1>6, <1>8, <2>1, <2>2 DEF PowerTypeOK
<1>10. ReadInv'
  BY <1>7 DEF ReadInv
<1>11. GesturesAsAsked'
  <2> SUFFICES ASSUME Hexadecimal, ~disturbed'
               PROVE  mask' = {GESTURE_MAP[f] : f \in wanted'}
    BY DEF GesturesAsAsked, Hexadecimal
  <2>1. ~disturbed /\ ~this.stale
    BY <1>1, Zenon
  <2>2. this.contents = {GESTURE_MAP[f] : f \in wanted}
    BY <1>1, <2>1 DEF ReadInv, GesturesAsAsked, Hexadecimal
  <2>3. mask' = contents
    BY <1>1, <1>6
  <2>4. wanted \subseteq Supported
    BY <1>1 DEF PowerTypeOK
  <2>5. PICK f0 : f0 = this.feature
    OBVIOUS
  <2>6. \A f \in wanted : GESTURE_MAP[f] = GESTURE_MAP[f0] => f = f0
    BY <1>3, <2>4, <2>5, PowerAssumption
  <2>7. CASE this.enabled
    BY <1>1, <2>2, <2>3, <2>7
  <2>8. CASE ~this.enabled
    <3>1. wanted' = wanted \ {f0} /\ mask' = this.contents \ {GESTURE_MAP[f0]}
      BY <1>1, <2>3, <2>5, <2>8
    <3> QED
      BY <2>2, <2>6, <3>1
  <2> QED
    BY <2>7, <2>8
<1> QED
  BY <1>9, <1>10, <1>11 DEF PowerInv

(* The mask, the calls and the counters of a device that boots.            *)
LEMMA BootedType ==
  /\ {} \subseteq Bits /\ {} \subseteq Supported
  /\ [c \in Callers |-> NoCall] \in [Callers -> Call \cup {NoCall}]
  /\ 0 \in 0..MaxCalls
  /\ FALSE \in BOOLEAN
<1>1. 0 \in 0..MaxCalls
  BY PowerAssumption
<1>2. PICK none : none = NoCall
  OBVIOUS
<1>3. [c \in Callers |-> none] \in [Callers -> Call \cup {none}]
  OBVIOUS
<1> QED
  BY <1>1, <1>2, <1>3, Zenon

LEMMA PowerStepInv ==
  ASSUME PowerInv, PowerNext \/ PowerReboots \/ UNCHANGED powerVars
  PROVE  PowerInv'
<1>1. PowerTypeOK /\ ReadInv /\ GesturesAsAsked
  BY DEF PowerInv
<1>2. ASSUME NEW c \in Callers, WriteFails(c)
      PROVE  PowerInv'
  BY <1>1, <1>2 DEF WriteFails, PowerInv, PowerTypeOK, ReadInv, GesturesAsAsked
<1>3. CASE PowerReboots
  <2>1. PowerTypeOK'
    BY <1>3, BootedType, Zenon DEF PowerReboots, PowerTypeOK
  <2>2. ReadInv' /\ GesturesAsAsked'
    BY <1>3 DEF PowerReboots, ReadInv, GesturesAsAsked
  <2> QED
    BY <2>1, <2>2 DEF PowerInv
<1>4. CASE UNCHANGED powerVars
  BY <1>1, <1>4 DEF powerVars, PowerInv, PowerTypeOK, ReadInv, GesturesAsAsked
<1> QED
  BY <1>2, <1>3, <1>4, BeginCallInv, WriteMaskInv DEF PowerNext

LEMMA PowerInvAlways == DeviceSpec => []PowerInv
<1>1. DeviceInit => PowerInv
  <2>1. PowerInit => PowerTypeOK
    BY BootedType, Zenon DEF PowerInit, PowerTypeOK
  <2>2. PowerInit => ReadInv /\ GesturesAsAsked
    BY DEF PowerInit, ReadInv, GesturesAsAsked
  <2> QED
    BY <2>1, <2>2 DEF DeviceInit, PowerInv
<1>2. PowerInv /\ [DeviceNext]_deviceVars => PowerInv'
  BY Parts, PowerStepInv
<1> QED
  BY <1>1, <1>2, PTL DEF DeviceSpec

(* However many callers race, the driver has exactly the gestures that the *)
(* calls which succeeded left enabled, as long as no call wrote a mask     *)
(* that it could not read or that another call had changed meanwhile.      *)
THEOREM GesturesCorrect == DeviceSpec => []GesturesAsAsked
<1>1. PowerInv => GesturesAsAsked
  BY DEF PowerInv
<1> QED
  BY PowerInvAlways, <1>1, PTL
-----------------------------------------------------------------------------
(* The touch panel mode.                                                   *)

Change == [name : {"debug", "persist", "boot_completed"}, value : Modes \cup Routed]

(* The last of the queued changes to a property of names, and no change.   *)
LastIn(queue, k, names) ==
  /\ k \in 1..Len(queue)
  /\ queue[k].name \in names
  /\ \A j \in 1..Len(queue) : j > k => queue[j].name \notin names

NoneIn(queue, names) == \A k \in 1..Len(queue) : queue[k].name \notin names

LEMMA ChangedQueue ==
  ASSUME NEW queue \in Seq(Change), NEW names,
         NEW property \in {"debug", "persist", "boot_completed"}, NEW v \in Modes \cup Routed,
         NEW new, new = Changed(queue, property, v)
  PROVE  /\ new \in Seq(Change)
         /\ property \in names => /\ ~NoneIn(new, names)
                                  /\ \A k : LastIn(new, k, names) =>
                                        new[k].name = property /\ new[k].value = v
         /\ property \notin names => /\ NoneIn(new, names) => NoneIn(queue, names)
                                     /\ \A k : LastIn(new, k, names) =>
                                           LastIn(queue, k, names) /\ new[k] = queue[k]
<1> DEFINE e == [name |-> property, value |-> v]
<1>1. e \in Change /\ e.name = property /\ e.value = v
  BY DEF Change
<1>2. PICK c \in Change : c = e
  BY <1>1
<1>3. /\ new \in Seq(Change) /\ Len(new) = Len(queue) + 1 /\ Len(queue) \in Nat
      /\ new[Len(queue) + 1] = c
      /\ \A k \in 1..Len(queue) : new[k] = queue[k]
  BY <1>2 DEF Changed
<1>4. ASSUME property \in names
      PROVE  /\ ~NoneIn(new, names)
             /\ \A k : LastIn(new, k, names) => new[k].name = property /\ new[k].value = v
  <2>1. Len(queue) + 1 \in 1..Len(new) /\ new[Len(queue) + 1].name \in names
    BY <1>1, <1>2, <1>3, <1>4
  <2>2. ASSUME NEW k, LastIn(new, k, names)
        PROVE  k = Len(queue) + 1
    BY <1>3, <2>1, <2>2 DEF LastIn
  <2> QED
    BY <1>1, <1>2, <1>3, <2>1, <2>2 DEF NoneIn
<1>5. ASSUME property \notin names
      PROVE  /\ NoneIn(new, names) => NoneIn(queue, names)
             /\ \A k : LastIn(new, k, names) => LastIn(queue, k, names) /\ new[k] = queue[k]
  <2>1. NoneIn(new, names) => NoneIn(queue, names)
    BY <1>3 DEF NoneIn
  <2>2. ASSUME NEW k, LastIn(new, k, names)
        PROVE  LastIn(queue, k, names) /\ new[k] = queue[k]
    <3>1. k # Len(queue) + 1
      BY <1>1, <1>2, <1>3, <1>5, <2>2 DEF LastIn
    <3>2. k \in 1..Len(queue)
      BY <1>3, <2>2, <3>1 DEF LastIn
    <3> QED
      BY <1>3, <2>2, <3>2 DEF LastIn
  <2> QED
    BY <2>1, <2>2
<1> QED
  BY <1>3, <1>4, <1>5

LEMMA HandledQueue ==
  ASSUME NEW queue \in Seq(Change), NEW names, queue # <<>>
  PROVE  LET rest == Tail(queue) IN
         /\ rest \in Seq(Change) /\ Head(queue) \in Change
         /\ Head(queue) = queue[1] /\ 1 \in 1..Len(queue)
         /\ \A k : LastIn(rest, k, names) =>
               LastIn(queue, k + 1, names) /\ rest[k] = queue[k + 1]
         /\ NoneIn(rest, names) =>
               IF Head(queue).name \in names THEN LastIn(queue, 1, names)
               ELSE NoneIn(queue, names)
<1> DEFINE rest == Tail(queue)
<1>1. /\ rest \in Seq(Change) /\ Len(rest) = Len(queue) - 1 /\ Len(queue) \in Nat \ {0}
      /\ Head(queue) = queue[1] /\ Head(queue) \in Change
      /\ \A k \in 1..Len(rest) : rest[k] = queue[k + 1]
  OBVIOUS
<1> HIDE DEF rest
<1>2. \A j \in 1..Len(queue) : j > 1 => j - 1 \in 1..Len(rest) /\ rest[j - 1] = queue[j]
  BY <1>1
<1>3. ASSUME NEW k, LastIn(rest, k, names)
      PROVE  LastIn(queue, k + 1, names) /\ rest[k] = queue[k + 1]
  <2>1. k \in 1..Len(rest) /\ k + 1 \in 1..Len(queue) /\ rest[k] = queue[k + 1]
    BY <1>1, <1>3 DEF LastIn
  <2>2. ASSUME NEW j \in 1..Len(queue), j > k + 1
        PROVE  queue[j].name \notin names
    BY <1>1, <1>2, <1>3, <2>1, <2>2 DEF LastIn
  <2> QED
    BY <1>3, <2>1, <2>2 DEF LastIn
<1>4. ASSUME NoneIn(rest, names)
      PROVE  \A j \in 1..Len(queue) : j > 1 => queue[j].name \notin names
  BY <1>2, <1>4 DEF NoneIn
<1>5. ASSUME NoneIn(rest, names)
      PROVE  IF Head(queue).name \in names THEN LastIn(queue, 1, names)
             ELSE NoneIn(queue, names)
  <2>1. \A j \in 1..Len(queue) : j = 1 \/ j > 1
    BY <1>1
  <2> QED
    BY <1>1, <1>4, <1>5, <2>1 DEF LastIn, NoneIn
<1>6. 1 \in 1..Len(queue)
  BY <1>1
<1> QED
  BY <1>1, <1>3, <1>5, <1>6, Zenon DEF rest

(* Without a change of the debug property queued, the persistent one has   *)
(* its mode; otherwise the last such change will give it.                  *)
DebugInv ==
  debugMode \in Routed =>
    /\ \A k : LastIn(changes, k, {"debug"}) => changes[k].value = debugMode
    /\ NoneIn(changes, {"debug"}) => persistMode = debugMode

(* The same of the driver and the persistent property, once the boot is    *)
(* complete: the change that tells that it is does for both.               *)
SwitchInv ==
  bootCompleted /\ persistMode \in Routed =>
    /\ \A k : LastIn(changes, k, {"persist", "boot_completed"}) =>
              changes[k].name = "boot_completed" \/ changes[k].value = persistMode
    /\ NoneIn(changes, {"persist", "boot_completed"}) => gameSwitch = persistMode

TouchInv == TouchTypeOK /\ DebugInv /\ SwitchInv

LEMMA SetDebugModeInv ==
  ASSUME TouchInv, SetDebugMode
  PROVE  TouchInv'
<1>1. /\ TouchTypeOK /\ DebugInv /\ SwitchInv
      /\ sets < MaxSets /\ sets' = sets + 1
      /\ UNCHANGED <<persistMode, bootCompleted, gameSwitch>>
  BY DEF TouchInv, SetDebugMode
<1>2. PICK v \in Modes : debugMode' = v /\ changes' = Changed(changes, "debug", v)
  BY DEF SetDebugMode
<1>3. changes \in Seq(Change) /\ v \in Modes \cup Routed
  BY <1>1 DEF TouchTypeOK, Change
<1>4. sets' \in 0..MaxSets
  BY <1>1, TouchAssumption DEF TouchTypeOK
<1>5. changes' \in Seq(Change)
  BY <1>2, <1>3, ChangedQueue
<1>6. TouchTypeOK'
  BY <1>1, <1>2, <1>4, <1>5 DEF TouchTypeOK, Change
<1>7. DebugInv'
  <2>1. /\ ~NoneIn(changes', {"debug"})
        /\ \A k : LastIn(changes', k, {"debug"}) =>
              changes'[k].name = "debug" /\ changes'[k].value = v
    BY <1>2, <1>3, ChangedQueue
  <2> QED
    BY <1>2, <2>1 DEF DebugInv
<1>8. SwitchInv'
  <2>1. /\ NoneIn(changes', {"persist", "boot_completed"}) => NoneIn(changes, {"persist", "boot_completed"})
        /\ \A k : LastIn(changes', k, {"persist", "boot_completed"}) =>
              LastIn(changes, k, {"persist", "boot_completed"}) /\ changes'[k] = changes[k]
    BY <1>2, <1>3, ChangedQueue
  <2> QED
    BY <1>1, <2>1 DEF SwitchInv
<1> QED
  BY <1>6, <1>7, <1>8 DEF TouchInv

LEMMA CompleteBootInv ==
  ASSUME TouchInv, CompleteBoot
  PROVE  TouchInv'
<1>1. /\ TouchTypeOK /\ DebugInv /\ SwitchInv
      /\ bootCompleted' = TRUE
      /\ UNCHANGED <<debugMode, persistMode, gameSwitch, sets>>
  BY DEF TouchInv, CompleteBoot
<1>2. PICK one : one = "1"
  OBVIOUS
<1>3. changes' = Changed(changes, "boot_completed", one)
  BY <1>2 DEF CompleteBoot
<1>4. changes \in Seq(Change) /\ one \in Modes \cup Routed
  BY <1>1, <1>2 DEF TouchTypeOK, Change, Routed
<1>5. changes' \in Seq(Change)
  BY <1>3, <1>4, ChangedQueue
<1>6. TouchTypeOK'
  BY <1>1, <1>5 DEF TouchTypeOK, Change
<1>7. DebugInv'
  <2>1. /\ NoneIn(changes', {"debug"}) => NoneIn(changes, {"debug"})
        /\ \A k : LastIn(changes', k, {"debug"}) =>
              LastIn(changes, k, {"debug"}) /\ changes'[k] = changes[k]
    <3>1. PICK names, property : names = {"debug"} /\ property = "boot_completed"
      OBVIOUS
    <3>2. property \notin names /\ property \in {"debug", "persist", "boot_completed"}
      BY <3>1
    <3>3. changes' = Changed(changes, property, one)
      BY <1>3, <3>1
    <3>4. /\ NoneIn(changes', names) => NoneIn(changes, names)
          /\ \A k : LastIn(changes', k, names) =>
                LastIn(changes, k, names) /\ changes'[k] = changes[k]
      BY <1>4, <3>2, <3>3, ChangedQueue
    <3> QED
      BY <3>1, <3>4
  <2> QED
    BY <1>1, <2>1 DEF DebugInv
<1>8. SwitchInv'
  <2>1. /\ ~NoneIn(changes', {"persist", "boot_completed"})
        /\ \A k : LastIn(changes', k, {"persist", "boot_completed"}) =>
              changes'[k].name = "boot_completed" /\ changes'[k].value = one
    <3>1. PICK names, property :
            names = {"persist", "boot_completed"} /\ property = "boot_completed"
      OBVIOUS
    <3>2. property \in names /\ property \in {"debug", "persist", "boot_completed"}
      BY <3>1
    <3>3. changes' = Changed(changes, property, one)
      BY <1>3, <3>1
    <3>4. /\ ~NoneIn(changes', names)
          /\ \A k : LastIn(changes', k, names) =>
                changes'[k].name = property /\ changes'[k].value = one
      BY <1>4, <3>2, <3>3, ChangedQueue
    <3> QED
      BY <3>1, <3>4
  <2> QED
    BY <2>1 DEF SwitchInv
<1> QED
  BY <1>6, <1>7, <1>8 DEF TouchInv

LEMMA RouteToPersistInv ==
  ASSUME TouchInv, RouteToPersist
  PROVE  TouchInv'
<1> DEFINE head == Head(changes)
           rest == Tail(changes)
<1>1. /\ TouchTypeOK /\ DebugInv /\ SwitchInv
      /\ changes # <<>> /\ head.name = "debug"
      /\ UNCHANGED <<debugMode, bootCompleted, gameSwitch, sets>>
  BY DEF TouchInv, RouteToPersist
<1>2. changes \in Seq(Change)
  BY <1>1 DEF TouchTypeOK, Change
<1>3. /\ rest \in Seq(Change) /\ head \in Change
      /\ head = changes[1] /\ 1 \in 1..Len(changes)
      /\ \A k : LastIn(rest, k, {"debug"}) =>
            LastIn(changes, k + 1, {"debug"}) /\ rest[k] = changes[k + 1]
      /\ NoneIn(rest, {"debug"}) => LastIn(changes, 1, {"debug"})
      /\ \A k : LastIn(rest, k, {"persist", "boot_completed"}) =>
            /\ LastIn(changes, k + 1, {"persist", "boot_completed"})
            /\ rest[k] = changes[k + 1]
      /\ NoneIn(rest, {"persist", "boot_completed"}) =>
            NoneIn(changes, {"persist", "boot_completed"})
  BY <1>1, <1>2, HandledQueue
<1> HIDE DEF rest, head
(* What is left keeps to the mode; if it says nothing of it, the head did. *)
<1>4. debugMode \in Routed =>
        /\ \A k : LastIn(rest, k, {"debug"}) => rest[k].value = debugMode
        /\ NoneIn(rest, {"debug"}) => head.value = debugMode
  BY <1>1, <1>3 DEF DebugInv
<1>5. CASE head.value \in Routed
  <2>1. persistMode' = head.value /\ changes' = Changed(rest, "persist", head.value)
    BY <1>5 DEF RouteToPersist, head, rest
  <2>2. head.value \in Modes \cup Routed
    BY <1>5
  <2>3. changes' \in Seq(Change)
    BY <1>3, <2>1, <2>2, ChangedQueue
  <2>4. TouchTypeOK'
    BY <1>1, <1>5, <2>1, <2>3 DEF TouchTypeOK, Change
  <2>5. DebugInv'
    <3>1. /\ NoneIn(changes', {"debug"}) => NoneIn(rest, {"debug"})
          /\ \A k : LastIn(changes', k, {"debug"}) =>
                LastIn(rest, k, {"debug"}) /\ changes'[k] = rest[k]
      BY <1>3, <2>1, <2>2, ChangedQueue
    <3> QED
      BY <1>1, <1>4, <2>1, <3>1 DEF DebugInv
  <2>6. SwitchInv'
    <3>1. /\ ~NoneIn(changes', {"persist", "boot_completed"})
          /\ \A k : LastIn(changes', k, {"persist", "boot_completed"}) =>
                changes'[k].name = "persist" /\ changes'[k].value = head.value
      BY <1>3, <2>1, <2>2, ChangedQueue
    <3> QED
      BY <2>1, <3>1 DEF SwitchInv
  <2> QED
    BY <2>4, <2>5, <2>6 DEF TouchInv
<1>6. CASE head.value \notin Routed
  <2>1. changes' = rest /\ UNCHANGED persistMode
    BY <1>6 DEF RouteToPersist, head, rest
  <2>2. TouchTypeOK'
    BY <1>1, <1>3, <2>1 DEF TouchTypeOK, Change
  <2>3. DebugInv'
    BY <1>1, <1>4, <1>6, <2>1 DEF DebugInv
  <2>4. SwitchInv'
    BY <1>1, <1>3, <2>1 DEF SwitchInv
  <2> QED
    BY <2>2, <2>3, <2>4 DEF TouchInv
<1> QED
  BY <1>5, <1>6

LEMMA WriteGameSwitchInv ==
  ASSUME TouchInv, WriteGameSwitch
  PROVE  TouchInv'
<1> DEFINE head == Head(changes)
           names == {"persist", "boot_completed"}
           fires == FiresFor(head)
<1>1. /\ TouchTypeOK /\ DebugInv /\ SwitchInv
      /\ changes # <<>> /\ head.name # "debug" /\ changes' = Tail(changes)
      /\ gameSwitch' = IF fires \in Routed THEN fires ELSE gameSwitch
      /\ UNCHANGED <<debugMode, persistMode, bootCompleted, sets>>
  BY DEF TouchInv, WriteGameSwitch
<1>2. changes \in Seq(Change)
  BY <1>1 DEF TouchTypeOK, Change
<1>3. head \in Change
  BY <1>1, <1>2, HandledQueue
<1>4. head.name \in names /\ head.name \notin {"debug"}
  BY <1>1, <1>3 DEF Change
<1>5. /\ changes' \in Seq(Change) /\ head = changes[1]
      /\ \A k : LastIn(changes', k, {"debug"}) =>
            LastIn(changes, k + 1, {"debug"}) /\ changes'[k] = changes[k + 1]
      /\ NoneIn(changes', {"debug"}) => NoneIn(changes, {"debug"})
      /\ \A k : LastIn(changes', k, names) =>
            LastIn(changes, k + 1, names) /\ changes'[k] = changes[k + 1]
      /\ NoneIn(changes', names) => LastIn(changes, 1, names)
  BY <1>1, <1>2, <1>4, HandledQueue
<1>6. bootCompleted => fires = IF head.name = "persist" THEN head.value ELSE persistMode
  BY <1>4 DEF FiresFor
<1> HIDE DEF head, fires
<1>7. TouchTypeOK'
  BY <1>1, <1>5 DEF TouchTypeOK, Change
<1>8. DebugInv'
  BY <1>1, <1>5 DEF DebugInv
<1>9. SwitchInv'
  <2> SUFFICES ASSUME bootCompleted, persistMode \in Routed
               PROVE  /\ \A k : LastIn(changes', k, names) =>
                           \/ changes'[k].name = "boot_completed"
                           \/ changes'[k].value = persistMode
                      /\ NoneIn(changes', names) => gameSwitch' = persistMode
    BY <1>1 DEF SwitchInv
  <2>1. \A k : LastIn(changes, k, names) =>
          changes[k].name = "boot_completed" \/ changes[k].value = persistMode
    BY <1>1 DEF SwitchInv
  <2>2. ASSUME NoneIn(changes', names)
        PROVE  fires = persistMode
    BY <1>5, <1>6, <2>1, <2>2
  <2>3. NoneIn(changes', names) => gameSwitch' = persistMode
    BY <1>1, <2>2
  <2>4. ASSUME NEW k, LastIn(changes', k, names)
        PROVE  changes'[k].name = "boot_completed" \/ changes'[k].value = persistMode
    <3>1. LastIn(changes, k + 1, names) /\ changes'[k] = changes[k + 1]
      BY <1>5, <2>4
    <3> QED
      BY <2>1, <3>1
  <2> QED
    BY <2>3, <2>4
<1> QED
  BY <1>7, <1>8, <1>9 DEF TouchInv

(* A device that boots has lost what the properties but the persistent one *)
(* were set to, so that neither invariant says anything of it.             *)
LEMMA TouchRebootsInv ==
  ASSUME TouchInv, TouchReboots
  PROVE  TouchInv'
<1>1. 0 \in 0..MaxSets
  BY TouchAssumption
<1>2. TouchTypeOK'
  <2>1. /\ persistMode' \in Routed \cup {"unset"} /\ debugMode' \in Modes \cup {"unset"}
        /\ gameSwitch' \in Routed
    BY DEF TouchInv, TouchTypeOK, TouchReboots, Routed
  <2>2. changes' \in Seq([name : {"debug", "persist", "boot_completed"}, value : Modes \cup Routed])
    BY DEF TouchReboots
  <2> QED
    BY <1>1, <2>1, <2>2, Zenon DEF TouchTypeOK, TouchReboots
<1>3. DebugInv' /\ SwitchInv'
  BY DEF TouchReboots, DebugInv, SwitchInv, Routed
<1> QED
  BY <1>2, <1>3 DEF TouchInv

LEMMA TouchStepInv ==
  ASSUME TouchInv, TouchNext \/ TouchReboots \/ UNCHANGED touchVars
  PROVE  TouchInv'
<1>1. CASE UNCHANGED touchVars
  BY <1>1 DEF touchVars, TouchInv, TouchTypeOK, DebugInv, SwitchInv
<1> QED
  BY <1>1, SetDebugModeInv, CompleteBootInv, RouteToPersistInv, WriteGameSwitchInv,
     TouchRebootsInv DEF TouchNext

LEMMA TouchInvAlways == DeviceSpec => []TouchInv
<1>1. TouchInit => TouchTypeOK
  <2>1. 0 \in 0..MaxSets
    BY TouchAssumption
  <2>2. "0" \in Routed
    BY DEF Routed
  <2>3. <<>> \in Seq([name : {"debug", "persist", "boot_completed"}, value : Modes \cup Routed])
    OBVIOUS
  <2> QED
    BY <2>1, <2>2, <2>3, Zenon DEF TouchInit, TouchTypeOK
<1>2. TouchInit => DebugInv /\ SwitchInv
  BY DEF TouchInit, DebugInv, SwitchInv, Routed
<1>3. DeviceInit => TouchInv
  BY <1>1, <1>2 DEF DeviceInit, TouchInv
<1>4. TouchInv /\ [DeviceNext]_deviceVars => TouchInv'
  BY Parts, TouchStepInv
<1> QED
  BY <1>3, <1>4, PTL DEF DeviceSpec

(* Whenever init has nothing left to handle, the mode that was set last is *)
(* the persistent one and, after the boot, the driver's: whatever was set, *)
(* in whatever order the boot and the changes came, and after any reboot.  *)
THEOREM ModeCorrect == DeviceSpec => []ModeSettled
<1>1. TouchInv => ModeSettled
  <2> SUFFICES ASSUME TouchInv, changes = <<>>
               PROVE  /\ debugMode \in Routed => persistMode = debugMode
                      /\ bootCompleted /\ persistMode \in Routed => gameSwitch = persistMode
    BY DEF ModeSettled
  <2>1. \A names : NoneIn(changes, names)
    BY DEF NoneIn
  <2> QED
    BY <2>1 DEF TouchInv, DebugInv, SwitchInv
<1> QED
  BY TouchInvAlways, <1>1, PTL

-----------------------------------------------------------------------------
(* The types of all three parts, and the bounds of their counters.         *)
THEOREM DeviceTypeCorrect == DeviceSpec => []DeviceTypeOK
<1> DEFINE Booted == loaded \in BOOLEAN /\ reboots \in 0..MaxReboots
<1>1. DeviceInit => Booted
  <2>1. 0 \in 0..MaxReboots
    BY DeviceAssumption
  <2> QED
    BY <2>1, Zenon DEF DeviceInit
<1>2. Booted /\ [DeviceNext]_deviceVars => Booted'
  <2> SUFFICES ASSUME Booted, [DeviceNext]_deviceVars
               PROVE  Booted'
    OBVIOUS
  <2>1. reboots' = reboots \/ (reboots < MaxReboots /\ reboots' = reboots + 1)
    BY Zenon DEF DeviceNext, LoadProperties, Run, Reboot, deviceVars
  <2>2. reboots' \in 0..MaxReboots
    BY <2>1, DeviceAssumption
  <2>3. loaded' \in BOOLEAN
    BY Zenon DEF DeviceNext, LoadProperties, Run, Reboot, deviceVars
  <2> QED
    BY <2>2, <2>3
<1>3. PowerInv /\ TouchInv /\ Booted => DeviceTypeOK
  BY DEF PowerInv, TouchInv, DeviceTypeOK
<1> QED
  BY <1>1, <1>2, <1>3, PowerInvAlways, TouchInvAlways, PTL DEF DeviceSpec
=============================================================================
