---------------------------- MODULE PowerFeature ----------------------------
(***************************************************************************)
(* setDeviceSpecificFeature (power/power-feature.cpp): a gesture is        *)
(* switched by reading the mask of the touch panel's proc file, changing a *)
(* bit and writing it back, without a lock.  The driver and the binder     *)
(* threads of the power service are external.                              *)
(***************************************************************************)
EXTENDS Integers, SequencesExt

CONSTANTS
  Callers,        \* binder threads of the power service
  Features,       \* features a caller asks for, supported or not
  GESTURE_MAP,    \* bit of each supported feature
  ShownBase,      \* base in which the driver shows the mask, and that of the
  StoredBase,     \* numbers it takes (external)
  MaxCalls        \* bound: calls between two reboots

Supported == DOMAIN GESTURE_MAP
Bits == 0..30       \* of an int that is not negative

ASSUME PowerAssumption ==
  /\ Supported \subseteq Features
  /\ \A f \in Supported : GESTURE_MAP[f] \in Bits
  /\ \A f, g \in Supported : GESTURE_MAP[f] = GESTURE_MAP[g] => f = g
  /\ {ShownBase, StoredBase} \subseteq {10, 16}
  /\ MaxCalls \in Nat

VARIABLES
  mask,           \* the bits of the driver's mask of enabled gestures
  call,           \* what each caller is doing
  calls,
  wanted,         \* gestures enabled by the calls that succeeded
  disturbed       \* a call wrote a mask that it had not read or that was stale

powerVars == <<mask, call, calls, wanted, disturbed>>

NoCall == [feature |-> "none", enabled |-> FALSE, contents |-> {}, stale |-> FALSE]
Call == [feature : Supported, enabled : BOOLEAN, contents : SUBSET Bits, stale : BOOLEAN]

PowerTypeOK ==
  /\ mask \subseteq Bits
  /\ call \in [Callers -> Call \cup {NoCall}]
  /\ calls \in 0..MaxCalls
  /\ wanted \subseteq Supported
  /\ disturbed \in BOOLEAN

PowerInit ==
  /\ mask = {}
  /\ call = [c \in Callers |-> NoCall]
  /\ calls = 0
  /\ wanted = {}
  /\ disturbed = FALSE

-----------------------------------------------------------------------------
(* A number as text, and the number that text is in another base: parsing  *)
(* stops at the first digit that is none in its base.                      *)
Text(base, number) ==
  LET digits[n \in Nat] ==
        IF n < base THEN <<n>> ELSE Append(digits[n \div base], n % base)
  IN  digits[number]

Number(base, text) ==
  LET end == SelectInSeq(text, LAMBDA d : d >= base)
      valid == IF end = 0 THEN text ELSE SubSeq(text, 1, end - 1)
  IN  FoldLeft(LAMBDA n, d : n * base + d, 0, valid)

NumberOf(bits) == SumFunctionOnSet([b \in bits |-> 2 ^ b], bits)
BitsOf(number) == {b \in Bits : (number \div 2 ^ b) % 2 = 1}

(* The bits of a number that is printed in one base and parsed in another; *)
(* parsed in the same base it is the same number.                          *)
Reread(printed, parsed, bits) ==
  IF printed = parsed THEN bits ELSE BitsOf(Number(parsed, Text(printed, NumberOf(bits))))

(* stoi in base 16, and to_string, which is decimal; the mutant takes both *)
(* to be decimal.                                                          *)
ContentsInDecimal(bits) == Reread(ShownBase, 10, bits)

Contents(bits) == Reread(ShownBase, 16, bits)

Stored(bits) == Reread(10, StoredBase, bits)

(* The call up to its read.  A read that fails leaves contents 0; an       *)
(* unsupported feature changes nothing.                                    *)
BeginCall(c) ==
  /\ call[c] = NoCall
  /\ calls < MaxCalls
  /\ calls' = calls + 1
  /\ \E f \in Features, enabled \in BOOLEAN, readable \in BOOLEAN :
       call' = IF f \notin Supported
               THEN call
               ELSE [call EXCEPT ![c] =
                       [feature |-> f, enabled |-> enabled, stale |-> ~readable,
                        contents |-> IF readable THEN Contents(mask) ELSE {}]]
  /\ UNCHANGED <<mask, wanted, disturbed>>

(* WriteStringToFile succeeds, and makes what the others have read stale.  *)
WriteMask(c) ==
  LET this == call[c]
      bit == GESTURE_MAP[this.feature]
  IN
  /\ this # NoCall
  /\ mask' = Stored(IF this.enabled THEN this.contents \cup {bit} ELSE this.contents \ {bit})
  /\ wanted' = IF this.enabled THEN wanted \cup {this.feature} ELSE wanted \ {this.feature}
  /\ disturbed' = (disturbed \/ this.stale)
  /\ call' = [d \in Callers |->
                IF d = c \/ call[d] = NoCall THEN NoCall ELSE [call[d] EXCEPT !.stale = TRUE]]
  /\ UNCHANGED calls

WriteFails(c) ==
  /\ call[c] # NoCall
  /\ call' = [call EXCEPT ![c] = NoCall]
  /\ UNCHANGED <<mask, calls, wanted, disturbed>>

PowerNext == \E c \in Callers : BeginCall(c) \/ WriteMask(c) \/ WriteFails(c)

-----------------------------------------------------------------------------
(* Every gesture is as the last call about it that succeeded left it, so   *)
(* long as no call wrote a mask whose read failed, or that another call    *)
(* had changed meanwhile; either undoes what was asked of other gestures.  *)
(* It needs a driver that shows the mask in hexadecimal and takes decimal. *)
GesturesAsAsked ==
  ShownBase = 16 /\ StoredBase = 10 /\ ~disturbed =>
    mask = {GESTURE_MAP[f] : f \in wanted}
=============================================================================
