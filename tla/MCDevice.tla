------------------------------ MODULE MCDevice ------------------------------
(***************************************************************************)
(* The instance of Device for TLC: two gestures, with their bits of        *)
(* touchpanel_common.h, and a feature that is none; versions of both       *)
(* phones, and with either unset.                                          *)
(***************************************************************************)
EXTENDS Device, TLC

MCFeatures == {"DRAW_V", "DRAW_ARROW_RIGHT", "DOUBLE_TAP"}
MCGestures == ("DRAW_V" :> 2) @@ ("DRAW_ARROW_RIGHT" :> 4)
MCVersions == {<<11, 11>>, <<12, 22>>, <<0, 13>>, <<12, 0>>}
MCModes == {"0", "1", "2"}

(* A number survives its printing in the base in which it is parsed.       *)
ASSUME SameBaseKeeps ==
  /\ \A base \in {10, 16}, n \in 0..600 : Number(base, Text(base, n)) = n
  /\ \A bits \in SUBSET (0..8) : BitsOf(NumberOf(bits)) = bits

CallerSymmetry == Permutations(Callers)
=============================================================================
