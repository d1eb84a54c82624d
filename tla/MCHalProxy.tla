----------------------------- MODULE MCHalProxy -----------------------------
(***************************************************************************)
(* The instance of HalProxy for TLC: posts of one and three events over an *)
(* FMQ of two.                                                             *)
(***************************************************************************)
EXTENDS HalProxy

MCShortBatches == {<<TRUE>>, <<TRUE, FALSE, TRUE>>}
=============================================================================
