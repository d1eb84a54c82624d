---------------------------- MODULE MCEventQueue ----------------------------
(***************************************************************************)
(* Instances of EventQueue for TLC: posts of one to three events over an   *)
(* FMQ of two, so that posts are written directly, in parts, queued, split *)
(* into chunks and dropped; and, as <<>>, posts filtered out entirely.     *)
(***************************************************************************)
EXTENDS EventQueue, TLC

MCBatches == {<<>>, <<TRUE>>, <<FALSE, TRUE>>, <<TRUE, FALSE, TRUE>>}
MCOneWakeup == {<<TRUE>>}

ClientSymmetry == Permutations(Clients)
=============================================================================
