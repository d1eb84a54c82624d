-------------------------- MODULE MCSharedWakelock --------------------------
(***************************************************************************)
(* Instances of SharedWakelock for TLC; the clients are interchangeable.   *)
(***************************************************************************)
EXTENDS SharedWakelock, TLC

ClientSymmetry == Permutations(Clients)
=============================================================================
