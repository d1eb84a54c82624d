-------------------------- MODULE MCDynamicSensors --------------------------
(***************************************************************************)
(* The instance of DynamicSensors for TLC: two threads, one of which       *)
(* reports two sensors at a time, and one of which reports a bad handle.   *)
(***************************************************************************)
EXTENDS DynamicSensors

CONSTANTS t1, t2, h1, h2

MCMalformed == {<<t2, h2>>}
=============================================================================
