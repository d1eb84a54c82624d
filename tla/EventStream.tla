---------------------------- MODULE EventStream ----------------------------
(***************************************************************************)
(* What the event path promises, whatever queues it is made of: a stream   *)
(* of numbered events of which some may be lost but which is otherwise     *)
(* read in the order of the posts, no event twice.  It abstracts           *)
(* postEventsToMessageQueue, handlePendingWrites and initializeCommon of   *)
(* sensors/HalProxy.cpp; EventQueue implements it.                         *)
(***************************************************************************)
EXTENDS Integers

VARIABLES
  stream,     \* numbers of the events posted, not read and not lost
  nextId,     \* number of the next event
  lastRead    \* number of the last event read

vars == <<stream, nextId, lastRead>>

TypeOK ==
  /\ stream \subseteq Nat
  /\ nextId \in Nat
  /\ lastRead \in Nat

Init ==
  /\ stream = {}
  /\ nextId = 1
  /\ lastRead = 0

(* A post of any number of events, of which the first k are kept.          *)
Post ==
  /\ nextId' \in Nat
  /\ \E k \in 0..(nextId' - nextId) : stream' = stream \cup nextId..(nextId + k - 1)
  /\ UNCHANGED lastRead

(* The reader gets the oldest event there is.                              *)
Read ==
  /\ lastRead' \in stream
  /\ \A n \in stream : lastRead' <= n
  /\ stream' = stream \ {lastRead'}
  /\ UNCHANGED nextId

(* A run of events is lost: those of a and b and all between them.         *)
Lose(a, b) ==
  /\ stream' = {n \in stream : n < a \/ b < n}
  /\ UNCHANGED <<nextId, lastRead>>

Next ==
  \/ Post
  \/ Read
  \/ \E a, b \in stream : Lose(a, b)

Spec == Init /\ [][Next]_vars

(* Every event on its way was posted after the last one read: the reader   *)
(* sees increasing numbers, so no event twice and none out of order.       *)
InOrder == \A n \in stream : lastRead < n /\ n < nextId
=============================================================================
