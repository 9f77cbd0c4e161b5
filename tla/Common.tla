------------------------------- MODULE Common -------------------------------
(***************************************************************************)
(* The operators of the carbon application, as carbon/carbon.xml declares  *)
(* them, and the sentinel values the modules share.                        *)
(***************************************************************************)
EXTENDS Integers, Sequences

CONSTANTS NUM_QUEUE_SERVERS,   \* the primary and its replicas
          Uninit,              \* a field that no statement has initialised
          Null                 \* the null pointer

ASSUME CommonAssumption == /\ NUM_QUEUE_SERVERS \in Nat /\ NUM_QUEUE_SERVERS >= 2
                           /\ Uninit \notin Int
                           /\ Null \notin Int
                           /\ Uninit # Null

(***************************************************************************)
(* The queue servers carry the ids the code gives them, 0 for the primary. *)
(***************************************************************************)
QueueServers == 0 .. NUM_QUEUE_SERVERS - 1
Primary      == 0
Replicas     == 1 .. NUM_QUEUE_SERVERS - 1
Echo         == NUM_QUEUE_SERVERS
Operators    == 0 .. NUM_QUEUE_SERVERS
=============================================================================
