------------------------------ MODULE MCCarbon ------------------------------
(***************************************************************************)
(* Values of the constants of Carbon for model checking.  The texts need   *)
(* no symmetry: they are numbered in the order of their arrival.           *)
(***************************************************************************)
EXTENDS Carbon, TLC

\* Replica r shares the key r with the primary; 0 is a key nobody shares.
MCKeys        == 0 .. NUM_QUEUE_SERVERS - 1
MCPrimaryKeys == [r \in Replicas |-> r]

\* The last replica's key file does not match the primary's.
MCStaleKeys == [r \in Replicas |-> IF r = NUM_QUEUE_SERVERS - 1 THEN 0 ELSE r]

\* Every signature verifies, or all but that of the first request.
MCAllVerified  == Texts
MCSomeVerified == Texts \ {1}

\* The workers of an operator are interchangeable.
MCWorkers == Permutations(Workers)
=============================================================================
