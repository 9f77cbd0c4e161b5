---------------------------- MODULE RequestCount ----------------------------
(***************************************************************************)
(* The table of carbon/RequestCount.hh: for each message id the queue      *)
(* servers that message has been received from.  The code's                *)
(* std::map<uint32_t, uint32_t*> is a function from the keys in the map to *)
(* NULL or to the set of servers whose array element is 1.  Looking a key  *)
(* up with operator[] inserts it with a NULL pointer, so the lookups are   *)
(* state changes too.                                                      *)
(***************************************************************************)
EXTENDS Common

\* An array of the map is not the null pointer.
ASSUME RequestCountAssumption == \A servers \in SUBSET QueueServers : servers # Null

(***************************************************************************)
(* The key the wait messages are counted under: -1, which the uint32_t     *)
(* parameter turns into a key above every uint16_t message id.             *)
(***************************************************************************)
WaitKey == -1

EmptyHash == [k \in {} |-> Null]

\* The map after messageHash[key] has been evaluated.
Touch(hash, key) ==
  [k \in DOMAIN hash \cup {key} |-> IF k \in DOMAIN hash THEN hash[k] ELSE Null]

checkIfPresent(hash, key, server) ==
  /\ key \in DOMAIN hash
  /\ hash[key] # Null
  /\ server \in hash[key]

\* Mutant: a fresh array is stored for every message.
insertAlwaysFresh(hash, key, server) ==
  [Touch(hash, key) EXCEPT ![key] = {server}]

insertMsgHash(hash, key, server) ==
  LET seen == IF key \in DOMAIN hash /\ hash[key] # Null THEN hash[key] ELSE {}
  IN [Touch(hash, key) EXCEPT ![key] = seen \cup {server}]

\* Mutant: the loop over the servers starts at 1.
receivedFromReplicas(hash, key) ==
  \A server \in Replicas : checkIfPresent(hash, key, server)

receivedAllRequests(hash, key) ==
  \A server \in QueueServers : checkIfPresent(hash, key, server)

\* Mutant: only the wait messages are examined.
processedAllWaits(hash) == receivedAllRequests(hash, WaitKey)

processedAllRequests(hash) ==
  \A key \in DOMAIN hash : receivedAllRequests(hash, key)
=============================================================================
