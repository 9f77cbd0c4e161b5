\* A request that does not verify and a replica with another key.
SPECIFICATION Spec
CONSTANTS
  NUM_QUEUE_SERVERS = 3
  MAX_QUEUE_SIZE = 1
  MaxRequests = 3
  Workers = {w}
  Keys <- MCKeys
  PrimaryKeys <- MCPrimaryKeys
  ReplicaKeys <- MCStaleKeys
  Verified <- MCSomeVerified
  Uninit = Uninit
  Null = Null
\* The clients send a bounded number of requests, after which nothing is left to do.
CHECK_DEADLOCK FALSE
INVARIANT TypeOK
INVARIANT AuthenticLogs
INVARIANT Provenance
