\* Refuted: two requests with one message id.
SPECIFICATION Spec
CONSTANTS
  NUM_QUEUE_SERVERS = 2
  MAX_QUEUE_SIZE = 1
  MaxRequests = 2
  Workers = {w1,w2}
  Keys <- MCKeys
  PrimaryKeys <- MCPrimaryKeys
  ReplicaKeys <- MCPrimaryKeys
  Verified <- MCAllVerified
  Uninit = Uninit
  Null = Null
\* The clients send a bounded number of requests, after which nothing is left to do.
CHECK_DEADLOCK FALSE
INVARIANT QuorumIntegrity
