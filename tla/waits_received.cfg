\* Refuted: all wait messages received, and the round does not end.
SPECIFICATION FairSpec
CONSTANTS
  NUM_QUEUE_SERVERS = 2
  MAX_QUEUE_SIZE = 1
  MaxRequests = 5
  Workers = {w}
  Keys <- MCKeys
  PrimaryKeys <- MCPrimaryKeys
  ReplicaKeys <- MCPrimaryKeys
  Verified <- MCAllVerified
  Uninit = Uninit
  Null = Null
\* The clients send a bounded number of requests, after which nothing is left to do.
CHECK_DEADLOCK FALSE
PROPERTY WaitsEndTheRound
