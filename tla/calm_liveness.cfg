\* Clients that hold back while a round is being ended.
SPECIFICATION CalmSpec
CONSTANTS
  NUM_QUEUE_SERVERS = 3
  MAX_QUEUE_SIZE = 1
  MaxRequests = 3
  Workers = {w}
  Keys <- MCKeys
  PrimaryKeys <- MCPrimaryKeys
  ReplicaKeys <- MCPrimaryKeys
  Verified <- MCAllVerified
  Uninit = Uninit
  Null = Null
\* The clients send a bounded number of requests, after which nothing is left to do.
CHECK_DEADLOCK FALSE
PROPERTY EveryLoggedAnswered
PROPERTY WaitEndsInEmptyLog
INVARIANT LogsAgreeWhenQuiet
