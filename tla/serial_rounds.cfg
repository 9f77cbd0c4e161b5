\* Several messages are counted at once and the rounds overlap.
SPECIFICATION FairSpec
CONSTANTS
  NUM_QUEUE_SERVERS = 2
  MAX_QUEUE_SIZE = 2
  MaxRequests = 7
  Workers = {w}
  Keys <- MCKeys
  PrimaryKeys <- MCPrimaryKeys
  ReplicaKeys <- MCPrimaryKeys
  Verified <- MCAllVerified
  Uninit = Uninit
  Null = Null
\* The clients send a bounded number of requests, after which nothing is left to do.
CHECK_DEADLOCK FALSE
INVARIANT QuorumIntegrity
INVARIANT LogBounded
INVARIANT IdsNumberPrimaryLog
INVARIANT ResetLosesNoCopy
INVARIANT WaitOutstanding
INVARIANT AtMostOneReply
PROPERTY ClearedOnlyWhenAnswered
PROPERTY ImplementsReplicatedEcho
PROPERTY FullyLoggedAnswered
