------------------------------- MODULE Carbon -------------------------------
(***************************************************************************)
(* The carbon application of carbon/carbon.xml: the network device feeds   *)
(* client requests to the primary queue server, which logs them and        *)
(* forwards copies to the replicas; every queue server passes the requests *)
(* it logged to the echo server, which answers a client when all of them   *)
(* have done so.  When the logs are full the queue servers send wait       *)
(* messages and the echo server ends the round by signalling them to       *)
(* empty their logs.                                                       *)
(***************************************************************************)
EXTENDS QueueServer, EchoServer

VARIABLE arrived   \* how many requests the network device has handed over

vars == <<inbox, frame, requestQueue, lockOnQueue, logged,
          messageHash, replies, arrived>>

Init == /\ RuntimeInit
        /\ QueueServerInit
        /\ EchoServerInit
        /\ arrived = 0

\* NetRequestDevice::process: a request read from a client's connection is
\* handed to the operator behind net1.out, the primary.
Arrive ==
  /\ arrived < MaxRequests
  /\ arrived' = arrived + 1
  /\ Send(Primary, Request(FromSocket(arrived + 1)))
  /\ UNCHANGED <<frame, queueVars, echoVars>>

QueueStep(q, w) == QueueServerStep(q, w) /\ UNCHANGED <<echoVars, arrived>>
EchoStep(w)     == EchoServerStep(w) /\ UNCHANGED <<queueVars, arrived>>

SystemStep == \E w \in Workers : \/ \E q \in QueueServers : QueueStep(q, w)
                                 \/ EchoStep(w)

Next == Arrive \/ SystemStep

Spec == Init /\ [][Next]_vars

(***************************************************************************)
(* Every worker that has a step to take eventually takes one: they are     *)
(* threads of the runtime and no step of a handler blocks.                 *)
(***************************************************************************)
Fairness == \A w \in Workers :
              /\ \A q \in QueueServers : WF_vars(QueueStep(q, w))
              /\ WF_vars(EchoStep(w))

FairSpec == Spec /\ Fairness

-----------------------------------------------------------------------------
(***************************************************************************)
(* Clients that hold back while a round is being ended.  A round is being  *)
(* ended from the moment a queue server finds its log full until the last  *)
(* queue server has emptied its log and reset its lock.                    *)
(***************************************************************************)
InHandler(q, pcs) == \E w \in Workers : frame[q][w].pc \in pcs

RoundEnding ==
  \E q \in QueueServers :
    \/ lockOnQueue[q] = 1
    \/ InHandler(q, {"state", "qwait", "set", "pop", "reset"})
    \/ Signal \in Enqueued(q)

(* How many requests the primary has logged or has yet to decide on. *)
PrimaryLoad ==
  Len(requestQueue[Primary]) + Len(inbox[Primary])
    + (IF InHandler(Primary, {"start", "out_repl", "size", "push"}) THEN 1 ELSE 0)

Calm == ~RoundEnding /\ PrimaryLoad <= MAX_QUEUE_SIZE

CalmSpec == /\ Init
            /\ [][(Arrive /\ Calm) \/ SystemStep]_vars
            /\ Fairness

-----------------------------------------------------------------------------
(***************************************************************************)
(* Types.  The argument of a handler is of the type its IN port declares;  *)
(* only the primary sees requests that have not been stamped.              *)
(***************************************************************************)
SocketItems  == [port : {"in"}, data : SocketRequests]
StampedItems == [port : {"in"}, data : StampedRequests]
WaitItems    == [port : {"ewait"}, server : QueueServers]

InboxItems(op) ==
  IF op = Primary THEN SocketItems \cup {Signal}
  ELSE IF op = Echo THEN StampedItems \cup WaitItems
  ELSE StampedItems \cup {Signal}

LoggingSteps == {"size", "state", "qwait", "set", "push", "out"}
RequestSteps == {"start", "insert", "received", "out"}
WaitSteps    == {"wait", "insertWait", "processed", "resetHash", "esignal"}

Activations(op) ==
  {Idle} \cup
  IF op = Echo
  THEN [pc : RequestSteps, k : {0}, item : StampedItems]
         \cup [pc : WaitSteps, k : QueueServers, item : WaitItems]
  ELSE [pc : {"start"}, k : {0},
        item : IF op = Primary THEN SocketItems ELSE StampedItems]
         \cup (IF op = Primary
               THEN [pc : {"out_repl"}, k : Replicas, item : StampedItems] ELSE {})
         \cup [pc : LoggingSteps, k : QueueServers, item : StampedItems]
         \cup [pc : {"pop", "reset"}, k : {0}, item : {Signal}]

InboxOK == /\ DOMAIN inbox = Operators
           /\ \A op \in Operators : inbox[op] \in Seq(InboxItems(op))

FrameOK == /\ DOMAIN frame = Operators
           /\ \A op \in Operators : frame[op] \in [Workers -> Activations(op)]

QueueOK == /\ requestQueue \in [QueueServers -> Seq(StampedRequests)]
           /\ lockOnQueue \in [QueueServers -> {0, 1}]
           /\ logged \in SUBSET (QueueServers \X Texts \X Nat)

HashOK == /\ DOMAIN messageHash \subseteq MessageIDs \cup {WaitKey}
          /\ \A key \in DOMAIN messageHash :
               messageHash[key] \in (SUBSET QueueServers) \cup {Null}

EchoOK == HashOK /\ replies \in [Texts -> Nat]

\* Every port carries, every handler step holds and every log contains objects
\* of the type that carbon.xml declares for it, and the keys of the count are
\* message ids of 16 bits or the key of the wait messages.
TypeOK == InboxOK /\ FrameOK /\ QueueOK /\ EchoOK /\ arrived \in 0 .. MaxRequests

-----------------------------------------------------------------------------
(***************************************************************************)
(* Safety.                                                                 *)
(***************************************************************************)
LoggedBy(q, t) == \E entry \in logged : entry[1] = q /\ entry[2] = t

\* A client is answered only when every queue server has logged its request:
\* the reply of carbon_op_echoserver::handleRequest stands for all of them.
QuorumIntegrity ==
  \A t \in Texts : replies[t] > 0 => \A q \in QueueServers : LoggedBy(q, t)

\* No request is answered twice, although every copy that finds the count of
\* its message complete calls out().
AtMostOneReply ==
  \A t \in Texts : replies[t] <= 1

\* The test of a log's size and the push are separate accesses to the queue, so
\* handlers that overlap can all pass the test before any of them pushes.  The
\* log then exceeds its capacity, but by less than one request per handler: a
\* worker that has pushed meets the longer log.  With one worker the capacity is
\* exact.
LogBounded ==
  \A q \in QueueServers :
    Len(requestQueue[q]) < MAX_QUEUE_SIZE + Cardinality(Workers)

\* The message id of a request is its position in the primary's log, so no two
\* requests of a round share an id: the id is read off the queue before the
\* request is forwarded and pushed.
IdsNumberPrimaryLog ==
  \A i \in DOMAIN requestQueue[Primary] :
    requestQueue[Primary][i].messageID = i - 1

\* A copy of a message that a queue server has logged and the echo server has
\* not finished with.
CopyInFlight ==
  \/ \E item \in Enqueued(Echo) : item.port = "in"
  \/ InHandler(Echo, RequestSteps)
  \/ \E q \in QueueServers : InHandler(q, {"out"})

\* When the echo server empties its count no copy is on its way to it: the copy
\* would be counted for a message of the next round.
ResetLosesNoCopy == InHandler(Echo, {"resetHash"}) => ~CopyInFlight

Waiting(q) == lockOnQueue[q] = 1 \/ InHandler(q, {"set"})

WaitPending(q) ==
  \/ Wait(q) \in Enqueued(Echo)
  \/ \E w \in Workers : /\ frame[Echo][w].pc \in {"wait", "insertWait"}
                        /\ Arg(Echo, w) = Wait(q)
  \/ checkIfPresent(messageHash, WaitKey, q)

SignalPending(q) ==
  \/ \E w \in Workers : At(Echo, w, "esignal") /\ frame[Echo][w].k <= q
  \/ Signal \in Enqueued(q)
  \/ InHandler(q, {"pop", "reset"})

\* A queue server's lock is set exactly while its wait message is with the echo
\* server or the echo server's signal is on its way back, never both: a lock
\* without either would keep the queue server from ever waiting again.
WaitOutstanding ==
  \A q \in QueueServers : /\ Waiting(q) <=> (WaitPending(q) \/ SignalPending(q))
                         /\ ~(WaitPending(q) /\ SignalPending(q))

\* A queue server logs only requests whose signature the primary has verified,
\* and a replica only copies whose digest its own key confirms.
AuthenticLogs ==
  \A entry \in logged :
    /\ entry[2] \in Verified
    /\ entry[1] # Primary => PrimaryKeys[entry[1]] = ReplicaKeys[entry[1]]

\* A queue server is counted for a message only after it has logged a request
\* with that message id, whatever the interleaving of the handlers.
CountedWasLogged ==
  \A key \in DOMAIN messageHash \ {WaitKey} :
    messageHash[key] # Null =>
      \A q \in messageHash[key] :
        \E entry \in logged : entry[1] = q /\ entry[3] % 65536 = key

\* A request leaves a log only after its client has been answered.
ClearedOnlyWhenAnswered ==
  [][\A q \in QueueServers :
       requestQueue'[q] = << >> =>
         \A i \in DOMAIN requestQueue[q] :
           replies[requestQueue[q][i].buffer] > 0]_vars

\* The number of bytes NetRequestDevice::run sends is the length of the text.
ReplyHasItsLength ==
  \A w \in Workers :
    At(Echo, w, "out") => Arg(Echo, w).data.numBytes = Arg(Echo, w).data.buffer

-----------------------------------------------------------------------------
(***************************************************************************)
(* Strengthenings that every step preserves.                               *)
(***************************************************************************)
Forwarded(r, data) == /\ data.queueServerID = r
                      /\ data.buffer \in Verified
                      /\ data.mac = genMac(data.buffer, PrimaryKeys[r])

Accepted(q, data) == /\ data.queueServerID = q
                     /\ data.buffer \in Verified
                     /\ q # Primary => PrimaryKeys[q] = ReplicaKeys[q]

Recorded(log, data) == <<data.queueServerID, data.buffer, data.messageID>> \in log

ItemProvenance(log, op, item) ==
  item.port = "in" => /\ op \in Replicas => Forwarded(op, item.data)
                      /\ op = Echo => Recorded(log, item.data)

FrameProvenance(log, op, activation) ==
  LET data == activation.item.data
  IN /\ op \in Replicas /\ activation.pc = "start" => Forwarded(op, data)
     /\ op \in QueueServers /\ activation.pc \in LoggingSteps \cup {"out_repl"} =>
          Accepted(op, data)
     /\ op \in QueueServers /\ activation.pc = "out" => Recorded(log, data)
     /\ op = Echo /\ activation.pc \in RequestSteps => Recorded(log, data)

\* Where a request is tells what has been done for it: a replica holds what the
\* primary has verified and authenticated, and the echo server only what a
\* queue server has logged.
Provenance ==
  \A op \in Operators :
    /\ \A item \in Enqueued(op) : ItemProvenance(logged, op, item)
    /\ \A w \in Workers : FrameProvenance(logged, op, frame[op][w])

-----------------------------------------------------------------------------
(***************************************************************************)
(* Liveness, and what holds when nothing is going on.                      *)
(***************************************************************************)
\* Every request the primary logs is eventually answered.
EveryLoggedAnswered ==
  \A t \in Texts : LoggedBy(Primary, t) ~> (replies[t] > 0)

\* Whatever the clients do, a request that every queue server has logged is
\* eventually answered.  (Neither is ever undone, so that it is enough to say
\* that time and again nothing logged by all is left to answer.)
FullyLoggedAnswered ==
  []<>(\A t \in Texts : (\A q \in QueueServers : LoggedBy(q, t)) => replies[t] > 0)

\* Once a queue server has asked to wait, its log is eventually emptied.
WaitEndsInEmptyLog ==
  \A q \in QueueServers : (lockOnQueue[q] = 1) ~> (requestQueue[q] = << >>)

\* When the wait messages of all queue servers have been received, the echo
\* server eventually ends the round.
AllWaitsReceived == receivedAllRequests(messageHash, WaitKey)

WaitsEndTheRound == AllWaitsReceived ~> (messageHash = EmptyHash)

\* When nothing is going on, all the logs hold the same requests in the same
\* order.
Buffers(q) == [i \in DOMAIN requestQueue[q] |-> requestQueue[q][i].buffer]
LogsAgreeWhenQuiet == Quiet => \A q \in Replicas : Buffers(q) = Buffers(Primary)

-----------------------------------------------------------------------------
(***************************************************************************)
(* What the application promises its clients.                              *)
(***************************************************************************)
Holders == [t \in Texts |-> {entry[1] : entry \in {e \in logged : e[2] = t}}]

Abstract == INSTANCE ReplicatedEcho
              WITH Servers  <- QueueServers, Requests <- Texts,
                   Admitted <- Verified,
                   holders  <- Holders,      answers  <- replies

\* The application implements the replicated echo service: every step of the
\* queue servers and the echo server is a step of it or leaves it unchanged.
ImplementsReplicatedEcho == Abstract!Spec
=============================================================================
