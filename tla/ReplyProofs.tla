----------------------------- MODULE ReplyProofs -----------------------------
(***************************************************************************)
(* The replies (ReplyInv of Rounds), and what the application promises:    *)
(* a reply stands for every queue server, no request is answered twice, no *)
(* request is forgotten before it has been answered, and so every step is  *)
(* one of the replicated echo service or none.                             *)
(***************************************************************************)
EXTENDS CountProofs

RequestsAnswered == Known /\ ReplyInv

-----------------------------------------------------------------------------
(***************************************************************************)
(* A complete count.                                                       *)
(***************************************************************************)
\* The entries counted under one id are of one request, the primary's.
LEMMA CompleteCount ==
  ASSUME Serial, Known, NEW id \in Nat, receivedAllRequests(messageHash, id)
  PROVE  \E e \in Entries(Primary) :
           /\ e.messageID = id /\ id < MAX_QUEUE_SIZE
           /\ \A q \in QueueServers :
                /\ ~Released(q) /\ Counted(q, id)
                /\ \A d \in Entries(q) : d.messageID = id => d.buffer = e.buffer
                /\ \E d \in Entries(q) : d.messageID = id
<1>1. ASSUME NEW q \in QueueServers
      PROVE  /\ ~Released(q) /\ Counted(q, id)
             /\ \E d \in Entries(q) : d.messageID = id
  <2>1. Counted(q, id)
    BY DEF receivedAllRequests, Counted
  <2>2. id \in MessageIDs
    BY <2>1, CountedKey DEF Known, Basis
  <2> QED  BY <2>1, <2>2 DEF Known, CountInv, ServerCounts, CountedLogged
<1>2. PICK e \in Entries(Primary) : e.messageID = id
  BY <1>1, Constants
<1>3. id < MAX_QUEUE_SIZE
  BY <1>2, PrimaryEntry DEF Known
<1>4. ASSUME NEW q \in QueueServers, NEW d \in Entries(q), d.messageID = id
      PROVE  d.buffer = e.buffer
  <2>1. Current(d)
    BY <1>1, <1>4, EntryCurrent
  <2> QED  BY <1>2, <1>4, <2>1, CurrentEntry DEF Known
<1> QED  BY <1>1, <1>2, <1>3, <1>4

\* The copy in the echo server's hand, when the count of its id is complete, is
\* of that request too, and its other copies have all been counted.
LEMMA CompleteCopy ==
  ASSUME Serial, Known, IdsFit, pc(Echo) \in {"received", "out"},
         receivedAllRequests(messageHash, item(Echo).data.messageID)
  PROVE  LET t == item(Echo).data.buffer
             id == item(Echo).data.messageID
         IN /\ \A q \in QueueServers : LoggedBy(q, t)
            /\ \A q \in QueueServers : \A d \in StampedRequests :
                 Flying(q, d) => d.buffer # t
            /\ \A e \in Entries(Primary) : e.messageID = id => e.buffer = t
<1> DEFINE data == item(Echo).data
           t    == data.buffer
           id   == data.messageID
<1>1. data \in StampedRequests /\ id \in Nat
  BY EchoHands, IdsTyped DEF Known, Basis, RequestSteps
<1>2. PICK s \in QueueServers : s = data.queueServerID
  BY <1>1, IdsTyped
<1>3. data \in Entries(s)
  BY <1>1, <1>2 DEF InHand, Known, CountInv, ServerCounts, FlyingLogged
<1>4. PICK e \in Entries(Primary) :
        /\ e.messageID = id /\ id < MAX_QUEUE_SIZE
        /\ \A q \in QueueServers :
             /\ ~Released(q) /\ Counted(q, id)
             /\ \A d \in Entries(q) : d.messageID = id => d.buffer = e.buffer
             /\ \E d \in Entries(q) : d.messageID = id
  BY <1>1, CompleteCount
<1>5. e.buffer = t
  BY <1>3, <1>4
<1>6. ASSUME NEW q \in QueueServers PROVE LoggedBy(q, t)
  <2>1. PICK d \in Entries(q) : d.messageID = id
    BY <1>4
  <2>2. d.buffer = t
    BY <1>4, <1>5, <2>1
  <2> QED  BY <2>1, <2>2, EntryOrder DEF Known
<1>7. ASSUME NEW q \in QueueServers, NEW d \in StampedRequests, Flying(q, d), d.buffer = t
      PROVE  FALSE
  <2>1. d \in Entries(q)
    BY <1>7 DEF Known, CountInv, ServerCounts, FlyingLogged
  <2>2. PICK c \in Entries(q) : c.messageID = id
    BY <1>4
  <2>3. c.buffer = d.buffer
    BY <1>4, <1>5, <1>7, <2>2
  <2>4. d = c
    BY <2>1, <2>2, <2>3, EntryOrder DEF Known
  <2>5. ~Counted(q, id)
    BY <1>4, <1>7, <2>2, <2>4 DEF Known, CountInv, ServerCounts, CountedOnce
  <2> QED  BY <1>4, <2>5
<1>8. \A d \in Entries(Primary) : d.messageID = id => d.buffer = t
  BY <1>4, <1>5, Constants
<1> QED  BY <1>6, <1>7, <1>8

-----------------------------------------------------------------------------
(***************************************************************************)
(* Steps that concern no reply.                                            *)
(***************************************************************************)
\* No request is logged, answered or newly released, and no copy is new.
LEMMA ReplyKept ==
  ASSUME ReplyInv, UNCHANGED <<logged, replies>>,
         \A q \in QueueServers : Entries(q)' \subseteq Entries(q),
         \A q \in QueueServers : Released(q)' => Released(q) \/ Entries(q)' = {},
         \A q \in QueueServers : \A d \in StampedRequests :
           (Flying(q, d) \/ InHand(q, d))' => Flying(q, d) \/ InHand(q, d),
         ReplyComplete', CompleteAnswered'
  PROVE  ReplyInv'
<1>1. AnsweredDone'
  BY DEF ReplyInv, AnsweredDone, LoggedBy
<1>2. ReleasedAnswered'
  BY DEF ReplyInv, ReleasedAnswered
<1>3. AtMostOneReply'
  BY DEF ReplyInv, AtMostOneReply
<1> QED  BY <1>1, <1>2, <1>3 DEF ReplyInv

LEMMA ReceivedAll ==
  \A key : /\ receivedAllRequests(messageHash, key) <=> \A q \in QueueServers : Counted(q, key)
           /\ receivedAllRequests(messageHash', key) <=>
                \A q \in QueueServers : Counted(q, key)'
BY DEF receivedAllRequests, Counted

\* A step of a queue server that logs no request.
LEMMA ReplyQueueStep ==
  ASSUME ReplyInv, NEW q \in QueueServers, OnlyMoves(q),
         UNCHANGED <<messageHash, logged, replies>>,
         \A p \in QueueServers : Entries(p)' \subseteq Entries(p),
         \A p \in QueueServers : Released(p)' => Released(p) \/ Entries(p)' = {},
         \A p \in QueueServers : \A d \in StampedRequests :
           (Flying(p, d) \/ InHand(p, d))' => Flying(p, d) \/ InHand(p, d)
  PROVE  ReplyInv'
<1>1. frame'[Echo][Worker] = frame[Echo][Worker]
  BY Constants DEF OnlyMoves
<1>2. ReplyComplete'
  BY <1>1 DEF ReplyInv, ReplyComplete, pc, item
<1>3. CompleteAnswered'
  BY <1>1, Constants DEF ReplyInv, CompleteAnswered, pc, item
<1> QED  BY <1>2, <1>3, ReplyKept

\* A step that touches no log, no copy and no signal.
LEMMA ReplyQuiet ==
  ASSUME Serial, Known, ReplyInv, NEW q \in QueueServers, OnlyMoves(q),
         UNCHANGED <<requestQueue, messageHash, logged, replies>>,
         \/ frame'[q][Worker] = frame[q][Worker]
         \/ pc(q) \notin {"out", "pop"} /\ frame'[q][Worker].pc \notin {"out", "pop"},
         \/ UNCHANGED inbox
         \/ \E dest \in Operators : \E it :
              /\ Sent(dest, it) /\ it # Signal
              /\ dest = Echo => \A d : it # Request(d)
  PROVE  ReplyInv'
<1>1. /\ \A d : Request(d) \in Enqueued(Echo)' <=> Request(d) \in Enqueued(Echo)
      /\ \A p \in QueueServers : Signal \in Enqueued(p)' <=> Signal \in Enqueued(p)
  <2>1. CASE UNCHANGED inbox
    BY <2>1 DEF Enqueued
  <2>2. ASSUME NEW dest \in Operators, NEW it, Sent(dest, it), it # Signal,
               dest = Echo => \A d : it # Request(d)
        PROVE  /\ \A d : Request(d) \in Enqueued(Echo)' <=> Request(d) \in Enqueued(Echo)
               /\ \A p \in QueueServers : Signal \in Enqueued(p)' <=> Signal \in Enqueued(p)
    BY <2>2, SentItems, Constants DEF Known, Basis
  <2> QED  BY <2>1, <2>2
<1>2. \A p \in Operators : p # q => frame'[p][Worker] = frame[p][Worker]
  BY DEF OnlyMoves
<1>3. ASSUME NEW p \in QueueServers
      PROVE  /\ Entries(p)' = Entries(p)
             /\ Released(p)' <=> Released(p)
             /\ \A d : (Flying(p, d)' <=> Flying(p, d)) /\ (InHand(p, d)' <=> InHand(p, d))
  <2>1. Entries(p)' = Entries(p)
    BY DEF Entries
  <2>2. frame'[Echo][Worker] = frame[Echo][Worker]
        /\ (p # q => frame'[p][Worker] = frame[p][Worker])
    BY <1>2, Constants
  <2>3. Released(p)' <=> Released(p)
    BY <1>1, <2>2, ReleasedKept
  <2>4. \A d : (Flying(p, d)' <=> Flying(p, d)) /\ (InHand(p, d)' <=> InHand(p, d))
    BY <1>1, <2>2, FlyingKept
  <2> QED  BY <2>1, <2>3, <2>4
<1>4. \A p \in QueueServers : \A d \in StampedRequests :
        (Flying(p, d) \/ InHand(p, d))' => Flying(p, d) \/ InHand(p, d)
  BY <1>3
<1> QED  BY <1>3, <1>4, ReplyQueueStep

-----------------------------------------------------------------------------
(***************************************************************************)
(* The network device and the queue servers.                               *)
(***************************************************************************)
LEMMA ReplyArrive ==
  ASSUME Serial, Known, ReplyInv, Arrive
  PROVE  ReplyInv'
<1>1. /\ Sent(Primary, Request(FromSocket(arrived + 1)))
      /\ UNCHANGED <<frame, requestQueue, logged, messageHash, replies>>
  BY ArriveView DEF Known, Basis
<1>2. OnlyMoves(Primary)
  BY <1>1 DEF OnlyMoves
<1> QED  BY <1>1, <1>2, ReplyQuiet, Senders, Constants

\* The steps of a handler before it has logged a request, or when it does not.
LEMMA ReplyHandler ==
  ASSUME Serial, Known, ReplyInv, NEW q \in QueueServers, NEW w \in Workers,
         \/ CheckSize(q, w) \/ CheckLock(q, w) \/ SendWait(q, w) \/ SetLock(q, w)
         \/ ResetLock(q, w),
         UNCHANGED <<messageHash, replies>>
  PROVE  ReplyInv'
<1>1. /\ pc(q) \in {"size", "state", "qwait", "set", "reset"}
      /\ UNCHANGED <<requestQueue, logged>> /\ OnlyMoves(q)
      /\ frame'[q][Worker].pc \in {"state", "push", "qwait", "set", "idle"}
      /\ UNCHANGED inbox \/ Sent(Echo, Wait(q))
  BY CheckSizeView, CheckLockView, SendWaitView, SetLockView, ResetLockView
     DEF Known, Basis, GoesTo, Returns
<1>2. Wait(q) # Signal /\ \A d : Wait(q) # Request(d)
  BY DEF Wait, Signal, Request
<1> QED  BY <1>1, <1>2, ReplyQuiet, Constants

LEMMA ReplyStart ==
  ASSUME Serial, Known, ReplyInv, NEW q \in QueueServers, NEW w \in Workers,
         \/ q = Primary /\ VerifySignature(w)
         \/ q # Primary /\ VerifyMac(q, w),
         UNCHANGED <<messageHash, replies>>
  PROVE  ReplyInv'
<1>1. /\ pc(q) = "start" /\ UNCHANGED <<inbox, requestQueue, logged>> /\ OnlyMoves(q)
      /\ frame'[q][Worker].pc \in {"idle", "out_repl", "size"}
  BY VerifySignatureView, VerifyMacView DEF Known, Basis
<1> QED  BY <1>1, ReplyQuiet

LEMMA ReplyForward ==
  ASSUME Serial, Known, ReplyInv, NEW w \in Workers, Forward(w),
         UNCHANGED <<messageHash, replies>>
  PROVE  ReplyInv'
<1>1. PICK s \in Replicas, copy \in StampedRequests :
        /\ pc(Primary) = "out_repl" /\ OnlyMoves(Primary)
        /\ UNCHANGED <<requestQueue, logged>>
        /\ frame'[Primary][Worker].pc \in {"out_repl", "size"}
        /\ Sent(s, Request(copy))
  BY ForwardView DEF Known, Basis
<1>2. s \in Operators /\ s # Echo
  BY Constants
<1> QED  BY <1>1, <1>2, ReplyQuiet, Senders, Constants

\* A handler takes a request or a signal in hand.
LEMMA ReplyDispatch ==
  ASSUME Serial, Known, ReplyInv, NEW q \in QueueServers, NEW w \in Workers, Dispatch(q, w),
         UNCHANGED <<requestQueue, logged, messageHash, replies>>
  PROVE  ReplyInv'
<1>0. PICK it : it = inbox[q][1]
  OBVIOUS
<1>1. /\ pc(q) = "idle" /\ Taken(q) /\ OnlyMoves(q)
      /\ it.port = "in" => frame'[q][Worker].pc = "start"
      /\ it.port = "qsignal" => frame'[q][Worker].pc = "pop"
      /\ it \in InboxItems(q)
  BY <1>0, DispatchView, Constants DEF Known, Basis
<1>2. \/ it = Signal /\ it.port = "qsignal"
      \/ it.port = "in" /\ it # Signal
  BY <1>1, Constants DEF InboxItems, SocketItems, StampedItems, Signal, Primary
<1>3. /\ Enqueued(q) = Enqueued(q)' \cup {it}
      /\ \A p \in Operators : p # q => Enqueued(p)' = Enqueued(p)
      /\ \A p \in Operators : p # q => frame'[p][Worker] = frame[p][Worker]
  BY <1>0, <1>1, TakenItems, Constants DEF Known, Basis, OnlyMoves
<1>4. ASSUME NEW p \in QueueServers
      PROVE  /\ Entries(p)' = Entries(p)
             /\ Released(p)' => Released(p)
             /\ \A d : (Flying(p, d)' <=> Flying(p, d)) /\ (InHand(p, d)' <=> InHand(p, d))
  <2>1. Entries(p)' = Entries(p)
    BY DEF Entries
  <2>2. Released(p)' => Released(p)
    BY <1>1, <1>2, <1>3, Constants DEF Released, ToSignal, pc, turn
  <2>3. frame'[q][Worker].pc # "out"
    BY <1>1, <1>2
  <2>4. \A d : (Flying(p, d)' <=> Flying(p, d)) /\ (InHand(p, d)' <=> InHand(p, d))
    BY <1>1, <1>3, <2>3, FlyingKept, Constants
  <2> QED  BY <2>1, <2>2, <2>4
<1>5. \A p \in QueueServers : \A d \in StampedRequests :
        (Flying(p, d) \/ InHand(p, d))' => Flying(p, d) \/ InHand(p, d)
  BY <1>4
<1> QED  BY <1>1, <1>4, <1>5, ReplyQueueStep

LEMMA ReplySendToEcho ==
  ASSUME Serial, Known, ReplyInv, NEW q \in QueueServers, NEW w \in Workers, SendToEcho(q, w),
         UNCHANGED <<messageHash, replies>>
  PROVE  ReplyInv'
<1>0. PICK data \in StampedRequests : data = item(q).data
  BY SendToEchoView DEF Known, Basis
<1>1. /\ pc(q) = "out" /\ UNCHANGED <<requestQueue, logged>>
      /\ Sent(Echo, Request(data)) /\ OnlyMoves(q)
      /\ frame'[q][Worker].pc = "idle"
  BY <1>0, SendToEchoView DEF Known, Basis, Returns
<1>2. /\ Enqueued(Echo)' = Enqueued(Echo) \cup {Request(data)}
      /\ \A p \in QueueServers : Enqueued(p)' = Enqueued(p)
      /\ \A p \in Operators : p # q => frame'[p][Worker] = frame[p][Worker]
  BY <1>1, SentItems, Constants DEF Known, Basis, OnlyMoves
<1>3. \A d : Request(d) = Request(data) <=> d = data
  BY DEF Request
<1>4. data.queueServerID = q
  <2>1. Accepted(q, Data(q, w))
    BY QueueProvenance, OneWorker DEF SendToEcho, At, LoggingSteps, Known, Basis
  <2> QED  BY <1>0, <2>1, OneWorker DEF Accepted, Data, Arg, item
<1>5. ASSUME NEW p \in QueueServers
      PROVE  /\ Entries(p)' = Entries(p)
             /\ Released(p)' <=> Released(p)
             /\ \A d : (Flying(p, d)' <=> Flying(p, d)) /\ (InHand(p, d)' <=> InHand(p, d))
  <2>1. Entries(p)' = Entries(p)
    BY <1>1 DEF Entries
  <2>2. Released(p)' <=> Released(p)
    BY <1>1, <1>2, ReleasedKept, Constants
  <2>3. \A d : (Flying(p, d)' <=> Flying(p, d)) /\ (InHand(p, d)' <=> InHand(p, d))
    BY <1>0, <1>1, <1>2, <1>3, <1>4, Constants DEF Flying, InHand, pc, item
  <2> QED  BY <2>1, <2>2, <2>3
<1>6. \A p \in QueueServers : \A d \in StampedRequests :
        (Flying(p, d) \/ InHand(p, d))' => Flying(p, d) \/ InHand(p, d)
  BY <1>5
<1> QED  BY <1>1, <1>5, <1>6, ReplyQueueStep

LEMMA ReplyPopAll ==
  ASSUME Serial, Known, ReplyInv, NEW q \in QueueServers, NEW w \in Workers, PopAll(q, w),
         UNCHANGED <<messageHash, replies>>
  PROVE  ReplyInv'
<1>1. /\ pc(q) = "pop" /\ UNCHANGED <<inbox, logged>>
      /\ OnlyMoves(q) /\ frame'[q][Worker].pc = "reset"
      /\ \A p \in QueueServers : p # q => requestQueue'[p] = requestQueue[p]
      /\ DOMAIN requestQueue'[q] = {}
  BY PopAllView DEF Known, Basis, GoesTo
<1>2. /\ \A op \in Operators : Enqueued(op)' = Enqueued(op)
      /\ \A p \in Operators : p # q => frame'[p][Worker] = frame[p][Worker]
      /\ Entries(q)' = {}
      /\ \A p \in QueueServers : p # q => Entries(p)' = Entries(p)
  BY <1>1 DEF Enqueued, OnlyMoves, Entries
<1>3. \A p \in QueueServers : p # q => (Released(p)' <=> Released(p))
  BY <1>2, ReleasedKept, Constants
<1>4. \A p \in QueueServers : \A d :
        (Flying(p, d)' <=> Flying(p, d)) /\ (InHand(p, d)' <=> InHand(p, d))
  <2> SUFFICES ASSUME NEW p \in QueueServers
               PROVE  \A d : (Flying(p, d)' <=> Flying(p, d)) /\ (InHand(p, d)' <=> InHand(p, d))
    OBVIOUS
  <2> QED  BY <1>1, <1>2, FlyingKept, Constants
<1>5. \A p \in QueueServers : \A d \in StampedRequests :
        (Flying(p, d) \/ InHand(p, d))' => Flying(p, d) \/ InHand(p, d)
  BY <1>4
<1>6. \A p \in QueueServers : Entries(p)' \subseteq Entries(p)
  BY <1>2
<1>7. \A p \in QueueServers : Released(p)' => Released(p) \/ Entries(p)' = {}
  BY <1>2, <1>3
<1> QED  BY <1>1, <1>5, <1>6, <1>7, ReplyQueueStep

\* Nothing has been counted under the id of a request the primary logs, and the
\* request has not been answered.
LEMMA ReplyPush ==
  ASSUME Serial, Known, ReplyInv, NEW q \in QueueServers, NEW w \in Workers, Push(q, w),
         UNCHANGED <<messageHash, replies>>
  PROVE  ReplyInv'
<1>0. PICK data \in StampedRequests, n \in Nat : data = item(q).data /\ n = Len(requestQueue[q])
  BY PushView DEF Known, Basis
<1>1. /\ pc(q) = "push" /\ UNCHANGED inbox /\ OnlyMoves(q)
      /\ frame'[q][Worker].pc = "out" /\ frame'[q][Worker].item = item(q)
      /\ \A p \in QueueServers : p # q => requestQueue'[p] = requestQueue[p]
      /\ DOMAIN requestQueue'[q] = DOMAIN requestQueue[q] \cup {n + 1}
      /\ \A i \in DOMAIN requestQueue[q] : requestQueue'[q][i] = requestQueue[q][i]
      /\ requestQueue'[q][n + 1] = data
      /\ logged' = logged \cup {<<q, data.buffer, data.messageID>>}
  BY <1>0, PushView DEF Known, Basis, GoesTo, item
<1>2. /\ \A op \in Operators : Enqueued(op)' = Enqueued(op)
      /\ \A p \in Operators : p # q => frame'[p][Worker] = frame[p][Worker]
      /\ \A p \in QueueServers : p # q => Entries(p)' = Entries(p)
      /\ Entries(q)' = Entries(q) \cup {data}
  BY <1>1 DEF Enqueued, OnlyMoves, Entries
<1>3. /\ \A p \in QueueServers : Released(p)' <=> Released(p)
      /\ ~Released(q)
  BY <1>1, <1>2, ReleasedKept, ReleasedIsFull, Constants DEF Known
<1>4. \A t : ~(LoggedBy(q, t) /\ t = data.buffer)
  BY <1>0, <1>1, IdsTyped
     DEF LoggedBy, Known, Basis, OrderInv, LoggedOrder, BeforeHand, TextSteps, StampSteps
<1>5. ASSUME NEW p \in QueueServers, NEW d, (Flying(p, d) \/ InHand(p, d))'
      PROVE  Flying(p, d) \/ InHand(p, d) \/ (p = q /\ d = data)
  BY <1>0, <1>1, <1>2, <1>5, Constants DEF Flying, InHand, pc, item
<1>6. ReplyComplete'
  BY <1>2, Constants DEF ReplyInv, ReplyComplete, pc, item
<1>7. CompleteAnswered'
  <2>1. q = Primary => ~receivedAllRequests(messageHash, data.messageID)
    <3> SUFFICES ASSUME q = Primary, receivedAllRequests(messageHash, data.messageID)
                 PROVE  FALSE
      OBVIOUS
    <3>1. data.messageID = n /\ data.messageID \in Nat
      BY <1>0, <1>1, IdsTyped, PrimaryHand DEF Known, StampSteps
    <3>2. PICK e \in Entries(Primary) : e.messageID = n
      BY <3>1, CompleteCount
    <3> QED  BY <1>0, <3>2, PrimaryEntry DEF Known
  <2> QED
    BY <1>2, <2>1, Constants DEF ReplyInv, CompleteAnswered, pc, item
<1>8. AnsweredDone'
  <2> SUFFICES ASSUME NEW t \in Texts, replies[t] > 0, NEW p \in QueueServers
               PROVE  /\ LoggedBy(p, t)'
                      /\ \A d \in StampedRequests : (Flying(p, d) \/ InHand(p, d))' => d.buffer # t
    BY DEF AnsweredDone
  <2>1. LoggedBy(p, t)
    BY DEF ReplyInv, AnsweredDone
  <2>2. LoggedBy(p, t)'
    BY <1>1, <2>1 DEF LoggedBy
  <2>3. \A d \in StampedRequests : Flying(p, d) \/ InHand(p, d) => d.buffer # t
    BY DEF ReplyInv, AnsweredDone
  <2> QED  BY <1>4, <1>5, <2>1, <2>2, <2>3
<1>9. ReleasedAnswered'
  BY <1>2, <1>3 DEF ReplyInv, ReleasedAnswered
<1>10. AtMostOneReply'
  BY DEF ReplyInv, AtMostOneReply
<1> QED  BY <1>6, <1>7, <1>8, <1>9, <1>10 DEF ReplyInv

LEMMA ReplyQueueServer ==
  ASSUME Serial, Known, ReplyInv, NEW q \in QueueServers, NEW w \in Workers, QueueStep(q, w)
  PROVE  ReplyInv'
<1>0. UNCHANGED <<messageHash, replies>> /\ QueueServerStep(q, w)
  BY DEF QueueStep, echoVars
<1>1. CASE Dispatch(q, w) /\ UNCHANGED queueVars
  BY <1>0, <1>1, ReplyDispatch DEF queueVars
<1>2. CASE q = Primary /\ VerifySignature(w)
  BY <1>0, <1>2, ReplyStart
<1>3. CASE q = Primary /\ Forward(w)
  BY <1>0, <1>3, ReplyForward
<1>4. CASE q # Primary /\ VerifyMac(q, w)
  BY <1>0, <1>4, ReplyStart
<1>5. CASE CheckSize(q, w)    BY <1>0, <1>5, ReplyHandler
<1>6. CASE CheckLock(q, w)    BY <1>0, <1>6, ReplyHandler
<1>7. CASE SendWait(q, w)     BY <1>0, <1>7, ReplyHandler
<1>8. CASE SetLock(q, w)      BY <1>0, <1>8, ReplyHandler
<1>9. CASE Push(q, w)         BY <1>0, <1>9, ReplyPush
<1>10. CASE SendToEcho(q, w)  BY <1>0, <1>10, ReplySendToEcho
<1>11. CASE PopAll(q, w)      BY <1>0, <1>11, ReplyPopAll
<1>12. CASE ResetLock(q, w)   BY <1>0, <1>12, ReplyHandler
<1> QED
  BY <1>0, <1>1, <1>2, <1>3, <1>4, <1>5, <1>6, <1>7, <1>8, <1>9, <1>10, <1>11, <1>12
     DEF QueueServerStep

-----------------------------------------------------------------------------
(***************************************************************************)
(* The echo server.                                                        *)
(***************************************************************************)
\* The counts of the ids stay, and a complete one stays in hand.
LEMMA CompleteKept ==
  ASSUME Known, ReplyInv, UNCHANGED <<requestQueue, replies>>,
         \A q : \A key \in Nat : Counted(q, key)' <=> Counted(q, key),
         \/ pc(Echo) \notin {"received", "out"}
         \/ /\ frame'[Echo][Worker].pc \in {"received", "out"}
            /\ frame'[Echo][Worker].item = item(Echo)
         \/ ~receivedAllRequests(messageHash, item(Echo).data.messageID)
  PROVE  CompleteAnswered'
<1> SUFFICES ASSUME NEW d \in Entries(Primary), receivedAllRequests(messageHash', d.messageID)
             PROVE  \/ replies[d.buffer] > 0
                    \/ /\ frame'[Echo][Worker].pc \in {"received", "out"}
                       /\ frame'[Echo][Worker].item.data.messageID = d.messageID
  BY DEF CompleteAnswered, Entries, pc, item
<1>1. d.messageID \in Nat
  BY EntryOrder, IdsTyped, Constants DEF Known
<1>2. receivedAllRequests(messageHash, d.messageID)
  BY <1>1, ReceivedAll
<1> QED  BY <1>2 DEF ReplyInv, CompleteAnswered, pc, item

\* A step that neither replies nor signals.
LEMMA ReplyEchoStep ==
  ASSUME Serial, Known, ReplyInv, OnlyMoves(Echo),
         UNCHANGED <<requestQueue, logged, replies>>,
         \A p \in QueueServers : inbox'[p] = inbox[p],
         pc(Echo) # "esignal", frame'[Echo][Worker].pc # "esignal",
         \A q \in QueueServers : \A d \in StampedRequests :
           (Flying(q, d) \/ InHand(q, d))' => Flying(q, d) \/ InHand(q, d),
         ReplyComplete', CompleteAnswered'
  PROVE  ReplyInv'
<1>1. \A p \in QueueServers : Released(p)' <=> Released(p)
  BY Constants DEF Released, ToSignal, Enqueued, OnlyMoves, pc
<1>2. \A p \in QueueServers : Entries(p)' = Entries(p)
  BY DEF Entries
<1> QED  BY <1>1, <1>2, ReplyKept

LEMMA ReplyEchoDispatch ==
  ASSUME Serial, Known, ReplyInv, NEW w \in Workers, Dispatch(Echo, w),
         UNCHANGED <<requestQueue, logged, messageHash, replies>>
  PROVE  ReplyInv'
<1>0. PICK it : it = inbox[Echo][1]
  OBVIOUS
<1>1. /\ pc(Echo) = "idle" /\ Taken(Echo) /\ OnlyMoves(Echo)
      /\ frame'[Echo][Worker].item = it
      /\ it.port = "in" => frame'[Echo][Worker].pc = "start"
      /\ it.port = "ewait" => frame'[Echo][Worker].pc = "wait"
      /\ it \in InboxItems(Echo)
  BY <1>0, DispatchView, Constants DEF Known, Basis
<1>2. \/ it.port = "in" /\ it = Request(it.data)
      \/ it.port = "ewait" /\ \A d : it # Request(d)
  BY <1>1, Constants DEF InboxItems, StampedItems, WaitItems, Request, Echo, Primary
<1>3. /\ Enqueued(Echo) = Enqueued(Echo)' \cup {it}
      /\ \A p \in QueueServers : inbox'[p] = inbox[p]
      /\ \A p \in QueueServers : frame'[p][Worker] = frame[p][Worker]
  BY <1>0, <1>1, TakenItems, Constants DEF Known, Basis, OnlyMoves, Taken
<1>4. \A d : Request(d).data = d
  BY DEF Request
<1>5. ASSUME NEW q \in QueueServers, NEW d \in StampedRequests,
             (Flying(q, d) \/ InHand(q, d))'
      PROVE  Flying(q, d) \/ InHand(q, d)
  BY <1>1, <1>2, <1>3, <1>4, <1>5 DEF Flying, InHand, pc, item
<1>6. frame'[Echo][Worker].pc \in {"start", "wait"}
  BY <1>1, <1>2
<1>7. ReplyComplete'
  BY <1>6 DEF ReplyComplete, pc
<1>8. CompleteAnswered'
  BY <1>1, CompleteKept DEF Counted
<1> QED  BY <1>1, <1>3, <1>5, <1>6, <1>7, <1>8, ReplyEchoStep

LEMMA ReplyCheckRequest ==
  ASSUME Serial, Known, ReplyInv, NEW w \in Workers, CheckRequest(w),
         UNCHANGED <<requestQueue, logged>>
  PROVE  ReplyInv'
<1>1. /\ pc(Echo) = "start" /\ UNCHANGED <<inbox, replies>> /\ OnlyMoves(Echo)
      /\ messageHash' = Touch(messageHash, EchoID)
      /\ frame'[Echo][Worker].item = item(Echo)
      /\ frame'[Echo][Worker].pc \in {"received", "insert"}
  BY CheckRequestView DEF Known, Basis, GoesTo, item
<1>2. ASSUME NEW q \in QueueServers, NEW d \in StampedRequests,
             (Flying(q, d) \/ InHand(q, d))'
      PROVE  Flying(q, d) \/ InHand(q, d)
  BY <1>1, <1>2, EchoFlying DEF Flying
<1>3. ReplyComplete'
  BY <1>1 DEF ReplyComplete, pc
<1>4. CompleteAnswered'
  BY <1>1, CountTouched, CompleteKept
<1> QED  BY <1>1, <1>2, <1>3, <1>4, ReplyEchoStep

\* A count that becomes complete is that of the copy in hand.
LEMMA ReplyInsertRequest ==
  ASSUME Serial, Known, IdsFit, ReplyInv, NEW w \in Workers, InsertRequest(w),
         UNCHANGED <<requestQueue, logged>>
  PROVE  ReplyInv'
<1>0. PICK data \in StampedRequests : data = item(Echo).data
  BY InsertRequestView, EchoHands DEF Known, Basis, RequestSteps
<1>1. PICK s \in QueueServers : s = From /\ s = data.queueServerID
  BY <1>0 DEF From, StampedRequests
<1>2. /\ pc(Echo) = "insert" /\ UNCHANGED <<inbox, replies>> /\ OnlyMoves(Echo)
      /\ messageHash' = insertMsgHash(messageHash, EchoID, s)
      /\ frame'[Echo][Worker].pc = "received"
      /\ frame'[Echo][Worker].item = item(Echo)
  BY <1>1, InsertRequestView DEF Known, Basis, GoesTo, item
<1>3. EchoID = data.messageID
  BY <1>0, <1>1, <1>2, CopyID DEF RequestSteps, Flying
<1>4. \A q : \A key : Counted(q, key)' <=> Counted(q, key) \/ (key = data.messageID /\ q = s)
  BY <1>2, <1>3, CountInserted DEF Known, Basis
<1>5. ASSUME NEW q \in QueueServers, NEW d \in StampedRequests,
             (Flying(q, d) \/ InHand(q, d))'
      PROVE  Flying(q, d) \/ InHand(q, d)
  BY <1>2, <1>5, EchoFlying DEF Flying
<1>6. ReplyComplete'
  BY <1>2 DEF ReplyComplete, pc
<1>7. CompleteAnswered'
  <2> SUFFICES ASSUME NEW d \in Entries(Primary), d.messageID # data.messageID,
                      receivedAllRequests(messageHash', d.messageID)
               PROVE  replies[d.buffer] > 0
    BY <1>0, <1>2 DEF CompleteAnswered, Entries, pc, item
  <2>1. receivedAllRequests(messageHash, d.messageID)
    BY <1>4, ReceivedAll
  <2> QED  BY <1>2, <2>1 DEF ReplyInv, CompleteAnswered
<1> QED  BY <1>2, <1>5, <1>6, <1>7, ReplyEchoStep

LEMMA ReplyCheckReceived ==
  ASSUME Serial, Known, IdsFit, ReplyInv, NEW w \in Workers, CheckReceived(w),
         UNCHANGED <<requestQueue, logged>>
  PROVE  ReplyInv'
<1>0. PICK data \in StampedRequests : data = item(Echo).data
  BY CheckReceivedView, EchoHands DEF Known, Basis, RequestSteps
<1>1. PICK s \in QueueServers : s = From /\ s = data.queueServerID
  BY <1>0 DEF From, StampedRequests
<1>2. /\ pc(Echo) = "received" /\ UNCHANGED <<inbox, replies>> /\ OnlyMoves(Echo)
      /\ messageHash' = Touch(messageHash, EchoID)
      /\ \/ /\ frame'[Echo][Worker].pc = "out" /\ frame'[Echo][Worker].item = item(Echo)
            /\ receivedAllRequests(messageHash, EchoID)
         \/ frame'[Echo][Worker].pc = "idle" /\ ~receivedAllRequests(messageHash, EchoID)
  BY CheckReceivedView DEF Known, Basis, GoesTo, Returns, item
<1>3. EchoID = data.messageID
  BY <1>0, <1>1, <1>2, CopyID DEF RequestSteps, InHand
<1>4. \A q : \A key : Counted(q, key)' <=> Counted(q, key)
  BY <1>2, CountTouched
<1>5. ASSUME NEW q \in QueueServers, NEW d \in StampedRequests,
             (Flying(q, d) \/ InHand(q, d))'
      PROVE  Flying(q, d) \/ InHand(q, d)
  BY <1>2, <1>5, EchoFlying DEF Flying, InHand
<1>6. ReplyComplete'
  <2>1. \A key : receivedAllRequests(messageHash, key) => receivedAllRequests(messageHash', key)
    BY <1>4, ReceivedAll
  <2> QED  BY <1>0, <1>2, <1>3, <2>1 DEF ReplyComplete, pc, item
<1>7. CompleteAnswered'
  BY <1>0, <1>2, <1>3, <1>4, CompleteKept
<1> QED  BY <1>2, <1>5, <1>6, <1>7, ReplyEchoStep

LEMMA ReplyWait ==
  ASSUME Serial, Known, ReplyInv, NEW w \in Workers,
         CheckWait(w) \/ InsertWait(w) \/ CheckProcessed(w),
         UNCHANGED <<requestQueue, logged>>
  PROVE  ReplyInv'
<1>1. /\ UNCHANGED <<inbox, replies>> /\ OnlyMoves(Echo)
      /\ pc(Echo) \in {"wait", "insertWait", "processed"}
      /\ frame'[Echo][Worker].pc \in {"idle", "insertWait", "processed", "resetHash"}
  BY CheckWaitView, InsertWaitView, CheckProcessedView DEF Known, Basis, GoesTo, Returns
<1>2. \A q : \A key \in Nat : Counted(q, key)' <=> Counted(q, key)
  <2>1. CASE InsertWait(w)
    <3>1. PICK s \in QueueServers : messageHash' = insertMsgHash(messageHash, WaitKey, s)
      BY <2>1, InsertWaitView, EchoHands DEF Known, Basis, WaitSteps
    <3> QED  BY <3>1, CountInserted, IdsTyped DEF Known, Basis
  <2>2. CASE CheckWait(w)
    BY <2>2, CheckWaitView, CountTouched DEF Known, Basis
  <2>3. CASE CheckProcessed(w)
    BY <2>3, CheckProcessedView DEF Known, Basis, Counted
  <2> QED  BY <2>1, <2>2, <2>3
<1>3. ASSUME NEW q \in QueueServers, NEW d \in StampedRequests,
             (Flying(q, d) \/ InHand(q, d))'
      PROVE  Flying(q, d) \/ InHand(q, d)
  BY <1>1, <1>3, EchoFlying DEF Flying
<1>4. ReplyComplete'
  BY <1>1 DEF ReplyComplete, pc
<1>5. CompleteAnswered'
  BY <1>1, <1>2, CompleteKept
<1> QED  BY <1>1, <1>3, <1>4, <1>5, ReplyEchoStep

\* The reply is the first to its request, which all queue servers have logged.
LEMMA ReplyReply ==
  ASSUME Serial, Known, IdsFit, ReplyInv, NEW w \in Workers, Reply(w),
         UNCHANGED <<requestQueue, logged>>
  PROVE  ReplyInv'
<1>0. PICK data \in StampedRequests, s \in QueueServers, t \in Texts :
        data = item(Echo).data /\ s = data.queueServerID /\ t = data.buffer
  BY ReplyView, EchoHands, IdsTyped DEF Known, Basis, RequestSteps
<1>1. /\ pc(Echo) = "out" /\ UNCHANGED <<inbox, messageHash>> /\ OnlyMoves(Echo)
      /\ \A u \in Texts : replies'[u] = IF u = t THEN replies[u] + 1 ELSE replies[u]
      /\ frame'[Echo][Worker].pc = "idle"
  BY <1>0, ReplyView DEF Known, Basis, Returns
<1>2. \A u \in Texts : replies[u] \in Nat
  BY DEF Known, Basis, TypeOK, EchoOK
<1>3. \A u \in Texts : replies[u] > 0 => replies'[u] > 0
  BY <1>1, <1>2
<1>4. /\ \A q \in QueueServers : LoggedBy(q, t)
      /\ \A q \in QueueServers : \A d \in StampedRequests : Flying(q, d) => d.buffer # t
      /\ \A e \in Entries(Primary) : e.messageID = data.messageID => e.buffer = t
  BY <1>0, <1>1, CompleteCopy DEF ReplyInv, ReplyComplete
<1>5. replies[t] = 0
  <2>1. InHand(s, data)
    BY <1>0, <1>1 DEF InHand
  <2>2. ~(replies[t] > 0)
    BY <1>0, <2>1 DEF ReplyInv, AnsweredDone
  <2> QED  BY <1>2, <2>2
<1>6. replies'[t] = 1 /\ \A u \in Texts : u # t => replies'[u] = replies[u]
  BY <1>1, <1>5
<1>7. ASSUME NEW q \in QueueServers, NEW d \in StampedRequests
      PROVE  (Flying(q, d)' => Flying(q, d)) /\ ~(InHand(q, d)')
  BY <1>1, EchoFlying DEF Flying
<1>8. \A q \in QueueServers : Entries(q)' = Entries(q) /\ (Released(q)' <=> Released(q))
  BY <1>1, Constants DEF Entries, Released, ToSignal, Enqueued, OnlyMoves, pc
<1>9. ReplyComplete'
  BY <1>1 DEF ReplyComplete, pc
<1>10. CompleteAnswered'
  <2> SUFFICES ASSUME NEW e \in Entries(Primary), receivedAllRequests(messageHash, e.messageID)
               PROVE  replies'[e.buffer] > 0
    BY <1>1, <1>8, Constants DEF CompleteAnswered
  <2>1. CASE replies[e.buffer] > 0
    <3>1. e.buffer \in Texts
      BY EntryOrder, Constants DEF Known, StampedRequests
    <3> QED  BY <1>3, <2>1, <3>1
  <2>2. CASE e.messageID = data.messageID
    BY <1>4, <1>6, <2>2
  <2> QED  BY <1>0, <2>1, <2>2 DEF ReplyInv, CompleteAnswered
<1>11. AnsweredDone'
  <2> SUFFICES ASSUME NEW u \in Texts, replies'[u] > 0, NEW q \in QueueServers
               PROVE  /\ LoggedBy(q, u)'
                      /\ \A d \in StampedRequests : (Flying(q, d) \/ InHand(q, d))' => d.buffer # u
    BY DEF AnsweredDone
  <2>1. LoggedBy(q, u)' <=> LoggedBy(q, u)
    BY DEF LoggedBy
  <2>2. CASE u = t
    BY <1>4, <1>7, <2>1, <2>2
  <2>3. CASE u # t
    BY <1>6, <1>7, <2>1, <2>3 DEF ReplyInv, AnsweredDone
  <2> QED  BY <2>2, <2>3
<1>12. ReleasedAnswered'
  <2> SUFFICES ASSUME NEW q \in QueueServers, Released(q), NEW d \in Entries(q)
               PROVE  replies'[d.buffer] > 0
    BY <1>8 DEF ReleasedAnswered
  <2>1. d.buffer \in Texts
    BY EntryOrder DEF Known, StampedRequests
  <2> QED  BY <1>3, <2>1 DEF ReplyInv, ReleasedAnswered
<1>13. AtMostOneReply'
  BY <1>6 DEF ReplyInv, AtMostOneReply
<1> QED  BY <1>9, <1>10, <1>11, <1>12, <1>13 DEF ReplyInv

\* When the count is emptied every entry of every log has been answered.
LEMMA ReplyResetHash ==
  ASSUME Serial, Known, IdsFit, ReplyInv, NEW w \in Workers, ResetHash(w),
         UNCHANGED <<requestQueue, logged>>
  PROVE  ReplyInv'
<1>1. /\ pc(Echo) = "resetHash" /\ UNCHANGED <<inbox, replies>> /\ OnlyMoves(Echo)
      /\ messageHash' = EmptyHash
      /\ frame'[Echo][Worker].pc = "esignal"
  BY ResetHashView DEF Known, Basis, GoesTo
<1>2. processedAllRequests(messageHash)
  BY <1>1 DEF Known, Basis, WaitInv, EndOfRound
<1>3. \A q : \A key : ~(Counted(q, key)')
  BY <1>1, CountReset
<1>4. \A q \in QueueServers : \A d \in StampedRequests : ~((Flying(q, d) \/ InHand(q, d))')
  BY <1>1, AtReset, EchoFlying DEF Flying
<1>5. ReplyComplete'
  BY <1>1 DEF ReplyComplete, pc
<1>6. CompleteAnswered'
  BY <1>3, ReceivedAll, Constants DEF CompleteAnswered
<1>7. AnsweredDone'
  BY <1>1, <1>4 DEF ReplyInv, AnsweredDone, LoggedBy
<1>8. ASSUME NEW q \in QueueServers, NEW d \in Entries(q) PROVE replies[d.buffer] > 0
  <2>1. ~Released(q) /\ ~Flying(q, d)
    BY <1>1, AtReset
  <2>2. d.messageID \in Nat
    BY EntryOrder, IdsTyped DEF Known
  <2>3. Counted(q, d.messageID)
    BY <2>1 DEF Known, CountInv, ServerCounts, EntriesCounted
  <2>4. receivedAllRequests(messageHash, d.messageID)
    BY <1>2, <2>3 DEF processedAllRequests, Counted, checkIfPresent
  <2>5. PICK e \in Entries(Primary) : e.messageID = d.messageID /\ d.buffer = e.buffer
    BY <2>2, <2>4, CompleteCount
  <2> QED  BY <1>1, <2>4, <2>5 DEF ReplyInv, CompleteAnswered
<1>9. ReleasedAnswered'
  BY <1>1, <1>8 DEF ReleasedAnswered, Entries
<1>10. AtMostOneReply'
  BY <1>1 DEF ReplyInv, AtMostOneReply
<1> QED  BY <1>5, <1>6, <1>7, <1>9, <1>10 DEF ReplyInv

LEMMA ReplySendSignal ==
  ASSUME Serial, Known, ReplyInv, NEW w \in Workers, SendSignal(w),
         UNCHANGED <<requestQueue, logged>>
  PROVE  ReplyInv'
<1>0. PICK s \in QueueServers : s = turn
  BY SendSignalView DEF Known, Basis
<1>1. /\ pc(Echo) = "esignal" /\ OnlyMoves(Echo) /\ UNCHANGED <<messageHash, replies>>
      /\ Sent(s, Signal)
      /\ frame'[Echo][Worker].pc \in {"esignal", "idle"}
  BY <1>0, SendSignalView DEF Known, Basis
<1>2. Enqueued(Echo)' = Enqueued(Echo) /\ \A p \in QueueServers : frame'[p][Worker] = frame[p][Worker]
  BY <1>1, SentItems, Constants DEF Known, Basis, OnlyMoves
<1>3. ASSUME NEW p \in QueueServers, NEW d \in StampedRequests,
             (Flying(p, d) \/ InHand(p, d))'
      PROVE  Flying(p, d) \/ InHand(p, d)
  BY <1>1, <1>2, <1>3 DEF Flying, InHand, pc, item
<1>4. ReplyComplete'
  BY <1>1 DEF ReplyComplete, pc
<1>5. CompleteAnswered'
  BY <1>1, CompleteKept DEF Counted
<1>6. \A p \in QueueServers : Entries(p)' = Entries(p) /\ (Released(p)' <=> Released(p))
  BY SignalKeepsReleased DEF Entries
<1> QED  BY <1>1, <1>3, <1>4, <1>5, <1>6, ReplyKept

LEMMA ReplyEchoServer ==
  ASSUME Serial, Known, IdsFit, ReplyInv, NEW w \in Workers, EchoStep(w)
  PROVE  ReplyInv'
<1>0. UNCHANGED <<requestQueue, logged>> /\ EchoServerStep(w)
  BY DEF EchoStep, queueVars
<1>1. CASE Dispatch(Echo, w) /\ UNCHANGED echoVars
  BY <1>0, <1>1, ReplyEchoDispatch DEF echoVars
<1>2. CASE CheckRequest(w)    BY <1>0, <1>2, ReplyCheckRequest
<1>3. CASE InsertRequest(w)   BY <1>0, <1>3, ReplyInsertRequest
<1>4. CASE CheckReceived(w)   BY <1>0, <1>4, ReplyCheckReceived
<1>5. CASE Reply(w)           BY <1>0, <1>5, ReplyReply
<1>6. CASE CheckWait(w)       BY <1>0, <1>6, ReplyWait
<1>7. CASE InsertWait(w)      BY <1>0, <1>7, ReplyWait
<1>8. CASE CheckProcessed(w)  BY <1>0, <1>8, ReplyWait
<1>9. CASE ResetHash(w)       BY <1>0, <1>9, ReplyResetHash
<1>10. CASE SendSignal(w)     BY <1>0, <1>10, ReplySendSignal
<1> QED
  BY <1>0, <1>1, <1>2, <1>3, <1>4, <1>5, <1>6, <1>7, <1>8, <1>9, <1>10 DEF EchoServerStep

LEMMA NextReply == Serial /\ IdsFit /\ RequestsAnswered /\ [Next]_vars => ReplyInv'
<1> SUFFICES ASSUME Serial, IdsFit, Known, ReplyInv, [Next]_vars PROVE ReplyInv'
  BY DEF RequestsAnswered
<1>1. CASE Arrive
  BY <1>1, ReplyArrive
<1>2. ASSUME NEW w \in Workers, NEW q \in QueueServers, QueueStep(q, w) PROVE ReplyInv'
  BY <1>2, ReplyQueueServer
<1>3. ASSUME NEW w \in Workers, EchoStep(w) PROVE ReplyInv'
  BY <1>3, ReplyEchoServer
<1>4. CASE UNCHANGED vars
  <2>1. UNCHANGED <<inbox, frame, requestQueue, logged, messageHash, replies>>
    BY <1>4 DEF vars
  <2>2. OnlyMoves(Primary) /\ frame'[Primary][Worker] = frame[Primary][Worker]
    BY <2>1 DEF OnlyMoves
  <2> QED  BY <2>1, <2>2, ReplyQuiet, Constants
<1> QED  BY <1>1, <1>2, <1>3, <1>4 DEF Next, SystemStep

LEMMA InitReply == Serial /\ Init => ReplyInv
<1> SUFFICES ASSUME Serial, Init PROVE ReplyInv
  OBVIOUS
<1>1. /\ pc(Echo) = "idle" /\ \A q \in QueueServers : Entries(q) = {}
      /\ \A t \in Texts : replies[t] = 0
  BY OneWorker, Constants
     DEF Init, RuntimeInit, QueueServerInit, EchoServerInit, Idle, Activation, Entries, pc
<1> QED
  BY <1>1, Constants
     DEF ReplyInv, ReplyComplete, CompleteAnswered, AnsweredDone, ReleasedAnswered, AtMostOneReply

LEMMA RequestsAnsweredKept == ASSUME Serial, IdsFit PROVE Spec => []RequestsAnswered
<1>1. Init => RequestsAnswered
  BY InitTyped, InitProvenance, InitLogsInv, InitOrder, InitWait, InitCount, InitReply
     DEF RequestsAnswered, Known, Basis
<1>2. RequestsAnswered /\ [Next]_vars => RequestsAnswered'
  <2>1. RequestsAnswered /\ [Next]_vars => Known'
    BY NextTyped, NextProvenance, NextLogsInv, NextOrder, NextWait, NextCount
       DEF RequestsAnswered, Known, Basis
  <2> QED  BY <2>1, NextReply DEF RequestsAnswered
<1> QED  BY <1>1, <1>2, PTL DEF Spec

-----------------------------------------------------------------------------
(***************************************************************************)
(* What the application promises.                                          *)
(***************************************************************************)
\* A reply stands for all the queue servers: when the handlers of an operator do
\* not overlap, a client is answered only after each has logged its request.
THEOREM RepliesStandForAll == ASSUME Serial, IdsFit PROVE Spec => []QuorumIntegrity
<1>1. RequestsAnswered => QuorumIntegrity
  BY DEF RequestsAnswered, ReplyInv, AnsweredDone, QuorumIntegrity
<1> QED  BY <1>1, RequestsAnsweredKept, PTL

\* No client gets a second reply, although every copy that finds a complete
\* count calls out().
THEOREM RepliesAreSingle == ASSUME Serial, IdsFit PROVE Spec => []AtMostOneReply
<1>1. RequestsAnswered => AtMostOneReply
  BY DEF RequestsAnswered, ReplyInv
<1> QED  BY <1>1, RequestsAnsweredKept, PTL

\* Steps that a client or a log can tell.
LEMMA VisibleSteps ==
  ASSUME [Next]_vars
  PROVE  \/ UNCHANGED <<requestQueue, logged, replies>>
         \/ \E q \in QueueServers, w \in Workers : Push(q, w) /\ UNCHANGED replies
         \/ \E q \in QueueServers, w \in Workers : PopAll(q, w) /\ UNCHANGED <<logged, replies>>
         \/ \E w \in Workers : Reply(w) /\ UNCHANGED <<requestQueue, logged>>
<1>1. CASE Arrive \/ UNCHANGED vars
  BY <1>1 DEF Arrive, vars, queueVars, echoVars
<1>2. ASSUME NEW q \in QueueServers, NEW w \in Workers, QueueStep(q, w)
      PROVE  \/ UNCHANGED <<requestQueue, logged, replies>>
             \/ Push(q, w) /\ UNCHANGED replies
             \/ PopAll(q, w) /\ UNCHANGED <<logged, replies>>
  <2>1. UNCHANGED replies /\ QueueServerStep(q, w)
    BY <1>2 DEF QueueStep, echoVars
  <2>2. CASE PopAll(q, w)
    BY <2>1, <2>2 DEF PopAll
  <2>3. CASE ~Push(q, w) /\ ~PopAll(q, w)
    BY <2>1, <2>3
       DEF QueueServerStep, VerifySignature, Forward, VerifyMac, CheckSize, CheckLock,
           SendWait, SetLock, SendToEcho, ResetLock, queueVars
  <2> QED  BY <2>1, <2>2, <2>3
<1>3. ASSUME NEW w \in Workers, EchoStep(w)
      PROVE  \/ UNCHANGED <<requestQueue, logged, replies>>
             \/ Reply(w) /\ UNCHANGED <<requestQueue, logged>>
  BY <1>3 DEF EchoStep, EchoServerStep, CheckRequest, InsertRequest, CheckReceived, CheckWait,
              InsertWait, CheckProcessed, ResetHash, SendSignal, queueVars, echoVars
<1> QED  BY <1>1, <1>2, <1>3 DEF Next, SystemStep

\* No request is forgotten: a log is emptied only when all its requests have been
\* answered, although the echo server's signal travels while copies still do.
THEOREM LogsEmptiedWhenAnswered == ASSUME Serial, IdsFit PROVE Spec => ClearedOnlyWhenAnswered
<1>1. ASSUME RequestsAnswered, [Next]_vars, NEW q \in QueueServers, requestQueue'[q] = << >>,
             NEW i \in DOMAIN requestQueue[q]
      PROVE  replies[requestQueue[q][i].buffer] > 0
  <2>0. DOMAIN requestQueue'[q] = {}
    BY <1>1
  <2>1. CASE requestQueue'[q] = requestQueue[q]
    BY <2>0, <2>1
  <2>2. ASSUME NEW p \in QueueServers, NEW w \in Workers, Push(p, w), requestQueue'[q] # requestQueue[q]
        PROVE  FALSE
    BY <2>0, <2>2, PushView, <1>1 DEF RequestsAnswered, Known, Basis
  <2>3. ASSUME NEW p \in QueueServers, NEW w \in Workers, PopAll(p, w), requestQueue'[q] # requestQueue[q]
        PROVE  replies[requestQueue[q][i].buffer] > 0
    <3>1. p = q /\ pc(p) = "pop"
      BY <1>1, <2>3, PopAllView DEF RequestsAnswered, Known, Basis
    <3>2. Released(q)
      BY <3>1 DEF Released
    <3> QED  BY <1>1, <3>2 DEF RequestsAnswered, ReplyInv, ReleasedAnswered, Entries
  <2> QED  BY <1>1, <2>1, <2>2, <2>3, VisibleSteps
<1>2. RequestsAnswered /\ [Next]_vars =>
        [\A q \in QueueServers : requestQueue'[q] = << >> =>
           \A i \in DOMAIN requestQueue[q] : replies[requestQueue[q][i].buffer] > 0]_vars
  BY <1>1
<1> QED  BY <1>2, RequestsAnsweredKept, PTL DEF Spec, ClearedOnlyWhenAnswered

-----------------------------------------------------------------------------
(***************************************************************************)
(* The application implements the replicated echo service.                 *)
(***************************************************************************)
\* Logging a request is a step of the service.
LEMMA PushLogs ==
  ASSUME Serial, Basis, NEW q \in QueueServers, NEW w \in Workers, Push(q, w)
  PROVE  \E t \in Texts : /\ t \in Verified /\ q \notin Holders[t]
                          /\ Holders' = [Holders EXCEPT ![t] = @ \cup {q}]
<1>1. PICK data \in StampedRequests : data = item(q).data
  BY PushView DEF Basis
<1> DEFINE t == data.buffer
<1>2. /\ pc(q) = "push"
      /\ logged' = logged \cup {<<q, t, data.messageID>>}
  BY <1>1, PushView DEF Basis
<1>3. t \in Verified
  <2>1. Accepted(q, Data(q, w))
    BY QueueProvenance, OneWorker DEF Push, At, LoggingSteps, Basis
  <2> QED  BY <1>1, <2>1, OneWorker DEF Accepted, Data, Arg, item
<1>4. t \in Texts /\ t \in Nat
  BY IdsTyped DEF StampedRequests
<1>5. q \notin Holders[t]
  <2>1. ~LoggedBy(q, t)
    BY <1>1, <1>2, <1>4 DEF LoggedBy, Basis, OrderInv, LoggedOrder, BeforeHand, TextSteps, StampSteps
  <2> QED  BY <1>4, <2>1 DEF Holders, LoggedBy
<1>6. Holders' = [Holders EXCEPT ![t] = @ \cup {q}]
  <2> DEFINE entry == <<q, t, data.messageID>>
             of(log, u) == {e[1] : e \in {e \in log : e[2] = u}}
  <2>1. entry[1] = q /\ entry[2] = t /\ logged' = logged \cup {entry}
    BY <1>2
  <2> HIDE DEF entry, t
  <2>2. \A u : of(logged', u) = IF u = t THEN of(logged, u) \cup {q} ELSE of(logged, u)
    BY <2>1
  <2>3. /\ Holders = [u \in Texts |-> of(logged, u)]
        /\ Holders' = [u \in Texts |-> of(logged', u)]
    BY DEF Holders
  <2> HIDE DEF of
  <2> QED  BY <1>4, <2>2, <2>3
<1> QED  BY <1>3, <1>4, <1>5, <1>6

\* A reply is an answer of the service.
LEMMA ReplyAnswers ==
  ASSUME Serial, IdsFit, RequestsAnswered, NEW w \in Workers, Reply(w)
  PROVE  \E t \in Texts : /\ Holders[t] = QueueServers /\ replies[t] = 0
                          /\ replies' = [replies EXCEPT ![t] = 1]
<1>1. PICK data \in StampedRequests, s \in QueueServers, t \in Texts :
        data = item(Echo).data /\ s = data.queueServerID /\ t = data.buffer
  BY ReplyView, EchoHands, IdsTyped DEF RequestsAnswered, Known, Basis, RequestSteps
<1>2. pc(Echo) = "out" /\ replies' = [replies EXCEPT ![t] = @ + 1]
  BY <1>1, ReplyView DEF RequestsAnswered, Known, Basis
<1>3. replies \in [Texts -> Nat] /\ logged \in SUBSET (QueueServers \X Texts \X Nat)
  BY DEF RequestsAnswered, Known, Basis, TypeOK, EchoOK, QueueOK
<1>4. \A q \in QueueServers : LoggedBy(q, t)
  BY <1>1, <1>2, CompleteCopy DEF RequestsAnswered, ReplyInv, ReplyComplete
<1>5. InHand(s, data)
  BY <1>1, <1>2 DEF InHand
<1>6. replies[t] = 0
  BY <1>1, <1>3, <1>5 DEF RequestsAnswered, ReplyInv, AnsweredDone
<1>7. Holders[t] = QueueServers
  BY <1>3, <1>4 DEF Holders, LoggedBy
<1>8. replies' = [replies EXCEPT ![t] = 1]
  <2>1. replies[t] + 1 = 1
    BY <1>6
  <2> QED  BY <1>2, <2>1
<1> QED  BY <1>6, <1>7, <1>8

\* Every step of the application is a step of the service or changes nothing of
\* what it speaks of: a request is logged by one queue server after the other,
\* and answered once, when all have logged it.
THEOREM Implementation == ASSUME Serial, IdsFit PROVE Spec => ImplementsReplicatedEcho
<1>1. Init => Abstract!Init
  <2> SUFFICES ASSUME Init PROVE Abstract!Init
    OBVIOUS
  <2>1. logged = {} /\ replies = [t \in Texts |-> 0]
    BY DEF Init, QueueServerInit, EchoServerInit
  <2> QED  BY <2>1 DEF Abstract!Init, Holders
<1>2. RequestsAnswered /\ [Next]_vars => [Abstract!Next]_(Abstract!abstractVars)
  <2> SUFFICES ASSUME RequestsAnswered, [Next]_vars
               PROVE  [Abstract!Next]_(Abstract!abstractVars)
    OBVIOUS
  <2>1. CASE UNCHANGED <<logged, replies>>
    BY <2>1 DEF Abstract!abstractVars, Holders
  <2>2. ASSUME NEW q \in QueueServers, NEW w \in Workers, Push(q, w), UNCHANGED replies
        PROVE  Abstract!Next
    <3>1. PICK t \in Texts : /\ t \in Verified /\ q \notin Holders[t]
                             /\ Holders' = [Holders EXCEPT ![t] = @ \cup {q}]
      BY <2>2, PushLogs DEF RequestsAnswered, Known
    <3>2. Abstract!Log(q, t)
      BY <2>2, <3>1 DEF Abstract!Log
    <3> QED  BY <3>2 DEF Abstract!Next
  <2>3. ASSUME NEW w \in Workers, Reply(w), UNCHANGED logged
        PROVE  Abstract!Next
    <3>1. PICK t \in Texts : /\ Holders[t] = QueueServers /\ replies[t] = 0
                             /\ replies' = [replies EXCEPT ![t] = 1]
      BY <2>3, ReplyAnswers
    <3>2. Abstract!Answer(t)
      BY <2>3, <3>1 DEF Abstract!Answer, Holders
    <3> QED  BY <3>2 DEF Abstract!Next
  <2> QED  BY <2>1, <2>2, <2>3, VisibleSteps
<1> QED  BY <1>1, <1>2, RequestsAnsweredKept, PTL DEF Spec, ImplementsReplicatedEcho, Abstract!Spec
=============================================================================
