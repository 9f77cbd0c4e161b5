---------------------------- MODULE OrderProofs ----------------------------
(***************************************************************************)
(* The steps of Carbon as they look when every operator has one worker,    *)
(* and the order of the texts: the inboxes, the handlers and the logs hold *)
(* them in the order in which they arrived (OrderInv of Rounds).           *)
(***************************************************************************)
EXTENDS Rounds, CarbonProofs

LEMMA OneWorker ==
  ASSUME Serial
  PROVE  Worker \in Workers /\ \A w \in Workers : w = Worker
BY WorkersAssumption DEF Serial, Worker

\* The handler of op becomes activation, and no other handler moves.
Moved(op, activation) ==
  \A p \in Operators :
    frame'[p][Worker] = IF p = op THEN activation ELSE frame[p][Worker]

\* it is the newest item of dest's inbox.
Sent(dest, it) ==
  /\ \A p \in Operators : p # dest => inbox'[p] = inbox[p]
  /\ DOMAIN inbox'[dest] = DOMAIN inbox[dest] \cup {Len(inbox[dest]) + 1}
  /\ \A i \in DOMAIN inbox[dest] : inbox'[dest][i] = inbox[dest][i]
  /\ inbox'[dest][Len(inbox[dest]) + 1] = it

\* op's handler takes the oldest item of its inbox.
Taken(op) ==
  /\ \A p \in Operators : p # op => inbox'[p] = inbox[p]
  /\ 1 \in DOMAIN inbox[op]
  /\ \A i \in DOMAIN inbox'[op] :
       /\ i \in DOMAIN inbox[op] /\ i + 1 \in DOMAIN inbox[op]
       /\ inbox'[op][i] = inbox[op][i + 1]
  /\ \A i \in DOMAIN inbox[op] : i = 1 \/ i - 1 \in DOMAIN inbox'[op]

LEMMA MovedView ==
  ASSUME Serial, TypeOK, NEW op \in Operators, NEW w \in Workers, NEW activation,
         Become(op, w, activation)
  PROVE  Moved(op, activation)
BY OneWorker, BecomeFrame DEF TypeOK, Moved

LEMMA InboxTyped ==
  ASSUME TypeOK, NEW op \in Operators
  PROVE  /\ inbox[op] \in Seq(InboxItems(op))
         /\ Len(inbox[op]) \in Nat
         /\ DOMAIN inbox[op] = 1 .. Len(inbox[op])
         /\ \A i \in DOMAIN inbox[op] : i \in Nat /\ inbox[op][i] \in InboxItems(op)
BY DEF TypeOK, InboxOK

LEMMA SentView ==
  ASSUME TypeOK, NEW dest \in Operators, NEW it, Send(dest, it)
  PROVE  Sent(dest, it)
<1>1. inbox' = [inbox EXCEPT ![dest] = Append(inbox[dest], it)]
  BY DEF Send
<1>2. DOMAIN inbox = Operators
  BY DEF TypeOK, InboxOK
<1>3. inbox[dest] \in Seq(InboxItems(dest))
  BY InboxTyped
<1> DEFINE s == inbox[dest]
<1>4. /\ DOMAIN Append(s, it) = DOMAIN s \cup {Len(s) + 1}
      /\ \A i \in DOMAIN s : Append(s, it)[i] = s[i]
      /\ Append(s, it)[Len(s) + 1] = it
  BY <1>3
<1> QED  BY <1>1, <1>2, <1>4 DEF Sent

LEMMA TakenView ==
  ASSUME TypeOK, NEW op \in Operators, NEW w \in Workers, Dispatch(op, w)
  PROVE  Taken(op) /\ inbox[op][1] \in InboxItems(op) /\ Head(inbox[op]) = inbox[op][1]
<1>1. inbox' = [inbox EXCEPT ![op] = Tail(inbox[op])] /\ inbox[op] # << >>
  BY DEF Dispatch
<1>2. DOMAIN inbox = Operators
  BY DEF TypeOK, InboxOK
<1>3. inbox[op] \in Seq(InboxItems(op))
  BY InboxTyped
<1> DEFINE s == inbox[op]
<1>4. /\ 1 \in DOMAIN s
      /\ s[1] \in InboxItems(op)
      /\ \A i \in DOMAIN Tail(s) :
           /\ i \in DOMAIN s /\ i + 1 \in DOMAIN s
           /\ Tail(s)[i] = s[i + 1]
      /\ \A i \in DOMAIN s : i = 1 \/ i - 1 \in DOMAIN Tail(s)
  BY <1>1, <1>3
<1> QED  BY <1>1, <1>2, <1>4 DEF Taken

\* What the handler of a queue server holds at each step.
LEMMA QueueHands ==
  ASSUME Serial, TypeOK, NEW q \in QueueServers
  PROVE  /\ pc(q) = "start" =>
              /\ item(q).port = "in" /\ item(q).data.buffer \in Texts
              /\ q = Primary => item(q) \in SocketItems /\ item(q).data \in SocketRequests
              /\ q # Primary => item(q) \in StampedItems /\ item(q).data \in StampedRequests
         /\ pc(q) = "out_repl" =>
              /\ q = Primary /\ frame[q][Worker].k \in Replicas
              /\ frame[q][Worker] \in [pc : {"out_repl"}, k : Replicas, item : StampedItems]
              /\ item(q).data \in StampedRequests /\ item(q).data.buffer \in Texts
         /\ pc(q) \in LoggingSteps =>
              /\ frame[q][Worker] \in [pc : LoggingSteps, k : QueueServers, item : StampedItems]
              /\ item(q).data \in StampedRequests /\ item(q).data.buffer \in Texts
         /\ pc(q) \in {"pop", "reset"} =>
              frame[q][Worker] \in [pc : {"pop", "reset"}, k : {0}, item : {Signal}]
<1>1. frame[q][Worker] \in Activations(q)
  BY Constants, OneWorker DEF TypeOK, FrameOK
<1>2. \A d \in SocketRequests : d.buffer \in Texts
  BY DEF SocketRequests, FromSocket
<1>3. \A d \in StampedRequests : d.buffer \in Texts
  BY DEF StampedRequests
<1>4. q # Echo
  BY Constants
<1>5. pc(q) = "start" =>
        /\ q = Primary => item(q) \in SocketItems
        /\ q # Primary => item(q) \in StampedItems
  BY <1>1, <1>4 DEF Activations, Idle, Activation, LoggingSteps, pc, item
<1>6. \A it \in SocketItems \cup StampedItems : it.port = "in"
  BY DEF SocketItems, StampedItems
<1>7. \A it \in SocketItems : it.data \in SocketRequests
  BY DEF SocketItems
<1>8. \A it \in StampedItems : it.data \in StampedRequests
  BY DEF StampedItems
<1>9. pc(q) = "out_repl" =>
        /\ q = Primary
        /\ frame[q][Worker] \in [pc : {"out_repl"}, k : Replicas, item : StampedItems]
  BY <1>1, <1>4 DEF Activations, Idle, Activation, LoggingSteps, pc
<1>10. pc(q) \in LoggingSteps =>
         frame[q][Worker] \in [pc : LoggingSteps, k : QueueServers, item : StampedItems]
  BY <1>1, <1>4 DEF Activations, Idle, Activation, LoggingSteps, pc
<1>11. pc(q) \in {"pop", "reset"} =>
         frame[q][Worker] \in [pc : {"pop", "reset"}, k : {0}, item : {Signal}]
  BY <1>1, <1>4 DEF Activations, Idle, Activation, LoggingSteps, pc
<1> QED
  BY <1>2, <1>3, <1>5, <1>6, <1>7, <1>8, <1>9, <1>10, <1>11 DEF pc, item

LEMMA EchoHands ==
  ASSUME Serial, TypeOK
  PROVE  /\ pc(Echo) \in RequestSteps =>
              /\ frame[Echo][Worker] \in [pc : RequestSteps, k : {0}, item : StampedItems]
              /\ item(Echo).port = "in" /\ item(Echo).data \in StampedRequests
         /\ pc(Echo) \in WaitSteps =>
              /\ frame[Echo][Worker] \in [pc : WaitSteps, k : QueueServers, item : WaitItems]
              /\ item(Echo).port = "ewait" /\ item(Echo).server \in QueueServers
              /\ item(Echo) = Wait(item(Echo).server) /\ turn \in QueueServers
<1>1. frame[Echo][Worker] \in Activations(Echo)
  BY Constants, OneWorker DEF TypeOK, FrameOK
<1>2. pc(Echo) \in RequestSteps =>
        frame[Echo][Worker] \in [pc : RequestSteps, k : {0}, item : StampedItems]
  BY <1>1 DEF Activations, Idle, Activation, RequestSteps, WaitSteps, pc
<1>3. pc(Echo) \in WaitSteps =>
        frame[Echo][Worker] \in [pc : WaitSteps, k : QueueServers, item : WaitItems]
  BY <1>1 DEF Activations, Idle, Activation, RequestSteps, WaitSteps, pc
<1>4. \A it \in StampedItems : it.port = "in" /\ it.data \in StampedRequests
  BY DEF StampedItems
<1>5. \A it \in WaitItems : it.port = "ewait" /\ it.server \in QueueServers /\ it = Wait(it.server)
  BY DEF WaitItems, Wait
<1> QED  BY <1>2, <1>3, <1>4, <1>5 DEF pc, item, turn

-----------------------------------------------------------------------------
(***************************************************************************)
(* The steps, one by one.                                                  *)
(***************************************************************************)
\* Only op's handler moves.
OnlyMoves(op) ==
  \A p \in Operators : p # op => frame'[p][Worker] = frame[p][Worker]

\* op's handler goes on to step next with the same argument and loop counter.
GoesTo(op, next) == /\ OnlyMoves(op)
                    /\ frame'[op][Worker].pc = next
                    /\ frame'[op][Worker].item = frame[op][Worker].item
                    /\ frame'[op][Worker].k = frame[op][Worker].k

Returns(op) == OnlyMoves(op) /\ frame'[op][Worker] = Idle

LEMMA ReturnView ==
  ASSUME Serial, TypeOK, NEW op \in Operators, NEW w \in Workers, Return(op, w)
  PROVE  Returns(op) /\ frame'[op][Worker].pc = "idle"
<1>1. Moved(op, Idle)
  BY MovedView DEF Return
<1> QED  BY <1>1 DEF Moved, Returns, OnlyMoves, Idle, Activation

LEMMA BecomeView ==
  ASSUME Serial, TypeOK, NEW op \in Operators, NEW w \in Workers, NEW activation,
         Become(op, w, activation)
  PROVE  OnlyMoves(op) /\ frame'[op][Worker] = activation
BY MovedView DEF Moved, OnlyMoves

LEMMA QueueGotoView ==
  ASSUME Serial, TypeOK, NEW q \in QueueServers, NEW w \in Workers, NEW next,
         Goto(q, w, next),
         pc(q) \in LoggingSteps \cup {"out_repl", "pop", "reset"}
  PROVE  GoesTo(q, next)
<1>1. w = Worker /\ q \in Operators
  BY OneWorker, Constants
<1>2. \/ frame[q][Worker] \in [pc : {"out_repl"}, k : Replicas, item : StampedItems]
      \/ frame[q][Worker] \in [pc : LoggingSteps, k : QueueServers, item : StampedItems]
      \/ frame[q][Worker] \in [pc : {"pop", "reset"}, k : {0}, item : {Signal}]
  BY QueueHands
<1> DEFINE f == frame[q][Worker]
           activation == [f EXCEPT !.pc = next]
<1>3. activation.pc = next /\ activation.item = f.item /\ activation.k = f.k
  BY <1>2
<1>4. OnlyMoves(q) /\ frame'[q][Worker] = activation
  BY <1>1, BecomeView DEF Goto
<1> QED  BY <1>3, <1>4 DEF GoesTo

LEMMA EchoGotoView ==
  ASSUME Serial, TypeOK, NEW w \in Workers, NEW next, Goto(Echo, w, next),
         pc(Echo) \in RequestSteps \cup WaitSteps
  PROVE  GoesTo(Echo, next)
<1>1. w = Worker /\ Echo \in Operators
  BY OneWorker, Constants
<1>2. \/ frame[Echo][Worker] \in [pc : RequestSteps, k : {0}, item : StampedItems]
      \/ frame[Echo][Worker] \in [pc : WaitSteps, k : QueueServers, item : WaitItems]
  BY EchoHands
<1> DEFINE f == frame[Echo][Worker]
           activation == [f EXCEPT !.pc = next]
<1>3. activation.pc = next /\ activation.item = f.item /\ activation.k = f.k
  BY <1>2
<1>4. OnlyMoves(Echo) /\ frame'[Echo][Worker] = activation
  BY <1>1, BecomeView DEF Goto
<1> QED  BY <1>3, <1>4 DEF GoesTo

LEMMA DispatchView ==
  ASSUME Serial, TypeOK, NEW op \in Operators, NEW w \in Workers, Dispatch(op, w)
  PROVE  /\ pc(op) = "idle" /\ Taken(op) /\ OnlyMoves(op)
         /\ inbox[op][1] \in InboxItems(op)
         /\ frame'[op][Worker].item = inbox[op][1]
         /\ frame'[op][Worker].k = 0
         /\ inbox[op][1].port = "in" => frame'[op][Worker].pc = "start"
         /\ inbox[op][1].port = "ewait" => frame'[op][Worker].pc = "wait"
         /\ inbox[op][1].port = "qsignal" => frame'[op][Worker].pc = "pop"
         /\ inbox[op][1].port \in {"in", "ewait", "qsignal"}
<1>1. w = Worker
  BY OneWorker
<1>2. Taken(op) /\ inbox[op][1] \in InboxItems(op) /\ Head(inbox[op]) = inbox[op][1]
  BY TakenView
<1> DEFINE it == inbox[op][1]
<1>3. OnlyMoves(op) /\ frame'[op][Worker] = Activation(EntryPoint(it), it)
  BY <1>1, <1>2, BecomeView DEF Dispatch
<1>4. it.port \in {"in", "ewait", "qsignal"}
  BY <1>2 DEF InboxItems, SocketItems, StampedItems, WaitItems, Signal
<1>5. /\ it.port = "in" => EntryPoint(it) = "start"
      /\ it.port = "ewait" => EntryPoint(it) = "wait"
      /\ it.port = "qsignal" => EntryPoint(it) = "pop"
  BY DEF EntryPoint
<1>6. frame'[op][Worker].pc = EntryPoint(it) /\ frame'[op][Worker].item = it
      /\ frame'[op][Worker].k = 0
  BY <1>3 DEF Activation
<1>7. pc(op) = "idle"
  BY <1>1 DEF Dispatch, At, pc
<1> QED  BY <1>2, <1>3, <1>4, <1>5, <1>6, <1>7

LEMMA ArriveView ==
  ASSUME TypeOK, Arrive
  PROVE  /\ Sent(Primary, Request(FromSocket(arrived + 1)))
         /\ Request(FromSocket(arrived + 1)).port = "in"
         /\ Request(FromSocket(arrived + 1)).data.buffer = arrived + 1
         /\ arrived \in Nat /\ arrived' = arrived + 1
         /\ UNCHANGED <<frame, requestQueue, lockOnQueue, logged, messageHash, replies>>
<1>1. Sent(Primary, Request(FromSocket(arrived + 1)))
  BY SentView, Constants DEF Arrive
<1> QED
  BY <1>1, RequestsAssumption DEF Arrive, Request, FromSocket, queueVars, echoVars, TypeOK

LEMMA VerifySignatureView ==
  ASSUME Serial, TypeOK, NEW w \in Workers, VerifySignature(w)
  PROVE  /\ pc(Primary) = "start" /\ OnlyMoves(Primary)
         /\ UNCHANGED <<inbox, requestQueue, lockOnQueue, logged>>
         /\ \/ frame'[Primary][Worker].pc = "idle"
            \/ /\ frame'[Primary][Worker].pc = "out_repl"
               /\ frame'[Primary][Worker].k = 1
               /\ frame'[Primary][Worker].item.data.buffer = item(Primary).data.buffer
               /\ frame'[Primary][Worker].item.data.messageID = Len(requestQueue[Primary])
<1> DEFINE id == Len(requestQueue[Primary])
           data == Data(Primary, w)
           stamped == [data EXCEPT !.queueServerID = Primary, !.messageID = id]
           activation == [Activation("out_repl", Request(stamped)) EXCEPT !.k = 1]
<1>1. w = Worker
  BY OneWorker
<1>2. pc(Primary) = "start" /\ UNCHANGED <<inbox, requestQueue, lockOnQueue, logged>>
  BY <1>1 DEF VerifySignature, At, pc, queueVars
<1>3. CASE Return(Primary, w)
  BY <1>2, <1>3, ReturnView, Constants DEF Returns
<1>4. CASE Become(Primary, w, activation)
  <2>1. data \in SocketRequests /\ data = item(Primary).data
    BY <1>1, <1>2, QueueHands, Constants DEF Data, Arg, item
  <2>2. PICK t \in Texts : data = FromSocket(t)
    BY <2>1 DEF SocketRequests
  <2>3. data \in [buffer : {t}, numBytes : {t}, messageID : {Uninit},
                  queueServerID : {Uninit}, mac : {Uninit}]
    BY <2>2 DEF FromSocket
  <2>4. stamped.messageID = id /\ stamped.buffer = data.buffer
    BY <2>3
  <2>5. activation = [pc |-> "out_repl", k |-> 1, item |-> [port |-> "in", data |-> stamped]]
    BY DEF Activation, Request
  <2>6. OnlyMoves(Primary) /\ frame'[Primary][Worker] = activation
    BY <1>4, BecomeView, Constants
  <2> HIDE DEF stamped, activation
  <2>7. /\ activation.pc = "out_repl" /\ activation.k = 1
        /\ activation.item.data = stamped
    BY <2>5
  <2> QED  BY <1>2, <2>1, <2>4, <2>6, <2>7
<1> QED  BY <1>3, <1>4 DEF VerifySignature

LEMMA ForwardView ==
  ASSUME Serial, TypeOK, NEW w \in Workers, Forward(w)
  PROVE  LET r == frame[Primary][Worker].k
         IN /\ pc(Primary) = "out_repl" /\ OnlyMoves(Primary) /\ r \in Replicas
            /\ UNCHANGED <<requestQueue, lockOnQueue, logged>>
            /\ frame'[Primary][Worker].item = item(Primary)
            /\ \/ /\ frame'[Primary][Worker].pc = "out_repl"
                  /\ frame'[Primary][Worker].k = r + 1
               \/ /\ frame'[Primary][Worker].pc = "size"
                  /\ r + 1 \notin Replicas
            /\ \E d \in StampedRequests :
                 /\ Sent(r, Request(d))
                 /\ d.buffer = item(Primary).data.buffer
                 /\ d.messageID = getMessageID(item(Primary).data)
                 /\ d.queueServerID = r
<1> DEFINE r == frame[Primary][Worker].k
           data == item(Primary).data
           copy == ReplicaCopy(data, r, genMac(data.buffer, PrimaryKeys[r]))
           f == frame[Primary][Worker]
<1>1. w = Worker /\ Primary \in QueueServers /\ Primary \in Operators
  BY OneWorker, Constants
<1>2. /\ pc(Primary) = "out_repl" /\ UNCHANGED <<requestQueue, lockOnQueue, logged>>
      /\ data = Data(Primary, w)
  BY <1>1 DEF Forward, At, pc, queueVars, Data, Arg, item
<1>3. /\ r \in Replicas /\ f \in [pc : {"out_repl"}, k : Replicas, item : StampedItems]
      /\ data \in StampedRequests
  BY <1>1, <1>2, QueueHands
<1>4. copy \in StampedRequests
  BY <1>3, CopyTyped, QueueServerAssumption
<1>5. /\ copy.buffer = data.buffer /\ copy.messageID = getMessageID(data)
      /\ copy.queueServerID = r
  BY <1>3 DEF ReplicaCopy, StampedRequests
<1>6. Sent(r, Request(copy))
  BY <1>1, <1>2, <1>3, SentView, Constants DEF Forward
<1>7. CASE Become(Primary, w, [f EXCEPT !.k = r + 1])
  <2> DEFINE activation == [f EXCEPT !.k = r + 1]
  <2>1. activation.pc = "out_repl" /\ activation.k = r + 1 /\ activation.item = f.item
    BY <1>3
  <2>2. OnlyMoves(Primary) /\ frame'[Primary][Worker] = activation
    BY <1>1, <1>7, BecomeView
  <2> QED  BY <1>2, <1>3, <1>4, <1>5, <1>6, <2>1, <2>2 DEF item
<1>8. CASE r + 1 \notin Replicas /\ Goto(Primary, w, "size")
  <2>1. GoesTo(Primary, "size")
    BY <1>1, <1>2, <1>8, QueueGotoView
  <2> QED  BY <1>2, <1>3, <1>4, <1>5, <1>6, <1>8, <2>1 DEF item, GoesTo
<1> QED  BY <1>1, <1>7, <1>8 DEF Forward

LEMMA VerifyMacView ==
  ASSUME Serial, TypeOK, NEW r \in QueueServers, r # Primary, NEW w \in Workers,
         VerifyMac(r, w)
  PROVE  /\ pc(r) = "start" /\ OnlyMoves(r)
         /\ UNCHANGED <<inbox, requestQueue, lockOnQueue, logged>>
         /\ \/ /\ frame'[r][Worker].pc = "idle"
               /\ item(r).data.mac # genMac(item(r).data.buffer, ReplicaKeys[r])
            \/ /\ frame'[r][Worker].pc = "size"
               /\ frame'[r][Worker].item = Request(freeMac(item(r).data))
               /\ frame'[r][Worker].item.data = freeMac(item(r).data)
               /\ freeMac(item(r).data).buffer = item(r).data.buffer
               /\ freeMac(item(r).data).messageID = item(r).data.messageID
               /\ freeMac(item(r).data).queueServerID = item(r).data.queueServerID
<1> DEFINE data == item(r).data
<1>1. w = Worker /\ r \in Operators
  BY OneWorker, Constants
<1>2. /\ pc(r) = "start" /\ UNCHANGED <<inbox, requestQueue, lockOnQueue, logged>>
      /\ data = Data(r, w)
  BY <1>1 DEF VerifyMac, At, pc, queueVars, Data, Arg, item
<1>3. data \in StampedRequests
  BY <1>2, QueueHands
<1>4. /\ freeMac(data).buffer = data.buffer
      /\ freeMac(data).messageID = data.messageID
      /\ freeMac(data).queueServerID = data.queueServerID
  BY <1>3 DEF freeMac, StampedRequests
<1>5. CASE ~verifyMac(data.buffer, ReplicaKeys[r], data.mac) /\ Return(r, w)
  BY <1>1, <1>2, <1>5, ReturnView DEF Returns, verifyMac
<1>6. CASE Become(r, w, Activation("size", Request(freeMac(data))))
  <2>1. OnlyMoves(r) /\ frame'[r][Worker] = Activation("size", Request(freeMac(data)))
    BY <1>1, <1>6, BecomeView
  <2>2. /\ Activation("size", Request(freeMac(data))).pc = "size"
        /\ Activation("size", Request(freeMac(data))).item = Request(freeMac(data))
        /\ Request(freeMac(data)).data = freeMac(data)
    BY DEF Activation, Request
  <2> QED  BY <1>2, <1>4, <2>1, <2>2
<1> QED  BY <1>2, <1>5, <1>6 DEF VerifyMac

LEMMA CheckSizeView ==
  ASSUME Serial, TypeOK, NEW q \in QueueServers, NEW w \in Workers, CheckSize(q, w)
  PROVE  /\ pc(q) = "size" /\ UNCHANGED <<inbox, requestQueue, lockOnQueue, logged>>
         /\ \/ GoesTo(q, "state") /\ Len(requestQueue[q]) >= MAX_QUEUE_SIZE
            \/ GoesTo(q, "push") /\ Len(requestQueue[q]) < MAX_QUEUE_SIZE
<1>1. pc(q) = "size" /\ UNCHANGED <<inbox, requestQueue, lockOnQueue, logged>>
  BY OneWorker DEF CheckSize, At, pc, queueVars
<1> QED  BY <1>1, QueueGotoView DEF CheckSize, LoggingSteps

LEMMA CheckLockView ==
  ASSUME Serial, TypeOK, NEW q \in QueueServers, NEW w \in Workers, CheckLock(q, w)
  PROVE  /\ pc(q) = "state" /\ UNCHANGED <<inbox, requestQueue, lockOnQueue, logged>>
         /\ \/ GoesTo(q, "qwait") /\ lockOnQueue[q] = 0
            \/ Returns(q) /\ frame'[q][Worker].pc = "idle" /\ lockOnQueue[q] # 0
<1>1. pc(q) = "state" /\ UNCHANGED <<inbox, requestQueue, lockOnQueue, logged>>
  BY OneWorker DEF CheckLock, At, pc, queueVars
<1> QED  BY <1>1, QueueGotoView, ReturnView, Constants DEF CheckLock, LoggingSteps

LEMMA SendWaitView ==
  ASSUME Serial, TypeOK, NEW q \in QueueServers, NEW w \in Workers, SendWait(q, w)
  PROVE  /\ pc(q) = "qwait" /\ UNCHANGED <<requestQueue, lockOnQueue, logged>>
         /\ Sent(Echo, Wait(q)) /\ GoesTo(q, "set")
<1>1. pc(q) = "qwait" /\ UNCHANGED <<requestQueue, lockOnQueue, logged>>
  BY OneWorker DEF SendWait, At, pc, queueVars
<1> QED  BY <1>1, QueueGotoView, SentView, Constants DEF SendWait, LoggingSteps

LEMMA SetLockView ==
  ASSUME Serial, TypeOK, NEW q \in QueueServers, NEW w \in Workers, SetLock(q, w)
  PROVE  /\ pc(q) = "set" /\ UNCHANGED <<inbox, requestQueue, logged>>
         /\ \A p \in QueueServers : lockOnQueue'[p] = IF p = q THEN 1 ELSE lockOnQueue[p]
         /\ Returns(q) /\ frame'[q][Worker].pc = "idle"
<1>1. pc(q) = "set" /\ UNCHANGED <<inbox, requestQueue, logged>>
  BY OneWorker DEF SetLock, At, pc
<1>2. \A p \in QueueServers : lockOnQueue'[p] = IF p = q THEN 1 ELSE lockOnQueue[p]
  BY DEF SetLock, TypeOK, QueueOK
<1> QED  BY <1>1, <1>2, ReturnView, Constants DEF SetLock

LEMMA PushView ==
  ASSUME Serial, TypeOK, NEW q \in QueueServers, NEW w \in Workers, Push(q, w)
  PROVE  LET d == item(q).data
             n == Len(requestQueue[q])
         IN /\ pc(q) = "push" /\ UNCHANGED <<inbox, lockOnQueue>> /\ GoesTo(q, "out")
            /\ d \in StampedRequests /\ n \in Nat /\ DOMAIN requestQueue[q] = 1 .. n
            /\ \A p \in QueueServers : p # q => requestQueue'[p] = requestQueue[p]
            /\ DOMAIN requestQueue'[q] = DOMAIN requestQueue[q] \cup {n + 1}
            /\ Len(requestQueue'[q]) = n + 1
            /\ \A i \in DOMAIN requestQueue[q] : requestQueue'[q][i] = requestQueue[q][i]
            /\ requestQueue'[q][n + 1] = d
            /\ logged' = logged \cup {<<q, d.buffer, d.messageID>>}
<1> DEFINE d == item(q).data
           log == requestQueue[q]
<1>1. pc(q) = "push" /\ UNCHANGED <<inbox, lockOnQueue>> /\ Data(q, w) = d
  BY OneWorker DEF Push, At, pc, Data, Arg, item
<1>2. GoesTo(q, "out")
  BY <1>1, QueueGotoView DEF Push, LoggingSteps
<1>3. d \in StampedRequests
  BY <1>1, QueueHands DEF LoggingSteps
<1>4. log \in Seq(StampedRequests) /\ requestQueue \in [QueueServers -> Seq(StampedRequests)]
  BY DEF TypeOK, QueueOK
<1>5. requestQueue' = [requestQueue EXCEPT ![q] = Append(log, d)]
  BY <1>1 DEF Push
<1>6. logged' = logged \cup {<<q, d.buffer, d.messageID>>}
  BY <1>1 DEF Push
<1>7. /\ Len(log) \in Nat /\ DOMAIN log = 1 .. Len(log)
      /\ Len(Append(log, d)) = Len(log) + 1
      /\ DOMAIN Append(log, d) = DOMAIN log \cup {Len(log) + 1}
      /\ \A i \in DOMAIN log : Append(log, d)[i] = log[i]
      /\ Append(log, d)[Len(log) + 1] = d
  BY <1>3, <1>4
<1> QED  BY <1>1, <1>2, <1>3, <1>4, <1>5, <1>6, <1>7

LEMMA SendToEchoView ==
  ASSUME Serial, TypeOK, NEW q \in QueueServers, NEW w \in Workers, SendToEcho(q, w)
  PROVE  /\ pc(q) = "out" /\ UNCHANGED <<requestQueue, lockOnQueue, logged>>
         /\ item(q).data \in StampedRequests
         /\ Sent(Echo, Request(item(q).data))
         /\ Returns(q) /\ frame'[q][Worker].pc = "idle"
<1>1. pc(q) = "out" /\ UNCHANGED <<requestQueue, lockOnQueue, logged>>
      /\ Data(q, w) = item(q).data
  BY OneWorker DEF SendToEcho, At, pc, queueVars, Data, Arg, item
<1>2. item(q).data \in StampedRequests
  BY <1>1, QueueHands DEF LoggingSteps
<1> QED  BY <1>1, <1>2, ReturnView, SentView, Constants DEF SendToEcho

LEMMA PopAllView ==
  ASSUME Serial, TypeOK, NEW q \in QueueServers, NEW w \in Workers, PopAll(q, w)
  PROVE  /\ pc(q) = "pop" /\ UNCHANGED <<inbox, lockOnQueue, logged>>
         /\ GoesTo(q, "reset")
         /\ \A p \in QueueServers : p # q => requestQueue'[p] = requestQueue[p]
         /\ requestQueue'[q] = << >> /\ DOMAIN requestQueue'[q] = {}
<1>1. pc(q) = "pop" /\ UNCHANGED <<inbox, lockOnQueue, logged>>
  BY OneWorker DEF PopAll, At, pc
<1>2. /\ \A p \in QueueServers : p # q => requestQueue'[p] = requestQueue[p]
      /\ requestQueue'[q] = << >>
  BY DEF PopAll, TypeOK, QueueOK
<1>3. DOMAIN << >> = {}
  OBVIOUS
<1> QED  BY <1>1, <1>2, <1>3, QueueGotoView DEF PopAll

LEMMA ResetLockView ==
  ASSUME Serial, TypeOK, NEW q \in QueueServers, NEW w \in Workers, ResetLock(q, w)
  PROVE  /\ pc(q) = "reset" /\ UNCHANGED <<inbox, requestQueue, logged>>
         /\ \A p \in QueueServers : lockOnQueue'[p] = IF p = q THEN 0 ELSE lockOnQueue[p]
         /\ Returns(q) /\ frame'[q][Worker].pc = "idle"
<1>1. pc(q) = "reset" /\ UNCHANGED <<inbox, requestQueue, logged>>
  BY OneWorker DEF ResetLock, At, pc
<1>2. \A p \in QueueServers : lockOnQueue'[p] = IF p = q THEN 0 ELSE lockOnQueue[p]
  BY DEF ResetLock, TypeOK, QueueOK
<1> QED  BY <1>1, <1>2, ReturnView, Constants DEF ResetLock

-----------------------------------------------------------------------------
(***************************************************************************)
(* The steps of the echo server; id is the message id they count under.    *)
(***************************************************************************)
EchoID == getMessageID(item(Echo).data)
From   == item(Echo).data.queueServerID

LEMMA EchoHandler ==
  ASSUME Serial, NEW w \in Workers
  PROVE  /\ \A step : At(Echo, w, step) <=> pc(Echo) = step
         /\ Arg(Echo, w) = item(Echo) /\ MessageID(w) = EchoID /\ ServerID(w) = From
         /\ frame[Echo][w].k = turn
BY OneWorker DEF At, pc, Arg, item, MessageID, ServerID, EchoID, From, turn

LEMMA CheckRequestView ==
  ASSUME Serial, TypeOK, NEW w \in Workers, CheckRequest(w)
  PROVE  /\ pc(Echo) = "start" /\ UNCHANGED <<inbox, replies>>
         /\ messageHash' = Touch(messageHash, EchoID)
         /\ \/ GoesTo(Echo, "received") /\ Counted(From, EchoID)
            \/ GoesTo(Echo, "insert") /\ ~Counted(From, EchoID)
BY EchoHandler, EchoGotoView DEF CheckRequest, Counted, RequestSteps

LEMMA InsertRequestView ==
  ASSUME Serial, TypeOK, NEW w \in Workers, InsertRequest(w)
  PROVE  /\ pc(Echo) = "insert" /\ UNCHANGED <<inbox, replies>>
         /\ messageHash' = insertMsgHash(messageHash, EchoID, From)
         /\ GoesTo(Echo, "received")
BY EchoHandler, EchoGotoView DEF InsertRequest, RequestSteps

LEMMA CheckReceivedView ==
  ASSUME Serial, TypeOK, NEW w \in Workers, CheckReceived(w)
  PROVE  /\ pc(Echo) = "received" /\ UNCHANGED <<inbox, replies>>
         /\ messageHash' = Touch(messageHash, EchoID)
         /\ \/ GoesTo(Echo, "out") /\ receivedAllRequests(messageHash, EchoID)
            \/ Returns(Echo) /\ frame'[Echo][Worker].pc = "idle"
               /\ ~receivedAllRequests(messageHash, EchoID)
BY EchoHandler, EchoGotoView, ReturnView, Constants DEF CheckReceived, RequestSteps

LEMMA ReplyView ==
  ASSUME Serial, TypeOK, NEW w \in Workers, Reply(w)
  PROVE  /\ pc(Echo) = "out" /\ UNCHANGED <<inbox, messageHash>>
         /\ item(Echo).data.buffer \in Texts
         /\ \A t \in Texts : replies'[t] = IF t = item(Echo).data.buffer
                                           THEN replies[t] + 1 ELSE replies[t]
         /\ replies' = [replies EXCEPT ![item(Echo).data.buffer] = @ + 1]
         /\ Returns(Echo) /\ frame'[Echo][Worker].pc = "idle"
<1>1. pc(Echo) = "out" /\ UNCHANGED <<inbox, messageHash>>
  BY EchoHandler DEF Reply
<1>2. item(Echo).data.buffer \in Texts
  BY <1>1, EchoHands DEF RequestSteps, StampedRequests
<1>3. replies' = [replies EXCEPT ![item(Echo).data.buffer] = @ + 1]
  BY EchoHandler DEF Reply
<1>4. \A t \in Texts : replies'[t] = IF t = item(Echo).data.buffer
                                     THEN replies[t] + 1 ELSE replies[t]
  BY <1>2, <1>3 DEF TypeOK, EchoOK
<1> QED  BY <1>1, <1>2, <1>3, <1>4, ReturnView, Constants DEF Reply

LEMMA CheckWaitView ==
  ASSUME Serial, TypeOK, NEW w \in Workers, CheckWait(w)
  PROVE  /\ pc(Echo) = "wait" /\ UNCHANGED <<inbox, replies>>
         /\ messageHash' = Touch(messageHash, WaitKey)
         /\ \/ GoesTo(Echo, "processed") /\ Counted(item(Echo).server, WaitKey)
            \/ GoesTo(Echo, "insertWait") /\ ~Counted(item(Echo).server, WaitKey)
BY EchoHandler, EchoGotoView DEF CheckWait, Counted, WaitSteps

LEMMA InsertWaitView ==
  ASSUME Serial, TypeOK, NEW w \in Workers, InsertWait(w)
  PROVE  /\ pc(Echo) = "insertWait" /\ UNCHANGED <<inbox, replies>>
         /\ messageHash' = insertMsgHash(messageHash, WaitKey, item(Echo).server)
         /\ GoesTo(Echo, "processed")
BY EchoHandler, EchoGotoView DEF InsertWait, WaitSteps

LEMMA CheckProcessedView ==
  ASSUME Serial, TypeOK, NEW w \in Workers, CheckProcessed(w)
  PROVE  /\ pc(Echo) = "processed" /\ UNCHANGED <<inbox, replies, messageHash>>
         /\ \/ GoesTo(Echo, "resetHash") /\ processedAllRequests(messageHash)
            \/ Returns(Echo) /\ frame'[Echo][Worker].pc = "idle"
BY EchoHandler, EchoGotoView, ReturnView, Constants DEF CheckProcessed, WaitSteps, echoVars

LEMMA ResetHashView ==
  ASSUME Serial, TypeOK, NEW w \in Workers, ResetHash(w)
  PROVE  /\ pc(Echo) = "resetHash" /\ UNCHANGED <<inbox, replies>>
         /\ messageHash' = EmptyHash /\ GoesTo(Echo, "esignal")
BY EchoHandler, EchoGotoView DEF ResetHash, WaitSteps

LEMMA SendSignalView ==
  ASSUME Serial, TypeOK, NEW w \in Workers, SendSignal(w)
  PROVE  /\ pc(Echo) = "esignal" /\ UNCHANGED <<messageHash, replies>>
         /\ turn \in QueueServers /\ Sent(turn, Signal) /\ OnlyMoves(Echo)
         /\ \/ /\ turn + 1 \in QueueServers
               /\ frame'[Echo][Worker].pc = "esignal"
               /\ frame'[Echo][Worker].k = turn + 1
            \/ /\ turn + 1 \notin QueueServers
               /\ frame'[Echo][Worker].pc = "idle"
<1> DEFINE f == frame[Echo][Worker]
           activation == [f EXCEPT !.k = turn + 1]
<1>1. /\ pc(Echo) = "esignal" /\ UNCHANGED <<messageHash, replies>>
      /\ w = Worker /\ f = frame[Echo][w] /\ turn = f.k
  BY EchoHandler, OneWorker DEF SendSignal, echoVars, turn
<1>2. f \in [pc : WaitSteps, k : QueueServers, item : WaitItems] /\ turn \in QueueServers
  BY <1>1, EchoHands DEF WaitSteps
<1>3. Sent(turn, Signal)
  BY <1>1, <1>2, SentView, Constants DEF SendSignal
<1>4. CASE turn + 1 \in QueueServers /\ Become(Echo, w, activation)
  <2>1. activation.pc = "esignal" /\ activation.k = turn + 1
    BY <1>1, <1>2 DEF pc
  <2>2. OnlyMoves(Echo) /\ frame'[Echo][Worker] = activation
    BY <1>4, BecomeView, Constants
  <2> QED  BY <1>1, <1>2, <1>3, <1>4, <2>1, <2>2
<1>5. CASE turn + 1 \notin QueueServers /\ Return(Echo, w)
  BY <1>1, <1>2, <1>3, <1>5, ReturnView, Constants DEF Returns
<1> QED  BY <1>1, <1>4, <1>5 DEF SendSignal

-----------------------------------------------------------------------------
(***************************************************************************)
(* The order of the texts.                                                 *)
(***************************************************************************)
LEMMA LoggedTyped ==
  ASSUME TypeOK, NEW entry \in logged
  PROVE  entry[1] \in QueueServers /\ entry[2] \in Texts /\ entry[3] \in Nat
BY DEF TypeOK, QueueOK

LEMMA TextsAreNat ==
  /\ \A t \in Texts : t \in Nat
  /\ \A d \in StampedRequests : d.buffer \in Nat /\ d.messageID \in Nat
  /\ \A d \in SocketRequests : d.buffer \in Nat
BY RequestsAssumption DEF Texts, StampedRequests, SocketRequests, FromSocket

\* A request in the inbox of a queue server has a text.
LEMMA InboxTexts ==
  ASSUME TypeOK, NEW q \in QueueServers, NEW i \in DOMAIN inbox[q], inbox[q][i].port = "in"
  PROVE  inbox[q][i].data.buffer \in Nat
<1>1. inbox[q][i] \in InboxItems(q)
  BY InboxTyped, Constants
<1>2. inbox[q][i] \in SocketItems \cup StampedItems
  BY <1>1, Constants DEF InboxItems, Signal
<1>3. inbox[q][i].data \in SocketRequests \cup StampedRequests
  BY <1>2 DEF SocketItems, StampedItems
<1> QED  BY <1>3, TextsAreNat

-----------------------------------------------------------------------------
(***************************************************************************)
(* The steps that move no text forward: those that drop the text in hand,  *)
(* pass it on, or do not concern texts at all.                             *)
(***************************************************************************)
LEMMA OrderKept ==
  ASSUME TypeOK, OrderInv, UNCHANGED <<arrived, logged>>,
         \A q \in QueueServers : \A i \in DOMAIN inbox'[q] :
           inbox'[q][i].port = "in" => i \in DOMAIN inbox[q] /\ inbox'[q][i] = inbox[q][i],
         \A q \in QueueServers : frame'[q][Worker].pc \in TextSteps =>
           /\ pc(q) \in TextSteps
           /\ frame'[q][Worker].item.data.buffer = item(q).data.buffer,
         \A r \in Replicas : ToForward(r)' =>
           /\ ToForward(r)
           /\ frame'[Primary][Worker].item.data.buffer = item(Primary).data.buffer,
         \A q \in QueueServers :
           requestQueue'[q] = requestQueue[q] \/ DOMAIN requestQueue'[q] = {}
  PROVE  OrderInv'
<1>1. \A q \in QueueServers : \A t : BeforeInbox(q, t) => BeforeInbox(q, t)'
  BY DEF BeforeInbox
<1>2. \A q \in QueueServers : \A t : BeforeHand(q, t) => BeforeHand(q, t)'
  BY DEF BeforeHand, pc, item
<1>3. \A r \in Replicas : \A t : BeforeComing(r, t) => BeforeComing(r, t)'
  BY <1>1, Constants DEF BeforeComing, item
<1>4. InboxOrder'
  BY DEF OrderInv, InboxOrder, pc, item
<1>5. HandOrder'
  BY <1>3, Constants DEF OrderInv, HandOrder, pc, item
<1>6. LoggedOrder'
  BY <1>1, <1>2, <1>3, LoggedTyped DEF OrderInv, LoggedOrder
<1>7. EntriesOrder'
  BY DEF OrderInv, EntriesOrder
<1> QED  BY <1>4, <1>5, <1>6, <1>7 DEF OrderInv

\* A step of an operator other than the queue servers' handlers of texts.
LEMMA OrderKeptBy ==
  ASSUME TypeOK, OrderInv, UNCHANGED <<arrived, logged>>,
         NEW op \in Operators, OnlyMoves(op),
         op \in QueueServers /\ frame'[op][Worker].pc \in TextSteps =>
           /\ pc(op) \in TextSteps
           /\ frame'[op][Worker].item.data.buffer = item(op).data.buffer,
         \A r \in Replicas : op = Primary /\ ToForward(r)' => ToForward(r),
         \A q \in QueueServers : \A i \in DOMAIN inbox'[q] :
           inbox'[q][i].port = "in" => i \in DOMAIN inbox[q] /\ inbox'[q][i] = inbox[q][i],
         \A q \in QueueServers :
           requestQueue'[q] = requestQueue[q] \/ DOMAIN requestQueue'[q] = {}
  PROVE  OrderInv'
<1>1. \A q \in QueueServers : frame'[q][Worker].pc \in TextSteps =>
        /\ pc(q) \in TextSteps
        /\ frame'[q][Worker].item.data.buffer = item(q).data.buffer
  BY Constants DEF OnlyMoves, pc, item
<1>2. \A r \in Replicas : ToForward(r)' =>
        /\ ToForward(r)
        /\ frame'[Primary][Worker].item.data.buffer = item(Primary).data.buffer
  <2> SUFFICES ASSUME NEW r \in Replicas, ToForward(r)'
               PROVE  /\ ToForward(r)
                      /\ frame'[Primary][Worker].item.data.buffer = item(Primary).data.buffer
    OBVIOUS
  <2>1. frame'[Primary][Worker].pc \in TextSteps
    BY DEF ToForward, TextSteps, StampSteps, pc
  <2>2. CASE op = Primary
    BY <2>1, <2>2, <1>1, Constants
  <2>3. CASE op # Primary
    BY <2>3, Constants DEF OnlyMoves, ToForward, pc, item
  <2> QED  BY <2>2, <2>3
<1> QED  BY <1>1, <1>2, OrderKept

LEMMA OrderVerifySignature ==
  ASSUME Serial, TypeOK, OrderInv, NEW w \in Workers, VerifySignature(w), UNCHANGED arrived
  PROVE  OrderInv'
BY VerifySignatureView, OrderKeptBy, Constants DEF TextSteps, StampSteps, ToForward, pc

LEMMA OrderVerifyMac ==
  ASSUME Serial, TypeOK, OrderInv, NEW r \in QueueServers, r # Primary, NEW w \in Workers,
         VerifyMac(r, w), UNCHANGED arrived
  PROVE  OrderInv'
BY VerifyMacView, OrderKeptBy, Constants DEF TextSteps, StampSteps, pc

LEMMA OrderCheckSize ==
  ASSUME Serial, TypeOK, OrderInv, NEW q \in QueueServers, NEW w \in Workers,
         CheckSize(q, w), UNCHANGED arrived
  PROVE  OrderInv'
BY CheckSizeView, OrderKeptBy, Constants DEF TextSteps, StampSteps, ToForward, GoesTo, pc, item

\* The text has left the hand of the queue server, or it holds none.
LEMMA OrderFullLog ==
  ASSUME Serial, TypeOK, OrderInv, NEW q \in QueueServers, NEW w \in Workers,
         \/ CheckLock(q, w)
         \/ SetLock(q, w)
         \/ PopAll(q, w)
         \/ ResetLock(q, w),
         UNCHANGED arrived
  PROVE  OrderInv'
<1>1. UNCHANGED <<inbox, logged>>
  BY CheckLockView, SetLockView, PopAllView, ResetLockView
<1>2. OnlyMoves(q) /\ frame'[q][Worker].pc \in {"qwait", "idle", "reset"}
  BY CheckLockView, SetLockView, PopAllView, ResetLockView DEF GoesTo, Returns
<1>3. \A p \in QueueServers : requestQueue'[p] = requestQueue[p] \/ DOMAIN requestQueue'[p] = {}
  BY CheckLockView, SetLockView, PopAllView, ResetLockView
<1> QED
  BY <1>1, <1>2, <1>3, OrderKeptBy, Constants DEF TextSteps, StampSteps, ToForward, pc

LEMMA OrderToEcho ==
  ASSUME Serial, TypeOK, OrderInv, NEW q \in QueueServers, NEW w \in Workers,
         SendWait(q, w) \/ SendToEcho(q, w), UNCHANGED arrived
  PROVE  OrderInv'
<1>1. UNCHANGED <<requestQueue, logged>> /\ \E it : Sent(Echo, it)
  BY SendWaitView, SendToEchoView
<1>2. OnlyMoves(q) /\ frame'[q][Worker].pc \in {"set", "idle"}
  BY SendWaitView, SendToEchoView DEF GoesTo, Returns
<1>3. \A p \in QueueServers : inbox'[p] = inbox[p]
  BY <1>1, Constants DEF Sent
<1> QED
  BY <1>1, <1>2, <1>3, OrderKeptBy, Constants DEF TextSteps, StampSteps, ToForward, pc

\* Of the echo server's steps only the signals reach the queue servers.
LEMMA OrderEcho ==
  ASSUME Serial, TypeOK, OrderInv, NEW w \in Workers, EchoStep(w)
  PROVE  OrderInv'
<1>1. UNCHANGED <<arrived, logged, requestQueue>>
  BY DEF EchoStep, queueVars
<1>2. PICK activation : Become(Echo, w, activation)
  BY DEF EchoStep, EchoServerStep, Dispatch, CheckRequest, InsertRequest, CheckReceived,
         Reply, CheckWait, InsertWait, CheckProcessed, ResetHash, SendSignal, Goto, Return
<1>3. OnlyMoves(Echo)
  BY <1>2, BecomeView, Constants
<1>4. \A q \in QueueServers : \A i \in DOMAIN inbox'[q] :
        inbox'[q][i].port = "in" => i \in DOMAIN inbox[q] /\ inbox'[q][i] = inbox[q][i]
  <2>1. CASE UNCHANGED inbox
    BY <2>1
  <2>2. CASE Dispatch(Echo, w)
    BY <2>2, TakenView, Constants DEF Taken
  <2>3. CASE SendSignal(w)
    BY <2>3, SendSignalView, Constants DEF Sent, Signal
  <2> QED
    BY <2>1, <2>2, <2>3
       DEF EchoStep, EchoServerStep, CheckRequest, InsertRequest, CheckReceived,
           Reply, CheckWait, InsertWait, CheckProcessed, ResetHash
<1> QED  BY <1>1, <1>3, <1>4, OrderKeptBy, Constants

-----------------------------------------------------------------------------
(***************************************************************************)
(* The steps that move a text forward.                                     *)
(***************************************************************************)
\* A text that arrives is behind all that have arrived before.
LEMMA OrderArrive ==
  ASSUME Serial, TypeOK, OrderInv, Arrive
  PROVE  OrderInv'
<1> DEFINE n == Len(inbox[Primary]) + 1
<1>1. /\ \A p \in Operators : p # Primary => inbox'[p] = inbox[p]
      /\ DOMAIN inbox'[Primary] = DOMAIN inbox[Primary] \cup {n}
      /\ \A i \in DOMAIN inbox[Primary] : inbox'[Primary][i] = inbox[Primary][i]
      /\ inbox'[Primary][n].data.buffer = arrived + 1
      /\ arrived \in Nat /\ arrived' = arrived + 1
      /\ UNCHANGED <<frame, requestQueue, logged>>
  BY ArriveView DEF Sent
<1>2. DOMAIN inbox[Primary] = 1 .. Len(inbox[Primary]) /\ Len(inbox[Primary]) \in Nat
  BY InboxTyped, Constants
<1>3. n \in Nat /\ \A i \in DOMAIN inbox[Primary] : i \in Nat /\ i < n
  BY <1>2
<1> HIDE DEF n
<1>4. ASSUME NEW t \in Nat, t <= arrived, NEW q \in QueueServers, BeforeInbox(q, t)
      PROVE  BeforeInbox(q, t)'
  BY <1>1, <1>4, Constants DEF BeforeInbox
<1>5. ASSUME NEW t \in Nat, NEW r \in Replicas, BeforeComing(r, t)
      PROVE  BeforeComing(r, t)'
  BY <1>1, <1>4, <1>5, Constants DEF BeforeComing, ToForward, pc, item
<1>6. InboxOrder'
  <2>1. ASSUME NEW q \in QueueServers, q # Primary, NEW i \in DOMAIN inbox'[q],
               inbox'[q][i].port = "in"
        PROVE  /\ pc(q) \in TextSteps => item(q).data.buffer < inbox'[q][i].data.buffer
               /\ \A j \in DOMAIN inbox'[q] :
                    i < j /\ inbox'[q][j].port = "in" =>
                      inbox'[q][i].data.buffer < inbox'[q][j].data.buffer
    BY <1>1, <2>1, Constants DEF OrderInv, InboxOrder
  <2>2. ASSUME NEW i \in DOMAIN inbox[Primary], inbox[Primary][i].port = "in"
        PROVE  /\ inbox[Primary][i].data.buffer \in Nat
               /\ inbox[Primary][i].data.buffer <= arrived
    BY <2>2, InboxTexts, Constants DEF OrderInv, HandOrder
  <2>3. pc(Primary) \in TextSteps => item(Primary).data.buffer \in Nat
                                     /\ item(Primary).data.buffer <= arrived
    <3>1. pc(Primary) \in TextSteps => item(Primary).data.buffer \in Texts
      BY QueueHands, Constants DEF TextSteps, StampSteps, LoggingSteps
    <3> QED  BY <3>1, TextsAreNat DEF OrderInv, HandOrder
  <2>4. ASSUME NEW i \in DOMAIN inbox'[Primary], inbox'[Primary][i].port = "in"
        PROVE  /\ pc(Primary) \in TextSteps =>
                    item(Primary).data.buffer < inbox'[Primary][i].data.buffer
               /\ \A j \in DOMAIN inbox'[Primary] :
                    i < j /\ inbox'[Primary][j].port = "in" =>
                      inbox'[Primary][i].data.buffer < inbox'[Primary][j].data.buffer
    <3>1. CASE i = n
      BY <1>1, <1>3, <2>3, <3>1
    <3>2. CASE i \in DOMAIN inbox[Primary]
      <4>1. inbox'[Primary][i] = inbox[Primary][i]
        BY <1>1, <3>2
      <4>2. ASSUME NEW j \in DOMAIN inbox'[Primary], i < j, inbox'[Primary][j].port = "in"
            PROVE  inbox'[Primary][i].data.buffer < inbox'[Primary][j].data.buffer
        <5>1. CASE j = n
          BY <1>1, <2>2, <2>4, <3>2, <4>1, <5>1
        <5>2. CASE j \in DOMAIN inbox[Primary]
          BY <1>1, <2>4, <3>2, <4>1, <4>2, <5>2, Constants DEF OrderInv, InboxOrder
        <5> QED  BY <1>1, <5>1, <5>2
      <4> QED  BY <2>4, <3>2, <4>1, <4>2, Constants DEF OrderInv, InboxOrder
    <3> QED  BY <1>1, <3>1, <3>2
  <2> QED  BY <1>1, <2>1, <2>4 DEF InboxOrder, pc, item
<1>7. HandOrder'
  <2>1. \A i \in DOMAIN inbox'[Primary] :
          inbox'[Primary][i].port = "in" => inbox'[Primary][i].data.buffer <= arrived'
    BY <1>1, InboxTexts, Constants DEF OrderInv, HandOrder
  <2>2. pc(Primary) \in TextSteps => item(Primary).data.buffer <= arrived'
    <3>1. pc(Primary) \in TextSteps => item(Primary).data.buffer \in Texts
      BY QueueHands, Constants DEF TextSteps, StampSteps, LoggingSteps
    <3> QED  BY <1>1, <3>1, TextsAreNat DEF OrderInv, HandOrder
  <2>3. ASSUME NEW r \in Replicas
        PROVE  /\ \A i \in DOMAIN inbox'[r] :
                    inbox'[r][i].port = "in" => BeforeComing(r, inbox[r][i].data.buffer)'
               /\ pc(r) \in TextSteps => BeforeComing(r, item(r).data.buffer)'
    <3>1. inbox'[r] = inbox[r] /\ r \in QueueServers
      BY <1>1, Constants
    <3>2. \A i \in DOMAIN inbox'[r] :
            inbox'[r][i].port = "in" => BeforeComing(r, inbox[r][i].data.buffer)'
      BY <1>1, <1>5, <3>1, InboxTexts DEF OrderInv, HandOrder
    <3>3. pc(r) \in TextSteps => item(r).data.buffer \in Texts
      BY <3>1, QueueHands DEF TextSteps, StampSteps, LoggingSteps
    <3>4. pc(r) \in TextSteps => BeforeComing(r, item(r).data.buffer)'
      BY <1>1, <1>5, <3>3, TextsAreNat DEF OrderInv, HandOrder, item
    <3> QED  BY <3>2, <3>4
  <2> QED  BY <1>1, <2>1, <2>2, <2>3 DEF HandOrder, pc, item
<1>8. LoggedOrder'
  <2> SUFFICES ASSUME NEW entry \in logged
               PROVE  /\ entry[2] <= arrived'
                      /\ BeforeInbox(entry[1], entry[2])'
                      /\ BeforeHand(entry[1], entry[2])'
                      /\ entry[1] \in Replicas => BeforeComing(entry[1], entry[2])'
    BY <1>1 DEF LoggedOrder
  <2>1. entry[1] \in QueueServers /\ entry[2] \in Nat
    BY LoggedTyped, TextsAreNat
  <2>2. /\ entry[2] <= arrived
        /\ BeforeInbox(entry[1], entry[2])
        /\ BeforeHand(entry[1], entry[2])
        /\ entry[1] \in Replicas => BeforeComing(entry[1], entry[2])
    BY DEF OrderInv, LoggedOrder
  <2> QED  BY <1>1, <1>4, <1>5, <2>1, <2>2 DEF BeforeHand, pc, item
<1>9. EntriesOrder'
  BY <1>1 DEF OrderInv, EntriesOrder
<1> QED  BY <1>6, <1>7, <1>8, <1>9 DEF OrderInv

\* The text a handler takes from its inbox is before the others there.
LEMMA OrderDispatch ==
  ASSUME Serial, TypeOK, OrderInv, NEW q \in QueueServers, NEW w \in Workers,
         Dispatch(q, w), UNCHANGED <<requestQueue, logged, arrived>>
  PROVE  OrderInv'
<1> DEFINE text == inbox[q][1].data.buffer
<1>1. /\ OnlyMoves(q) /\ Taken(q) /\ pc(q) = "idle"
      /\ frame'[q][Worker].item = inbox[q][1]
      /\ frame'[q][Worker].pc \in TextSteps =>
           inbox[q][1].port = "in" /\ frame'[q][Worker].pc = "start"
  BY DispatchView, Constants DEF TextSteps, StampSteps
<1>2. /\ \A p \in QueueServers : p # q => inbox'[p] = inbox[p]
      /\ 1 \in DOMAIN inbox[q]
      /\ \A i \in DOMAIN inbox'[q] : /\ i \in Nat /\ 1 < i + 1
                                     /\ i \in DOMAIN inbox[q] /\ i + 1 \in DOMAIN inbox[q]
                                     /\ inbox'[q][i] = inbox[q][i + 1]
      /\ \A i, j \in DOMAIN inbox'[q] : i < j => i + 1 < j + 1
  BY <1>1, InboxTyped, Constants DEF Taken
<1>3. /\ \A p \in QueueServers : p # q =>
           /\ frame'[p][Worker].pc = frame[p][Worker].pc
           /\ frame'[p][Worker].item = frame[p][Worker].item
           /\ frame'[p][Worker].k = frame[p][Worker].k
      /\ UNCHANGED <<requestQueue, logged, arrived>>
  BY <1>1, Constants DEF OnlyMoves
<1>4. ASSUME NEW t, NEW p \in QueueServers, BeforeInbox(p, t)
      PROVE  BeforeInbox(p, t)'
  BY <1>2, <1>4 DEF BeforeInbox
<1>5. ASSUME NEW t, NEW p \in QueueServers, BeforeInbox(p, t), BeforeHand(p, t)
      PROVE  BeforeHand(p, t)'
  BY <1>1, <1>2, <1>3, <1>5 DEF BeforeInbox, BeforeHand, pc, item
<1>6. ASSUME NEW t, NEW r \in Replicas, BeforeComing(r, t)
      PROVE  BeforeComing(r, t)'
  <2>1. ToForward(r)' => t < frame'[Primary][Worker].item.data.buffer
    <3>1. CASE q = Primary
      BY <1>1, <1>2, <1>6, <3>1
         DEF BeforeComing, BeforeInbox, ToForward, TextSteps, StampSteps, pc, item
    <3>2. CASE q # Primary
      BY <1>3, <1>6, <3>2, Constants DEF BeforeComing, ToForward, pc, item
    <3> QED  BY <3>1, <3>2
  <2> QED  BY <1>3, <1>4, <1>6, <2>1, Constants DEF BeforeComing, item
<1>7. InboxOrder'
  <2>1. ASSUME NEW p \in QueueServers, NEW i \in DOMAIN inbox'[p],
               inbox'[p][i].port = "in"
        PROVE  /\ frame'[p][Worker].pc \in TextSteps =>
                    frame'[p][Worker].item.data.buffer < inbox'[p][i].data.buffer
               /\ \A j \in DOMAIN inbox'[p] :
                    i < j /\ inbox'[p][j].port = "in" =>
                      inbox'[p][i].data.buffer < inbox'[p][j].data.buffer
    <3>1. CASE p # q
      BY <1>2, <1>3, <2>1, <3>1 DEF OrderInv, InboxOrder, pc, item
    <3>2. CASE p = q
      BY <1>1, <1>2, <2>1, <3>2 DEF OrderInv, InboxOrder
    <3> QED  BY <3>1, <3>2
  <2> QED  BY <2>1 DEF InboxOrder, pc, item
<1>8. HandOrder'
  <2>1. \A i \in DOMAIN inbox'[Primary] :
          inbox'[Primary][i].port = "in" => inbox'[Primary][i].data.buffer <= arrived'
    BY <1>2, <1>3, Constants DEF OrderInv, HandOrder
  <2>2. frame'[Primary][Worker].pc \in TextSteps =>
          frame'[Primary][Worker].item.data.buffer <= arrived'
    BY <1>1, <1>2, <1>3, Constants DEF OrderInv, HandOrder, pc, item
  <2>3. ASSUME NEW r \in Replicas
        PROVE  /\ \A i \in DOMAIN inbox'[r] :
                    inbox'[r][i].port = "in" => BeforeComing(r, inbox[r][i].data.buffer)'
               /\ frame'[r][Worker].pc \in TextSteps => BeforeComing(r, item(r).data.buffer)'
    <3>1. r \in QueueServers
      BY Constants
    <3>2. \A i \in DOMAIN inbox'[r] :
            inbox'[r][i].port = "in" => BeforeComing(r, inbox[r][i].data.buffer)'
      BY <1>2, <1>6, <3>1 DEF OrderInv, HandOrder
    <3>3. frame'[r][Worker].pc \in TextSteps => BeforeComing(r, item(r).data.buffer)'
      BY <1>1, <1>2, <1>3, <1>6, <3>1 DEF OrderInv, HandOrder, pc, item
    <3> QED  BY <3>2, <3>3
  <2> QED  BY <2>1, <2>2, <2>3 DEF HandOrder, pc, item
<1>9. LoggedOrder'
  BY <1>3, <1>4, <1>5, <1>6, LoggedTyped DEF OrderInv, LoggedOrder
<1>10. EntriesOrder'
  BY <1>3 DEF OrderInv, EntriesOrder
<1> QED  BY <1>7, <1>8, <1>9, <1>10 DEF OrderInv

\* A replica gets a text that is behind all it has got before.
LEMMA OrderForward ==
  ASSUME Serial, TypeOK, OrderInv, NEW w \in Workers, Forward(w), UNCHANGED arrived
  PROVE  OrderInv'
<1>0. PICK r \in Replicas, text \in Texts :
        r = frame[Primary][Worker].k /\ text = item(Primary).data.buffer
  BY ForwardView, QueueHands, Constants
<1>n. PICK n : n = Len(inbox[r]) + 1
  OBVIOUS
<1>1. /\ pc(Primary) = "out_repl" /\ OnlyMoves(Primary)
      /\ UNCHANGED <<requestQueue, logged, arrived>>
      /\ frame'[Primary][Worker].item = item(Primary)
      /\ \/ frame'[Primary][Worker].pc = "out_repl" /\ frame'[Primary][Worker].k = r + 1
         \/ frame'[Primary][Worker].pc = "size"
      /\ \E d \in StampedRequests : Sent(r, Request(d)) /\ d.buffer = text
  BY <1>0, ForwardView
<1>2. /\ \A p \in QueueServers : p # r => inbox'[p] = inbox[p]
      /\ DOMAIN inbox'[r] = DOMAIN inbox[r] \cup {n}
      /\ \A i \in DOMAIN inbox[r] : inbox'[r][i] = inbox[r][i]
      /\ inbox'[r][n].port = "in" /\ inbox'[r][n].data.buffer = text
  BY <1>1, <1>n, Constants DEF Sent, Request
<1>3. n \in Nat /\ \A i \in DOMAIN inbox[r] : i \in Nat /\ i < n
  BY <1>n, InboxTyped, Constants
<1>4. r \in Nat /\ Replicas \subseteq Nat /\ r # Primary /\ r \in QueueServers
  BY Constants, CommonAssumption DEF Replicas
<1>5. \A p \in QueueServers : p # Primary =>
        /\ frame'[p][Worker].pc = frame[p][Worker].pc
        /\ frame'[p][Worker].item = frame[p][Worker].item
  BY <1>1, Constants DEF OnlyMoves
<1>6. pc(Primary) \in TextSteps /\ frame'[Primary][Worker].pc \in TextSteps
  BY <1>1 DEF TextSteps, StampSteps
<1>7. ToForward(r) /\ ~ToForward(r)'
  BY <1>0, <1>1, <1>4 DEF ToForward, pc
<1>8. \A s \in Replicas : ToForward(s)' => ToForward(s)
  BY <1>0, <1>1, <1>4 DEF ToForward, pc
<1>9. \A p \in QueueServers : \A t :
        BeforeInbox(p, t) /\ (p = r => t < text) => BeforeInbox(p, t)'
  BY <1>2 DEF BeforeInbox
<1>10. \A p \in QueueServers : \A t : BeforeHand(p, t) => BeforeHand(p, t)'
  BY <1>1, <1>5, <1>6 DEF BeforeHand, pc, item
<1>11. \A t : \A s \in Replicas : BeforeComing(s, t) => BeforeComing(s, t)'
  BY <1>0, <1>1, <1>4, <1>8, <1>9, Constants DEF BeforeComing, item
<1>12. \A t : BeforeComing(r, t) => t < text
  BY <1>0, <1>7 DEF BeforeComing
<1>13. BeforeComing(r, text)'
  <2>1. text <= arrived
    BY <1>0, <1>6 DEF OrderInv, HandOrder
  <2>2. BeforeInbox(Primary, text)
    BY <1>0, <1>6, Constants DEF OrderInv, InboxOrder, BeforeInbox
  <2>3. BeforeInbox(Primary, text)'
    BY <1>4, <1>9, <2>2, Constants
  <2> QED  BY <1>1, <1>7, <2>1, <2>3 DEF BeforeComing
<1>14. InboxOrder'
  <2>1. ASSUME NEW p \in QueueServers, NEW i \in DOMAIN inbox'[p],
               inbox'[p][i].port = "in"
        PROVE  /\ frame'[p][Worker].pc \in TextSteps =>
                    frame'[p][Worker].item.data.buffer < inbox'[p][i].data.buffer
               /\ \A j \in DOMAIN inbox'[p] :
                    i < j /\ inbox'[p][j].port = "in" =>
                      inbox'[p][i].data.buffer < inbox'[p][j].data.buffer
    <3>1. CASE p = Primary
      <4>1. p # r /\ inbox'[p] = inbox[p]
        BY <1>2, <1>4, <3>1
      <4>2. /\ pc(p) \in TextSteps => item(p).data.buffer < inbox[p][i].data.buffer
            /\ \A j \in DOMAIN inbox[p] :
                 i < j /\ inbox[p][j].port = "in" =>
                   inbox[p][i].data.buffer < inbox[p][j].data.buffer
        BY <2>1, <4>1 DEF OrderInv, InboxOrder
      <4>3. pc(p) \in TextSteps /\ frame'[p][Worker].item = item(p)
        BY <1>1, <1>6, <3>1
      <4> QED  BY <4>1, <4>2, <4>3
    <3>2. CASE p # Primary /\ p # r
      BY <1>2, <1>5, <2>1, <3>2 DEF OrderInv, InboxOrder, pc, item
    <3>3. CASE p = r /\ i = n
      BY <1>1, <1>2, <1>3, <1>4, <1>5, <1>12, <3>3 DEF OrderInv, HandOrder, pc, item
    <3>4. CASE p = r /\ i \in DOMAIN inbox[r]
      <4>1. inbox[r][i].data.buffer < text /\ inbox'[r][i] = inbox[r][i]
        BY <1>1, <1>2, <1>12, <2>1, <3>4 DEF OrderInv, HandOrder
      <4> QED
        BY <1>2, <1>4, <1>5, <2>1, <3>4, <4>1 DEF OrderInv, InboxOrder, pc, item
    <3> QED  BY <1>2, <3>1, <3>2, <3>3, <3>4, SMTT(40)
  <2> QED  BY <2>1, SMTT(40) DEF InboxOrder, pc, item
<1>15. HandOrder'
  <2>1. \A i \in DOMAIN inbox'[Primary] :
          inbox'[Primary][i].port = "in" => inbox'[Primary][i].data.buffer <= arrived'
    BY <1>1, <1>2, <1>4, Constants DEF OrderInv, HandOrder
  <2>2. frame'[Primary][Worker].pc \in TextSteps =>
          frame'[Primary][Worker].item.data.buffer <= arrived'
    BY <1>1, <1>6 DEF OrderInv, HandOrder
  <2>3. ASSUME NEW s \in Replicas
        PROVE  /\ \A i \in DOMAIN inbox'[s] :
                    inbox'[s][i].port = "in" => BeforeComing(s, inbox[s][i].data.buffer)'
               /\ frame'[s][Worker].pc \in TextSteps => BeforeComing(s, item(s).data.buffer)'
    <3>1. s \in QueueServers /\ s # Primary
      BY Constants
    <3>2. \A i \in DOMAIN inbox'[s] :
            inbox'[s][i].port = "in" => BeforeComing(s, inbox[s][i].data.buffer)'
      <4>1. CASE s # r
        BY <1>2, <1>11, <3>1, <4>1 DEF OrderInv, HandOrder
      <4>2. CASE s = r
        BY <1>2, <1>11, <1>13, <4>2 DEF OrderInv, HandOrder
      <4> QED  BY <4>1, <4>2
    <3>3. frame'[s][Worker].pc \in TextSteps => BeforeComing(s, item(s).data.buffer)'
      BY <1>5, <1>11, <3>1 DEF OrderInv, HandOrder, pc, item
    <3> QED  BY <3>2, <3>3
  <2> QED  BY <2>1, <2>2, <2>3 DEF HandOrder, pc, item
<1>16. LoggedOrder'
  BY <1>1, <1>9, <1>10, <1>11, <1>12, LoggedTyped DEF OrderInv, LoggedOrder
<1>17. EntriesOrder'
  BY <1>1 DEF OrderInv, EntriesOrder
<1> QED  BY <1>14, <1>15, <1>16, <1>17 DEF OrderInv

\* A text that is logged is behind the logged ones and before the coming ones.
LEMMA OrderPush ==
  ASSUME Serial, TypeOK, Provenance, OrderInv, NEW q \in QueueServers, NEW w \in Workers,
         Push(q, w), UNCHANGED arrived
  PROVE  OrderInv'
<1>0. PICK d \in StampedRequests, n \in Nat : d = item(q).data /\ n = Len(requestQueue[q])
  BY PushView
<1>1. /\ pc(q) = "push" /\ UNCHANGED inbox /\ GoesTo(q, "out")
      /\ DOMAIN requestQueue[q] = 1 .. n
      /\ \A p \in QueueServers : p # q => requestQueue'[p] = requestQueue[p]
      /\ DOMAIN requestQueue'[q] = DOMAIN requestQueue[q] \cup {n + 1}
      /\ \A i \in DOMAIN requestQueue[q] : requestQueue'[q][i] = requestQueue[q][i]
      /\ requestQueue'[q][n + 1] = d
      /\ logged' = logged \cup {<<q, d.buffer, d.messageID>>}
  BY <1>0, PushView
<1>2. /\ \A p \in QueueServers : p # q =>
           /\ frame'[p][Worker].pc = frame[p][Worker].pc
           /\ frame'[p][Worker].item = frame[p][Worker].item
           /\ frame'[p][Worker].k = frame[p][Worker].k
      /\ frame'[q][Worker].pc = "out"
  BY <1>1, Constants DEF OnlyMoves, GoesTo
<1>3. pc(q) \in TextSteps /\ d.buffer \in Nat /\ "out" \notin TextSteps
  BY <1>0, <1>1, TextsAreNat DEF TextSteps, StampSteps
<1>4. d.queueServerID = q
  <2>1. Accepted(q, Data(q, w))
    BY QueueProvenance, OneWorker DEF Push, At, LoggingSteps
  <2> QED  BY <1>0, <2>1, OneWorker DEF Accepted, Data, Arg, item
<1>5. \A p \in QueueServers : \A t : BeforeInbox(p, t) => BeforeInbox(p, t)'
  BY <1>1 DEF BeforeInbox
<1>6. \A p \in QueueServers : \A t : BeforeHand(p, t) => BeforeHand(p, t)'
  BY <1>2, <1>3 DEF BeforeHand, pc, item
<1>7. \A r \in Replicas : \A t : BeforeComing(r, t) => BeforeComing(r, t)'
  <2>1. \A r \in Replicas : ToForward(r)' => ToForward(r) /\ item(Primary)' = item(Primary)
    BY <1>2, Constants DEF ToForward, pc, item
  <2> QED  BY <1>5, <2>1, Constants DEF BeforeComing
<1>8. InboxOrder'
  BY <1>1, <1>2, <1>3 DEF OrderInv, InboxOrder, pc, item
<1>9. HandOrder'
  <2>1. /\ \A i \in DOMAIN inbox'[Primary] :
             inbox'[Primary][i].port = "in" => inbox'[Primary][i].data.buffer <= arrived'
        /\ frame'[Primary][Worker].pc \in TextSteps =>
             frame'[Primary][Worker].item.data.buffer <= arrived'
    BY <1>1, <1>2, <1>3, Constants DEF OrderInv, HandOrder, pc, item
  <2>2. ASSUME NEW r \in Replicas
        PROVE  /\ \A i \in DOMAIN inbox'[r] :
                    inbox'[r][i].port = "in" => BeforeComing(r, inbox[r][i].data.buffer)'
               /\ frame'[r][Worker].pc \in TextSteps => BeforeComing(r, item(r).data.buffer)'
    BY <1>1, <1>2, <1>3, <1>7, Constants DEF OrderInv, HandOrder, pc, item
  <2> QED  BY <2>1, <2>2 DEF HandOrder, pc, item
<1>10. LoggedOrder'
  <2>1. /\ d.buffer <= arrived
        /\ BeforeInbox(q, d.buffer)
        /\ q \in Replicas => BeforeComing(q, d.buffer)
    <3>1. CASE q = Primary
      BY <1>0, <1>3, <3>1, Constants DEF OrderInv, InboxOrder, HandOrder, BeforeInbox
    <3>2. CASE q \in Replicas
      BY <1>0, <1>3, <3>2 DEF OrderInv, InboxOrder, HandOrder, BeforeInbox, BeforeComing
    <3> QED  BY <3>1, <3>2, Constants
  <2>2. BeforeHand(q, d.buffer)'
    BY <1>2, <1>3 DEF BeforeHand, pc
  <2>3. ASSUME NEW entry \in logged
        PROVE  /\ entry[2] <= arrived
               /\ BeforeInbox(entry[1], entry[2])'
               /\ BeforeHand(entry[1], entry[2])'
               /\ entry[1] \in Replicas => BeforeComing(entry[1], entry[2])'
    BY <1>5, <1>6, <1>7, LoggedTyped DEF OrderInv, LoggedOrder
  <2>4. ASSUME NEW entry \in logged'
        PROVE  /\ entry[2] <= arrived
               /\ BeforeInbox(entry[1], entry[2])'
               /\ BeforeHand(entry[1], entry[2])'
               /\ entry[1] \in Replicas => BeforeComing(entry[1], entry[2])'
    <3>1. CASE entry \in logged
      BY <2>3, <3>1
    <3>2. CASE entry = <<q, d.buffer, d.messageID>>
      <4>1. entry[1] = q /\ entry[2] = d.buffer
        BY <3>2
      <4> QED  BY <1>5, <1>7, <2>1, <2>2, <4>1
    <3> QED  BY <1>1, <3>1, <3>2
  <2> QED  BY <2>4 DEF LoggedOrder
<1>11. EntriesOrder'
  <2>1. \A i \in DOMAIN requestQueue[q] : i \in Nat /\ i < n + 1
    BY <1>1
  <2>2. \A i \in DOMAIN requestQueue[q] : requestQueue[q][i].buffer < d.buffer
    <3> SUFFICES ASSUME NEW i \in DOMAIN requestQueue[q]
                 PROVE  requestQueue[q][i].buffer < d.buffer
      OBVIOUS
    <3> DEFINE e == <<q, requestQueue[q][i].buffer, requestQueue[q][i].messageID>>
    <3>1. e \in logged /\ e[1] = q /\ e[2] = requestQueue[q][i].buffer
      BY DEF OrderInv, EntriesOrder
    <3>2. BeforeHand(q, requestQueue[q][i].buffer)
      BY <3>1 DEF OrderInv, LoggedOrder
    <3> QED  BY <1>0, <1>3, <3>2 DEF BeforeHand
  <2>3. ASSUME NEW p \in QueueServers, NEW i \in DOMAIN requestQueue'[p]
        PROVE  /\ requestQueue'[p][i].queueServerID = p
               /\ <<p, requestQueue'[p][i].buffer, requestQueue'[p][i].messageID>> \in logged'
               /\ \A j \in DOMAIN requestQueue'[p] :
                    i < j => requestQueue'[p][i].buffer < requestQueue'[p][j].buffer
    <3>1. CASE p # q
      BY <1>1, <2>3, <3>1 DEF OrderInv, EntriesOrder
    <3>2. CASE p = q /\ i = n + 1
      BY <1>1, <1>4, <2>1, <3>2
    <3>3. CASE p = q /\ i \in DOMAIN requestQueue[q]
      <4>1. requestQueue'[q][i] = requestQueue[q][i] /\ requestQueue'[q][n + 1] = d
        BY <1>1, <3>3
      <4>2. /\ requestQueue[q][i].queueServerID = q
            /\ <<q, requestQueue[q][i].buffer, requestQueue[q][i].messageID>> \in logged
            /\ \A j \in DOMAIN requestQueue[q] :
                 i < j => requestQueue[q][i].buffer < requestQueue[q][j].buffer
        BY <3>3 DEF OrderInv, EntriesOrder
      <4>3. \A j \in DOMAIN requestQueue'[q] :
              i < j => requestQueue'[q][i].buffer < requestQueue'[q][j].buffer
        BY <1>1, <2>2, <3>3, <4>1, <4>2
      <4> QED  BY <1>1, <3>3, <4>1, <4>2, <4>3
    <3> QED  BY <1>1, <2>3, <3>1, <3>2, <3>3
  <2> QED  BY <2>3 DEF EntriesOrder
<1> QED  BY <1>8, <1>9, <1>10, <1>11 DEF OrderInv

-----------------------------------------------------------------------------
LEMMA OrderQueueServer ==
  ASSUME Serial, TypeOK, Provenance, OrderInv, NEW q \in QueueServers, NEW w \in Workers,
         QueueStep(q, w)
  PROVE  OrderInv'
<1> USE DEF QueueStep
<1>1. CASE Dispatch(q, w) /\ UNCHANGED queueVars
  BY <1>1, OrderDispatch DEF queueVars
<1>2. CASE q = Primary /\ VerifySignature(w)
  BY <1>2, OrderVerifySignature
<1>3. CASE q = Primary /\ Forward(w)
  BY <1>3, OrderForward
<1>4. CASE q # Primary /\ VerifyMac(q, w)
  BY <1>4, OrderVerifyMac
<1>5. CASE CheckSize(q, w)    BY <1>5, OrderCheckSize
<1>6. CASE CheckLock(q, w)    BY <1>6, OrderFullLog
<1>7. CASE SendWait(q, w)     BY <1>7, OrderToEcho
<1>8. CASE SetLock(q, w)      BY <1>8, OrderFullLog
<1>9. CASE Push(q, w)         BY <1>9, OrderPush
<1>10. CASE SendToEcho(q, w)  BY <1>10, OrderToEcho
<1>11. CASE PopAll(q, w)      BY <1>11, OrderFullLog
<1>12. CASE ResetLock(q, w)   BY <1>12, OrderFullLog
<1> QED
  BY <1>1, <1>2, <1>3, <1>4, <1>5, <1>6, <1>7, <1>8, <1>9, <1>10, <1>11, <1>12
     DEF QueueServerStep

LEMMA NextOrder == Serial /\ TypeOK /\ Provenance /\ OrderInv /\ [Next]_vars => OrderInv'
<1> SUFFICES ASSUME Serial, TypeOK, Provenance, OrderInv, [Next]_vars PROVE OrderInv'
  OBVIOUS
<1>1. CASE Arrive
  BY <1>1, OrderArrive
<1>2. ASSUME NEW w \in Workers, NEW q \in QueueServers, QueueStep(q, w) PROVE OrderInv'
  BY <1>2, OrderQueueServer
<1>3. ASSUME NEW w \in Workers, EchoStep(w) PROVE OrderInv'
  BY <1>3, OrderEcho
<1>4. CASE UNCHANGED vars
  BY <1>4, OrderKept DEF vars, ToForward, pc, item
<1> QED  BY <1>1, <1>2, <1>3, <1>4 DEF Next, SystemStep

LEMMA InitOrder == Serial /\ Init => OrderInv
<1> SUFFICES ASSUME Serial, Init PROVE OrderInv
  OBVIOUS
<1>1. \A op \in Operators : inbox[op] = << >> /\ DOMAIN inbox[op] = {}
  BY DEF Init, RuntimeInit
<1>2. \A op \in Operators : pc(op) = "idle"
  BY OneWorker DEF Init, RuntimeInit, Idle, Activation, pc
<1>3. logged = {} /\ \A q \in QueueServers : DOMAIN requestQueue[q] = {}
  BY DEF Init, QueueServerInit
<1>4. "idle" \notin TextSteps
  BY DEF TextSteps, StampSteps
<1> QED
  BY <1>1, <1>2, <1>3, <1>4, Constants
     DEF OrderInv, InboxOrder, HandOrder, LoggedOrder, EntriesOrder

\* When the handlers of an operator do not overlap, every queue server receives,
\* handles and logs the requests in the order in which they arrived, whatever
\* the interleaving of the queue servers.
THEOREM TextsInOrder == ASSUME Serial PROVE Spec => []OrderInv
<1>1. Init => TypeOK /\ Provenance /\ OrderInv
  BY InitTyped, InitProvenance, InitOrder
<1>2. TypeOK /\ Provenance /\ OrderInv /\ [Next]_vars => (TypeOK /\ Provenance /\ OrderInv)'
  BY NextTyped, NextProvenance, NextOrder
<1> QED  BY <1>1, <1>2, PTL DEF Spec
=============================================================================
