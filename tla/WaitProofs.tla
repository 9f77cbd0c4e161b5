----------------------------- MODULE WaitProofs -----------------------------
(***************************************************************************)
(* The wait messages and the signals (WaitInv of Rounds): every lock is    *)
(* accounted for, and what a queue server sends to the echo server is      *)
(* handled in order, so that a wait message is behind all the copies.      *)
(***************************************************************************)
EXTENDS OrderProofs

\* With one worker the predicates on an operator's handlers are about one handler.
LEMMA WaitViews ==
  ASSUME Serial, NEW q \in QueueServers
  PROVE  /\ Waiting(q) <=> lockOnQueue[q] = 1 \/ pc(q) = "set"
         /\ WaitPending(q) <=> \/ Wait(q) \in Enqueued(Echo)
                               \/ pc(Echo) \in {"wait", "insertWait"} /\ item(Echo) = Wait(q)
                               \/ Counted(q, WaitKey)
         /\ SignalPending(q) <=> \/ ToSignal(q)
                                 \/ Signal \in Enqueued(q)
                                 \/ pc(q) \in {"pop", "reset"}
BY OneWorker
   DEF Waiting, WaitPending, SignalPending, InHandler, At, Arg, Counted, ToSignal, pc, item, turn

LEMMA WaitViewsNext ==
  ASSUME Serial, NEW q \in QueueServers
  PROVE  /\ Waiting(q)' <=> lockOnQueue'[q] = 1 \/ frame'[q][Worker].pc = "set"
         /\ WaitPending(q)' <=> \/ Wait(q) \in Enqueued(Echo)'
                                \/ /\ frame'[Echo][Worker].pc \in {"wait", "insertWait"}
                                   /\ frame'[Echo][Worker].item = Wait(q)
                                \/ Counted(q, WaitKey)'
         /\ SignalPending(q)' <=> \/ ToSignal(q)'
                                  \/ Signal \in Enqueued(q)'
                                  \/ frame'[q][Worker].pc \in {"pop", "reset"}
BY OneWorker
   DEF Waiting, WaitPending, SignalPending, InHandler, At, Arg, Counted, ToSignal, pc, item, turn

LEMMA RankTyped ==
  ASSUME TypeOK
  PROVE  /\ \A q \in QueueServers : Rank(Wait(q)) = MaxRequests + 1
         /\ \A d \in StampedRequests : Rank(Request(d)) = d.buffer /\ d.buffer \in 1 .. MaxRequests
         /\ \A it \in StampedItems \cup WaitItems : Rank(it) \in Nat /\ Rank(it) <= MaxRequests + 1
         /\ \A i \in DOMAIN inbox[Echo] : inbox[Echo][i] \in StampedItems \cup WaitItems
<1>1. \A i \in DOMAIN inbox[Echo] : inbox[Echo][i] \in StampedItems \cup WaitItems
  BY InboxTyped, Constants DEF InboxItems, Echo, Primary
<1>2. \A d \in StampedRequests : d.buffer \in 1 .. MaxRequests
  BY DEF StampedRequests, Texts
<1>3. \A d \in StampedRequests : Rank(Request(d)) = d.buffer
  BY DEF Rank, Request
<1>4. \A q : Rank(Wait(q)) = MaxRequests + 1
  BY DEF Rank, Wait
<1>5. \A it \in StampedItems : it.port = "in" /\ it.data \in StampedRequests
  BY DEF StampedItems
<1>6. \A it \in WaitItems : it.port = "ewait"
  BY DEF WaitItems
<1>7. \A it \in StampedItems \cup WaitItems : Rank(it) \in Nat /\ Rank(it) <= MaxRequests + 1
  BY <1>2, <1>5, <1>6, RequestsAssumption DEF Rank
<1> QED  BY <1>1, <1>2, <1>3, <1>4, <1>7

\* Whose item it is.
LEMMA Senders ==
  /\ \A p, q : FromServer(Wait(q), p) <=> p = q
  /\ \A d, p : FromServer(Request(d), p) <=> d.queueServerID = p
  /\ \A p, q : Wait(p) = Wait(q) <=> p = q
  /\ \A d, p : Request(d) # Wait(p)
  /\ \A d : Request(d) # Signal
BY DEF FromServer, Wait, Request, Signal

-----------------------------------------------------------------------------
(***************************************************************************)
(* Steps that concern no wait message and no signal of p.                  *)
(***************************************************************************)
Busy == {"state", "qwait", "set", "out", "pop", "reset"}

LEMMA WaitsKept ==
  ASSUME Serial, NEW p \in QueueServers, ServerWaits(p),
         frame'[Echo][Worker] = frame[Echo][Worker],
         lockOnQueue'[p] = lockOnQueue[p], Len(requestQueue'[p]) = Len(requestQueue[p]),
         UNCHANGED messageHash,
         \/ frame'[p][Worker].pc = pc(p) /\ frame'[p][Worker].item = item(p)
         \/ pc(p) \notin Busy /\ frame'[p][Worker].pc \notin Busy,
         \A i \in DOMAIN inbox'[Echo] : FromServer(inbox'[Echo][i], p) =>
           i \in DOMAIN inbox[Echo] /\ inbox'[Echo][i] = inbox[Echo][i],
         Wait(p) \in Enqueued(Echo)' <=> Wait(p) \in Enqueued(Echo),
         Signal \in Enqueued(p)' <=> Signal \in Enqueued(p),
         \A i, j \in DOMAIN inbox'[p] :
           inbox'[p][i] = Signal /\ inbox'[p][j] = Signal => i = j
  PROVE  ServerWaits(p)'
<1>1. /\ Counted(p, WaitKey)' <=> Counted(p, WaitKey)
      /\ ToSignal(p)' <=> ToSignal(p)
  BY DEF Counted, ToSignal, pc, turn
<1>2. /\ Waiting(p)' <=> Waiting(p)
      /\ WaitPending(p)' <=> WaitPending(p)
      /\ SignalPending(p)' <=> SignalPending(p)
  BY <1>1, WaitViews, WaitViewsNext DEF Busy, pc, item
<1>3. Outstanding(p)'
  BY <1>2 DEF ServerWaits, Outstanding
<1>4. WaitingIsFull(p)'
  BY <1>2 DEF ServerWaits, WaitingIsFull, Busy, pc
<1>5. EchoOrder(p)'
  BY <1>1 DEF ServerWaits, EchoOrder, Busy, pc, item
<1>6. HandEchoOrder(p)'
  BY <1>1 DEF ServerWaits, HandEchoOrder, Busy, pc, item
<1>7. OneSignal(p)'
  BY <1>1 DEF ServerWaits, OneSignal, Busy, pc
<1> QED  BY <1>3, <1>4, <1>5, <1>6, <1>7 DEF ServerWaits

LEMMA EndOfRoundKept ==
  ASSUME EndOfRound, frame'[Echo][Worker] = frame[Echo][Worker], UNCHANGED messageHash
  PROVE  EndOfRound'
BY DEF EndOfRound, pc, turn

\* A step of q leaves the waiting of the other queue servers alone.
LEMMA WaitsOthers ==
  ASSUME Serial, TypeOK, WaitInv, NEW q \in QueueServers, OnlyMoves(q),
         UNCHANGED messageHash,
         \A p \in QueueServers : p # q => lockOnQueue'[p] = lockOnQueue[p],
         \A p \in QueueServers : p # q => requestQueue'[p] = requestQueue[p],
         \/ inbox'[Echo] = inbox[Echo]
         \/ \E it : Sent(Echo, it) /\ \A p \in QueueServers : p # q => ~FromServer(it, p),
         \A p \in QueueServers : p # q =>
           inbox'[p] = inbox[p] \/ \E d : Sent(p, Request(d)),
         ServerWaits(q)'
  PROVE  WaitInv'
<1>1. frame'[Echo][Worker] = frame[Echo][Worker]
  BY Constants DEF OnlyMoves
<1>2. ASSUME NEW p \in QueueServers, p # q PROVE ServerWaits(p)'
  <2>1. frame'[p][Worker] = frame[p][Worker]
    BY <1>2, Constants DEF OnlyMoves
  <2>2. \A i \in DOMAIN inbox'[Echo] : FromServer(inbox'[Echo][i], p) =>
          i \in DOMAIN inbox[Echo] /\ inbox'[Echo][i] = inbox[Echo][i]
    BY <1>2 DEF Sent
  <2>3. Wait(p) \in Enqueued(Echo)' <=> Wait(p) \in Enqueued(Echo)
    BY <1>2, Senders DEF Sent, Enqueued
  <2>4. Signal \in Enqueued(p)' <=> Signal \in Enqueued(p)
    BY <1>2, Senders DEF Sent, Enqueued
  <2>5. \A i, j \in DOMAIN inbox'[p] :
          inbox'[p][i] = Signal /\ inbox'[p][j] = Signal => i = j
    BY <1>2, Senders DEF Sent, WaitInv, ServerWaits, OneSignal
  <2>6. ServerWaits(p)
    BY DEF WaitInv
  <2> QED
    BY <1>1, <1>2, <2>1, <2>2, <2>3, <2>4, <2>5, <2>6, WaitsKept DEF pc, item
<1> QED  BY <1>1, <1>2, EndOfRoundKept DEF WaitInv

-----------------------------------------------------------------------------
(***************************************************************************)
(* The network device and the queue servers.                               *)
(***************************************************************************)
LEMMA WaitArrive ==
  ASSUME Serial, TypeOK, WaitInv, Arrive
  PROVE  WaitInv'
<1>1. /\ \E d : Sent(Primary, Request(d))
      /\ UNCHANGED <<frame, requestQueue, lockOnQueue, messageHash>>
  BY ArriveView
<1>2. inbox'[Echo] = inbox[Echo]
  BY <1>1, Constants DEF Sent
<1>3. ASSUME NEW p \in QueueServers PROVE ServerWaits(p)'
  <2>1. inbox'[p] = inbox[p] \/ \E d : Sent(p, Request(d))
    BY <1>1, Constants DEF Sent
  <2>2. Signal \in Enqueued(p)' <=> Signal \in Enqueued(p)
    BY <2>1, Senders DEF Sent, Enqueued
  <2>3. \A i, j \in DOMAIN inbox'[p] :
          inbox'[p][i] = Signal /\ inbox'[p][j] = Signal => i = j
    BY <2>1, Senders DEF Sent, WaitInv, ServerWaits, OneSignal
  <2>4. Wait(p) \in Enqueued(Echo)' <=> Wait(p) \in Enqueued(Echo)
    BY <1>2 DEF Enqueued
  <2>5. ServerWaits(p)
    BY DEF WaitInv
  <2> QED  BY <1>1, <1>2, <2>2, <2>3, <2>4, <2>5, WaitsKept DEF pc, item
<1> QED  BY <1>1, <1>3, EndOfRoundKept DEF WaitInv

\* The handler of q goes on without a wait message, a signal or a copy.
LEMMA WaitsQuietStep ==
  ASSUME Serial, TypeOK, WaitInv, NEW q \in QueueServers, OnlyMoves(q),
         UNCHANGED <<requestQueue, lockOnQueue, messageHash>>,
         pc(q) \notin Busy, frame'[q][Worker].pc \notin Busy,
         \/ UNCHANGED inbox
         \/ \E r \in Replicas : \E d : r # q /\ Sent(r, Request(d))
  PROVE  WaitInv'
<1>1. frame'[Echo][Worker] = frame[Echo][Worker]
  BY Constants DEF OnlyMoves
<1>2. inbox'[Echo] = inbox[Echo] /\ inbox'[q] = inbox[q]
  BY Constants DEF Sent
<1>3. ServerWaits(q)'
  <2>1. ServerWaits(q)
    BY DEF WaitInv
  <2>2. \A i, j \in DOMAIN inbox[q] : inbox[q][i] = Signal /\ inbox[q][j] = Signal => i = j
    BY <2>1 DEF ServerWaits, OneSignal
  <2>3. /\ Wait(q) \in Enqueued(Echo)' <=> Wait(q) \in Enqueued(Echo)
        /\ Signal \in Enqueued(q)' <=> Signal \in Enqueued(q)
    BY <1>2 DEF Enqueued
  <2> QED  BY <1>1, <1>2, <2>1, <2>2, <2>3, WaitsKept
<1>4. \A p \in QueueServers : p # q => inbox'[p] = inbox[p] \/ \E d : Sent(p, Request(d))
  BY Constants DEF Sent
<1> QED  BY <1>2, <1>3, <1>4, WaitsOthers

LEMMA WaitVerifySignature ==
  ASSUME Serial, TypeOK, WaitInv, NEW w \in Workers, VerifySignature(w), UNCHANGED messageHash
  PROVE  WaitInv'
BY VerifySignatureView, WaitsQuietStep, Constants DEF Busy

LEMMA WaitForward ==
  ASSUME Serial, TypeOK, WaitInv, NEW w \in Workers, Forward(w), UNCHANGED messageHash
  PROVE  WaitInv'
<1>1. /\ pc(Primary) = "out_repl" /\ OnlyMoves(Primary)
      /\ UNCHANGED <<requestQueue, lockOnQueue>>
      /\ frame'[Primary][Worker].pc \in {"out_repl", "size"}
      /\ \E r \in Replicas : \E d : Sent(r, Request(d))
  BY ForwardView
<1> QED  BY <1>1, WaitsQuietStep, Constants DEF Busy

LEMMA WaitVerifyMac ==
  ASSUME Serial, TypeOK, WaitInv, NEW r \in QueueServers, r # Primary, NEW w \in Workers,
         VerifyMac(r, w), UNCHANGED messageHash
  PROVE  WaitInv'
BY VerifyMacView, WaitsQuietStep DEF Busy

\* A full log holds exactly MAX_QUEUE_SIZE requests.
LEMMA WaitCheckSize ==
  ASSUME Serial, TypeOK, LogsInv, WaitInv, NEW q \in QueueServers, NEW w \in Workers,
         CheckSize(q, w), UNCHANGED messageHash
  PROVE  WaitInv'
<1>1. /\ pc(q) = "size" /\ UNCHANGED <<inbox, requestQueue, lockOnQueue>>
      /\ OnlyMoves(q) /\ frame'[q][Worker].pc \in {"state", "push"}
      /\ frame'[q][Worker].pc = "state" => Len(requestQueue[q]) >= MAX_QUEUE_SIZE
  BY CheckSizeView DEF GoesTo
<1>2. CASE frame'[q][Worker].pc = "push"
  BY <1>1, <1>2, WaitsQuietStep DEF Busy
<1>3. CASE frame'[q][Worker].pc = "state"
  <2>1. Len(requestQueue[q]) = MAX_QUEUE_SIZE
    <3>1. Len(requestQueue[q]) \in Nat
      BY DEF TypeOK, QueueOK
    <3> QED  BY <1>1, <1>3, <3>1, QueueServerAssumption DEF LogsInv, LogFits
  <2>2. ServerWaits(q) /\ frame'[Echo][Worker] = frame[Echo][Worker]
    BY <1>1, Constants DEF WaitInv, OnlyMoves
  <2>3. /\ Counted(q, WaitKey)' <=> Counted(q, WaitKey)
        /\ ToSignal(q)' <=> ToSignal(q)
        /\ Enqueued(q)' = Enqueued(q) /\ Enqueued(Echo)' = Enqueued(Echo)
    BY <1>1, <2>2 DEF Counted, ToSignal, Enqueued, pc, turn
  <2>4. /\ Waiting(q)' <=> Waiting(q)
        /\ WaitPending(q)' <=> WaitPending(q)
        /\ SignalPending(q)' <=> SignalPending(q)
    BY <1>1, <1>3, <2>2, <2>3, WaitViews, WaitViewsNext DEF pc, item
  <2>5. Outstanding(q)'
    BY <2>2, <2>4 DEF ServerWaits, Outstanding
  <2>6. WaitingIsFull(q)'
    BY <1>1, <1>3, <2>1, <2>4 DEF WaitingIsFull, pc
  <2>7. EchoOrder(q)' /\ HandEchoOrder(q)'
    BY <1>1, <1>3, <2>2, <2>3 DEF ServerWaits, EchoOrder, HandEchoOrder, pc, item
  <2>8. OneSignal(q)'
    BY <1>1, <1>3, <2>2, <2>3 DEF ServerWaits, OneSignal, pc
  <2>9. ServerWaits(q)'
    BY <2>5, <2>6, <2>7, <2>8 DEF ServerWaits
  <2> QED  BY <1>1, <2>9, WaitsOthers
<1> QED  BY <1>1, <1>2, <1>3

LEMMA WaitCheckLock ==
  ASSUME Serial, TypeOK, WaitInv, NEW q \in QueueServers, NEW w \in Workers,
         CheckLock(q, w), UNCHANGED messageHash
  PROVE  WaitInv'
<1>1. /\ pc(q) = "state" /\ UNCHANGED <<inbox, requestQueue, lockOnQueue>>
      /\ OnlyMoves(q) /\ frame'[q][Worker].pc \in {"qwait", "idle"}
      /\ frame'[q][Worker].pc = "qwait" => lockOnQueue[q] = 0
  BY CheckLockView DEF GoesTo, Returns
<1>2. ServerWaits(q) /\ frame'[Echo][Worker] = frame[Echo][Worker]
  BY <1>1, Constants DEF WaitInv, OnlyMoves
<1>3. /\ Counted(q, WaitKey)' <=> Counted(q, WaitKey)
      /\ ToSignal(q)' <=> ToSignal(q)
      /\ Enqueued(q)' = Enqueued(q) /\ Enqueued(Echo)' = Enqueued(Echo)
  BY <1>1, <1>2 DEF Counted, ToSignal, Enqueued, pc, turn
<1>4. /\ Waiting(q)' <=> Waiting(q)
      /\ WaitPending(q)' <=> WaitPending(q)
      /\ SignalPending(q)' <=> SignalPending(q)
  BY <1>1, <1>2, <1>3, WaitViews, WaitViewsNext DEF pc, item
<1>5. Outstanding(q)'
  BY <1>2, <1>4 DEF ServerWaits, Outstanding
<1>6. frame'[q][Worker].pc = "qwait" => ~Waiting(q)
  BY <1>1, WaitViews
<1>7. WaitingIsFull(q)'
  BY <1>1, <1>2, <1>4, <1>6 DEF ServerWaits, WaitingIsFull, pc
<1>8. EchoOrder(q)' /\ HandEchoOrder(q)'
  BY <1>1, <1>2, <1>3 DEF ServerWaits, EchoOrder, HandEchoOrder, pc, item
<1>9. OneSignal(q)'
  BY <1>1, <1>2, <1>3 DEF ServerWaits, OneSignal, pc
<1>10. ServerWaits(q)'
  BY <1>5, <1>7, <1>8, <1>9 DEF ServerWaits
<1> QED  BY <1>1, <1>10, WaitsOthers

\* The wait message is behind every copy that q has sent.
LEMMA WaitSendWait ==
  ASSUME Serial, TypeOK, WaitInv, NEW q \in QueueServers, NEW w \in Workers,
         SendWait(q, w), UNCHANGED messageHash
  PROVE  WaitInv'
<1>1. /\ pc(q) = "qwait" /\ UNCHANGED <<requestQueue, lockOnQueue>>
      /\ OnlyMoves(q) /\ frame'[q][Worker].pc = "set"
      /\ Sent(Echo, Wait(q))
  BY SendWaitView DEF GoesTo
<1>2. PICK n : n = Len(inbox[Echo]) + 1
  OBVIOUS
<1>3. /\ DOMAIN inbox'[Echo] = DOMAIN inbox[Echo] \cup {n}
      /\ \A i \in DOMAIN inbox[Echo] : inbox'[Echo][i] = inbox[Echo][i]
      /\ inbox'[Echo][n] = Wait(q)
      /\ \A p \in QueueServers : inbox'[p] = inbox[p]
  BY <1>1, <1>2, Constants DEF Sent
<1>4. n \in Nat /\ \A i \in DOMAIN inbox[Echo] : i \in Nat /\ i < n
  BY <1>2, InboxTyped, Constants
<1>5. ServerWaits(q) /\ frame'[Echo][Worker] = frame[Echo][Worker]
  BY <1>1, Constants DEF WaitInv, OnlyMoves
<1>6. ~Waiting(q) /\ ~WaitPending(q) /\ ~SignalPending(q) /\ Len(requestQueue[q]) = MAX_QUEUE_SIZE
  BY <1>1, <1>5 DEF ServerWaits, WaitingIsFull, Outstanding
<1>7. ~Counted(q, WaitKey) /\ ~(Counted(q, WaitKey)') /\ Wait(q) \notin Enqueued(Echo)
      /\ ~ToSignal(q) /\ ~(ToSignal(q)') /\ Signal \notin Enqueued(q) /\ Signal \notin Enqueued(q)'
      /\ ~(pc(Echo) \in {"wait", "insertWait"} /\ item(Echo) = Wait(q))
  BY <1>3, <1>5, <1>6, WaitViews DEF Counted, ToSignal, Enqueued, pc, turn
<1>8. Waiting(q)' /\ WaitPending(q)' /\ ~(SignalPending(q)')
  <2>1. Wait(q) \in Enqueued(Echo)'
    BY <1>3 DEF Enqueued
  <2> QED  BY <1>1, <1>7, <2>1, WaitViewsNext
<1>9. Outstanding(q)' /\ WaitingIsFull(q)'
  BY <1>1, <1>6, <1>8 DEF Outstanding, WaitingIsFull, pc
<1>10. \A i \in DOMAIN inbox[Echo] : FromServer(inbox[Echo][i], q) =>
         Rank(inbox[Echo][i]) < Rank(Wait(q))
  <2> SUFFICES ASSUME NEW i \in DOMAIN inbox[Echo], FromServer(inbox[Echo][i], q)
               PROVE  Rank(inbox[Echo][i]) < Rank(Wait(q))
    OBVIOUS
  <2>1. inbox[Echo][i] # Wait(q) /\ inbox[Echo][i].port = "in"
    BY <1>7 DEF Enqueued, FromServer
  <2>2. inbox[Echo][i] \in StampedItems
    BY <2>1, RankTyped DEF WaitItems
  <2>3. inbox[Echo][i].data \in StampedRequests
    BY <2>2 DEF StampedItems
  <2> QED  BY <2>1, <2>3, RankTyped, RequestsAssumption DEF Rank, StampedRequests, Texts
<1>11. pc(Echo) \in CountSteps /\ FromServer(item(Echo), q) => Rank(item(Echo)) < Rank(Wait(q))
  <2> SUFFICES ASSUME pc(Echo) \in CountSteps, FromServer(item(Echo), q)
               PROVE  Rank(item(Echo)) < Rank(Wait(q))
    OBVIOUS
  <2>1. pc(Echo) \in RequestSteps
    BY <1>7, EchoHands DEF CountSteps, FromServer, WaitSteps, Wait
  <2>2. item(Echo).port = "in" /\ item(Echo).data \in StampedRequests
    BY <2>1, EchoHands
  <2> QED  BY <2>2, RankTyped, RequestsAssumption DEF Rank, StampedRequests, Texts
<1>12. EchoOrder(q)'
  <2>1. ASSUME NEW i \in DOMAIN inbox'[Echo], FromServer(inbox'[Echo][i], q)
        PROVE  /\ \A j \in DOMAIN inbox'[Echo] :
                    i < j /\ FromServer(inbox'[Echo][j], q) =>
                      Rank(inbox'[Echo][i]) < Rank(inbox'[Echo][j])
               /\ pc(Echo) \in CountSteps /\ FromServer(item(Echo), q) =>
                    Rank(item(Echo)) < Rank(inbox'[Echo][i])
    <3>1. CASE i = n
      BY <1>3, <1>4, <1>11, <3>1
    <3>2. CASE i \in DOMAIN inbox[Echo]
      <4>1. inbox'[Echo][i] = inbox[Echo][i]
        BY <1>3, <3>2
      <4>2. ASSUME NEW j \in DOMAIN inbox'[Echo], i < j, FromServer(inbox'[Echo][j], q)
            PROVE  Rank(inbox[Echo][i]) < Rank(inbox'[Echo][j])
        <5>1. CASE j = n
          BY <1>3, <1>10, <2>1, <3>2, <4>1, <5>1
        <5>2. CASE j \in DOMAIN inbox[Echo]
          BY <1>3, <1>5, <2>1, <3>2, <4>1, <4>2, <5>2 DEF ServerWaits, EchoOrder
        <5> QED  BY <1>3, <5>1, <5>2
      <4> QED  BY <1>5, <2>1, <3>2, <4>1, <4>2 DEF ServerWaits, EchoOrder
    <3> QED  BY <1>3, <3>1, <3>2
  <2> QED  BY <1>1, <1>5, <1>7, <2>1 DEF EchoOrder, pc, item
<1>13. HandEchoOrder(q)' /\ OneSignal(q)'
  BY <1>1, <1>3, <1>5, <1>7
     DEF ServerWaits, HandEchoOrder, OneSignal, pc, item
<1>14. ServerWaits(q)'
  BY <1>9, <1>12, <1>13 DEF ServerWaits
<1> QED  BY <1>1, <1>3, <1>14, Senders, WaitsOthers

LEMMA WaitSetLock ==
  ASSUME Serial, TypeOK, WaitInv, NEW q \in QueueServers, NEW w \in Workers,
         SetLock(q, w), UNCHANGED messageHash
  PROVE  WaitInv'
<1>1. /\ pc(q) = "set" /\ UNCHANGED <<inbox, requestQueue>>
      /\ \A p \in QueueServers : lockOnQueue'[p] = IF p = q THEN 1 ELSE lockOnQueue[p]
      /\ OnlyMoves(q) /\ frame'[q][Worker].pc = "idle"
  BY SetLockView DEF Returns
<1>2. ServerWaits(q) /\ frame'[Echo][Worker] = frame[Echo][Worker]
  BY <1>1, Constants DEF WaitInv, OnlyMoves
<1>3. /\ Counted(q, WaitKey)' <=> Counted(q, WaitKey)
      /\ ToSignal(q)' <=> ToSignal(q)
      /\ Enqueued(q)' = Enqueued(q) /\ Enqueued(Echo)' = Enqueued(Echo)
  BY <1>1, <1>2 DEF Counted, ToSignal, Enqueued, pc, turn
<1>4. /\ Waiting(q)' /\ Waiting(q)
      /\ WaitPending(q)' <=> WaitPending(q)
      /\ SignalPending(q)' <=> SignalPending(q)
  BY <1>1, <1>2, <1>3, WaitViews, WaitViewsNext DEF pc, item
<1>5. Outstanding(q)'
  BY <1>2, <1>4 DEF ServerWaits, Outstanding
<1>6. WaitingIsFull(q)'
  BY <1>1, <1>2, <1>4 DEF ServerWaits, WaitingIsFull, pc
<1>7. EchoOrder(q)' /\ HandEchoOrder(q)'
  BY <1>1, <1>2, <1>3 DEF ServerWaits, EchoOrder, HandEchoOrder, pc, item
<1>8. OneSignal(q)'
  BY <1>1, <1>2, <1>3 DEF ServerWaits, OneSignal, pc
<1>9. ServerWaits(q)'
  BY <1>5, <1>6, <1>7, <1>8 DEF ServerWaits
<1> QED  BY <1>1, <1>9, WaitsOthers

\* A queue server that logs is not waiting, since its log is not full; the copy
\* in its hand is behind the copies it has sent.
LEMMA WaitPush ==
  ASSUME Serial, TypeOK, Provenance, LogsInv, OrderInv, WaitInv,
         NEW q \in QueueServers, NEW w \in Workers, Push(q, w), UNCHANGED messageHash
  PROVE  WaitInv'
<1>1. /\ pc(q) = "push" /\ UNCHANGED <<inbox, lockOnQueue>>
      /\ OnlyMoves(q) /\ frame'[q][Worker].pc = "out"
      /\ frame'[q][Worker].item = item(q) /\ item(q).data \in StampedRequests
      /\ \A p \in QueueServers : p # q => requestQueue'[p] = requestQueue[p]
  BY PushView DEF GoesTo, item
<1>2. ServerWaits(q) /\ frame'[Echo][Worker] = frame[Echo][Worker]
  BY <1>1, Constants DEF WaitInv, OnlyMoves
<1>3. /\ Counted(q, WaitKey)' <=> Counted(q, WaitKey)
      /\ ToSignal(q)' <=> ToSignal(q)
      /\ Enqueued(q)' = Enqueued(q) /\ Enqueued(Echo)' = Enqueued(Echo)
  BY <1>1, <1>2 DEF Counted, ToSignal, Enqueued, pc, turn
<1>4. ~Waiting(q)
  <2>1. Len(requestQueue[q]) < MAX_QUEUE_SIZE
    BY <1>1, OneWorker DEF LogsInv, LogReadsCurrent, At, pc
  <2>2. Len(requestQueue[q]) # MAX_QUEUE_SIZE
    BY <2>1, QueueServerAssumption DEF TypeOK, QueueOK
  <2> QED  BY <1>1, <1>2, <2>2 DEF ServerWaits, WaitingIsFull
<1>5. /\ Waiting(q)' <=> Waiting(q)
      /\ WaitPending(q)' <=> WaitPending(q)
      /\ SignalPending(q)' <=> SignalPending(q)
  BY <1>1, <1>2, <1>3, WaitViews, WaitViewsNext DEF pc, item
<1>6. ~WaitPending(q) /\ Outstanding(q)'
  BY <1>2, <1>4, <1>5 DEF ServerWaits, Outstanding
<1>7. WaitingIsFull(q)'
  BY <1>1, <1>4, <1>5 DEF WaitingIsFull, pc
<1>8. ASSUME NEW d \in StampedRequests, Recorded(logged, d), d.queueServerID = q
      PROVE  d.buffer < item(q).data.buffer
  <2> DEFINE e == <<d.queueServerID, d.buffer, d.messageID>>
  <2>1. e \in logged /\ e[1] = q /\ e[2] = d.buffer
    BY <1>8 DEF Recorded
  <2>2. BeforeHand(q, d.buffer)
    BY <2>1 DEF OrderInv, LoggedOrder
  <2> QED  BY <1>1, <2>2 DEF BeforeHand, TextSteps, StampSteps
<1>9. ASSUME NEW i \in DOMAIN inbox[Echo], FromServer(inbox[Echo][i], q)
      PROVE  Rank(inbox[Echo][i]) < item(q).data.buffer
  <2>1. inbox[Echo][i] # Wait(q) /\ inbox[Echo][i].port = "in"
    BY <1>6, <1>9, WaitViews DEF Enqueued, FromServer
  <2>2. inbox[Echo][i] \in StampedItems
    BY <2>1, RankTyped DEF WaitItems
  <2>3. inbox[Echo][i].data \in StampedRequests /\ inbox[Echo][i].data.queueServerID = q
    BY <1>9, <2>1, <2>2 DEF StampedItems, FromServer
  <2>4. Recorded(logged, inbox[Echo][i].data)
    BY <2>1, Constants DEF Provenance, ItemProvenance, Enqueued
  <2> QED  BY <1>8, <2>1, <2>3, <2>4 DEF Rank
<1>10. ASSUME pc(Echo) \in CountSteps, FromServer(item(Echo), q)
       PROVE  Rank(item(Echo)) < item(q).data.buffer
  <2>1. pc(Echo) \in RequestSteps
    BY <1>6, <1>10, WaitViews, EchoHands DEF CountSteps, FromServer, WaitSteps, Wait
  <2>2. /\ item(Echo).port = "in" /\ item(Echo).data \in StampedRequests
        /\ item(Echo).data.queueServerID = q
    BY <1>10, <2>1, EchoHands DEF FromServer, Wait
  <2>3. Recorded(logged, item(Echo).data)
    BY <2>1, EchoProvenance, OneWorker DEF Arg, item, pc
  <2> QED  BY <1>8, <2>2, <2>3 DEF Rank
<1>11. ~Counted(q, WaitKey)
  BY <1>6, WaitViews
<1>12. EchoOrder(q)' /\ HandEchoOrder(q)'
  BY <1>1, <1>2, <1>3, <1>9, <1>10, <1>11
     DEF ServerWaits, EchoOrder, HandEchoOrder, pc, item
<1>13. OneSignal(q)'
  BY <1>1, <1>2, <1>3 DEF ServerWaits, OneSignal, pc
<1>14. ServerWaits(q)'
  BY <1>6, <1>7, <1>12, <1>13 DEF ServerWaits
<1> QED  BY <1>1, <1>14, WaitsOthers

LEMMA WaitSendToEcho ==
  ASSUME Serial, TypeOK, Provenance, WaitInv, NEW q \in QueueServers, NEW w \in Workers,
         SendToEcho(q, w), UNCHANGED messageHash
  PROVE  WaitInv'
<1>0. PICK d \in StampedRequests, n \in Nat : d = item(q).data /\ n = Len(inbox[Echo]) + 1
  BY SendToEchoView
<1>1. /\ pc(q) = "out" /\ UNCHANGED <<requestQueue, lockOnQueue>>
      /\ OnlyMoves(q) /\ frame'[q][Worker].pc = "idle"
      /\ Sent(Echo, Request(d))
  BY <1>0, SendToEchoView DEF Returns
<1>2. /\ DOMAIN inbox'[Echo] = DOMAIN inbox[Echo] \cup {n}
      /\ \A i \in DOMAIN inbox[Echo] : inbox'[Echo][i] = inbox[Echo][i]
      /\ inbox'[Echo][n] = Request(d)
      /\ \A p \in QueueServers : inbox'[p] = inbox[p]
  BY <1>0, <1>1, Constants DEF Sent
<1>3. n \in Nat /\ \A i \in DOMAIN inbox[Echo] : i \in Nat /\ i < n
  BY <1>0, InboxTyped, Constants
<1>4. ServerWaits(q) /\ frame'[Echo][Worker] = frame[Echo][Worker]
  BY <1>1, Constants DEF WaitInv, OnlyMoves
<1>5. d.queueServerID = q /\ Rank(Request(d)) = d.buffer
  <2>1. Accepted(q, Data(q, w))
    BY QueueProvenance, OneWorker DEF SendToEcho, At, LoggingSteps
  <2> QED  BY <1>0, <2>1, RankTyped, OneWorker DEF Accepted, Data, Arg, item
<1>6. ~Waiting(q) /\ ~WaitPending(q) /\ ~SignalPending(q)
  BY <1>1, <1>4 DEF ServerWaits, WaitingIsFull, Outstanding
<1>7. /\ Counted(q, WaitKey)' <=> Counted(q, WaitKey)
      /\ ToSignal(q)' <=> ToSignal(q)
      /\ Enqueued(q)' = Enqueued(q)
      /\ Wait(q) \in Enqueued(Echo)' <=> Wait(q) \in Enqueued(Echo)
  BY <1>1, <1>2, <1>4, Senders DEF Counted, ToSignal, Enqueued, pc, turn
<1>8. /\ Waiting(q)' <=> Waiting(q)
      /\ WaitPending(q)' <=> WaitPending(q)
      /\ SignalPending(q)' <=> SignalPending(q)
      /\ ~Counted(q, WaitKey)
  BY <1>1, <1>4, <1>6, <1>7, WaitViews, WaitViewsNext DEF pc, item
<1>9. Outstanding(q)' /\ WaitingIsFull(q)'
  BY <1>1, <1>6, <1>8 DEF Outstanding, WaitingIsFull, pc
<1>10. /\ \A i \in DOMAIN inbox[Echo] : FromServer(inbox[Echo][i], q) =>
            Rank(inbox[Echo][i]) < Rank(Request(d))
       /\ pc(Echo) \in CountSteps /\ FromServer(item(Echo), q) =>
            Rank(item(Echo)) < Rank(Request(d))
  BY <1>0, <1>1, <1>4, <1>5 DEF ServerWaits, EchoOrder, HandEchoOrder
<1>11. EchoOrder(q)'
  <2>1. ASSUME NEW i \in DOMAIN inbox'[Echo], FromServer(inbox'[Echo][i], q)
        PROVE  /\ \A j \in DOMAIN inbox'[Echo] :
                    i < j /\ FromServer(inbox'[Echo][j], q) =>
                      Rank(inbox'[Echo][i]) < Rank(inbox'[Echo][j])
               /\ pc(Echo) \in CountSteps /\ FromServer(item(Echo), q) =>
                    Rank(item(Echo)) < Rank(inbox'[Echo][i])
    <3>1. CASE i = n
      BY <1>2, <1>3, <1>10, <3>1
    <3>2. CASE i \in DOMAIN inbox[Echo]
      <4>1. inbox'[Echo][i] = inbox[Echo][i]
        BY <1>2, <3>2
      <4>2. ASSUME NEW j \in DOMAIN inbox'[Echo], i < j, FromServer(inbox'[Echo][j], q)
            PROVE  Rank(inbox[Echo][i]) < Rank(inbox'[Echo][j])
        <5>1. CASE j = n
          BY <1>2, <1>10, <2>1, <3>2, <4>1, <5>1
        <5>2. CASE j \in DOMAIN inbox[Echo]
          BY <1>2, <1>4, <2>1, <3>2, <4>1, <4>2, <5>2 DEF ServerWaits, EchoOrder
        <5> QED  BY <1>2, <5>1, <5>2
      <4> QED  BY <1>4, <2>1, <3>2, <4>1, <4>2 DEF ServerWaits, EchoOrder
    <3> QED  BY <1>2, <3>1, <3>2
  <2> QED  BY <1>1, <1>4, <1>7, <1>8, <2>1 DEF EchoOrder, pc, item
<1>12. HandEchoOrder(q)' /\ OneSignal(q)'
  BY <1>1, <1>2, <1>4, <1>7 DEF ServerWaits, HandEchoOrder, OneSignal, pc, item
<1>13. ServerWaits(q)'
  BY <1>9, <1>11, <1>12 DEF ServerWaits
<1> QED  BY <1>1, <1>2, <1>5, <1>13, Senders, WaitsOthers

LEMMA WaitPopAll ==
  ASSUME Serial, TypeOK, WaitInv, NEW q \in QueueServers, NEW w \in Workers,
         PopAll(q, w), UNCHANGED messageHash
  PROVE  WaitInv'
<1>1. /\ pc(q) = "pop" /\ UNCHANGED <<inbox, lockOnQueue>>
      /\ \A p \in QueueServers : p # q => requestQueue'[p] = requestQueue[p]
      /\ OnlyMoves(q) /\ frame'[q][Worker].pc = "reset"
  BY PopAllView DEF GoesTo
<1>2. ServerWaits(q) /\ frame'[Echo][Worker] = frame[Echo][Worker]
  BY <1>1, Constants DEF WaitInv, OnlyMoves
<1>3. /\ Counted(q, WaitKey)' <=> Counted(q, WaitKey)
      /\ ToSignal(q)' <=> ToSignal(q)
      /\ Enqueued(q)' = Enqueued(q) /\ Enqueued(Echo)' = Enqueued(Echo)
  BY <1>1, <1>2 DEF Counted, ToSignal, Enqueued, pc, turn
<1>4. /\ Waiting(q)' <=> Waiting(q)
      /\ WaitPending(q)' <=> WaitPending(q)
      /\ SignalPending(q)' <=> SignalPending(q)
  BY <1>1, <1>2, <1>3, WaitViews, WaitViewsNext DEF pc, item
<1>5. Outstanding(q)' /\ WaitingIsFull(q)'
  BY <1>1, <1>2, <1>4 DEF ServerWaits, Outstanding, WaitingIsFull, pc
<1>6. EchoOrder(q)' /\ HandEchoOrder(q)'
  BY <1>1, <1>2, <1>3 DEF ServerWaits, EchoOrder, HandEchoOrder, pc, item
<1>7. OneSignal(q)'
  BY <1>1, <1>2, <1>3 DEF ServerWaits, OneSignal, pc
<1>8. ServerWaits(q)'
  BY <1>5, <1>6, <1>7 DEF ServerWaits
<1> QED  BY <1>1, <1>8, WaitsOthers

\* When the lock is reset neither a wait message nor a signal is left.
LEMMA WaitResetLock ==
  ASSUME Serial, TypeOK, WaitInv, NEW q \in QueueServers, NEW w \in Workers,
         ResetLock(q, w), UNCHANGED messageHash
  PROVE  WaitInv'
<1>1. /\ pc(q) = "reset" /\ UNCHANGED <<inbox, requestQueue>>
      /\ \A p \in QueueServers : lockOnQueue'[p] = IF p = q THEN 0 ELSE lockOnQueue[p]
      /\ OnlyMoves(q) /\ frame'[q][Worker].pc = "idle"
  BY ResetLockView DEF Returns
<1>2. ServerWaits(q) /\ frame'[Echo][Worker] = frame[Echo][Worker]
  BY <1>1, Constants DEF WaitInv, OnlyMoves
<1>3. /\ Counted(q, WaitKey)' <=> Counted(q, WaitKey)
      /\ ToSignal(q)' <=> ToSignal(q)
      /\ Enqueued(q)' = Enqueued(q) /\ Enqueued(Echo)' = Enqueued(Echo)
  BY <1>1, <1>2 DEF Counted, ToSignal, Enqueued, pc, turn
<1>4. ~(Waiting(q)') /\ ~(WaitPending(q)') /\ ~(SignalPending(q)')
  <2>1. SignalPending(q) /\ ~ToSignal(q) /\ Signal \notin Enqueued(q)
    BY <1>1, <1>2, WaitViews DEF ServerWaits, OneSignal
  <2>2. ~WaitPending(q)
    BY <1>2, <2>1 DEF ServerWaits, Outstanding
  <2> QED  BY <1>1, <1>2, <1>3, <2>1, <2>2, WaitViews, WaitViewsNext DEF pc, item
<1>5. Outstanding(q)' /\ WaitingIsFull(q)'
  BY <1>1, <1>4 DEF Outstanding, WaitingIsFull, pc
<1>6. EchoOrder(q)' /\ HandEchoOrder(q)'
  BY <1>1, <1>2, <1>3 DEF ServerWaits, EchoOrder, HandEchoOrder, pc, item
<1>7. OneSignal(q)'
  BY <1>1, <1>2, <1>3 DEF ServerWaits, OneSignal, pc
<1>8. ServerWaits(q)'
  BY <1>5, <1>6, <1>7 DEF ServerWaits
<1> QED  BY <1>1, <1>8, WaitsOthers

\* A queue server starts the handler of a request or of the signal.
LEMMA WaitDispatch ==
  ASSUME Serial, TypeOK, WaitInv, NEW q \in QueueServers, NEW w \in Workers,
         Dispatch(q, w), UNCHANGED <<requestQueue, lockOnQueue, messageHash>>
  PROVE  WaitInv'
<1>1. /\ OnlyMoves(q) /\ Taken(q) /\ pc(q) = "idle"
      /\ inbox[q][1] \in InboxItems(q)
      /\ inbox[q][1].port = "in" => frame'[q][Worker].pc = "start"
      /\ inbox[q][1].port = "qsignal" => frame'[q][Worker].pc = "pop"
  BY DispatchView, Constants
<1>2. /\ \A p \in Operators : p # q => inbox'[p] = inbox[p]
      /\ 1 \in DOMAIN inbox[q]
      /\ \A i \in DOMAIN inbox'[q] : /\ i + 1 \in DOMAIN inbox[q] /\ i \in Nat /\ i + 1 # 1
                                     /\ inbox'[q][i] = inbox[q][i + 1]
      /\ \A i \in DOMAIN inbox[q] : i = 1 \/ i - 1 \in DOMAIN inbox'[q]
      /\ \A i \in DOMAIN inbox[q] : i \in Nat
  BY <1>1, InboxTyped, Constants DEF Taken
<1>3. ServerWaits(q) /\ frame'[Echo][Worker] = frame[Echo][Worker] /\ inbox'[Echo] = inbox[Echo]
  BY <1>1, <1>2, Constants DEF WaitInv, OnlyMoves
<1>4. \A i, j \in DOMAIN inbox'[q] : inbox'[q][i] = Signal /\ inbox'[q][j] = Signal => i = j
  <2> SUFFICES ASSUME NEW i \in DOMAIN inbox'[q], NEW j \in DOMAIN inbox'[q],
                      inbox'[q][i] = Signal, inbox'[q][j] = Signal
               PROVE  i = j
    OBVIOUS
  <2>1. i + 1 = j + 1
    BY <1>2, <1>3 DEF ServerWaits, OneSignal
  <2> QED  BY <1>2, <2>1
<1>5. /\ Counted(q, WaitKey)' <=> Counted(q, WaitKey)
      /\ ToSignal(q)' <=> ToSignal(q)
      /\ Enqueued(Echo)' = Enqueued(Echo)
  BY <1>3 DEF Counted, ToSignal, Enqueued, pc, turn
<1>6. CASE inbox[q][1] # Signal
  <2>1. inbox[q][1].port = "in"
    BY <1>1, <1>6, Constants DEF InboxItems, SocketItems, StampedItems
  <2>2. Signal \in Enqueued(q)' <=> Signal \in Enqueued(q)
    <3>1. Signal \in Enqueued(q)' => Signal \in Enqueued(q)
      BY <1>2 DEF Enqueued
    <3>2. ASSUME NEW i \in DOMAIN inbox[q], inbox[q][i] = Signal
          PROVE  Signal \in Enqueued(q)'
      <4>1. i - 1 \in DOMAIN inbox'[q] /\ (i - 1) + 1 = i
        BY <1>2, <1>6, <3>2
      <4>2. inbox'[q][i - 1] = Signal
        BY <1>2, <3>2, <4>1
      <4> QED  BY <4>1, <4>2 DEF Enqueued
    <3> QED  BY <3>1, <3>2 DEF Enqueued
  <2>3. ServerWaits(q)'
    BY <1>1, <1>3, <1>4, <1>5, <2>1, <2>2, WaitsKept DEF Busy
  <2> QED  BY <1>1, <1>2, <1>3, <2>3, WaitsOthers, Constants
<1>7. CASE inbox[q][1] = Signal
  <2>1. frame'[q][Worker].pc = "pop"
    BY <1>1, <1>7 DEF Signal
  <2>2. Signal \in Enqueued(q) /\ Signal \notin Enqueued(q)'
    BY <1>2, <1>3, <1>7 DEF Enqueued, ServerWaits, OneSignal
  <2>3. ~ToSignal(q) /\ SignalPending(q) /\ ~WaitPending(q) /\ Waiting(q) /\ lockOnQueue[q] = 1
    BY <1>1, <1>3, <2>2, WaitViews DEF ServerWaits, OneSignal, Outstanding
  <2>4. Waiting(q)' /\ SignalPending(q)' /\ ~(WaitPending(q)')
    BY <1>3, <1>5, <2>1, <2>3, WaitViews, WaitViewsNext DEF pc, item
  <2>5. Outstanding(q)'
    BY <2>4 DEF Outstanding
  <2>6. WaitingIsFull(q)'
    BY <1>1, <1>3, <2>1, <2>3 DEF ServerWaits, WaitingIsFull, pc
  <2>7. EchoOrder(q)' /\ HandEchoOrder(q)'
    BY <1>3, <1>5, <2>1 DEF ServerWaits, EchoOrder, HandEchoOrder, pc, item
  <2>8. OneSignal(q)'
    BY <1>4, <1>5, <2>2, <2>3 DEF OneSignal
  <2>9. ServerWaits(q)'
    BY <2>5, <2>6, <2>7, <2>8 DEF ServerWaits
  <2> QED  BY <1>1, <1>2, <1>3, <2>9, WaitsOthers, Constants
<1> QED  BY <1>6, <1>7

-----------------------------------------------------------------------------
(***************************************************************************)
(* The count.                                                              *)
(***************************************************************************)
LEMMA CountTouched ==
  ASSUME NEW k, messageHash' = Touch(messageHash, k), NEW q, NEW key
  PROVE  Counted(q, key)' <=> Counted(q, key)
BY DEF Counted, checkIfPresent, Touch

LEMMA CountInserted ==
  ASSUME TypeOK, NEW k, NEW s \in QueueServers,
         messageHash' = insertMsgHash(messageHash, k, s), NEW q, NEW key
  PROVE  Counted(q, key)' <=> Counted(q, key) \/ (key = k /\ q = s)
<1> DEFINE seen == IF k \in DOMAIN messageHash /\ messageHash[k] # Null
                   THEN messageHash[k] ELSE {}
<1>1. seen \in SUBSET QueueServers
  BY DEF TypeOK, EchoOK, HashOK
<1>2. seen \cup {s} \in SUBSET QueueServers /\ seen \cup {s} # Null
  BY <1>1, RequestCountAssumption
<1>3. k \in DOMAIN messageHash /\ messageHash[k] # Null => seen = messageHash[k]
  OBVIOUS
<1>4. ~(k \in DOMAIN messageHash /\ messageHash[k] # Null) => seen = {}
  OBVIOUS
<1>5. messageHash' = [Touch(messageHash, k) EXCEPT ![k] = seen \cup {s}]
  BY DEF insertMsgHash
<1> HIDE DEF seen
<1>6. /\ DOMAIN messageHash' = DOMAIN messageHash \cup {k}
      /\ messageHash'[k] = seen \cup {s}
      /\ \A j \in DOMAIN messageHash : j # k => messageHash'[j] = messageHash[j]
  BY <1>5 DEF Touch
<1> QED  BY <1>2, <1>3, <1>4, <1>6 DEF Counted, checkIfPresent

LEMMA InsertDomain ==
  ASSUME NEW k, NEW s, messageHash' = insertMsgHash(messageHash, k, s)
  PROVE  DOMAIN messageHash' = DOMAIN messageHash \cup {k}
BY DEF insertMsgHash, Touch

\* Messages are not counted under the key of the wait messages.
LEMMA KeysDiffer ==
  ASSUME Serial, TypeOK, pc(Echo) \in RequestSteps
  PROVE  EchoID # WaitKey /\ From \in QueueServers /\ EchoID \in MessageIDs
<1>1. item(Echo).data \in StampedRequests
  BY EchoHands
<1>2. EchoID \in MessageIDs
  BY <1>1, MessageIDTyped DEF EchoID
<1>3. From \in QueueServers
  BY <1>1 DEF From, StampedRequests
<1>4. WaitKey \notin MessageIDs
  BY DEF WaitKey, MessageIDs
<1> QED  BY <1>2, <1>3, <1>4

LEMMA CountReset ==
  ASSUME messageHash' = EmptyHash, NEW q, NEW key
  PROVE  ~(Counted(q, key)')
BY DEF Counted, checkIfPresent, EmptyHash

-----------------------------------------------------------------------------
(***************************************************************************)
(* The echo server: steps at which no wait message, no signal and no item  *)
(* is taken, counted or sent.                                              *)
(***************************************************************************)
LEMMA WaitsEchoStep ==
  ASSUME Serial, TypeOK, WaitInv, OnlyMoves(Echo),
         UNCHANGED <<inbox, requestQueue, lockOnQueue>>,
         \A q \in QueueServers : Counted(q, WaitKey)' <=> Counted(q, WaitKey),
         pc(Echo) # "esignal", frame'[Echo][Worker].pc # "esignal",
         frame'[Echo][Worker].pc \in CountSteps =>
           pc(Echo) \in CountSteps /\ frame'[Echo][Worker].item = item(Echo),
         \A q \in QueueServers :
           (frame'[Echo][Worker].pc \in {"wait", "insertWait"}
              /\ frame'[Echo][Worker].item = Wait(q))
             <=> (pc(Echo) \in {"wait", "insertWait"} /\ item(Echo) = Wait(q)),
         EndOfRound'
  PROVE  WaitInv'
<1> SUFFICES ASSUME NEW q \in QueueServers PROVE ServerWaits(q)'
  BY DEF WaitInv
<1>1. frame'[q][Worker] = frame[q][Worker] /\ ServerWaits(q)
  BY Constants DEF OnlyMoves, WaitInv
<1>2. /\ ~ToSignal(q) /\ ~(ToSignal(q)')
      /\ Enqueued(q)' = Enqueued(q) /\ Enqueued(Echo)' = Enqueued(Echo)
  BY DEF ToSignal, Enqueued, pc
<1>3. /\ Waiting(q)' <=> Waiting(q)
      /\ WaitPending(q)' <=> WaitPending(q)
      /\ SignalPending(q)' <=> SignalPending(q)
  BY <1>1, <1>2, WaitViews, WaitViewsNext DEF pc
<1>4. Outstanding(q)' /\ WaitingIsFull(q)'
  BY <1>1, <1>3 DEF ServerWaits, Outstanding, WaitingIsFull, pc
<1>5. EchoOrder(q)' /\ HandEchoOrder(q)'
  BY <1>1, <1>2 DEF ServerWaits, EchoOrder, HandEchoOrder, pc, item
<1>6. OneSignal(q)'
  BY <1>1, <1>2 DEF ServerWaits, OneSignal, pc
<1> QED  BY <1>4, <1>5, <1>6 DEF ServerWaits

LEMMA WaitEchoRequest ==
  ASSUME Serial, TypeOK, WaitInv, NEW w \in Workers,
         CheckRequest(w) \/ InsertRequest(w) \/ CheckReceived(w) \/ Reply(w),
         UNCHANGED queueVars
  PROVE  WaitInv'
<1>1. /\ pc(Echo) \in RequestSteps /\ OnlyMoves(Echo) /\ UNCHANGED inbox
      /\ frame'[Echo][Worker].pc \in RequestSteps \cup {"idle"}
      /\ frame'[Echo][Worker].pc \in RequestSteps => frame'[Echo][Worker].item = item(Echo)
      /\ \/ UNCHANGED messageHash
         \/ messageHash' = Touch(messageHash, EchoID)
         \/ messageHash' = insertMsgHash(messageHash, EchoID, From)
  <2>1. CASE CheckRequest(w)
    BY <2>1, CheckRequestView DEF GoesTo, RequestSteps, item
  <2>2. CASE InsertRequest(w)
    BY <2>2, InsertRequestView DEF GoesTo, RequestSteps, item
  <2>3. CASE CheckReceived(w)
    BY <2>3, CheckReceivedView DEF GoesTo, Returns, RequestSteps, item
  <2>4. CASE Reply(w)
    BY <2>4, ReplyView DEF Returns, RequestSteps
  <2> QED  BY <2>1, <2>2, <2>3, <2>4
<1>2. \A q \in QueueServers : Counted(q, WaitKey)' <=> Counted(q, WaitKey)
  <2>1. CASE UNCHANGED messageHash
    BY <2>1 DEF Counted
  <2>2. CASE messageHash' = Touch(messageHash, EchoID)
    BY <2>2, CountTouched
  <2>3. CASE messageHash' = insertMsgHash(messageHash, EchoID, From)
    BY <1>1, <2>3, CountInserted, KeysDiffer
  <2> QED  BY <1>1, <2>1, <2>2, <2>3
<1>3. EndOfRound'
  BY <1>1 DEF EndOfRound, RequestSteps, pc
<1>4. /\ pc(Echo) \notin {"wait", "insertWait", "esignal"} /\ pc(Echo) \in CountSteps
      /\ frame'[Echo][Worker].pc \notin {"wait", "insertWait", "esignal"}
      /\ frame'[Echo][Worker].pc \in CountSteps => frame'[Echo][Worker].item = item(Echo)
  BY <1>1 DEF RequestSteps, CountSteps
<1>5. UNCHANGED <<requestQueue, lockOnQueue>>
  BY DEF queueVars
<1> QED  BY <1>1, <1>2, <1>3, <1>4, <1>5, WaitsEchoStep

\* The first wait message of a queue server in a round has not been counted.
LEMMA WaitCheckWait ==
  ASSUME Serial, TypeOK, WaitInv, NEW w \in Workers, CheckWait(w), UNCHANGED queueVars
  PROVE  WaitInv'
<1>1. item(Echo) = Wait(item(Echo).server) /\ item(Echo).server \in QueueServers
  BY CheckWaitView, EchoHands DEF WaitSteps
<1>2. ~Counted(item(Echo).server, WaitKey)
  BY <1>1, CheckWaitView, Senders DEF WaitInv, ServerWaits, HandEchoOrder, CountSteps
<1>3. /\ pc(Echo) = "wait" /\ OnlyMoves(Echo) /\ UNCHANGED inbox
      /\ frame'[Echo][Worker].pc = "insertWait"
      /\ frame'[Echo][Worker].item = item(Echo) /\ frame'[Echo][Worker].k = turn
      /\ messageHash' = Touch(messageHash, WaitKey)
  BY <1>2, CheckWaitView DEF GoesTo, item, turn
<1>4. \A q \in QueueServers : Counted(q, WaitKey)' <=> Counted(q, WaitKey)
  BY <1>3, CountTouched
<1>5. EndOfRound'
  BY <1>3 DEF WaitInv, EndOfRound, pc, turn
<1>6. UNCHANGED <<requestQueue, lockOnQueue>>
  BY DEF queueVars
<1> QED  BY <1>3, <1>4, <1>5, <1>6, WaitsEchoStep DEF CountSteps

LEMMA WaitCheckProcessed ==
  ASSUME Serial, TypeOK, WaitInv, NEW w \in Workers, CheckProcessed(w), UNCHANGED queueVars
  PROVE  WaitInv'
<1>1. /\ pc(Echo) = "processed" /\ OnlyMoves(Echo) /\ UNCHANGED <<inbox, messageHash>>
      /\ frame'[Echo][Worker].pc \in {"resetHash", "idle"}
      /\ frame'[Echo][Worker].pc = "resetHash" =>
           frame'[Echo][Worker].k = turn /\ processedAllRequests(messageHash)
  BY CheckProcessedView DEF GoesTo, Returns, turn
<1>2. \A q \in QueueServers : Counted(q, WaitKey)' <=> Counted(q, WaitKey)
  BY <1>1 DEF Counted
<1>3. EndOfRound'
  BY <1>1 DEF WaitInv, EndOfRound, pc, turn
<1>4. UNCHANGED <<requestQueue, lockOnQueue>>
  BY DEF queueVars
<1> QED  BY <1>1, <1>2, <1>3, <1>4, WaitsEchoStep DEF CountSteps, RequestSteps

\* A wait message is counted when no copy of its sender is left to be handled.
LEMMA WaitInsertWait ==
  ASSUME Serial, TypeOK, WaitInv, NEW w \in Workers, InsertWait(w), UNCHANGED queueVars
  PROVE  WaitInv'
<1>0. PICK s \in QueueServers : item(Echo).server = s /\ item(Echo) = Wait(s)
  BY InsertWaitView, EchoHands DEF WaitSteps
<1>1. /\ pc(Echo) = "insertWait" /\ OnlyMoves(Echo) /\ UNCHANGED inbox
      /\ frame'[Echo][Worker].pc = "processed" /\ frame'[Echo][Worker].k = turn
      /\ messageHash' = insertMsgHash(messageHash, WaitKey, s)
      /\ UNCHANGED <<requestQueue, lockOnQueue>>
  BY <1>0, InsertWaitView DEF GoesTo, turn, queueVars
<1>2. EndOfRound'
  BY <1>1, InsertDomain DEF WaitInv, EndOfRound, pc, turn
<1>3. ASSUME NEW q \in QueueServers PROVE ServerWaits(q)'
  <2>1. frame'[q][Worker] = frame[q][Worker] /\ ServerWaits(q)
    BY <1>1, Constants DEF OnlyMoves, WaitInv
  <2>2. /\ ~ToSignal(q) /\ ~(ToSignal(q)')
        /\ Enqueued(q)' = Enqueued(q) /\ Enqueued(Echo)' = Enqueued(Echo)
    BY <1>1 DEF ToSignal, Enqueued, pc
  <2>3. Counted(q, WaitKey)' <=> Counted(q, WaitKey) \/ q = s
    BY <1>1, CountInserted
  <2>4. item(Echo) = Wait(q) <=> q = s
    BY <1>0, Senders
  <2>5. /\ Waiting(q)' <=> Waiting(q)
        /\ WaitPending(q)' <=> WaitPending(q)
        /\ SignalPending(q)' <=> SignalPending(q)
    BY <1>1, <2>1, <2>2, <2>3, <2>4, WaitViews, WaitViewsNext DEF pc
  <2>6. Outstanding(q)' /\ WaitingIsFull(q)'
    BY <1>1, <2>1, <2>5 DEF ServerWaits, Outstanding, WaitingIsFull, pc
  <2>7. \A i \in DOMAIN inbox[Echo] : ~FromServer(inbox[Echo][i], s)
    <3> SUFFICES ASSUME NEW i \in DOMAIN inbox[Echo], FromServer(inbox[Echo][i], s)
                 PROVE  FALSE
      OBVIOUS
    <3>1. Rank(item(Echo)) < Rank(inbox[Echo][i])
      BY <1>0, <1>1, Senders DEF WaitInv, ServerWaits, EchoOrder, CountSteps
    <3>2. Rank(item(Echo)) = MaxRequests + 1
      BY <1>0, RankTyped
    <3>3. Rank(inbox[Echo][i]) \in Nat /\ Rank(inbox[Echo][i]) <= MaxRequests + 1
      BY RankTyped
    <3> QED  BY <3>1, <3>2, <3>3, RequestsAssumption
  <2>8. EchoOrder(q)' /\ HandEchoOrder(q)'
    BY <1>1, <2>1, <2>3, <2>7
       DEF ServerWaits, EchoOrder, HandEchoOrder, CountSteps, RequestSteps, pc, item
  <2>9. OneSignal(q)'
    BY <1>1, <2>1, <2>2 DEF ServerWaits, OneSignal, pc
  <2> QED  BY <2>6, <2>8, <2>9 DEF ServerWaits
<1> QED  BY <1>2, <1>3 DEF WaitInv

LEMMA AllWaitsCounted ==
  ASSUME WaitInv, pc(Echo) = "resetHash", NEW q \in QueueServers
  PROVE  Counted(q, WaitKey)
BY DEF WaitInv, EndOfRound, processedAllRequests, receivedAllRequests, Counted

\* The count is emptied when every wait message has been counted.
LEMMA WaitResetHash ==
  ASSUME Serial, TypeOK, WaitInv, NEW w \in Workers, ResetHash(w), UNCHANGED queueVars
  PROVE  WaitInv'
<1>1. /\ pc(Echo) = "resetHash" /\ OnlyMoves(Echo) /\ UNCHANGED inbox
      /\ frame'[Echo][Worker].pc = "esignal" /\ frame'[Echo][Worker].k = turn
      /\ messageHash' = EmptyHash
      /\ UNCHANGED <<requestQueue, lockOnQueue>>
  BY ResetHashView DEF GoesTo, turn, queueVars
<1>2. EndOfRound' /\ turn = 0
  BY <1>1 DEF WaitInv, EndOfRound, pc, turn
<1>3. ASSUME NEW q \in QueueServers PROVE ServerWaits(q)'
  <2>1. frame'[q][Worker] = frame[q][Worker] /\ ServerWaits(q)
    BY <1>1, Constants DEF OnlyMoves, WaitInv
  <2>2. Counted(q, WaitKey)
    BY <1>1, AllWaitsCounted
  <2>3. /\ WaitPending(q) /\ ~SignalPending(q) /\ Waiting(q)
        /\ Signal \notin Enqueued(q) /\ pc(q) \notin {"pop", "reset"}
        /\ Wait(q) \notin Enqueued(Echo)
    BY <2>1, <2>2, WaitViews, Senders DEF ServerWaits, Outstanding, EchoOrder, Enqueued
  <2>4. ToSignal(q)'
    BY <1>1, <1>2, CommonAssumption DEF ToSignal, QueueServers, pc, turn
  <2>5. ~(Counted(q, WaitKey)')
    BY <1>1, CountReset
  <2>6. Enqueued(q)' = Enqueued(q) /\ Enqueued(Echo)' = Enqueued(Echo)
    BY <1>1 DEF Enqueued
  <2>7. Waiting(q)' /\ SignalPending(q)' /\ ~(WaitPending(q)')
    BY <1>1, <2>1, <2>3, <2>4, <2>5, <2>6, WaitViews, WaitViewsNext DEF pc
  <2>8. Outstanding(q)' /\ WaitingIsFull(q)'
    BY <1>1, <2>1, <2>3, <2>7 DEF ServerWaits, Outstanding, WaitingIsFull, pc
  <2>9. EchoOrder(q)' /\ HandEchoOrder(q)'
    BY <1>1, <2>1, <2>2
       DEF ServerWaits, EchoOrder, HandEchoOrder, CountSteps, RequestSteps, pc
  <2>10. OneSignal(q)'
    BY <1>1, <2>1, <2>3, <2>6 DEF ServerWaits, OneSignal, pc
  <2> QED  BY <2>8, <2>9, <2>10 DEF ServerWaits
<1> QED  BY <1>2, <1>3 DEF WaitInv

\* The signals go out one by one, each to a queue server that waits for it.
LEMMA WaitSendSignal ==
  ASSUME Serial, TypeOK, WaitInv, NEW w \in Workers, SendSignal(w), UNCHANGED queueVars
  PROVE  WaitInv'
<1>0. PICK s \in QueueServers, n \in Nat : s = turn /\ n = Len(inbox[s]) + 1
  BY SendSignalView
<1>1. /\ pc(Echo) = "esignal" /\ OnlyMoves(Echo) /\ UNCHANGED messageHash
      /\ Sent(s, Signal) /\ UNCHANGED <<requestQueue, lockOnQueue>>
      /\ \/ /\ s + 1 \in QueueServers
            /\ frame'[Echo][Worker].pc = "esignal" /\ frame'[Echo][Worker].k = s + 1
         \/ s + 1 \notin QueueServers /\ frame'[Echo][Worker].pc = "idle"
  BY <1>0, SendSignalView DEF queueVars
<1>2. /\ \A p \in Operators : p # s => inbox'[p] = inbox[p]
      /\ DOMAIN inbox'[s] = DOMAIN inbox[s] \cup {n}
      /\ \A i \in DOMAIN inbox[s] : inbox'[s][i] = inbox[s][i]
      /\ inbox'[s][n] = Signal
  BY <1>0, <1>1 DEF Sent
<1>3. inbox'[Echo] = inbox[Echo] /\ ToSignal(s)
  BY <1>0, <1>1, <1>2, Constants, CommonAssumption DEF ToSignal, QueueServers
<1>4. ASSUME NEW q \in QueueServers
      PROVE  ToSignal(q)' <=> ToSignal(q) /\ q # s
  BY <1>0, <1>1, CommonAssumption, SMTT(40) DEF ToSignal, QueueServers, pc, turn
<1>5. EndOfRound'
  BY <1>1 DEF EndOfRound, pc
<1>6. ASSUME NEW q \in QueueServers PROVE ServerWaits(q)'
  <2>1. frame'[q][Worker] = frame[q][Worker] /\ ServerWaits(q)
    BY <1>1, Constants DEF OnlyMoves, WaitInv
  <2>2. /\ Enqueued(Echo)' = Enqueued(Echo)
        /\ Counted(q, WaitKey)' <=> Counted(q, WaitKey)
    BY <1>1, <1>3 DEF Enqueued, Counted
  <2>3. Signal \in Enqueued(q)' <=> Signal \in Enqueued(q) \/ q = s
    BY <1>2, Constants DEF Enqueued
  <2>4. /\ Waiting(q)' <=> Waiting(q)
        /\ WaitPending(q)' <=> WaitPending(q)
        /\ SignalPending(q)' <=> SignalPending(q)
    BY <1>1, <1>3, <1>4, <2>1, <2>2, <2>3, WaitViews, WaitViewsNext DEF pc
  <2>5. Outstanding(q)' /\ WaitingIsFull(q)'
    BY <1>1, <2>1, <2>4 DEF ServerWaits, Outstanding, WaitingIsFull, pc
  <2>6. EchoOrder(q)' /\ HandEchoOrder(q)'
    BY <1>1, <1>3, <2>1, <2>2
       DEF ServerWaits, EchoOrder, HandEchoOrder, CountSteps, RequestSteps, pc, item
  <2>7. OneSignal(q)'
    <3>1. CASE q # s
      BY <1>2, <1>4, <2>1, <2>3, <3>1, Constants DEF ServerWaits, OneSignal, pc
    <3>2. CASE q = s
      <4>1. Signal \notin Enqueued(s) /\ pc(s) \notin {"pop", "reset"}
        BY <1>3, <2>1, <3>2 DEF ServerWaits, OneSignal
      <4>2. \A i \in DOMAIN inbox'[s] : inbox'[s][i] = Signal => i = n
        BY <1>2, <4>1 DEF Enqueued
      <4> QED  BY <1>4, <2>1, <3>2, <4>1, <4>2 DEF OneSignal, pc
    <3> QED  BY <3>1, <3>2
  <2> QED  BY <2>5, <2>6, <2>7 DEF ServerWaits
<1> QED  BY <1>5, <1>6 DEF WaitInv

\* The echo server starts the handler of the oldest item, which is the first of
\* those that its sender has sent and that are still there.
LEMMA WaitEchoDispatch ==
  ASSUME Serial, TypeOK, WaitInv, NEW w \in Workers, Dispatch(Echo, w),
         UNCHANGED <<queueVars, messageHash>>
  PROVE  WaitInv'
<1>0. PICK it : it = inbox[Echo][1]
  OBVIOUS
<1>1. /\ OnlyMoves(Echo) /\ Taken(Echo) /\ pc(Echo) = "idle"
      /\ it \in StampedItems \cup WaitItems
      /\ frame'[Echo][Worker].item = it /\ frame'[Echo][Worker].k = 0
      /\ it.port = "in" => frame'[Echo][Worker].pc = "start"
      /\ it.port = "ewait" => frame'[Echo][Worker].pc = "wait"
      /\ it.port \in {"in", "ewait"}
      /\ UNCHANGED <<requestQueue, lockOnQueue>>
  <2>1. it \in StampedItems \cup WaitItems
    BY <1>0, DispatchView, Constants DEF InboxItems, Echo, Primary
  <2> QED  BY <1>0, <2>1, DispatchView, Constants DEF StampedItems, WaitItems, queueVars
<1>2. /\ \A p \in QueueServers : inbox'[p] = inbox[p]
      /\ 1 \in DOMAIN inbox[Echo]
      /\ \A i \in DOMAIN inbox'[Echo] : /\ i + 1 \in DOMAIN inbox[Echo] /\ i \in Nat /\ 1 < i + 1
                                        /\ inbox'[Echo][i] = inbox[Echo][i + 1]
      /\ \A i \in DOMAIN inbox[Echo] : i = 1 \/ (i - 1 \in DOMAIN inbox'[Echo] /\ (i - 1) + 1 = i)
      /\ \A i, j \in DOMAIN inbox'[Echo] : i < j => i + 1 < j + 1
  BY <1>1, InboxTyped, Constants DEF Taken
<1>3. EndOfRound'
  BY <1>1 DEF EndOfRound, pc, turn
<1>4. ASSUME NEW q \in QueueServers PROVE ServerWaits(q)'
  <2>1. frame'[q][Worker] = frame[q][Worker] /\ ServerWaits(q)
    BY <1>1, Constants DEF OnlyMoves, WaitInv
  <2>2. /\ ~ToSignal(q) /\ ~(ToSignal(q)') /\ Enqueued(q)' = Enqueued(q)
        /\ Counted(q, WaitKey)' <=> Counted(q, WaitKey)
    BY <1>1, <1>2 DEF ToSignal, Enqueued, Counted, pc
  <2>3. Wait(q) \in Enqueued(Echo) <=> Wait(q) \in Enqueued(Echo)' \/ it = Wait(q)
    <3>1. ASSUME NEW i \in DOMAIN inbox[Echo], inbox[Echo][i] = Wait(q), i # 1
          PROVE  Wait(q) \in Enqueued(Echo)'
      <4>1. inbox'[Echo][i - 1] = Wait(q) /\ i - 1 \in DOMAIN inbox'[Echo]
        BY <1>2, <3>1
      <4> QED  BY <4>1 DEF Enqueued
    <3> QED  BY <1>0, <1>2, <3>1 DEF Enqueued
  <2>4. it = Wait(q) => frame'[Echo][Worker].pc = "wait"
    BY <1>1 DEF Wait
  <2>5. /\ Waiting(q)' <=> Waiting(q)
        /\ WaitPending(q)' <=> WaitPending(q)
        /\ SignalPending(q)' <=> SignalPending(q)
    BY <1>1, <2>1, <2>2, <2>3, <2>4, WaitViews, WaitViewsNext DEF pc
  <2>6. Outstanding(q)' /\ WaitingIsFull(q)'
    BY <1>1, <2>1, <2>5 DEF ServerWaits, Outstanding, WaitingIsFull, pc
  <2>7. \A i \in DOMAIN inbox[Echo] : FromServer(inbox[Echo][i], q) =>
          /\ \A j \in DOMAIN inbox[Echo] : i < j /\ FromServer(inbox[Echo][j], q) =>
               Rank(inbox[Echo][i]) < Rank(inbox[Echo][j])
          /\ pc(q) = "out" => Rank(inbox[Echo][i]) < item(q).data.buffer
          /\ ~Counted(q, WaitKey)
    BY <2>1 DEF ServerWaits, EchoOrder
  <2>8. EchoOrder(q)'
    <3>1. ASSUME NEW i \in DOMAIN inbox'[Echo], FromServer(inbox'[Echo][i], q)
          PROVE  /\ \A j \in DOMAIN inbox'[Echo] : i < j /\ FromServer(inbox'[Echo][j], q) =>
                      Rank(inbox'[Echo][i]) < Rank(inbox'[Echo][j])
                 /\ FromServer(it, q) => Rank(it) < Rank(inbox'[Echo][i])
                 /\ pc(q) = "out" => Rank(inbox'[Echo][i]) < item(q).data.buffer
                 /\ ~Counted(q, WaitKey)
      BY <1>0, <1>2, <2>7, <3>1
    <3> QED  BY <1>1, <2>1, <2>2, <3>1 DEF EchoOrder, pc, item
  <2>9. HandEchoOrder(q)'
    BY <1>0, <1>1, <1>2, <2>1, <2>2, <2>7 DEF HandEchoOrder, pc, item
  <2>10. OneSignal(q)'
    BY <1>1, <1>2, <2>1, <2>2 DEF ServerWaits, OneSignal, pc
  <2> QED  BY <2>6, <2>8, <2>9, <2>10 DEF ServerWaits
<1> QED  BY <1>3, <1>4 DEF WaitInv

-----------------------------------------------------------------------------
LEMMA WaitQueueServer ==
  ASSUME Serial, TypeOK, Provenance, LogsInv, OrderInv, WaitInv,
         NEW q \in QueueServers, NEW w \in Workers, QueueStep(q, w)
  PROVE  WaitInv'
<1>0. UNCHANGED messageHash /\ QueueServerStep(q, w)
  BY DEF QueueStep, echoVars
<1>1. CASE Dispatch(q, w) /\ UNCHANGED queueVars
  BY <1>0, <1>1, WaitDispatch DEF queueVars
<1>2. CASE q = Primary /\ VerifySignature(w)
  BY <1>0, <1>2, WaitVerifySignature
<1>3. CASE q = Primary /\ Forward(w)
  BY <1>0, <1>3, WaitForward
<1>4. CASE q # Primary /\ VerifyMac(q, w)
  BY <1>0, <1>4, WaitVerifyMac
<1>5. CASE CheckSize(q, w)    BY <1>0, <1>5, WaitCheckSize
<1>6. CASE CheckLock(q, w)    BY <1>0, <1>6, WaitCheckLock
<1>7. CASE SendWait(q, w)     BY <1>0, <1>7, WaitSendWait
<1>8. CASE SetLock(q, w)      BY <1>0, <1>8, WaitSetLock
<1>9. CASE Push(q, w)         BY <1>0, <1>9, WaitPush
<1>10. CASE SendToEcho(q, w)  BY <1>0, <1>10, WaitSendToEcho
<1>11. CASE PopAll(q, w)      BY <1>0, <1>11, WaitPopAll
<1>12. CASE ResetLock(q, w)   BY <1>0, <1>12, WaitResetLock
<1> QED
  BY <1>0, <1>1, <1>2, <1>3, <1>4, <1>5, <1>6, <1>7, <1>8, <1>9, <1>10, <1>11, <1>12
     DEF QueueServerStep

LEMMA WaitEchoServer ==
  ASSUME Serial, TypeOK, WaitInv, NEW w \in Workers, EchoStep(w)
  PROVE  WaitInv'
<1>0. UNCHANGED queueVars /\ EchoServerStep(w)
  BY DEF EchoStep
<1>1. CASE Dispatch(Echo, w) /\ UNCHANGED echoVars
  BY <1>0, <1>1, WaitEchoDispatch DEF echoVars
<1>2. CASE CheckRequest(w)    BY <1>0, <1>2, WaitEchoRequest
<1>3. CASE InsertRequest(w)   BY <1>0, <1>3, WaitEchoRequest
<1>4. CASE CheckReceived(w)   BY <1>0, <1>4, WaitEchoRequest
<1>5. CASE Reply(w)           BY <1>0, <1>5, WaitEchoRequest
<1>6. CASE CheckWait(w)       BY <1>0, <1>6, WaitCheckWait
<1>7. CASE InsertWait(w)      BY <1>0, <1>7, WaitInsertWait
<1>8. CASE CheckProcessed(w)  BY <1>0, <1>8, WaitCheckProcessed
<1>9. CASE ResetHash(w)       BY <1>0, <1>9, WaitResetHash
<1>10. CASE SendSignal(w)     BY <1>0, <1>10, WaitSendSignal
<1> QED
  BY <1>0, <1>1, <1>2, <1>3, <1>4, <1>5, <1>6, <1>7, <1>8, <1>9, <1>10 DEF EchoServerStep

LEMMA NextWait ==
  Serial /\ TypeOK /\ Provenance /\ LogsInv /\ OrderInv /\ WaitInv /\ [Next]_vars => WaitInv'
<1> SUFFICES ASSUME Serial, TypeOK, Provenance, LogsInv, OrderInv, WaitInv, [Next]_vars
             PROVE  WaitInv'
  OBVIOUS
<1>1. CASE Arrive
  BY <1>1, WaitArrive
<1>2. ASSUME NEW w \in Workers, NEW q \in QueueServers, QueueStep(q, w) PROVE WaitInv'
  BY <1>2, WaitQueueServer
<1>3. ASSUME NEW w \in Workers, EchoStep(w) PROVE WaitInv'
  BY <1>3, WaitEchoServer
<1>4. CASE UNCHANGED vars
  <2>1. /\ UNCHANGED <<inbox, frame, requestQueue, lockOnQueue, messageHash>>
        /\ \A op \in Operators : Enqueued(op)' = Enqueued(op)
    BY <1>4 DEF vars, Enqueued
  <2>2. ASSUME NEW p \in QueueServers PROVE ServerWaits(p)'
    <3>1. /\ ServerWaits(p)
          /\ \A i, j \in DOMAIN inbox[p] : inbox[p][i] = Signal /\ inbox[p][j] = Signal => i = j
      BY DEF WaitInv, ServerWaits, OneSignal
    <3> QED  BY <2>1, <3>1, WaitsKept, Constants DEF pc, item
  <2> QED  BY <2>1, <2>2, EndOfRoundKept DEF WaitInv
<1> QED  BY <1>1, <1>2, <1>3, <1>4 DEF Next, SystemStep

LEMMA InitWait == Serial /\ Init => WaitInv
<1> SUFFICES ASSUME Serial, Init PROVE WaitInv
  OBVIOUS
<1>1. \A op \in Operators : inbox[op] = << >> /\ DOMAIN inbox[op] = {} /\ Enqueued(op) = {}
  BY DEF Init, RuntimeInit, Enqueued
<1>2. \A op \in Operators : pc(op) = "idle"
  BY OneWorker DEF Init, RuntimeInit, Idle, Activation, pc
<1>3. \A q \in QueueServers : lockOnQueue[q] = 0 /\ ~Counted(q, WaitKey)
  BY DEF Init, QueueServerInit, EchoServerInit, Counted, checkIfPresent, EmptyHash
<1>4. EndOfRound
  BY <1>2, Constants DEF EndOfRound
<1>5. ASSUME NEW q \in QueueServers PROVE ServerWaits(q)
  <2>1. ~Waiting(q) /\ ~WaitPending(q) /\ ~SignalPending(q) /\ ~ToSignal(q)
    BY <1>1, <1>2, <1>3, WaitViews, Constants DEF ToSignal
  <2> QED
    BY <1>1, <1>2, <2>1, Constants
       DEF ServerWaits, Outstanding, WaitingIsFull, EchoOrder, HandEchoOrder, OneSignal,
           CountSteps, RequestSteps
<1> QED  BY <1>4, <1>5 DEF WaitInv

Basis == TypeOK /\ Provenance /\ LogsInv /\ OrderInv /\ WaitInv

LEMMA BasisKept == ASSUME Serial PROVE Spec => []Basis
<1>1. Init => Basis
  BY InitTyped, InitProvenance, InitLogsInv, InitOrder, InitWait DEF Basis
<1>2. Basis /\ [Next]_vars => Basis'
  BY NextTyped, NextProvenance, NextLogsInv, NextOrder, NextWait DEF Basis
<1> QED  BY <1>1, <1>2, PTL DEF Spec

\* A queue server's lock is set exactly while its wait message is with the echo
\* server or the signal is on its way back: no lock is left over for which no
\* signal will come.
THEOREM LocksAreReleased == ASSUME Serial PROVE Spec => []WaitOutstanding
<1>1. Basis => WaitOutstanding
  BY DEF Basis, WaitInv, ServerWaits, Outstanding, WaitOutstanding
<1> QED  BY <1>1, BasisKept, PTL

LEMMA NoCopyAtReset ==
  ASSUME Serial, Basis, pc(Echo) = "resetHash"
  PROVE  /\ ~CopyInFlight
         /\ \A q \in QueueServers : Waiting(q) /\ ~SignalPending(q)
<1>1. \A q \in QueueServers : Counted(q, WaitKey) /\ ServerWaits(q)
  BY AllWaitsCounted DEF Basis, WaitInv
<1>2. ASSUME NEW it \in Enqueued(Echo), it.port = "in" PROVE FALSE
  <2>1. PICK i \in DOMAIN inbox[Echo] : it = inbox[Echo][i]
    BY DEF Enqueued
  <2>2. it \in StampedItems
    BY <1>2, <2>1, RankTyped DEF Basis, WaitItems
  <2>3. it.data.queueServerID \in QueueServers
    BY <2>2 DEF StampedItems, StampedRequests
  <2> QED  BY <1>1, <1>2, <2>1, <2>3 DEF ServerWaits, EchoOrder, FromServer
<1>3. ~InHandler(Echo, RequestSteps)
  BY OneWorker DEF InHandler, RequestSteps, pc
<1>4. ASSUME NEW q \in QueueServers
      PROVE  Waiting(q) /\ ~SignalPending(q) /\ ~InHandler(q, {"out"})
  <2>1. WaitPending(q)
    BY <1>1, WaitViews
  <2>2. Waiting(q) /\ ~SignalPending(q) /\ pc(q) # "out"
    BY <1>1, <2>1 DEF ServerWaits, Outstanding, WaitingIsFull
  <2> QED  BY <2>2, OneWorker DEF InHandler, pc
<1> QED  BY <1>2, <1>3, <1>4 DEF CopyInFlight

\* When the echo server empties its count, no copy is on its way to it: each
\* wait message has been counted, and it is behind all copies of its sender.
THEOREM ResetsLoseNothing == ASSUME Serial PROVE Spec => []ResetLosesNoCopy
<1>1. ASSUME Serial, Basis PROVE ResetLosesNoCopy
  BY <1>1, NoCopyAtReset, OneWorker DEF ResetLosesNoCopy, InHandler, pc
<1> QED  BY <1>1, BasisKept, PTL
=============================================================================
