---------------------------- MODULE CarbonProofs ----------------------------
(***************************************************************************)
(* Proofs about Carbon, for any number of queue servers, keys and requests *)
(* and any capacity of the logs.  The first part is about the types of     *)
(* what travels and is kept, the second about where the logged requests    *)
(* come from; both hold for any number of workers.  The third, about the   *)
(* message ids, needs the handlers of an operator to be serialised; the    *)
(* fourth, about the size of the logs, again holds for any number of       *)
(* workers.                                                                *)
(***************************************************************************)
EXTENDS Carbon, FiniteSetTheorems, TLAPS

\* The operators and the requests, as the facts the steps below use.
LEMMA Constants ==
  /\ QueueServers \subseteq Operators
  /\ Replicas \subseteq QueueServers
  /\ Primary \in QueueServers /\ Primary \notin Replicas
  /\ Echo \in Operators /\ Echo \notin QueueServers
  /\ Operators = QueueServers \cup {Echo}
  /\ QueueServers = Replicas \cup {Primary}
  /\ 1 \in Replicas
  /\ 0 \in QueueServers
BY CommonAssumption
   DEF QueueServers, Operators, Replicas, Primary, Echo

\* The continuation that Send enqueues is one its destination accepts.
LEMMA SendTyped ==
  ASSUME InboxOK, NEW dest \in Operators, NEW item \in InboxItems(dest),
         Send(dest, item)
  PROVE  InboxOK'
<1>1. inbox' = [inbox EXCEPT ![dest] = Append(@, item)]  BY DEF Send
<1>2. DOMAIN inbox' = Operators  BY <1>1 DEF InboxOK
<1>3. ASSUME NEW op \in Operators PROVE inbox'[op] \in Seq(InboxItems(op))
  <2>1. inbox[op] \in Seq(InboxItems(op))  BY <1>3 DEF InboxOK
  <2>2. CASE op = dest
    <3>1. inbox'[op] = Append(inbox[op], item)  BY <1>1, <2>2 DEF InboxOK
    <3> QED  BY <3>1, <2>1, <2>2
  <2>3. CASE op # dest
    BY <1>1, <2>1, <2>3 DEF InboxOK
  <2> QED  BY <2>2, <2>3
<1> QED  BY <1>2, <1>3 DEF InboxOK

\* A worker goes on to a step whose activation is one of its operator.
LEMMA BecomeTyped ==
  ASSUME FrameOK, NEW op \in Operators, NEW w \in Workers,
         NEW activation \in Activations(op), Become(op, w, activation)
  PROVE  FrameOK'
BY DEF FrameOK, Become

-----------------------------------------------------------------------------
(***************************************************************************)
(* What a worker holds is determined by the step it is at.                 *)
(***************************************************************************)
LEMMA QueueActivation ==
  ASSUME FrameOK, NEW q \in QueueServers, NEW w \in Workers
  PROVE  /\ At(q, w, "start") =>
              frame[q][w] \in
                [pc : {"start"}, k : {0},
                 item : IF q = Primary THEN SocketItems ELSE StampedItems]
         /\ At(q, w, "out_repl") =>
              /\ q = Primary
              /\ frame[q][w] \in [pc : {"out_repl"}, k : Replicas, item : StampedItems]
         /\ frame[q][w].pc \in LoggingSteps =>
              frame[q][w] \in [pc : LoggingSteps, k : QueueServers, item : StampedItems]
         /\ frame[q][w].pc \in {"pop", "reset"} =>
              frame[q][w] \in [pc : {"pop", "reset"}, k : {0}, item : {Signal}]
<1>1. frame[q][w] \in Activations(q)  BY Constants DEF FrameOK
<1>2. q # Echo  BY Constants
<1> QED  BY <1>1, <1>2 DEF Activations, At, Idle, Activation, LoggingSteps

LEMMA EchoActivation ==
  ASSUME FrameOK, NEW w \in Workers
  PROVE  /\ frame[Echo][w].pc \in RequestSteps =>
              frame[Echo][w] \in [pc : RequestSteps, k : {0}, item : StampedItems]
         /\ frame[Echo][w].pc \in WaitSteps =>
              frame[Echo][w] \in [pc : WaitSteps, k : QueueServers, item : WaitItems]
<1>1. frame[Echo][w] \in Activations(Echo)  BY Constants DEF FrameOK
<1> QED  BY <1>1 DEF Activations, Idle, Activation, RequestSteps, WaitSteps

LEMMA IdleTyped == \A op \in Operators : Idle \in Activations(op)
BY DEF Activations

LEMMA ReturnTyped ==
  ASSUME FrameOK, NEW op \in Operators, NEW w \in Workers, Return(op, w)
  PROVE  FrameOK'
BY BecomeTyped, IdleTyped DEF Return

-----------------------------------------------------------------------------
(***************************************************************************)
(* Starting a handler.                                                     *)
(***************************************************************************)
LEMMA DispatchTyped ==
  ASSUME InboxOK, FrameOK, NEW op \in Operators, NEW w \in Workers,
         Dispatch(op, w)
  PROVE  InboxOK' /\ FrameOK'
<1> DEFINE item == Head(inbox[op])
<1>1. inbox[op] \in Seq(InboxItems(op)) /\ inbox[op] # << >>
  BY DEF Dispatch, InboxOK
<1>2. item \in InboxItems(op) /\ Tail(inbox[op]) \in Seq(InboxItems(op))
  BY <1>1
<1>3. InboxOK'
  BY <1>2 DEF Dispatch, InboxOK
<1>4. Activation(EntryPoint(item), item) \in Activations(op)
  <2>1. CASE op = Echo
    BY <1>2, <2>1, Constants
       DEF InboxItems, EntryPoint, Activation, Activations, RequestSteps, WaitSteps,
           StampedItems, WaitItems
  <2>2. CASE op # Echo /\ item = Signal
    <3>1. Activation(EntryPoint(item), item) = [pc |-> "pop", k |-> 0, item |-> Signal]
      BY <2>2 DEF EntryPoint, Activation, Signal
    <3> QED  BY <3>1, <2>2 DEF Activations
  <2>3. CASE op # Echo /\ item # Signal
    <3>1. item \in IF op = Primary THEN SocketItems ELSE StampedItems
      BY <1>2, <2>3 DEF InboxItems
    <3>2. item.port = "in"
      BY <3>1 DEF SocketItems, StampedItems
    <3>3. Activation(EntryPoint(item), item) = [pc |-> "start", k |-> 0, item |-> item]
      BY <3>2 DEF EntryPoint, Activation
    <3> QED  BY <3>1, <3>3, <2>3 DEF Activations
  <2> QED  BY <2>1, <2>2, <2>3
<1>5. FrameOK'
  BY <1>4, BecomeTyped DEF Dispatch
<1> QED  BY <1>3, <1>5

-----------------------------------------------------------------------------
(***************************************************************************)
(* The objects the handlers make are requests.                             *)
(***************************************************************************)
LEMMA StampTyped ==
  ASSUME NEW data \in SocketRequests, NEW id \in Nat
  PROVE  [data EXCEPT !.queueServerID = Primary, !.messageID = id] \in StampedRequests
<1>1. PICK t \in Texts : data = FromSocket(t)
  BY DEF SocketRequests
<1>2. data \in [buffer : Texts, numBytes : Texts, messageID : {Uninit},
                queueServerID : {Uninit}, mac : {Uninit}]
  BY <1>1 DEF FromSocket
<1> QED  BY <1>2, Constants DEF StampedRequests, Macs

LEMMA FreeMacTyped ==
  ASSUME NEW data \in StampedRequests
  PROVE  freeMac(data) \in StampedRequests
BY DEF StampedRequests, freeMac, Macs

\* A conversion to uint16_t yields 16 bits.
LEMMA Mod16 ==
  ASSUME NEW n \in Nat
  PROVE  n % 65536 \in MessageIDs
<1>1. UINT16_MAX \in Nat /\ UINT16_MAX + 1 = 65536
  BY DEF UINT16_MAX
<1>2. ASSUME NEW k \in Nat \ {0}
      PROVE  n % k \in 0 .. k - 1
  OBVIOUS
<1>3. n % (UINT16_MAX + 1) \in 0 .. UINT16_MAX
  BY <1>1, <1>2
<1> QED  BY <1>1, <1>3 DEF MessageIDs

LEMMA MessageIDTyped ==
  ASSUME NEW data \in StampedRequests
  PROVE  getMessageID(data) \in MessageIDs
<1>1. data.messageID \in Nat
  BY DEF StampedRequests
<1>2. data.messageID % 65536 \in MessageIDs
  BY <1>1, Mod16
<1> QED  BY <1>2 DEF getMessageID

LEMMA CopyTyped ==
  ASSUME NEW data \in StampedRequests, NEW r \in Replicas, NEW key \in Keys
  PROVE  ReplicaCopy(data, r, genMac(data.buffer, key)) \in StampedRequests
<1>1. getMessageID(data) \in Nat
  <2>1. MessageIDs \subseteq Nat
    BY DEF MessageIDs, UINT16_MAX
  <2> QED  BY <2>1, MessageIDTyped
<1> QED  BY <1>1, Constants DEF StampedRequests, ReplicaCopy, genMac, Macs

-----------------------------------------------------------------------------
(***************************************************************************)
(* The queue servers.                                                      *)
(***************************************************************************)
LEMMA VerifySignatureTyped ==
  ASSUME TypeOK, NEW w \in Workers, VerifySignature(w)
  PROVE  InboxOK' /\ FrameOK' /\ QueueOK'
<1> DEFINE id == Len(requestQueue[Primary])
           stamped == [Data(Primary, w) EXCEPT !.queueServerID = Primary,
                                               !.messageID = id]
<1>1. InboxOK' /\ QueueOK'
  BY DEF VerifySignature, TypeOK, InboxOK, QueueOK, queueVars
<1>2. CASE Return(Primary, w)
  BY <1>2, ReturnTyped, <1>1, Constants DEF TypeOK
<1>3. CASE Become(Primary, w, [Activation("out_repl", Request(stamped)) EXCEPT !.k = 1])
  <2>1. Data(Primary, w) \in SocketRequests
    BY QueueActivation, Constants DEF VerifySignature, TypeOK, Data, Arg, SocketItems
  <2>2. id \in Nat
    BY Constants DEF TypeOK, QueueOK
  <2>3. stamped \in StampedRequests
    BY <2>1, <2>2, StampTyped
  <2>4. [Activation("out_repl", Request(stamped)) EXCEPT !.k = 1]
          = [pc |-> "out_repl", k |-> 1, item |-> [port |-> "in", data |-> stamped]]
    BY DEF Activation, Request
  <2>5. [port |-> "in", data |-> stamped] \in StampedItems
    BY <2>3 DEF StampedItems
  <2>6. [Activation("out_repl", Request(stamped)) EXCEPT !.k = 1] \in Activations(Primary)
    BY <2>4, <2>5, Constants DEF Activations
  <2> QED  BY <1>1, <1>3, <2>6, BecomeTyped, Constants DEF TypeOK
<1> QED  BY <1>2, <1>3 DEF VerifySignature

LEMMA GotoTyped ==
  ASSUME FrameOK, NEW q \in QueueServers, NEW w \in Workers,
         frame[q][w].pc \in LoggingSteps, NEW pc \in LoggingSteps, Goto(q, w, pc)
  PROVE  FrameOK'
<1>1. frame[q][w] \in [pc : LoggingSteps, k : QueueServers, item : StampedItems]
  BY QueueActivation
<1>2. [frame[q][w] EXCEPT !.pc = pc]
        \in [pc : LoggingSteps, k : QueueServers, item : StampedItems]
  BY <1>1
<1>3. [frame[q][w] EXCEPT !.pc = pc] \in Activations(q)
  BY <1>2, Constants DEF Activations, LoggingSteps
<1> QED  BY <1>3, BecomeTyped, Constants DEF Goto

LEMMA ForwardTyped ==
  ASSUME TypeOK, NEW w \in Workers, Forward(w)
  PROVE  InboxOK' /\ FrameOK' /\ QueueOK'
<1> DEFINE r == frame[Primary][w].k
           data == Data(Primary, w)
           copy == ReplicaCopy(data, r, genMac(data.buffer, PrimaryKeys[r]))
<1>1. /\ frame[Primary][w] \in [pc : {"out_repl"}, k : Replicas, item : StampedItems]
      /\ r \in Replicas
      /\ data \in StampedRequests
  BY QueueActivation, Constants DEF Forward, TypeOK, Data, Arg, StampedItems
<1>2. copy \in StampedRequests
  BY <1>1, CopyTyped, QueueServerAssumption
<1>3. Request(copy) \in InboxItems(r) /\ r \in Operators
  BY <1>1, <1>2, Constants DEF Request, InboxItems, StampedItems
<1>4. InboxOK'
  BY <1>3, SendTyped DEF Forward, TypeOK
<1>5. QueueOK'
  BY DEF Forward, TypeOK, QueueOK, queueVars
<1>6. CASE r + 1 \in Replicas /\ Become(Primary, w, [frame[Primary][w] EXCEPT !.k = r + 1])
  <2>1. [frame[Primary][w] EXCEPT !.k = r + 1]
          \in [pc : {"out_repl"}, k : Replicas, item : StampedItems]
    BY <1>1, <1>6
  <2>2. [frame[Primary][w] EXCEPT !.k = r + 1] \in Activations(Primary)
    BY <2>1, Constants DEF Activations
  <2> QED  BY <1>6, <2>2, <1>4, <1>5, BecomeTyped, Constants DEF TypeOK
<1>7. CASE Goto(Primary, w, "size")
  <2>1. [frame[Primary][w] EXCEPT !.pc = "size"]
          \in [pc : LoggingSteps, k : QueueServers, item : StampedItems]
    BY <1>1, Constants DEF LoggingSteps
  <2>2. [frame[Primary][w] EXCEPT !.pc = "size"] \in Activations(Primary)
    BY <2>1, Constants DEF Activations, LoggingSteps
  <2> QED  BY <1>7, <2>2, <1>4, <1>5, BecomeTyped, Constants DEF TypeOK, Goto
<1> QED  BY <1>6, <1>7 DEF Forward

LEMMA VerifyMacTyped ==
  ASSUME TypeOK, NEW r \in QueueServers, r # Primary, NEW w \in Workers,
         VerifyMac(r, w)
  PROVE  InboxOK' /\ FrameOK' /\ QueueOK'
<1>1. InboxOK' /\ QueueOK'
  BY DEF VerifyMac, TypeOK, InboxOK, QueueOK, queueVars
<1>2. CASE Return(r, w)
  BY <1>1, <1>2, ReturnTyped, Constants DEF TypeOK
<1>3. CASE Become(r, w, Activation("size", Request(freeMac(Data(r, w)))))
  <2>1. Data(r, w) \in StampedRequests
    BY QueueActivation DEF VerifyMac, TypeOK, Data, Arg, StampedItems
  <2>2. Activation("size", Request(freeMac(Data(r, w)))) \in Activations(r)
    BY <2>1, FreeMacTyped, Constants
       DEF Activation, Request, Activations, LoggingSteps, StampedItems
  <2> QED  BY <1>1, <1>3, <2>2, BecomeTyped, Constants DEF TypeOK
<1> QED  BY <1>2, <1>3 DEF VerifyMac

LEMMA CheckSizeTyped ==
  ASSUME TypeOK, NEW q \in QueueServers, NEW w \in Workers, CheckSize(q, w)
  PROVE  InboxOK' /\ FrameOK' /\ QueueOK'
<1>1. InboxOK' /\ QueueOK'
  BY DEF CheckSize, TypeOK, InboxOK, QueueOK, queueVars
<1>2. frame[q][w].pc \in LoggingSteps
  BY DEF CheckSize, At, LoggingSteps
<1>3. Goto(q, w, "state") \/ Goto(q, w, "push")
  BY DEF CheckSize
<1> QED  BY <1>1, <1>2, <1>3, GotoTyped DEF TypeOK, LoggingSteps

LEMMA CheckLockTyped ==
  ASSUME TypeOK, NEW q \in QueueServers, NEW w \in Workers, CheckLock(q, w)
  PROVE  InboxOK' /\ FrameOK' /\ QueueOK'
<1>1. InboxOK' /\ QueueOK'
  BY DEF CheckLock, TypeOK, InboxOK, QueueOK, queueVars
<1>2. frame[q][w].pc \in LoggingSteps
  BY DEF CheckLock, At, LoggingSteps
<1>3. Goto(q, w, "qwait") \/ Return(q, w)
  BY DEF CheckLock
<1> QED  BY <1>1, <1>2, <1>3, GotoTyped, ReturnTyped, Constants DEF TypeOK, LoggingSteps

LEMMA SendWaitTyped ==
  ASSUME TypeOK, NEW q \in QueueServers, NEW w \in Workers, SendWait(q, w)
  PROVE  InboxOK' /\ FrameOK' /\ QueueOK'
<1>1. Wait(q) \in InboxItems(Echo)
  BY Constants DEF Wait, InboxItems, WaitItems
<1>2. InboxOK' /\ QueueOK'
  BY <1>1, SendTyped, Constants DEF SendWait, TypeOK, QueueOK, queueVars
<1>3. frame[q][w].pc \in LoggingSteps
  BY DEF SendWait, At, LoggingSteps
<1> QED  BY <1>2, <1>3, GotoTyped DEF SendWait, TypeOK, LoggingSteps

LEMMA SetLockTyped ==
  ASSUME TypeOK, NEW q \in QueueServers, NEW w \in Workers, SetLock(q, w)
  PROVE  InboxOK' /\ FrameOK' /\ QueueOK'
BY ReturnTyped, Constants DEF SetLock, TypeOK, InboxOK, QueueOK

LEMMA PushTyped ==
  ASSUME TypeOK, NEW q \in QueueServers, NEW w \in Workers, Push(q, w)
  PROVE  InboxOK' /\ FrameOK' /\ QueueOK'
<1>1. frame[q][w].pc \in LoggingSteps
  BY DEF Push, At, LoggingSteps
<1>2. Data(q, w) \in StampedRequests
  BY <1>1, QueueActivation DEF TypeOK, Data, Arg, StampedItems
<1>3. requestQueue' \in [QueueServers -> Seq(StampedRequests)]
  BY <1>2 DEF Push, TypeOK, QueueOK
<1>4. <<q, Data(q, w).buffer, Data(q, w).messageID>> \in QueueServers \X Texts \X Nat
  BY <1>2 DEF StampedRequests
<1>5. QueueOK'
  BY <1>3, <1>4 DEF Push, TypeOK, QueueOK
<1>6. InboxOK'
  BY DEF Push, TypeOK, InboxOK
<1> QED  BY <1>1, <1>5, <1>6, GotoTyped DEF Push, TypeOK, LoggingSteps

LEMMA SendToEchoTyped ==
  ASSUME TypeOK, NEW q \in QueueServers, NEW w \in Workers, SendToEcho(q, w)
  PROVE  InboxOK' /\ FrameOK' /\ QueueOK'
<1>1. Data(q, w) \in StampedRequests
  BY QueueActivation DEF SendToEcho, TypeOK, At, Data, Arg, StampedItems, LoggingSteps
<1>2. Request(Data(q, w)) \in InboxItems(Echo)
  BY <1>1, Constants DEF Request, InboxItems, StampedItems
<1> QED  BY <1>2, SendTyped, ReturnTyped, Constants
            DEF SendToEcho, TypeOK, QueueOK, queueVars

LEMMA PopAllTyped ==
  ASSUME TypeOK, NEW q \in QueueServers, NEW w \in Workers, PopAll(q, w)
  PROVE  InboxOK' /\ FrameOK' /\ QueueOK'
<1>1. [frame[q][w] EXCEPT !.pc = "reset"] \in [pc : {"pop", "reset"}, k : {0}, item : {Signal}]
  BY QueueActivation DEF PopAll, TypeOK, At
<1>2. [frame[q][w] EXCEPT !.pc = "reset"] \in Activations(q)
  BY <1>1, Constants DEF Activations
<1>3. requestQueue' \in [QueueServers -> Seq(StampedRequests)]
  BY DEF PopAll, TypeOK, QueueOK
<1> QED  BY <1>2, <1>3, BecomeTyped, Constants
            DEF PopAll, Goto, TypeOK, InboxOK, QueueOK

LEMMA ResetLockTyped ==
  ASSUME TypeOK, NEW q \in QueueServers, NEW w \in Workers, ResetLock(q, w)
  PROVE  InboxOK' /\ FrameOK' /\ QueueOK'
BY ReturnTyped, Constants DEF ResetLock, TypeOK, InboxOK, QueueOK

LEMMA QueueServerTyped ==
  ASSUME TypeOK, NEW q \in QueueServers, NEW w \in Workers, QueueServerStep(q, w)
  PROVE  InboxOK' /\ FrameOK' /\ QueueOK'
<1>1. CASE Dispatch(q, w) /\ UNCHANGED queueVars
  BY <1>1, DispatchTyped, Constants DEF TypeOK, QueueOK, queueVars
<1>2. CASE q = Primary /\ VerifySignature(w)
  BY <1>2, VerifySignatureTyped
<1>3. CASE q = Primary /\ Forward(w)
  BY <1>3, ForwardTyped
<1>4. CASE q # Primary /\ VerifyMac(q, w)
  BY <1>4, VerifyMacTyped
<1>5. CASE CheckSize(q, w)
  BY <1>5, CheckSizeTyped
<1>6. CASE CheckLock(q, w)
  BY <1>6, CheckLockTyped
<1>7. CASE SendWait(q, w)
  BY <1>7, SendWaitTyped
<1>8. CASE SetLock(q, w)
  BY <1>8, SetLockTyped
<1>9. CASE Push(q, w)
  BY <1>9, PushTyped
<1>10. CASE SendToEcho(q, w)
  BY <1>10, SendToEchoTyped
<1>11. CASE PopAll(q, w)
  BY <1>11, PopAllTyped
<1>12. CASE ResetLock(q, w)
  BY <1>12, ResetLockTyped
<1> QED
  BY <1>1, <1>2, <1>3, <1>4, <1>5, <1>6, <1>7, <1>8, <1>9, <1>10, <1>11, <1>12
     DEF QueueServerStep

-----------------------------------------------------------------------------
(***************************************************************************)
(* The echo server.                                                        *)
(***************************************************************************)
LEMMA TouchTyped ==
  ASSUME HashOK, NEW key \in MessageIDs \cup {WaitKey},
         messageHash' = Touch(messageHash, key)
  PROVE  HashOK'
BY DEF HashOK, Touch

LEMMA InsertTyped ==
  ASSUME HashOK, NEW key \in MessageIDs \cup {WaitKey}, NEW server \in QueueServers,
         messageHash' = insertMsgHash(messageHash, key, server)
  PROVE  HashOK'
<1> DEFINE seen == IF key \in DOMAIN messageHash /\ messageHash[key] # Null
                   THEN messageHash[key] ELSE {}
<1>1. seen \cup {server} \in SUBSET QueueServers
  BY DEF HashOK
<1>2. messageHash' = [Touch(messageHash, key) EXCEPT ![key] = seen \cup {server}]
  BY DEF insertMsgHash
<1> HIDE DEF seen
<1>3. /\ DOMAIN messageHash' = DOMAIN messageHash \cup {key}
      /\ \A j \in DOMAIN messageHash' :
           messageHash'[j] = IF j = key THEN seen \cup {server}
                             ELSE messageHash[j]
  BY <1>2 DEF Touch
<1> QED  BY <1>1, <1>3 DEF HashOK

LEMMA EchoArgument ==
  ASSUME FrameOK, NEW w \in Workers
  PROVE  /\ frame[Echo][w].pc \in RequestSteps =>
              /\ MessageID(w) \in MessageIDs
              /\ ServerID(w) \in QueueServers
              /\ Arg(Echo, w).data.buffer \in Texts
         /\ frame[Echo][w].pc \in WaitSteps =>
              /\ frame[Echo][w].k \in QueueServers
              /\ Arg(Echo, w).server \in QueueServers
<1>1. ASSUME frame[Echo][w].pc \in RequestSteps
      PROVE  Arg(Echo, w).data \in StampedRequests
  <2>1. frame[Echo][w] \in [pc : RequestSteps, k : {0}, item : StampedItems]
    BY <1>1, EchoActivation
  <2>2. Arg(Echo, w) \in StampedItems
    BY <2>1 DEF Arg
  <2> QED  BY <2>2 DEF StampedItems
<1>2. ASSUME frame[Echo][w].pc \in RequestSteps
      PROVE  /\ MessageID(w) \in MessageIDs
             /\ ServerID(w) \in QueueServers
             /\ Arg(Echo, w).data.buffer \in Texts
  <2>1. MessageID(w) \in MessageIDs
    BY <1>1, <1>2, MessageIDTyped DEF MessageID
  <2>2. ServerID(w) \in QueueServers /\ Arg(Echo, w).data.buffer \in Texts
    BY <1>1, <1>2 DEF ServerID, StampedRequests
  <2> QED  BY <2>1, <2>2
<1>3. ASSUME frame[Echo][w].pc \in WaitSteps
      PROVE  frame[Echo][w].k \in QueueServers /\ Arg(Echo, w).server \in QueueServers
  <2>1. frame[Echo][w] \in [pc : WaitSteps, k : QueueServers, item : WaitItems]
    BY <1>3, EchoActivation
  <2>2. Arg(Echo, w) \in WaitItems
    BY <2>1 DEF Arg
  <2> QED  BY <2>1, <2>2 DEF WaitItems
<1> QED  BY <1>2, <1>3

LEMMA EchoGotoTyped ==
  ASSUME FrameOK, NEW w \in Workers, NEW pc, Goto(Echo, w, pc),
         \/ frame[Echo][w].pc \in RequestSteps /\ pc \in RequestSteps
         \/ frame[Echo][w].pc \in WaitSteps /\ pc \in WaitSteps
  PROVE  FrameOK'
<1>1. CASE frame[Echo][w].pc \in RequestSteps /\ pc \in RequestSteps
  <2>1. [frame[Echo][w] EXCEPT !.pc = pc]
          \in [pc : RequestSteps, k : {0}, item : StampedItems]
    BY <1>1, EchoActivation
  <2>2. [frame[Echo][w] EXCEPT !.pc = pc] \in Activations(Echo)
    BY <2>1 DEF Activations, RequestSteps
  <2> QED  BY <2>2, BecomeTyped, Constants DEF Goto
<1>2. CASE frame[Echo][w].pc \in WaitSteps /\ pc \in WaitSteps
  <2>1. [frame[Echo][w] EXCEPT !.pc = pc]
          \in [pc : WaitSteps, k : QueueServers, item : WaitItems]
    BY <1>2, EchoActivation
  <2>2. [frame[Echo][w] EXCEPT !.pc = pc] \in Activations(Echo)
    BY <2>1 DEF Activations, WaitSteps
  <2> QED  BY <2>2, BecomeTyped, Constants DEF Goto
<1> QED  BY <1>1, <1>2

LEMMA CheckRequestTyped ==
  ASSUME TypeOK, NEW w \in Workers, CheckRequest(w)
  PROVE  InboxOK' /\ FrameOK' /\ EchoOK'
<1>1. frame[Echo][w].pc \in RequestSteps
  BY DEF CheckRequest, At, RequestSteps
<1>2. MessageID(w) \in MessageIDs \cup {WaitKey}
  BY <1>1, EchoArgument DEF TypeOK
<1>3. messageHash' = Touch(messageHash, MessageID(w)) /\ UNCHANGED <<inbox, replies>>
  BY DEF CheckRequest
<1>4. EchoOK'
  BY <1>2, <1>3, TouchTyped DEF TypeOK, EchoOK, HashOK
<1>5. Goto(Echo, w, "received") \/ Goto(Echo, w, "insert")
  BY DEF CheckRequest
<1>6. FrameOK'
  BY <1>1, <1>5, EchoGotoTyped DEF TypeOK, RequestSteps
<1> QED  BY <1>3, <1>4, <1>6 DEF TypeOK, InboxOK

LEMMA InsertRequestTyped ==
  ASSUME TypeOK, NEW w \in Workers, InsertRequest(w)
  PROVE  InboxOK' /\ FrameOK' /\ EchoOK'
<1>1. frame[Echo][w].pc \in RequestSteps
  BY DEF InsertRequest, At, RequestSteps
<1>2. MessageID(w) \in MessageIDs \cup {WaitKey} /\ ServerID(w) \in QueueServers
  BY <1>1, EchoArgument DEF TypeOK
<1>3. /\ messageHash' = insertMsgHash(messageHash, MessageID(w), ServerID(w))
      /\ UNCHANGED <<inbox, replies>>
  BY DEF InsertRequest
<1>4. EchoOK'
  BY <1>2, <1>3, InsertTyped DEF TypeOK, EchoOK, HashOK
<1>5. Goto(Echo, w, "received")
  BY DEF InsertRequest
<1>6. FrameOK'
  BY <1>1, <1>5, EchoGotoTyped DEF TypeOK, RequestSteps
<1> QED  BY <1>3, <1>4, <1>6 DEF TypeOK, InboxOK

LEMMA CheckReceivedTyped ==
  ASSUME TypeOK, NEW w \in Workers, CheckReceived(w)
  PROVE  InboxOK' /\ FrameOK' /\ EchoOK'
<1>1. frame[Echo][w].pc \in RequestSteps
  BY DEF CheckReceived, At, RequestSteps
<1>2. MessageID(w) \in MessageIDs \cup {WaitKey}
  BY <1>1, EchoArgument DEF TypeOK
<1>3. messageHash' = Touch(messageHash, MessageID(w)) /\ UNCHANGED <<inbox, replies>>
  BY DEF CheckReceived
<1>4. EchoOK'
  BY <1>2, <1>3, TouchTyped DEF TypeOK, EchoOK, HashOK
<1>5. Goto(Echo, w, "out") \/ Return(Echo, w)
  BY DEF CheckReceived
<1>6. FrameOK'
  BY <1>1, <1>5, EchoGotoTyped, ReturnTyped, Constants DEF TypeOK, RequestSteps
<1> QED  BY <1>3, <1>4, <1>6 DEF TypeOK, InboxOK

LEMMA ReplyTyped ==
  ASSUME TypeOK, NEW w \in Workers, Reply(w)
  PROVE  InboxOK' /\ FrameOK' /\ EchoOK'
<1>1. Arg(Echo, w).data.buffer \in Texts
  BY EchoArgument DEF Reply, At, TypeOK, RequestSteps
<1>2. replies' \in [Texts -> Nat]
  BY <1>1 DEF Reply, TypeOK, EchoOK, HashOK
<1> QED  BY <1>2, ReturnTyped, Constants DEF Reply, TypeOK, InboxOK, EchoOK, HashOK

LEMMA CheckWaitTyped ==
  ASSUME TypeOK, NEW w \in Workers, CheckWait(w)
  PROVE  InboxOK' /\ FrameOK' /\ EchoOK'
<1>1. frame[Echo][w].pc \in WaitSteps
  BY DEF CheckWait, At, WaitSteps
<1>2. messageHash' = Touch(messageHash, WaitKey) /\ UNCHANGED <<inbox, replies>>
  BY DEF CheckWait
<1>3. EchoOK'
  BY <1>2, TouchTyped DEF TypeOK, EchoOK, HashOK
<1>4. Goto(Echo, w, "processed") \/ Goto(Echo, w, "insertWait")
  BY DEF CheckWait
<1>5. FrameOK'
  BY <1>1, <1>4, EchoGotoTyped DEF TypeOK, WaitSteps
<1> QED  BY <1>2, <1>3, <1>5 DEF TypeOK, InboxOK

LEMMA InsertWaitTyped ==
  ASSUME TypeOK, NEW w \in Workers, InsertWait(w)
  PROVE  InboxOK' /\ FrameOK' /\ EchoOK'
<1>1. frame[Echo][w].pc \in WaitSteps
  BY DEF InsertWait, At, WaitSteps
<1>2. Arg(Echo, w).server \in QueueServers
  BY <1>1, EchoArgument DEF TypeOK
<1>3. /\ messageHash' = insertMsgHash(messageHash, WaitKey, Arg(Echo, w).server)
      /\ UNCHANGED <<inbox, replies>>
  BY DEF InsertWait
<1>4. EchoOK'
  BY <1>2, <1>3, InsertTyped DEF TypeOK, EchoOK, HashOK
<1>5. Goto(Echo, w, "processed")
  BY DEF InsertWait
<1>6. FrameOK'
  BY <1>1, <1>5, EchoGotoTyped DEF TypeOK, WaitSteps
<1> QED  BY <1>3, <1>4, <1>6 DEF TypeOK, InboxOK

LEMMA CheckProcessedTyped ==
  ASSUME TypeOK, NEW w \in Workers, CheckProcessed(w)
  PROVE  InboxOK' /\ FrameOK' /\ EchoOK'
<1>1. frame[Echo][w].pc \in WaitSteps
  BY DEF CheckProcessed, At, WaitSteps
<1>2. UNCHANGED <<inbox, echoVars>>
  BY DEF CheckProcessed
<1>3. Goto(Echo, w, "resetHash") \/ Return(Echo, w)
  BY DEF CheckProcessed
<1>4. FrameOK'
  BY <1>1, <1>3, EchoGotoTyped, ReturnTyped, Constants DEF TypeOK, WaitSteps
<1> QED  BY <1>2, <1>4 DEF TypeOK, InboxOK, EchoOK, HashOK, echoVars

LEMMA ResetHashTyped ==
  ASSUME TypeOK, NEW w \in Workers, ResetHash(w)
  PROVE  InboxOK' /\ FrameOK' /\ EchoOK'
<1>1. frame[Echo][w].pc \in WaitSteps
  BY DEF ResetHash, At, WaitSteps
<1>2. messageHash' = EmptyHash /\ UNCHANGED <<inbox, replies>>
  BY DEF ResetHash
<1>3. EchoOK'
  BY <1>2 DEF TypeOK, EchoOK, HashOK, EmptyHash
<1>4. Goto(Echo, w, "esignal")
  BY DEF ResetHash
<1>5. FrameOK'
  BY <1>1, <1>4, EchoGotoTyped DEF TypeOK, WaitSteps
<1> QED  BY <1>2, <1>3, <1>5 DEF TypeOK, InboxOK

LEMMA SendSignalTyped ==
  ASSUME TypeOK, NEW w \in Workers, SendSignal(w)
  PROVE  InboxOK' /\ FrameOK' /\ EchoOK'
<1> DEFINE q == frame[Echo][w].k
<1>1. /\ frame[Echo][w] \in [pc : WaitSteps, k : QueueServers, item : WaitItems]
      /\ q \in QueueServers
  BY EchoActivation DEF SendSignal, At, TypeOK, WaitSteps
<1>2. Signal \in InboxItems(q) /\ q \in Operators
  BY <1>1, Constants DEF InboxItems
<1>3. InboxOK' /\ EchoOK'
  BY <1>2, SendTyped DEF SendSignal, TypeOK, EchoOK, HashOK, echoVars
<1>4. CASE q + 1 \in QueueServers
           /\ Become(Echo, w, [frame[Echo][w] EXCEPT !.k = q + 1])
  <2>1. [frame[Echo][w] EXCEPT !.k = q + 1]
          \in [pc : WaitSteps, k : QueueServers, item : WaitItems]
    BY <1>1, <1>4
  <2>2. [frame[Echo][w] EXCEPT !.k = q + 1] \in Activations(Echo)
    BY <2>1 DEF Activations, WaitSteps
  <2> QED  BY <1>3, <1>4, <2>2, BecomeTyped, Constants DEF TypeOK
<1>5. CASE Return(Echo, w)
  BY <1>3, <1>5, ReturnTyped, Constants DEF TypeOK
<1> QED  BY <1>4, <1>5 DEF SendSignal

LEMMA EchoServerTyped ==
  ASSUME TypeOK, NEW w \in Workers, EchoServerStep(w)
  PROVE  InboxOK' /\ FrameOK' /\ EchoOK'
<1>1. CASE Dispatch(Echo, w) /\ UNCHANGED echoVars
  BY <1>1, DispatchTyped, Constants DEF TypeOK, EchoOK, HashOK, echoVars
<1>2. CASE CheckRequest(w)    BY <1>2, CheckRequestTyped
<1>3. CASE InsertRequest(w)   BY <1>3, InsertRequestTyped
<1>4. CASE CheckReceived(w)   BY <1>4, CheckReceivedTyped
<1>5. CASE Reply(w)           BY <1>5, ReplyTyped
<1>6. CASE CheckWait(w)       BY <1>6, CheckWaitTyped
<1>7. CASE InsertWait(w)      BY <1>7, InsertWaitTyped
<1>8. CASE CheckProcessed(w)  BY <1>8, CheckProcessedTyped
<1>9. CASE ResetHash(w)       BY <1>9, ResetHashTyped
<1>10. CASE SendSignal(w)     BY <1>10, SendSignalTyped
<1> QED
  BY <1>1, <1>2, <1>3, <1>4, <1>5, <1>6, <1>7, <1>8, <1>9, <1>10 DEF EchoServerStep

-----------------------------------------------------------------------------
(***************************************************************************)
(* Type correctness.                                                       *)
(***************************************************************************)
LEMMA InitTyped == Init => TypeOK
<1> SUFFICES ASSUME Init PROVE TypeOK
  OBVIOUS
<1>1. InboxOK /\ FrameOK
  BY IdleTyped DEF Init, RuntimeInit, InboxOK, FrameOK
<1>2. QueueOK /\ EchoOK /\ arrived \in 0 .. MaxRequests
  BY RequestsAssumption
     DEF Init, QueueServerInit, EchoServerInit, EmptyHash, QueueOK, EchoOK, HashOK
<1> QED  BY <1>1, <1>2 DEF TypeOK

LEMMA ArriveTyped ==
  ASSUME TypeOK, Arrive
  PROVE  TypeOK'
<1>1. arrived + 1 \in Texts /\ arrived' \in 0 .. MaxRequests
  BY RequestsAssumption DEF Arrive, TypeOK, Texts
<1>2. Request(FromSocket(arrived + 1)) \in InboxItems(Primary)
  BY <1>1 DEF Request, InboxItems, SocketItems, SocketRequests
<1>3. InboxOK'
  BY <1>2, SendTyped, Constants DEF Arrive, TypeOK
<1> QED  BY <1>1, <1>3
            DEF Arrive, TypeOK, FrameOK, QueueOK, EchoOK, HashOK, queueVars, echoVars

LEMMA NextTyped == TypeOK /\ [Next]_vars => TypeOK'
<1> SUFFICES ASSUME TypeOK, [Next]_vars PROVE TypeOK'
  OBVIOUS
<1>1. CASE Arrive
  BY <1>1, ArriveTyped
<1>2. ASSUME NEW w \in Workers, NEW q \in QueueServers, QueueStep(q, w) PROVE TypeOK'
  BY <1>2, QueueServerTyped DEF QueueStep, TypeOK, EchoOK, HashOK, echoVars
<1>3. ASSUME NEW w \in Workers, EchoStep(w) PROVE TypeOK'
  BY <1>3, EchoServerTyped DEF EchoStep, TypeOK, QueueOK, queueVars
<1>4. CASE UNCHANGED vars
  BY <1>4 DEF vars, TypeOK, InboxOK, FrameOK, QueueOK, EchoOK, HashOK
<1> QED  BY <1>1, <1>2, <1>3, <1>4 DEF Next, SystemStep

\* Whatever the clients send and however the handlers interleave, every port,
\* handler, log and count holds values of its declared type.
THEOREM TypeCorrect == Spec => []TypeOK
BY InitTyped, NextTyped, PTL DEF Spec

-----------------------------------------------------------------------------
(***************************************************************************)
(* What the logs of the queue servers hold.                                *)
(***************************************************************************)
LEMMA BecomeFrame ==
  ASSUME FrameOK, NEW op \in Operators, NEW w \in Workers, NEW activation,
         Become(op, w, activation)
  PROVE  \A p \in Operators, v \in Workers :
           frame'[p][v] = IF p = op /\ v = w THEN activation ELSE frame[p][v]
BY DEF FrameOK, Become

LEMMA SendEnqueues ==
  ASSUME InboxOK, NEW dest \in Operators, NEW item, Send(dest, item)
  PROVE  \A op \in Operators :
           Enqueued(op)' \subseteq IF op = dest THEN Enqueued(op) \cup {item}
                                   ELSE Enqueued(op)
<1> SUFFICES ASSUME NEW op \in Operators
             PROVE  Enqueued(op)' \subseteq IF op = dest THEN Enqueued(op) \cup {item}
                                            ELSE Enqueued(op)
  OBVIOUS
<1>1. inbox' = [inbox EXCEPT ![dest] = Append(@, item)]  BY DEF Send
<1>2. CASE op # dest
  BY <1>1, <1>2 DEF Enqueued, InboxOK
<1>3. CASE op = dest
  <2>1. inbox'[op] = Append(inbox[op], item)
    BY <1>1, <1>3 DEF InboxOK
  <2>2. inbox[op] \in Seq(InboxItems(op))
    BY DEF InboxOK
  <2>3. \A i \in DOMAIN Append(inbox[op], item) :
          \/ Append(inbox[op], item)[i] = item
          \/ i \in DOMAIN inbox[op] /\ Append(inbox[op], item)[i] = inbox[op][i]
    BY <2>2
  <2> QED  BY <2>1, <2>3, <1>3 DEF Enqueued
<1> QED  BY <1>2, <1>3

LEMMA DispatchDequeues ==
  ASSUME InboxOK, NEW op \in Operators, NEW w \in Workers, Dispatch(op, w)
  PROVE  /\ Head(inbox[op]) \in Enqueued(op)
         /\ \A p \in Operators : Enqueued(p)' \subseteq Enqueued(p)
<1>1. inbox[op] \in Seq(InboxItems(op)) /\ inbox[op] # << >>
  BY DEF Dispatch, InboxOK
<1>2. Head(inbox[op]) \in Enqueued(op)
  BY <1>1 DEF Enqueued
<1>3. ASSUME NEW p \in Operators PROVE Enqueued(p)' \subseteq Enqueued(p)
  <2>1. CASE p # op
    BY <2>1 DEF Dispatch, Enqueued, InboxOK
  <2>2. CASE p = op
    <3>1. inbox'[p] = Tail(inbox[p])
      BY <2>2 DEF Dispatch, InboxOK
    <3>2. \A i \in DOMAIN Tail(inbox[p]) :
            i + 1 \in DOMAIN inbox[p] /\ Tail(inbox[p])[i] = inbox[p][i + 1]
      BY <1>1, <2>2
    <3> QED  BY <3>1, <3>2 DEF Enqueued
  <2> QED  BY <2>1, <2>2
<1> QED  BY <1>2, <1>3

-----------------------------------------------------------------------------
(***************************************************************************)
(* Provenance: a step preserves it if what the step enqueues and what the  *)
(* worker goes on with have the provenance their place calls for.          *)
(***************************************************************************)
LEMMA ProvenanceStep ==
  ASSUME TypeOK, Provenance, logged \subseteq logged',
         NEW op \in Operators, NEW w \in Workers, NEW activation,
         Become(op, w, activation), FrameProvenance(logged', op, activation),
         \A p \in Operators : \A item \in Enqueued(p)' :
           item \in Enqueued(p) \/ ItemProvenance(logged', p, item)
  PROVE  Provenance'
<1>1. ASSUME NEW p \in Operators, NEW item \in Enqueued(p)'
      PROVE  ItemProvenance(logged', p, item)
  BY <1>1 DEF Provenance, ItemProvenance, Recorded
<1>2. ASSUME NEW p \in Operators, NEW v \in Workers
      PROVE  FrameProvenance(logged', p, frame'[p][v])
  <2>1. CASE p = op /\ v = w
    BY <2>1, BecomeFrame DEF TypeOK
  <2>2. CASE ~(p = op /\ v = w)
    <3>1. frame'[p][v] = frame[p][v]
      BY <2>2, BecomeFrame DEF TypeOK
    <3>2. FrameProvenance(logged, p, frame[p][v])
      BY DEF Provenance
    <3> QED  BY <3>1, <3>2 DEF FrameProvenance, Recorded
  <2> QED  BY <2>1, <2>2
<1> QED  BY <1>1, <1>2 DEF Provenance

LEMMA IdleProvenance ==
  ASSUME NEW log, NEW op
  PROVE  FrameProvenance(log, op, Idle)
BY DEF FrameProvenance, Idle, Activation, LoggingSteps, RequestSteps

LEMMA ReturnProvenance ==
  ASSUME TypeOK, Provenance, NEW op \in Operators, NEW w \in Workers,
         Return(op, w), UNCHANGED <<inbox, logged>>
  PROVE  Provenance'
BY ProvenanceStep, IdleProvenance DEF Return, Enqueued

LEMMA DispatchProvenance ==
  ASSUME TypeOK, Provenance, NEW op \in Operators, NEW w \in Workers,
         Dispatch(op, w), UNCHANGED logged
  PROVE  Provenance'
<1> DEFINE item == Head(inbox[op])
           activation == Activation(EntryPoint(item), item)
<1>1. item \in Enqueued(op) /\ \A p \in Operators : Enqueued(p)' \subseteq Enqueued(p)
  BY DispatchDequeues DEF TypeOK
<1>2. ItemProvenance(logged, op, item)
  BY <1>1 DEF Provenance
<1>3. item \in InboxItems(op)
  BY DEF Dispatch, TypeOK, InboxOK
<1>4. CASE item.port = "in"
  <2>1. activation = [pc |-> "start", k |-> 0, item |-> item]
    BY <1>4 DEF EntryPoint, Activation
  <2>2. FrameProvenance(logged, op, activation)
    BY <1>2, <1>4, <2>1, Constants DEF FrameProvenance, ItemProvenance, LoggingSteps
  <2> QED  BY <2>2, <1>1, ProvenanceStep DEF Dispatch
<1>5. CASE item.port # "in"
  <2>1. item.port \in {"ewait", "qsignal"}
    BY <1>3, <1>5 DEF InboxItems, SocketItems, StampedItems, WaitItems, Signal
  <2>2. activation.pc \in {"wait", "pop"}
    BY <2>1 DEF EntryPoint, Activation
  <2>3. FrameProvenance(logged, op, activation)
    BY <2>2 DEF FrameProvenance, LoggingSteps, RequestSteps
  <2> QED  BY <2>3, <1>1, ProvenanceStep DEF Dispatch
<1> QED  BY <1>4, <1>5

-----------------------------------------------------------------------------
(***************************************************************************)
(* The queue servers.                                                      *)
(***************************************************************************)
LEMMA QueueProvenance ==
  ASSUME Provenance, NEW q \in QueueServers, NEW w \in Workers
  PROVE  /\ q \in Replicas /\ At(q, w, "start") => Forwarded(q, Data(q, w))
         /\ frame[q][w].pc \in LoggingSteps \cup {"out_repl"} => Accepted(q, Data(q, w))
         /\ At(q, w, "out") => Recorded(logged, Data(q, w))
BY Constants DEF Provenance, FrameProvenance, At, Data, Arg

\* Between the test of the size and the push a request is only passed on.
LEMMA GotoProvenance ==
  ASSUME TypeOK, Provenance, NEW q \in QueueServers, NEW w \in Workers,
         frame[q][w].pc \in LoggingSteps, NEW pc \in LoggingSteps, Goto(q, w, pc),
         logged \subseteq logged',
         pc = "out" => Recorded(logged', Data(q, w)),
         \A p \in Operators : \A item \in Enqueued(p)' :
           item \in Enqueued(p) \/ ItemProvenance(logged', p, item)
  PROVE  Provenance'
<1> DEFINE activation == [frame[q][w] EXCEPT !.pc = pc]
<1>1. frame[q][w] \in [pc : LoggingSteps, k : QueueServers, item : StampedItems]
  BY QueueActivation DEF TypeOK
<1>2. activation.pc = pc /\ activation.item = Arg(q, w)
  BY <1>1 DEF Arg
<1>3. Accepted(q, Data(q, w))
  BY QueueProvenance
<1>4. pc # "start" /\ q # Echo /\ q \in Operators
  BY Constants DEF LoggingSteps
<1>5. FrameProvenance(logged', q, activation)
  BY <1>2, <1>3, <1>4 DEF FrameProvenance, Data
<1> QED  BY <1>4, <1>5, ProvenanceStep DEF Goto

LEMMA VerifySignatureProvenance ==
  ASSUME TypeOK, Provenance, NEW w \in Workers, VerifySignature(w)
  PROVE  Provenance'
<1> DEFINE id == Len(requestQueue[Primary])
           stamped == [Data(Primary, w) EXCEPT !.queueServerID = Primary,
                                               !.messageID = id]
           activation == [Activation("out_repl", Request(stamped)) EXCEPT !.k = 1]
<1>1. UNCHANGED <<inbox, logged>>
  BY DEF VerifySignature, queueVars
<1>2. CASE Return(Primary, w)
  BY <1>1, <1>2, ReturnProvenance, Constants
<1>3. CASE Data(Primary, w).buffer \in Verified /\ Become(Primary, w, activation)
  <2>1. Data(Primary, w) \in SocketRequests
    BY QueueActivation, Constants DEF VerifySignature, TypeOK, Data, Arg, SocketItems
  <2>2. PICK t \in Texts : Data(Primary, w) = FromSocket(t)
    BY <2>1 DEF SocketRequests
  <2>3. Data(Primary, w) \in [buffer : {t}, numBytes : {t}, messageID : {Uninit},
                              queueServerID : {Uninit}, mac : {Uninit}]
    BY <2>2 DEF FromSocket
  <2>4. stamped.buffer = Data(Primary, w).buffer /\ stamped.queueServerID = Primary
    BY <2>3
  <2>5. activation = [pc |-> "out_repl", k |-> 1, item |-> [port |-> "in", data |-> stamped]]
    BY DEF Activation, Request
  <2>6. Accepted(Primary, stamped)
    BY <2>4, <1>3 DEF Accepted
  <2>7. activation.pc = "out_repl" /\ activation.item.data = stamped
    BY <2>5
  <2>8. FrameProvenance(logged', Primary, activation)
    BY <2>6, <2>7, Constants DEF FrameProvenance
  <2> QED  BY <1>1, <1>3, <2>8, ProvenanceStep, Constants DEF Enqueued
<1> QED  BY <1>2, <1>3 DEF VerifySignature

LEMMA ForwardProvenance ==
  ASSUME TypeOK, Provenance, NEW w \in Workers, Forward(w)
  PROVE  Provenance'
<1> DEFINE r == frame[Primary][w].k
           data == Data(Primary, w)
           copy == ReplicaCopy(data, r, genMac(data.buffer, PrimaryKeys[r]))
<1>1. /\ frame[Primary][w] \in [pc : {"out_repl"}, k : Replicas, item : StampedItems]
      /\ r \in Replicas
      /\ data \in StampedRequests
  BY QueueActivation, Constants DEF Forward, TypeOK, Data, Arg, StampedItems
<1>2. Accepted(Primary, data)
  BY <1>1, QueueProvenance, Constants
<1>3. /\ copy.queueServerID = r
      /\ copy.buffer = data.buffer
      /\ copy.mac = genMac(data.buffer, PrimaryKeys[r])
  BY <1>1 DEF ReplicaCopy, StampedRequests
<1>4. Forwarded(r, copy)
  BY <1>2, <1>3 DEF Forwarded, Accepted
<1>5. ItemProvenance(logged', r, Request(copy))
  BY <1>4, <1>1, Constants DEF ItemProvenance, Request
<1>6. \A p \in Operators : \A item \in Enqueued(p)' :
        item \in Enqueued(p) \/ ItemProvenance(logged', p, item)
  BY <1>1, <1>5, SendEnqueues, Constants DEF Forward, TypeOK
<1>7. logged' = logged
  BY DEF Forward, queueVars
<1>8. ASSUME NEW activation, Become(Primary, w, activation),
             activation.pc \in {"out_repl", "size"},
             activation.item = Arg(Primary, w)
      PROVE  Provenance'
  <2>1. FrameProvenance(logged', Primary, activation)
    BY <1>2, <1>8, Constants DEF FrameProvenance, Data
  <2> QED  BY <2>1, <1>6, <1>7, <1>8, ProvenanceStep, Constants
<1>9. CASE Become(Primary, w, [frame[Primary][w] EXCEPT !.k = r + 1])
  <2>1. /\ [frame[Primary][w] EXCEPT !.k = r + 1].pc = "out_repl"
        /\ [frame[Primary][w] EXCEPT !.k = r + 1].item = Arg(Primary, w)
    BY <1>1 DEF Arg
  <2> QED  BY <1>8, <1>9, <2>1
<1>10. CASE Goto(Primary, w, "size")
  <2>1. /\ [frame[Primary][w] EXCEPT !.pc = "size"].pc = "size"
        /\ [frame[Primary][w] EXCEPT !.pc = "size"].item = Arg(Primary, w)
    BY <1>1 DEF Arg
  <2> QED  BY <1>8, <1>10, <2>1 DEF Goto
<1> QED  BY <1>9, <1>10 DEF Forward

LEMMA VerifyMacProvenance ==
  ASSUME TypeOK, Provenance, NEW r \in QueueServers, r # Primary, NEW w \in Workers,
         VerifyMac(r, w)
  PROVE  Provenance'
<1> DEFINE data == Data(r, w)
           activation == Activation("size", Request(freeMac(data)))
<1>1. UNCHANGED <<inbox, logged>>
  BY DEF VerifyMac, queueVars
<1>2. CASE Return(r, w)
  BY <1>1, <1>2, ReturnProvenance, Constants
<1>3. CASE verifyMac(data.buffer, ReplicaKeys[r], data.mac) /\ Become(r, w, activation)
  <2>1. data \in StampedRequests /\ r \in Replicas
    BY QueueActivation, Constants DEF VerifyMac, TypeOK, Data, Arg, StampedItems
  <2>2. Forwarded(r, data)
    BY <2>1, QueueProvenance DEF VerifyMac
  <2>3. PrimaryKeys[r] = ReplicaKeys[r]
    BY <2>2, <1>3 DEF Forwarded, verifyMac, genMac
  <2>4. freeMac(data).buffer = data.buffer
        /\ freeMac(data).queueServerID = data.queueServerID
    BY <2>1 DEF freeMac, StampedRequests
  <2>5. Accepted(r, freeMac(data))
    BY <2>2, <2>3, <2>4 DEF Accepted, Forwarded
  <2>6. activation.pc = "size" /\ activation.item.data = freeMac(data)
    BY DEF Activation, Request
  <2>7. FrameProvenance(logged', r, activation)
    BY <2>5, <2>6, Constants DEF FrameProvenance
  <2> QED  BY <1>1, <1>3, <2>7, ProvenanceStep, Constants DEF Enqueued
<1> QED  BY <1>2, <1>3 DEF VerifyMac

LEMMA PushProvenance ==
  ASSUME TypeOK, Provenance, NEW q \in QueueServers, NEW w \in Workers, Push(q, w)
  PROVE  Provenance'
<1>1. frame[q][w].pc \in LoggingSteps
  BY DEF Push, At, LoggingSteps
<1>2. Data(q, w).queueServerID = q
  BY <1>1, QueueProvenance DEF Accepted
<1>3. logged \subseteq logged' /\ Recorded(logged', Data(q, w))
  BY <1>2 DEF Push, Recorded
<1>4. UNCHANGED inbox /\ Goto(q, w, "out")
  BY DEF Push
<1> QED  BY <1>1, <1>3, <1>4, GotoProvenance DEF Enqueued, LoggingSteps

LEMMA SendToEchoProvenance ==
  ASSUME TypeOK, Provenance, NEW q \in QueueServers, NEW w \in Workers, SendToEcho(q, w)
  PROVE  Provenance'
<1>1. Recorded(logged, Data(q, w))
  BY QueueProvenance DEF SendToEcho
<1>2. logged' = logged
  BY DEF SendToEcho, queueVars
<1>3. ItemProvenance(logged', Echo, Request(Data(q, w)))
  BY <1>1, <1>2, Constants DEF ItemProvenance, Request
<1>4. \A p \in Operators : \A item \in Enqueued(p)' :
        item \in Enqueued(p) \/ ItemProvenance(logged', p, item)
  BY <1>3, SendEnqueues, Constants DEF SendToEcho, TypeOK
<1> QED  BY <1>2, <1>4, ProvenanceStep, IdleProvenance, Constants DEF SendToEcho, Return

LEMMA FullLogProvenance ==
  ASSUME TypeOK, Provenance, NEW q \in QueueServers, NEW w \in Workers,
         CheckSize(q, w) \/ CheckLock(q, w) \/ SetLock(q, w)
  PROVE  Provenance'
<1>1. frame[q][w].pc \in LoggingSteps /\ UNCHANGED <<inbox, logged>>
  BY DEF CheckSize, CheckLock, SetLock, At, LoggingSteps, queueVars
<1>2. Return(q, w) \/ \E pc \in LoggingSteps \ {"out"} : Goto(q, w, pc)
  BY DEF CheckSize, CheckLock, SetLock, LoggingSteps
<1> QED  BY <1>1, <1>2, GotoProvenance, ReturnProvenance, Constants DEF Enqueued

LEMMA SendWaitProvenance ==
  ASSUME TypeOK, Provenance, NEW q \in QueueServers, NEW w \in Workers, SendWait(q, w)
  PROVE  Provenance'
<1>1. frame[q][w].pc \in LoggingSteps /\ logged' = logged
  BY DEF SendWait, At, LoggingSteps, queueVars
<1>2. \A log : ItemProvenance(log, Echo, Wait(q))
  BY DEF ItemProvenance, Wait
<1>3. \A p \in Operators : \A item \in Enqueued(p)' :
        item \in Enqueued(p) \/ ItemProvenance(logged', p, item)
  BY <1>2, SendEnqueues, Constants DEF SendWait, TypeOK
<1> QED  BY <1>1, <1>3, GotoProvenance DEF SendWait, LoggingSteps

LEMMA SignalProvenance ==
  ASSUME TypeOK, Provenance, NEW q \in QueueServers, NEW w \in Workers,
         PopAll(q, w) \/ ResetLock(q, w)
  PROVE  Provenance'
<1>1. UNCHANGED <<inbox, logged>>
  BY DEF PopAll, ResetLock
<1>2. CASE PopAll(q, w)
  <2> DEFINE activation == [frame[q][w] EXCEPT !.pc = "reset"]
  <2>1. frame[q][w] \in [pc : {"pop", "reset"}, k : {0}, item : {Signal}]
    BY <1>2, QueueActivation DEF PopAll, At, TypeOK
  <2>2. activation.pc = "reset"
    BY <2>1
  <2>3. FrameProvenance(logged', q, activation)
    BY <2>2 DEF FrameProvenance, LoggingSteps, RequestSteps
  <2> QED  BY <1>1, <1>2, <2>3, ProvenanceStep, Constants DEF PopAll, Goto, Enqueued
<1>3. CASE ResetLock(q, w)
  BY <1>1, <1>3, ReturnProvenance, Constants DEF ResetLock
<1> QED  BY <1>2, <1>3

LEMMA QueueServerProvenance ==
  ASSUME TypeOK, Provenance, NEW q \in QueueServers, NEW w \in Workers,
         QueueServerStep(q, w)
  PROVE  Provenance'
<1>1. CASE Dispatch(q, w) /\ UNCHANGED queueVars
  BY <1>1, DispatchProvenance, Constants DEF queueVars
<1>2. CASE q = Primary /\ VerifySignature(w)
  BY <1>2, VerifySignatureProvenance
<1>3. CASE q = Primary /\ Forward(w)
  BY <1>3, ForwardProvenance
<1>4. CASE q # Primary /\ VerifyMac(q, w)
  BY <1>4, VerifyMacProvenance
<1>5. CASE CheckSize(q, w)   BY <1>5, FullLogProvenance
<1>6. CASE CheckLock(q, w)   BY <1>6, FullLogProvenance
<1>7. CASE SendWait(q, w)    BY <1>7, SendWaitProvenance
<1>8. CASE SetLock(q, w)     BY <1>8, FullLogProvenance
<1>9. CASE Push(q, w)        BY <1>9, PushProvenance
<1>10. CASE SendToEcho(q, w) BY <1>10, SendToEchoProvenance
<1>11. CASE PopAll(q, w)     BY <1>11, SignalProvenance
<1>12. CASE ResetLock(q, w)  BY <1>12, SignalProvenance
<1> QED
  BY <1>1, <1>2, <1>3, <1>4, <1>5, <1>6, <1>7, <1>8, <1>9, <1>10, <1>11, <1>12
     DEF QueueServerStep

-----------------------------------------------------------------------------
(***************************************************************************)
(* The echo server and the network device.                                 *)
(***************************************************************************)
LEMMA EchoProvenance ==
  ASSUME Provenance, NEW w \in Workers, frame[Echo][w].pc \in RequestSteps
  PROVE  Recorded(logged, Arg(Echo, w).data)
BY Constants DEF Provenance, FrameProvenance, Arg

\* The echo server passes its argument from step to step and sends only signals.
LEMMA EchoGotoProvenance ==
  ASSUME TypeOK, Provenance, NEW w \in Workers, NEW pc, Goto(Echo, w, pc),
         \/ frame[Echo][w].pc \in RequestSteps /\ pc \in RequestSteps
         \/ frame[Echo][w].pc \in WaitSteps /\ pc \in WaitSteps,
         UNCHANGED <<inbox, logged>>
  PROVE  Provenance'
<1> DEFINE activation == [frame[Echo][w] EXCEPT !.pc = pc]
<1>1. activation.pc = pc /\ activation.item = Arg(Echo, w)
  <2>1. CASE frame[Echo][w].pc \in RequestSteps
    <3>1. frame[Echo][w] \in [pc : RequestSteps, k : {0}, item : StampedItems]
      BY <2>1, EchoActivation DEF TypeOK
    <3> QED  BY <3>1 DEF Arg
  <2>2. CASE frame[Echo][w].pc \in WaitSteps
    <3>1. frame[Echo][w] \in [pc : WaitSteps, k : QueueServers, item : WaitItems]
      BY <2>2, EchoActivation DEF TypeOK
    <3> QED  BY <3>1 DEF Arg
  <2> QED  BY <2>1, <2>2
<1>2. pc \in RequestSteps => Recorded(logged, Arg(Echo, w).data)
  BY EchoProvenance DEF RequestSteps, WaitSteps
<1>3. FrameProvenance(logged', Echo, activation)
  BY <1>1, <1>2, Constants DEF FrameProvenance
<1> QED  BY <1>3, ProvenanceStep, Constants DEF Goto, Enqueued

LEMMA EchoServerProvenance ==
  ASSUME TypeOK, Provenance, NEW w \in Workers, EchoServerStep(w), UNCHANGED logged
  PROVE  Provenance'
<1>1. CASE Dispatch(Echo, w)
  BY <1>1, DispatchProvenance, Constants
<1>2. CASE CheckRequest(w) \/ InsertRequest(w) \/ CheckReceived(w) \/ Reply(w)
  <2>1. frame[Echo][w].pc \in RequestSteps /\ UNCHANGED inbox
    BY <1>2 DEF CheckRequest, InsertRequest, CheckReceived, Reply, At, RequestSteps
  <2>2. Return(Echo, w) \/ \E pc \in RequestSteps : Goto(Echo, w, pc)
    BY <1>2 DEF CheckRequest, InsertRequest, CheckReceived, Reply, RequestSteps
  <2> QED  BY <2>1, <2>2, EchoGotoProvenance, ReturnProvenance, Constants
<1>3. CASE CheckWait(w) \/ InsertWait(w) \/ CheckProcessed(w) \/ ResetHash(w)
  <2>1. frame[Echo][w].pc \in WaitSteps /\ UNCHANGED inbox
    BY <1>3 DEF CheckWait, InsertWait, CheckProcessed, ResetHash, At, WaitSteps
  <2>2. Return(Echo, w) \/ \E pc \in WaitSteps : Goto(Echo, w, pc)
    BY <1>3 DEF CheckWait, InsertWait, CheckProcessed, ResetHash, WaitSteps
  <2> QED  BY <2>1, <2>2, EchoGotoProvenance, ReturnProvenance, Constants
<1>4. CASE SendSignal(w)
  <2> DEFINE q == frame[Echo][w].k
  <2>1. /\ frame[Echo][w] \in [pc : WaitSteps, k : QueueServers, item : WaitItems]
        /\ q \in QueueServers
        /\ frame[Echo][w].pc = "esignal"
    BY <1>4, EchoActivation DEF SendSignal, At, TypeOK, WaitSteps
  <2>2. \A log : ItemProvenance(log, q, Signal)
    BY DEF ItemProvenance, Signal
  <2>3. \A p \in Operators : \A item \in Enqueued(p)' :
          item \in Enqueued(p) \/ ItemProvenance(logged', p, item)
    BY <1>4, <2>1, <2>2, SendEnqueues, Constants DEF SendSignal, TypeOK
  <2>4. CASE Become(Echo, w, [frame[Echo][w] EXCEPT !.k = q + 1])
    <3>1. [frame[Echo][w] EXCEPT !.k = q + 1].pc = "esignal"
      BY <2>1
    <3>2. FrameProvenance(logged', Echo, [frame[Echo][w] EXCEPT !.k = q + 1])
      BY <3>1, Constants DEF FrameProvenance, LoggingSteps, RequestSteps
    <3> QED  BY <2>3, <2>4, <3>2, ProvenanceStep, Constants
  <2>5. CASE Return(Echo, w)
    BY <2>3, <2>5, ProvenanceStep, IdleProvenance, Constants DEF Return
  <2> QED  BY <1>4, <2>4, <2>5 DEF SendSignal
<1> QED  BY <1>1, <1>2, <1>3, <1>4 DEF EchoServerStep

LEMMA ArriveProvenance ==
  ASSUME TypeOK, Provenance, Arrive
  PROVE  Provenance'
<1> DEFINE item == Request(FromSocket(arrived + 1))
<1>1. frame' = frame /\ logged' = logged
  BY DEF Arrive, queueVars
<1>2. ItemProvenance(logged, Primary, item)
  BY Constants DEF ItemProvenance
<1>3. ASSUME NEW p \in Operators, NEW j \in Enqueued(p)'
      PROVE  ItemProvenance(logged, p, j)
  BY <1>2, <1>3, SendEnqueues, Constants DEF Arrive, Provenance, TypeOK
<1> QED  BY <1>1, <1>3 DEF Provenance

LEMMA NextProvenance == TypeOK /\ Provenance /\ [Next]_vars => Provenance'
<1> SUFFICES ASSUME TypeOK, Provenance, [Next]_vars PROVE Provenance'
  OBVIOUS
<1>1. CASE Arrive
  BY <1>1, ArriveProvenance
<1>2. ASSUME NEW w \in Workers, NEW q \in QueueServers, QueueStep(q, w) PROVE Provenance'
  BY <1>2, QueueServerProvenance DEF QueueStep
<1>3. ASSUME NEW w \in Workers, EchoStep(w) PROVE Provenance'
  BY <1>3, EchoServerProvenance DEF EchoStep, queueVars
<1>4. CASE UNCHANGED vars
  BY <1>4 DEF vars, Provenance, Enqueued
<1> QED  BY <1>1, <1>2, <1>3, <1>4 DEF Next, SystemStep

LEMMA InitProvenance == Init => Provenance
BY IdleProvenance, Constants
   DEF Init, RuntimeInit, Provenance, Enqueued

\* Where a request is tells what has been done for it, in every reachable state.
THEOREM ProvenanceKept == Spec => []Provenance
<1>1. Init => TypeOK /\ Provenance
  BY InitTyped, InitProvenance
<1>2. TypeOK /\ Provenance /\ [Next]_vars => (TypeOK /\ Provenance)'
  BY NextTyped, NextProvenance
<1> QED  BY <1>1, <1>2, PTL DEF Spec

-----------------------------------------------------------------------------
(***************************************************************************)
(* Only Push adds to the logs and only InsertRequest counts a queue server *)
(* for a message.                                                          *)
(***************************************************************************)
LEMMA OnlyPushLogs ==
  ASSUME [Next]_vars
  PROVE  \/ UNCHANGED logged
         \/ \E q \in QueueServers, w \in Workers : Push(q, w)
<1>1. CASE Arrive  BY <1>1 DEF Arrive, queueVars
<1>2. ASSUME NEW w \in Workers, NEW q \in QueueServers, QueueStep(q, w)
      PROVE  UNCHANGED logged \/ Push(q, w)
  BY <1>2
     DEF QueueStep, QueueServerStep, VerifySignature, Forward, VerifyMac, CheckSize,
         CheckLock, SendWait, SetLock, SendToEcho, PopAll, ResetLock, queueVars
<1>3. ASSUME NEW w \in Workers, EchoStep(w) PROVE UNCHANGED logged
  BY <1>3 DEF EchoStep, queueVars
<1>4. CASE UNCHANGED vars  BY <1>4 DEF vars
<1> QED  BY <1>1, <1>2, <1>3, <1>4 DEF Next, SystemStep

LEMMA AuthenticStep ==
  ASSUME TypeOK, Provenance, AuthenticLogs, [Next]_vars
  PROVE  AuthenticLogs'
<1>1. CASE UNCHANGED logged
  BY <1>1 DEF AuthenticLogs
<1>2. ASSUME NEW q \in QueueServers, NEW w \in Workers, Push(q, w)
      PROVE  AuthenticLogs'
  <2>1. Accepted(q, Data(q, w))
    BY <1>2, QueueProvenance DEF Push, At, LoggingSteps
  <2>2. logged' = logged \cup {<<q, Data(q, w).buffer, Data(q, w).messageID>>}
    BY <1>2 DEF Push
  <2> QED  BY <2>1, <2>2 DEF AuthenticLogs, Accepted
<1> QED  BY <1>1, <1>2, OnlyPushLogs

LEMMA CountAfterLookup ==
  ASSUME NEW key, messageHash' = Touch(messageHash, key), logged' = logged,
         CountedWasLogged
  PROVE  CountedWasLogged'
BY DEF CountedWasLogged, Touch

LEMMA CountAfterInsert ==
  ASSUME HashOK, CountedWasLogged, logged' = logged,
         NEW key, NEW server,
         messageHash' = insertMsgHash(messageHash, key, server),
         key # WaitKey =>
           \E entry \in logged : entry[1] = server /\ entry[3] % 65536 = key
  PROVE  CountedWasLogged'
<1> DEFINE seen == IF key \in DOMAIN messageHash /\ messageHash[key] # Null
                   THEN messageHash[key] ELSE {}
           Evidence(q, j) == \E entry \in logged : entry[1] = q /\ entry[3] % 65536 = j
<1>1. messageHash' = [Touch(messageHash, key) EXCEPT ![key] = seen \cup {server}]
  BY DEF insertMsgHash
<1>2. key # WaitKey => \A q \in seen \cup {server} : Evidence(q, key)
  BY DEF CountedWasLogged
<1>3. \A j \in DOMAIN messageHash \ {WaitKey} :
        messageHash[j] # Null => \A q \in messageHash[j] : Evidence(q, j)
  BY DEF CountedWasLogged
<1> HIDE DEF seen, Evidence
<1>4. /\ DOMAIN messageHash' = DOMAIN messageHash \cup {key}
      /\ \A j \in DOMAIN messageHash' :
           messageHash'[j] = IF j = key THEN seen \cup {server} ELSE messageHash[j]
  BY <1>1 DEF Touch
<1>5. \A j \in DOMAIN messageHash' \ {WaitKey} :
        messageHash'[j] # Null => \A q \in messageHash'[j] : Evidence(q, j)
  BY <1>2, <1>3, <1>4
<1> QED  BY <1>5 DEF CountedWasLogged, Evidence

LEMMA CountedStep ==
  ASSUME TypeOK, Provenance, CountedWasLogged, [Next]_vars
  PROVE  CountedWasLogged'
<1>1. ASSUME UNCHANGED messageHash PROVE CountedWasLogged'
  <2>1. logged \subseteq logged'
    BY OnlyPushLogs DEF Push
  <2> QED  BY <1>1, <2>1 DEF CountedWasLogged
<1>2. CASE Arrive
  BY <1>1, <1>2 DEF Arrive, echoVars
<1>3. ASSUME NEW w \in Workers, NEW q \in QueueServers, QueueStep(q, w)
      PROVE  CountedWasLogged'
  BY <1>1, <1>3 DEF QueueStep, echoVars
<1>4. ASSUME NEW w \in Workers, EchoStep(w) PROVE CountedWasLogged'
  <2>1. logged' = logged
    BY <1>4 DEF EchoStep, queueVars
  <2>2. CASE CheckRequest(w) \/ CheckReceived(w)
    BY <2>1, <2>2, CountAfterLookup DEF CheckRequest, CheckReceived
  <2>3. CASE CheckWait(w)
    BY <2>1, <2>3, CountAfterLookup DEF CheckWait
  <2>4. CASE InsertRequest(w)
    <3>1. Recorded(logged, Arg(Echo, w).data)
      BY <2>4, EchoProvenance DEF InsertRequest, At, RequestSteps
    <3>2. \E entry \in logged : entry[1] = ServerID(w) /\ entry[3] % 65536 = MessageID(w)
      BY <3>1 DEF Recorded, ServerID, MessageID, getMessageID
    <3>3. messageHash' = insertMsgHash(messageHash, MessageID(w), ServerID(w))
      BY <2>4 DEF InsertRequest
    <3> QED  BY <2>1, <3>2, <3>3, CountAfterInsert DEF TypeOK, EchoOK
  <2>5. CASE InsertWait(w)
    BY <2>1, <2>5, CountAfterInsert DEF InsertWait, TypeOK, EchoOK
  <2>6. CASE ResetHash(w)
    BY <2>6 DEF ResetHash, EmptyHash, CountedWasLogged
  <2>7. CASE UNCHANGED messageHash
    BY <1>1, <2>7
  <2> QED  BY <1>4, <2>2, <2>3, <2>4, <2>5, <2>6, <2>7
              DEF EchoStep, EchoServerStep, Reply, CheckProcessed, SendSignal, echoVars
<1>5. CASE UNCHANGED vars
  BY <1>1, <1>5 DEF vars
<1> QED  BY <1>2, <1>3, <1>4, <1>5 DEF Next, SystemStep

\* A queue server logs only requests whose signature the primary has verified,
\* and a replica only those whose digest its key confirms, with any number of
\* workers per operator.
THEOREM LogsAuthentic == Spec => []AuthenticLogs
<1>1. Init => TypeOK /\ Provenance /\ AuthenticLogs
  BY InitTyped, InitProvenance DEF Init, QueueServerInit, AuthenticLogs
<1>2. TypeOK /\ Provenance /\ AuthenticLogs /\ [Next]_vars
        => (TypeOK /\ Provenance /\ AuthenticLogs)'
  BY NextTyped, NextProvenance, AuthenticStep
<1> QED  BY <1>1, <1>2, PTL DEF Spec

\* The echo server counts a queue server for a message id only after that queue
\* server has logged a request with it, with any number of workers per operator.
THEOREM CountsLogged == Spec => []CountedWasLogged
<1>1. Init => TypeOK /\ Provenance /\ CountedWasLogged
  BY InitTyped, InitProvenance DEF Init, EchoServerInit, EmptyHash, CountedWasLogged
<1>2. TypeOK /\ Provenance /\ CountedWasLogged /\ [Next]_vars
        => (TypeOK /\ Provenance /\ CountedWasLogged)'
  BY NextTyped, NextProvenance, CountedStep
<1> QED  BY <1>1, <1>2, PTL DEF Spec

-----------------------------------------------------------------------------
(***************************************************************************)
(* The size of the logs and the message ids, with one worker per operator. *)
(* What makes the bound and the numbering inductive is LogReadsCurrent:    *)
(* what a handler read off the log, that there is room and how long the    *)
(* primary's log is, still holds when it pushes.                           *)
(***************************************************************************)
LogReadsCurrent ==
  /\ \A q \in QueueServers, w \in Workers :
       At(q, w, "push") => Len(requestQueue[q]) < MAX_QUEUE_SIZE
  /\ \A w \in Workers :
       frame[Primary][w].pc \in {"out_repl", "size", "push"} =>
         Data(Primary, w).messageID = Len(requestQueue[Primary])

LogFits == \A q \in QueueServers : Len(requestQueue[q]) <= MAX_QUEUE_SIZE

LogsInv == LogReadsCurrent /\ LogFits /\ IdsNumberPrimaryLog

LEMMA LogsInvKept ==
  ASSUME TypeOK, LogsInv, UNCHANGED requestQueue,
         NEW op \in Operators, NEW w \in Workers, NEW activation,
         Become(op, w, activation),
         op \in QueueServers /\ activation.pc = "push" =>
           Len(requestQueue[op]) < MAX_QUEUE_SIZE,
         op = Primary /\ activation.pc \in {"out_repl", "size", "push"} =>
           activation.item.data.messageID = Len(requestQueue[Primary])
  PROVE  LogsInv'
<1>1. ASSUME NEW q \in QueueServers, NEW v \in Workers, At(q, v, "push")'
      PROVE  Len(requestQueue[q]) < MAX_QUEUE_SIZE
  BY <1>1, BecomeFrame, Constants DEF LogsInv, LogReadsCurrent, At, TypeOK
<1>2. ASSUME NEW v \in Workers, frame'[Primary][v].pc \in {"out_repl", "size", "push"}
      PROVE  frame'[Primary][v].item.data.messageID = Len(requestQueue[Primary])
  BY <1>2, BecomeFrame, Constants DEF LogsInv, LogReadsCurrent, TypeOK, Data, Arg
<1> QED
  BY <1>1, <1>2
     DEF LogsInv, LogReadsCurrent, LogFits, IdsNumberPrimaryLog, Data, Arg

LEMMA LogsInvGoto ==
  ASSUME TypeOK, LogsInv, UNCHANGED requestQueue,
         NEW q \in QueueServers, NEW w \in Workers,
         frame[q][w].pc \in LoggingSteps, NEW pc \in LoggingSteps \ {"size"},
         Goto(q, w, pc),
         pc = "push" => At(q, w, "size") /\ Len(requestQueue[q]) < MAX_QUEUE_SIZE
  PROVE  LogsInv'
<1> DEFINE activation == [frame[q][w] EXCEPT !.pc = pc]
<1>1. frame[q][w] \in [pc : LoggingSteps, k : QueueServers, item : StampedItems]
  BY QueueActivation DEF TypeOK
<1>2. activation.pc = pc /\ activation.item = Arg(q, w)
  BY <1>1 DEF Arg
<1>3. q = Primary /\ activation.pc \in {"out_repl", "size", "push"} =>
        activation.item.data.messageID = Len(requestQueue[Primary])
  BY <1>2 DEF LogsInv, LogReadsCurrent, Data, At, LoggingSteps
<1> QED  BY <1>2, <1>3, LogsInvKept, Constants DEF Goto

LEMMA LogsInvReturn ==
  ASSUME TypeOK, LogsInv, UNCHANGED requestQueue,
         NEW op \in Operators, NEW w \in Workers, Return(op, w)
  PROVE  LogsInv'
BY LogsInvKept DEF Return, Idle, Activation

LEMMA LogsInvDispatch ==
  ASSUME TypeOK, LogsInv, UNCHANGED requestQueue,
         NEW op \in Operators, NEW w \in Workers, Dispatch(op, w)
  PROVE  LogsInv'
<1> DEFINE item == Head(inbox[op])
           activation == Activation(EntryPoint(item), item)
<1>1. item \in InboxItems(op)
  BY DEF Dispatch, TypeOK, InboxOK
<1>2. item.port \in {"in", "ewait", "qsignal"}
  BY <1>1 DEF InboxItems, SocketItems, StampedItems, WaitItems, Signal
<1>3. activation.pc \in {"start", "wait", "pop"}
  BY <1>2 DEF EntryPoint, Activation
<1> QED  BY <1>3, LogsInvKept DEF Dispatch

LEMMA LogsInvVerifySignature ==
  ASSUME TypeOK, LogsInv, NEW w \in Workers, VerifySignature(w)
  PROVE  LogsInv'
<1> DEFINE id == Len(requestQueue[Primary])
           stamped == [Data(Primary, w) EXCEPT !.queueServerID = Primary,
                                               !.messageID = id]
           activation == [Activation("out_repl", Request(stamped)) EXCEPT !.k = 1]
<1>1. UNCHANGED requestQueue
  BY DEF VerifySignature, queueVars
<1>2. CASE Return(Primary, w)
  BY <1>1, <1>2, LogsInvReturn, Constants
<1>3. CASE Become(Primary, w, activation)
  <2>1. Data(Primary, w) \in SocketRequests
    BY QueueActivation, Constants DEF VerifySignature, TypeOK, Data, Arg, SocketItems
  <2>2. PICK t \in Texts : Data(Primary, w) = FromSocket(t)
    BY <2>1 DEF SocketRequests
  <2>3. Data(Primary, w) \in [buffer : {t}, numBytes : {t}, messageID : {Uninit},
                              queueServerID : {Uninit}, mac : {Uninit}]
    BY <2>2 DEF FromSocket
  <2>4. stamped.messageID = id
    BY <2>3
  <2>5. activation = [pc |-> "out_repl", k |-> 1, item |-> [port |-> "in", data |-> stamped]]
    BY DEF Activation, Request
  <2>6. activation.pc = "out_repl" /\ activation.item.data.messageID = id
    <3> HIDE DEF stamped, id, activation
    <3> QED  BY <2>4, <2>5
  <2> QED  BY <1>1, <1>3, <2>6, LogsInvKept, Constants
<1> QED  BY <1>2, <1>3 DEF VerifySignature

LEMMA LogsInvForward ==
  ASSUME TypeOK, LogsInv, NEW w \in Workers, Forward(w)
  PROVE  LogsInv'
<1>1. /\ frame[Primary][w] \in [pc : {"out_repl"}, k : Replicas, item : StampedItems]
      /\ UNCHANGED requestQueue
  BY QueueActivation, Constants DEF Forward, TypeOK, queueVars
<1>2. Data(Primary, w).messageID = Len(requestQueue[Primary])
  BY <1>1 DEF LogsInv, LogReadsCurrent
<1>3. ASSUME NEW activation, Become(Primary, w, activation),
             activation.pc # "push", activation.item = Arg(Primary, w)
      PROVE  LogsInv'
  BY <1>1, <1>2, <1>3, LogsInvKept, Constants DEF Data
<1>4. CASE Become(Primary, w, [frame[Primary][w] EXCEPT !.k = frame[Primary][w].k + 1])
  <2>1. /\ [frame[Primary][w] EXCEPT !.k = frame[Primary][w].k + 1].pc = "out_repl"
        /\ [frame[Primary][w] EXCEPT !.k = frame[Primary][w].k + 1].item = Arg(Primary, w)
    BY <1>1 DEF Arg
  <2> QED  BY <1>3, <1>4, <2>1
<1>5. CASE Goto(Primary, w, "size")
  <2>1. /\ [frame[Primary][w] EXCEPT !.pc = "size"].pc = "size"
        /\ [frame[Primary][w] EXCEPT !.pc = "size"].item = Arg(Primary, w)
    BY <1>1 DEF Arg
  <2> QED  BY <1>3, <1>5, <2>1 DEF Goto
<1> QED  BY <1>4, <1>5 DEF Forward

LEMMA LogsInvVerifyMac ==
  ASSUME TypeOK, LogsInv, NEW r \in QueueServers, r # Primary, NEW w \in Workers,
         VerifyMac(r, w)
  PROVE  LogsInv'
<1>1. UNCHANGED requestQueue
  BY DEF VerifyMac, queueVars
<1>2. Activation("size", Request(freeMac(Data(r, w)))).pc = "size"
  BY DEF Activation
<1> QED  BY <1>1, <1>2, LogsInvReturn, LogsInvKept, Constants DEF VerifyMac

\* With one worker, no other handler of the queue server is between its read of
\* the log and its push, so neither can be outdated by a change of the log.
LEMMA LogsInvPush ==
  ASSUME Serial, TypeOK, LogsInv, NEW q \in QueueServers, NEW w \in Workers, Push(q, w)
  PROVE  LogsInv'
<1> DEFINE log == requestQueue[q]
           data == Data(q, w)
<1>1. requestQueue \in [QueueServers -> Seq(StampedRequests)] /\ log \in Seq(StampedRequests)
  BY DEF TypeOK, QueueOK
<1>2. /\ requestQueue' = [requestQueue EXCEPT ![q] = Append(log, data)]
      /\ Len(log) < MAX_QUEUE_SIZE
      /\ q = Primary => data.messageID = Len(log)
  BY DEF Push, LogsInv, LogReadsCurrent, At
<1>3. \A p \in QueueServers :
        requestQueue'[p] = IF p = q THEN Append(log, data) ELSE requestQueue[p]
  BY <1>1, <1>2
<1>4. \A p \in Operators, v \in Workers :
        frame'[p][v] = IF p = q THEN [frame[q][w] EXCEPT !.pc = "out"] ELSE frame[p][v]
  BY BecomeFrame, Constants DEF Push, Goto, TypeOK, Serial
<1>5. [frame[q][w] EXCEPT !.pc = "out"].pc = "out"
  <2>1. frame[q][w] \in [pc : LoggingSteps, k : QueueServers, item : StampedItems]
    BY QueueActivation DEF Push, At, TypeOK, LoggingSteps
  <2> QED  BY <2>1
<1>6. Len(Append(log, data)) = Len(log) + 1
  BY <1>1
<1>7. LogFits'
  BY <1>1, <1>2, <1>3, <1>6, QueueServerAssumption DEF LogFits, LogsInv
<1>8. LogReadsCurrent'
  <2>1. ASSUME NEW p \in QueueServers, NEW v \in Workers, frame'[p][v].pc = "push"
        PROVE  Len(requestQueue'[p]) < MAX_QUEUE_SIZE
    <3>1. p # q /\ frame'[p][v] = frame[p][v]
      BY <2>1, <1>4, <1>5, Constants
    <3> QED  BY <2>1, <3>1, <1>3, ZenonT(40) DEF LogReadsCurrent, LogsInv, At
  <2>2. ASSUME NEW v \in Workers, frame'[Primary][v].pc \in {"out_repl", "size", "push"}
        PROVE  frame'[Primary][v].item.data.messageID = Len(requestQueue'[Primary])
    <3>1. Primary # q /\ frame'[Primary][v] = frame[Primary][v]
      BY <2>2, <1>4, <1>5, Constants
    <3> QED  BY <2>2, <3>1, <1>3, Constants DEF LogReadsCurrent, LogsInv, Data, Arg
  <2> QED  BY <2>1, <2>2 DEF LogReadsCurrent, At, Data, Arg
<1>9. IdsNumberPrimaryLog'
  <2>1. CASE q # Primary
    BY <1>3, <2>1, Constants DEF IdsNumberPrimaryLog, LogsInv
  <2>2. CASE q = Primary
    <3>1. ASSUME NEW i \in DOMAIN Append(log, data)
          PROVE  Append(log, data)[i].messageID = i - 1
      <4>1. CASE i \in DOMAIN log
        <5>1. Append(log, data)[i] = log[i]
          BY <1>1, <4>1
        <5>2. log[i].messageID = i - 1
          BY <2>2, <4>1 DEF IdsNumberPrimaryLog, LogsInv
        <5> QED  BY <5>1, <5>2
      <4>2. CASE i = Len(log) + 1
        <5>1. Append(log, data)[i] = data /\ i - 1 = Len(log)
          BY <1>1, <4>2
        <5> QED  BY <1>2, <2>2, <5>1
      <4> QED  BY <1>1, <3>1, <4>1, <4>2
    <3> QED  BY <1>3, <2>2, <3>1 DEF IdsNumberPrimaryLog
  <2> QED  BY <2>1, <2>2
<1> QED  BY <1>7, <1>8, <1>9 DEF LogsInv

LEMMA LogsInvPopAll ==
  ASSUME Serial, TypeOK, LogsInv, NEW q \in QueueServers, NEW w \in Workers, PopAll(q, w)
  PROVE  LogsInv'
<1>1. \A p \in QueueServers :
        requestQueue'[p] = IF p = q THEN << >> ELSE requestQueue[p]
  BY DEF PopAll, TypeOK, QueueOK
<1>2. \A p \in Operators, v \in Workers :
        frame'[p][v] = IF p = q THEN [frame[q][w] EXCEPT !.pc = "reset"] ELSE frame[p][v]
  BY BecomeFrame, Constants DEF PopAll, Goto, TypeOK, Serial
<1>3. [frame[q][w] EXCEPT !.pc = "reset"].pc = "reset"
  <2>1. frame[q][w] \in [pc : {"pop", "reset"}, k : {0}, item : {Signal}]
    BY QueueActivation DEF PopAll, At, TypeOK
  <2> QED  BY <2>1
<1>4. Len(<< >>) = 0 /\ DOMAIN << >> = {} /\ 0 <= MAX_QUEUE_SIZE
  BY QueueServerAssumption
<1>5. LogReadsCurrent'
  <2>1. ASSUME NEW p \in QueueServers, NEW v \in Workers, frame'[p][v].pc = "push"
        PROVE  Len(requestQueue'[p]) < MAX_QUEUE_SIZE
    <3>1. p # q /\ frame'[p][v] = frame[p][v]
      BY <2>1, <1>2, <1>3, Constants
    <3> QED  BY <2>1, <3>1, <1>1, ZenonT(40) DEF LogReadsCurrent, LogsInv, At
  <2>2. ASSUME NEW v \in Workers, frame'[Primary][v].pc \in {"out_repl", "size", "push"}
        PROVE  frame'[Primary][v].item.data.messageID = Len(requestQueue'[Primary])
    <3>1. Primary # q /\ frame'[Primary][v] = frame[Primary][v]
      BY <2>2, <1>2, <1>3, Constants
    <3> QED  BY <2>2, <3>1, <1>1, Constants DEF LogReadsCurrent, LogsInv, Data, Arg
  <2> QED  BY <2>1, <2>2 DEF LogReadsCurrent, At, Data, Arg
<1>6. LogFits'
  BY <1>1, <1>4 DEF LogFits, LogsInv
<1>7. IdsNumberPrimaryLog'
  BY <1>1, <1>4, Constants DEF IdsNumberPrimaryLog, LogsInv
<1> QED  BY <1>5, <1>6, <1>7 DEF LogsInv

LEMMA LogsInvQueueServer ==
  ASSUME Serial, TypeOK, LogsInv, NEW q \in QueueServers, NEW w \in Workers,
         QueueServerStep(q, w)
  PROVE  LogsInv'
<1>1. CASE Dispatch(q, w) /\ UNCHANGED queueVars
  BY <1>1, LogsInvDispatch, Constants DEF queueVars
<1>2. CASE q = Primary /\ VerifySignature(w)
  BY <1>2, LogsInvVerifySignature
<1>3. CASE q = Primary /\ Forward(w)
  BY <1>3, LogsInvForward
<1>4. CASE q # Primary /\ VerifyMac(q, w)
  BY <1>4, LogsInvVerifyMac
<1>5. CASE CheckSize(q, w)
  <2>1. Len(requestQueue[q]) < MAX_QUEUE_SIZE \/ Goto(q, w, "state")
    BY <1>5 DEF CheckSize
  <2> QED  BY <1>5, LogsInvGoto DEF CheckSize, At, LoggingSteps, queueVars
<1>6. CASE CheckLock(q, w)
  BY <1>6, LogsInvGoto, LogsInvReturn, Constants DEF CheckLock, At, LoggingSteps, queueVars
<1>7. CASE SendWait(q, w)
  BY <1>7, LogsInvGoto DEF SendWait, At, LoggingSteps, queueVars
<1>8. CASE SetLock(q, w)
  BY <1>8, LogsInvReturn, Constants DEF SetLock
<1>9. CASE Push(q, w)
  BY <1>9, LogsInvPush
<1>10. CASE SendToEcho(q, w)
  BY <1>10, LogsInvReturn, Constants DEF SendToEcho, queueVars
<1>11. CASE PopAll(q, w)
  BY <1>11, LogsInvPopAll
<1>12. CASE ResetLock(q, w)
  BY <1>12, LogsInvReturn, Constants DEF ResetLock
<1> QED
  BY <1>1, <1>2, <1>3, <1>4, <1>5, <1>6, <1>7, <1>8, <1>9, <1>10, <1>11, <1>12
     DEF QueueServerStep

\* The echo server moves none of the queue servers' frames.
LEMMA LogsInvEchoServer ==
  ASSUME TypeOK, LogsInv, NEW w \in Workers, EchoStep(w)
  PROVE  LogsInv'
<1>1. \E activation : Become(Echo, w, activation)
  BY DEF EchoStep, EchoServerStep, Dispatch, CheckRequest, InsertRequest, CheckReceived,
         Reply, CheckWait, InsertWait, CheckProcessed, ResetHash, SendSignal, Goto, Return
<1>2. PICK activation : Become(Echo, w, activation)
  BY <1>1
<1>3. requestQueue' = requestQueue
  BY DEF EchoStep, queueVars
<1> QED  BY <1>2, <1>3, LogsInvKept, Constants

LEMMA NextLogsInv == Serial /\ TypeOK /\ LogsInv /\ [Next]_vars => LogsInv'
<1> SUFFICES ASSUME Serial, TypeOK, LogsInv, [Next]_vars PROVE LogsInv'
  OBVIOUS
<1>1. ASSUME UNCHANGED <<frame, requestQueue>> PROVE LogsInv'
  BY <1>1 DEF LogsInv, LogReadsCurrent, LogFits, IdsNumberPrimaryLog, At, Data, Arg
<1>2. CASE Arrive
  BY <1>1, <1>2 DEF Arrive, queueVars
<1>3. ASSUME NEW w \in Workers, NEW q \in QueueServers, QueueStep(q, w) PROVE LogsInv'
  BY <1>3, LogsInvQueueServer DEF QueueStep
<1>4. ASSUME NEW w \in Workers, EchoStep(w) PROVE LogsInv'
  BY <1>4, LogsInvEchoServer
<1>5. CASE UNCHANGED vars
  BY <1>1, <1>5 DEF vars
<1> QED  BY <1>2, <1>3, <1>4, <1>5 DEF Next, SystemStep

LEMMA InitLogsInv == Init => LogsInv
<1> SUFFICES ASSUME Init PROVE LogsInv
  OBVIOUS
<1>1. \A q \in QueueServers : requestQueue[q] = << >>
  BY DEF Init, QueueServerInit
<1>2. \A op \in Operators, w \in Workers : frame[op][w].pc = "idle"
  BY DEF Init, RuntimeInit, Idle, Activation
<1>3. Len(<< >>) = 0 /\ DOMAIN << >> = {} /\ 0 <= MAX_QUEUE_SIZE
  BY QueueServerAssumption
<1> QED
  BY <1>1, <1>2, <1>3, Constants
     DEF LogsInv, LogReadsCurrent, LogFits, IdsNumberPrimaryLog, At

\* When the handlers of an operator do not overlap, what a handler read off a
\* log is still so when it pushes, no log exceeds MAX_QUEUE_SIZE, and every
\* message id is the position of its request in the primary's log.
THEOREM LogsNumbered == ASSUME Serial PROVE Spec => []LogsInv
<1>1. Init => TypeOK /\ LogsInv
  BY InitTyped, InitLogsInv
<1>2. TypeOK /\ LogsInv /\ [Next]_vars => (TypeOK /\ LogsInv)'
  BY NextTyped, NextLogsInv
<1> QED  BY <1>1, <1>2, PTL DEF Spec

\* No two requests of a round share a message id in the primary's log.
THEOREM IdsNumberTheLog == ASSUME Serial PROVE Spec => []IdsNumberPrimaryLog
<1>1. LogsInv => IdsNumberPrimaryLog
  BY DEF LogsInv
<1> QED  BY <1>1, LogsNumbered, PTL

-----------------------------------------------------------------------------
(***************************************************************************)
(* The size of the logs with any number of workers.  A worker that has     *)
(* passed the test of the size and not pushed yet stands for an entry the  *)
(* log will have.  Passing the test may add such a worker, but the log is  *)
(* then below its capacity; pushing trades a worker for an entry.          *)
(***************************************************************************)
Pushers(q) == {w \in Workers : At(q, w, "push")}

RoomForPushers ==
  \A q \in QueueServers :
    Len(requestQueue[q]) + Cardinality(Pushers(q)) < MAX_QUEUE_SIZE + Cardinality(Workers)

LEMMA PushersFinite ==
  ASSUME NEW q
  PROVE  /\ IsFiniteSet(Pushers(q)) /\ Cardinality(Pushers(q)) \in Nat
         /\ Cardinality(Workers) \in Nat \ {0}
         /\ Cardinality(Pushers(q)) <= Cardinality(Workers)
<1>1. Pushers(q) \subseteq Workers
  BY DEF Pushers
<1>2. Cardinality(Workers) # 0
  BY WorkersAssumption, FS_EmptySet
<1> QED  BY <1>1, <1>2, WorkersAssumption, FS_Subset, FS_CardinalityType

\* Fewer handlers about to push, and a log that has not grown, leave room.
LEMMA RoomKept ==
  ASSUME RoomForPushers, NEW q \in QueueServers,
         Len(requestQueue[q]) \in Nat, Len(requestQueue'[q]) \in Nat,
         Len(requestQueue'[q]) <= Len(requestQueue[q]),
         Pushers(q)' \subseteq Pushers(q)
  PROVE  Len(requestQueue'[q]) + Cardinality(Pushers(q)')
           < MAX_QUEUE_SIZE + Cardinality(Workers)
<1>1. /\ Cardinality(Pushers(q)') \in Nat
      /\ Cardinality(Pushers(q)') <= Cardinality(Pushers(q))
  BY PushersFinite, FS_Subset, FS_CardinalityType
<1>2. Cardinality(Pushers(q)) \in Nat /\ Cardinality(Workers) \in Nat
  BY PushersFinite
<1>3. Len(requestQueue[q]) + Cardinality(Pushers(q)) < MAX_QUEUE_SIZE + Cardinality(Workers)
  BY DEF RoomForPushers
<1> QED  BY <1>1, <1>2, <1>3, QueueServerAssumption

\* No step but the test of the size makes a handler one that is about to push.
LEMMA BecomePushers ==
  ASSUME FrameOK, NEW op \in Operators, NEW w \in Workers, NEW activation,
         Become(op, w, activation), NEW q \in QueueServers,
         op = q => activation.pc # "push"
  PROVE  Pushers(q)' \subseteq Pushers(q)
BY BecomeFrame, Constants DEF Pushers, At

LEMMA CheckSizeRoom ==
  ASSUME TypeOK, RoomForPushers, NEW q \in QueueServers, NEW w \in Workers,
         CheckSize(q, w)
  PROVE  RoomForPushers'
<1> DEFINE activation(pc) == [frame[q][w] EXCEPT !.pc = pc]
<1>1. requestQueue' = requestQueue /\ \A p \in QueueServers : Len(requestQueue[p]) \in Nat
  BY DEF CheckSize, queueVars, TypeOK, QueueOK
<1>2. frame[q][w] \in [pc : LoggingSteps, k : QueueServers, item : StampedItems]
  BY QueueActivation DEF TypeOK, CheckSize, At, LoggingSteps
<1>3. \A pc \in {"state", "push"} : activation(pc).pc = pc
  BY <1>2
<1>4. ASSUME NEW p \in QueueServers
      PROVE  Len(requestQueue'[p]) + Cardinality(Pushers(p)')
               < MAX_QUEUE_SIZE + Cardinality(Workers)
  <2>1. CASE p # q \/ Goto(q, w, "state")
    <3>1. \E pc \in {"state", "push"} :
            /\ Become(q, w, activation(pc))
            /\ q = p => activation(pc).pc # "push"
      BY <1>3, <2>1 DEF CheckSize, Goto
    <3> HIDE DEF activation
    <3>2. PICK next : Become(q, w, next) /\ (q = p => next.pc # "push")
      BY <3>1
    <3>3. FrameOK /\ q \in Operators
      BY Constants DEF TypeOK
    <3>4. Pushers(p)' \subseteq Pushers(p)
      BY <3>2, <3>3, BecomePushers
    <3> QED  BY <1>1, <3>4, RoomKept
  <2>2. CASE p = q /\ ~Goto(q, w, "state")
    <3>1. Len(requestQueue'[p]) < MAX_QUEUE_SIZE
      BY <1>1, <2>2 DEF CheckSize
    <3>2. Cardinality(Pushers(p)') \in Nat /\ Cardinality(Workers) \in Nat
          /\ Cardinality(Pushers(p)') <= Cardinality(Workers)
      <4>1. Pushers(p)' \subseteq Workers
        BY DEF Pushers
      <4> QED  BY <4>1, WorkersAssumption, FS_Subset, FS_CardinalityType
    <3> QED  BY <1>1, <3>1, <3>2, QueueServerAssumption
  <2> QED  BY <2>1, <2>2
<1> QED  BY <1>4 DEF RoomForPushers

LEMMA PushRoom ==
  ASSUME TypeOK, RoomForPushers, NEW q \in QueueServers, NEW w \in Workers, Push(q, w)
  PROVE  RoomForPushers'
<1> DEFINE activation == [frame[q][w] EXCEPT !.pc = "out"]
<1>1. requestQueue \in [QueueServers -> Seq(StampedRequests)]
  BY DEF TypeOK, QueueOK
<1>2. frame[q][w] \in [pc : LoggingSteps, k : QueueServers, item : StampedItems]
  BY QueueActivation DEF TypeOK, Push, At, LoggingSteps
<1>3. activation.pc = "out"
  BY <1>2
<1>4. \A p \in QueueServers :
        requestQueue'[p] = IF p = q THEN Append(requestQueue[q], Data(q, w))
                                    ELSE requestQueue[p]
  BY <1>1 DEF Push
<1>5. ASSUME NEW p \in QueueServers
      PROVE  Len(requestQueue'[p]) + Cardinality(Pushers(p)')
               < MAX_QUEUE_SIZE + Cardinality(Workers)
  <2>0. Become(q, w, activation) /\ frame[q][w].pc = "push"
    BY DEF Push, Goto, At
  <2> HIDE DEF activation
  <2>a. FrameOK /\ q \in Operators
    BY Constants DEF TypeOK
  <2>1. Pushers(p)' \subseteq Pushers(p)
    BY <1>3, <2>0, <2>a, BecomePushers
  <2>2. CASE p # q
    BY <1>1, <1>4, <2>1, <2>2, RoomKept
  <2>3. CASE p = q
    <3>1. w \in Pushers(p) /\ w \notin Pushers(p)'
      <4>1. frame'[q][w] = activation
        BY <2>0, <2>a, BecomeFrame
      <4>2. frame'[q][w].pc # "push"
        BY <4>1, <1>3
      <4> QED  BY <2>0, <2>3, <4>2 DEF Pushers, At
    <3>2. Pushers(p)' \subseteq Pushers(p) \ {w}
      BY <2>1, <3>1
    <3>3. /\ IsFiniteSet(Pushers(p) \ {w})
          /\ Cardinality(Pushers(p) \ {w}) = Cardinality(Pushers(p)) - 1
      BY <3>1, PushersFinite, FS_RemoveElement
    <3>4. /\ Cardinality(Pushers(p)') \in Nat
          /\ Cardinality(Pushers(p)') <= Cardinality(Pushers(p)) - 1
      BY <3>2, <3>3, FS_Subset, FS_CardinalityType
    <3>5. Len(requestQueue'[p]) = Len(requestQueue[p]) + 1 /\ Len(requestQueue[p]) \in Nat
      <4>1. Data(q, w) \in StampedRequests
        BY <1>2 DEF Data, Arg, StampedItems
      <4>2. /\ requestQueue'[p] = Append(requestQueue[p], Data(q, w))
            /\ requestQueue[p] \in Seq(StampedRequests)
        BY <1>1, <1>4, <2>3
      <4> QED  BY <4>1, <4>2
    <3>6. Cardinality(Pushers(p)) \in Nat /\ Cardinality(Workers) \in Nat
      BY PushersFinite
    <3>7. Len(requestQueue[p]) + Cardinality(Pushers(p))
            < MAX_QUEUE_SIZE + Cardinality(Workers)
      BY DEF RoomForPushers
    <3> QED  BY <3>4, <3>5, <3>6, <3>7, QueueServerAssumption
  <2> QED  BY <2>2, <2>3
<1> QED  BY <1>5 DEF RoomForPushers

\* The other steps push nothing, and none of them leads to the push.
LEMMA QuietRoom ==
  ASSUME TypeOK, RoomForPushers, NEW op \in Operators, NEW w \in Workers, NEW activation,
         Become(op, w, activation), op \in QueueServers => activation.pc # "push",
         \A q \in QueueServers : requestQueue'[q] \in {requestQueue[q], << >>}
  PROVE  RoomForPushers'
<1>1. ASSUME NEW q \in QueueServers
      PROVE  /\ Len(requestQueue[q]) \in Nat /\ Len(requestQueue'[q]) \in Nat
             /\ Len(requestQueue'[q]) <= Len(requestQueue[q])
  <2>1. requestQueue[q] \in Seq(StampedRequests)
    BY DEF TypeOK, QueueOK
  <2>2. Len(requestQueue[q]) \in Nat /\ Len(<< >>) = 0
    BY <2>1
  <2> QED  BY <2>2
<1>2. \A q \in QueueServers : Pushers(q)' \subseteq Pushers(q)
  BY BecomePushers DEF TypeOK
<1> QED  BY <1>1, <1>2, RoomKept DEF RoomForPushers

\* A step of a handler to another than the push, the log left as it is or empty.
LEMMA GotoRoom ==
  ASSUME TypeOK, RoomForPushers, NEW q \in QueueServers, NEW w \in Workers,
         frame[q][w].pc \in LoggingSteps \cup {"out_repl", "pop"},
         NEW pc \in (LoggingSteps \ {"push"}) \cup {"reset"}, Goto(q, w, pc),
         \A p \in QueueServers : requestQueue'[p] \in {requestQueue[p], << >>}
  PROVE  RoomForPushers'
<1>1. frame[q][w] \in Activations(q) /\ frame[q][w] # Idle /\ q # Echo
  BY Constants DEF TypeOK, FrameOK, LoggingSteps, Idle, Activation
<1>2. [frame[q][w] EXCEPT !.pc = pc].pc = pc
  <2>1. \/ /\ frame[q][w].pc \in LoggingSteps
           /\ frame[q][w] \in [pc : LoggingSteps, k : QueueServers, item : StampedItems]
        \/ /\ frame[q][w].pc = "out_repl"
           /\ frame[q][w] \in [pc : {"out_repl"}, k : Replicas, item : StampedItems]
        \/ /\ frame[q][w].pc = "pop"
           /\ frame[q][w] \in [pc : {"pop", "reset"}, k : {0}, item : {Signal}]
    BY QueueActivation DEF TypeOK, At
  <2> QED  BY <2>1
<1>3. pc # "push"
  BY DEF LoggingSteps
<1> QED  BY <1>2, <1>3, QuietRoom, Constants DEF Goto

LEMMA ReturnRoom ==
  ASSUME TypeOK, RoomForPushers, NEW op \in Operators, NEW w \in Workers, Return(op, w),
         UNCHANGED requestQueue
  PROVE  RoomForPushers'
<1>1. Idle.pc # "push"
  BY DEF Idle, Activation
<1> QED  BY <1>1, QuietRoom DEF Return

LEMMA StartRoom ==
  ASSUME TypeOK, RoomForPushers, NEW q \in QueueServers, NEW w \in Workers,
         \/ Dispatch(q, w) /\ UNCHANGED queueVars
         \/ q = Primary /\ (VerifySignature(w) \/ Forward(w))
         \/ q # Primary /\ VerifyMac(q, w)
  PROVE  RoomForPushers'
<1>0. UNCHANGED requestQueue
  BY DEF VerifySignature, Forward, VerifyMac, queueVars
<1>1. ASSUME NEW activation, Become(q, w, activation), activation.pc # "push"
      PROVE  RoomForPushers'
  BY <1>0, <1>1, QuietRoom, Constants
<1>2. CASE Dispatch(q, w)
  <2>1. Head(inbox[q]) \in InboxItems(q)
    BY <1>2, Constants DEF Dispatch, TypeOK, InboxOK
  <2>2. Head(inbox[q]).port \in {"in", "ewait", "qsignal"}
    BY <2>1 DEF InboxItems, SocketItems, StampedItems, WaitItems, Signal
  <2>3. Activation(EntryPoint(Head(inbox[q])), Head(inbox[q])).pc # "push"
    BY <2>2 DEF EntryPoint, Activation
  <2> QED  BY <1>1, <1>2, <2>3 DEF Dispatch
<1>3. CASE q = Primary /\ VerifySignature(w)
  <2>1. \A item : [Activation("out_repl", item) EXCEPT !.k = 1].pc # "push"
    BY DEF Activation
  <2> QED  BY <1>0, <1>1, <1>3, <2>1, ReturnRoom, Constants DEF VerifySignature
<1>4. CASE q = Primary /\ Forward(w)
  <2>1. frame[q][w] \in [pc : {"out_repl"}, k : Replicas, item : StampedItems]
    BY <1>4, QueueActivation DEF Forward, TypeOK
  <2>2. CASE Become(q, w, [frame[q][w] EXCEPT !.k = frame[q][w].k + 1])
    <3>1. [frame[q][w] EXCEPT !.k = frame[q][w].k + 1].pc # "push"
      BY <2>1
    <3> QED  BY <1>1, <2>2, <3>1
  <2>3. CASE Goto(q, w, "size")
    BY <1>0, <2>1, <2>3, GotoRoom DEF LoggingSteps
  <2> QED  BY <1>4, <2>2, <2>3 DEF Forward
<1>5. CASE q # Primary /\ VerifyMac(q, w)
  <2>1. \A item : Activation("size", item).pc # "push"
    BY DEF Activation
  <2> QED  BY <1>0, <1>1, <1>5, <2>1, ReturnRoom, Constants DEF VerifyMac
<1> QED  BY <1>2, <1>3, <1>4, <1>5

LEMMA NextRoom == TypeOK /\ RoomForPushers /\ [Next]_vars => RoomForPushers'
<1> SUFFICES ASSUME TypeOK, RoomForPushers, [Next]_vars PROVE RoomForPushers'
  OBVIOUS
<1>1. ASSUME UNCHANGED <<frame, requestQueue>> PROVE RoomForPushers'
  BY <1>1 DEF RoomForPushers, Pushers, At
<1>2. ASSUME NEW w \in Workers, NEW q \in QueueServers, QueueStep(q, w)
      PROVE  RoomForPushers'
  <2>1. QueueServerStep(q, w)
    BY <1>2 DEF QueueStep
  <2>2. CASE CheckSize(q, w)
    BY <2>2, CheckSizeRoom
  <2>3. CASE CheckLock(q, w)
    BY <2>3, GotoRoom, ReturnRoom, Constants DEF CheckLock, At, LoggingSteps, queueVars
  <2>4. CASE SendWait(q, w)
    BY <2>4, GotoRoom DEF SendWait, At, LoggingSteps, queueVars
  <2>5. CASE SetLock(q, w)
    BY <2>5, ReturnRoom, Constants DEF SetLock
  <2>6. CASE Push(q, w)
    BY <2>6, PushRoom
  <2>7. CASE SendToEcho(q, w)
    BY <2>7, ReturnRoom, Constants DEF SendToEcho, queueVars
  <2>8. CASE PopAll(q, w)
    <3>1. \A p \in QueueServers : requestQueue'[p] \in {requestQueue[p], << >>}
      BY <2>8 DEF PopAll, TypeOK, QueueOK
    <3> QED  BY <2>8, <3>1, GotoRoom DEF PopAll, At
  <2>9. CASE ResetLock(q, w)
    BY <2>9, ReturnRoom, Constants DEF ResetLock
  <2> QED
    BY <2>1, <2>2, <2>3, <2>4, <2>5, <2>6, <2>7, <2>8, <2>9, StartRoom
       DEF QueueServerStep
<1>3. ASSUME NEW w \in Workers, EchoStep(w) PROVE RoomForPushers'
  <2>1. \E activation : Become(Echo, w, activation)
    BY <1>3 DEF EchoStep, EchoServerStep, Dispatch, CheckRequest, InsertRequest,
                CheckReceived, Reply, CheckWait, InsertWait, CheckProcessed, ResetHash,
                SendSignal, Goto, Return
  <2>2. requestQueue' = requestQueue
    BY <1>3 DEF EchoStep, queueVars
  <2> QED  BY <2>1, <2>2, QuietRoom, Constants
<1> QED
  BY <1>1, <1>2, <1>3 DEF Next, SystemStep, Arrive, vars, queueVars

LEMMA InitRoom == Init => RoomForPushers
<1> SUFFICES ASSUME Init, NEW q \in QueueServers
             PROVE  Len(requestQueue[q]) + Cardinality(Pushers(q))
                      < MAX_QUEUE_SIZE + Cardinality(Workers)
  BY DEF RoomForPushers
<1>1. requestQueue[q] = << >> /\ Len(<< >>) = 0
  BY DEF Init, QueueServerInit
<1>2. Pushers(q) = {}
  BY Constants DEF Pushers, At, Init, RuntimeInit, Idle, Activation
<1>3. Cardinality(Pushers(q)) = 0 /\ Cardinality(Workers) \in Nat \ {0}
  BY <1>2, FS_EmptySet, PushersFinite
<1> QED  BY <1>1, <1>3, QueueServerAssumption

\* However many handlers of a queue server overlap, its log exceeds the capacity
\* by less than their number: those that passed the test of its size and have
\* not pushed yet are counted with its entries.
THEOREM LogsAreBounded == Spec => []LogBounded
<1>1. Init => TypeOK /\ RoomForPushers
  BY InitTyped, InitRoom
<1>2. TypeOK /\ RoomForPushers /\ [Next]_vars => (TypeOK /\ RoomForPushers)'
  BY NextTyped, NextRoom
<1>3. TypeOK /\ RoomForPushers => LogBounded
  <2> SUFFICES ASSUME TypeOK, RoomForPushers, NEW q \in QueueServers
               PROVE  Len(requestQueue[q]) < MAX_QUEUE_SIZE + Cardinality(Workers)
    BY DEF LogBounded
  <2>1. requestQueue[q] \in Seq(StampedRequests)
    BY DEF TypeOK, QueueOK
  <2>2. Len(requestQueue[q]) \in Nat
    BY <2>1
  <2>3. Cardinality(Pushers(q)) \in Nat /\ Cardinality(Workers) \in Nat
    BY PushersFinite
  <2> QED  BY <2>2, <2>3, QueueServerAssumption DEF RoomForPushers
<1> QED  BY <1>1, <1>2, <1>3, PTL DEF Spec
=============================================================================
