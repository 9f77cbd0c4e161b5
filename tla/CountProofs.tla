----------------------------- MODULE CountProofs -----------------------------
(***************************************************************************)
(* The count and the logs (CountInv of Rounds): every copy the echo server *)
(* counts, or will count, is of an entry of the log that its sender has in *)
(* this round, and a message id names one request of the round.            *)
(*                                                                         *)
(* The message ids must fit the 16 bits that getMessageID returns, or the  *)
(* count of one message would be taken for that of another.                *)
(***************************************************************************)
EXTENDS WaitProofs

IdsFit == MAX_QUEUE_SIZE < 65536

Known == Basis /\ CountInv

-----------------------------------------------------------------------------
(***************************************************************************)
(* What the invariants say of one log or one copy.                         *)
(***************************************************************************)
LEMMA EntriesTyped ==
  ASSUME TypeOK, NEW q \in QueueServers
  PROVE  /\ requestQueue[q] \in Seq(StampedRequests)
         /\ Len(requestQueue[q]) \in Nat
         /\ DOMAIN requestQueue[q] = 1 .. Len(requestQueue[q])
         /\ Entries(q) \subseteq StampedRequests
BY DEF TypeOK, QueueOK, Entries

\* Every id is a natural number, and so not the key of the wait messages.
LEMMA IdsTyped ==
  /\ \A d \in StampedRequests : d.messageID \in Nat /\ d.buffer \in Nat /\ d.queueServerID \in QueueServers
  /\ WaitKey \notin Nat
  /\ MessageIDs \subseteq Nat
<1>1. UINT16_MAX \in Nat
  BY DEF UINT16_MAX
<1>2. MessageIDs \subseteq Nat
  BY <1>1 DEF MessageIDs
<1>3. WaitKey \notin Nat
  BY DEF WaitKey
<1>4. \A d \in StampedRequests : d.messageID \in Nat /\ d.buffer \in Nat /\ d.queueServerID \in QueueServers
  BY TextsAreNat DEF StampedRequests
<1> QED  BY <1>2, <1>3, <1>4

\* The entries of a log are recorded and are before all that will be logged.
LEMMA EntryOrder ==
  ASSUME Basis, NEW q \in QueueServers, NEW e \in Entries(q)
  PROVE  /\ e \in StampedRequests /\ e.queueServerID = q /\ LoggedBy(q, e.buffer)
         /\ BeforeInbox(q, e.buffer) /\ BeforeHand(q, e.buffer)
         /\ \A d \in Entries(q) : d.buffer = e.buffer => d = e
<1>1. PICK i \in DOMAIN requestQueue[q] : e = requestQueue[q][i]
  BY DEF Entries
<1>2. e \in StampedRequests
  BY EntriesTyped DEF Basis
<1>3. e.queueServerID = q /\ <<q, e.buffer, e.messageID>> \in logged
  BY <1>1 DEF Basis, OrderInv, EntriesOrder
<1>4. LoggedBy(q, e.buffer) /\ BeforeInbox(q, e.buffer) /\ BeforeHand(q, e.buffer)
  <2> DEFINE entry == <<q, e.buffer, e.messageID>>
  <2>1. entry \in logged /\ entry[1] = q /\ entry[2] = e.buffer
    BY <1>3
  <2> HIDE DEF entry
  <2> QED  BY <2>1 DEF LoggedBy, Basis, OrderInv, LoggedOrder
<1>5. ASSUME NEW d \in Entries(q), d.buffer = e.buffer PROVE d = e
  <2>1. PICK j \in DOMAIN requestQueue[q] : d = requestQueue[q][j]
    BY DEF Entries
  <2>2. i \in Nat /\ j \in Nat /\ e.buffer \in Nat
    BY <1>2, EntriesTyped, IdsTyped DEF Basis
  <2>3. /\ i < j => requestQueue[q][i].buffer < requestQueue[q][j].buffer
        /\ j < i => requestQueue[q][j].buffer < requestQueue[q][i].buffer
    BY DEF Basis, OrderInv, EntriesOrder
  <2>4. requestQueue[q][i].buffer = requestQueue[q][j].buffer
        /\ requestQueue[q][i].buffer \in Nat
    BY <1>1, <1>5, <2>1, <2>2
  <2>5. i = j
    BY <2>2, <2>3, <2>4
  <2> QED  BY <1>1, <2>1, <2>5
<1> QED  BY <1>2, <1>3, <1>4, <1>5

\* The primary's entries are numbered from 0.
LEMMA PrimaryEntry ==
  ASSUME Basis, NEW e \in Entries(Primary)
  PROVE  /\ e.messageID < MAX_QUEUE_SIZE
         /\ e.messageID < Len(requestQueue[Primary])
         /\ e.messageID + 1 \in DOMAIN requestQueue[Primary]
         /\ e = requestQueue[Primary][e.messageID + 1]
<1>1. PICK i \in DOMAIN requestQueue[Primary] : e = requestQueue[Primary][i]
  BY DEF Entries
<1>2. i \in Nat /\ i <= Len(requestQueue[Primary]) /\ Len(requestQueue[Primary]) \in Nat
  BY EntriesTyped, Constants DEF Basis
<1>3. e.messageID = i - 1
  BY <1>1 DEF Basis, LogsInv, IdsNumberPrimaryLog
<1>4. Len(requestQueue[Primary]) <= MAX_QUEUE_SIZE
  BY Constants DEF Basis, LogsInv, LogFits
<1> QED  BY <1>1, <1>2, <1>3, <1>4, QueueServerAssumption

\* A request the primary has in hand will get the next number.
LEMMA PrimaryHand ==
  ASSUME Serial, Basis, pc(Primary) \in StampSteps
  PROVE  /\ item(Primary).data.messageID = Len(requestQueue[Primary])
         /\ item(Primary).data \in StampedRequests
         /\ Len(requestQueue[Primary]) <= MAX_QUEUE_SIZE
<1>1. item(Primary).data.messageID = Len(requestQueue[Primary])
  BY OneWorker DEF Basis, LogsInv, LogReadsCurrent, StampSteps, Data, Arg, pc, item
<1>2. item(Primary).data \in StampedRequests
  BY QueueHands, Constants DEF Basis, StampSteps, LoggingSteps
<1> QED  BY <1>1, <1>2, Constants DEF Basis, LogsInv, LogFits

\* An id within the capacity names one request.
LEMMA CurrentAgree ==
  ASSUME Serial, Basis, NEW d, NEW e, Current(d), Current(e),
         d.messageID = e.messageID, d.messageID # MAX_QUEUE_SIZE
  PROVE  d.buffer = e.buffer
<1>1. d.messageID + 1 \in DOMAIN requestQueue[Primary] =>
        /\ pc(Primary) \in StampSteps => item(Primary).data.messageID # d.messageID
  <2>1. DOMAIN requestQueue[Primary] = 1 .. Len(requestQueue[Primary])
        /\ Len(requestQueue[Primary]) \in Nat
    BY EntriesTyped, Constants DEF Basis
  <2> QED  BY <2>1, PrimaryHand
<1> QED  BY <1>1 DEF Current

\* The id of the request in the primary's hand fits 16 bits, so that a copy has
\* the same.
LEMMA StampedID ==
  ASSUME Serial, Basis, IdsFit, pc(Primary) \in StampSteps
  PROVE  /\ getMessageID(item(Primary).data) = item(Primary).data.messageID
         /\ item(Primary).data.messageID = Len(requestQueue[Primary])
         /\ Len(requestQueue[Primary]) <= MAX_QUEUE_SIZE
<1> DEFINE id == item(Primary).data.messageID
<1>1. id = Len(requestQueue[Primary]) /\ Len(requestQueue[Primary]) <= MAX_QUEUE_SIZE
  BY PrimaryHand
<1>2. id \in Nat /\ id < 65536
  BY <1>1, EntriesTyped, Constants, QueueServerAssumption DEF Basis, IdsFit
<1>3. id % 65536 = id
  BY <1>2
<1>4. getMessageID(item(Primary).data) = id
  BY <1>3 DEF getMessageID
<1> QED  BY <1>1, <1>4

LEMMA CurrentEntry ==
  ASSUME Serial, Basis, NEW d, Current(d), NEW e \in Entries(Primary),
         d.messageID = e.messageID
  PROVE  d.buffer = e.buffer
<1>1. Current(e) /\ e.messageID # MAX_QUEUE_SIZE
  <2>1. e.messageID \in Nat
    BY EntryOrder, IdsTyped, Constants
  <2> QED  BY <2>1, PrimaryEntry, QueueServerAssumption DEF Current
<1> QED  BY <1>1, CurrentAgree

\* The entries of every log that is not released are current.
LEMMA EntryCurrent ==
  ASSUME Serial, Known, NEW q \in QueueServers, ~Released(q), NEW e \in Entries(q)
  PROVE  Current(e) /\ e.messageID \in Nat /\ e.messageID <= MAX_QUEUE_SIZE
<1>1. e \in StampedRequests
  BY EntryOrder DEF Known
<1>2. CASE q = Primary
  <2>1. e.messageID \in Nat
    BY <1>1, IdsTyped
  <2> QED  BY <1>2, <2>1, PrimaryEntry, QueueServerAssumption DEF Known, Current
<1>3. CASE q \in Replicas
  BY <1>1, <1>3, IdsTyped DEF Known, CountInv, ReplicasCurrent, Live, Current
<1> QED  BY <1>2, <1>3, Constants

\* In a log an id within the capacity occurs once.
LEMMA EntriesDiffer ==
  ASSUME Serial, Known, NEW q \in QueueServers, ~Released(q),
         NEW d \in Entries(q), NEW e \in Entries(q),
         d.messageID = e.messageID, d.messageID < MAX_QUEUE_SIZE
  PROVE  d = e
<1>1. d.messageID # MAX_QUEUE_SIZE
  BY EntryCurrent, QueueServerAssumption
<1>2. Current(d) /\ Current(e) /\ Basis
  BY EntryCurrent DEF Known
<1>3. d.buffer = e.buffer
  BY <1>1, <1>2, CurrentAgree
<1> QED  BY <1>2, <1>3, EntryOrder

\* What is counted under the id of a copy is counted under that id.
LEMMA CopyID ==
  ASSUME Serial, Known, IdsFit, pc(Echo) \in RequestSteps,
         NEW q \in QueueServers, From = q,
         Flying(q, item(Echo).data) \/ InHand(q, item(Echo).data)
  PROVE  /\ EchoID = item(Echo).data.messageID
         /\ item(Echo).data \in Entries(q) /\ ~Released(q)
         /\ EchoID \in MessageIDs /\ EchoID \in Nat
<1>1. item(Echo).data \in StampedRequests
  BY EchoHands DEF Known, Basis
<1>2. item(Echo).data \in Entries(q) /\ ~Released(q)
  BY <1>1 DEF Known, CountInv, ServerCounts, FlyingLogged
<1>3. item(Echo).data.messageID \in Nat /\ item(Echo).data.messageID < 65536
  BY <1>2, EntryCurrent, QueueServerAssumption DEF IdsFit
<1>4. EchoID = item(Echo).data.messageID
  BY <1>3 DEF EchoID, getMessageID
<1> QED  BY <1>2, <1>3, <1>4, KeysDiffer DEF Known, Basis

\* The ids in the count are those of 16 bits.
LEMMA CountedKey ==
  ASSUME TypeOK, NEW q, NEW key \in Nat, Counted(q, key)
  PROVE  key \in MessageIDs
BY IdsTyped DEF TypeOK, EchoOK, HashOK, Counted, checkIfPresent

-----------------------------------------------------------------------------
(***************************************************************************)
(* The inboxes as sets.                                                    *)
(***************************************************************************)
LEMMA SentItems ==
  ASSUME TypeOK, NEW dest \in Operators, NEW it, Sent(dest, it)
  PROVE  \A p \in Operators :
           Enqueued(p)' = IF p = dest THEN Enqueued(p) \cup {it} ELSE Enqueued(p)
BY InboxTyped DEF Sent, Enqueued

LEMMA TakenItems ==
  ASSUME TypeOK, NEW op \in Operators, Taken(op)
  PROVE  /\ Enqueued(op) = Enqueued(op)' \cup {inbox[op][1]}
         /\ \A p \in Operators : p # op => Enqueued(p)' = Enqueued(p)
<1>1. \A p \in Operators : p # op => Enqueued(p)' = Enqueued(p)
  BY DEF Taken, Enqueued
<1>2. Enqueued(op)' \cup {inbox[op][1]} \subseteq Enqueued(op)
  BY DEF Taken, Enqueued
<1>3. ASSUME NEW it \in Enqueued(op), it # inbox[op][1] PROVE it \in Enqueued(op)'
  <2>1. PICK i \in DOMAIN inbox[op] : it = inbox[op][i]
    BY DEF Enqueued
  <2>2. i - 1 \in DOMAIN inbox'[op] /\ inbox'[op][i - 1] = inbox[op][(i - 1) + 1]
    BY <1>3, <2>1 DEF Taken
  <2>3. (i - 1) + 1 = i
    BY InboxTyped
  <2> QED  BY <2>1, <2>2, <2>3 DEF Enqueued
<1> QED  BY <1>1, <1>2, <1>3

-----------------------------------------------------------------------------
(***************************************************************************)
(* Steps that leave a part of the invariant alone.                         *)
(***************************************************************************)
\* Copies of q move on, or are found counted.
LEMMA CountsKept ==
  ASSUME TypeOK, NEW q \in QueueServers, ServerCounts(q),
         requestQueue'[q] = requestQueue[q],
         Released(q)' <=> Released(q),
         \A key \in Nat : Counted(q, key)' <=> Counted(q, key),
         \A d \in StampedRequests : Flying(q, d)' => Flying(q, d),
         \A d \in StampedRequests : InHand(q, d)' => InHand(q, d) \/ Flying(q, d),
         \A d \in StampedRequests :
           Flying(q, d) => Flying(q, d)' \/ Counted(q, d.messageID)
  PROVE  ServerCounts(q)'
<1>1. Entries(q)' = Entries(q) /\ Entries(q) \subseteq StampedRequests
  BY EntriesTyped DEF Entries
<1>2. FlyingLogged(q)'
  BY <1>1 DEF ServerCounts, FlyingLogged
<1>3. EntriesCounted(q)'
  <2> SUFFICES ASSUME NEW d \in Entries(q)
               PROVE  Released(q)' \/ Flying(q, d)' \/ Counted(q, d.messageID)'
    BY <1>1 DEF EntriesCounted
  <2> QED  BY <1>1, IdsTyped DEF ServerCounts, EntriesCounted
<1>4. CountedLogged(q)'
  BY <1>1, IdsTyped DEF ServerCounts, CountedLogged
<1>5. CountedOnce(q)'
  <2> SUFFICES ASSUME NEW d \in StampedRequests, Flying(q, d)', d.messageID < MAX_QUEUE_SIZE
               PROVE  ~(Counted(q, d.messageID)')
    BY DEF CountedOnce
  <2> QED  BY IdsTyped DEF ServerCounts, CountedOnce
<1> QED  BY <1>2, <1>3, <1>4, <1>5 DEF ServerCounts

\* A request that becomes live is like one that was, and what was current is.
LEMMA CurrentKept ==
  ASSUME CountInv,
         \A r \in Replicas : \A d \in StampedRequests : Live(r, d)' =>
           \E e \in StampedRequests :
             Live(r, e) /\ e.messageID = d.messageID /\ e.buffer = d.buffer,
         \A d \in StampedRequests : Current(d) => Current(d)',
         Released(Primary)' => Released(Primary)
  PROVE  ReplicasCurrent' /\ PrimaryReleased'
<1>1. ASSUME NEW d, NEW e, e.messageID = d.messageID, e.buffer = d.buffer, Current(e)'
      PROVE  Current(d)'
  BY <1>1 DEF Current
<1>2. ReplicasCurrent'
  <2> SUFFICES ASSUME NEW r \in Replicas, NEW d \in StampedRequests, Live(r, d)'
               PROVE  Current(d)'
    BY DEF ReplicasCurrent
  <2> QED  BY <1>1 DEF CountInv, ReplicasCurrent
<1>3. PrimaryReleased'
  BY DEF CountInv, PrimaryReleased
<1> QED  BY <1>2, <1>3

\* A step in which the primary takes no part.
LEMMA CurrentElsewhere ==
  ASSUME requestQueue'[Primary] = requestQueue[Primary],
         frame'[Primary][Worker] = frame[Primary][Worker],
         arrived' = arrived,
         \A t : LoggedBy(Primary, t)' => LoggedBy(Primary, t),
         inbox'[Primary] = inbox[Primary] \/ Sent(Primary, Signal),
         NEW d, Current(d)
  PROVE  Current(d)'
<1>1. \A t : BeforeInbox(Primary, t) => BeforeInbox(Primary, t)'
  BY DEF BeforeInbox, Sent, Signal
<1>2. \A t : Passed(t) => Passed(t)'
  BY <1>1 DEF Passed, BeforeHand, pc, item
<1> QED  BY <1>2 DEF Current, pc, item

\* A step of the primary that puts nothing into its hand or its log.
LEMMA CurrentPrimary ==
  ASSUME requestQueue'[Primary] = requestQueue[Primary],
         logged' = logged, arrived' = arrived, inbox'[Primary] = inbox[Primary],
         \/ frame'[Primary][Worker].pc \notin TextSteps
         \/ /\ pc(Primary) \in TextSteps
            /\ frame'[Primary][Worker].item.data.buffer = item(Primary).data.buffer,
         \/ pc(Primary) \notin StampSteps
         \/ /\ frame'[Primary][Worker].pc \in StampSteps
            /\ frame'[Primary][Worker].item = item(Primary),
         NEW d, Current(d)
  PROVE  Current(d)'
<1>1. \A t : Passed(t) => Passed(t)'
  BY DEF Passed, BeforeInbox, BeforeHand, LoggedBy, pc, item
<1> QED  BY <1>1 DEF Current, pc, item

\* The copies of q are where they were.
LEMMA FlyingKept ==
  ASSUME NEW q \in QueueServers,
         frame'[Echo][Worker] = frame[Echo][Worker],
         \/ frame'[q][Worker] = frame[q][Worker]
         \/ pc(q) # "out" /\ frame'[q][Worker].pc # "out",
         \A d : Request(d) \in Enqueued(Echo)' <=> Request(d) \in Enqueued(Echo)
  PROVE  \A d : (Flying(q, d)' <=> Flying(q, d)) /\ (InHand(q, d)' <=> InHand(q, d))
BY DEF Flying, InHand, pc, item

\* A step of the queue server q that touches no copy, no log and no count.
LEMMA CountsQuietStep ==
  ASSUME TypeOK, CountInv, NEW q \in QueueServers, OnlyMoves(q),
         UNCHANGED <<requestQueue, messageHash>>,
         pc(q) # "out", frame'[q][Worker].pc # "out",
         \A d : Request(d) \in Enqueued(Echo)' <=> Request(d) \in Enqueued(Echo),
         \A p \in QueueServers : Released(p)' <=> Released(p)
  PROVE  \A p \in QueueServers : ServerCounts(p)'
<1> SUFFICES ASSUME NEW p \in QueueServers PROVE ServerCounts(p)'
  OBVIOUS
<1>1. /\ frame'[Echo][Worker] = frame[Echo][Worker]
      /\ p # q => frame'[p][Worker] = frame[p][Worker]
  BY Constants DEF OnlyMoves
<1>2. \A d : (Flying(p, d)' <=> Flying(p, d)) /\ (InHand(p, d)' <=> InHand(p, d))
  BY <1>1, FlyingKept
<1>3. \A key : Counted(p, key)' <=> Counted(p, key)
  BY DEF Counted
<1>4. ServerCounts(p)
  BY DEF CountInv
<1> QED  BY <1>2, <1>3, <1>4, CountsKept

\* Who is released does not change when neither the signals nor q's handler of
\* them are concerned.
LEMMA ReleasedKept ==
  ASSUME NEW q \in QueueServers,
         frame'[Echo][Worker] = frame[Echo][Worker],
         frame'[q][Worker] = frame[q][Worker] \/ (pc(q) # "pop" /\ frame'[q][Worker].pc # "pop"),
         Signal \in Enqueued(q)' <=> Signal \in Enqueued(q)
  PROVE  Released(q)' <=> Released(q)
BY DEF Released, ToSignal, pc, turn

\* The requests that r has and had.
LEMMA LiveKept ==
  ASSUME NEW r \in Replicas,
         \A d : Request(d) \in Enqueued(r)' => Request(d) \in Enqueued(r),
         \/ frame'[r][Worker].pc \notin TextSteps
         \/ pc(r) \in TextSteps /\ frame'[r][Worker].item.data = item(r).data,
         requestQueue'[r] = requestQueue[r],
         Released(r) => Released(r)'
  PROVE  \A d : Live(r, d)' => Live(r, d)
BY DEF Live, Stream, Entries, pc, item

-----------------------------------------------------------------------------
(***************************************************************************)
(* The network device and the queue servers.                               *)
(***************************************************************************)
\* A text that arrives has not been passed over.
LEMMA CountArrive ==
  ASSUME Serial, Known, Arrive
  PROVE  CountInv'
<1>1. /\ Sent(Primary, Request(FromSocket(arrived + 1)))
      /\ Request(FromSocket(arrived + 1)).data.buffer = arrived + 1
      /\ arrived \in Nat /\ arrived' = arrived + 1
      /\ UNCHANGED <<frame, requestQueue, logged, messageHash>>
  BY ArriveView DEF Known, Basis
<1>2. /\ \A p \in Operators : p # Primary => Enqueued(p)' = Enqueued(p)
      /\ \A p \in QueueServers : Signal \in Enqueued(p)' <=> Signal \in Enqueued(p)
  BY <1>1, SentItems, Senders, Constants DEF Known, Basis
<1>3. \A p \in QueueServers : Released(p)' <=> Released(p)
  BY <1>1, <1>2, ReleasedKept
<1>4. ASSUME NEW p \in QueueServers PROVE ServerCounts(p)'
  <2>1. \A d : (Flying(p, d)' <=> Flying(p, d)) /\ (InHand(p, d)' <=> InHand(p, d))
    BY <1>1, <1>2, FlyingKept, Constants
  <2>2. \A key : Counted(p, key)' <=> Counted(p, key)
    BY <1>1 DEF Counted
  <2> QED  BY <1>1, <1>3, <2>1, <2>2, CountsKept DEF Known, Basis, CountInv
<1>5. \A r \in Replicas : \A d : Live(r, d)' => Live(r, d)
  BY <1>1, <1>2, <1>3, Constants DEF Live, Stream, Entries, pc, item
<1>6. ASSUME NEW d \in StampedRequests, Current(d) PROVE Current(d)'
  <2>1. Passed(d.buffer) => Passed(d.buffer)'
    <3> SUFFICES ASSUME Passed(d.buffer) PROVE Passed(d.buffer)'
      OBVIOUS
    <3>1. d.buffer \in Nat /\ d.buffer <= arrived /\ d.buffer < arrived + 1 /\ d.buffer <= arrived + 1
      BY <1>1, IdsTyped DEF Passed
    <3>2. BeforeInbox(Primary, d.buffer)'
      BY <1>1, <3>1 DEF Passed, BeforeInbox, Sent
    <3> QED  BY <1>1, <3>1, <3>2 DEF Passed, BeforeHand, LoggedBy, pc, item
  <2> QED  BY <1>1, <1>6, <2>1 DEF Current, pc, item
<1>7. ReplicasCurrent' /\ PrimaryReleased'
  BY <1>3, <1>5, <1>6, CurrentKept, Constants DEF Known
<1> QED  BY <1>4, <1>7 DEF CountInv

\* A step of q that neither puts a request into its hand nor touches a log, a
\* copy or a signal.
LEMMA CountQuiet ==
  ASSUME Serial, Known, NEW q \in QueueServers, OnlyMoves(q),
         UNCHANGED <<requestQueue, messageHash, logged, arrived>>,
         pc(q) \notin {"out", "pop"}, frame'[q][Worker].pc \notin {"out", "pop"},
         UNCHANGED inbox \/ Sent(Echo, Wait(q)),
         \/ frame'[q][Worker].pc \notin TextSteps
         \/ pc(q) \in TextSteps /\ frame'[q][Worker].item.data = item(q).data
         \/ q = Primary,
         q = Primary => \A d \in StampedRequests : Current(d) => Current(d)'
  PROVE  CountInv'
<1>1. \A d : Request(d) \in Enqueued(Echo)' <=> Request(d) \in Enqueued(Echo)
  <2>1. CASE UNCHANGED inbox
    BY <2>1 DEF Enqueued
  <2>2. CASE Sent(Echo, Wait(q))
    BY <2>2, SentItems, Senders, Constants DEF Known, Basis
  <2> QED  BY <2>1, <2>2
<1>2. \A p \in QueueServers : inbox'[p] = inbox[p] /\ Enqueued(p)' = Enqueued(p)
  BY Constants DEF Sent, Enqueued
<1>3. \A p \in Operators : p # q => frame'[p][Worker] = frame[p][Worker]
  BY DEF OnlyMoves
<1>4. \A p \in QueueServers : Released(p)' <=> Released(p)
  <2> SUFFICES ASSUME NEW p \in QueueServers PROVE Released(p)' <=> Released(p)
    OBVIOUS
  <2>1. frame'[Echo][Worker] = frame[Echo][Worker]
        /\ (p # q => frame'[p][Worker] = frame[p][Worker])
    BY <1>3, Constants
  <2> QED  BY <1>2, <2>1, ReleasedKept
<1>5. \A p \in QueueServers : ServerCounts(p)'
  BY <1>1, <1>4, CountsQuietStep DEF Known, Basis
<1>6. \A r \in Replicas : \A d : Live(r, d)' => Live(r, d)
  <2> SUFFICES ASSUME NEW r \in Replicas PROVE \A d : Live(r, d)' => Live(r, d)
    OBVIOUS
  <2>1. r \in QueueServers /\ r # Primary /\ (r # q => frame'[r][Worker] = frame[r][Worker])
    BY <1>3, Constants
  <2> QED  BY <1>2, <1>4, <2>1, LiveKept DEF pc, item
<1>7. \A d \in StampedRequests : Current(d) => Current(d)'
  <2>1. CASE q # Primary
    <3>1. /\ inbox'[Primary] = inbox[Primary] /\ requestQueue'[Primary] = requestQueue[Primary]
          /\ frame'[Primary][Worker] = frame[Primary][Worker] /\ arrived' = arrived
          /\ \A t : LoggedBy(Primary, t)' => LoggedBy(Primary, t)
      BY <1>2, <1>3, <2>1, Constants DEF LoggedBy
    <3> QED  BY <3>1, CurrentElsewhere
  <2> QED  BY <2>1
<1>8. ReplicasCurrent' /\ PrimaryReleased'
  BY <1>4, <1>6, <1>7, CurrentKept, Constants DEF Known
<1> QED  BY <1>5, <1>8 DEF CountInv

LEMMA CountVerifySignature ==
  ASSUME Serial, Known, NEW w \in Workers, VerifySignature(w), UNCHANGED <<messageHash, arrived>>
  PROVE  CountInv'
<1>1. /\ pc(Primary) = "start" /\ OnlyMoves(Primary)
      /\ UNCHANGED <<inbox, requestQueue, logged>>
      /\ \/ frame'[Primary][Worker].pc = "idle"
         \/ /\ frame'[Primary][Worker].pc = "out_repl"
            /\ frame'[Primary][Worker].item.data.buffer = item(Primary).data.buffer
  BY VerifySignatureView DEF Known, Basis
<1>2. \A d : Current(d) => Current(d)'
  BY <1>1, CurrentPrimary DEF TextSteps, StampSteps
<1> QED  BY <1>1, <1>2, CountQuiet, Constants

\* A full primary passes the request in hand over.
LEMMA CountCheckSize ==
  ASSUME Serial, Known, NEW q \in QueueServers, NEW w \in Workers, CheckSize(q, w),
         UNCHANGED <<messageHash, arrived>>
  PROVE  CountInv'
<1>1. /\ pc(q) = "size" /\ UNCHANGED <<inbox, requestQueue, logged>> /\ OnlyMoves(q)
      /\ frame'[q][Worker].item = item(q)
      /\ \/ frame'[q][Worker].pc = "state" /\ Len(requestQueue[q]) >= MAX_QUEUE_SIZE
         \/ frame'[q][Worker].pc = "push"
  BY CheckSizeView DEF Known, Basis, GoesTo, item
<1>2. ASSUME q = Primary, NEW d \in StampedRequests, Current(d) PROVE Current(d)'
  <2>1. CASE frame'[q][Worker].pc = "push"
    BY <1>1, <1>2, <2>1, CurrentPrimary DEF TextSteps, StampSteps
  <2>2. CASE frame'[q][Worker].pc = "state"
    <3>1. \A t : Passed(t) => Passed(t)'
      BY <1>1, <1>2, <2>2
         DEF Passed, BeforeInbox, BeforeHand, LoggedBy, TextSteps, StampSteps, pc
    <3>2. CASE item(Primary).data.messageID = d.messageID /\ item(Primary).data.buffer = d.buffer
      <4>1. d.messageID = MAX_QUEUE_SIZE
        <5>1. Len(requestQueue[Primary]) \in Nat /\ Len(requestQueue[Primary]) <= MAX_QUEUE_SIZE
          BY EntriesTyped, Constants DEF Known, Basis, LogsInv, LogFits
        <5>2. d.messageID = Len(requestQueue[Primary])
          BY <1>1, <1>2, <3>2, PrimaryHand DEF Known, StampSteps
        <5> QED  BY <1>1, <1>2, <2>2, <5>1, <5>2, QueueServerAssumption
      <4>2. pc(Primary) \in TextSteps
        BY <1>1, <1>2 DEF TextSteps, StampSteps
      <4>3. d.buffer <= arrived
        BY <3>2, <4>2 DEF Known, Basis, OrderInv, HandOrder
      <4>4. BeforeInbox(Primary, d.buffer)
        BY <3>2, <4>2, Constants DEF Known, Basis, OrderInv, InboxOrder, BeforeInbox
      <4>5. ~LoggedBy(Primary, d.buffer)
        BY <3>2, <4>2, IdsTyped
           DEF LoggedBy, Known, Basis, OrderInv, LoggedOrder, BeforeHand
      <4>6. Passed(d.buffer)'
        BY <1>1, <1>2, <2>2, <4>3, <4>4, <4>5
           DEF Passed, BeforeInbox, BeforeHand, LoggedBy, TextSteps, StampSteps, pc
      <4> QED  BY <1>2, <4>1, <4>6 DEF Current
    <3>3. CASE ~(item(Primary).data.messageID = d.messageID /\ item(Primary).data.buffer = d.buffer)
      BY <1>1, <1>2, <3>1, <3>3 DEF Current
    <3> QED  BY <3>2, <3>3
  <2> QED  BY <1>1, <2>1, <2>2
<1>3. \/ frame'[q][Worker].pc \notin TextSteps
      \/ pc(q) \in TextSteps /\ frame'[q][Worker].item.data = item(q).data
  BY <1>1 DEF TextSteps, StampSteps
<1> QED  BY <1>1, <1>2, <1>3, CountQuiet

\* The queue server has nothing in hand that it may log.
LEMMA CountFullLog ==
  ASSUME Serial, Known, NEW q \in QueueServers, NEW w \in Workers,
         CheckLock(q, w) \/ SendWait(q, w) \/ SetLock(q, w) \/ ResetLock(q, w),
         UNCHANGED <<messageHash, arrived>>
  PROVE  CountInv'
<1>1. /\ pc(q) \in {"state", "qwait", "set", "reset"} /\ UNCHANGED <<requestQueue, logged>>
      /\ OnlyMoves(q) /\ frame'[q][Worker].pc \in {"qwait", "set", "idle"}
      /\ UNCHANGED inbox \/ Sent(Echo, Wait(q))
  BY CheckLockView, SendWaitView, SetLockView, ResetLockView DEF Known, Basis, GoesTo, Returns
<1>2. inbox'[Primary] = inbox[Primary]
  BY <1>1, Constants DEF Sent
<1>3. ASSUME q = Primary, NEW d, Current(d) PROVE Current(d)'
  BY <1>1, <1>2, <1>3, CurrentPrimary DEF TextSteps, StampSteps
<1> QED  BY <1>1, <1>3, CountQuiet DEF TextSteps, StampSteps

\* A replica goes on with the request it has verified, less its digest.
LEMMA CountVerifyMac ==
  ASSUME Serial, Known, NEW r \in QueueServers, r # Primary, NEW w \in Workers,
         VerifyMac(r, w), UNCHANGED <<messageHash, arrived>>
  PROVE  CountInv'
<1>1. PICK data \in StampedRequests : data = item(r).data
  BY VerifyMacView, QueueHands DEF Known, Basis
<1>2. /\ pc(r) = "start" /\ OnlyMoves(r)
      /\ UNCHANGED <<inbox, requestQueue, logged>>
      /\ \/ frame'[r][Worker].pc = "idle"
         \/ /\ frame'[r][Worker].pc = "size"
            /\ frame'[r][Worker].item.data = freeMac(data)
            /\ freeMac(data).buffer = data.buffer
            /\ freeMac(data).messageID = data.messageID
  BY <1>1, VerifyMacView DEF Known, Basis
<1>3. /\ \A op \in Operators : Enqueued(op)' = Enqueued(op)
      /\ \A p \in Operators : p # r => frame'[p][Worker] = frame[p][Worker]
  BY <1>2 DEF Enqueued, OnlyMoves
<1>4. \A p \in QueueServers : Released(p)' <=> Released(p)
  BY <1>2, <1>3, ReleasedKept, Constants
<1>5. \A p \in QueueServers : ServerCounts(p)'
  <2>1. \A d : Request(d) \in Enqueued(Echo)' <=> Request(d) \in Enqueued(Echo)
    BY <1>3, Constants
  <2> QED  BY <1>2, <1>4, <2>1, CountsQuietStep DEF Known, Basis
<1>6. ASSUME NEW s \in Replicas, NEW d \in StampedRequests, Live(s, d)'
      PROVE  \E e \in StampedRequests :
               Live(s, e) /\ e.messageID = d.messageID /\ e.buffer = d.buffer
  <2>1. s \in QueueServers
    BY Constants
  <2>2. CASE Live(s, d)
    BY <2>2
  <2>3. CASE ~Live(s, d)
    <3>1. s = r /\ frame'[r][Worker].pc = "size" /\ d = freeMac(data)
      BY <1>2, <1>3, <1>4, <1>6, <2>1, <2>3, Constants
         DEF Live, Stream, Entries, TextSteps, StampSteps, pc, item
    <3>2. Live(s, data)
      BY <1>1, <1>2, <3>1 DEF Live, Stream, TextSteps
    <3> QED  BY <1>1, <1>2, <3>1, <3>2
  <2> QED  BY <2>2, <2>3
<1>7. ASSUME NEW d, Current(d) PROVE Current(d)'
  <2>1. /\ inbox'[Primary] = inbox[Primary] /\ requestQueue'[Primary] = requestQueue[Primary]
        /\ frame'[Primary][Worker] = frame[Primary][Worker] /\ arrived' = arrived
        /\ \A t : LoggedBy(Primary, t)' => LoggedBy(Primary, t)
    BY <1>2, <1>3, Constants DEF LoggedBy
  <2> QED  BY <1>7, <2>1, CurrentElsewhere
<1>8. ReplicasCurrent' /\ PrimaryReleased'
  BY <1>4, <1>6, <1>7, CurrentKept, Constants DEF Known
<1> QED  BY <1>5, <1>8 DEF CountInv

\* A queue server that has been signalled, or will be, has a full log.
LEMMA ReleasedIsFull ==
  ASSUME Serial, Basis, NEW q \in QueueServers, Released(q)
  PROVE  /\ Len(requestQueue[q]) = MAX_QUEUE_SIZE
         /\ pc(q) # "out" /\ pc(q) # "push"
<1>1. ServerWaits(q)
  BY DEF Basis, WaitInv
<1>2. SignalPending(q) /\ pc(q) # "reset"
  BY <1>1, WaitViews DEF Released, ServerWaits, OneSignal
<1>3. Waiting(q)
  BY <1>1, <1>2 DEF ServerWaits, Outstanding
<1>4. Len(requestQueue[q]) = MAX_QUEUE_SIZE /\ pc(q) # "out"
  BY <1>1, <1>2, <1>3 DEF ServerWaits, WaitingIsFull
<1>5. pc(q) = "push" => Len(requestQueue[q]) < MAX_QUEUE_SIZE
  BY OneWorker DEF Basis, LogsInv, LogReadsCurrent, At, pc
<1> QED  BY <1>4, <1>5, QueueServerAssumption

\* A replica gets a copy of the request that the primary has in hand.  When the
\* primary is released, its id is beyond the capacity.
LEMMA CountForward ==
  ASSUME Serial, Known, IdsFit, NEW w \in Workers, Forward(w),
         UNCHANGED <<messageHash, arrived>>
  PROVE  CountInv'
<1>1. PICK s \in Replicas, copy \in StampedRequests :
        /\ pc(Primary) = "out_repl" /\ OnlyMoves(Primary)
        /\ UNCHANGED <<requestQueue, logged>>
        /\ frame'[Primary][Worker].item = item(Primary)
        /\ frame'[Primary][Worker].pc \in {"out_repl", "size"}
        /\ Sent(s, Request(copy))
        /\ copy.buffer = item(Primary).data.buffer
        /\ copy.messageID = getMessageID(item(Primary).data)
  BY ForwardView DEF Known, Basis
<1>2. /\ \A p \in Operators : p # s => Enqueued(p)' = Enqueued(p)
      /\ Enqueued(s)' = Enqueued(s) \cup {Request(copy)}
      /\ \A p \in QueueServers : Signal \in Enqueued(p)' <=> Signal \in Enqueued(p)
      /\ inbox'[Primary] = inbox[Primary]
  BY <1>1, SentItems, Senders, Constants DEF Known, Basis, Sent
<1>3. \A p \in Operators : p # Primary => frame'[p][Worker] = frame[p][Worker]
  BY <1>1 DEF OnlyMoves
<1>4. \A p \in QueueServers : Released(p)' <=> Released(p)
  BY <1>1, <1>2, <1>3, ReleasedKept, Constants
<1>5. \A p \in QueueServers : ServerCounts(p)'
  <2>1. \A d : Request(d) \in Enqueued(Echo)' <=> Request(d) \in Enqueued(Echo)
    BY <1>2, Constants
  <2> QED  BY <1>1, <1>4, <2>1, CountsQuietStep, Constants DEF Known, Basis
<1>6. ASSUME NEW r \in Replicas, NEW d \in StampedRequests, Live(r, d)'
      PROVE  Live(r, d) \/ d = copy
  <2>1. r \in QueueServers /\ r # Primary /\ frame'[r][Worker] = frame[r][Worker]
    BY <1>3, Constants
  <2>2. Request(d) = Request(copy) => d = copy
    BY DEF Request
  <2> QED  BY <1>1, <1>2, <1>4, <1>6, <2>1, <2>2, Constants DEF Live, Stream, Entries, pc, item
<1>7. \A d : Current(d) => Current(d)'
  BY <1>1, <1>2, CurrentPrimary DEF TextSteps, StampSteps
<1>8. /\ copy.messageID = Len(requestQueue[Primary])
      /\ copy.messageID = item(Primary).data.messageID
      /\ Len(requestQueue[Primary]) <= MAX_QUEUE_SIZE
  BY <1>1, StampedID DEF Known, StampSteps
<1>9. Current(copy)'
  BY <1>1, <1>8 DEF Current, StampSteps, pc, item
<1>10. ReplicasCurrent'
  BY <1>6, <1>7, <1>9 DEF ReplicasCurrent, Known, CountInv
<1>11. Released(Primary) => copy.messageID = MAX_QUEUE_SIZE
  BY <1>8, ReleasedIsFull, Constants DEF Known
<1>12. PrimaryReleased'
  <2> SUFFICES ASSUME Released(Primary), NEW r \in Replicas, NEW d \in StampedRequests,
                      Live(r, d)'
               PROVE  d.messageID = MAX_QUEUE_SIZE
    BY <1>4, Constants DEF PrimaryReleased
  <2> QED  BY <1>6, <1>11 DEF Known, CountInv, PrimaryReleased
<1> QED  BY <1>5, <1>10, <1>12 DEF CountInv

\* A handler takes the oldest item of its inbox in hand.
LEMMA CountDispatch ==
  ASSUME Serial, Known, NEW q \in QueueServers, NEW w \in Workers, Dispatch(q, w),
         UNCHANGED <<requestQueue, logged, messageHash, arrived>>
  PROVE  CountInv'
<1>0. PICK it : it = inbox[q][1]
  OBVIOUS
<1>1. /\ pc(q) = "idle" /\ Taken(q) /\ OnlyMoves(q)
      /\ frame'[q][Worker].item = it
      /\ it.port = "in" => frame'[q][Worker].pc = "start"
      /\ it.port = "qsignal" => frame'[q][Worker].pc = "pop"
      /\ it \in InboxItems(q)
  BY <1>0, DispatchView, Constants DEF Known, Basis
<1>2. \/ it = Signal /\ it.port = "qsignal"
      \/ /\ it.port = "in" /\ it # Signal
         /\ q # Primary => it = Request(it.data)
  BY <1>1, Constants DEF InboxItems, SocketItems, StampedItems, Signal, Request, Primary
<1>3. /\ Enqueued(q) = Enqueued(q)' \cup {it}
      /\ \A p \in Operators : p # q => Enqueued(p)' = Enqueued(p)
      /\ \A p \in Operators : p # q => frame'[p][Worker] = frame[p][Worker]
  BY <1>0, <1>1, TakenItems, Constants DEF Known, Basis, OnlyMoves
<1>4. Signal \in Enqueued(q)' /\ it = Signal => FALSE
  <2> SUFFICES ASSUME Signal \in Enqueued(q)', it = Signal PROVE FALSE
    OBVIOUS
  <2>1. PICK i \in DOMAIN inbox'[q] : inbox'[q][i] = Signal
    BY DEF Enqueued
  <2>2. i + 1 \in DOMAIN inbox[q] /\ inbox[q][i + 1] = Signal /\ i \in Nat /\ i # 0
        /\ 1 \in DOMAIN inbox[q] /\ inbox[q][1] = Signal
    BY <1>0, <1>1, <2>1, InboxTyped, Constants DEF Taken, Known, Basis
  <2>3. i + 1 = 1
    BY <2>2 DEF Known, Basis, WaitInv, ServerWaits, OneSignal
  <2> QED  BY <2>2, <2>3
<1>5. Released(q)' <=> Released(q)
  BY <1>1, <1>2, <1>3, <1>4, Constants DEF Released, ToSignal, pc, turn
<1>6. \A p \in QueueServers : Released(p)' <=> Released(p)
  <2> SUFFICES ASSUME NEW p \in QueueServers, p # q PROVE Released(p)' <=> Released(p)
    BY <1>5
  <2> QED  BY <1>3, ReleasedKept, Constants
<1>7. \A p \in QueueServers : ServerCounts(p)'
  <2> SUFFICES ASSUME NEW p \in QueueServers PROVE ServerCounts(p)'
    OBVIOUS
  <2>1. frame'[q][Worker].pc # "out"
    BY <1>1, <1>2
  <2>2. \A d : (Flying(p, d)' <=> Flying(p, d)) /\ (InHand(p, d)' <=> InHand(p, d))
    BY <1>1, <1>3, <2>1, FlyingKept, Constants
  <2>3. \A key : Counted(p, key)' <=> Counted(p, key)
    BY DEF Counted
  <2> QED  BY <1>6, <2>2, <2>3, CountsKept DEF Known, Basis, CountInv
<1>8. \A r \in Replicas : \A d : Live(r, d)' => Live(r, d)
  <2> SUFFICES ASSUME NEW r \in Replicas, NEW d, Live(r, d)' PROVE Live(r, d)
    OBVIOUS
  <2>1. r \in QueueServers /\ r # Primary /\ r \in Operators
    BY Constants
  <2>2. CASE r # q
    BY <1>3, <1>6, <2>1, <2>2 DEF Live, Stream, Entries, pc, item
  <2>3. CASE r = q
    BY <1>1, <1>2, <1>3, <1>6, <2>1, <2>3
       DEF Live, Stream, Entries, TextSteps, StampSteps, pc, item
  <2> QED  BY <2>2, <2>3
<1>9. ASSUME NEW d, Current(d) PROVE Current(d)'
  <2>1. CASE q # Primary
    <3>1. /\ inbox'[Primary] = inbox[Primary]
          /\ frame'[Primary][Worker] = frame[Primary][Worker]
          /\ \A t : LoggedBy(Primary, t)' => LoggedBy(Primary, t)
      BY <1>1, <1>3, <2>1, Constants DEF Taken, LoggedBy
    <3> QED  BY <1>9, <3>1, CurrentElsewhere
  <2>2. CASE q = Primary
    <3>1. \A t : BeforeInbox(Primary, t) => BeforeInbox(Primary, t)'
      BY <1>1, <2>2 DEF BeforeInbox, Taken
    <3>2. \A t : BeforeInbox(Primary, t) => BeforeHand(Primary, t)'
      BY <1>0, <1>1, <1>2, <2>2 DEF BeforeInbox, BeforeHand, Taken, TextSteps, StampSteps, pc, item
    <3>3. \A t : Passed(t) => Passed(t)'
      BY <3>1, <3>2 DEF Passed, LoggedBy
    <3> QED  BY <1>1, <1>9, <2>2, <3>3 DEF Current, StampSteps
  <2> QED  BY <2>1, <2>2
<1>10. ReplicasCurrent' /\ PrimaryReleased'
  BY <1>6, <1>8, <1>9, CurrentKept, Constants DEF Known
<1> QED  BY <1>7, <1>10 DEF CountInv

\* The copy in hand is then in the echo server's inbox.
LEMMA CountSendToEcho ==
  ASSUME Serial, Known, NEW q \in QueueServers, NEW w \in Workers, SendToEcho(q, w),
         UNCHANGED <<messageHash, arrived>>
  PROVE  CountInv'
<1>0. PICK data \in StampedRequests : data = item(q).data
  BY SendToEchoView DEF Known, Basis
<1>1. /\ pc(q) = "out" /\ UNCHANGED <<requestQueue, logged>>
      /\ Sent(Echo, Request(data)) /\ OnlyMoves(q)
      /\ frame'[q][Worker].pc = "idle"
  BY <1>0, SendToEchoView DEF Known, Basis, Returns
<1>2. /\ Enqueued(Echo)' = Enqueued(Echo) \cup {Request(data)}
      /\ \A p \in QueueServers : Enqueued(p)' = Enqueued(p) /\ inbox'[p] = inbox[p]
      /\ \A p \in Operators : p # q => frame'[p][Worker] = frame[p][Worker]
  BY <1>1, SentItems, Constants DEF Known, Basis, OnlyMoves, Sent
<1>3. \A p \in QueueServers : Released(p)' <=> Released(p)
  BY <1>1, <1>2, ReleasedKept, Constants
<1>4. \A d : Request(d) = Request(data) <=> d = data
  BY DEF Request
<1>5. data.queueServerID = q
  <2>1. Accepted(q, Data(q, w))
    BY QueueProvenance, OneWorker DEF SendToEcho, At, LoggingSteps, Known, Basis
  <2> QED  BY <1>0, <2>1, OneWorker DEF Accepted, Data, Arg, item
<1>6. \A p \in QueueServers : ServerCounts(p)'
  <2> SUFFICES ASSUME NEW p \in QueueServers PROVE ServerCounts(p)'
    OBVIOUS
  <2>1. \A d : (Flying(p, d)' <=> Flying(p, d)) /\ (InHand(p, d)' <=> InHand(p, d))
    BY <1>0, <1>1, <1>2, <1>4, <1>5, Constants DEF Flying, InHand, pc, item
  <2>2. \A key : Counted(p, key)' <=> Counted(p, key)
    BY DEF Counted
  <2> QED  BY <1>1, <1>3, <2>1, <2>2, CountsKept DEF Known, Basis, CountInv
<1>7. \A r \in Replicas : \A d : Live(r, d)' => Live(r, d)
  <2> SUFFICES ASSUME NEW r \in Replicas PROVE \A d : Live(r, d)' => Live(r, d)
    OBVIOUS
  <2> QED
    BY <1>1, <1>2, <1>3, LiveKept, Constants DEF TextSteps, StampSteps, pc, item
<1>8. \A d : Current(d) => Current(d)'
  <2>1. CASE q # Primary
    <3>1. \A t : LoggedBy(Primary, t)' => LoggedBy(Primary, t)
      BY <1>1 DEF LoggedBy
    <3> QED  BY <1>1, <1>2, <2>1, <3>1, CurrentElsewhere, Constants
  <2>2. CASE q = Primary
    BY <1>1, <1>2, <2>2, CurrentPrimary, Constants DEF TextSteps, StampSteps
  <2> QED  BY <2>1, <2>2
<1>9. ReplicasCurrent' /\ PrimaryReleased'
  BY <1>3, <1>7, <1>8, CurrentKept, Constants DEF Known
<1> QED  BY <1>6, <1>9 DEF CountInv

\* The request in hand becomes the newest entry: its id is not in the log yet,
\* so that nothing can have been counted under it.
LEMMA CountPush ==
  ASSUME Serial, Known, NEW q \in QueueServers, NEW w \in Workers, Push(q, w),
         UNCHANGED <<messageHash, arrived>>
  PROVE  CountInv'
<1>0. PICK data \in StampedRequests, n \in Nat : data = item(q).data /\ n = Len(requestQueue[q])
  BY PushView DEF Known, Basis
<1>1. /\ pc(q) = "push" /\ UNCHANGED inbox /\ OnlyMoves(q)
      /\ frame'[q][Worker].pc = "out" /\ frame'[q][Worker].item = item(q)
      /\ DOMAIN requestQueue[q] = 1 .. n
      /\ \A p \in QueueServers : p # q => requestQueue'[p] = requestQueue[p]
      /\ DOMAIN requestQueue'[q] = DOMAIN requestQueue[q] \cup {n + 1}
      /\ \A i \in DOMAIN requestQueue[q] : requestQueue'[q][i] = requestQueue[q][i]
      /\ requestQueue'[q][n + 1] = data
      /\ logged' = logged \cup {<<q, data.buffer, data.messageID>>}
  BY <1>0, PushView DEF Known, Basis, GoesTo, item
<1>2. /\ \A op \in Operators : Enqueued(op)' = Enqueued(op)
      /\ \A p \in Operators : p # q => frame'[p][Worker] = frame[p][Worker]
      /\ \A p \in QueueServers : p # q => Entries(p)' = Entries(p)
      /\ Entries(q)' = Entries(q) \cup {data}
  BY <1>1 DEF Enqueued, OnlyMoves, Entries
<1>3. /\ \A p \in QueueServers : Released(p)' <=> Released(p)
      /\ ~Released(q)
  BY <1>1, <1>2, ReleasedKept, ReleasedIsFull, Constants DEF Known
<1>4. data.queueServerID = q
  <2>1. Accepted(q, Data(q, w))
    BY QueueProvenance, OneWorker DEF Push, At, LoggingSteps, Known, Basis
  <2> QED  BY <1>0, <2>1, OneWorker DEF Accepted, Data, Arg, item
<1>5. ASSUME NEW e \in Entries(q), e.messageID = data.messageID,
             data.messageID < MAX_QUEUE_SIZE
      PROVE  FALSE
  <2>1. e.buffer < data.buffer /\ data.buffer \in Nat /\ e \in StampedRequests
    <3>1. BeforeHand(q, e.buffer) /\ e \in StampedRequests
      BY EntryOrder DEF Known
    <3> QED  BY <1>0, <1>1, <3>1, IdsTyped DEF BeforeHand, TextSteps, StampSteps
  <2>2. CASE q = Primary
    <3>1. data.messageID = n
      BY <1>0, <1>1, <2>2, PrimaryHand DEF Known, StampSteps
    <3>2. e.messageID < n
      BY <1>0, <2>2, PrimaryEntry DEF Known
    <3> QED  BY <1>5, <3>1, <3>2
  <2>3. CASE q \in Replicas
    <3>1. Live(q, data)
      BY <1>0, <1>1 DEF Live, Stream, TextSteps, StampSteps
    <3>2. Current(data) /\ Current(e)
      BY <1>3, <2>1, <2>3, <3>1 DEF Known, CountInv, ReplicasCurrent, Live
    <3>3. data.messageID # MAX_QUEUE_SIZE
      BY <1>5, IdsTyped, QueueServerAssumption
    <3>4. e.buffer = data.buffer
      BY <1>5, <3>2, <3>3, CurrentAgree DEF Known
    <3> QED  BY <2>1, <3>4
  <2> QED  BY <2>2, <2>3, Constants
<1>6. \A key : \A p : Counted(p, key)' <=> Counted(p, key)
  BY DEF Counted
<1>7. ASSUME NEW d
      PROVE  /\ Flying(q, d)' <=> Flying(q, d) \/ d = data
             /\ InHand(q, d)' <=> InHand(q, d)
  BY <1>0, <1>1, <1>2, <1>4, Constants DEF Flying, InHand, pc, item
<1>8. ServerCounts(q)'
  <2>0. ServerCounts(q)
    BY DEF Known, CountInv
  <2>1. FlyingLogged(q)'
    BY <1>2, <1>3, <1>7, <2>0 DEF ServerCounts, FlyingLogged
  <2>2. EntriesCounted(q)'
    <3> SUFFICES ASSUME NEW d \in Entries(q)'
                 PROVE  Released(q)' \/ Flying(q, d)' \/ Counted(q, d.messageID)'
      BY DEF EntriesCounted
    <3> QED  BY <1>2, <1>3, <1>6, <1>7, <2>0 DEF ServerCounts, EntriesCounted
  <2>3. CountedLogged(q)'
    BY <1>2, <1>3, <1>6, <2>0 DEF ServerCounts, CountedLogged
  <2>4. CountedOnce(q)'
    <3> SUFFICES ASSUME NEW d \in StampedRequests, Flying(q, d)', d.messageID < MAX_QUEUE_SIZE,
                        Counted(q, d.messageID)
                 PROVE  FALSE
      BY <1>6 DEF CountedOnce
    <3>1. CASE Flying(q, d)
      BY <2>0, <3>1 DEF ServerCounts, CountedOnce
    <3>2. CASE d = data
      <4>1. d.messageID \in MessageIDs
        BY IdsTyped, CountedKey DEF Known, Basis
      <4>2. PICK e \in Entries(q) : e.messageID = d.messageID
        BY <2>0, <4>1 DEF ServerCounts, CountedLogged
      <4> QED  BY <1>5, <3>2, <4>2
    <3> QED  BY <1>7, <3>1, <3>2
  <2> QED  BY <2>1, <2>2, <2>3, <2>4 DEF ServerCounts
<1>9. ASSUME NEW p \in QueueServers, p # q PROVE ServerCounts(p)'
  <2>1. \A d : (Flying(p, d)' <=> Flying(p, d)) /\ (InHand(p, d)' <=> InHand(p, d))
    BY <1>2, <1>9, FlyingKept, Constants
  <2> QED  BY <1>1, <1>3, <1>6, <1>9, <2>1, CountsKept DEF Known, Basis, CountInv
<1>10. \A r \in Replicas : \A d : Live(r, d)' => Live(r, d)
  <2> SUFFICES ASSUME NEW r \in Replicas, NEW d, Live(r, d)' PROVE Live(r, d)
    OBVIOUS
  <2>1. r \in QueueServers /\ r # Primary /\ r \in Operators
    BY Constants
  <2>2. CASE r # q
    BY <1>2, <1>3, <2>1, <2>2 DEF Live, Stream, pc, item
  <2>3. CASE r = q
    BY <1>0, <1>1, <1>2, <1>3, <2>1, <2>3 DEF Live, Stream, TextSteps, StampSteps, pc, item
  <2> QED  BY <2>2, <2>3
<1>11. ASSUME NEW d \in StampedRequests, Current(d) PROVE Current(d)'
  <2>1. CASE q # Primary
    <3>1. ASSUME NEW t, LoggedBy(Primary, t)' PROVE LoggedBy(Primary, t)
      <4>1. PICK entry \in logged' : entry[1] = Primary /\ entry[2] = t
        BY <3>1 DEF LoggedBy
      <4>2. entry # <<q, data.buffer, data.messageID>>
        BY <2>1, <4>1
      <4> QED  BY <1>1, <4>1, <4>2 DEF LoggedBy
    <3> QED  BY <1>1, <1>2, <1>11, <2>1, <3>1, CurrentElsewhere, Constants
  <2>2. CASE q = Primary
    <3>1. data.messageID = n
      BY <1>0, <1>1, <2>2, PrimaryHand DEF Known, StampSteps
    <3>2. Passed(d.buffer) => Passed(d.buffer)'
      <4> SUFFICES ASSUME Passed(d.buffer) PROVE Passed(d.buffer)'
        OBVIOUS
      <4>1. d.buffer < data.buffer /\ data.buffer \in Nat /\ d.buffer \in Nat
        BY <1>0, <1>1, <2>2, IdsTyped DEF Passed, BeforeHand, TextSteps, StampSteps
      <4>2. ~(LoggedBy(Primary, d.buffer)')
        <5> SUFFICES ASSUME NEW entry \in logged', entry[1] = Primary, entry[2] = d.buffer
                     PROVE  FALSE
          BY DEF LoggedBy
        <5>1. entry # <<q, data.buffer, data.messageID>>
          BY <4>1
        <5> QED  BY <1>1, <5>1 DEF Passed, LoggedBy
      <4> QED
        BY <1>1, <2>2, <4>2 DEF Passed, BeforeInbox, BeforeHand, TextSteps, StampSteps, pc
    <3> QED  BY <1>0, <1>1, <1>11, <2>2, <3>1, <3>2 DEF Current
  <2> QED  BY <2>1, <2>2
<1>12. ReplicasCurrent' /\ PrimaryReleased'
  BY <1>3, <1>10, <1>11, CurrentKept, Constants DEF Known
<1> QED  BY <1>8, <1>9, <1>12 DEF CountInv

\* A log that is emptied has no copy under way and nothing counted for it.
LEMMA CountPopAll ==
  ASSUME Serial, Known, NEW q \in QueueServers, NEW w \in Workers, PopAll(q, w),
         UNCHANGED <<messageHash, arrived>>
  PROVE  CountInv'
<1>1. /\ pc(q) = "pop" /\ UNCHANGED <<inbox, logged>>
      /\ OnlyMoves(q) /\ frame'[q][Worker].pc = "reset"
      /\ \A p \in QueueServers : p # q => requestQueue'[p] = requestQueue[p]
      /\ DOMAIN requestQueue'[q] = {}
  BY PopAllView DEF Known, Basis, GoesTo
<1>2. /\ \A op \in Operators : Enqueued(op)' = Enqueued(op)
      /\ \A p \in Operators : p # q => frame'[p][Worker] = frame[p][Worker]
      /\ Entries(q)' = {}
  BY <1>1 DEF Enqueued, OnlyMoves, Entries
<1>3. /\ Released(q) /\ ~(Released(q)')
      /\ \A p \in QueueServers : p # q => (Released(p)' <=> Released(p))
  <2>1. Released(q)
    BY <1>1 DEF Released
  <2>2. ~ToSignal(q) /\ Signal \notin Enqueued(q)
    BY <1>1 DEF Known, Basis, WaitInv, ServerWaits, OneSignal
  <2>3. ~(Released(q)')
    BY <1>1, <1>2, <2>2, Constants DEF Released, ToSignal, pc, turn
  <2> QED  BY <1>2, <2>1, <2>3, ReleasedKept, Constants
<1>4. \A key : \A p : Counted(p, key)' <=> Counted(p, key)
  BY DEF Counted
<1>5. \A p \in QueueServers : \A d :
        (Flying(p, d)' <=> Flying(p, d)) /\ (InHand(p, d)' <=> InHand(p, d))
  <2> SUFFICES ASSUME NEW p \in QueueServers
               PROVE  \A d : (Flying(p, d)' <=> Flying(p, d)) /\ (InHand(p, d)' <=> InHand(p, d))
    OBVIOUS
  <2> QED  BY <1>1, <1>2, FlyingKept, Constants
<1>6. ServerCounts(q)'
  <2>0. ServerCounts(q)
    BY DEF Known, CountInv
  <2>1. \A d \in StampedRequests : ~Flying(q, d) /\ ~InHand(q, d)
    BY <1>3, <2>0 DEF ServerCounts, FlyingLogged
  <2>2. \A key \in MessageIDs : ~Counted(q, key)
    BY <1>3, <2>0 DEF ServerCounts, CountedLogged
  <2>3. FlyingLogged(q)' /\ CountedOnce(q)'
    BY <1>5, <2>1 DEF FlyingLogged, CountedOnce
  <2>4. EntriesCounted(q)'
    BY <1>2 DEF EntriesCounted
  <2>5. CountedLogged(q)'
    BY <1>4, <2>2 DEF CountedLogged
  <2> QED  BY <2>3, <2>4, <2>5 DEF ServerCounts
<1>7. ASSUME NEW p \in QueueServers, p # q PROVE ServerCounts(p)'
  BY <1>1, <1>3, <1>4, <1>5, <1>7, CountsKept DEF Known, Basis, CountInv
<1>8. \A r \in Replicas : \A d : Live(r, d)' => Live(r, d)
  <2> SUFFICES ASSUME NEW r \in Replicas, NEW d, Live(r, d)' PROVE Live(r, d)
    OBVIOUS
  <2>1. r \in QueueServers /\ r # Primary /\ r \in Operators
    BY Constants
  <2>2. CASE r # q
    BY <1>1, <1>2, <1>3, <2>1, <2>2 DEF Live, Stream, Entries, pc, item
  <2>3. CASE r = q
    BY <1>1, <1>2, <2>1, <2>3 DEF Live, Stream, TextSteps, StampSteps, pc
  <2> QED  BY <2>2, <2>3
<1>9. ASSUME q # Primary PROVE ReplicasCurrent' /\ PrimaryReleased'
  <2>1. \A t : LoggedBy(Primary, t)' => LoggedBy(Primary, t)
    BY <1>1 DEF LoggedBy
  <2>2. \A d : Current(d) => Current(d)'
    BY <1>1, <1>2, <1>9, <2>1, CurrentElsewhere, Constants
  <2> QED  BY <1>3, <1>8, <1>9, <2>2, CurrentKept, Constants DEF Known
<1>10. ASSUME q = Primary PROVE ReplicasCurrent' /\ PrimaryReleased'
  <2>1. PrimaryReleased'
    BY <1>3, <1>10 DEF PrimaryReleased
  <2>2. ASSUME NEW r \in Replicas, NEW d \in StampedRequests, Live(r, d)' PROVE Current(d)'
    <3>1. d.messageID = MAX_QUEUE_SIZE /\ Current(d)
      BY <1>3, <1>8, <1>10, <2>2
         DEF Known, CountInv, PrimaryReleased, ReplicasCurrent
    <3>2. MAX_QUEUE_SIZE + 1 \notin DOMAIN requestQueue[Primary]
      <4>1. /\ DOMAIN requestQueue[Primary] = 1 .. Len(requestQueue[Primary])
            /\ Len(requestQueue[Primary]) \in Nat /\ Len(requestQueue[Primary]) <= MAX_QUEUE_SIZE
        BY EntriesTyped, Constants DEF Known, Basis, LogsInv, LogFits
      <4> QED  BY <4>1, QueueServerAssumption
    <3>3. Passed(d.buffer)
      BY <1>1, <1>10, <3>1, <3>2 DEF Current, StampSteps
    <3>4. Passed(d.buffer)'
      BY <1>1, <1>10, <3>3
         DEF Passed, BeforeInbox, BeforeHand, LoggedBy, TextSteps, StampSteps, pc
    <3> QED  BY <3>1, <3>4 DEF Current
  <2> QED  BY <2>1, <2>2 DEF ReplicasCurrent
<1> QED  BY <1>6, <1>7, <1>9, <1>10 DEF CountInv

-----------------------------------------------------------------------------
(***************************************************************************)
(* The echo server.                                                        *)
(***************************************************************************)
\* A step of the echo server leaves what the queue servers hold as it was.
LEMMA CurrentEchoStep ==
  ASSUME Serial, Known, OnlyMoves(Echo),
         UNCHANGED <<requestQueue, logged, arrived>>,
         \A p \in QueueServers : inbox'[p] = inbox[p] \/ Sent(p, Signal),
         \A p \in QueueServers : Released(p) => Released(p)',
         Released(Primary)' => Released(Primary) \/ PrimaryReleased'
  PROVE  ReplicasCurrent' /\ PrimaryReleased'
<1>1. /\ \A p \in QueueServers : frame'[p][Worker] = frame[p][Worker]
      /\ \A t : LoggedBy(Primary, t)' => LoggedBy(Primary, t)
  BY Constants DEF OnlyMoves, LoggedBy
<1>2. \A p \in QueueServers : \A d : Request(d) \in Enqueued(p)' => Request(d) \in Enqueued(p)
  <2> SUFFICES ASSUME NEW p \in QueueServers, NEW d, Request(d) \in Enqueued(p)'
               PROVE  Request(d) \in Enqueued(p)
    OBVIOUS
  <2>1. CASE inbox'[p] = inbox[p]
    BY <2>1 DEF Enqueued
  <2>2. CASE Sent(p, Signal)
    <3>1. Enqueued(p)' = Enqueued(p) \cup {Signal}
      BY <2>2, SentItems, Constants DEF Known, Basis
    <3> QED  BY <3>1, Senders
  <2> QED  BY <2>1, <2>2
<1>3. \A r \in Replicas : \A d : Live(r, d)' => Live(r, d)
  <2> SUFFICES ASSUME NEW r \in Replicas PROVE \A d : Live(r, d)' => Live(r, d)
    OBVIOUS
  <2> QED  BY <1>1, <1>2, LiveKept, Constants DEF pc, item
<1>4. \A d : Current(d) => Current(d)'
  BY <1>1, CurrentElsewhere, Constants
<1>5. CASE Released(Primary)' => Released(Primary)
  BY <1>3, <1>4, <1>5, CurrentKept DEF Known
<1>6. CASE PrimaryReleased'
  BY <1>3, <1>4, <1>6 DEF Known, CountInv, ReplicasCurrent
<1> QED  BY <1>5, <1>6

\* A step that neither counts, empties nor signals.
LEMMA CountEchoQuiet ==
  ASSUME Serial, Known, OnlyMoves(Echo),
         UNCHANGED <<requestQueue, logged, arrived>>,
         \A p \in QueueServers : inbox'[p] = inbox[p],
         pc(Echo) # "esignal", frame'[Echo][Worker].pc # "esignal",
         \A q : \A key \in Nat : Counted(q, key)' <=> Counted(q, key),
         \A q \in QueueServers : \A d \in StampedRequests :
           /\ Flying(q, d)' => Flying(q, d)
           /\ InHand(q, d)' => InHand(q, d) \/ Flying(q, d)
           /\ Flying(q, d) => Flying(q, d)' \/ Counted(q, d.messageID)
  PROVE  CountInv'
<1>1. \A p \in QueueServers : Released(p)' <=> Released(p)
  BY Constants DEF Released, ToSignal, Enqueued, OnlyMoves, pc
<1>2. \A q \in QueueServers : ServerCounts(q)'
  <2> SUFFICES ASSUME NEW q \in QueueServers PROVE ServerCounts(q)'
    OBVIOUS
  <2> QED  BY <1>1, CountsKept DEF Known, Basis, CountInv
<1>3. ReplicasCurrent' /\ PrimaryReleased'
  BY <1>1, CurrentEchoStep, Constants
<1> QED  BY <1>2, <1>3 DEF CountInv

\* Where the copies are, when the inboxes are as they were.
LEMMA EchoFlying ==
  ASSUME OnlyMoves(Echo), UNCHANGED inbox, NEW q \in QueueServers, NEW d
  PROVE  /\ Flying(q, d)' <=>
              /\ d.queueServerID = q
              /\ \/ pc(q) = "out" /\ item(q).data = d
                 \/ Request(d) \in Enqueued(Echo)
                 \/ /\ frame'[Echo][Worker].pc \in {"start", "insert"}
                    /\ frame'[Echo][Worker].item.data = d
         /\ InHand(q, d)' <=>
              /\ d.queueServerID = q
              /\ frame'[Echo][Worker].pc \in {"received", "out"}
              /\ frame'[Echo][Worker].item.data = d
BY Constants DEF Flying, InHand, OnlyMoves, Enqueued, pc, item

\* The oldest copy is in hand.
LEMMA CountEchoDispatch ==
  ASSUME Serial, Known, NEW w \in Workers, Dispatch(Echo, w),
         UNCHANGED <<requestQueue, logged, messageHash, arrived>>
  PROVE  CountInv'
<1>0. PICK it : it = inbox[Echo][1]
  OBVIOUS
<1>1. /\ pc(Echo) = "idle" /\ Taken(Echo) /\ OnlyMoves(Echo)
      /\ frame'[Echo][Worker].item = it
      /\ it.port = "in" => frame'[Echo][Worker].pc = "start"
      /\ it.port = "ewait" => frame'[Echo][Worker].pc = "wait"
      /\ it \in InboxItems(Echo)
  BY <1>0, DispatchView, Constants DEF Known, Basis
<1>2. \/ it.port = "in" /\ it = Request(it.data)
      \/ it.port = "ewait" /\ \A d : it # Request(d)
  BY <1>1, Constants DEF InboxItems, StampedItems, WaitItems, Request, Echo, Primary
<1>3. /\ Enqueued(Echo) = Enqueued(Echo)' \cup {it}
      /\ \A p \in QueueServers : inbox'[p] = inbox[p]
      /\ \A p \in QueueServers : frame'[p][Worker] = frame[p][Worker]
  BY <1>0, <1>1, TakenItems, Constants DEF Known, Basis, OnlyMoves, Taken
<1>4. \A d : Request(d).data = d
  BY DEF Request
<1>5. ASSUME NEW q \in QueueServers, NEW d \in StampedRequests
      PROVE  /\ Flying(q, d)' <=> Flying(q, d)
             /\ ~(InHand(q, d)')
  BY <1>1, <1>2, <1>3, <1>4 DEF Flying, InHand, pc, item
<1>6. \A q : \A key : Counted(q, key)' <=> Counted(q, key)
  BY DEF Counted
<1>7. frame'[Echo][Worker].pc # "esignal"
  BY <1>1, <1>2
<1> QED  BY <1>1, <1>3, <1>5, <1>6, <1>7, CountEchoQuiet

\* A copy that is found counted is not flying any more.
LEMMA CountCheckRequest ==
  ASSUME Serial, Known, IdsFit, NEW w \in Workers, CheckRequest(w),
         UNCHANGED <<requestQueue, logged, arrived>>
  PROVE  CountInv'
<1>1. PICK data \in StampedRequests : data = item(Echo).data
  BY CheckRequestView, EchoHands DEF Known, Basis, RequestSteps
<1>2. /\ pc(Echo) = "start" /\ UNCHANGED inbox /\ OnlyMoves(Echo)
      /\ messageHash' = Touch(messageHash, EchoID)
      /\ frame'[Echo][Worker].item = item(Echo)
      /\ \/ frame'[Echo][Worker].pc = "received" /\ Counted(From, EchoID)
         \/ frame'[Echo][Worker].pc = "insert"
  BY CheckRequestView DEF Known, Basis, GoesTo, item
<1>3. PICK s \in QueueServers : s = From /\ s = data.queueServerID
  BY <1>1 DEF From, StampedRequests
<1>4. Flying(s, data)
  BY <1>1, <1>2, <1>3 DEF Flying
<1>5. EchoID = data.messageID
  BY <1>1, <1>2, <1>3, <1>4, CopyID DEF RequestSteps
<1>6. \A q : \A key : Counted(q, key)' <=> Counted(q, key)
  BY <1>2, CountTouched
<1>7. ASSUME NEW q \in QueueServers, NEW d \in StampedRequests
      PROVE  /\ Flying(q, d)' => Flying(q, d)
             /\ InHand(q, d)' => InHand(q, d) \/ Flying(q, d)
             /\ Flying(q, d) => Flying(q, d)' \/ Counted(q, d.messageID)
  BY <1>1, <1>2, <1>3, <1>4, <1>5, EchoFlying DEF Flying
<1> QED  BY <1>2, <1>6, <1>7, CountEchoQuiet

\* The steps that let go of a copy, or have none.
LEMMA CountEchoOther ==
  ASSUME Serial, Known, NEW w \in Workers,
         CheckReceived(w) \/ Reply(w) \/ CheckWait(w) \/ InsertWait(w) \/ CheckProcessed(w),
         UNCHANGED <<requestQueue, logged, arrived>>
  PROVE  CountInv'
<1>1. /\ UNCHANGED inbox /\ OnlyMoves(Echo)
      /\ \/ pc(Echo) \in {"wait", "insertWait", "processed"}
         \/ pc(Echo) \in {"received", "out"}
      /\ \/ frame'[Echo][Worker].pc \in {"idle", "insertWait", "processed", "resetHash"}
         \/ /\ frame'[Echo][Worker].pc = "out" /\ pc(Echo) = "received"
            /\ frame'[Echo][Worker].item = item(Echo)
  BY CheckReceivedView, ReplyView, CheckWaitView, InsertWaitView, CheckProcessedView
     DEF Known, Basis, GoesTo, Returns, item
<1>2. \A q : \A key \in Nat : Counted(q, key)' <=> Counted(q, key)
  <2>1. CASE InsertWait(w)
    <3>1. PICK s \in QueueServers : messageHash' = insertMsgHash(messageHash, WaitKey, s)
      BY <2>1, InsertWaitView, EchoHands DEF Known, Basis, WaitSteps
    <3> QED  BY <3>1, CountInserted, IdsTyped DEF Known, Basis
  <2>2. CASE CheckReceived(w) \/ CheckWait(w)
    <3>1. \E key : messageHash' = Touch(messageHash, key)
      BY <2>2, CheckReceivedView, CheckWaitView DEF Known, Basis
    <3> QED  BY <3>1, CountTouched
  <2>3. CASE Reply(w) \/ CheckProcessed(w)
    <3>1. UNCHANGED messageHash
      BY <2>3, ReplyView, CheckProcessedView DEF Known, Basis
    <3> QED  BY <3>1 DEF Counted
  <2> QED  BY <2>1, <2>2, <2>3
<1>3. ASSUME NEW q \in QueueServers, NEW d \in StampedRequests
      PROVE  /\ Flying(q, d)' <=> Flying(q, d)
             /\ InHand(q, d)' => InHand(q, d)
  BY <1>1, EchoFlying DEF Flying, InHand
<1> QED  BY <1>1, <1>2, <1>3, CountEchoQuiet

\* A copy is counted: the other copies of its sender have other ids.
LEMMA CountInsertRequest ==
  ASSUME Serial, Known, IdsFit, NEW w \in Workers, InsertRequest(w),
         UNCHANGED <<requestQueue, logged, arrived>>
  PROVE  CountInv'
<1>0. PICK data \in StampedRequests : data = item(Echo).data
  BY InsertRequestView, EchoHands DEF Known, Basis, RequestSteps
<1>1. PICK s \in QueueServers : s = From /\ s = data.queueServerID
  BY <1>0 DEF From, StampedRequests
<1>2. /\ pc(Echo) = "insert" /\ UNCHANGED inbox /\ OnlyMoves(Echo)
      /\ messageHash' = insertMsgHash(messageHash, EchoID, s)
      /\ frame'[Echo][Worker].pc = "received"
      /\ frame'[Echo][Worker].item = item(Echo)
  BY <1>1, InsertRequestView DEF Known, Basis, GoesTo, item
<1>3. Flying(s, data)
  BY <1>0, <1>1, <1>2 DEF Flying
<1>4. /\ EchoID = data.messageID /\ data \in Entries(s) /\ ~Released(s)
      /\ data.messageID \in MessageIDs
  BY <1>0, <1>1, <1>2, <1>3, CopyID DEF RequestSteps
<1>5. \A q : \A key :
        Counted(q, key)' <=> Counted(q, key) \/ (key = data.messageID /\ q = s)
  BY <1>2, <1>4, CountInserted DEF Known, Basis
<1>6. ASSUME NEW q \in QueueServers, NEW d \in StampedRequests
      PROVE  /\ Flying(q, d) => Flying(q, d)' \/ (q = s /\ d = data)
             /\ Flying(q, d)' => Flying(q, d)
             /\ InHand(q, d)' => q = s /\ d = data
  BY <1>0, <1>1, <1>2, EchoFlying DEF Flying
<1>7. \A p \in QueueServers : Released(p)' <=> Released(p)
  BY <1>2, Constants DEF Released, ToSignal, Enqueued, OnlyMoves, pc
<1>8. \A p \in QueueServers : Entries(p)' = Entries(p)
  BY DEF Entries
\* Other copies of s are behind the one in hand.
<1>9. ASSUME NEW d \in StampedRequests, Flying(s, d)'
      PROVE  data.buffer < d.buffer
  <2>1. Rank(item(Echo)) = data.buffer /\ FromServer(item(Echo), s) /\ pc(Echo) \in CountSteps
    BY <1>0, <1>1, <1>2, EchoHands DEF Known, Basis, Rank, FromServer, CountSteps, RequestSteps
  <2>2. ServerWaits(s)
    BY DEF Known, Basis, WaitInv
  <2>3. CASE pc(s) = "out" /\ item(s).data = d
    BY <2>1, <2>2, <2>3 DEF ServerWaits, HandEchoOrder
  <2>4. CASE Request(d) \in Enqueued(Echo) /\ d.queueServerID = s
    <3>1. PICK i \in DOMAIN inbox[Echo] : inbox[Echo][i] = Request(d)
      BY <2>4 DEF Enqueued
    <3>2. FromServer(inbox[Echo][i], s) /\ Rank(inbox[Echo][i]) = d.buffer
      BY <2>4, <3>1, Senders, RankTyped DEF Known, Basis
    <3>3. Rank(item(Echo)) < Rank(inbox[Echo][i])
      BY <2>1, <2>2, <3>2 DEF ServerWaits, EchoOrder
    <3> QED  BY <2>1, <3>2, <3>3
  <2> QED  BY <1>2, <1>9, <2>3, <2>4, EchoFlying
<1>10. ASSUME NEW q \in QueueServers PROVE ServerCounts(q)'
  <2>0. ServerCounts(q)
    BY DEF Known, CountInv
  <2>1. FlyingLogged(q)'
    BY <1>4, <1>6, <1>7, <1>8, <2>0 DEF ServerCounts, FlyingLogged
  <2>2. EntriesCounted(q)'
    <3> SUFFICES ASSUME NEW d \in Entries(q)
                 PROVE  Released(q)' \/ Flying(q, d)' \/ Counted(q, d.messageID)'
      BY <1>8 DEF EntriesCounted
    <3>1. d \in StampedRequests
      BY EntriesTyped DEF Known, Basis
    <3> QED  BY <1>5, <1>6, <1>7, <2>0, <3>1 DEF ServerCounts, EntriesCounted
  <2>3. CountedLogged(q)'
    BY <1>4, <1>5, <1>7, <1>8, <2>0 DEF ServerCounts, CountedLogged
  <2>4. CountedOnce(q)'
    <3> SUFFICES ASSUME NEW d \in StampedRequests, Flying(q, d)', d.messageID < MAX_QUEUE_SIZE,
                        Counted(q, d.messageID)'
                 PROVE  FALSE
      BY DEF CountedOnce
    <3>1. q = s /\ d.messageID = data.messageID
      BY <1>5, <1>6, <2>0 DEF ServerCounts, CountedOnce
    <3>2. d \in Entries(s)
      BY <1>6, <2>0, <3>1 DEF ServerCounts, FlyingLogged
    <3>3. d = data
      BY <1>4, <3>1, <3>2, EntriesDiffer
    <3>4. data.buffer < d.buffer /\ d.buffer \in Nat
      BY <1>9, <3>1, IdsTyped
    <3> QED  BY <3>3, <3>4
  <2> QED  BY <2>1, <2>2, <2>3, <2>4 DEF ServerCounts
<1>11. ReplicasCurrent' /\ PrimaryReleased'
  BY <1>2, <1>7, CurrentEchoStep, Constants
<1> QED  BY <1>10, <1>11 DEF CountInv

\* A queue server is released before its signal is sent and while it is under way.
LEMMA SignalKeepsReleased ==
  ASSUME Serial, Known, NEW w \in Workers, SendSignal(w), NEW p \in QueueServers
  PROVE  Released(p)' <=> Released(p)
<1>0. PICK s \in QueueServers : s = turn
  BY SendSignalView DEF Known, Basis
<1>1. /\ pc(Echo) = "esignal" /\ OnlyMoves(Echo) /\ Sent(s, Signal)
      /\ \/ /\ s + 1 \in QueueServers
            /\ frame'[Echo][Worker].pc = "esignal" /\ frame'[Echo][Worker].k = s + 1
         \/ s + 1 \notin QueueServers /\ frame'[Echo][Worker].pc = "idle"
  BY <1>0, SendSignalView DEF Known, Basis
<1>2. /\ Enqueued(s)' = Enqueued(s) \cup {Signal}
      /\ p # s => Enqueued(p)' = Enqueued(p)
      /\ frame'[p][Worker] = frame[p][Worker]
  BY <1>1, SentItems, Constants DEF Known, Basis, OnlyMoves
<1>3. ToSignal(p)' <=> ToSignal(p) /\ p # s
  BY <1>0, <1>1, CommonAssumption DEF ToSignal, QueueServers, pc, turn
<1>4. ToSignal(s)
  BY <1>0, <1>1, CommonAssumption DEF ToSignal, QueueServers
<1> QED  BY <1>2, <1>3, <1>4, Constants DEF Released, pc

LEMMA CountSendSignal ==
  ASSUME Serial, Known, NEW w \in Workers, SendSignal(w),
         UNCHANGED <<requestQueue, logged, arrived>>
  PROVE  CountInv'
<1>0. PICK s \in QueueServers : s = turn
  BY SendSignalView DEF Known, Basis
<1>1. /\ pc(Echo) = "esignal" /\ OnlyMoves(Echo) /\ UNCHANGED messageHash
      /\ Sent(s, Signal)
      /\ \/ /\ s + 1 \in QueueServers
            /\ frame'[Echo][Worker].pc = "esignal" /\ frame'[Echo][Worker].k = s + 1
         \/ s + 1 \notin QueueServers /\ frame'[Echo][Worker].pc = "idle"
  BY <1>0, SendSignalView DEF Known, Basis
<1>2. /\ Enqueued(s)' = Enqueued(s) \cup {Signal}
      /\ \A p \in Operators : p # s => Enqueued(p)' = Enqueued(p)
      /\ \A p \in QueueServers : inbox'[p] = inbox[p] \/ Sent(p, Signal)
      /\ \A p \in QueueServers : frame'[p][Worker] = frame[p][Worker]
  BY <1>1, SentItems, Constants DEF Known, Basis, OnlyMoves, Sent
<1>3. \A p \in QueueServers : Released(p)' <=> Released(p)
  BY SignalKeepsReleased
<1>4. ASSUME NEW p \in QueueServers PROVE ServerCounts(p)'
  <2>1. \A d : (Flying(p, d)' <=> Flying(p, d)) /\ ~(InHand(p, d)')
    BY <1>1, <1>2, Constants DEF Flying, InHand, pc, item
  <2>2. \A key : Counted(p, key)' <=> Counted(p, key)
    BY <1>1 DEF Counted
  <2> QED  BY <1>3, <2>1, <2>2, CountsKept DEF Known, Basis, CountInv
<1>5. ReplicasCurrent' /\ PrimaryReleased'
  BY <1>1, <1>2, <1>3, CurrentEchoStep, Constants
<1> QED  BY <1>4, <1>5 DEF CountInv

\* When the count is about to be emptied every log is full and no copy is on
\* its way.
LEMMA AtReset ==
  ASSUME Serial, Known, pc(Echo) = "resetHash", NEW q \in QueueServers
  PROVE  /\ Len(requestQueue[q]) = MAX_QUEUE_SIZE /\ ~Released(q)
         /\ pc(q) # "out" /\ \A d : ~Flying(q, d)
<1>1. Waiting(q) /\ ~SignalPending(q) /\ ~CopyInFlight /\ Basis
  BY NoCopyAtReset DEF Known
<1>2. ~Released(q) /\ pc(q) # "reset"
  BY <1>1, WaitViews DEF Released
<1>3. Len(requestQueue[q]) = MAX_QUEUE_SIZE
  BY <1>1, <1>2 DEF Basis, WaitInv, ServerWaits, WaitingIsFull
<1>4. pc(q) # "out" /\ \A d : Request(d) \notin Enqueued(Echo)
  BY <1>1, OneWorker DEF CopyInFlight, InHandler, Request, pc
<1> QED  BY <1>2, <1>3, <1>4 DEF Flying

\* When the count is emptied every entry of every log has been counted, and the
\* ids within the capacity have been used up: what a replica has yet to log is
\* beyond it.
LEMMA CountResetHash ==
  ASSUME Serial, Known, NEW w \in Workers, ResetHash(w),
         UNCHANGED <<requestQueue, logged, arrived>>
  PROVE  CountInv'
<1>1. /\ pc(Echo) = "resetHash" /\ UNCHANGED inbox /\ OnlyMoves(Echo)
      /\ messageHash' = EmptyHash
      /\ frame'[Echo][Worker].pc = "esignal" /\ frame'[Echo][Worker].k = turn
  BY ResetHashView DEF Known, Basis, GoesTo, turn
<1>2. turn = 0 /\ processedAllRequests(messageHash)
  BY <1>1 DEF Known, Basis, WaitInv, EndOfRound
<1>3. \A q \in QueueServers : Released(q)'
  BY <1>1, <1>2, CommonAssumption DEF Released, ToSignal, QueueServers, pc, turn
<1>4. ASSUME NEW q \in QueueServers
      PROVE  /\ Len(requestQueue[q]) = MAX_QUEUE_SIZE /\ ~Released(q)
             /\ \A d : ~Flying(q, d) /\ ~(Flying(q, d)') /\ ~(InHand(q, d)')
  BY <1>1, AtReset, EchoFlying DEF Flying
<1>5. \A q : \A key : ~(Counted(q, key)')
  BY <1>1, CountReset
<1>6. \A q \in QueueServers : ServerCounts(q)'
  BY <1>3, <1>4, <1>5
     DEF ServerCounts, FlyingLogged, EntriesCounted, CountedLogged, CountedOnce
<1>7. PrimaryReleased'
  <2> SUFFICES ASSUME NEW r \in Replicas, NEW d \in StampedRequests, Live(r, d)',
                      d.messageID # MAX_QUEUE_SIZE
               PROVE  FALSE
    BY DEF PrimaryReleased
  <2>0. r \in QueueServers /\ Primary \in QueueServers /\ ServerCounts(r) /\ ServerCounts(Primary)
    BY Constants DEF Known, CountInv
  <2>1. Stream(r, d)
    BY <1>1, <1>3, <2>0, Constants DEF Live, Stream, Enqueued, OnlyMoves, pc, item
  <2>2. Current(d)
    BY <2>1 DEF Live, Known, CountInv, ReplicasCurrent
  <2>3. d.messageID \in Nat /\ d.messageID < MAX_QUEUE_SIZE
    BY <2>2, IdsTyped, QueueServerAssumption DEF Current
  <2>4. PICK e \in Entries(Primary) : e.messageID = d.messageID /\ e \in StampedRequests
    <3> DEFINE i == d.messageID + 1
    <3>1. i \in DOMAIN requestQueue[Primary] /\ i - 1 = d.messageID
      BY <1>4, <2>0, <2>3, EntriesTyped, QueueServerAssumption DEF Known, Basis
    <3>2. requestQueue[Primary][i].messageID = i - 1
      BY <3>1 DEF Known, Basis, LogsInv, IdsNumberPrimaryLog
    <3>3. requestQueue[Primary][i] \in Entries(Primary)
      BY <3>1 DEF Entries
    <3> QED  BY <2>0, <3>1, <3>2, <3>3, EntriesTyped DEF Known, Basis
  <2>5. Counted(Primary, d.messageID)
    BY <1>4, <2>0, <2>4 DEF ServerCounts, EntriesCounted
  <2>6. Counted(r, d.messageID) /\ d.messageID \in MessageIDs
    BY <1>2, <2>0, <2>3, <2>5, CountedKey
       DEF processedAllRequests, receivedAllRequests, Counted, checkIfPresent, Known, Basis
  <2>7. PICK f \in Entries(r) : f.messageID = d.messageID
    BY <2>0, <2>6 DEF ServerCounts, CountedLogged
  <2>8. Current(f)
    BY <1>4, <2>0, <2>7, EntryCurrent
  <2>9. f.buffer = d.buffer
    BY <2>2, <2>7, <2>8, CurrentAgree DEF Known
  <2>10. d.buffer \in Nat /\ BeforeInbox(r, d.buffer) /\ BeforeHand(r, d.buffer)
    BY <2>0, <2>7, <2>9, EntryOrder, IdsTyped DEF Known
  <2>11. CASE Request(d) \in Enqueued(r)
    <3>1. PICK i \in DOMAIN inbox[r] : inbox[r][i] = Request(d)
      BY <2>11 DEF Enqueued
    <3>2. d.buffer < d.buffer
      BY <2>10, <3>1 DEF BeforeInbox, Request
    <3> QED  BY <2>10, <3>2
  <2>12. CASE pc(r) \in TextSteps /\ item(r).data = d
    BY <2>10, <2>12 DEF BeforeHand
  <2> QED  BY <2>1, <2>11, <2>12 DEF Stream
<1>8. ReplicasCurrent' /\ PrimaryReleased'
  BY <1>1, <1>3, <1>7, CurrentEchoStep, Constants
<1> QED  BY <1>6, <1>8 DEF CountInv

-----------------------------------------------------------------------------
LEMMA CountQueueServer ==
  ASSUME Serial, Known, IdsFit, NEW q \in QueueServers, NEW w \in Workers, QueueStep(q, w)
  PROVE  CountInv'
<1>0. UNCHANGED <<messageHash, arrived>> /\ QueueServerStep(q, w)
  BY DEF QueueStep, echoVars
<1>1. CASE Dispatch(q, w) /\ UNCHANGED queueVars
  BY <1>0, <1>1, CountDispatch DEF queueVars
<1>2. CASE q = Primary /\ VerifySignature(w)
  BY <1>0, <1>2, CountVerifySignature
<1>3. CASE q = Primary /\ Forward(w)
  BY <1>0, <1>3, CountForward
<1>4. CASE q # Primary /\ VerifyMac(q, w)
  BY <1>0, <1>4, CountVerifyMac
<1>5. CASE CheckSize(q, w)    BY <1>0, <1>5, CountCheckSize
<1>6. CASE CheckLock(q, w)    BY <1>0, <1>6, CountFullLog
<1>7. CASE SendWait(q, w)     BY <1>0, <1>7, CountFullLog
<1>8. CASE SetLock(q, w)      BY <1>0, <1>8, CountFullLog
<1>9. CASE Push(q, w)         BY <1>0, <1>9, CountPush
<1>10. CASE SendToEcho(q, w)  BY <1>0, <1>10, CountSendToEcho
<1>11. CASE PopAll(q, w)      BY <1>0, <1>11, CountPopAll
<1>12. CASE ResetLock(q, w)   BY <1>0, <1>12, CountFullLog
<1> QED
  BY <1>0, <1>1, <1>2, <1>3, <1>4, <1>5, <1>6, <1>7, <1>8, <1>9, <1>10, <1>11, <1>12
     DEF QueueServerStep

LEMMA CountEchoServer ==
  ASSUME Serial, Known, IdsFit, NEW w \in Workers, EchoStep(w)
  PROVE  CountInv'
<1>0. UNCHANGED <<requestQueue, logged, arrived>> /\ EchoServerStep(w)
  BY DEF EchoStep, queueVars
<1>1. CASE Dispatch(Echo, w) /\ UNCHANGED echoVars
  BY <1>0, <1>1, CountEchoDispatch DEF echoVars
<1>2. CASE CheckRequest(w)    BY <1>0, <1>2, CountCheckRequest
<1>3. CASE InsertRequest(w)   BY <1>0, <1>3, CountInsertRequest
<1>4. CASE CheckReceived(w)   BY <1>0, <1>4, CountEchoOther
<1>5. CASE Reply(w)           BY <1>0, <1>5, CountEchoOther
<1>6. CASE CheckWait(w)       BY <1>0, <1>6, CountEchoOther
<1>7. CASE InsertWait(w)      BY <1>0, <1>7, CountEchoOther
<1>8. CASE CheckProcessed(w)  BY <1>0, <1>8, CountEchoOther
<1>9. CASE ResetHash(w)       BY <1>0, <1>9, CountResetHash
<1>10. CASE SendSignal(w)     BY <1>0, <1>10, CountSendSignal
<1> QED
  BY <1>0, <1>1, <1>2, <1>3, <1>4, <1>5, <1>6, <1>7, <1>8, <1>9, <1>10 DEF EchoServerStep

LEMMA NextCount == Serial /\ IdsFit /\ Known /\ [Next]_vars => CountInv'
<1> SUFFICES ASSUME Serial, IdsFit, Known, [Next]_vars PROVE CountInv'
  OBVIOUS
<1>1. CASE Arrive
  BY <1>1, CountArrive
<1>2. ASSUME NEW w \in Workers, NEW q \in QueueServers, QueueStep(q, w) PROVE CountInv'
  BY <1>2, CountQueueServer
<1>3. ASSUME NEW w \in Workers, EchoStep(w) PROVE CountInv'
  BY <1>3, CountEchoServer
<1>4. CASE UNCHANGED vars
  <2>1. UNCHANGED <<inbox, frame, requestQueue, logged, messageHash, arrived>>
    BY <1>4 DEF vars
  <2>2. /\ \A p \in Operators : Enqueued(p)' = Enqueued(p)
        /\ \A p \in QueueServers : Released(p)' <=> Released(p)
        /\ \A p : \A key : Counted(p, key)' <=> Counted(p, key)
    BY <2>1 DEF Enqueued, Released, ToSignal, Counted, pc, turn
  <2>3. ASSUME NEW p \in QueueServers PROVE ServerCounts(p)'
    <3>1. \A d : (Flying(p, d)' <=> Flying(p, d)) /\ (InHand(p, d)' <=> InHand(p, d))
      BY <2>1, <2>2, FlyingKept, Constants
    <3> QED  BY <2>1, <2>2, <3>1, CountsKept DEF Known, Basis, CountInv
  <2>4. \A r \in Replicas : \A d : Live(r, d)' => Live(r, d)
    BY <2>1, <2>2, Constants DEF Live, Stream, Entries, pc, item
  <2>5. \A d : Current(d) => Current(d)'
    BY <2>1, CurrentElsewhere DEF LoggedBy
  <2>6. ReplicasCurrent' /\ PrimaryReleased'
    BY <2>2, <2>4, <2>5, CurrentKept, Constants DEF Known
  <2> QED  BY <2>3, <2>6 DEF CountInv
<1> QED  BY <1>1, <1>2, <1>3, <1>4 DEF Next, SystemStep

LEMMA InitCount == Serial /\ Init => CountInv
<1> SUFFICES ASSUME Serial, Init PROVE CountInv
  OBVIOUS
<1>1. \A op \in Operators : Enqueued(op) = {}
  BY DEF Init, RuntimeInit, Enqueued
<1>2. \A op \in Operators : pc(op) = "idle"
  BY OneWorker DEF Init, RuntimeInit, Idle, Activation, pc
<1>3. \A q \in QueueServers : Entries(q) = {} /\ \A key : ~Counted(q, key)
  BY DEF Init, QueueServerInit, EchoServerInit, Counted, checkIfPresent, EmptyHash, Entries
<1>4. \A q \in QueueServers : \A d : ~Flying(q, d) /\ ~InHand(q, d)
  BY <1>1, <1>2, Constants DEF Flying, InHand
<1>5. \A q \in QueueServers : ServerCounts(q)
  BY <1>3, <1>4 DEF ServerCounts, FlyingLogged, EntriesCounted, CountedLogged, CountedOnce
<1>6. \A r \in Replicas : \A d : ~Live(r, d)
  BY <1>1, <1>2, <1>3, Constants DEF Live, Stream, TextSteps, StampSteps
<1> QED  BY <1>5, <1>6 DEF CountInv, ReplicasCurrent, PrimaryReleased

LEMMA KnownKept == ASSUME Serial, IdsFit PROVE Spec => []Known
<1>1. Init => Known
  BY InitTyped, InitProvenance, InitLogsInv, InitOrder, InitWait, InitCount DEF Known, Basis
<1>2. Known /\ [Next]_vars => Known'
  BY NextTyped, NextProvenance, NextLogsInv, NextOrder, NextWait, NextCount DEF Known, Basis
<1> QED  BY <1>1, <1>2, PTL DEF Spec
=============================================================================
