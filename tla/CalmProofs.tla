----------------------------- MODULE CalmProofs -----------------------------
(***************************************************************************)
(* What the logs hold when clients hold back while a round is being ended  *)
(* (CalmSpec): every replica logs what the primary logs, in its order.     *)
(*                                                                         *)
(* Beyond the round invariants of Rounds this needs that nothing is in the *)
(* replicas' way: the requests of a round that a replica has been given    *)
(* are numbered without a gap, the one request more than the logs can hold *)
(* is the last of its round for everybody, and nobody is given a request   *)
(* of the next round before all have emptied their logs.                   *)
(***************************************************************************)
EXTENDS CountProofs

\* The key files of the primary and the replicas match.
KeysAgree == \A r \in Replicas : PrimaryKeys[r] = ReplicaKeys[r]

-----------------------------------------------------------------------------
(***************************************************************************)
(* The inductive invariant.                                                *)
(***************************************************************************)
\* q has discarded a request for want of room and not yet reset its lock.
Full(q) == Waiting(q) \/ pc(q) \in {"state", "qwait"}

NoRequest(q) == \A i \in DOMAIN inbox[q] : inbox[q][i].port # "in"

LogOf(q)    == Len(requestQueue[q])
InboxOf(q)  == Len(inbox[q])
InHandOf(q) == IF pc(q) \in TextSteps THEN 1 ELSE 0

\* How many requests of the round r was given, and how many it should have been.
Filled(r) == LogOf(r) + InboxOf(r) + InHandOf(r)
Given(r)  == LogOf(Primary) + (IF pc(Primary) \in StampSteps /\ ~ToForward(r) THEN 1 ELSE 0)

\* A round has at most one request more than the logs can hold.
LoadBounded ==
  ~Full(Primary) =>
    LogOf(Primary) + InboxOf(Primary) + InHandOf(Primary) <= MAX_QUEUE_SIZE + 1

\* Once somebody has discarded that one, no further request is under way.
LastDiscarded ==
  (\E q \in QueueServers : Full(q)) =>
    /\ NoRequest(Primary)
    /\ pc(Primary) # "start"
    /\ pc(Primary) \in StampSteps => LogOf(Primary) = MAX_QUEUE_SIZE

FullIsIdle == \A q \in QueueServers : Full(q) => NoRequest(q) /\ pc(q) \notin TextSteps

ResetIsEmpty == \A q \in QueueServers : pc(q) = "reset" => LogOf(q) = 0

\* The requests of the round that r was given are numbered without a gap.
NumberedAt(r) ==
  /\ \A i \in DOMAIN requestQueue[r] : requestQueue[r][i].messageID = i - 1
  /\ pc(r) \in TextSteps => item(r).data.messageID = LogOf(r)
  /\ \A i \in DOMAIN inbox[r] : inbox[r][i].port = "in" =>
       inbox[r][i].data.messageID = LogOf(r) + InHandOf(r) + i - 1

\* The replica and the primary are at the same place of the round, or one of
\* them has discarded the last request or begun anew and the other will.
InStep(r) ==
  /\ ~Full(r) /\ ~Full(Primary) => Filled(r) = Given(r)
  /\ ~Full(r) /\ Full(Primary) =>
       Filled(r) = IF SignalPending(Primary) THEN 0 ELSE MAX_QUEUE_SIZE + 1
  /\ Full(r) /\ ~Full(Primary) =>
       Given(r) = IF SignalPending(r) THEN 0 ELSE MAX_QUEUE_SIZE + 1
  /\ Full(r) /\ Full(Primary) => (SignalPending(r) <=> SignalPending(Primary))

CalmInv == /\ LoadBounded /\ LastDiscarded /\ FullIsIdle /\ ResetIsEmpty
           /\ \A r \in Replicas : NumberedAt(r) /\ InStep(r)

-----------------------------------------------------------------------------
(***************************************************************************)
(* The parts of the invariant in one state and in the next.                *)
(***************************************************************************)
LEMMA FullViews ==
  ASSUME Serial, NEW q \in QueueServers
  PROVE  /\ Full(q) <=> lockOnQueue[q] = 1 \/ pc(q) \in {"state", "qwait", "set"}
         /\ Full(q)' <=> \/ lockOnQueue'[q] = 1
                         \/ frame'[q][Worker].pc \in {"state", "qwait", "set"}
BY WaitViews, WaitViewsNext DEF Full, pc

LEMMA Sizes ==
  ASSUME TypeOK, NEW q \in QueueServers
  PROVE  /\ LogOf(q) \in Nat /\ InboxOf(q) \in Nat /\ InHandOf(q) \in {0, 1}
         /\ DOMAIN inbox[q] = 1 .. InboxOf(q) /\ DOMAIN requestQueue[q] = 1 .. LogOf(q)
         /\ lockOnQueue[q] \in {0, 1}
<1>1. inbox[q] \in Seq(InboxItems(q))
  BY Constants DEF TypeOK, InboxOK
<1>2. requestQueue[q] \in Seq(StampedRequests) /\ lockOnQueue[q] \in {0, 1}
  BY DEF TypeOK, QueueOK
<1> QED  BY <1>1, <1>2 DEF LogOf, InboxOf, InHandOf

LEMMA SizesNext ==
  ASSUME TypeOK', NEW q \in QueueServers
  PROVE  /\ LogOf(q)' \in Nat /\ InboxOf(q)' \in Nat /\ InHandOf(q)' \in {0, 1}
         /\ DOMAIN inbox'[q] = 1 .. InboxOf(q)' /\ DOMAIN requestQueue'[q] = 1 .. LogOf(q)'
<1>1. inbox'[q] \in Seq(InboxItems(q)')
  BY Constants DEF TypeOK, InboxOK
<1>2. requestQueue'[q] \in Seq(StampedRequests)
  BY DEF TypeOK, QueueOK
<1> QED  BY <1>1, <1>2 DEF LogOf, InboxOf, InHandOf

LEMMA SentLength ==
  ASSUME TypeOK, TypeOK', NEW q \in QueueServers, NEW it, Sent(q, it)
  PROVE  InboxOf(q)' = InboxOf(q) + 1
<1>1. PICK n, m : n = InboxOf(q) /\ m = InboxOf(q)'
  OBVIOUS
<1>2. n \in Nat /\ m \in Nat /\ 1 .. m = (1 .. n) \cup {n + 1}
  BY <1>1, Sizes, SizesNext DEF Sent, InboxOf
<1>3. n + 1 \in 1 .. m /\ m + 1 \notin (1 .. n) \cup {n + 1}
  BY <1>2
<1>4. m = n + 1
  BY <1>2, <1>3
<1> QED  BY <1>1, <1>4

LEMMA TakenLength ==
  ASSUME TypeOK, TypeOK', NEW q \in QueueServers, Taken(q)
  PROVE  InboxOf(q)' = InboxOf(q) - 1
<1>1. PICK n, m : n = InboxOf(q) /\ m = InboxOf(q)'
  OBVIOUS
<1>2. /\ n \in Nat /\ m \in Nat /\ 1 \in 1 .. n
      /\ \A i \in 1 .. m : i + 1 \in 1 .. n
      /\ \A i \in 1 .. n : i = 1 \/ i - 1 \in 1 .. m
  BY <1>1, Sizes, SizesNext DEF Taken
<1>3. n = 1 \/ n - 1 \in 1 .. m
  BY <1>2
<1>4. m = 0 \/ m + 1 \in 1 .. n
  BY <1>2
<1>5. m = n - 1
  BY <1>2, <1>3, <1>4
<1> QED  BY <1>1, <1>5

\* A queue server for which a signal is under way waits for it.
LEMMA SignalledIsFull ==
  ASSUME Known, NEW q \in QueueServers, SignalPending(q)
  PROVE  Waiting(q) /\ Full(q)
BY DEF Known, Basis, WaitInv, ServerWaits, Outstanding, Full

LEMMA SignalledIsFullNext ==
  ASSUME Known', NEW q \in QueueServers, SignalPending(q)'
  PROVE  Waiting(q)'
BY DEF Known, Basis, WaitInv, ServerWaits, Outstanding

-----------------------------------------------------------------------------
(***************************************************************************)
(* Steps that give nobody a request and that fill or clear no log: they    *)
(* change only what is of no account to those that are full.               *)
(***************************************************************************)
LEMMA CalmKept ==
  ASSUME Serial, Known, Known', CalmInv,
         \A q \in QueueServers : Full(q)' <=> Full(q),
         \/ \A q \in QueueServers : SignalPending(q)' <=> SignalPending(q)
         \/ \A q \in QueueServers : Full(q) /\ SignalPending(q)',
         \A q \in QueueServers :
           \/ inbox'[q] = inbox[q] /\ requestQueue'[q] = requestQueue[q]
           \/ /\ Full(q) /\ NoRequest(q)'
              /\ requestQueue'[q] = requestQueue[q] \/ requestQueue'[q] = << >>,
         \A q \in QueueServers : frame'[q][Worker].pc = "reset" =>
           Len(requestQueue'[q]) = 0,
         \A q \in QueueServers :
           \/ frame'[q][Worker] = frame[q][Worker]
           \/ pc(q) \notin TextSteps /\ frame'[q][Worker].pc \notin TextSteps
           \/ /\ pc(q) \in TextSteps /\ frame'[q][Worker].pc \in TextSteps
              /\ frame'[q][Worker].item.data.messageID = item(q).data.messageID
              /\ q = Primary => /\ pc(q) \in {"size", "push"}
                                /\ frame'[q][Worker].pc \in {"size", "push"}
  PROVE  CalmInv'
<1> USE DEF pc, item
<1>1. \A q \in QueueServers : InHandOf(q)' = InHandOf(q)
  BY DEF InHandOf
<1>2. \A q \in QueueServers : ~Full(q) => LogOf(q)' = LogOf(q) /\ InboxOf(q)' = InboxOf(q)
  BY DEF LogOf, InboxOf
<1>3. \A q \in QueueServers : NoRequest(q) => NoRequest(q)'
  BY DEF NoRequest
<1>4. \A q \in QueueServers : pc(q) \in TextSteps => ~Full(q)
  BY DEF CalmInv, FullIsIdle
<1>5. /\ pc(Primary)' \in StampSteps <=> pc(Primary) \in StampSteps
      /\ pc(Primary)' = "start" <=> pc(Primary) = "start"
      /\ \A r \in Replicas : pc(Primary) \in StampSteps => (ToForward(r)' <=> ToForward(r))
  BY Constants DEF TextSteps, StampSteps, ToForward
<1>6. LoadBounded'
  BY <1>1, <1>2, Constants DEF CalmInv, LoadBounded
<1>7. LastDiscarded'
  BY <1>2, <1>3, <1>4, <1>5, Constants DEF CalmInv, LastDiscarded, TextSteps
<1>8. FullIsIdle'
  BY <1>3 DEF CalmInv, FullIsIdle
<1>9. ResetIsEmpty'
  BY DEF CalmInv, ResetIsEmpty, LogOf
<1>10. ASSUME NEW r \in Replicas PROVE NumberedAt(r)'
  <2>1. r \in QueueServers /\ r # Primary /\ NumberedAt(r)
    BY Constants DEF CalmInv
  <2>2. \A i \in DOMAIN requestQueue'[r] : requestQueue'[r][i].messageID = i - 1
    <3>1. DOMAIN << >> = {}
      OBVIOUS
    <3> QED  BY <2>1, <3>1 DEF NumberedAt
  <2>3. CASE Full(r)
    <3>1. NoRequest(r)' /\ pc(r) \notin TextSteps /\ pc(r)' \notin TextSteps
      BY <1>3, <2>1, <2>3 DEF CalmInv, FullIsIdle
    <3> QED  BY <2>2, <3>1 DEF NumberedAt, NoRequest
  <2>4. CASE ~Full(r)
    <3>1. inbox'[r] = inbox[r] /\ requestQueue'[r] = requestQueue[r]
      BY <2>1, <2>4
    <3>2. LogOf(r)' = LogOf(r) /\ InHandOf(r)' = InHandOf(r)
      BY <1>1, <1>2, <2>1, <2>4
    <3>3. pc(r)' \in TextSteps => /\ pc(r) \in TextSteps
                                  /\ item(r)'.data.messageID = item(r).data.messageID
      BY <2>1
    <3> QED  BY <2>1, <2>2, <3>1, <3>2, <3>3 DEF NumberedAt
  <2> QED  BY <2>3, <2>4
<1>11. ASSUME NEW r \in Replicas PROVE InStep(r)'
  <2>1. r \in QueueServers /\ Primary \in QueueServers /\ InStep(r)
    BY <1>11, Constants DEF CalmInv
  <2>2. ~Full(r) => Filled(r)' = Filled(r)
    BY <1>1, <1>2, <2>1 DEF Filled
  <2>3. ~Full(Primary) => Given(r)' = Given(r)
    BY <1>2, <1>5, <2>1 DEF Given
  <2>4. (Full(r)' <=> Full(r)) /\ (Full(Primary)' <=> Full(Primary))
    BY <2>1
  <2>5. \/ /\ SignalPending(r)' <=> SignalPending(r)
           /\ SignalPending(Primary)' <=> SignalPending(Primary)
        \/ /\ Full(r) /\ SignalPending(r)'
           /\ Full(Primary) /\ SignalPending(Primary)'
    BY <2>1
  <2> QED  BY <2>1, <2>2, <2>3, <2>4, <2>5 DEF InStep
<1> QED  BY <1>6, <1>7, <1>8, <1>9, <1>10, <1>11 DEF CalmInv

\* A step of q leaves the other queue servers as they are.
LEMMA OthersKept ==
  ASSUME Serial, NEW q \in QueueServers, OnlyMoves(q),
         NEW p \in QueueServers, p # q, inbox'[p] = inbox[p],
         requestQueue'[p] = requestQueue[p], lockOnQueue'[p] = lockOnQueue[p]
  PROVE  /\ frame'[p][Worker] = frame[p][Worker]
         /\ Full(p)' <=> Full(p)
         /\ SignalPending(p)' <=> SignalPending(p)
         /\ LogOf(p)' = LogOf(p) /\ InboxOf(p)' = InboxOf(p) /\ InHandOf(p)' = InHandOf(p)
         /\ NoRequest(p)' <=> NoRequest(p)
         /\ NumberedAt(p) => NumberedAt(p)'
<1>1. frame'[p][Worker] = frame[p][Worker] /\ frame'[Echo][Worker] = frame[Echo][Worker]
  BY Constants DEF OnlyMoves
<1>2. Enqueued(p)' = Enqueued(p) /\ (ToSignal(p)' <=> ToSignal(p))
  BY <1>1 DEF Enqueued, ToSignal, pc, turn
<1>3. (Full(p)' <=> Full(p)) /\ (SignalPending(p)' <=> SignalPending(p))
  BY <1>1, <1>2, FullViews, WaitViews, WaitViewsNext DEF pc
<1>4. LogOf(p)' = LogOf(p) /\ InboxOf(p)' = InboxOf(p) /\ InHandOf(p)' = InHandOf(p)
  BY <1>1 DEF LogOf, InboxOf, InHandOf, pc
<1>5. (NoRequest(p)' <=> NoRequest(p)) /\ (NumberedAt(p) => NumberedAt(p)')
  BY <1>1, <1>4 DEF NoRequest, NumberedAt, pc, item
<1> QED  BY <1>1, <1>3, <1>4, <1>5

\* The signals of q are where they were.
LEMMA SignalKept ==
  ASSUME Serial, NEW q \in QueueServers, OnlyMoves(q),
         Signal \in Enqueued(q)' <=> Signal \in Enqueued(q),
         frame'[q][Worker].pc \in {"pop", "reset"} <=> pc(q) \in {"pop", "reset"}
  PROVE  SignalPending(q)' <=> SignalPending(q)
<1>1. ToSignal(q)' <=> ToSignal(q)
  BY Constants DEF OnlyMoves, ToSignal, pc, turn
<1> QED  BY <1>1, WaitViews, WaitViewsNext

\* The handler of q goes on without a request for anybody.
LEMMA CalmQuietStep ==
  ASSUME Serial, Known, Known', CalmInv, NEW q \in QueueServers, OnlyMoves(q),
         \A p \in QueueServers : p # q =>
           /\ inbox'[p] = inbox[p] /\ requestQueue'[p] = requestQueue[p]
           /\ lockOnQueue'[p] = lockOnQueue[p],
         Full(q)' <=> Full(q), SignalPending(q)' <=> SignalPending(q),
         \/ inbox'[q] = inbox[q] /\ requestQueue'[q] = requestQueue[q]
         \/ /\ Full(q) /\ NoRequest(q)'
            /\ requestQueue'[q] = requestQueue[q] \/ requestQueue'[q] = << >>,
         frame'[q][Worker].pc = "reset" => Len(requestQueue'[q]) = 0,
         \/ pc(q) \notin TextSteps /\ frame'[q][Worker].pc \notin TextSteps
         \/ /\ pc(q) \in TextSteps /\ frame'[q][Worker].pc \in TextSteps
            /\ frame'[q][Worker].item.data.messageID = item(q).data.messageID
            /\ q = Primary => /\ pc(q) \in {"size", "push"}
                              /\ frame'[q][Worker].pc \in {"size", "push"}
  PROVE  CalmInv'
<1>1. \A p \in QueueServers : p # q =>
        /\ frame'[p][Worker] = frame[p][Worker]
        /\ Full(p)' <=> Full(p)
        /\ SignalPending(p)' <=> SignalPending(p)
  BY OthersKept
<1>2. \A p \in QueueServers : p # q /\ frame'[p][Worker].pc = "reset" =>
        Len(requestQueue'[p]) = 0
  BY <1>1 DEF CalmInv, ResetIsEmpty, LogOf, pc
<1>3. /\ \A p \in QueueServers : Full(p)' <=> Full(p)
      /\ \A p \in QueueServers : SignalPending(p)' <=> SignalPending(p)
      /\ \A p \in QueueServers : frame'[p][Worker].pc = "reset" => Len(requestQueue'[p]) = 0
  BY <1>1, <1>2
<1>4. \A p \in QueueServers :
        \/ inbox'[p] = inbox[p] /\ requestQueue'[p] = requestQueue[p]
        \/ /\ Full(p) /\ NoRequest(p)'
           /\ requestQueue'[p] = requestQueue[p] \/ requestQueue'[p] = << >>
  OBVIOUS
<1>5. \A p \in QueueServers :
        \/ frame'[p][Worker] = frame[p][Worker]
        \/ pc(p) \notin TextSteps /\ frame'[p][Worker].pc \notin TextSteps
        \/ /\ pc(p) \in TextSteps /\ frame'[p][Worker].pc \in TextSteps
           /\ frame'[p][Worker].item.data.messageID = item(p).data.messageID
           /\ p = Primary => /\ pc(p) \in {"size", "push"}
                             /\ frame'[p][Worker].pc \in {"size", "push"}
  BY <1>1
<1> QED  BY <1>3, <1>4, <1>5, CalmKept

LEMMA CalmFullStep ==
  ASSUME Serial, Known, Known', CalmInv, NEW q \in QueueServers, NEW w \in Workers,
         CheckLock(q, w) \/ SendWait(q, w) \/ SetLock(q, w) \/ SendToEcho(q, w)
  PROVE  CalmInv'
<1>0. TypeOK /\ lockOnQueue[q] \in {0, 1}
  BY Sizes DEF Known, Basis
<1>1. /\ OnlyMoves(q) /\ UNCHANGED requestQueue
      /\ \A p \in QueueServers : inbox'[p] = inbox[p]
      /\ pc(q) \in {"state", "qwait", "set", "out"}
      /\ frame'[q][Worker].pc \in {"qwait", "set", "idle"}
      /\ \A p \in QueueServers : p # q => lockOnQueue'[p] = lockOnQueue[p]
  BY <1>0, CheckLockView, SendWaitView, SetLockView, SendToEchoView, Constants
     DEF GoesTo, Returns, Sent
<1>2. \/ pc(q) # "out" /\ (frame'[q][Worker].pc \in {"qwait", "set"} \/ lockOnQueue'[q] = 1)
      \/ pc(q) = "out" /\ frame'[q][Worker].pc = "idle" /\ lockOnQueue'[q] = lockOnQueue[q]
  BY <1>0, CheckLockView, SendWaitView, SetLockView, SendToEchoView, Constants
     DEF GoesTo, Returns
<1>3. Full(q)' <=> Full(q)
  BY <1>1, <1>2, FullViews
<1>4. SignalPending(q)' <=> SignalPending(q)
  <2>1. Enqueued(q)' = Enqueued(q)
    BY <1>1 DEF Enqueued
  <2> QED  BY <1>1, <2>1, SignalKept
<1> QED
  BY <1>1, <1>3, <1>4, CalmQuietStep DEF TextSteps, StampSteps

LEMMA CalmPopAll ==
  ASSUME Serial, Known, Known', CalmInv, NEW q \in QueueServers, NEW w \in Workers,
         PopAll(q, w)
  PROVE  CalmInv'
<1>0. TypeOK
  BY DEF Known, Basis
<1>1. /\ pc(q) = "pop" /\ UNCHANGED <<inbox, lockOnQueue>> /\ OnlyMoves(q)
      /\ frame'[q][Worker].pc = "reset"
      /\ \A p \in QueueServers : p # q => requestQueue'[p] = requestQueue[p]
      /\ requestQueue'[q] = << >>
  BY <1>0, PopAllView DEF GoesTo
<1>2. Full(q) /\ lockOnQueue[q] = 1
  BY <1>1, FullViews DEF Known, Basis, WaitInv, ServerWaits, WaitingIsFull
<1>3. Full(q)' <=> Full(q)
  BY <1>1, <1>2, FullViews
<1>4. SignalPending(q)' <=> SignalPending(q)
  <2>1. Enqueued(q)' = Enqueued(q)
    BY <1>1 DEF Enqueued
  <2> QED  BY <1>1, <2>1, SignalKept
<1>5. NoRequest(q)'
  BY <1>1, <1>2 DEF CalmInv, FullIsIdle, NoRequest
<1> QED
  BY <1>1, <1>2, <1>3, <1>4, <1>5, CalmQuietStep DEF TextSteps, StampSteps

\* The digest of every copy the primary sends is the one its replica expects.
LEMMA CalmVerifyMac ==
  ASSUME Serial, KeysAgree, Known, Known', CalmInv,
         NEW r \in QueueServers, r # Primary, NEW w \in Workers, VerifyMac(r, w)
  PROVE  CalmInv'
<1>0. TypeOK /\ r \in Replicas /\ w = Worker /\ r \in Operators
  BY Constants, OneWorker DEF Known, Basis
<1>1. /\ pc(r) = "start" /\ OnlyMoves(r) /\ UNCHANGED <<inbox, requestQueue, lockOnQueue>>
      /\ \/ /\ frame'[r][Worker].pc = "idle"
            /\ item(r).data.mac # genMac(item(r).data.buffer, ReplicaKeys[r])
         \/ /\ frame'[r][Worker].pc = "size"
            /\ frame'[r][Worker].item.data.messageID = item(r).data.messageID
  BY <1>0, VerifyMacView
<1>2. Forwarded(r, item(r).data)
  BY <1>0, <1>1 DEF Known, Basis, Provenance, FrameProvenance, pc, item
<1>3. frame'[r][Worker].pc = "size"
  BY <1>0, <1>1, <1>2 DEF Forwarded, KeysAgree
<1>4. Full(r)' <=> Full(r)
  BY <1>1, <1>3, FullViews
<1>5. SignalPending(r)' <=> SignalPending(r)
  <2>1. Enqueued(r)' = Enqueued(r)
    BY <1>1 DEF Enqueued
  <2> QED  BY <1>1, <1>3, <2>1, SignalKept
<1> QED
  BY <1>1, <1>3, <1>4, <1>5, CalmQuietStep DEF TextSteps, StampSteps

\* A queue server that is full takes the signal from its inbox.
LEMMA CalmDispatchSignal ==
  ASSUME Serial, Known, Known', CalmInv, NEW q \in QueueServers, NEW w \in Workers,
         Dispatch(q, w), UNCHANGED queueVars, inbox[q][1].port = "qsignal"
  PROVE  CalmInv'
<1>0. TypeOK /\ q \in Operators
  BY Constants DEF Known, Basis
<1>1. /\ pc(q) = "idle" /\ Taken(q) /\ OnlyMoves(q) /\ frame'[q][Worker].pc = "pop"
      /\ UNCHANGED <<requestQueue, lockOnQueue>>
      /\ inbox[q][1] \in InboxItems(q) /\ 1 \in DOMAIN inbox[q]
      /\ \A p \in QueueServers : p # q => inbox'[p] = inbox[p]
  BY <1>0, DispatchView, Constants DEF Taken, queueVars
<1>2. inbox[q][1] = Signal
  BY <1>0, <1>1, Constants DEF InboxItems, SocketItems, StampedItems, Signal
<1>3. SignalPending(q) /\ Full(q)
  <2>1. Signal \in Enqueued(q)
    BY <1>1, <1>2 DEF Enqueued
  <2> QED  BY <2>1, WaitViews, SignalledIsFull
<1>4. SignalPending(q)'
  BY <1>1, WaitViewsNext
<1>5. Full(q)'
  BY <1>4, SignalledIsFullNext DEF Full
<1>6. NoRequest(q)'
  BY <1>1, <1>3 DEF CalmInv, FullIsIdle, NoRequest, Taken
<1> QED
  BY <1>1, <1>3, <1>4, <1>5, <1>6, CalmQuietStep DEF TextSteps, StampSteps

-----------------------------------------------------------------------------
(***************************************************************************)
(* Steps that move a request.                                              *)
(***************************************************************************)
\* A request in the inbox of q goes into its hand.
LEMMA CalmDispatchRequest ==
  ASSUME Serial, Known, Known', CalmInv, NEW q \in QueueServers, NEW w \in Workers,
         Dispatch(q, w), UNCHANGED queueVars, inbox[q][1].port = "in"
  PROVE  CalmInv'
<1>0. TypeOK /\ TypeOK' /\ q \in Operators
  BY Constants DEF Known, Basis
<1>1. /\ pc(q) = "idle" /\ Taken(q) /\ OnlyMoves(q) /\ frame'[q][Worker].pc = "start"
      /\ frame'[q][Worker].item = inbox[q][1]
      /\ UNCHANGED <<requestQueue, lockOnQueue>> /\ 1 \in DOMAIN inbox[q]
      /\ \A p \in QueueServers : p # q => inbox'[p] = inbox[p]
  BY <1>0, DispatchView, Constants DEF Taken, queueVars
<1>2. ~Full(q) /\ ~NoRequest(q)
  BY <1>1 DEF CalmInv, FullIsIdle, NoRequest
<1>3. ~(Full(q)')
  BY <1>1, <1>2, FullViews
<1>4. /\ LogOf(q)' = LogOf(q) /\ InboxOf(q)' = InboxOf(q) - 1
      /\ InHandOf(q) = 0 /\ InHandOf(q)' = 1
      /\ LogOf(q) \in Nat /\ InboxOf(q) \in Nat
  BY <1>0, <1>1, TakenLength, Sizes DEF LogOf, InHandOf, TextSteps, StampSteps, pc
<1>5. \A p \in QueueServers : p # q =>
        /\ frame'[p][Worker] = frame[p][Worker]
        /\ Full(p)' <=> Full(p)
        /\ SignalPending(p)' <=> SignalPending(p)
        /\ LogOf(p)' = LogOf(p) /\ InboxOf(p)' = InboxOf(p) /\ InHandOf(p)' = InHandOf(p)
        /\ NoRequest(p)' <=> NoRequest(p)
        /\ NumberedAt(p) => NumberedAt(p)'
  BY <1>1, OthersKept
<1>6. q = Primary => \A p \in QueueServers : ~Full(p)
  BY <1>2 DEF CalmInv, LastDiscarded
<1>7. \A p \in QueueServers : (Full(p)' <=> Full(p)) /\ LogOf(p)' = LogOf(p)
  BY <1>2, <1>3, <1>4, <1>5
<1>8. LoadBounded'
  <2>1. CASE q = Primary
    BY <1>2, <1>4, <2>1, QueueServerAssumption DEF CalmInv, LoadBounded
  <2>2. CASE q # Primary
    BY <1>5, <2>2, Constants DEF CalmInv, LoadBounded
  <2> QED  BY <2>1, <2>2
<1>9. LastDiscarded'
  BY <1>5, <1>6, <1>7, Constants DEF CalmInv, LastDiscarded, pc
<1>10. FullIsIdle'
  BY <1>3, <1>5 DEF CalmInv, FullIsIdle, pc
<1>11. ResetIsEmpty'
  BY <1>1, <1>5 DEF CalmInv, ResetIsEmpty, pc
<1>12. ASSUME NEW r \in Replicas PROVE NumberedAt(r)'
  <2>1. r \in QueueServers /\ NumberedAt(r)
    BY Constants DEF CalmInv
  <2>2. CASE r = q
    <3>1. requestQueue'[q] = requestQueue[q]
      BY <1>1
    <3>2. inbox[q][1].data.messageID = LogOf(q) + 0 + 1 - 1
      BY <1>1, <1>4, <2>1, <2>2 DEF NumberedAt
    <3>3. ASSUME NEW i \in DOMAIN inbox'[q], inbox'[q][i].port = "in"
          PROVE  inbox'[q][i].data.messageID = LogOf(q)' + InHandOf(q)' + i - 1
      <4>1. i + 1 \in DOMAIN inbox[q] /\ inbox'[q][i] = inbox[q][i + 1] /\ i \in Nat
        BY <1>0, <1>1, SizesNext DEF Taken
      <4>2. inbox[q][i + 1].data.messageID = LogOf(q) + InHandOf(q) + (i + 1) - 1
        BY <2>1, <2>2, <3>3, <4>1 DEF NumberedAt
      <4>3. LogOf(q) + InHandOf(q) + (i + 1) - 1 = LogOf(q)' + InHandOf(q)' + i - 1
        BY <1>4, <4>1
      <4> QED  BY <4>1, <4>2, <4>3
    <3>4. frame'[q][Worker].item.data.messageID = LogOf(q)'
      BY <1>1, <1>4, <3>2
    <3> QED  BY <2>1, <2>2, <3>1, <3>3, <3>4 DEF NumberedAt, item
  <2> QED  BY <1>5, <2>1, <2>2
<1>13. ASSUME NEW r \in Replicas PROVE InStep(r)'
  <2>1. r \in QueueServers /\ Primary \in QueueServers /\ r # Primary /\ InStep(r)
    BY Constants DEF CalmInv
  <2>2. Filled(r)' = Filled(r)
    BY <1>4, <1>5, <2>1 DEF Filled
  <2>3. Given(r)' = Given(r)
    <3>1. CASE q = Primary
      BY <1>1, <1>4, <3>1 DEF Given, StampSteps, pc
    <3>2. CASE q # Primary
      BY <1>5, <2>1, <3>2 DEF Given, ToForward, pc
    <3> QED  BY <3>1, <3>2
  <2>4. \A p \in QueueServers : Full(p) => (SignalPending(p)' <=> SignalPending(p))
    BY <1>2, <1>5
  <2> QED  BY <1>7, <2>1, <2>2, <2>3, <2>4 DEF InStep
<1> QED  BY <1>8, <1>9, <1>10, <1>11, <1>12, <1>13 DEF CalmInv

\* The primary stamps a request when nobody has discarded one, or drops it.
LEMMA CalmVerifySignature ==
  ASSUME Serial, Known, Known', CalmInv, NEW w \in Workers, VerifySignature(w)
  PROVE  CalmInv'
<1>0. TypeOK /\ Primary \in QueueServers
  BY Constants DEF Known, Basis
<1>1. /\ pc(Primary) = "start" /\ OnlyMoves(Primary)
      /\ UNCHANGED <<inbox, requestQueue, lockOnQueue>>
      /\ \/ frame'[Primary][Worker].pc = "idle"
         \/ frame'[Primary][Worker].pc = "out_repl" /\ frame'[Primary][Worker].k = 1
  BY <1>0, VerifySignatureView
<1>2. \A p \in QueueServers : ~Full(p)
  BY <1>1 DEF CalmInv, LastDiscarded
<1>3. \A p \in QueueServers : p # Primary =>
        /\ frame'[p][Worker] = frame[p][Worker]
        /\ Full(p)' <=> Full(p)
        /\ LogOf(p)' = LogOf(p) /\ InboxOf(p)' = InboxOf(p) /\ InHandOf(p)' = InHandOf(p)
        /\ NumberedAt(p) => NumberedAt(p)'
  BY <1>0, <1>1, OthersKept
<1>4. ~(Full(Primary)')
  BY <1>0, <1>1, <1>2, FullViews
<1>5. \A p \in QueueServers : ~(Full(p)')
  BY <1>2, <1>3, <1>4
<1>6. /\ LogOf(Primary)' = LogOf(Primary) /\ InboxOf(Primary)' = InboxOf(Primary)
      /\ InHandOf(Primary) = 1 /\ InHandOf(Primary)' \in {0, 1}
      /\ LogOf(Primary) \in Nat /\ InboxOf(Primary) \in Nat
  BY <1>0, <1>1, Sizes DEF LogOf, InboxOf, InHandOf, TextSteps, pc
<1>7. LoadBounded'
  BY <1>0, <1>2, <1>6, QueueServerAssumption DEF CalmInv, LoadBounded
<1>8. LastDiscarded' /\ FullIsIdle'
  BY <1>5 DEF LastDiscarded, FullIsIdle
<1>9. ResetIsEmpty'
  BY <1>1, <1>3 DEF CalmInv, ResetIsEmpty, pc
<1>10. ASSUME NEW r \in Replicas PROVE NumberedAt(r)' /\ InStep(r)'
  <2>1. r \in QueueServers /\ r # Primary /\ InStep(r) /\ NumberedAt(r)
    BY Constants DEF CalmInv
  <2>2. Given(r)' = Given(r)
    <3>1. pc(Primary) \notin StampSteps /\ (pc(Primary)' \in StampSteps => ToForward(r)')
      BY <1>1, CommonAssumption DEF StampSteps, ToForward, pc, Replicas
    <3> QED  BY <1>6, <3>1 DEF Given
  <2>3. Filled(r)' = Filled(r)
    BY <1>3, <2>1 DEF Filled
  <2> QED  BY <1>0, <1>2, <1>3, <1>5, <2>1, <2>2, <2>3 DEF InStep
<1> QED  BY <1>7, <1>8, <1>9, <1>10 DEF CalmInv

\* A copy for the replica behind it: neither has discarded a request, and the
\* copy gets the number that is next for both.
LEMMA CalmForward ==
  ASSUME Serial, IdsFit, Known, Known', CalmInv, NEW w \in Workers, Forward(w)
  PROVE  CalmInv'
<1>0. TypeOK /\ TypeOK' /\ Primary \in QueueServers
  BY Constants DEF Known, Basis
<1> DEFINE turnOf == frame[Primary][Worker].k
<1>1. PICK k \in Replicas, d \in StampedRequests :
        /\ k = turnOf
        /\ pc(Primary) = "out_repl" /\ OnlyMoves(Primary)
        /\ UNCHANGED <<requestQueue, lockOnQueue>>
        /\ \/ frame'[Primary][Worker].pc = "out_repl" /\ frame'[Primary][Worker].k = k + 1
           \/ frame'[Primary][Worker].pc = "size" /\ k + 1 \notin Replicas
        /\ Sent(k, Request(d))
        /\ d.messageID = getMessageID(item(Primary).data)
  BY <1>0, ForwardView
<1>2. /\ k \in QueueServers /\ k # Primary /\ k \in Operators
      /\ \A p \in QueueServers : p # k => inbox'[p] = inbox[p]
      /\ \A r \in Replicas : r \in Int
  BY <1>1, Constants, CommonAssumption DEF Sent, Replicas
<1>3. ToForward(k) /\ ~(ToForward(k)')
  BY <1>1, <1>2 DEF ToForward, pc
<1>4. \A r \in Replicas : r # k => (ToForward(r)' <=> ToForward(r))
  BY <1>1, <1>2, CommonAssumption DEF ToForward, pc, Replicas
<1>5. /\ LogOf(Primary) \in Nat /\ LogOf(k) \in Nat /\ InboxOf(k) \in Nat /\ InHandOf(k) \in {0, 1}
      /\ InboxOf(k)' = InboxOf(k) + 1
      /\ \A p \in QueueServers : LogOf(p)' = LogOf(p)
  BY <1>0, <1>1, <1>2, Sizes, SentLength DEF LogOf
<1>6. Given(k) = LogOf(Primary) /\ Given(k)' = LogOf(Primary) + 1
  BY <1>0, <1>1, <1>3, <1>5 DEF Given, StampSteps, pc
<1>7. ~Full(Primary)
  BY <1>0, <1>1 DEF CalmInv, FullIsIdle, TextSteps, StampSteps
<1>8. ~Full(k)
  <2>1. SUFFICES ASSUME Full(k) PROVE FALSE
    OBVIOUS
  <2>2. LogOf(Primary) = MAX_QUEUE_SIZE
    BY <1>1, <1>2, <2>1 DEF CalmInv, LastDiscarded, StampSteps
  <2>3. Given(k) \in {0, MAX_QUEUE_SIZE + 1}
    BY <1>7, <2>1 DEF CalmInv, InStep
  <2> QED  BY <1>6, <2>2, <2>3, QueueServerAssumption
<1>9. Filled(k) = LogOf(Primary)
  BY <1>6, <1>7, <1>8 DEF CalmInv, InStep
<1>10. \A p \in QueueServers : p # Primary => frame'[p][Worker] = frame[p][Worker]
  BY <1>1, Constants DEF OnlyMoves
<1>11. \A p \in QueueServers : p # Primary /\ p # k =>
         /\ Full(p)' <=> Full(p)
         /\ SignalPending(p)' <=> SignalPending(p)
         /\ InboxOf(p)' = InboxOf(p) /\ InHandOf(p)' = InHandOf(p)
         /\ NoRequest(p)' <=> NoRequest(p)
         /\ NumberedAt(p) => NumberedAt(p)'
  BY <1>0, <1>1, <1>2, OthersKept
<1>12. ~(Full(Primary)') /\ ~(Full(k)')
  BY <1>0, <1>1, <1>2, <1>7, <1>8, <1>10, FullViews DEF pc
<1>13. \A p \in QueueServers : Full(p)' <=> Full(p)
  BY <1>7, <1>8, <1>11, <1>12
<1>14. /\ InHandOf(Primary)' = 1 /\ InHandOf(Primary) = 1
       /\ InboxOf(Primary)' = InboxOf(Primary) /\ InHandOf(k)' = InHandOf(k)
  BY <1>0, <1>1, <1>2, <1>10 DEF InHandOf, InboxOf, TextSteps, StampSteps, pc
<1>15. LoadBounded'
  BY <1>0, <1>5, <1>7, <1>14 DEF CalmInv, LoadBounded
<1>16. LastDiscarded'
  <2>1. NoRequest(Primary)' <=> NoRequest(Primary)
    BY <1>0, <1>2 DEF NoRequest
  <2>2. pc(Primary) \in StampSteps /\ pc(Primary)' # "start"
    BY <1>1 DEF StampSteps, pc
  <2> QED  BY <1>0, <1>5, <1>13, <2>1, <2>2 DEF CalmInv, LastDiscarded
<1>17. FullIsIdle'
  BY <1>7, <1>8, <1>10, <1>11, <1>12 DEF CalmInv, FullIsIdle, pc
<1>18. ResetIsEmpty'
  BY <1>1, <1>5, <1>10 DEF CalmInv, ResetIsEmpty, pc
<1>19. NumberedAt(k)'
  <2>1. NumberedAt(k)
    BY DEF CalmInv
  <2>2. frame'[k][Worker] = frame[k][Worker] /\ requestQueue'[k] = requestQueue[k]
    BY <1>1, <1>2, <1>10
  <2>3. d.messageID = LogOf(Primary)
    BY <1>1, StampedID DEF Known, StampSteps, LogOf
  <2>4. PICK m : m = InboxOf(k) + 1
    OBVIOUS
  <2>5. /\ DOMAIN inbox'[k] = DOMAIN inbox[k] \cup {m}
        /\ \A i \in DOMAIN inbox[k] : inbox'[k][i] = inbox[k][i]
        /\ inbox'[k][m] = Request(d) /\ Request(d).data = d
    BY <1>1, <2>4 DEF Sent, InboxOf, Request
  <2>6. d.messageID = LogOf(k) + InHandOf(k) + m - 1
    BY <1>5, <1>9, <2>3, <2>4 DEF Filled
  <2>7. ASSUME NEW i \in DOMAIN inbox'[k], inbox'[k][i].port = "in"
        PROVE  inbox'[k][i].data.messageID = LogOf(k)' + InHandOf(k)' + i - 1
    <3>1. LogOf(k)' = LogOf(k) /\ InHandOf(k)' = InHandOf(k)
      BY <1>2, <1>5, <1>14
    <3>2. CASE i \in DOMAIN inbox[k]
      <4>1. inbox[k][i].data.messageID = LogOf(k) + InHandOf(k) + i - 1
        BY <2>1, <2>5, <2>7, <3>2 DEF NumberedAt
      <4> QED  BY <2>5, <3>1, <3>2, <4>1
    <3>3. CASE i = m
      <4>1. inbox'[k][i].data = d
        BY <2>5, <3>3
      <4> QED  BY <2>6, <3>1, <3>3, <4>1
    <3> QED  BY <2>5, <3>2, <3>3
  <2> QED  BY <1>2, <1>5, <2>1, <2>2, <2>7 DEF NumberedAt, pc, item
<1>20. ASSUME NEW r \in Replicas PROVE InStep(r)'
  <2>1. r \in QueueServers /\ r # Primary /\ InStep(r)
    BY Constants DEF CalmInv
  <2>2. CASE r = k
    <3>1. Filled(k)' = Filled(k) + 1
      BY <1>2, <1>5, <1>14 DEF Filled
    <3> QED  BY <1>6, <1>9, <1>12, <2>2, <3>1 DEF InStep
  <2>3. CASE r # k
    <3>1. Filled(r)' = Filled(r)
      BY <1>5, <1>11, <2>1, <2>3 DEF Filled
    <3>2. Given(r)' = Given(r)
      BY <1>0, <1>1, <1>4, <1>5, <2>3 DEF Given, StampSteps, pc
    <3> QED  BY <1>7, <1>11, <1>12, <2>1, <2>3, <3>1, <3>2 DEF InStep
  <2> QED  BY <2>2, <2>3
<1>21. \A r \in Replicas : NumberedAt(r)'
  BY <1>11, <1>19, Constants DEF CalmInv
<1> QED  BY <1>15, <1>16, <1>17, <1>18, <1>20, <1>21 DEF CalmInv

\* There is room: the request in hand becomes the last entry of the log.
LEMMA CalmPush ==
  ASSUME Serial, Known, Known', CalmInv, NEW q \in QueueServers, NEW w \in Workers, Push(q, w)
  PROVE  CalmInv'
<1>0. TypeOK /\ TypeOK' /\ Primary \in QueueServers /\ q \in Operators
  BY Constants DEF Known, Basis
<1>1. PICK d \in StampedRequests, n \in Nat :
        /\ d = item(q).data /\ n = LogOf(q)
        /\ pc(q) = "push" /\ UNCHANGED <<inbox, lockOnQueue>>
        /\ OnlyMoves(q) /\ frame'[q][Worker].pc = "out"
        /\ DOMAIN requestQueue[q] = 1 .. n
        /\ \A p \in QueueServers : p # q => requestQueue'[p] = requestQueue[p]
        /\ DOMAIN requestQueue'[q] = DOMAIN requestQueue[q] \cup {n + 1}
        /\ Len(requestQueue'[q]) = n + 1
        /\ \A i \in DOMAIN requestQueue[q] : requestQueue'[q][i] = requestQueue[q][i]
        /\ requestQueue'[q][n + 1] = d
  BY <1>0, PushView DEF GoesTo, LogOf
<1>2. ~Full(q)
  BY <1>1 DEF CalmInv, FullIsIdle, TextSteps, StampSteps
<1>3. ~(Full(q)')
  BY <1>1, <1>2, FullViews
<1>4. \A p \in QueueServers : p # q =>
        /\ frame'[p][Worker] = frame[p][Worker]
        /\ Full(p)' <=> Full(p)
        /\ SignalPending(p)' <=> SignalPending(p)
        /\ LogOf(p)' = LogOf(p) /\ InboxOf(p)' = InboxOf(p) /\ InHandOf(p)' = InHandOf(p)
        /\ NoRequest(p)' <=> NoRequest(p)
        /\ NumberedAt(p) => NumberedAt(p)'
  BY <1>1, OthersKept
<1>5. /\ LogOf(q)' = LogOf(q) + 1 /\ InboxOf(q)' = InboxOf(q)
      /\ InHandOf(q) = 1 /\ InHandOf(q)' = 0
      /\ LogOf(q) \in Nat /\ InboxOf(q) \in Nat
  BY <1>0, <1>1, Sizes DEF LogOf, InboxOf, InHandOf, TextSteps, StampSteps, pc
<1>6. LogOf(q) < MAX_QUEUE_SIZE
  <2>1. At(q, Worker, "push")
    BY <1>1 DEF At, pc
  <2> QED
    BY <2>1, OneWorker DEF Known, Basis, LogsInv, LogReadsCurrent, LogOf
<1>7. q = Primary => \A p \in QueueServers : ~Full(p)
  BY <1>1, <1>5, <1>6, QueueServerAssumption DEF CalmInv, LastDiscarded, StampSteps
<1>8. \A p \in QueueServers : Full(p)' <=> Full(p)
  BY <1>2, <1>3, <1>4
<1>9. LoadBounded'
  <2>1. CASE q = Primary
    BY <1>2, <1>5, <2>1, QueueServerAssumption DEF CalmInv, LoadBounded
  <2>2. CASE q # Primary
    BY <1>0, <1>4, <2>2 DEF CalmInv, LoadBounded
  <2> QED  BY <2>1, <2>2
<1>10. LastDiscarded'
  <2>1. CASE q = Primary
    BY <1>7, <1>8, <2>1 DEF LastDiscarded
  <2>2. CASE q # Primary
    BY <1>0, <1>4, <1>8, <2>2 DEF CalmInv, LastDiscarded, pc
  <2> QED  BY <2>1, <2>2
<1>11. FullIsIdle'
  BY <1>3, <1>4 DEF CalmInv, FullIsIdle, pc
<1>12. ResetIsEmpty'
  BY <1>1, <1>4 DEF CalmInv, ResetIsEmpty, pc
<1>13. ASSUME NEW r \in Replicas PROVE NumberedAt(r)'
  <2>1. r \in QueueServers /\ NumberedAt(r)
    BY Constants DEF CalmInv
  <2>2. CASE r = q
    <3>1. d.messageID = (n + 1) - 1
      BY <1>1, <2>1, <2>2 DEF NumberedAt, TextSteps, StampSteps
    <3>2. \A i \in DOMAIN requestQueue'[q] : requestQueue'[q][i].messageID = i - 1
      BY <1>1, <2>1, <2>2, <3>1 DEF NumberedAt
    <3>3. pc(q)' \notin TextSteps
      BY <1>1 DEF TextSteps, StampSteps, pc
    <3>4. LogOf(q)' + InHandOf(q)' = LogOf(q) + InHandOf(q)
      BY <1>5
    <3>5. inbox' = inbox
      BY <1>1
    <3> QED  BY <2>1, <2>2, <3>2, <3>3, <3>4, <3>5 DEF NumberedAt
  <2> QED  BY <1>4, <2>1, <2>2
<1>14. ASSUME NEW r \in Replicas PROVE InStep(r)'
  <2>1. r \in QueueServers /\ r # Primary /\ InStep(r)
    BY Constants DEF CalmInv
  <2>2. Filled(r)' = Filled(r)
    BY <1>4, <1>5, <2>1 DEF Filled
  <2>3. Given(r)' = Given(r)
    <3>1. CASE q = Primary
      <4>1. pc(Primary) \in StampSteps /\ ~ToForward(r) /\ pc(Primary)' \notin StampSteps
        BY <1>1, <3>1 DEF StampSteps, ToForward, pc
      <4> QED  BY <1>5, <3>1, <4>1 DEF Given
    <3>2. CASE q # Primary
      BY <1>0, <1>4, <3>2 DEF Given, ToForward, pc
    <3> QED  BY <3>1, <3>2
  <2>4. \A p \in QueueServers : Full(p) => (SignalPending(p)' <=> SignalPending(p))
    BY <1>2, <1>4
  <2> QED  BY <1>0, <1>8, <2>1, <2>2, <2>3, <2>4 DEF InStep
<1> QED  BY <1>9, <1>10, <1>11, <1>12, <1>13, <1>14 DEF CalmInv

-----------------------------------------------------------------------------
(***************************************************************************)
(* The end of a round.                                                     *)
(***************************************************************************)
\* q discards the request in hand: the log is full, and no other request of the
\* round is there or will come, for q or for the primary.
LEMMA LastOfRound ==
  ASSUME Serial, Known, CalmInv, NEW q \in QueueServers,
         pc(q) = "size", Len(requestQueue[q]) >= MAX_QUEUE_SIZE
  PROVE  /\ ~Full(q) /\ LogOf(q) = MAX_QUEUE_SIZE /\ InboxOf(q) = 0
         /\ q = Primary => \A r \in Replicas : Given(r) = MAX_QUEUE_SIZE + 1
         /\ q # Primary => Filled(q) = MAX_QUEUE_SIZE + 1
         /\ q # Primary /\ ~Full(Primary) =>
              /\ Given(q) = MAX_QUEUE_SIZE + 1 /\ LogOf(Primary) = MAX_QUEUE_SIZE
              /\ pc(Primary) \in StampSteps /\ InboxOf(Primary) = 0
<1>0. TypeOK /\ Primary \in QueueServers
  BY Constants DEF Known, Basis
<1>1. /\ LogOf(q) \in Nat /\ InboxOf(q) \in Nat /\ InHandOf(q) = 1
      /\ LogOf(Primary) \in Nat /\ InboxOf(Primary) \in Nat
      /\ MAX_QUEUE_SIZE \in Nat /\ MAX_QUEUE_SIZE > 0
  BY <1>0, Sizes, QueueServerAssumption DEF InHandOf, TextSteps, StampSteps
<1>2. LogOf(q) = MAX_QUEUE_SIZE
  BY <1>1 DEF Known, Basis, LogsInv, LogFits, LogOf
<1>3. LogOf(Primary) <= MAX_QUEUE_SIZE
  BY <1>0 DEF Known, Basis, LogsInv, LogFits, LogOf
<1>4. ~Full(q)
  BY DEF CalmInv, FullIsIdle, TextSteps, StampSteps
<1>5. CASE q = Primary
  <2>1. LogOf(q) + InboxOf(q) + InHandOf(q) <= MAX_QUEUE_SIZE + 1
    BY <1>4, <1>5 DEF CalmInv, LoadBounded
  <2>2. InboxOf(q) = 0
    BY <1>1, <1>2, <2>1
  <2>3. \A r \in Replicas : Given(r) = MAX_QUEUE_SIZE + 1
    BY <1>2, <1>5 DEF Given, StampSteps, ToForward
  <2> QED  BY <1>2, <1>4, <1>5, <2>2, <2>3
<1>6. CASE q # Primary
  <2>1. q \in Replicas /\ InStep(q)
    BY <1>6, Constants DEF CalmInv
  <2>2. Filled(q) = MAX_QUEUE_SIZE + InboxOf(q) + 1
    BY <1>1, <1>2 DEF Filled
  <2>3. CASE Full(Primary)
    <3>1. Filled(q) \in {0, MAX_QUEUE_SIZE + 1}
      BY <1>4, <2>1, <2>3 DEF InStep
    <3> QED  BY <1>1, <1>2, <1>4, <1>6, <2>2, <2>3, <3>1
  <2>4. CASE ~Full(Primary)
    <3>1. Filled(q) = Given(q)
      BY <1>4, <2>1, <2>4 DEF InStep
    <3>2. /\ Given(q) \in {LogOf(Primary), LogOf(Primary) + 1}
          /\ Given(q) # LogOf(Primary) => pc(Primary) \in StampSteps
      BY <1>1 DEF Given
    <3>3. /\ Given(q) = MAX_QUEUE_SIZE + 1 /\ LogOf(Primary) = MAX_QUEUE_SIZE
          /\ InboxOf(q) = 0
      BY <1>1, <1>3, <2>2, <3>1, <3>2
    <3>4. pc(Primary) \in StampSteps
      BY <1>1, <3>2, <3>3
    <3>5. LogOf(Primary) + InboxOf(Primary) + 1 <= MAX_QUEUE_SIZE + 1
      BY <2>4, <3>4 DEF CalmInv, LoadBounded, InHandOf, TextSteps
    <3>6. InboxOf(Primary) = 0
      BY <1>1, <3>3, <3>5
    <3> QED  BY <1>2, <1>4, <1>6, <2>4, <3>1, <3>3, <3>4, <3>6
  <2> QED  BY <2>3, <2>4
<1> QED  BY <1>5, <1>6

\* An empty inbox holds no request.
LEMMA EmptyInbox ==
  ASSUME TypeOK, NEW q \in QueueServers, InboxOf(q) = 0
  PROVE  NoRequest(q)
BY Sizes DEF NoRequest

LEMMA CalmDiscard ==
  ASSUME Serial, Known, Known', CalmInv, NEW q \in QueueServers, NEW w \in Workers,
         CheckSize(q, w), frame'[q][Worker].pc = "state"
  PROVE  CalmInv'
<1>0. TypeOK /\ Primary \in QueueServers
  BY Constants DEF Known, Basis
<1>1. /\ pc(q) = "size" /\ UNCHANGED <<inbox, requestQueue, lockOnQueue>>
      /\ OnlyMoves(q) /\ Len(requestQueue[q]) >= MAX_QUEUE_SIZE
  BY <1>0, CheckSizeView DEF GoesTo
<1>2. /\ ~Full(q) /\ LogOf(q) = MAX_QUEUE_SIZE /\ InboxOf(q) = 0
      /\ q = Primary => \A r \in Replicas : Given(r) = MAX_QUEUE_SIZE + 1
      /\ q # Primary => Filled(q) = MAX_QUEUE_SIZE + 1
      /\ q # Primary /\ ~Full(Primary) =>
           /\ Given(q) = MAX_QUEUE_SIZE + 1 /\ LogOf(Primary) = MAX_QUEUE_SIZE
           /\ pc(Primary) \in StampSteps /\ InboxOf(Primary) = 0
  BY <1>1, LastOfRound
<1>3. Full(q)'
  BY FullViews
<1>4. ~(SignalPending(q)')
  <2>1. ~(Waiting(q)')
    BY <1>1, <1>2, FullViews, WaitViewsNext
  <2> QED  BY <2>1, SignalledIsFullNext
<1>5. \A p \in QueueServers : p # q =>
        /\ frame'[p][Worker] = frame[p][Worker]
        /\ Full(p)' <=> Full(p)
        /\ SignalPending(p)' <=> SignalPending(p)
        /\ LogOf(p)' = LogOf(p) /\ InboxOf(p)' = InboxOf(p) /\ InHandOf(p)' = InHandOf(p)
        /\ NoRequest(p)' <=> NoRequest(p)
        /\ NumberedAt(p) => NumberedAt(p)'
  BY <1>1, OthersKept
<1>6. LogOf(q)' = LogOf(q) /\ NoRequest(q) /\ NoRequest(q)'
  BY <1>0, <1>1, <1>2, EmptyInbox DEF LogOf, NoRequest
<1>7. pc(q)' = "state" /\ "state" \notin TextSteps
  BY DEF pc, TextSteps, StampSteps
<1>8. LoadBounded'
  BY <1>0, <1>3, <1>5 DEF CalmInv, LoadBounded
<1>9. LastDiscarded'
  <2>1. CASE q = Primary
    BY <1>6, <1>7, <2>1 DEF LastDiscarded, TextSteps
  <2>2. CASE q # Primary /\ Full(Primary)
    BY <1>0, <1>5, <2>2 DEF CalmInv, LastDiscarded, pc
  <2>3. CASE q # Primary /\ ~Full(Primary)
    <3>1. NoRequest(Primary) /\ LogOf(Primary) = MAX_QUEUE_SIZE /\ pc(Primary) # "start"
      BY <1>0, <1>2, <2>3, EmptyInbox DEF StampSteps
    <3> QED  BY <1>0, <1>5, <2>3, <3>1 DEF LastDiscarded, pc
  <2> QED  BY <2>1, <2>2, <2>3
<1>10. FullIsIdle'
  BY <1>5, <1>6, <1>7 DEF CalmInv, FullIsIdle, pc
<1>11. ResetIsEmpty'
  BY <1>5, <1>7 DEF CalmInv, ResetIsEmpty, pc
<1>12. ASSUME NEW r \in Replicas PROVE NumberedAt(r)'
  <2>1. r \in QueueServers /\ NumberedAt(r)
    BY Constants DEF CalmInv
  <2>2. CASE r = q
    BY <1>1, <1>6, <1>7, <2>1, <2>2 DEF NumberedAt, NoRequest
  <2> QED  BY <1>5, <2>1, <2>2
<1>13. ASSUME NEW r \in Replicas PROVE InStep(r)'
  <2>1. r \in QueueServers /\ r # Primary /\ InStep(r)
    BY Constants DEF CalmInv
  <2>2. CASE q = Primary
    <3>1. Filled(r)' = Filled(r) /\ (Full(r)' <=> Full(r))
          /\ (SignalPending(r)' <=> SignalPending(r))
      BY <1>5, <2>1, <2>2 DEF Filled
    <3>2. Given(r) = MAX_QUEUE_SIZE + 1 /\ MAX_QUEUE_SIZE + 1 # 0
      BY <1>2, <2>2, QueueServerAssumption
    <3>3. CASE Full(r)
      <4>1. ~SignalPending(r)
        BY <1>2, <2>1, <2>2, <3>2, <3>3 DEF InStep
      <4> QED  BY <1>3, <1>4, <2>2, <3>1, <3>3, <4>1 DEF InStep
    <3>4. CASE ~Full(r)
      BY <1>2, <1>3, <1>4, <2>1, <2>2, <3>1, <3>2, <3>4 DEF InStep
    <3> QED  BY <3>3, <3>4
  <2>3. CASE q = r
    <3>1. /\ Full(Primary)' <=> Full(Primary)
          /\ SignalPending(Primary)' <=> SignalPending(Primary)
          /\ frame'[Primary][Worker] = frame[Primary][Worker]
          /\ LogOf(Primary)' = LogOf(Primary)
      BY <1>0, <1>5, <2>1, <2>3
    <3>2. Given(r)' = Given(r)
      BY <3>1 DEF Given, ToForward, pc
    <3>3. CASE Full(Primary)
      <4>1. MAX_QUEUE_SIZE + 1 # 0
        BY QueueServerAssumption
      <4>2. ~SignalPending(Primary)
        BY <1>2, <2>1, <2>3, <3>3, <4>1 DEF InStep
      <4> QED  BY <1>3, <1>4, <2>3, <3>1, <3>3, <4>2 DEF InStep
    <3>4. CASE ~Full(Primary)
      BY <1>2, <1>3, <1>4, <2>1, <2>3, <3>1, <3>2, <3>4 DEF InStep
    <3> QED  BY <3>3, <3>4
  <2>4. CASE q # Primary /\ q # r
    <3>1. /\ Full(Primary)' <=> Full(Primary)
          /\ SignalPending(Primary)' <=> SignalPending(Primary)
          /\ frame'[Primary][Worker] = frame[Primary][Worker]
          /\ LogOf(Primary)' = LogOf(Primary)
          /\ Full(r)' <=> Full(r)
          /\ SignalPending(r)' <=> SignalPending(r)
          /\ Filled(r)' = Filled(r)
      BY <1>0, <1>5, <2>1, <2>4 DEF Filled
    <3>2. Given(r)' = Given(r)
      BY <3>1 DEF Given, ToForward, pc
    <3> QED  BY <2>1, <3>1, <3>2 DEF InStep
  <2> QED  BY <2>2, <2>3, <2>4
<1> QED  BY <1>8, <1>9, <1>10, <1>11, <1>12, <1>13 DEF CalmInv

LEMMA CalmCheckSize ==
  ASSUME Serial, Known, Known', CalmInv, NEW q \in QueueServers, NEW w \in Workers,
         CheckSize(q, w)
  PROVE  CalmInv'
<1>0. TypeOK
  BY DEF Known, Basis
<1>1. /\ pc(q) = "size" /\ UNCHANGED <<inbox, requestQueue, lockOnQueue>>
      /\ OnlyMoves(q) /\ frame'[q][Worker].item = item(q)
      /\ frame'[q][Worker].pc \in {"state", "push"}
  BY <1>0, CheckSizeView DEF GoesTo, item
<1>2. CASE frame'[q][Worker].pc = "push"
  <2>1. Full(q)' <=> Full(q)
    BY <1>1, <1>2, FullViews
  <2>2. SignalPending(q)' <=> SignalPending(q)
    <3>1. Enqueued(q)' = Enqueued(q)
      BY <1>1 DEF Enqueued
    <3> QED  BY <1>1, <1>2, <3>1, SignalKept
  <2> QED
    BY <1>1, <1>2, <2>1, <2>2, CalmQuietStep DEF TextSteps, StampSteps
<1> QED  BY <1>1, <1>2, CalmDiscard

\* q begins the next round with nothing.
LEMMA CalmResetLock ==
  ASSUME Serial, Known, Known', CalmInv, NEW q \in QueueServers, NEW w \in Workers,
         ResetLock(q, w)
  PROVE  CalmInv'
<1>0. TypeOK /\ Primary \in QueueServers /\ q \in Operators
  BY Constants DEF Known, Basis
<1>1. /\ pc(q) = "reset" /\ UNCHANGED <<inbox, requestQueue>>
      /\ OnlyMoves(q) /\ frame'[q][Worker].pc = "idle" /\ lockOnQueue'[q] = 0
      /\ \A p \in QueueServers : p # q => lockOnQueue'[p] = lockOnQueue[p]
  BY <1>0, ResetLockView DEF Returns
<1>2. SignalPending(q)
  BY <1>1, WaitViews
<1>3. Full(q) /\ ~(Full(q)')
  BY <1>1, <1>2, SignalledIsFull, FullViews
<1>4. /\ LogOf(q) = 0 /\ LogOf(q)' = 0 /\ InHandOf(q) = 0 /\ InHandOf(q)' = 0
  BY <1>1 DEF CalmInv, ResetIsEmpty, LogOf, InHandOf, TextSteps, StampSteps, pc
<1>5. InboxOf(q) = 0 /\ InboxOf(q)' = 0
  <2>1. NoRequest(q) /\ Signal \notin Enqueued(q)
    BY <1>1, <1>3 DEF CalmInv, FullIsIdle, Known, Basis, WaitInv, ServerWaits, OneSignal
  <2>2. \A it \in InboxItems(q) : it.port = "in" \/ it = Signal
    BY Constants DEF InboxItems, SocketItems, StampedItems
  <2>3. \A i \in DOMAIN inbox[q] : FALSE
    BY <1>0, <2>1, <2>2, InboxTyped DEF NoRequest, Enqueued
  <2>4. InboxOf(q) \in Nat /\ DOMAIN inbox[q] = 1 .. InboxOf(q)
    BY <1>0, Sizes
  <2>5. InboxOf(q) = 0
    BY <2>3, <2>4
  <2> QED  BY <1>1, <2>5 DEF InboxOf
<1>6. \A p \in QueueServers : p # q =>
        /\ frame'[p][Worker] = frame[p][Worker]
        /\ Full(p)' <=> Full(p)
        /\ SignalPending(p)' <=> SignalPending(p)
        /\ LogOf(p)' = LogOf(p) /\ InboxOf(p)' = InboxOf(p) /\ InHandOf(p)' = InHandOf(p)
        /\ NoRequest(p)' <=> NoRequest(p)
        /\ NumberedAt(p) => NumberedAt(p)'
  BY <1>1, OthersKept
<1>7. LoadBounded'
  <2>1. CASE q = Primary
    BY <1>4, <1>5, <2>1, QueueServerAssumption DEF LoadBounded
  <2>2. CASE q # Primary
    BY <1>0, <1>6, <2>2 DEF CalmInv, LoadBounded
  <2> QED  BY <2>1, <2>2
<1>8. LastDiscarded'
  <2>1. (\E p \in QueueServers : Full(p)') => \E p \in QueueServers : Full(p)
    BY <1>3
  <2>2. CASE q = Primary
    <3>1. NoRequest(Primary)' <=> NoRequest(Primary)
      BY <1>1 DEF NoRequest
    <3>2. pc(Primary)' = "idle"
      BY <1>1, <2>2 DEF pc
    <3> QED  BY <2>1, <3>1, <3>2 DEF CalmInv, LastDiscarded, StampSteps
  <2>3. CASE q # Primary
    BY <1>0, <1>6, <2>1, <2>3 DEF CalmInv, LastDiscarded, pc
  <2> QED  BY <2>2, <2>3
<1>9. FullIsIdle'
  BY <1>3, <1>6 DEF CalmInv, FullIsIdle, pc
<1>10. ResetIsEmpty'
  BY <1>1, <1>6 DEF CalmInv, ResetIsEmpty, pc
<1>11. ASSUME NEW r \in Replicas PROVE NumberedAt(r)'
  <2>1. r \in QueueServers /\ NumberedAt(r)
    BY Constants DEF CalmInv
  <2>2. CASE r = q
    <3>1. NoRequest(q)' /\ requestQueue'[q] = requestQueue[q]
      BY <1>1, <1>3 DEF CalmInv, FullIsIdle, NoRequest
    <3>2. pc(q)' \notin TextSteps
      BY <1>1 DEF TextSteps, StampSteps, pc
    <3> QED  BY <2>1, <2>2, <3>1, <3>2 DEF NumberedAt, NoRequest
  <2> QED  BY <1>6, <2>1, <2>2
<1>12. ASSUME NEW r \in Replicas PROVE InStep(r)'
  <2>1. r \in QueueServers /\ r # Primary /\ InStep(r)
    BY Constants DEF CalmInv
  <2>2. CASE q = Primary
    <3>1. /\ Full(r)' <=> Full(r)
          /\ SignalPending(r)' <=> SignalPending(r)
          /\ Filled(r)' = Filled(r)
      BY <1>6, <2>1, <2>2 DEF Filled
    <3>2. Given(r)' = 0
      BY <1>1, <1>4, <2>2 DEF Given, StampSteps, pc
    <3>3. /\ Full(r) => SignalPending(r)
          /\ ~Full(r) => Filled(r) = 0
      BY <1>2, <1>3, <2>1, <2>2 DEF InStep
    <3> QED  BY <1>3, <2>2, <3>1, <3>2, <3>3 DEF InStep
  <2>3. CASE q = r
    <3>1. /\ Full(Primary)' <=> Full(Primary)
          /\ SignalPending(Primary)' <=> SignalPending(Primary)
          /\ frame'[Primary][Worker] = frame[Primary][Worker]
          /\ LogOf(Primary)' = LogOf(Primary)
      BY <1>0, <1>6, <2>1, <2>3
    <3>2. Given(r)' = Given(r)
      BY <3>1 DEF Given, ToForward, pc
    <3>3. Filled(r)' = 0
      BY <1>4, <1>5, <2>3 DEF Filled
    <3>4. /\ Full(Primary) => SignalPending(Primary)
          /\ ~Full(Primary) => Given(r) = 0
      BY <1>2, <1>3, <2>1, <2>3 DEF InStep
    <3> QED  BY <1>3, <2>3, <3>1, <3>2, <3>3, <3>4 DEF InStep
  <2>4. CASE q # Primary /\ q # r
    <3>1. /\ Full(Primary)' <=> Full(Primary)
          /\ SignalPending(Primary)' <=> SignalPending(Primary)
          /\ frame'[Primary][Worker] = frame[Primary][Worker]
          /\ LogOf(Primary)' = LogOf(Primary)
          /\ Full(r)' <=> Full(r)
          /\ SignalPending(r)' <=> SignalPending(r)
          /\ Filled(r)' = Filled(r)
      BY <1>0, <1>6, <2>1, <2>4 DEF Filled
    <3>2. Given(r)' = Given(r)
      BY <3>1 DEF Given, ToForward, pc
    <3> QED  BY <2>1, <3>1, <3>2 DEF InStep
  <2> QED  BY <2>2, <2>3, <2>4
<1> QED  BY <1>7, <1>8, <1>9, <1>10, <1>11, <1>12 DEF CalmInv

\* Clients send when nobody has discarded a request, and not more than one
\* beyond what the primary has room for.
LEMMA CalmArrive ==
  ASSUME Serial, Known, Known', CalmInv, Arrive, Calm
  PROVE  CalmInv'
<1>0. TypeOK /\ TypeOK' /\ Primary \in QueueServers
  BY Constants DEF Known, Basis
<1>1. /\ \E it : Sent(Primary, it)
      /\ UNCHANGED <<frame, requestQueue, lockOnQueue>>
  BY <1>0, ArriveView
<1>2. \A p \in QueueServers : p # Primary => inbox'[p] = inbox[p]
  BY <1>1, Constants DEF Sent
<1>3. \A p \in QueueServers : ~Full(p) /\ ~(Full(p)')
  <2>1. ASSUME NEW p \in QueueServers PROVE ~Full(p)
    BY OneWorker, FullViews DEF Calm, RoundEnding, InHandler, pc
  <2> QED  BY <1>1, <2>1, FullViews DEF pc
<1>4. /\ \A p \in QueueServers : LogOf(p)' = LogOf(p) /\ InHandOf(p)' = InHandOf(p)
      /\ \A p \in QueueServers : p # Primary => InboxOf(p)' = InboxOf(p)
      /\ InboxOf(Primary)' = InboxOf(Primary) + 1
      /\ LogOf(Primary) \in Nat /\ InboxOf(Primary) \in Nat /\ InHandOf(Primary) \in {0, 1}
  BY <1>0, <1>1, <1>2, Sizes, SentLength DEF LogOf, InHandOf, InboxOf, pc
<1>5. LogOf(Primary) + InboxOf(Primary) + InHandOf(Primary) <= MAX_QUEUE_SIZE
  BY OneWorker
     DEF Calm, PrimaryLoad, InHandler, LogOf, InboxOf, InHandOf, TextSteps, StampSteps, pc
<1>6. LoadBounded'
  BY <1>0, <1>4, <1>5, QueueServerAssumption DEF LoadBounded
<1>7. LastDiscarded' /\ FullIsIdle'
  BY <1>3 DEF LastDiscarded, FullIsIdle
<1>8. ResetIsEmpty'
  BY <1>1, <1>4 DEF CalmInv, ResetIsEmpty, pc
<1>9. ASSUME NEW r \in Replicas PROVE NumberedAt(r)' /\ InStep(r)'
  <2>1. r \in QueueServers /\ r # Primary /\ NumberedAt(r) /\ InStep(r)
    BY Constants DEF CalmInv
  <2>2. Filled(r)' = Filled(r) /\ Given(r)' = Given(r)
    BY <1>0, <1>1, <1>4, <2>1 DEF Filled, Given, ToForward, pc
  <2>3. NumberedAt(r)'
    BY <1>1, <1>2, <1>4, <2>1 DEF NumberedAt, pc, item
  <2> QED  BY <1>0, <1>3, <2>1, <2>2, <2>3 DEF InStep
<1> QED  BY <1>6, <1>7, <1>8, <1>9 DEF CalmInv

-----------------------------------------------------------------------------
(***************************************************************************)
(* The echo server.                                                        *)
(***************************************************************************)
\* A step of the echo server changes nothing but the signals and their takers.
LEMMA CalmEchoKept ==
  ASSUME Serial, Known, Known', CalmInv, OnlyMoves(Echo), UNCHANGED queueVars,
         \A q \in QueueServers : \/ inbox'[q] = inbox[q]
                                 \/ Full(q) /\ NoRequest(q)',
         \/ \A q \in QueueServers : SignalPending(q)' <=> SignalPending(q)
         \/ \A q \in QueueServers : Full(q) /\ SignalPending(q)'
  PROVE  CalmInv'
<1>1. UNCHANGED <<requestQueue, lockOnQueue>>
  BY DEF queueVars
<1>2. \A q \in QueueServers : frame'[q][Worker] = frame[q][Worker]
  BY Constants DEF OnlyMoves
<1>3. \A q \in QueueServers : Full(q)' <=> Full(q)
  BY <1>1, <1>2, FullViews DEF pc
<1>4. \A q \in QueueServers : frame'[q][Worker].pc = "reset" => Len(requestQueue'[q]) = 0
  BY <1>1, <1>2 DEF CalmInv, ResetIsEmpty, LogOf, pc
<1>5. \A q \in QueueServers :
        \/ inbox'[q] = inbox[q] /\ requestQueue'[q] = requestQueue[q]
        \/ /\ Full(q) /\ NoRequest(q)'
           /\ requestQueue'[q] = requestQueue[q] \/ requestQueue'[q] = << >>
  BY <1>1
<1> QED  BY <1>2, <1>3, <1>4, <1>5, CalmKept

LEMMA CalmEchoQuiet ==
  ASSUME Serial, Known, Known', CalmInv, OnlyMoves(Echo), UNCHANGED queueVars,
         \A q \in QueueServers : inbox'[q] = inbox[q],
         pc(Echo) # "esignal", frame'[Echo][Worker].pc # "esignal"
  PROVE  CalmInv'
<1>1. ASSUME NEW q \in QueueServers PROVE SignalPending(q)' <=> SignalPending(q)
  <2>1. Enqueued(q)' = Enqueued(q) /\ ~ToSignal(q) /\ ~(ToSignal(q)')
    BY DEF Enqueued, ToSignal, pc
  <2>2. frame'[q][Worker] = frame[q][Worker]
    BY Constants DEF OnlyMoves
  <2> QED  BY <2>1, <2>2, WaitViews, WaitViewsNext DEF pc
<1> QED  BY <1>1, CalmEchoKept

\* The echo server ends the round when every queue server is full.
LEMMA CalmResetHash ==
  ASSUME Serial, Known, Known', CalmInv, NEW w \in Workers, ResetHash(w), UNCHANGED queueVars
  PROVE  CalmInv'
<1>0. TypeOK /\ WaitInv
  BY DEF Known, Basis
<1>1. /\ pc(Echo) = "resetHash" /\ OnlyMoves(Echo) /\ UNCHANGED inbox
      /\ frame'[Echo][Worker].pc = "esignal" /\ frame'[Echo][Worker].k = turn
  BY <1>0, ResetHashView DEF GoesTo, turn
<1>2. turn = 0
  BY <1>0, <1>1 DEF WaitInv, EndOfRound
<1>3. ASSUME NEW q \in QueueServers PROVE Full(q) /\ SignalPending(q)'
  <2>1. Full(q)
    BY <1>1, NoCopyAtReset DEF Known, Full
  <2>2. ToSignal(q)'
    BY <1>1, <1>2, CommonAssumption DEF ToSignal, QueueServers, pc, turn
  <2> QED  BY <2>1, <2>2, WaitViewsNext
<1> QED  BY <1>1, <1>3, CalmEchoKept

\* A signal goes to a queue server that is full.
LEMMA CalmSendSignal ==
  ASSUME Serial, Known, Known', CalmInv, NEW w \in Workers, SendSignal(w), UNCHANGED queueVars
  PROVE  CalmInv'
<1>0. TypeOK
  BY DEF Known, Basis
<1>1. PICK s \in QueueServers, n \in Nat : s = turn /\ n = Len(inbox[s]) + 1
  BY <1>0, SendSignalView, InboxTyped, Constants
<1>2. /\ pc(Echo) = "esignal" /\ OnlyMoves(Echo) /\ Sent(s, Signal)
      /\ \/ /\ s + 1 \in QueueServers
            /\ frame'[Echo][Worker].pc = "esignal" /\ frame'[Echo][Worker].k = s + 1
         \/ s + 1 \notin QueueServers /\ frame'[Echo][Worker].pc = "idle"
  BY <1>0, <1>1, SendSignalView
<1>3. /\ \A p \in Operators : p # s => inbox'[p] = inbox[p]
      /\ DOMAIN inbox'[s] = DOMAIN inbox[s] \cup {n}
      /\ \A i \in DOMAIN inbox[s] : inbox'[s][i] = inbox[s][i]
      /\ inbox'[s][n] = Signal
  BY <1>1, <1>2 DEF Sent
<1>4. ToSignal(s)
  BY <1>1, <1>2, CommonAssumption DEF ToSignal, QueueServers
<1>5. ASSUME NEW q \in QueueServers
      PROVE  ToSignal(q)' <=> ToSignal(q) /\ q # s
  BY <1>1, <1>2, CommonAssumption, SMTT(40) DEF ToSignal, QueueServers, pc, turn
<1>6. ASSUME NEW q \in QueueServers PROVE SignalPending(q)' <=> SignalPending(q)
  <2>1. frame'[q][Worker] = frame[q][Worker]
    BY <1>2, Constants DEF OnlyMoves
  <2>2. Signal \in Enqueued(q)' <=> Signal \in Enqueued(q) \/ q = s
    BY <1>3, Constants DEF Enqueued
  <2> QED  BY <1>4, <1>5, <2>1, <2>2, WaitViews, WaitViewsNext DEF pc
<1>7. Full(s) /\ NoRequest(s)
  <2>1. SignalPending(s)
    BY <1>4, WaitViews
  <2> QED  BY <2>1, SignalledIsFull DEF CalmInv, FullIsIdle
<1>8. NoRequest(s)'
  <2>1. Signal.port # "in"
    BY DEF Signal
  <2> QED  BY <1>3, <1>7, <2>1 DEF NoRequest
<1>9. \A q \in QueueServers : inbox'[q] = inbox[q] \/ (Full(q) /\ NoRequest(q)')
  BY <1>3, <1>7, <1>8, Constants
<1> QED  BY <1>2, <1>6, <1>9, CalmEchoKept

\* Counting copies and wait messages, and answering.
LEMMA CalmCounting ==
  ASSUME Serial, Known, Known', CalmInv, NEW w \in Workers, UNCHANGED queueVars,
         \/ CheckRequest(w) \/ InsertRequest(w) \/ CheckReceived(w) \/ Reply(w)
         \/ CheckWait(w) \/ InsertWait(w) \/ CheckProcessed(w)
  PROVE  CalmInv'
<1>0. TypeOK
  BY DEF Known, Basis
<1>1. /\ pc(Echo) # "esignal" /\ OnlyMoves(Echo) /\ UNCHANGED inbox
      /\ frame'[Echo][Worker].pc # "esignal"
  BY <1>0, CheckRequestView, InsertRequestView, CheckReceivedView, ReplyView,
     CheckWaitView, InsertWaitView, CheckProcessedView DEF GoesTo, Returns
<1> QED  BY <1>1, CalmEchoQuiet

LEMMA CalmEchoDispatch ==
  ASSUME Serial, Known, Known', CalmInv, NEW w \in Workers, Dispatch(Echo, w),
         UNCHANGED queueVars
  PROVE  CalmInv'
<1>0. TypeOK /\ Echo \in Operators /\ \A q \in QueueServers : q \in Operators /\ q # Echo
  BY Constants DEF Known, Basis
<1>1. /\ pc(Echo) = "idle" /\ OnlyMoves(Echo) /\ Taken(Echo)
      /\ frame'[Echo][Worker].pc \in {"start", "wait", "pop"}
  BY <1>0, DispatchView
<1>2. \A q \in QueueServers : inbox'[q] = inbox[q]
  BY <1>0, <1>1 DEF Taken
<1> QED  BY <1>1, <1>2, CalmEchoQuiet

LEMMA CalmEchoServer ==
  ASSUME Serial, Known, Known', CalmInv, NEW w \in Workers, EchoStep(w)
  PROVE  CalmInv'
<1>0. UNCHANGED queueVars /\ EchoServerStep(w)
  BY DEF EchoStep
<1>1. CASE Dispatch(Echo, w)
  BY <1>0, <1>1, CalmEchoDispatch
<1>2. CASE \/ CheckRequest(w) \/ InsertRequest(w) \/ CheckReceived(w) \/ Reply(w)
           \/ CheckWait(w) \/ InsertWait(w) \/ CheckProcessed(w)
  BY <1>0, <1>2, CalmCounting
<1>3. CASE ResetHash(w)   BY <1>0, <1>3, CalmResetHash
<1>4. CASE SendSignal(w)  BY <1>0, <1>4, CalmSendSignal
<1> QED  BY <1>0, <1>1, <1>2, <1>3, <1>4 DEF EchoServerStep

-----------------------------------------------------------------------------
(***************************************************************************)
(* The invariant holds throughout.                                         *)
(***************************************************************************)
LEMMA CalmDispatch ==
  ASSUME Serial, Known, Known', CalmInv, NEW q \in QueueServers, NEW w \in Workers,
         Dispatch(q, w), UNCHANGED queueVars
  PROVE  CalmInv'
<1>0. TypeOK /\ q \in Operators /\ q # Echo
  BY Constants DEF Known, Basis
<1>1. inbox[q][1] \in SocketItems \cup StampedItems \cup {Signal}
  BY <1>0, DispatchView DEF InboxItems
<1>2. inbox[q][1].port \in {"in", "qsignal"}
  BY <1>1 DEF SocketItems, StampedItems, Signal
<1> QED  BY <1>2, CalmDispatchSignal, CalmDispatchRequest

LEMMA CalmQueueServer ==
  ASSUME Serial, IdsFit, KeysAgree, Known, Known', CalmInv,
         NEW q \in QueueServers, NEW w \in Workers, QueueStep(q, w)
  PROVE  CalmInv'
<1>0. QueueServerStep(q, w)
  BY DEF QueueStep
<1>1. CASE Dispatch(q, w) /\ UNCHANGED queueVars
  BY <1>1, CalmDispatch
<1>2. CASE q = Primary /\ VerifySignature(w)
  BY <1>2, CalmVerifySignature
<1>3. CASE q = Primary /\ Forward(w)
  BY <1>3, CalmForward
<1>4. CASE q # Primary /\ VerifyMac(q, w)
  BY <1>4, CalmVerifyMac
<1>5. CASE CheckSize(q, w)    BY <1>5, CalmCheckSize
<1>6. CASE CheckLock(q, w)    BY <1>6, CalmFullStep
<1>7. CASE SendWait(q, w)     BY <1>7, CalmFullStep
<1>8. CASE SetLock(q, w)      BY <1>8, CalmFullStep
<1>9. CASE Push(q, w)         BY <1>9, CalmPush
<1>10. CASE SendToEcho(q, w)  BY <1>10, CalmFullStep
<1>11. CASE PopAll(q, w)      BY <1>11, CalmPopAll
<1>12. CASE ResetLock(q, w)   BY <1>12, CalmResetLock
<1> QED
  BY <1>0, <1>1, <1>2, <1>3, <1>4, <1>5, <1>6, <1>7, <1>8, <1>9, <1>10, <1>11, <1>12
     DEF QueueServerStep

CalmNext == (Arrive /\ Calm) \/ SystemStep

LEMMA NextCalm ==
  Serial /\ IdsFit /\ KeysAgree /\ Known /\ Known' /\ CalmInv /\ [CalmNext]_vars => CalmInv'
<1> SUFFICES ASSUME Serial, IdsFit, KeysAgree, Known, Known', CalmInv, [CalmNext]_vars
             PROVE  CalmInv'
  OBVIOUS
<1>1. CASE Arrive /\ Calm
  BY <1>1, CalmArrive
<1>2. ASSUME NEW w \in Workers, NEW q \in QueueServers, QueueStep(q, w) PROVE CalmInv'
  BY <1>2, CalmQueueServer
<1>3. ASSUME NEW w \in Workers, EchoStep(w) PROVE CalmInv'
  BY <1>3, CalmEchoServer
<1>4. CASE UNCHANGED vars
  <2>1. /\ UNCHANGED <<inbox, frame, queueVars>>
        /\ \A q \in QueueServers : SignalPending(q)' <=> SignalPending(q)
    BY <1>4, WaitViews, WaitViewsNext DEF vars, queueVars, Enqueued, ToSignal, pc, turn
  <2> QED  BY <2>1, CalmEchoKept DEF OnlyMoves
<1> QED  BY <1>1, <1>2, <1>3, <1>4 DEF CalmNext, SystemStep

LEMMA InitCalm == Serial /\ Init => CalmInv
<1> SUFFICES ASSUME Serial, Init PROVE CalmInv
  OBVIOUS
<1>1. \A op \in Operators : inbox[op] = << >> /\ DOMAIN inbox[op] = {} /\ Enqueued(op) = {}
  BY DEF Init, RuntimeInit, Enqueued
<1>2. \A op \in Operators : pc(op) = "idle"
  BY OneWorker DEF Init, RuntimeInit, Idle, Activation, pc
<1>3. \A q \in QueueServers : /\ lockOnQueue[q] = 0 /\ requestQueue[q] = << >>
                              /\ q \in Operators /\ DOMAIN requestQueue[q] = {}
  BY Constants DEF Init, QueueServerInit
<1>4. \A q \in QueueServers : ~Full(q)
  BY <1>2, <1>3, FullViews
<1>5. \A q \in QueueServers :
        /\ LogOf(q) = 0 /\ InboxOf(q) = 0 /\ InHandOf(q) = 0
        /\ pc(q) = "idle" /\ NoRequest(q)
  BY <1>1, <1>2, <1>3 DEF LogOf, InboxOf, InHandOf, NoRequest, TextSteps, StampSteps
<1>6. \A r \in Replicas : NumberedAt(r)
  BY <1>1, <1>3, <1>5, Constants DEF NumberedAt, TextSteps, StampSteps
<1>7. \A r \in Replicas : InStep(r)
  BY <1>4, <1>5, Constants DEF InStep, Filled, Given, StampSteps
<1> QED
  BY <1>4, <1>5, <1>6, <1>7, Constants, QueueServerAssumption
     DEF CalmInv, LoadBounded, LastDiscarded, FullIsIdle, ResetIsEmpty
-----------------------------------------------------------------------------
(***************************************************************************)
(* The logs.                                                               *)
(***************************************************************************)
\* Nothing is under way.
LEMMA AtRest ==
  ASSUME Serial, Quiet, NEW q \in QueueServers
  PROVE  /\ pc(q) = "idle" /\ pc(Primary) = "idle" /\ InboxOf(q) = 0 /\ InHandOf(q) = 0
         /\ ~SignalPending(q) /\ ~Released(q)
         /\ Full(q) <=> Waiting(q)
         /\ q # Primary => Filled(q) = LogOf(q) + 0 + 0 /\ Given(q) = LogOf(Primary) + 0
<1>1. \A op \in Operators : inbox[op] = << >> /\ pc(op) = "idle"
  BY OneWorker DEF Quiet, At, pc
<1>2. /\ pc(q) = "idle" /\ pc(Primary) = "idle" /\ pc(Echo) = "idle"
      /\ Enqueued(q) = {} /\ Len(inbox[q]) = 0
  BY <1>1, Constants DEF Enqueued
<1>3. ~SignalPending(q) /\ ~Released(q)
  BY <1>2, WaitViews DEF Released, ToSignal
<1> QED
  BY <1>2, <1>3 DEF InboxOf, InHandOf, Full, Filled, Given, TextSteps, StampSteps

LEMMA SameLength ==
  ASSUME Serial, Known, CalmInv, Quiet, NEW r \in Replicas
  PROVE  LogOf(r) = LogOf(Primary)
<1>0. TypeOK /\ r \in QueueServers /\ Primary \in QueueServers /\ r # Primary /\ InStep(r)
  BY Constants DEF Known, Basis, CalmInv
<1>1. /\ LogOf(r) \in Nat /\ LogOf(Primary) \in Nat
      /\ LogOf(r) <= MAX_QUEUE_SIZE /\ LogOf(Primary) <= MAX_QUEUE_SIZE
      /\ MAX_QUEUE_SIZE \in Nat
  BY <1>0, Sizes, QueueServerAssumption DEF Known, Basis, LogsInv, LogFits, LogOf
<1>2. /\ Filled(r) = LogOf(r) /\ Given(r) = LogOf(Primary)
      /\ ~SignalPending(r) /\ ~SignalPending(Primary)
  BY <1>0, <1>1, AtRest
<1>3. ASSUME NEW q \in QueueServers, Full(q) PROVE LogOf(q) = MAX_QUEUE_SIZE
  BY <1>3, AtRest DEF Known, Basis, WaitInv, ServerWaits, WaitingIsFull, LogOf
<1>4. CASE ~Full(r) /\ ~Full(Primary)
  BY <1>0, <1>2, <1>4 DEF InStep
<1>5. CASE Full(r) /\ Full(Primary)
  BY <1>0, <1>3, <1>5
<1>6. CASE ~Full(r) /\ Full(Primary)
  <2>1. LogOf(r) = MAX_QUEUE_SIZE + 1
    BY <1>0, <1>2, <1>6 DEF InStep
  <2> QED  BY <1>1, <2>1
<1>7. CASE Full(r) /\ ~Full(Primary)
  <2>1. LogOf(Primary) = MAX_QUEUE_SIZE + 1
    BY <1>0, <1>2, <1>7 DEF InStep
  <2> QED  BY <1>1, <2>1
<1> QED  BY <1>4, <1>5, <1>6, <1>7

LEMMA SameLog ==
  ASSUME Serial, Known, CalmInv, Quiet, NEW r \in Replicas
  PROVE  Buffers(r) = Buffers(Primary)
<1>0. TypeOK /\ Basis /\ r \in QueueServers /\ Primary \in QueueServers /\ NumberedAt(r)
  BY Constants DEF Known, Basis, CalmInv
<1>1. PICK n \in Nat : /\ n = LogOf(r) /\ n = LogOf(Primary) /\ n <= MAX_QUEUE_SIZE
  BY <1>0, SameLength, Sizes DEF Basis, LogsInv, LogFits, LogOf
<1>2. DOMAIN requestQueue[r] = 1 .. n /\ DOMAIN requestQueue[Primary] = 1 .. n
  BY <1>0, <1>1, Sizes
<1>3. ASSUME NEW i \in 1 .. n
      PROVE  requestQueue[r][i].buffer = requestQueue[Primary][i].buffer
  <2>1. PICK e : e = requestQueue[r][i]
    OBVIOUS
  <2>2. e \in Entries(r) /\ e.messageID = i - 1
    BY <1>0, <1>2, <2>1 DEF Entries, NumberedAt
  <2>3. Current(e)
    BY <1>0, <2>2, AtRest, EntryCurrent
  <2>4. e.messageID # MAX_QUEUE_SIZE /\ e.messageID + 1 = i
    BY <1>1, <2>2, QueueServerAssumption
  <2>5. pc(Primary) \notin StampSteps
    BY <1>0, AtRest DEF StampSteps
  <2>6. requestQueue[Primary][e.messageID + 1].buffer = e.buffer
    BY <2>3, <2>4, <2>5 DEF Current
  <2> QED  BY <2>1, <2>4, <2>6
<1> QED  BY <1>2, <1>3 DEF Buffers

\* When clients hold back while a round is being ended, then whenever nothing is
\* going on every replica has logged what the primary has, in the primary's
\* order: no signal has emptied one log of a request that another still holds.
THEOREM LogsAgree ==
  ASSUME Serial, IdsFit, KeysAgree PROVE CalmSpec => []LogsAgreeWhenQuiet
<1>1. CalmSpec => Spec /\ Init /\ [][CalmNext]_vars
  <2>1. [(Arrive /\ Calm) \/ SystemStep]_vars => [Next]_vars /\ [CalmNext]_vars
    BY DEF Next, CalmNext
  <2> QED  BY <2>1, PTL DEF CalmSpec, Spec
<1>2. Init => CalmInv
  BY InitCalm
<1>3. Known /\ Known' /\ CalmInv /\ [CalmNext]_vars => CalmInv'
  BY NextCalm
<1>4. Known /\ CalmInv => LogsAgreeWhenQuiet
  BY SameLog DEF LogsAgreeWhenQuiet
<1> QED  BY <1>1, <1>2, <1>3, <1>4, KnownKept, PTL
=============================================================================
