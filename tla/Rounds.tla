------------------------------- MODULE Rounds -------------------------------
(***************************************************************************)
(* Why a round of the carbon application is sound when the handlers of an  *)
(* operator do not overlap: an invariant, in parts, that every step of     *)
(* Carbon preserves.                                                       *)
(*                                                                         *)
(* A queue server q is `released' from the moment the echo server, having  *)
(* emptied its count, begins to send signals until q empties its log.      *)
(***************************************************************************)
EXTENDS Carbon

Worker   == CHOOSE w \in Workers : TRUE
pc(op)   == frame[op][Worker].pc
item(op) == frame[op][Worker].item
turn     == frame[Echo][Worker].k

Entries(q) == {requestQueue[q][i] : i \in DOMAIN requestQueue[q]}

FromServer(it, q) == \/ it.port = "in" /\ it.data.queueServerID = q
                     \/ it = Wait(q)

\* Items from one queue server reach the echo server in the order of their
\* texts, the wait message last.
Rank(it) == IF it.port = "in" THEN it.data.buffer ELSE MaxRequests + 1

CountSteps == RequestSteps \cup {"wait", "insertWait"}
StampSteps == {"out_repl", "size", "push"}
TextSteps  == {"start"} \cup StampSteps

Counted(q, key) == checkIfPresent(messageHash, key, q)

ToSignal(q) == pc(Echo) = "esignal" /\ turn <= q
Released(q) == ToSignal(q) \/ Signal \in Enqueued(q) \/ pc(q) = "pop"

-----------------------------------------------------------------------------
(***************************************************************************)
(* The order of the texts.                                                 *)
(***************************************************************************)
\* t is before every text in q's inbox, and before the one q has in hand.
BeforeInbox(q, t) ==
  \A i \in DOMAIN inbox[q] : inbox[q][i].port = "in" => t < inbox[q][i].data.buffer

BeforeHand(q, t) == pc(q) \in TextSteps => t < item(q).data.buffer

\* The primary has a text in hand that it has not yet forwarded to r.
ToForward(r) == \/ pc(Primary) = "start"
                \/ pc(Primary) = "out_repl" /\ frame[Primary][Worker].k <= r

\* t is before everything that will still be sent to r.
BeforeComing(r, t) ==
  /\ t <= arrived
  /\ BeforeInbox(Primary, t)
  /\ ToForward(r) => t < item(Primary).data.buffer

\* Texts wait in an inbox in the order of their arrival, behind the one the
\* handler has in hand.
InboxOrder ==
  \A q \in QueueServers : \A i \in DOMAIN inbox[q] : inbox[q][i].port = "in" =>
    /\ pc(q) \in TextSteps => item(q).data.buffer < inbox[q][i].data.buffer
    /\ \A j \in DOMAIN inbox[q] :
         i < j /\ inbox[q][j].port = "in" =>
           inbox[q][i].data.buffer < inbox[q][j].data.buffer

\* No text has been seen that has not arrived; replicas get texts in order.
HandOrder ==
  /\ \A i \in DOMAIN inbox[Primary] :
       inbox[Primary][i].port = "in" => inbox[Primary][i].data.buffer <= arrived
  /\ pc(Primary) \in TextSteps => item(Primary).data.buffer <= arrived
  /\ \A r \in Replicas :
       /\ \A i \in DOMAIN inbox[r] :
            inbox[r][i].port = "in" => BeforeComing(r, inbox[r][i].data.buffer)
       /\ pc(r) \in TextSteps => BeforeComing(r, item(r).data.buffer)

\* What a queue server has logged is before all it may still log.
LoggedOrder ==
  \A entry \in logged :
    /\ entry[2] <= arrived
    /\ BeforeInbox(entry[1], entry[2])
    /\ BeforeHand(entry[1], entry[2])
    /\ entry[1] \in Replicas => BeforeComing(entry[1], entry[2])

\* The entries of a log are recorded, as its own, and ordered.
EntriesOrder ==
  \A q \in QueueServers : \A i \in DOMAIN requestQueue[q] :
    /\ requestQueue[q][i].queueServerID = q
    /\ <<q, requestQueue[q][i].buffer, requestQueue[q][i].messageID>> \in logged
    /\ \A j \in DOMAIN requestQueue[q] :
         i < j => requestQueue[q][i].buffer < requestQueue[q][j].buffer

OrderInv == InboxOrder /\ HandOrder /\ LoggedOrder /\ EntriesOrder

-----------------------------------------------------------------------------
(***************************************************************************)
(* Wait messages and signals.                                              *)
(***************************************************************************)
\* The lock is set while the wait message or the signal is under way, never both.
Outstanding(q) == /\ Waiting(q) <=> (WaitPending(q) \/ SignalPending(q))
                  /\ ~(WaitPending(q) /\ SignalPending(q))

\* A queue server that waits has a full log, and nothing in hand to send.
WaitingIsFull(q) ==
  /\ Waiting(q) /\ pc(q) # "reset" => Len(requestQueue[q]) = MAX_QUEUE_SIZE
  /\ pc(q) \in {"state", "qwait"} => Len(requestQueue[q]) = MAX_QUEUE_SIZE
  /\ pc(q) \in {"qwait", "out"} => ~Waiting(q)
  /\ pc(q) \in {"pop", "reset"} => lockOnQueue[q] = 1

\* What a queue server sends is handled in the order in which it was sent.
EchoOrder(q) ==
  \A i \in DOMAIN inbox[Echo] : FromServer(inbox[Echo][i], q) =>
    /\ \A j \in DOMAIN inbox[Echo] :
         i < j /\ FromServer(inbox[Echo][j], q) => Rank(inbox[Echo][i]) < Rank(inbox[Echo][j])
    /\ pc(Echo) \in CountSteps /\ FromServer(item(Echo), q) =>
         Rank(item(Echo)) < Rank(inbox[Echo][i])
    /\ pc(q) = "out" => Rank(inbox[Echo][i]) < item(q).data.buffer
    /\ ~Counted(q, WaitKey)

HandEchoOrder(q) ==
  pc(Echo) \in CountSteps /\ FromServer(item(Echo), q) =>
    /\ pc(q) = "out" => Rank(item(Echo)) < item(q).data.buffer
    /\ ~Counted(q, WaitKey)

\* There is one signal for a queue server at a time.
OneSignal(q) ==
  /\ \A i, j \in DOMAIN inbox[q] : inbox[q][i] = Signal /\ inbox[q][j] = Signal => i = j
  /\ pc(q) \in {"pop", "reset"} => Signal \notin Enqueued(q)
  /\ ToSignal(q) => Signal \notin Enqueued(q) /\ pc(q) \notin {"pop", "reset"}

ServerWaits(q) == /\ Outstanding(q) /\ WaitingIsFull(q)
                  /\ EchoOrder(q) /\ HandEchoOrder(q) /\ OneSignal(q)

\* The round is ended when the count is complete, beginning with the primary.
EndOfRound ==
  /\ pc(Echo) \in {"wait", "insertWait", "processed", "resetHash"} => turn = 0
  /\ pc(Echo) \in {"processed", "resetHash"} => WaitKey \in DOMAIN messageHash
  /\ pc(Echo) = "resetHash" => processedAllRequests(messageHash)

WaitInv == (\A q \in QueueServers : ServerWaits(q)) /\ EndOfRound

-----------------------------------------------------------------------------
(***************************************************************************)
(* The count and the logs.                                                 *)
(***************************************************************************)
\* d is a copy q has sent, or is about to send, that has not been counted.
Flying(q, d) ==
  /\ d.queueServerID = q
  /\ \/ pc(q) = "out" /\ item(q).data = d
     \/ Request(d) \in Enqueued(Echo)
     \/ pc(Echo) \in {"start", "insert"} /\ item(Echo).data = d

InHand(q, d) == /\ d.queueServerID = q
                /\ pc(Echo) \in {"received", "out"} /\ item(Echo).data = d

\* Copies are of entries of the log they come from, as it is in this round.
FlyingLogged(q) ==
  \A d \in StampedRequests :
    Flying(q, d) \/ InHand(q, d) => d \in Entries(q) /\ ~Released(q)

\* Every entry of a log that is not released is counted or on its way.
EntriesCounted(q) ==
  \A d \in Entries(q) : Released(q) \/ Flying(q, d) \/ Counted(q, d.messageID)

\* What is counted for a queue server is in its log.
CountedLogged(q) ==
  \A key \in MessageIDs :
    Counted(q, key) => ~Released(q) /\ \E d \in Entries(q) : d.messageID = key

\* A copy within the capacity is counted once.
CountedOnce(q) ==
  \A d \in StampedRequests :
    Flying(q, d) /\ d.messageID < MAX_QUEUE_SIZE => ~Counted(q, d.messageID)

ServerCounts(q) == /\ FlyingLogged(q) /\ EntriesCounted(q)
                   /\ CountedLogged(q) /\ CountedOnce(q)

\* t will never be logged by the primary.
Passed(t) ==
  /\ t <= arrived
  /\ BeforeInbox(Primary, t)
  /\ BeforeHand(Primary, t)
  /\ ~LoggedBy(Primary, t)

\* A copy with an id within the capacity names the request the primary has
\* logged under it in this round, or has in hand; the others name requests the
\* primary discards.
Current(d) ==
  /\ d.messageID <= MAX_QUEUE_SIZE
  /\ \/ /\ d.messageID + 1 \in DOMAIN requestQueue[Primary]
        /\ requestQueue[Primary][d.messageID + 1].buffer = d.buffer
     \/ /\ pc(Primary) \in StampSteps
        /\ item(Primary).data.messageID = d.messageID
        /\ item(Primary).data.buffer = d.buffer
     \/ /\ d.messageID = MAX_QUEUE_SIZE
        /\ Passed(d.buffer)

\* d is with r, which may still log it, or in r's log of this round.
Stream(r, d) == \/ Request(d) \in Enqueued(r)
                \/ pc(r) \in TextSteps /\ item(r).data = d

Live(r, d) == Stream(r, d) \/ (d \in Entries(r) /\ ~Released(r))

ReplicasCurrent ==
  \A r \in Replicas : \A d \in StampedRequests : Live(r, d) => Current(d)

\* When the primary begins a new round, no id of it is in use.
PrimaryReleased ==
  Released(Primary) =>
    \A r \in Replicas : \A d \in StampedRequests :
      Live(r, d) => d.messageID = MAX_QUEUE_SIZE

CountInv == /\ \A q \in QueueServers : ServerCounts(q)
            /\ ReplicasCurrent /\ PrimaryReleased

-----------------------------------------------------------------------------
(***************************************************************************)
(* The replies.                                                            *)
(***************************************************************************)
\* The echo server replies for complete counts.
ReplyComplete ==
  pc(Echo) = "out" => receivedAllRequests(messageHash, item(Echo).data.messageID)

\* A complete count has been answered, or is about to be.
CompleteAnswered ==
  \A d \in Entries(Primary) :
    receivedAllRequests(messageHash, d.messageID) =>
      \/ replies[d.buffer] > 0
      \/ pc(Echo) \in {"received", "out"} /\ item(Echo).data.messageID = d.messageID

\* What has been answered was logged by all, and no copy of it is under way.
AnsweredDone ==
  \A t \in Texts : replies[t] > 0 =>
    \A q \in QueueServers :
      /\ LoggedBy(q, t)
      /\ \A d \in StampedRequests : Flying(q, d) \/ InHand(q, d) => d.buffer # t

\* Released logs have been answered.
ReleasedAnswered ==
  \A q \in QueueServers : Released(q) => \A d \in Entries(q) : replies[d.buffer] > 0

ReplyInv == /\ ReplyComplete /\ CompleteAnswered /\ AnsweredDone /\ ReleasedAnswered
            /\ AtMostOneReply

RoundInv == OrderInv /\ WaitInv /\ CountInv /\ ReplyInv
=============================================================================
