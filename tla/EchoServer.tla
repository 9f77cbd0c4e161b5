----------------------------- MODULE EchoServer -----------------------------
(***************************************************************************)
(* carbon_op_echoserver.cc: counts the copies of each message that the     *)
(* queue servers send and replies to the client once all have arrived;     *)
(* counts their wait messages and, when every counted message is complete, *)
(* empties the count and signals the queue servers to empty their logs.    *)
(***************************************************************************)
EXTENDS Lagniappe, NetRequest, RequestCount

VARIABLES messageHash,   \* waitReqCount->messageHash
          replies        \* history: replies[t] counts the replies to request t

echoVars == <<messageHash, replies>>

EchoServerInit == /\ messageHash = EmptyHash
                  /\ replies = [t \in Texts |-> 0]

-----------------------------------------------------------------------------
(***************************************************************************)
(* handleRequest.  Each call on waitReqCount is a critical section of its  *)
(* own; nothing holds the mutex from one call to the next.                 *)
(***************************************************************************)
MessageID(w) == getMessageID(Arg(Echo, w).data)
ServerID(w)  == Arg(Echo, w).data.queueServerID

CheckRequest(w) ==
  /\ At(Echo, w, "start")
  /\ \/ checkIfPresent(messageHash, MessageID(w), ServerID(w))
        /\ Goto(Echo, w, "received")
     \/ ~checkIfPresent(messageHash, MessageID(w), ServerID(w))
        /\ Goto(Echo, w, "insert")
  /\ messageHash' = Touch(messageHash, MessageID(w))
  /\ UNCHANGED <<inbox, replies>>

InsertRequest(w) ==
  /\ At(Echo, w, "insert")
  /\ messageHash' = insertMsgHash(messageHash, MessageID(w), ServerID(w))
  /\ Goto(Echo, w, "received")
  /\ UNCHANGED <<inbox, replies>>

CheckReceived(w) ==
  /\ At(Echo, w, "received")
  /\ \/ receivedAllRequests(messageHash, MessageID(w)) /\ Goto(Echo, w, "out")
     \/ ~receivedAllRequests(messageHash, MessageID(w)) /\ Return(Echo, w)
  /\ messageHash' = Touch(messageHash, MessageID(w))
  /\ UNCHANGED <<inbox, replies>>

\* out(data) reaches NetRequestDevice::run, which sends the buffer on the
\* client's socket and deletes the request.
Reply(w) ==
  /\ At(Echo, w, "out")
  /\ replies' = [replies EXCEPT ![Arg(Echo, w).data.buffer] = @ + 1]
  /\ Return(Echo, w)
  /\ UNCHANGED <<inbox, messageHash>>

-----------------------------------------------------------------------------
(***************************************************************************)
(* handleWait.  Wait messages are counted under WaitKey, and the signal    *)
(* goes out when every key of the count is complete, WaitKey included.     *)
(***************************************************************************)
CheckWait(w) ==
  /\ At(Echo, w, "wait")
  /\ \/ checkIfPresent(messageHash, WaitKey, Arg(Echo, w).server)
        /\ Goto(Echo, w, "processed")
     \/ ~checkIfPresent(messageHash, WaitKey, Arg(Echo, w).server)
        /\ Goto(Echo, w, "insertWait")
  /\ messageHash' = Touch(messageHash, WaitKey)
  /\ UNCHANGED <<inbox, replies>>

InsertWait(w) ==
  /\ At(Echo, w, "insertWait")
  /\ messageHash' = insertMsgHash(messageHash, WaitKey, Arg(Echo, w).server)
  /\ Goto(Echo, w, "processed")
  /\ UNCHANGED <<inbox, replies>>

\* Mutant: the first wait message ends the round.
CheckProcessedSkipped(w) ==
  /\ At(Echo, w, "processed")
  /\ Goto(Echo, w, "resetHash")
  /\ UNCHANGED <<inbox, echoVars>>

CheckProcessed(w) ==
  /\ At(Echo, w, "processed")
  /\ \/ processedAllRequests(messageHash) /\ Goto(Echo, w, "resetHash")
     \/ ~processedAllRequests(messageHash) /\ Return(Echo, w)
  /\ UNCHANGED <<inbox, echoVars>>

\* resetHash does not take the mutex.
ResetHash(w) ==
  /\ At(Echo, w, "resetHash")
  /\ messageHash' = EmptyHash
  /\ Goto(Echo, w, "esignal")
  /\ UNCHANGED <<inbox, replies>>

\* Mutant: the last queue server is not signalled.
SendSignalSkipsLast(w) ==
  /\ At(Echo, w, "esignal")
  /\ LET q == frame[Echo][w].k
     IN /\ Send(q, Signal)
        /\ \/ q + 2 \in QueueServers
              /\ Become(Echo, w, [frame[Echo][w] EXCEPT !.k = q + 1])
           \/ q + 2 \notin QueueServers
              /\ Return(Echo, w)
  /\ UNCHANGED echoVars

\* esignal_primary, esignal_repl_1, ... in that order; k is the next server.
SendSignal(w) ==
  /\ At(Echo, w, "esignal")
  /\ LET q == frame[Echo][w].k
     IN /\ Send(q, Signal)
        /\ \/ q + 1 \in QueueServers
              /\ Become(Echo, w, [frame[Echo][w] EXCEPT !.k = q + 1])
           \/ q + 1 \notin QueueServers
              /\ Return(Echo, w)
  /\ UNCHANGED echoVars

EchoServerStep(w) ==
  \/ Dispatch(Echo, w) /\ UNCHANGED echoVars
  \/ CheckRequest(w)
  \/ InsertRequest(w)
  \/ CheckReceived(w)
  \/ Reply(w)
  \/ CheckWait(w)
  \/ InsertWait(w)
  \/ CheckProcessed(w)
  \/ ResetHash(w)
  \/ SendSignal(w)
=============================================================================
