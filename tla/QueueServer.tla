---------------------------- MODULE QueueServer -----------------------------
(***************************************************************************)
(* The four queue servers: carbon_op_queue_primary.cc and the three copies *)
(* of carbon_op_queue_repl_<n>.cc, which differ only in their ids and key  *)
(* files.  Both have a handler for requests (port in) and a handler for    *)
(* the reset signal of the echo server (port qsignal).                     *)
(***************************************************************************)
EXTENDS Lagniappe, NetRequest

CONSTANTS MAX_QUEUE_SIZE,   \* the capacity of every request log
          Verified,         \* requests whose signature checks against the
                            \* key file found for their source address
          PrimaryKeys,      \* PrimaryKeys[r]: the primary's key for replica r
          ReplicaKeys       \* ReplicaKeys[r]: replica r's key for the primary

ASSUME QueueServerAssumption == /\ MAX_QUEUE_SIZE \in Nat \ {0}
                                /\ Verified \subseteq Nat
                                /\ PrimaryKeys \in [Replicas -> Keys]
                                /\ ReplicaKeys \in [Replicas -> Keys]

VARIABLES requestQueue,   \* requestQueue[q]: the log of requests, oldest first
          lockOnQueue,    \* lockOnQueue[q]: 1 once q has sent its wait message
          logged          \* history: <<q, text, messageID>> of every push

queueVars == <<requestQueue, lockOnQueue, logged>>

QueueServerInit == /\ requestQueue = [q \in QueueServers |-> << >>]
                   /\ lockOnQueue = [q \in QueueServers |-> 0]
                   /\ logged = {}

Data(q, w) == Arg(q, w).data

-----------------------------------------------------------------------------
(***************************************************************************)
(* carbon_op_queue_primary::handleRequest, up to the forwarding.           *)
(***************************************************************************)

\* Mutant: the request is stamped with a server id but no message id.
VerifySignatureNoMessageID(w) ==
  /\ At(Primary, w, "start")
  /\ Become(Primary, w,
       [Activation("out_repl",
          Request([Data(Primary, w) EXCEPT !.queueServerID = Primary]))
        EXCEPT !.k = 1])
  /\ UNCHANGED <<inbox, queueVars>>

\* Mutant: the result of verifySignature is ignored.
VerifySignatureIgnored(w) ==
  /\ At(Primary, w, "start")
  /\ Become(Primary, w,
       [Activation("out_repl",
          Request([Data(Primary, w) EXCEPT
                     !.queueServerID = Primary,
                     !.messageID = Len(requestQueue[Primary])]))
        EXCEPT !.k = 1])
  /\ UNCHANGED <<inbox, queueVars>>

\* A request whose signature does not verify is dropped; the others get the
\* length of the log as their message id.
VerifySignature(w) ==
  /\ At(Primary, w, "start")
  /\ \/ /\ Data(Primary, w).buffer \notin Verified
        /\ Return(Primary, w)
     \/ /\ Data(Primary, w).buffer \in Verified
        /\ Become(Primary, w,
             [Activation("out_repl",
                Request([Data(Primary, w) EXCEPT
                           !.queueServerID = Primary,
                           !.messageID = Len(requestQueue[Primary])]))
              EXCEPT !.k = 1])
  /\ UNCHANGED <<inbox, queueVars>>

\* out_repl_1, out_repl_2, ... in that order; k is the next replica.
Forward(w) ==
  /\ At(Primary, w, "out_repl")
  /\ LET r == frame[Primary][w].k
         data == Data(Primary, w)
     IN /\ Send(r, Request(ReplicaCopy(data, r,
                            genMac(data.buffer, PrimaryKeys[r]))))
        /\ \/ r + 1 \in Replicas
              /\ Become(Primary, w, [frame[Primary][w] EXCEPT !.k = r + 1])
           \/ r + 1 \notin Replicas
              /\ Goto(Primary, w, "size")
  /\ UNCHANGED queueVars

(***************************************************************************)
(* carbon_op_queue_repl_<r>::handleRequest begins by checking the digest.  *)
(***************************************************************************)
VerifyMac(r, w) ==
  /\ At(r, w, "start")
  /\ LET data == Data(r, w)
         valid == verifyMac(data.buffer, ReplicaKeys[r], data.mac)
     IN \/ /\ ~valid
           /\ Return(r, w)
        \/ /\ valid
           /\ Become(r, w, Activation("size", Request(freeMac(data))))
  /\ UNCHANGED <<inbox, queueVars>>

-----------------------------------------------------------------------------
(***************************************************************************)
(* The rest of handleRequest is the same code in the primary and in the    *)
(* replicas.                                                               *)
(***************************************************************************)
\* Mutant: the log may exceed its capacity by one.
CheckSizeOffByOne(q, w) ==
  /\ At(q, w, "size")
  /\ \/ Len(requestQueue[q]) > MAX_QUEUE_SIZE  /\ Goto(q, w, "state")
     \/ Len(requestQueue[q]) <= MAX_QUEUE_SIZE /\ Goto(q, w, "push")
  /\ UNCHANGED <<inbox, queueVars>>

CheckSize(q, w) ==
  /\ At(q, w, "size")
  /\ \/ Len(requestQueue[q]) >= MAX_QUEUE_SIZE /\ Goto(q, w, "state")
     \/ Len(requestQueue[q]) < MAX_QUEUE_SIZE  /\ Goto(q, w, "push")
  /\ UNCHANGED <<inbox, queueVars>>

\* A full queue server discards the request; the first time it also sends a
\* wait message to the echo server, and sets its lock after the send.
CheckLock(q, w) ==
  /\ At(q, w, "state")
  /\ \/ lockOnQueue[q] = 0 /\ Goto(q, w, "qwait")
     \/ lockOnQueue[q] # 0 /\ Return(q, w)
  /\ UNCHANGED <<inbox, queueVars>>

SendWait(q, w) ==
  /\ At(q, w, "qwait")
  /\ Send(Echo, Wait(q))
  /\ Goto(q, w, "set")
  /\ UNCHANGED queueVars

SetLock(q, w) ==
  /\ At(q, w, "set")
  /\ lockOnQueue' = [lockOnQueue EXCEPT ![q] = 1]
  /\ Return(q, w)
  /\ UNCHANGED <<inbox, requestQueue, logged>>

Push(q, w) ==
  /\ At(q, w, "push")
  /\ requestQueue' = [requestQueue EXCEPT ![q] = Append(@, Data(q, w))]
  /\ logged' = logged \cup {<<q, Data(q, w).buffer, Data(q, w).messageID>>}
  /\ Goto(q, w, "out")
  /\ UNCHANGED <<inbox, lockOnQueue>>

SendToEcho(q, w) ==
  /\ At(q, w, "out")
  /\ Send(Echo, Request(Data(q, w)))
  /\ Return(q, w)
  /\ UNCHANGED queueVars

-----------------------------------------------------------------------------
(***************************************************************************)
(* handleSignal: empty the log, then reset the lock.                       *)
(***************************************************************************)
\* Mutant: one element is popped instead of all.
PopOne(q, w) ==
  /\ At(q, w, "pop")
  /\ requestQueue' = [requestQueue EXCEPT ![q] = IF @ = << >> THEN @ ELSE Tail(@)]
  /\ Goto(q, w, "reset")
  /\ UNCHANGED <<inbox, lockOnQueue, logged>>

PopAll(q, w) ==
  /\ At(q, w, "pop")
  /\ requestQueue' = [requestQueue EXCEPT ![q] = << >>]
  /\ Goto(q, w, "reset")
  /\ UNCHANGED <<inbox, lockOnQueue, logged>>

\* Mutant: the lock is not reset.
ResetLockMissing(q, w) ==
  /\ At(q, w, "reset")
  /\ Return(q, w)
  /\ UNCHANGED <<inbox, queueVars>>

ResetLock(q, w) ==
  /\ At(q, w, "reset")
  /\ lockOnQueue' = [lockOnQueue EXCEPT ![q] = 0]
  /\ Return(q, w)
  /\ UNCHANGED <<inbox, requestQueue, logged>>

QueueServerStep(q, w) ==
  \/ Dispatch(q, w) /\ UNCHANGED queueVars
  \/ q = Primary /\ (VerifySignature(w) \/ Forward(w))
  \/ q # Primary /\ VerifyMac(q, w)
  \/ CheckSize(q, w)
  \/ CheckLock(q, w)
  \/ SendWait(q, w)
  \/ SetLock(q, w)
  \/ Push(q, w)
  \/ SendToEcho(q, w)
  \/ PopAll(q, w)
  \/ ResetLock(q, w)
=============================================================================
