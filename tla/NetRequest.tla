----------------------------- MODULE NetRequest -----------------------------
(***************************************************************************)
(* The data object that travels through the carbon application             *)
(* (carbon/NetRequest.hh) together with the message authentication code    *)
(* the primary attaches to it (carbon/HMACSignVer.hh).                     *)
(*                                                                         *)
(* A request's text is abstracted to a natural number, the position of the *)
(* request in the order in which the network device handed requests to     *)
(* the application: two requests are the same text only if they are the    *)
(* same request.  numBytes is the length of the text, so the correct value *)
(* of numBytes for the text b is written b itself.                         *)
(***************************************************************************)
EXTENDS Common

CONSTANTS Keys,         \* the shared secrets the key files can hold
          MaxRequests   \* bound: how many requests the clients send

ASSUME RequestsAssumption == MaxRequests \in Nat

Texts == 1 .. MaxRequests

(***************************************************************************)
(* HMACSignVer::genMac and verifyMac.  The digest is a function of the     *)
(* text and the key; distinct inputs are taken to have distinct digests.   *)
(***************************************************************************)
genMac(text, key) == <<text, key>>

verifyMac(text, key, mac) == genMac(text, key) = mac

(***************************************************************************)
(* The constructor the network device uses.  It leaves messageID,          *)
(* queueServerID and mac uninitialised.                                    *)
(***************************************************************************)
FromSocket(text) ==
  [buffer |-> text, numBytes |-> text,
   messageID |-> Uninit, queueServerID |-> Uninit, mac |-> Uninit]

\* The values of a uint16_t.
UINT16_MAX == 65535
MessageIDs == 0 .. UINT16_MAX

\* getMessageID returns uint16_t although messageID is a uint32_t.
getMessageID(data) == data.messageID % 65536

(***************************************************************************)
(* NetRequest(NetRequest *data, uint16_t queueServerID, const byte *mac),  *)
(* the copy the primary makes for each replica.  The message id is copied  *)
(* with getMessageID; numBytes this constructor never assigns.             *)
(***************************************************************************)
\* Mutant: the copy keeps the queue server id of the original.
ReplicaCopyKeepsServer(data, server, mac) ==
  [data EXCEPT !.messageID = getMessageID(data), !.mac = mac, !.numBytes = Uninit]

ReplicaCopy(data, server, mac) ==
  [data EXCEPT !.messageID = getMessageID(data), !.queueServerID = server,
               !.mac = mac, !.numBytes = Uninit]

freeMac(data) == [data EXCEPT !.mac = Null]

(***************************************************************************)
(* The objects that can occur: as read from the socket, and after the      *)
(* primary has stamped them with a message and a queue server id.          *)
(***************************************************************************)
Macs == (Texts \X Keys) \cup {Uninit, Null}

SocketRequests == {FromSocket(t) : t \in Texts}

StampedRequests ==
  [buffer : Texts, numBytes : Texts \cup {Uninit}, messageID : Nat,
   queueServerID : QueueServers, mac : Macs]
=============================================================================
