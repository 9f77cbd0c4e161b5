------------------------------- MODULE Intake -------------------------------
(***************************************************************************)
(* From the socket to the reply, byte by byte: NetRequestDevice composed   *)
(* with the NetRequest objects it makes of what it reads (NetRequest.hh),  *)
(* the memory their buffers live in, and the primary's check of the client *)
(* (carbon_op_queue_primary.cc:58-72, RSASignVer.hh).                      *)
(*                                                                         *)
(* The bytes of a client's request are <<c, 1>>, <<c, 2>>, ... : its text, *)
(* a separator and the signature, as client/EchoClient.py sends them.      *)
(* Behind the check stands the replicated service, of which only this is   *)
(* used: it answers requests the primary accepted, each at most once       *)
(* (Carbon, ImplementsReplicatedEcho), with the device's object or with a  *)
(* copy of it.                                                             *)
(***************************************************************************)
EXTENDS NetDevice

CONSTANTS TextLength,   \* TextLength[c]: the length of c's text
          Cuts,         \* Cuts[c]: where TCP cuts c's request; a segment ends
                        \* at each of these bytes
          SIG_LENGTH,
          BUFSIZE,
          MaxBuffers,   \* bound: how many buffers there are room for
          Fresh,        \* what the memory may hold that was never used
          Randoms,      \* what rand() can return; it is never seeded
          Handlers,     \* handlers of the primary that can be in progress
          KeyLines,     \* the lines of client_pb_keys.txt: addresses with keys
          PrivateKey    \* PrivateKey[c]: the key c signs with

RequestLength(c) == TextLength[c] + 1 + SIG_LENGTH

Buffers == 1 .. MaxBuffers

ASSUME IntakeAssumption ==
  /\ SIG_LENGTH \in Nat \ {0}
  /\ BUFSIZE \in Nat \ {0}
  /\ MaxBuffers \in Nat
  /\ Handlers # {}
  /\ \A c \in Clients : /\ TextLength[c] \in Nat
                        /\ RequestLength(c) < BUFSIZE
                        /\ PrivateKey[c] # None

\* Segments are not empty and together are the request.
ASSUME CutsAssumption ==
  \A c \in Clients :
    /\ Cuts[c] \in Seq(Nat \ {0})
    /\ Len(Cuts[c]) \in 1 .. Segments
    /\ Cuts[c][Len(Cuts[c])] = RequestLength(c)
    /\ \A i \in 1 .. Len(Cuts[c]) : \A j \in 1 .. Len(Cuts[c]) :
         i < j => Cuts[c][i] < Cuts[c][j]

NUL   == <<None, 0>>
Other == <<None, -1>>    \* a byte that is no zero and no client's

\* Any bytes, but for a zero at the end: without one in the buffer strlen would
\* read on in memory that is not the program's.
ASSUME FreshAssumption ==
  \A m \in Fresh : /\ m \in [Buffers -> [1 .. BUFSIZE -> {NUL, Other}]]
                   /\ \A b \in Buffers : m[b][BUFSIZE] = NUL

VARIABLES memory,     \* memory[b]: the BUFSIZE bytes of buffer b
          used,       \* how many buffers were ever allocated; they are reused
          free,       \* buffers that have been deleted
          object,     \* object[r]: the NetRequest made for the handed-over r
          queued,     \* requests the primary has not looked at, oldest first
          accepted,   \* requests the primary accepted
          copied,     \* copied[r]: the text of the accepted r, as the primary
                      \* copied it for the replicas
          checking,   \* checking[h]: the request handler h is verifying, with
                      \* the name of its signature file, or None
          sigFile,    \* sigFile[n]: what the temporary file n holds
          sent        \* history: what run() was given to send

intakeVars == <<memory, used, free, object, queued, accepted, copied, checking,
                sigFile, sent>>

Request(c)   == [k \in 1 .. RequestLength(c) |-> <<c, k>>]
Text(c)      == SubSeq(Request(c), 1, TextLength[c])
Signature(c) == SubSeq(Request(c), TextLength[c] + 2, RequestLength(c))

\* genRandFileName: the address followed by a random number.
FileNames == {Host[c] : c \in Clients} \X Randoms
genRandFileName(srcAddr, random) == <<srcAddr, random>>

ASSUME NoneAssumption == None \notin [netReq : NetRequests, file : FileNames]

\* Signature files are never removed; the program may find those of an earlier
\* execution.
Leftovers == {<< >>} \cup {Signature(c) : c \in Clients}

IntakeInit == /\ Init
              /\ memory \in Fresh
              /\ used = 0
              /\ free = {}
              /\ object = << >>
              /\ queued = << >>
              /\ accepted = {}
              /\ copied = << >>
              /\ checking = [h \in Handlers |-> None]
              /\ \E left \in Leftovers : sigFile = [n \in FileNames |-> left]
              /\ sent = {}

-----------------------------------------------------------------------------
(***************************************************************************)
(* C strings in a buffer.                                                  *)
(***************************************************************************)
\* strlen(bytes + from - 1).
strlen(bytes, from) ==
  LET end == CHOOSE k \in from .. BUFSIZE :
               bytes[k] = NUL /\ \A i \in from .. k - 1 : bytes[i] # NUL
  IN end - from

CString(bytes, from) == SubSeq(bytes, from, from + strlen(bytes, from) - 1)

\* How many bytes of c's request its first n segments hold.
BytesIn(c, n) == IF n = 0 THEN 0 ELSE Cuts[c][n]

\* What recvfrom delivers for netReq.
Received(netReq) == SubSeq(Request(netReq.text), BytesIn(netReq.text, netReq.first - 1) + 1,
                                                 BytesIn(netReq.text, netReq.last))

-----------------------------------------------------------------------------
(***************************************************************************)
(* NetRequest::separateSig: the signature is the last SIG_LENGTH bytes of  *)
(* the string, the text what precedes the byte before it.                  *)
(***************************************************************************)
\* Mutant: the byte before the signature is counted as text.
separateSigKeepsSeparator(b, bytes, numBytes) ==
  LET length == strlen(bytes, 1)
      end    == length - SIG_LENGTH
  IN IF length > SIG_LENGTH
     THEN [bytes  |-> [bytes EXCEPT ![end + 1] = NUL],
           object |-> [buffer |-> b, signature |-> end + 1, numBytes |-> end]]
     ELSE [bytes  |-> bytes,
           object |-> [buffer |-> b, signature |-> None, numBytes |-> numBytes]]

separateSig(b, bytes, numBytes) ==
  LET length == strlen(bytes, 1)
      end    == length - SIG_LENGTH
  IN IF length > SIG_LENGTH
     THEN [bytes  |-> [bytes EXCEPT ![end] = NUL],
           object |-> [buffer |-> b, signature |-> end + 1, numBytes |-> end - 1]]
     ELSE [bytes  |-> bytes,
           object |-> [buffer |-> b, signature |-> None, numBytes |-> numBytes]]

\* new char[BUFSIZE] may return memory that was deleted before; it leaves in it
\* what it holds.
Allocatable == free \cup (IF used < MaxBuffers THEN {used + 1} ELSE {})

Overwritten(b, bytes) ==
  [k \in 1 .. BUFSIZE |-> IF k <= Len(bytes) THEN bytes[k] ELSE memory[b][k]]

\* Mutant: the buffer is deleted once its request has been handed over.
ConstructAndDelete(netReq) ==
  \E b \in Allocatable :
    LET bytes == Received(netReq)
        made  == separateSig(b, Overwritten(b, bytes), Len(bytes))
    IN /\ memory' = [memory EXCEPT ![b] = made.bytes]
       /\ object' = [r \in DOMAIN object \cup {netReq} |->
                       IF r = netReq THEN made.object ELSE object[r]]
       /\ free' = free \cup {b}
       /\ used' = IF b > used THEN b ELSE used
       /\ queued' = Append(queued, netReq)
       /\ UNCHANGED <<accepted, copied, checking, sigFile, sent>>

\* recvfrom writes what has arrived over the first bytes of the buffer and no
\* terminating zero; the object made of it goes to the primary.
Construct(netReq) ==
  \E b \in Allocatable :
    LET bytes == Received(netReq)
        made  == separateSig(b, Overwritten(b, bytes), Len(bytes))
    IN /\ memory' = [memory EXCEPT ![b] = made.bytes]
       /\ object' = [r \in DOMAIN object \cup {netReq} |->
                       IF r = netReq THEN made.object ELSE object[r]]
       /\ free' = free \ {b}
       /\ used' = IF b > used THEN b ELSE used
       /\ queued' = Append(queued, netReq)
       /\ UNCHANGED <<accepted, copied, checking, sigFile, sent>>

\* A recvfrom that returns nothing leaves no object behind.
Receive ==
  /\ Recv
  /\ \/ pending' = pending /\ UNCHANGED intakeVars
     \/ \E netReq \in pending' \ pending : Construct(netReq)

-----------------------------------------------------------------------------
(***************************************************************************)
(* The primary's check of a client.                                        *)
(***************************************************************************)
TextOf(netReq) == CString(memory[object[netReq].buffer], 1)

getSignature(netReq) ==
  IF object[netReq].signature = None THEN << >>
  ELSE CString(memory[object[netReq].buffer], object[netReq].signature)

\* The file is opened for writing, which empties it.
populateSigFile(name, signature) == sigFile' = [sigFile EXCEPT ![name] = signature]

\* The bytes of signatures are the hexadecimal digits among the bytes.
IsHexDigit(byte) == byte[2] > 0 /\ byte[2] > TextLength[byte[1]] + 1
HexDecoder(bytes) ==
  LET decoded[k \in 0 .. Len(bytes)] ==
        IF k = 0 THEN << >>
        ELSE IF IsHexDigit(bytes[k]) THEN Append(decoded[k - 1], bytes[k])
        ELSE decoded[k - 1]
  IN decoded[Len(bytes)]

\* ClientKeyHash: the last line for an address counts, and an address without
\* one has no key file.
getKeyFileName(srcAddr) ==
  LET lines == {i \in DOMAIN KeyLines : KeyLines[i].address = srcAddr}
  IN IF lines = {} THEN None
     ELSE KeyLines[CHOOSE i \in lines : \A j \in lines : j <= i].key

(***************************************************************************)
(* RSASignVer::verifySignature throws, and returns false, without a key    *)
(* file or if the signature does not have the length of the key's; else    *)
(* the signature must be the one made of the text with the private key.    *)
(***************************************************************************)
verifySignature(key, file, text) ==
  /\ key # None
  /\ Len(HexDecoder(file)) = SIG_LENGTH
  /\ \E c \in Clients : /\ PrivateKey[c] = key
                        /\ Signature(c) = HexDecoder(file)
                        /\ Text(c) = text

PopulateSigFile(h) ==
  /\ checking[h] = None
  /\ queued # << >>
  /\ LET netReq == Head(queued)
     IN \E random \in Randoms :
          LET name == genRandFileName(netReq.srcAddr, random)
          IN /\ populateSigFile(name, getSignature(netReq))
             /\ checking' = [checking EXCEPT ![h] = [netReq |-> netReq, file |-> name]]
  /\ queued' = Tail(queued)
  /\ UNCHANGED <<vars, memory, used, free, object, accepted, copied, sent>>

\* What is accepted is copied for the replicas, whose constructor takes the text
\* with strcpy and leaves numBytes unassigned (NetRequest.hh:87-115).
VerifyClient(h) ==
  /\ checking[h] # None
  /\ LET netReq   == checking[h].netReq
         verified == verifySignature(getKeyFileName(netReq.srcAddr),
                                     sigFile[checking[h].file], TextOf(netReq))
     IN \/ /\ verified
           /\ accepted' = accepted \cup {netReq}
           /\ copied' = [r \in DOMAIN copied \cup {netReq} |->
                           IF r = netReq THEN TextOf(netReq) ELSE copied[r]]
        \/ /\ ~verified
           /\ UNCHANGED <<accepted, copied>>
  /\ checking' = [checking EXCEPT ![h] = None]
  /\ UNCHANGED <<vars, memory, used, free, object, queued, sigFile, sent>>

(***************************************************************************)
(* The service answers with the object the device made, which run()        *)
(* deletes with its buffer, or with a replica's copy of it; then the       *)
(* device's object is never deleted.                                       *)
(***************************************************************************)
Reply(netReq) == SubSeq(memory[object[netReq].buffer], 1, object[netReq].numBytes)

DeviceObject(netReq) == [netReq |-> netReq, text |-> Reply(netReq),
                         numBytes |-> object[netReq].numBytes]
ReplicaObject(netReq) == [netReq |-> netReq, text |-> copied[netReq], numBytes |-> None]

Answer(netReq) ==
  /\ netReq \in accepted
  /\ Run(netReq)
  /\ \/ /\ sent' = sent \cup {DeviceObject(netReq)}
        /\ free' = free \cup {object[netReq].buffer}
     \/ /\ sent' = sent \cup {ReplicaObject(netReq)}
        /\ UNCHANGED free
  /\ UNCHANGED <<memory, used, object, queued, accepted, copied, checking, sigFile>>

-----------------------------------------------------------------------------
DeviceStep == \/ Start \/ AwaitReady \/ Listen \/ SelectFails \/ Select \/ Scan
              \/ Accept

ClientStep(c) == \/ Connect(c)
                 \/ arrived[c] < Len(Cuts[c]) /\ Arrive(c)
                 \/ Close(c)

IntakeNext == \/ DeviceStep /\ UNCHANGED intakeVars
              \/ Receive
              \/ \E h \in Handlers : PopulateSigFile(h) \/ VerifyClient(h)
              \/ \E netReq \in pending : Answer(netReq)
              \/ \E c \in Clients : ClientStep(c) /\ UNCHANGED intakeVars

IntakeSpec == IntakeInit /\ [][IntakeNext]_<<vars, intakeVars>>

-----------------------------------------------------------------------------
(***************************************************************************)
(* Properties.                                                             *)
(***************************************************************************)
\* What is sent is what was verified: from the check to the reply, the text in
\* the object given to run() is one that some client signed with the key of the
\* host the request is said to come from.  The length it is sent with is that of
\* the text, or that of a replica's copy, which nobody assigned.
AnswerWasVerified ==
  \A s \in sent :
    \E c \in Clients : /\ PrivateKey[c] = getKeyFileName(s.netReq.srcAddr)
                       /\ s.text = Text(c)
                       /\ s.numBytes \in {TextLength[c], None}

Judged == {r \in pending : /\ \A i \in DOMAIN queued : queued[i] # r
                           /\ \A h \in Handlers : checking[h] # None => checking[h].netReq # r}

\* A request that arrived in one piece, with its sender's address, and was
\* signed with the key the primary has for that address.
Legitimate(r) == /\ Received(r) = Request(r.text)
                 /\ r.srcAddr = Host[r.text]
                 /\ getKeyFileName(r.srcAddr) = PrivateKey[r.text]

\* Behind the request there is a zero, and it is not the one separateSig puts
\* before what it takes for the signature.
Terminated(r) == /\ memory[object[r].buffer][RequestLength(r.text) + 1] = NUL
                 /\ object[r].signature # RequestLength(r.text) + 2

\* The primary accepts every legitimate request behind which the memory happens
\* to hold a zero: the text and the signature are cut apart where the client
\* joined them, and the file verified is the one just written.
TerminatedAccepted == \A r \in Judged : Legitimate(r) /\ Terminated(r) => r \in accepted

\* The primary accepts every legitimate request (carbon_op_queue_primary.cc:61).
LegitimateAccepted == \A r \in Judged : Legitimate(r) => r \in accepted
=============================================================================
