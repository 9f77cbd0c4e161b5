----------------------------- MODULE NetDevice ------------------------------
(***************************************************************************)
(* NetRequestDevice (carbon/NetRequestDevice.cc): the operator net1 of     *)
(* carbon.xml.  Its thread accepts TCP connections and turns what it reads *)
(* from them into NetRequests for the application; its run() method, on    *)
(* another thread, sends the application's replies.                        *)
(*                                                                         *)
(* The kernel's sockets and the clients (client/EchoClient.py) are the     *)
(* environment.  A client connects, sends one request, receives once and   *)
(* closes.  A request may reach the device in several segments, which is   *)
(* TCP's choice; a request is named by the client that sends it.           *)
(***************************************************************************)
EXTENDS Integers, Sequences, FiniteSets

CONSTANTS Clients,
          Host,        \* Host[c]: the address client c connects from
          MaxFD,       \* the highest descriptor the process can have
          Segments,    \* bound: into how many segments a request is cut
          StaleBits,   \* bits that openSet, never cleared, may start with
          Interrupts,  \* whether signals interrupt the device's thread
          GivingUp,    \* whether clients may close before they are answered
          None

listener == 0
Descriptors == listener + 1 .. MaxFD

ASSUME NetDeviceAssumption ==
  /\ DOMAIN Host = Clients
  /\ MaxFD \in Nat \ {0}
  /\ Segments \in Nat \ {0}
  /\ StaleBits \subseteq Descriptors
  /\ Interrupts \in BOOLEAN
  /\ GivingUp \in BOOLEAN
  /\ None \notin Int

VARIABLES sysReady,     \* set by start()
          pc,           \* where process() is
          openSet, readSet, maxFD,
          fd,           \* the loop variable i of the scan
          remoteAddr,   \* filled by accept; recvfrom leaves it alone on TCP
          backlog,      \* connections waiting to be accepted, oldest first
          sock,         \* sock[c]: the descriptor of c's accepted connection
          client,       \* client[c]: the state of c's end of the connection
          arrived,      \* arrived[c]: segments of c's request received so far
          consumed,     \* consumed[c]: how many of them recvfrom has returned
          pending,      \* NetRequests handed over and not yet answered
          handed,       \* history: every NetRequest handed over
          got           \* got[c]: the replies that reached client c

deviceVars == <<sysReady, pc, openSet, readSet, maxFD, fd, remoteAddr>>
clientVars == <<client, arrived, got>>
vars == <<deviceVars, clientVars, backlog, sock, consumed, pending, handed>>

Init == /\ sysReady = FALSE
        /\ pc = "monitor"
        /\ openSet \in SUBSET StaleBits
        /\ readSet = {}
        /\ maxFD = listener
        /\ fd = 0
        /\ remoteAddr = None
        /\ backlog = << >>
        /\ sock = [c \in Clients |-> None]
        /\ client = [c \in Clients |-> "new"]
        /\ arrived = [c \in Clients |-> 0]
        /\ consumed = [c \in Clients |-> 0]
        /\ pending = {}
        /\ handed = {}
        /\ got = [c \in Clients |-> {}]

-----------------------------------------------------------------------------
(***************************************************************************)
(* Start-up: process() waits under the device's monitor until start() has  *)
(* set sysReady and notified it, and then begins to listen.                *)
(***************************************************************************)
\* Mutant: start() does not call notifyAll.
StartSilently ==
  /\ ~sysReady
  /\ sysReady' = TRUE
  /\ UNCHANGED <<pc, openSet, readSet, maxFD, fd, remoteAddr, clientVars,
                 backlog, sock, consumed, pending, handed>>

Start ==
  /\ ~sysReady
  /\ sysReady' = TRUE
  /\ pc' = IF pc = "waiting" THEN "monitor" ELSE pc
  /\ UNCHANGED <<openSet, readSet, maxFD, fd, remoteAddr, clientVars,
                 backlog, sock, consumed, pending, handed>>

AwaitReady ==
  /\ pc = "monitor"
  /\ pc' = IF sysReady THEN "listen" ELSE "waiting"
  /\ UNCHANGED <<sysReady, openSet, readSet, maxFD, fd, remoteAddr, clientVars,
                 backlog, sock, consumed, pending, handed>>

Listen ==
  /\ pc = "listen"
  /\ openSet' = openSet \cup {listener}
  /\ maxFD' = listener
  /\ pc' = "select"
  /\ UNCHANGED <<sysReady, readSet, fd, remoteAddr, clientVars,
                 backlog, sock, consumed, pending, handed>>

Listening == pc \notin {"monitor", "waiting", "listen"}

-----------------------------------------------------------------------------
(***************************************************************************)
(* The select loop.                                                        *)
(***************************************************************************)
Owner(d) == {c \in Clients : sock[c] = d}

HasData(c)  == consumed[c] < arrived[c]
HasEvent(c) == HasData(c) \/ client[c] \in {"closed", "reset"}

Ready == {d \in openSet : \/ d = listener /\ backlog # << >>
                          \/ \E c \in Owner(d) : HasEvent(c)}

Selectable == {d \in Ready : d <= maxFD}

Free == {d \in Descriptors : Owner(d) = {}}

\* Bits of openSet whose descriptor is not open.
Orphans == {d \in openSet \ {listener} : Owner(d) = {}}

\* Whether the thread waits in the call it is at.  A signal ends the waiting, and
\* the call fails with EINTR.
Blocked ==
  \/ /\ pc = "select"
     /\ Selectable = {}
     /\ \A d \in Orphans : d > maxFD
  \/ /\ pc = "accept"
     /\ backlog = << >>
     /\ Free # {}
  \/ /\ pc = "recv"
     /\ Owner(fd) # {}
     /\ \A c \in Owner(fd) : ~HasEvent(c)

\* select fails with EBADF on a descriptor that is not open, and the process
\* exits.
SelectFails ==
  /\ pc = "select"
  /\ \E d \in Orphans : d <= maxFD
  /\ pc' = "exit"
  /\ UNCHANGED <<sysReady, openSet, readSet, maxFD, fd, remoteAddr, clientVars,
                 backlog, sock, consumed, pending, handed>>

\* select blocks until a descriptor is ready.  After a signal the scan goes on as
\* well, with readSet still the copy of openSet that select was given.
Select ==
  /\ pc = "select"
  /\ \A d \in Orphans : d > maxFD
  /\ Interrupts \/ ~Blocked
  /\ readSet' = IF Blocked THEN openSet ELSE Selectable
  /\ fd' = 0
  /\ pc' = "scan"
  /\ UNCHANGED <<sysReady, openSet, maxFD, remoteAddr, clientVars,
                 backlog, sock, consumed, pending, handed>>

ToScan == {d \in readSet : fd <= d /\ d <= maxFD}

\* The loop skips the descriptors that are not in readSet.
Scan ==
  /\ pc = "scan"
  /\ \/ /\ ToScan = {}
        /\ pc' = "select"
        /\ UNCHANGED fd
     \/ \E d \in ToScan : /\ \A e \in ToScan : d <= e
                          /\ fd' = d
                          /\ pc' = IF d = listener THEN "accept" ELSE "recv"
  /\ UNCHANGED <<sysReady, openSet, readSet, maxFD, remoteAddr, clientVars,
                 backlog, sock, consumed, pending, handed>>

Continue == pc' = "scan" /\ fd' = fd + 1

\* Mutant: maxFD is not raised.
AcceptKeepsMaxFD ==
  /\ pc = "accept"
  /\ backlog # << >>
  /\ \E d \in Free : /\ sock' = [sock EXCEPT ![Head(backlog)] = d]
                     /\ openSet' = openSet \cup {d}
  /\ backlog' = Tail(backlog)
  /\ remoteAddr' = Host[Head(backlog)]
  /\ Continue
  /\ UNCHANGED <<sysReady, maxFD, readSet, clientVars, consumed, pending, handed>>

\* Mutant: accept is not asked for the peer's address.
AcceptForgetsAddress ==
  /\ pc = "accept"
  /\ backlog # << >>
  /\ \E d \in Free : /\ sock' = [sock EXCEPT ![Head(backlog)] = d]
                     /\ openSet' = openSet \cup {d}
                     /\ maxFD' = IF d > maxFD THEN d ELSE maxFD
  /\ backlog' = Tail(backlog)
  /\ Continue
  /\ UNCHANGED <<sysReady, remoteAddr, readSet, clientVars, consumed, pending, handed>>

\* accept blocks until there is a connection.  It may be given any free
\* descriptor, for other threads open and close files; without one it fails, as
\* it does after a signal, and it or setsockopt may fail for reasons of the
\* kernel's.  Every error ends the process.
Accept ==
  /\ pc = "accept"
  /\ \/ /\ Interrupts \/ ~Blocked
        /\ pc' = "exit"
        /\ UNCHANGED <<openSet, maxFD, fd, remoteAddr, backlog, sock>>
     \/ /\ backlog # << >>
        /\ \E d \in Free :
             /\ sock' = [sock EXCEPT ![Head(backlog)] = d]
             /\ openSet' = openSet \cup {d}
             /\ maxFD' = IF d > maxFD THEN d ELSE maxFD
        /\ backlog' = Tail(backlog)
        /\ remoteAddr' = Host[Head(backlog)]
        /\ Continue
  /\ UNCHANGED <<sysReady, readSet, clientVars, consumed, pending, handed>>

\* Mutant: the connection is closed as soon as its request has been read.
RecvDataCloses(c) ==
  /\ HasData(c)
  /\ client[c] # "reset"
  /\ LET netReq == [text |-> c, first |-> consumed[c] + 1, last |-> arrived[c],
                    socketID |-> fd, srcAddr |-> remoteAddr]
     IN /\ pending' = pending \cup {netReq}
        /\ handed' = handed \cup {netReq}
  /\ consumed' = [consumed EXCEPT ![c] = arrived[c]]
  /\ sock' = [sock EXCEPT ![c] = None]
  /\ openSet' = openSet \ {fd}
  /\ UNCHANGED clientVars

\* A successful recvfrom returns all that has arrived, and becomes a request.
RecvData(c) ==
  /\ HasData(c)
  /\ client[c] # "reset"
  /\ LET netReq == [text |-> c, first |-> consumed[c] + 1, last |-> arrived[c],
                    socketID |-> fd, srcAddr |-> remoteAddr]
     IN /\ pending' = pending \cup {netReq}
        /\ handed' = handed \cup {netReq}
  /\ consumed' = [consumed EXCEPT ![c] = arrived[c]]
  /\ UNCHANGED <<openSet, sock, clientVars>>

\* Mutant: the connection is shut down but its descriptor is not closed.
RecvEOFLeaksDescriptor(c) ==
  /\ ~HasData(c)
  /\ client[c] = "closed"
  /\ openSet' = openSet \ {fd}
  /\ UNCHANGED <<sock, pending, handed, consumed, clientVars>>

\* Mutant: the descriptor stays in openSet.
RecvEOFKeepsBit(c) ==
  /\ ~HasData(c)
  /\ client[c] = "closed"
  /\ sock' = [sock EXCEPT ![c] = None]
  /\ UNCHANGED <<openSet, pending, handed, consumed, clientVars>>

\* recvfrom returns 0: the client has closed and everything has been read.
RecvEOF(c) ==
  /\ ~HasData(c)
  /\ client[c] = "closed"
  /\ sock' = [sock EXCEPT ![c] = None]
  /\ openSet' = openSet \ {fd}
  /\ UNCHANGED <<pending, handed, consumed, clientVars>>

\* recvfrom fails: what had arrived is lost, and the connection stays open
\* until the next recvfrom, which returns 0.
RecvError(c) ==
  /\ client[c] = "reset"
  /\ client' = [client EXCEPT ![c] = "closed"]
  /\ consumed' = [consumed EXCEPT ![c] = arrived[c]]
  /\ UNCHANGED <<openSet, sock, pending, handed, arrived, got>>

\* recvfrom fails without further effect after a signal, or on a descriptor that
\* is not open, to which a bit openSet happened to start with can lead.
Recv ==
  /\ pc = "recv"
  /\ \/ \E c \in Owner(fd) : RecvData(c) \/ RecvEOF(c) \/ RecvError(c)
     \/ /\ Interrupts \/ ~Blocked
        /\ \A c \in Owner(fd) : ~HasEvent(c)
        /\ UNCHANGED <<openSet, sock, pending, handed, consumed, clientVars>>
  /\ Continue
  /\ UNCHANGED <<sysReady, readSet, maxFD, remoteAddr, backlog>>

ProcessStep == AwaitReady \/ Listen \/ SelectFails \/ Select \/ Scan \/ Accept \/ Recv

-----------------------------------------------------------------------------
(***************************************************************************)
(* run(): the application answers some request it was given, on whatever   *)
(* connection has the request's descriptor by then.                        *)
(***************************************************************************)
Connected(d) == {c \in Owner(d) : client[c] = "connected"}

\* A connection whose client has gone may raise SIGPIPE, which nobody handles:
\* it depends on whether the client's reset has reached the device.
Broken(d) == \E c \in Owner(d) : client[c] \in {"closed", "reset"}

Run(netReq) ==
  /\ pc # "exit"
  /\ pending' = pending \ {netReq}
  /\ \/ /\ got' = [c \in Clients |->
                     IF c \in Connected(netReq.socketID) THEN got[c] \cup {netReq}
                     ELSE got[c]]
        /\ UNCHANGED pc
     \/ /\ Broken(netReq.socketID)
        /\ pc' = "exit"
        /\ UNCHANGED got
  /\ UNCHANGED <<sysReady, openSet, readSet, maxFD, fd, remoteAddr, client, arrived,
                 backlog, sock, consumed, handed>>

(***************************************************************************)
(* The clients, as long as the process is there to talk to.                *)
(***************************************************************************)
Connect(c) ==
  /\ client[c] = "new"
  /\ Listening
  /\ pc # "exit"
  /\ client' = [client EXCEPT ![c] = "connected"]
  /\ backlog' = Append(backlog, c)
  /\ UNCHANGED <<deviceVars, arrived, got, sock, consumed, pending, handed>>

Arrive(c) ==
  /\ client[c] = "connected"
  /\ pc # "exit"
  /\ arrived[c] < Segments
  /\ arrived' = [arrived EXCEPT ![c] = @ + 1]
  /\ UNCHANGED <<deviceVars, client, got, backlog, sock, consumed, pending, handed>>

\* After its recv returns, or when it gives up, a client closes; a client that
\* dies may instead reset the connection.
Close(c) ==
  /\ client[c] = "connected"
  /\ pc # "exit"
  /\ \/ got[c] # {} /\ client' = [client EXCEPT ![c] = "closed"]
     \/ GivingUp    /\ client' \in {[client EXCEPT ![c] = s] : s \in {"closed", "reset"}}
  /\ UNCHANGED <<deviceVars, arrived, got, backlog, sock, consumed, pending, handed>>

Next == \/ Start
        \/ ProcessStep
        \/ \E netReq \in pending : Run(netReq)
        \/ \E c \in Clients : Connect(c) \/ Arrive(c) \/ Close(c)

Spec == Init /\ [][Next]_vars

(***************************************************************************)
(* The runtime starts its devices, and the device's thread is scheduled.   *)
(* No signal need come to a thread that is blocked.                        *)
(***************************************************************************)
Fairness == WF_vars(Start) /\ WF_vars(~Blocked /\ ProcessStep)

FairSpec == Spec /\ Fairness

-----------------------------------------------------------------------------
(***************************************************************************)
(* Properties.                                                             *)
(***************************************************************************)
NetRequests == [text : Clients, first : 1 .. Segments, last : 1 .. Segments,
                socketID : Descriptors, srcAddr : {Host[c] : c \in Clients}]

\* Descriptors, client states and requests are of their types, and what has
\* been read never exceeds what has arrived.
TypeOK ==
  /\ sysReady \in BOOLEAN
  /\ pc \in {"monitor", "waiting", "listen", "select", "scan", "accept", "recv",
             "exit"}
  /\ openSet \subseteq Descriptors \cup {listener}
  /\ readSet \subseteq Descriptors \cup {listener}
  /\ maxFD \in Descriptors \cup {listener}
  /\ fd \in 0 .. MaxFD + 1
  /\ remoteAddr \in {Host[c] : c \in Clients} \cup {None}
  /\ backlog \in Seq(Clients)
  /\ sock \in [Clients -> Descriptors \cup {None}]
  /\ client \in [Clients -> {"new", "connected", "closed", "reset"}]
  /\ arrived \in [Clients -> 0 .. Segments]
  /\ \A c \in Clients : consumed[c] \in 0 .. arrived[c]
  /\ pending \subseteq handed
  /\ handed \subseteq NetRequests
  /\ got \in [Clients -> SUBSET handed]

\* Every connection that process() has accepted and not closed is watched by
\* the next select: its bit is in openSet and within maxFD.
OpenIsWatched ==
  \A c \in Clients : sock[c] # None => sock[c] \in openSet /\ sock[c] <= maxFD

\* No step orphans a bit: whatever is accepted, closed and used again, but for
\* the listener's the bits of openSet are those of open connections and those it
\* happened to start with, on which select fails and the process exits.
OrphansNeverAdded == [][Orphans' \subseteq Orphans]_vars

\* A reply reaches only the client whose request it answers.
ReplyReachesSender == \A c \in Clients : \A r \in got[c] : r.text = c

\* Where the code says "new connection" (NetRequestDevice.cc:112) there is one, so
\* that accept neither blocks the thread that serves all clients nor is open to
\* a signal that ends the process.
AcceptHasConnection == pc = "accept" => backlog # << >>

\* The device begins to listen, in whatever order its thread and start() run.
EventuallyListens == <>Listening

\* What a client sends is eventually read, unless the process ends.  Signals are
\* excluded: after one, accept and recvfrom may block the thread for good.
EverythingIsRead ==
  \A c \in Clients : HasData(c) ~> (~HasData(c) \/ pc = "exit")

\* A client that has closed eventually gives its descriptor back, unless the
\* process ends.  Signals are excluded for the same reason.
DescriptorsAreReleased ==
  \A c \in Clients :
    client[c] \in {"closed", "reset"} ~>
      \/ pc = "exit"
      \/ sock[c] = None /\ \A i \in DOMAIN backlog : backlog[i] # c
=============================================================================
