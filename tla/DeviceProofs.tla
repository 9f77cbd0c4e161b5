---------------------------- MODULE DeviceProofs ----------------------------
(***************************************************************************)
(* Theorems about NetRequestDevice, for every number of clients and        *)
(* descriptors: the bookkeeping of process() about descriptors is right,   *)
(* and under which assumptions a reply reaches the client that asked.      *)
(***************************************************************************)
EXTENDS NetDevice, TLAPS

Addresses == {Host[c] : c \in Clients}

-----------------------------------------------------------------------------
(***************************************************************************)
(* The inductive invariant.                                                *)
(***************************************************************************)
\* No two connections have one descriptor.
OwnersDiffer ==
  \A c \in Clients : \A e \in Clients :
    sock[c] = sock[e] /\ sock[c] # None => c = e

\* Who has been accepted has connected, and nobody connects before process()
\* listens.
AcceptedConnected ==
  \A c \in Clients : /\ sock[c] # None => client[c] # "new"
                     /\ ~Listening => client[c] = "new"

\* Clients that wait to be accepted have connected, wait once, and have no
\* descriptor yet.
BacklogWaits ==
  /\ \A i \in 1 .. Len(backlog) : /\ sock[backlog[i]] = None
                                  /\ client[backlog[i]] # "new"
  /\ \A i \in 1 .. Len(backlog) : \A j \in 1 .. Len(backlog) :
       backlog[i] = backlog[j] => i = j

\* Once a connection is open, accept has stored an address.
AddressKnown == (\E c \in Clients : sock[c] # None) => remoteAddr \in Addresses

\* Where the loop variable of the scan is.
ScanPlace == /\ pc = "accept" => fd = listener
             /\ pc = "recv" => fd \in Descriptors

\* Of every client's segments a number is known to have been read.
ReadIsCounted == consumed \in [Clients -> 0 .. Segments]

DeviceInv == /\ TypeOK
             /\ OwnersDiffer
             /\ AcceptedConnected
             /\ OpenIsWatched
             /\ BacklogWaits
             /\ AddressKnown
             /\ ScanPlace
             /\ ReadIsCounted

USE DEF listener

\* A descriptor is a positive integer and so is not None.
LEMMA DescriptorNotNone ==
  /\ None \notin Descriptors
  /\ Descriptors \subseteq Int
  /\ MaxFD \in Nat \ {0}
  /\ Segments \in Nat \ {0}
  /\ StaleBits \subseteq Descriptors
BY NetDeviceAssumption DEF NetDeviceAssumption, Descriptors

\* The first states satisfy the invariant.
LEMMA DeviceInvInit == ASSUME Init PROVE DeviceInv
<1>1. TypeOK
  <2>1. 0 \in 0 .. MaxFD + 1 /\ 0 \in 0 .. Segments /\ 0 \in 0 .. 0
    BY DescriptorNotNone
  <2>2. openSet \subseteq Descriptors \cup {listener}
    BY DescriptorNotNone DEF Init
  <2>3. arrived \in [Clients -> 0 .. Segments] /\ \A c \in Clients : consumed[c] \in 0 .. arrived[c]
    BY <2>1 DEF Init
  <2>4. sock \in [Clients -> Descriptors \cup {None}]
    BY DEF Init
  <2>5. client \in [Clients -> {"new", "connected", "closed", "reset"}]
    BY DEF Init
  <2>6. got \in [Clients -> SUBSET handed]
    BY DEF Init
  <2>7. /\ sysReady \in BOOLEAN
        /\ pc \in {"monitor", "waiting", "listen", "select", "scan", "accept", "recv",
                   "exit"}
        /\ readSet \subseteq Descriptors \cup {listener}
        /\ maxFD \in Descriptors \cup {listener}
        /\ fd \in 0 .. MaxFD + 1
        /\ remoteAddr \in {Host[c] : c \in Clients} \cup {None}
        /\ pending \subseteq handed
        /\ handed \subseteq NetRequests
    BY <2>1 DEF Init
  <2>8. backlog \in Seq(Clients)
    BY DEF Init
  <2> QED
    BY <2>8, <2>2, <2>3, <2>4, <2>5, <2>6, <2>7 DEF TypeOK
<1>2. BacklogWaits
  BY DEF Init, BacklogWaits
<1>3. ScanPlace
  BY DEF Init, ScanPlace
<1>5. ReadIsCounted
  <2>1. 0 \in 0 .. Segments
    BY DescriptorNotNone
  <2> QED
    BY <2>1 DEF Init, ReadIsCounted
<1>4. OwnersDiffer /\ AcceptedConnected /\ OpenIsWatched /\ AddressKnown
  BY DEF Init, OwnersDiffer, AcceptedConnected, OpenIsWatched, AddressKnown, Listening
<1> QED
  BY <1>1, <1>2, <1>3, <1>4, <1>5 DEF DeviceInv

-----------------------------------------------------------------------------
(***************************************************************************)
(* Start-up.                                                               *)
(***************************************************************************)
\* start() and the device's wait for it touch no descriptor.
LEMMA StartKeeps ==
  ASSUME DeviceInv, Start \/ AwaitReady
  PROVE  DeviceInv'
<1>1. TypeOK'
  BY DEF DeviceInv, TypeOK, Start, AwaitReady, clientVars
<1> QED
  BY <1>1
  DEF DeviceInv, Start, AwaitReady, OwnersDiffer, AcceptedConnected, OpenIsWatched,
      BacklogWaits, AddressKnown, ScanPlace, ReadIsCounted, Listening, clientVars

\* listen() resets maxFD at a time when no connection is open.
LEMMA ListenKeeps ==
  ASSUME DeviceInv, Listen
  PROVE  DeviceInv'
<1>1. TypeOK'
  BY DEF DeviceInv, TypeOK, Listen, clientVars
<1>2. \A c \in Clients : sock[c] = None
  BY DEF DeviceInv, AcceptedConnected, Listen, Listening
<1> QED
  BY <1>1, <1>2
  DEF DeviceInv, Listen, OwnersDiffer, AcceptedConnected, OpenIsWatched,
      BacklogWaits, AddressKnown, ScanPlace, ReadIsCounted, Listening, clientVars

-----------------------------------------------------------------------------
(***************************************************************************)
(* The select loop.                                                        *)
(***************************************************************************)
\* select changes nothing but readSet, the loop variable and the place.
LEMMA SelectKeeps ==
  ASSUME DeviceInv, SelectFails \/ Select
  PROVE  DeviceInv'
<1>1. readSet' \subseteq readSet \cup openSet
  BY DEF SelectFails, Select, Selectable, Ready
<1>2. fd' \in 0 .. MaxFD + 1
  BY DescriptorNotNone DEF DeviceInv, TypeOK, SelectFails, Select
<1>3. TypeOK'
  BY <1>1, <1>2 DEF DeviceInv, TypeOK, SelectFails, Select, clientVars
<1> QED
  BY <1>3
  DEF DeviceInv, SelectFails, Select, OwnersDiffer, AcceptedConnected, OpenIsWatched,
      BacklogWaits, AddressKnown, ScanPlace, ReadIsCounted, Listening, clientVars

\* The scan moves to the next descriptor of readSet.
LEMMA ScanKeeps ==
  ASSUME DeviceInv, Scan
  PROVE  DeviceInv'
<1>1. fd' \in 0 .. MaxFD + 1 /\ ScanPlace'
  <2>1. CASE ToScan = {} /\ pc' = "select" /\ UNCHANGED fd
    BY <2>1 DEF DeviceInv, TypeOK, ScanPlace
  <2>2. CASE \E d \in ToScan : /\ fd' = d
                              /\ pc' = IF d = listener THEN "accept" ELSE "recv"
    <3>1. PICK d \in ToScan : /\ fd' = d
                             /\ pc' = IF d = listener THEN "accept" ELSE "recv"
      BY <2>2
    <3>2. d \in Descriptors \cup {listener}
      BY <3>1 DEF DeviceInv, TypeOK, ToScan
    <3>3. d \in 0 .. MaxFD + 1
      BY <3>2, DescriptorNotNone DEF Descriptors
    <3> QED
      BY <3>1, <3>2, <3>3 DEF ScanPlace
  <2> QED
    BY <2>1, <2>2 DEF Scan
<1>2. TypeOK'
  BY <1>1 DEF DeviceInv, TypeOK, Scan, clientVars
<1> QED
  BY <1>1, <1>2
  DEF DeviceInv, Scan, OwnersDiffer, AcceptedConnected, OpenIsWatched,
      BacklogWaits, AddressKnown, ReadIsCounted, Listening, clientVars

-----------------------------------------------------------------------------
(***************************************************************************)
(* Accepting a connection.                                                 *)
(***************************************************************************)
\* The client at the head of the backlog gets a descriptor of its own, which
\* is watched; the others go on waiting.
LEMMA AcceptKeeps ==
  ASSUME DeviceInv, Accept
  PROVE  DeviceInv'
<1>1. CASE pc' = "exit" /\ UNCHANGED <<openSet, maxFD, fd, remoteAddr, backlog, sock>>
  <2>1. TypeOK'
    BY <1>1 DEF DeviceInv, TypeOK, Accept, clientVars
  <2> QED
    BY <2>1, <1>1
    DEF DeviceInv, Accept, OwnersDiffer, AcceptedConnected, OpenIsWatched,
        BacklogWaits, AddressKnown, ScanPlace, ReadIsCounted, Listening, clientVars
<1>2. CASE /\ backlog # << >>
           /\ \E d \in Free : /\ sock' = [sock EXCEPT ![Head(backlog)] = d]
                              /\ openSet' = openSet \cup {d}
                              /\ maxFD' = IF d > maxFD THEN d ELSE maxFD
           /\ backlog' = Tail(backlog)
           /\ remoteAddr' = Host[Head(backlog)]
           /\ Continue
  <2>1. PICK d \in Free : /\ sock' = [sock EXCEPT ![Head(backlog)] = d]
                          /\ openSet' = openSet \cup {d}
                          /\ maxFD' = IF d > maxFD THEN d ELSE maxFD
    BY <1>2
  <2>2. d \in Descriptors /\ \A c \in Clients : sock[c] # d
    BY DEF Free, Owner
  <2>3. backlog \in Seq(Clients) /\ backlog # << >>
    BY <1>2 DEF DeviceInv, TypeOK
  <2>4. PICK new \in Clients : new = Head(backlog) /\ new = backlog[1]
    BY <2>3
  <2>5. /\ Tail(backlog) \in Seq(Clients)
        /\ Len(backlog) \in Nat
        /\ Len(Tail(backlog)) = Len(backlog) - 1
        /\ \A i \in 1 .. Len(Tail(backlog)) : /\ i + 1 \in 1 .. Len(backlog)
                                              /\ Tail(backlog)[i] = backlog[i + 1]
        /\ 1 \in 1 .. Len(backlog)
    BY <2>3
  <2>6. sock \in [Clients -> Descriptors \cup {None}]
    BY DEF DeviceInv, TypeOK
  <2>7. sock'[new] = d /\ \A c \in Clients \ {new} : sock'[c] = sock[c]
    BY <2>1, <2>4, <2>6
  <2>8. pc' = "scan" /\ fd' = 1 /\ UNCHANGED <<client, arrived, got>>
    BY <1>2 DEF Continue, DeviceInv, ScanPlace, Accept, clientVars
  <2>9. maxFD \in Int /\ maxFD \in Descriptors \cup {listener}
    BY DescriptorNotNone DEF DeviceInv, TypeOK
  <2>10. OwnersDiffer'
    BY <2>2, <2>7 DEF DeviceInv, OwnersDiffer
  <2>11. OpenIsWatched'
    <3> SUFFICES ASSUME NEW c \in Clients, sock'[c] # None
                 PROVE  sock'[c] \in openSet' /\ sock'[c] <= maxFD'
      BY DEF OpenIsWatched
    <3>1. CASE c = new
      BY <3>1, <2>1, <2>2, <2>7, <2>9, DescriptorNotNone
    <3>2. CASE c # new
      <4>1. sock'[c] = sock[c] /\ sock[c] \in openSet /\ sock[c] <= maxFD
        BY <3>2, <2>7 DEF DeviceInv, OpenIsWatched
      <4>2. sock[c] \in Int /\ d \in Int
        BY <4>1, <2>2, <2>6, DescriptorNotNone
      <4> QED
        BY <4>1, <4>2, <2>1, <2>9
    <3> QED
      BY <3>1, <3>2
  <2>12. BacklogWaits'
    <3>1. \A i \in 1 .. Len(backlog') : /\ i + 1 \in 1 .. Len(backlog)
                                        /\ backlog'[i] = backlog[i + 1]
                                        /\ i \in Int
      BY <1>2, <2>5
    <3>2. \A i \in 1 .. Len(backlog') : backlog'[i] \in Clients \ {new}
      <4> TAKE i \in 1 .. Len(backlog')
      <4>1. backlog'[i] \in Clients
        BY <3>1, <2>3
      <4>2. backlog[i + 1] # backlog[1]
        <5>1. backlog[i + 1] = backlog[1] => i + 1 = 1
          BY <3>1, <2>5 DEF DeviceInv, BacklogWaits
        <5>2. i \in 1 .. Len(backlog') => i + 1 # 1
          BY <3>1
        <5> QED
          BY <5>1, <5>2
      <4> QED
        BY <4>1, <4>2, <3>1, <2>4
    <3>3. \A i \in 1 .. Len(backlog') : sock'[backlog'[i]] = None /\ client'[backlog'[i]] # "new"
      BY <3>1, <3>2, <2>7, <2>8, SMTT(40) DEF DeviceInv, BacklogWaits
    <3>4. \A i \in 1 .. Len(backlog') : \A j \in 1 .. Len(backlog') :
            backlog'[i] = backlog'[j] => i = j
      <4> TAKE i \in 1 .. Len(backlog')
      <4> TAKE j \in 1 .. Len(backlog')
      <4>1. backlog'[i] = backlog'[j] => i + 1 = j + 1
        BY <3>1 DEF DeviceInv, BacklogWaits
      <4>2. i \in Int /\ j \in Int
        BY <3>1
      <4> QED
        BY <4>1, <4>2
    <3> QED
      BY <3>3, <3>4 DEF BacklogWaits
  <2>14. AddressKnown' /\ ScanPlace'
    BY <1>2, <2>4, <2>8 DEF AddressKnown, ScanPlace, Addresses
  <2>15. AcceptedConnected'
    <3>1. client[new] # "new"
      BY <2>4, <2>5 DEF DeviceInv, BacklogWaits
    <3> QED
      BY <3>1, <2>7, <2>8 DEF DeviceInv, AcceptedConnected, Listening
  <2>16. TypeOK'
    <3>1. sock' \in [Clients -> Descriptors \cup {None}]
      BY <2>1, <2>2, <2>6
    <3>2. openSet' \subseteq Descriptors \cup {listener} /\ maxFD' \in Descriptors \cup {listener}
      BY <2>1, <2>2, <2>9 DEF DeviceInv, TypeOK
    <3>3. fd' \in 0 .. MaxFD + 1
      BY <2>8, DescriptorNotNone
    <3>4. remoteAddr' \in {Host[c] : c \in Clients} /\ backlog' \in Seq(Clients)
      BY <1>2, <2>4, <2>5
    <3> QED
      BY <3>1, <3>2, <3>3, <3>4, <2>8 DEF DeviceInv, TypeOK, Accept, clientVars
  <2>17. ReadIsCounted'
    BY DEF DeviceInv, ReadIsCounted, Accept
  <2> QED
    BY <2>10, <2>11, <2>12, <2>14, <2>15, <2>16, <2>17 DEF DeviceInv
<1> QED
  BY <1>1, <1>2 DEF Accept

-----------------------------------------------------------------------------
(***************************************************************************)
(* Receiving.                                                              *)
(***************************************************************************)
\* What every outcome of recvfrom leaves alone, and where it leads.
LEMMA RecvFrame ==
  ASSUME DeviceInv, Recv
  PROVE  /\ fd \in Descriptors
         /\ pc' = "scan"
         /\ fd' \in 0 .. MaxFD + 1
         /\ UNCHANGED <<sysReady, readSet, maxFD, remoteAddr, backlog>>
<1>1. fd \in Descriptors
  BY DEF DeviceInv, ScanPlace, Recv
<1>2. fd \in Int /\ 1 <= fd /\ fd <= MaxFD
  BY <1>1, DescriptorNotNone DEF Descriptors
<1>3. pc' = "scan" /\ fd' = fd + 1
  BY DEF Recv, Continue
<1>4. fd' \in 0 .. MaxFD + 1
  BY <1>2, <1>3, DescriptorNotNone
<1> QED
  BY <1>1, <1>3, <1>4 DEF Recv

\* Who receives has begun to listen.
LEMMA RecvListens == ASSUME Recv PROVE Listening /\ Listening'
BY DEF Recv, Continue, Listening

\* A request keeps the descriptor it was read from and the address of some
\* client.
LEMMA RecvDataKeeps ==
  ASSUME DeviceInv, Recv, NEW c \in Owner(fd), RecvData(c)
  PROVE  DeviceInv'
<1>1. c \in Clients /\ sock[c] = fd /\ consumed[c] < arrived[c]
  BY DEF Owner, RecvData, HasData
<1>2. /\ fd \in Descriptors /\ pc' = "scan" /\ fd' \in 0 .. MaxFD + 1
      /\ UNCHANGED <<sysReady, readSet, maxFD, remoteAddr, backlog>>
  BY RecvFrame
<1>3. UNCHANGED <<openSet, sock, client, arrived, got>>
  BY DEF RecvData, clientVars
<1>4. PICK netReq : /\ netReq = [text |-> c, first |-> consumed[c] + 1, last |-> arrived[c],
                                 socketID |-> fd, srcAddr |-> remoteAddr]
                    /\ pending' = pending \cup {netReq}
                    /\ handed' = handed \cup {netReq}
  BY DEF RecvData
<1>5. consumed' = [consumed EXCEPT ![c] = arrived[c]]
  BY DEF RecvData
<1>6. arrived[c] \in 0 .. Segments /\ consumed[c] \in 0 .. arrived[c]
  BY <1>1 DEF DeviceInv, TypeOK
<1>7. arrived[c] \in 1 .. Segments /\ consumed[c] + 1 \in 1 .. Segments
  BY <1>1, <1>6, DescriptorNotNone
<1>8. remoteAddr \in Addresses
  BY <1>1, <1>2, DescriptorNotNone DEF DeviceInv, AddressKnown
<1>9. netReq \in NetRequests
  BY <1>1, <1>2, <1>4, <1>7, <1>8 DEF NetRequests, Addresses
<1>10. consumed' \in [Clients -> 0 .. Segments]
  BY <1>1, <1>5, <1>6 DEF DeviceInv, ReadIsCounted
<1>11. \A e \in Clients : consumed'[e] \in 0 .. arrived'[e]
  <2> TAKE e \in Clients
  <2>1. arrived[c] \in 0 .. arrived[c]
    BY <1>7
  <2>2. consumed[e] \in 0 .. arrived[e]
    BY DEF DeviceInv, TypeOK
  <2>3. (consumed'[e] = arrived[c] /\ e = c) \/ consumed'[e] = consumed[e]
    BY <1>5, <1>1 DEF DeviceInv, ReadIsCounted
  <2> QED
    BY <2>1, <2>2, <2>3, <1>3
<1>12. TypeOK'
  <2>1. /\ pending' \subseteq handed'
        /\ handed' \subseteq NetRequests
        /\ got' \in [Clients -> SUBSET handed']
    BY <1>3, <1>4, <1>9 DEF DeviceInv, TypeOK
  <2> QED
    BY <2>1, <1>2, <1>3, <1>11 DEF DeviceInv, TypeOK
<1> QED
  BY <1>2, <1>3, <1>10, <1>12
  DEF DeviceInv, RecvData, OwnersDiffer, AcceptedConnected, OpenIsWatched,
      BacklogWaits, AddressKnown, ScanPlace, ReadIsCounted, Listening

\* The descriptor that is closed was no other connection's.
LEMMA RecvEOFKeeps ==
  ASSUME DeviceInv, Recv, NEW c \in Owner(fd), RecvEOF(c)
  PROVE  DeviceInv'
<1>1. c \in Clients /\ sock[c] = fd
  BY DEF Owner
<1>2. /\ fd \in Descriptors /\ pc' = "scan" /\ fd' \in 0 .. MaxFD + 1
      /\ UNCHANGED <<sysReady, readSet, maxFD, remoteAddr, backlog>>
  BY RecvFrame
<1>3. UNCHANGED <<pending, handed, consumed, client, arrived, got>>
  BY DEF RecvEOF, clientVars
<1>4. sock' = [sock EXCEPT ![c] = None] /\ openSet' = openSet \ {fd}
  BY DEF RecvEOF
<1>5. sock \in [Clients -> Descriptors \cup {None}]
  BY DEF DeviceInv, TypeOK
<1>6. sock'[c] = None /\ \A e \in Clients \ {c} : sock'[e] = sock[e]
  BY <1>1, <1>4, <1>5
<1>7. TypeOK'
  <2>1. sock' \in [Clients -> Descriptors \cup {None}]
    BY <1>4, <1>5
  <2> QED
    BY <2>1, <1>2, <1>3, <1>4 DEF DeviceInv, TypeOK
<1>8. OwnersDiffer' /\ AcceptedConnected' /\ ScanPlace' /\ ReadIsCounted'
  BY <1>2, <1>3, <1>6, RecvListens
  DEF DeviceInv, OwnersDiffer, AcceptedConnected, ScanPlace, ReadIsCounted, Listening
<1>9. OpenIsWatched'
  <2>1. \A e \in Clients \ {c} : sock[e] # fd
    BY <1>1, <1>2, DescriptorNotNone DEF DeviceInv, OwnersDiffer
  <2> QED
    BY <2>1, <1>2, <1>4, <1>6 DEF DeviceInv, OpenIsWatched
<1>11. BacklogWaits'
  <2>1. \A i \in 1 .. Len(backlog) : backlog[i] \in Clients
    BY DEF DeviceInv, TypeOK
  <2> QED
    BY <2>1, <1>2, <1>3, <1>6 DEF DeviceInv, BacklogWaits
<1>12. AddressKnown'
  BY <1>2, <1>6 DEF DeviceInv, AddressKnown
<1> QED
  BY <1>7, <1>8, <1>9, <1>11, <1>12 DEF DeviceInv

\* An error takes what had arrived, and closes nothing.
LEMMA RecvErrorKeeps ==
  ASSUME DeviceInv, Recv, NEW c \in Owner(fd), RecvError(c)
  PROVE  DeviceInv'
<1>1. c \in Clients
  BY DEF Owner
<1>2. /\ fd \in Descriptors /\ pc' = "scan" /\ fd' \in 0 .. MaxFD + 1
      /\ UNCHANGED <<sysReady, readSet, maxFD, remoteAddr, backlog>>
  BY RecvFrame
<1>3. UNCHANGED <<openSet, sock, pending, handed, arrived, got>>
  BY DEF RecvError
<1>4. client' = [client EXCEPT ![c] = "closed"] /\ consumed' = [consumed EXCEPT ![c] = arrived[c]]
  BY DEF RecvError
<1>5. client' \in [Clients -> {"new", "connected", "closed", "reset"}]
  BY <1>1, <1>4 DEF DeviceInv, TypeOK
<1>6. arrived[c] \in 0 .. Segments
  BY <1>1 DEF DeviceInv, TypeOK
<1>7. consumed' \in [Clients -> 0 .. Segments]
  BY <1>1, <1>4, <1>6 DEF DeviceInv, ReadIsCounted
<1>8. \A e \in Clients : consumed'[e] \in 0 .. arrived'[e]
  <2> TAKE e \in Clients
  <2>1. arrived[c] \in 0 .. arrived[c]
    BY <1>6, DescriptorNotNone
  <2>2. consumed[e] \in 0 .. arrived[e]
    BY DEF DeviceInv, TypeOK
  <2>3. (consumed'[e] = arrived[c] /\ e = c) \/ consumed'[e] = consumed[e]
    BY <1>4, <1>1 DEF DeviceInv, ReadIsCounted
  <2> QED
    BY <2>1, <2>2, <2>3, <1>3
<1>9. TypeOK'
  BY <1>2, <1>3, <1>5, <1>8 DEF DeviceInv, TypeOK
<1>10. \A e \in Clients : client'[e] = "new" => client[e] = "new"
  BY <1>4 DEF DeviceInv, TypeOK
<1>11. AcceptedConnected' /\ BacklogWaits'
  <2>1. \A i \in 1 .. Len(backlog) : backlog[i] \in Clients
    BY DEF DeviceInv, TypeOK
  <2> QED
    BY <2>1, <1>2, <1>3, <1>10, RecvListens
    DEF DeviceInv, AcceptedConnected, BacklogWaits, Listening
<1> QED
  BY <1>2, <1>3, <1>7, <1>9, <1>11
  DEF DeviceInv, OwnersDiffer, OpenIsWatched, AddressKnown, ScanPlace,
      ReadIsCounted

\* A failing recvfrom has no effect.
LEMMA RecvNothingKeeps ==
  ASSUME DeviceInv, Recv,
         UNCHANGED <<openSet, sock, pending, handed, consumed, clientVars>>
  PROVE  DeviceInv'
<1>1. /\ fd \in Descriptors /\ pc' = "scan" /\ fd' \in 0 .. MaxFD + 1
      /\ UNCHANGED <<sysReady, readSet, maxFD, remoteAddr, backlog>>
  BY RecvFrame
<1>2. TypeOK'
  BY <1>1 DEF DeviceInv, TypeOK, clientVars
<1> QED
  BY <1>1, <1>2, RecvListens
  DEF DeviceInv, OwnersDiffer, AcceptedConnected, OpenIsWatched, BacklogWaits, AddressKnown, ScanPlace, ReadIsCounted, Listening, clientVars

\* recvfrom, whatever it returns.
LEMMA RecvKeeps ==
  ASSUME DeviceInv, Recv
  PROVE  DeviceInv'
<1>1. CASE \E c \in Owner(fd) : RecvData(c) \/ RecvEOF(c) \/ RecvError(c)
  BY <1>1, RecvDataKeeps, RecvEOFKeeps, RecvErrorKeeps
<1>2. CASE UNCHANGED <<openSet, sock, pending, handed, consumed, clientVars>>
  BY <1>2, RecvNothingKeeps
<1> QED
  BY <1>1, <1>2 DEF Recv

-----------------------------------------------------------------------------
(***************************************************************************)
(* Replies and clients.                                                    *)
(***************************************************************************)
\* A reply changes nothing about the device, unless it ends the process.
LEMMA RunKeeps ==
  ASSUME DeviceInv, NEW netReq \in pending, Run(netReq)
  PROVE  DeviceInv'
<1>1. netReq \in handed
  BY DEF DeviceInv, TypeOK
<1>2. UNCHANGED <<sysReady, openSet, readSet, maxFD, fd, remoteAddr, client, arrived,
                  backlog, sock, consumed, handed>>
  BY DEF Run
<1>3. got' \in [Clients -> SUBSET handed]
  BY <1>1 DEF DeviceInv, TypeOK, Run
<1>5. pc' = pc \/ (pc' = "exit" /\ Listening)
  <2>1. CASE UNCHANGED pc
    BY <2>1
  <2>2. CASE Broken(netReq.socketID) /\ pc' = "exit"
    <3>1. PICK c \in Clients : client[c] \in {"closed", "reset"}
      BY <2>2 DEF Broken, Owner
    <3> QED
      BY <2>2, <3>1 DEF DeviceInv, AcceptedConnected
  <2> QED
    BY <2>1, <2>2 DEF Run
<1>4. TypeOK'
  BY <1>2, <1>3, <1>5 DEF DeviceInv, TypeOK, Run
<1> QED
  BY <1>2, <1>4, <1>5
  DEF DeviceInv, OwnersDiffer, AcceptedConnected, OpenIsWatched, BacklogWaits, AddressKnown, ScanPlace, ReadIsCounted, Listening

\* A client connects once, and waits at the end of the backlog.
LEMMA ConnectKeeps ==
  ASSUME DeviceInv, NEW c \in Clients, Connect(c)
  PROVE  DeviceInv'
<1>1. UNCHANGED <<sysReady, pc, openSet, readSet, maxFD, fd, remoteAddr, arrived, got,
                  sock, consumed, pending, handed>>
  BY DEF Connect, deviceVars
<1>2. client' = [client EXCEPT ![c] = "connected"] /\ backlog' = Append(backlog, c)
  BY DEF Connect
<1>3. backlog \in Seq(Clients) /\ \A i \in 1 .. Len(backlog) : backlog[i] \in Clients
  BY DEF DeviceInv, TypeOK
<1>4. /\ backlog' \in Seq(Clients)
      /\ Len(backlog) \in Nat
      /\ Len(backlog') = Len(backlog) + 1
      /\ backlog'[Len(backlog) + 1] = c
      /\ \A i \in 1 .. Len(backlog) : backlog'[i] = backlog[i]
  BY <1>2, <1>3
<1>5. /\ client \in [Clients -> {"new", "connected", "closed", "reset"}]
      /\ client[c] = "new"
  BY DEF DeviceInv, TypeOK, Connect
<1>6. client' \in [Clients -> {"new", "connected", "closed", "reset"}]
  BY <1>2, <1>5
<1>7. TypeOK'
  BY <1>1, <1>4, <1>6 DEF DeviceInv, TypeOK
<1>8. \A e \in Clients : client'[e] = "new" => client[e] = "new"
  BY <1>2, <1>5
<1>9. AcceptedConnected'
  BY <1>1, <1>8 DEF DeviceInv, AcceptedConnected, Connect, Listening
<1>10. sock[c] = None /\ client'[c] # "new"
  BY <1>2, <1>5 DEF DeviceInv, AcceptedConnected
<1>11. \A i \in 1 .. Len(backlog) : backlog[i] # c
  BY <1>5 DEF DeviceInv, BacklogWaits
<1>12. \A i \in 1 .. Len(backlog') : i \in 1 .. Len(backlog) \/ i = Len(backlog) + 1
  BY <1>4
<1>13. BacklogWaits'
  <2>1. \A i \in 1 .. Len(backlog') : sock'[backlog'[i]] = None /\ client'[backlog'[i]] # "new"
    BY <1>1, <1>3, <1>4, <1>8, <1>10, <1>12 DEF DeviceInv, BacklogWaits
  <2>2. \A i \in 1 .. Len(backlog') : \A j \in 1 .. Len(backlog') :
          backlog'[i] = backlog'[j] => i = j
    BY <1>4, <1>11, <1>12 DEF DeviceInv, BacklogWaits
  <2> QED
    BY <2>1, <2>2 DEF BacklogWaits
<1> QED
  BY <1>1, <1>7, <1>9, <1>13
  DEF DeviceInv, OwnersDiffer, OpenIsWatched, AddressKnown, ScanPlace,
      ReadIsCounted

\* What arrives is not yet read.
LEMMA ArriveKeeps ==
  ASSUME DeviceInv, NEW c \in Clients, Arrive(c)
  PROVE  DeviceInv'
<1>1. UNCHANGED <<sysReady, pc, openSet, readSet, maxFD, fd, remoteAddr, client, got,
                  backlog, sock, consumed, pending, handed>>
  BY DEF Arrive, deviceVars
<1>2. arrived \in [Clients -> 0 .. Segments] /\ arrived[c] \in 0 .. Segments
  BY DEF DeviceInv, TypeOK
<1>3. arrived' = [arrived EXCEPT ![c] = arrived[c] + 1] /\ arrived[c] < Segments
  BY DEF Arrive
<1>4. arrived[c] + 1 \in 0 .. Segments
  BY <1>2, <1>3, DescriptorNotNone
<1>5. arrived' \in [Clients -> 0 .. Segments]
  BY <1>2, <1>3, <1>4
<1>6. \A e \in Clients : consumed'[e] \in 0 .. arrived'[e]
  <2> TAKE e \in Clients
  <2>1. consumed[e] \in 0 .. arrived[e] /\ arrived[e] \in 0 .. Segments
    BY <1>2 DEF DeviceInv, TypeOK
  <2>2. arrived'[e] = arrived[e] + 1 \/ arrived'[e] = arrived[e]
    BY <1>2, <1>3
  <2>3. consumed[e] \in 0 .. arrived[e] + 1
    BY <2>1
  <2> QED
    BY <2>1, <2>2, <2>3, <1>1
<1>7. TypeOK'
  BY <1>1, <1>5, <1>6 DEF DeviceInv, TypeOK
<1> QED
  BY <1>1, <1>7
  DEF DeviceInv, OwnersDiffer, AcceptedConnected, OpenIsWatched, BacklogWaits, AddressKnown, ScanPlace, ReadIsCounted, Listening

\* A client's end of the connection closes; the device's does not.
LEMMA CloseKeeps ==
  ASSUME DeviceInv, NEW c \in Clients, Close(c)
  PROVE  DeviceInv'
<1>1. UNCHANGED <<sysReady, pc, openSet, readSet, maxFD, fd, remoteAddr, arrived, got,
                  backlog, sock, consumed, pending, handed>>
  BY DEF Close, deviceVars
<1>2. \/ client' = [client EXCEPT ![c] = "closed"]
      \/ client' = [client EXCEPT ![c] = "reset"]
  BY DEF Close
<1>3. client \in [Clients -> {"new", "connected", "closed", "reset"}]
  BY DEF DeviceInv, TypeOK
<1>4. client' \in [Clients -> {"new", "connected", "closed", "reset"}]
  BY <1>2, <1>3
<1>5. client[c] = "connected" /\ \A e \in Clients : client'[e] = "new" <=> client[e] = "new"
  BY <1>2, <1>3 DEF Close
<1>6. TypeOK'
  BY <1>1, <1>4 DEF DeviceInv, TypeOK
<1>7. AcceptedConnected' /\ BacklogWaits'
  <2>1. \A i \in 1 .. Len(backlog) : backlog[i] \in Clients
    BY DEF DeviceInv, TypeOK
  <2> QED
    BY <2>1, <1>1, <1>5 DEF DeviceInv, AcceptedConnected, BacklogWaits, Listening
<1> QED
  BY <1>1, <1>6, <1>7
  DEF DeviceInv, OwnersDiffer, OpenIsWatched, AddressKnown, ScanPlace,
      ReadIsCounted

-----------------------------------------------------------------------------
\* Every step keeps the invariant.
LEMMA DeviceInvNext == ASSUME DeviceInv, [Next]_vars PROVE DeviceInv'
<1>1. CASE Start \/ AwaitReady
  BY <1>1, StartKeeps
<1>2. CASE Listen
  BY <1>2, ListenKeeps
<1>3. CASE SelectFails \/ Select
  BY <1>3, SelectKeeps
<1>4. CASE Scan
  BY <1>4, ScanKeeps
<1>5. CASE Accept
  BY <1>5, AcceptKeeps
<1>6. CASE Recv
  BY <1>6, RecvKeeps
<1>7. CASE \E netReq \in pending : Run(netReq)
  BY <1>7, RunKeeps
<1>8. CASE \E c \in Clients : Connect(c) \/ Arrive(c) \/ Close(c)
  BY <1>8, ConnectKeeps, ArriveKeeps, CloseKeeps
<1>9. CASE UNCHANGED vars
  BY <1>9
  DEF vars, deviceVars, clientVars, DeviceInv, TypeOK, OwnersDiffer, AcceptedConnected,
      OpenIsWatched, BacklogWaits, AddressKnown, ScanPlace, ReadIsCounted,
      Listening
<1> QED
  BY <1>1, <1>2, <1>3, <1>4, <1>5, <1>6, <1>7, <1>8, <1>9 DEF Next, ProcessStep

LEMMA DeviceInvHolds == Spec => []DeviceInv
BY DeviceInvInit, DeviceInvNext, PTL DEF Spec

(***************************************************************************)
(* The device's variables keep their types.                                *)
(***************************************************************************)
THEOREM DeviceTypeCorrect == Spec => []TypeOK
<1>1. DeviceInv => TypeOK
  BY DEF DeviceInv
<1> QED
  BY <1>1, DeviceInvHolds, PTL

(***************************************************************************)
(* process() watches every open connection: a descriptor that has been     *)
(* closed and used again has its bit set again, and maxFD never falls      *)
(* behind.                                                                 *)
(***************************************************************************)
THEOREM ConnectionsAreWatched == Spec => []OpenIsWatched
<1>1. DeviceInv => OpenIsWatched
  BY DEF DeviceInv
<1> QED
  BY <1>1, DeviceInvHolds, PTL

-----------------------------------------------------------------------------
(***************************************************************************)
(* Bits without a connection.                                              *)
(***************************************************************************)
\* accept sets the bit of the descriptor it gives away, to a client that had
\* none before.
LEMMA AcceptOrphansNone ==
  ASSUME DeviceInv, Accept
  PROVE  Orphans' \subseteq Orphans
<1>1. CASE UNCHANGED <<openSet, sock>>
  BY <1>1 DEF Orphans, Owner
<1>2. CASE /\ backlog # << >>
           /\ \E d \in Free : /\ sock' = [sock EXCEPT ![Head(backlog)] = d]
                              /\ openSet' = openSet \cup {d}
  <2>1. PICK d \in Free : /\ sock' = [sock EXCEPT ![Head(backlog)] = d]
                          /\ openSet' = openSet \cup {d}
    BY <1>2
  <2>2. PICK new \in Clients : new = Head(backlog) /\ sock[new] = None
    <3>1. 1 \in 1 .. Len(backlog) /\ Head(backlog) = backlog[1]
      BY <1>2 DEF DeviceInv, TypeOK
    <3>2. backlog[1] \in Clients
      BY <3>1 DEF DeviceInv, TypeOK
    <3> QED
      BY <3>1, <3>2 DEF DeviceInv, BacklogWaits
  <2>3. sock \in [Clients -> Descriptors \cup {None}]
    BY DEF DeviceInv, TypeOK
  <2>4. sock'[new] = d /\ \A c \in Clients \ {new} : sock'[c] = sock[c]
    BY <2>1, <2>2, <2>3
  <2> SUFFICES ASSUME NEW e \in Orphans'
               PROVE  e \in Orphans
    OBVIOUS
  <2>5. e \in openSet' /\ e # listener /\ \A c \in Clients : sock'[c] # e
    BY DEF Orphans, Owner
  <2>6. e \in openSet /\ e # d
    BY <2>1, <2>4, <2>5
  <2>7. e # None
    BY <2>5, <2>6, NetDeviceAssumption, DescriptorNotNone
    DEF DeviceInv, TypeOK, NetDeviceAssumption
  <2>8. \A c \in Clients : sock[c] # e
    BY <2>2, <2>4, <2>5, <2>7
  <2> QED
    BY <2>5, <2>6, <2>8 DEF Orphans, Owner
<1> QED
  BY <1>1, <1>2 DEF Accept

\* A connection is closed together with its bit.
LEMMA RecvOrphansNone ==
  ASSUME DeviceInv, Recv
  PROVE  Orphans' \subseteq Orphans
<1>1. CASE \E c \in Owner(fd) : RecvEOF(c)
  <2>1. PICK c \in Owner(fd) : RecvEOF(c)
    BY <1>1
  <2>2. c \in Clients /\ sock[c] = fd
    BY <2>1 DEF Owner
  <2>3. openSet' = openSet \ {fd} /\ \A e \in Clients \ {c} : sock'[e] = sock[e]
    BY <2>1, <2>2 DEF RecvEOF, DeviceInv, TypeOK
  <2> QED
    BY <2>2, <2>3 DEF Orphans, Owner
<1>2. CASE UNCHANGED <<openSet, sock>>
  BY <1>2 DEF Orphans, Owner
<1> QED
  BY <1>1, <1>2 DEF Recv, RecvData, RecvError

\* The bits of openSet change with the connections only.
LEMMA OrphansNext ==
  ASSUME DeviceInv, [Next]_vars
  PROVE  Orphans' \subseteq Orphans
<1>1. CASE Accept
  BY <1>1, AcceptOrphansNone
<1>2. CASE Recv
  BY <1>2, RecvOrphansNone
<1>3. CASE Listen
  BY <1>3 DEF Listen, Orphans, Owner
<1>4. CASE Start \/ AwaitReady \/ SelectFails \/ Select \/ Scan
  BY <1>4
  DEF Start, AwaitReady, SelectFails, Select, Scan, Orphans, Owner
<1>5. CASE \E netReq \in pending : Run(netReq)
  BY <1>5 DEF Run, Orphans, Owner
<1>6. CASE \E c \in Clients : Connect(c) \/ Arrive(c) \/ Close(c)
  BY <1>6 DEF Connect, Arrive, Close, deviceVars, Orphans, Owner
<1>7. CASE UNCHANGED vars
  BY <1>7 DEF vars, deviceVars, Orphans, Owner
<1> QED
  BY <1>1, <1>2, <1>3, <1>4, <1>5, <1>6, <1>7 DEF Next, ProcessStep

(***************************************************************************)
(* No step leaves a bit in openSet without a connection: the exit after    *)
(* select, whatever signals interrupt and clients do, takes a bit that was *)
(* there from the start.                                                   *)
(***************************************************************************)
THEOREM BitsFollowConnections == Spec => OrphansNeverAdded
<1>1. DeviceInv /\ [Next]_vars => [Orphans' \subseteq Orphans]_vars
  BY OrphansNext
<1> QED
  BY <1>1, DeviceInvHolds, PTL DEF Spec, OrphansNeverAdded

-----------------------------------------------------------------------------
(***************************************************************************)
(* Replies.                                                                *)
(***************************************************************************)
\* The requests that begin where their client's request begins.
Firsts == {r \in pending : r.first = 1}

\* Until its first request is answered a client stays connected, on the
\* descriptor that request names.
AwaitsReply ==
  /\ \A r \in Firsts : /\ client[r.text] = "connected"
                       /\ sock[r.text] = r.socketID
                       /\ got[r.text] = {}
                       /\ consumed[r.text] # 0
  /\ \A r \in Firsts : \A q \in Firsts : r.text = q.text => r = q
  /\ \A c \in Clients : /\ got[c] # {} => consumed[c] # 0
                        /\ client[c] # "reset"
                        /\ client[c] = "closed" => got[c] # {}
  /\ ReplyReachesSender

\* A client of which nothing was read before has no reply and no other request.
LEMMA RecvDataAwaits ==
  ASSUME DeviceInv, AwaitsReply, Recv,
         NEW c \in Owner(fd), RecvData(c)
  PROVE  AwaitsReply'
<1>1. c \in Clients /\ sock[c] = fd /\ consumed[c] < arrived[c]
  BY DEF Owner, RecvData, HasData
<1>2. consumed[c] \in Nat /\ arrived[c] \in Nat /\ arrived[c] # 0
  <2>1. arrived[c] \in 0 .. Segments /\ consumed[c] \in 0 .. arrived[c] /\ Segments \in Nat
    BY <1>1, DescriptorNotNone DEF DeviceInv, TypeOK
  <2> QED
    BY <1>1, <2>1
<1>3. PICK netReq : /\ netReq = [text |-> c, first |-> consumed[c] + 1, last |-> arrived[c],
                                 socketID |-> fd, srcAddr |-> remoteAddr]
                    /\ pending' = pending \cup {netReq}
  BY DEF RecvData
<1>4. /\ netReq.text = c /\ netReq.socketID = fd
      /\ netReq.first = 1 => consumed[c] = 0
  BY <1>2, <1>3
<1>5. UNCHANGED <<sock, client, got>>
  BY DEF RecvData, clientVars
<1>6. /\ consumed'[c] # 0
      /\ \A e \in Clients \ {c} : consumed'[e] = consumed[e]
  BY <1>1, <1>2 DEF RecvData, DeviceInv, ReadIsCounted
<1>7. consumed[c] = 0 => got[c] = {} /\ client[c] # "closed" /\ \A r \in Firsts : r.text # c
  BY <1>1 DEF AwaitsReply
<1>8. consumed[c] = 0 => client[c] = "connected"
  <2>1. client[c] \in {"new", "connected", "closed", "reset"} /\ client[c] # "new"
    BY <1>1, DescriptorNotNone, RecvFrame DEF DeviceInv, TypeOK, AcceptedConnected
  <2> QED
    BY <2>1, <1>1, <1>7 DEF AwaitsReply
<1>9. /\ \A r \in Firsts : r.text \in Clients
      /\ \A r \in Firsts' : r \in Firsts \/ (r = netReq /\ consumed[c] = 0)
  BY <1>3, <1>4 DEF DeviceInv, TypeOK, NetRequests, Firsts
<1>10. \A r \in Firsts' : /\ client'[r.text] = "connected"
                          /\ sock'[r.text] = r.socketID
                          /\ got'[r.text] = {}
                          /\ consumed'[r.text] # 0
  BY <1>1, <1>4, <1>5, <1>6, <1>7, <1>8, <1>9 DEF AwaitsReply
<1>11. \A r \in Firsts' : \A q \in Firsts' : r.text = q.text => r = q
  BY <1>4, <1>7, <1>9 DEF AwaitsReply
<1>12. \A e \in Clients : got'[e] # {} => consumed'[e] # 0
  BY <1>5, <1>6 DEF AwaitsReply
<1> QED
  BY <1>5, <1>10, <1>11, <1>12 DEF AwaitsReply, ReplyReachesSender

\* A connection at its end belongs to a client that has its reply.
LEMMA RecvEOFAwaits ==
  ASSUME DeviceInv, AwaitsReply, NEW c \in Owner(fd), RecvEOF(c)
  PROVE  AwaitsReply'
<1>1. c \in Clients /\ client[c] = "closed"
  BY DEF Owner, RecvEOF
<1>2. UNCHANGED <<pending, consumed, client, got>>
  BY DEF RecvEOF, clientVars
<1>3. \A e \in Clients \ {c} : sock'[e] = sock[e]
  BY <1>1 DEF RecvEOF, DeviceInv, TypeOK
<1>4. \A r \in Firsts : r.text \in Clients \ {c}
  BY <1>1 DEF AwaitsReply, DeviceInv, TypeOK, NetRequests, Firsts
<1>5. Firsts' = Firsts
  BY <1>2 DEF Firsts
<1> QED
  BY <1>2, <1>3, <1>4, <1>5 DEF AwaitsReply, ReplyReachesSender

\* The client accepted has sent nothing that was read.
LEMMA AcceptAwaits ==
  ASSUME DeviceInv, AwaitsReply, Accept
  PROVE  AwaitsReply'
<1>1. UNCHANGED <<pending, consumed, client, got>>
  BY DEF Accept, clientVars
<1>2. \A r \in Firsts : r.text \in Clients /\ r.socketID \in Descriptors
  BY DEF DeviceInv, TypeOK, NetRequests, Firsts
<1>4. Firsts' = Firsts
  BY <1>1 DEF Firsts
<1>3. \A r \in Firsts : sock'[r.text] = sock[r.text]
  <2>1. CASE UNCHANGED sock
    BY <2>1
  <2>2. CASE /\ backlog # << >>
             /\ \E d \in Free : sock' = [sock EXCEPT ![Head(backlog)] = d]
    <3>1. 1 \in 1 .. Len(backlog) /\ Head(backlog) = backlog[1]
      BY <2>2 DEF DeviceInv, TypeOK
    <3>2. sock[Head(backlog)] = None
      BY <3>1 DEF DeviceInv, BacklogWaits
    <3>3. \A r \in Firsts : r.text # Head(backlog)
      BY <1>2, <3>2, DescriptorNotNone DEF AwaitsReply
    <3> QED
      BY <2>2, <3>3, <1>2 DEF DeviceInv, TypeOK
  <2> QED
    BY <2>1, <2>2 DEF Accept
<1> QED
  BY <1>1, <1>3, <1>4 DEF AwaitsReply, ReplyReachesSender

\* The connection that has the request's descriptor is its sender's.
LEMMA RunAwaits ==
  ASSUME DeviceInv, AwaitsReply, NEW netReq \in Firsts, Run(netReq)
  PROVE  AwaitsReply'
<1>1. netReq.text \in Clients /\ netReq.socketID \in Descriptors
  BY DEF DeviceInv, TypeOK, NetRequests, Firsts
<1>2. Connected(netReq.socketID) = {netReq.text}
  BY <1>1, DescriptorNotNone
  DEF AwaitsReply, DeviceInv, OwnersDiffer, Connected, Owner
<1>3. UNCHANGED <<client, sock, consumed>> /\ Firsts' = Firsts \ {netReq}
  BY DEF Run, Firsts
<1>9. ~Broken(netReq.socketID)
  BY <1>1, DescriptorNotNone DEF AwaitsReply, DeviceInv, OwnersDiffer, Broken, Owner
<1>4. /\ got'[netReq.text] = got[netReq.text] \cup {netReq}
      /\ \A c \in Clients \ {netReq.text} : got'[c] = got[c]
  BY <1>1, <1>2, <1>9 DEF Run
<1>5. \A r \in Firsts' : r.text \in Clients \ {netReq.text}
  BY <1>3 DEF AwaitsReply, DeviceInv, TypeOK, NetRequests, Firsts
<1>6. \A r \in Firsts' : /\ client'[r.text] = "connected"
                          /\ sock'[r.text] = r.socketID
                          /\ got'[r.text] = {}
                          /\ consumed'[r.text] # 0
  BY <1>3, <1>4, <1>5 DEF AwaitsReply
<1>7. \A c \in Clients : /\ got'[c] # {} => consumed'[c] # 0
                         /\ client'[c] # "reset"
                         /\ client'[c] = "closed" => got'[c] # {}
  <2> TAKE c \in Clients
  <2>1. CASE c = netReq.text
    BY <2>1, <1>3, <1>4 DEF AwaitsReply
  <2>2. CASE c # netReq.text
    BY <2>2, <1>3, <1>4 DEF AwaitsReply
  <2> QED
    BY <2>1, <2>2
<1>8. ReplyReachesSender'
  BY <1>4 DEF AwaitsReply, ReplyReachesSender
<1> QED
  BY <1>3, <1>6, <1>7, <1>8 DEF AwaitsReply

\* A client that does not give up closes after its reply.
LEMMA ClientAwaits ==
  ASSUME ~GivingUp, DeviceInv, AwaitsReply,
         NEW c \in Clients, Connect(c) \/ Arrive(c) \/ Close(c)
  PROVE  AwaitsReply'
<1>1. UNCHANGED <<pending, sock, consumed, got>>
  BY DEF Connect, Arrive, Close
<1>2. \/ client' = client
      \/ client' = [client EXCEPT ![c] = "connected"]
      \/ client' = [client EXCEPT ![c] = "closed"] /\ got[c] # {}
  BY DEF Connect, Arrive, Close
<1>3. client \in [Clients -> {"new", "connected", "closed", "reset"}]
  BY DEF DeviceInv, TypeOK
<1>6. Firsts' = Firsts
  BY <1>1 DEF Firsts
<1>4. \A r \in Firsts : client'[r.text] = "connected"
  <2> TAKE r \in Firsts
  <2>1. r.text \in Clients /\ client[r.text] = "connected" /\ got[r.text] = {}
    BY DEF AwaitsReply, DeviceInv, TypeOK, NetRequests, Firsts
  <2> QED
    BY <2>1, <1>2, <1>3
<1>5. \A e \in Clients : /\ client'[e] # "reset"
                         /\ client'[e] = "closed" => got[e] # {}
  BY <1>2, <1>3 DEF AwaitsReply
<1> QED
  BY <1>1, <1>4, <1>5, <1>6 DEF AwaitsReply, ReplyReachesSender

\* Every step keeps a client and its first request together, if only first
\* requests are answered.
LEMMA AwaitsReplyNext ==
  ASSUME ~GivingUp, DeviceInv, AwaitsReply, [Next]_vars,
         \A netReq \in pending : Run(netReq) => netReq \in Firsts
  PROVE  AwaitsReply'
<1>1. CASE Start \/ AwaitReady \/ Listen \/ SelectFails \/ Select \/ Scan
  BY <1>1
  DEF AwaitsReply, Firsts, ReplyReachesSender, Start, AwaitReady, Listen, SelectFails, Select, Scan,
      clientVars
<1>2. CASE Accept
  BY <1>2, AcceptAwaits
<1>3. CASE Recv
  <2>1. CASE \E c \in Owner(fd) : RecvData(c) \/ RecvEOF(c) \/ RecvError(c)
    <3>1. PICK c \in Owner(fd) : RecvData(c) \/ RecvEOF(c) \/ RecvError(c)
      BY <2>1
    <3>2. ~RecvError(c)
      BY DEF RecvError, AwaitsReply, Owner
    <3> QED
      BY <1>3, <3>1, <3>2, RecvDataAwaits, RecvEOFAwaits
  <2>2. CASE UNCHANGED <<openSet, sock, pending, handed, consumed, clientVars>>
    BY <2>2 DEF AwaitsReply, Firsts, ReplyReachesSender, clientVars
  <2> QED
    BY <1>3, <2>1, <2>2 DEF Recv
<1>4. CASE \E netReq \in pending : Run(netReq)
  BY <1>4, RunAwaits
<1>5. CASE \E c \in Clients : Connect(c) \/ Arrive(c) \/ Close(c)
  BY <1>5, ClientAwaits
<1>6. CASE UNCHANGED vars
  BY <1>6 DEF AwaitsReply, Firsts, ReplyReachesSender, vars, clientVars
<1> QED
  BY <1>1, <1>2, <1>3, <1>4, <1>5, <1>6 DEF Next, ProcessStep

(***************************************************************************)
(* A reply reaches the client whose request it answers, if clients wait    *)
(* for their reply and every request is read in one piece: the descriptor  *)
(* is not closed, and so not given to anybody else, before the reply.      *)
(***************************************************************************)
THEOREM RepliesReachSenders ==
  ASSUME ~GivingUp, Segments = 1
  PROVE  Spec => []ReplyReachesSender
<1>1. Init => AwaitsReply
  BY DEF Init, AwaitsReply, Firsts, ReplyReachesSender
<1>2. DeviceInv /\ AwaitsReply /\ [Next]_vars => AwaitsReply'
  <2> SUFFICES ASSUME DeviceInv, AwaitsReply, [Next]_vars PROVE AwaitsReply'
    OBVIOUS
  <2>1. pending = Firsts
    BY DEF DeviceInv, TypeOK, NetRequests, Firsts
  <2> QED
    BY <2>1, AwaitsReplyNext
<1>3. AwaitsReply => ReplyReachesSender
  BY DEF AwaitsReply
<1> QED
  BY <1>1, <1>2, <1>3, DeviceInvHolds, PTL DEF Spec
=============================================================================
