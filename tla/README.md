# A TLA+ model of the carbon replicated echo service

carbon is an application of the Lagniappe runtime. A network device accepts
TCP clients; every request a client sends is checked by a primary queue server,
which logs it and forwards authenticated copies to three replica queue
servers; each queue server passes what it logged to an echo server, and the
echo server answers the client when all four have done so. The logs are
bounded. A queue server whose log is full discards requests and sends a wait
message; when the echo server has all wait messages, and every message it
counted is complete, it empties its count and signals the queue servers to
empty their logs: a *round* ends.

The application proper is `src/carbon` (about 1,500 lines of C++ and an XML
description) and a Python client. The rest of the tree is a vendored copy of
Crypto++.

## Inventory

| component | state | operations | interacts with | module |
|---|---|---|---|---|
| primary queue server, `carbon_op_queue_primary.cc` | `requestQueue`, `lockOnQueue`, key tables | `handleRequest`, `handleSignal` | receives from the device and the echo server; sends to replicas and echo server | `QueueServer` |
| replicas, `carbon_op_queue_repl_{1,2,3}.cc` | the same without client keys | `handleRequest`, `handleSignal` | receive from the primary and the echo server; send to the echo server | `QueueServer` |
| echo server, `carbon_op_echoserver.cc` | `waitReqCount` | `handleRequest`, `handleWait` | receives from all queue servers; replies through the device; signals the queue servers | `EchoServer` |
| `RequestCount.hh` | `messageHash` | check, insert, received, processed, reset | a mutex per call, none in `resetHash` | `RequestCount` |
| `RequestLog.hh` | log entries, `Lock`, key tables | push/pop (of the queue), set/state/reset | owned by one queue server | `QueueServer` |
| `NetRequest.hh`, `HMACSignVer.hh` | the request object | constructors, stamping, digests | travels through all operators | `NetRequest` |
| `NetRequest::separateSig`, `RSASignVer.hh`, the primary's check of a client | the bytes of the buffers, the temporary signature files | cut text and signature apart, write the file, verify, delete the buffer after the reply | the device makes the objects; the primary reads them | `Intake` |
| `ClientKeyHash` and the keys of the replicas (`RequestLog.hh`, `src/carbon/keys`) | tables read at start-up | look up | the checks of the queue servers | `Intake`, `QueueServer` |
| `NetRequestDevice.cc` | `openSet`, `maxFD`, `sysReady`, sockets | `process` (thread), `run`, `start` | TCP clients; the primary; the echo server's replies | `NetDevice` |
| `client/EchoClient.py` | a socket | connect, send, receive, close | the device | `NetDevice`, `Intake` |
| Lagniappe (external) | pending continuations, workers | dispatch, OUT port calls | runs all handlers | `Lagniappe` |

What is hard here:

* **Ordering between operators.** Every operator runs concurrently with the
  others, and a copy of a request, a wait message and a signal may each be
  anywhere between two of them. The queue servers learn of the end of a round
  at different times, so one may log a request of the next round that another
  discards.
* **Handlers that overlap.** `carbon.xml` gives each operator a flow signature
  (`getSourceID`), by which the runtime can distribute requests over several
  workers, and the shared objects carry mutexes; but the mutexes protect single
  calls, and the handlers are sequences of them.
* **Two threads and the kernel in the device.** Descriptors are closed and
  reused while replies that name them are under way.
* **Memory that is used again.** A request is read into a buffer nobody clears,
  measured with `strlen`, kept by pointer in the log, and deleted by the device
  after the reply; the file its signature is checked from is named at random and
  never removed.
* **No retry, no timeout.** Everything depends on each message being counted
  once, under the right key, in the right round.
* Nothing is persisted and the application does not recover from crashes, so
  crash and restart are not part of the model.

What makes each component correct: a queue server logs only authentic requests,
within its capacity, and its lock tells whether a round is being ended for it;
the count names a queue server only for what it logged; the echo server replies
once, for requests all have logged, and ends a round only when nothing of it is
under way; the device watches exactly the open connections, reads all that is
sent, gives descriptors back and replies to the client that asked, with the text
that was verified. `PROJECT.json`
lists the hazards line by line with the properties aimed at them.

## Modules

| module | what it is |
|---|---|
| `Common` | the operators of `carbon.xml`; queue servers carry the ids of the code, 0 for the primary |
| `NetRequest` | the request object, its two constructors in use, and the digests |
| `Lagniappe` | the external runtime: `inbox[op]` (continuations, first in first out) and `frame[op][w]` (the handler a worker is in, as the name of its next step and its argument) |
| `RequestCount` | the operations of `RequestCount.hh` as operators on the map |
| `QueueServer` | all queue servers: one action per step of `handleRequest` and `handleSignal` |
| `EchoServer` | one action per step of `handleRequest` and `handleWait` |
| `Carbon` | the composition, the arrival of requests, fairness, and the properties |
| `ReplicatedEcho` | the abstract specification: requests are logged by each server, then answered once |
| `NetDevice` | the device with its clients and the descriptors of the kernel |
| `Intake` | `NetDevice` with the bytes: what `recvfrom` leaves in a buffer, how `separateSig` cuts it, what the primary verifies, and what `run` sends and deletes |
| `MCCarbon`, `MCNetDevice`, `MCIntake` | values of the constants for TLC |
| `Rounds` | the invariant of the service in four layers: order, wait messages, count, replies |
| `CarbonProofs` | types; where logged requests come from; the size of the logs and the ids |
| `OrderProofs`, `WaitProofs`, `CountProofs`, `ReplyProofs` | the layers of `Rounds`, one module each, and the theorems that follow; `OrderProofs` begins with the steps of `Carbon` as seen with one worker per operator |
| `CalmProofs` | what the logs hold when clients hold back |
| `DeviceProofs`, `IntakeProofs` | theorems about `NetDevice` and `Intake` |

`Carbon` composes `QueueServer`, `EchoServer` and `Lagniappe`. `Intake` composes
the device with the request objects and the primary's check, and takes of the
service behind them only what `Carbon` establishes: a request is answered at
most once, and only if the primary accepted it.

A handler is cut into steps where another thread can see or change something:
at every critical section, every access to the queue, every send.

| code | actions |
|---|---|
| primary `handleRequest` | `Dispatch`, `VerifySignature` (58-77), `Forward` once per replica (79-99), `CheckSize` (101), `CheckLock` (104), `SendWait` (109), `SetLock` (110), `Push` (118), `SendToEcho` (122) |
| replica `handleRequest` | `Dispatch`, `VerifyMac` (33-40), then as the primary from `CheckSize` on |
| `handleSignal` | `Dispatch`, `PopAll`, `ResetLock` |
| echo `handleRequest` | `Dispatch`, `CheckRequest`, `InsertRequest`, `CheckReceived`, `Reply` |
| echo `handleWait` | `Dispatch`, `CheckWait`, `InsertWait`, `CheckProcessed`, `ResetHash`, `SendSignal` once per queue server |
| `process` | `AwaitReady`, `Listen`, `Select`, `SelectFails`, `Scan`, `Accept`, `Recv` (with `RecvData`, `RecvEOF`, `RecvError`); `Blocked` says when one of its calls waits, which a signal ends |
| `start`, `run` | `Start`, `Run` |
| `process` with the constructor of `NetRequest` and `separateSig` | `Receive` (`Construct`, `separateSig`) |
| the primary's check: `populateSigFile` (61-69), `verifySignature` (70-73) | `PopulateSigFile`, `VerifyClient` |
| `run` with the deletion of the request | `Answer` (`DeviceObject`, `ReplicaObject`) |

Abstractions. A text is a number, the position of its request in the order of
arrival; `numBytes` is the same number when it is the text's length and
`Uninit` when no statement assigned it. The verdict of the signature check is
the constant `Verified`, the key files are `PrimaryKeys` and `ReplicaKeys`, and
digests of distinct texts or keys are distinct. In `Intake` the bytes are there:
the k-th byte client c sends is the pair `<<c, k>>`, so two clients never send
the same byte and every mix-up of buffers is visible; a signature is right if it
is, byte for byte, the one made of that very text with the key in the file. A
buffer keeps what it held until it is overwritten, a deleted one may be the
next to be allocated, and what memory holds that was never used is any of the
contents `Fresh`, of which only this is assumed: a buffer ends with a zero, for
otherwise `strlen` would read on behind it. The application may answer with the
object the device made or with a copy for a replica: the latter has the text of
the former when it was accepted, its `numBytes` is unassigned (`None`), and the
device's object is then never deleted. The map of `RequestCount`
keeps the entries that `operator[]` inserts with a null pointer. The key of the
wait messages, -1 converted to `uint32_t`, is a key no 16-bit message id can
equal. `logged` and `replies` (in `Carbon`), `handed` and `got` (in
`NetDevice`) are history. `resetHash` and the accesses to `requestQueue` take no
mutex; the model makes each of them one atomic step, so with several workers it
leaves out what a torn map or queue may do, and every statement about several
workers assumes those accesses to be atomic.

The ways the device ends are modelled: `select` fails on a bit without a
descriptor, `accept` fails (without a free descriptor, interrupted, or for
reasons of the kernel's), `setsockopt` fails, and `run` sends to a client that has
closed or reset its connection, which may raise SIGPIPE. With `Interrupts` a signal can come
whenever the thread blocks: `select` then returns with its sets as they were passed, and the
scan takes every bit of `openSet` for ready.

The runtime is external. Assumed of it: a call of an OUT port enqueues for the
operator at the end of the connector; an operator's continuations start in the
order they were enqueued, whatever port they came to; a handler runs to completion
on its worker. With `Workers` a single element the handlers of an operator
are serialised (`Serial`), with more they overlap in every way.

## Runs

`Carbon` (module `MCCarbon`):

| run | instance | shows |
|---|---|---|
| `serial_rounds` | 2 queue servers, logs of 2, 7 requests, 1 worker, `FairSpec` | `QuorumIntegrity`, `LogBounded`, `IdsNumberPrimaryLog`, `ResetLosesNoCopy`, `WaitOutstanding`, `AtMostOneReply`, `ClearedOnlyWhenAnswered`, the refinement `ImplementsReplicatedEcho`, and `FullyLoggedAnswered`: what all have logged is answered, at whatever pace requests come |
| `calm_liveness` | 3, 1, 3, `CalmSpec` | `EveryLoggedAnswered`, `WaitEndsInEmptyLog`, `LogsAgreeWhenQuiet` if no request arrives while a round is being ended |
| `authentication` | 3, 1, 3; a request that does not verify, a replica with another key | `TypeOK`, `AuthenticLogs`, `Provenance` |
| `concurrent` | 2, 1, 2, 2 workers per operator | `CountedWasLogged` however handlers overlap |
| `waits_received` | 2, 1, 5, `FairSpec` | refutes `WaitsEndTheRound` |
| `reply_length` | 2, 1, 1 | refutes `ReplyHasItsLength` |
| `concurrent_quorum` | 2, 1, 2, 2 workers | refutes `QuorumIntegrity` when handlers overlap |

`NetDevice` (module `MCNetDevice`) and `Intake` (module `MCIntake`):

| run | instance | shows |
|---|---|---|
| `device_liveness` | 2 clients who may give up or die, requests in up to 2 segments, an `openSet` that may start with a bit, no signals | `OrphansNeverAdded`, `EventuallyListens`; and `EverythingIsRead`, `DescriptorsAreReleased`, which hold only if no signal interrupts the thread |
| `intake` | 3 clients who wait for their replies, 2 descriptors, signals that interrupt the thread, a stale bit; fresh memory with and without zeros, replies with the device's object or a replica's copy; texts of different lengths, one request in two pieces, one client the primary has no key for, an address with two lines in the key file, file names that come back | `TypeOK`, `OpenIsWatched`, `ReplyReachesSender`, `AnswerWasVerified`, `TerminatedAccepted` |
| `accept_blocks` | 2 clients, 2 descriptors, signals | refutes `AcceptHasConnection` |
| `reply_to_other` | 2 clients who may give up, 1 descriptor | refutes `ReplyReachesSender` |
| `stale_bytes` | 2 clients with texts of different lengths | refutes `LegitimateAccepted` |

Bounds. The behaviour depends on how the number of requests compares with the
capacity, and on which queue servers are ahead, not on the values 4 and 5 of the
source. With logs of one entry a round begins with the second request; five
requests are the fewest with which the rounds of two queue servers come
permanently out of step, so `waits_received` has five.
Logs of two entries make several messages counted at once, and with them seven
requests are the fewest with which ending a round too early would empty a log of
a request that has not been answered. Three queue servers
let two replicas differ from each other and from the primary; that is wanted where
logs and keys are compared, in `calm_liveness` and `authentication`. Two workers
and two requests are enough for two requests to share an id. `LogBounded` speaks of
any number of workers; with two, the fewest requests that overfill a log are
already too many for TLC, so its run has one and the theorem covers the
others. In the device,
one client more than there are descriptors makes `accept` fail, and two clients
are enough for a descriptor to be used again. Of the bytes only the lengths
matter: one text is longer than another, so that a short request in the memory of
a long one has something behind it, and a piece of a request is either shorter
or longer than a signature. The texts of 1 and 7 bytes, with a signature of 2 and
a buffer of 11, are the smallest lengths with which the zero that `separateSig`
itself writes into a mixed string can fall right behind a whole short request.
Four buffers are one for every object `intake` makes
at most, and any of them may be used again as soon as it is deleted. `MCFresh` is
memory of zeros, and memory of which every other buffer has a zero only at its end.
Once the
bounded number of requests has been sent the system rightly comes to rest, so the
runs do not check for deadlock; what must not block is stated by the liveness properties.

Fairness. `Carbon`: weak fairness of each operator's steps, per worker. Workers are
threads of the runtime, no step of a handler waits for another thread longer
than a critical section takes, and a worker that has a step to take keeps it
enabled until it takes it. Arrivals are not fair: clients may stop.
`CalmSpec` restricts arrivals, not the scheduling: no request arrives from the
moment a queue server finds its log full until the last one has reset its lock,
nor while the primary already has more to decide on than its log can take.
`NetDevice`: weak fairness of `Start`, which the runtime calls, and of the
device's thread unless it is blocked in a call; a signal need never come. Liveness of reading and of giving descriptors back is stated
without signals: after one, `accept` or `recvfrom` may be called on a descriptor
that is not ready and block the only reading thread, which no fairness mends
(`accept_blocks`). `EventuallyListens` concerns the time before the first
`select`. `Intake` is checked for safety only. Nothing forces
the application to answer or a client to act.

## What the runs found

* `waits_received`. `carbon_op_echoserver.cc:64` announces a test whether all
  wait messages have been received; line 65 asks for every counted message to be
  complete. The signals of a round reach the queue servers one after the other.
  A request that arrives in between is logged by the queue servers that have
  emptied their logs and discarded by the others, its count stays incomplete,
  and when the wait messages of the next round are all there the round is not
  ended. All locks are set then, no wait message is sent again, and every
  later request is discarded. `FullyLoggedAnswered` still holds, and
  `calm_liveness` shows that the protocol works when no request comes while a round is
  being ended.
* `reply_length`. The constructor that copies a request for a replica
  (`NetRequest.hh:87-115`) does not assign `numBytes`, and the device sends
  that many bytes when a replica's copy completes the count.
* `concurrent_quorum`. The primary reads the id off the queue
  (`carbon_op_queue_primary.cc:76`) and pushes at line 118. With two workers two
  requests get the same id, their copies are counted as one message and a
  client is answered for a request not all have logged.
* `accept_blocks`. `NetRequestDevice.cc:112` says "new connection" where the
  listener's bit is set. After EINTR from `select` (lines 103-108) the thread
  goes on with `readSet` as it was passed, a copy of `openSet` in which the
  listener's bit is always set, and calls `accept` with nobody waiting. It blocks
  there, and with it the reading of every client, until someone connects; a
  second signal makes `accept` fail, which ends the process (115-118).
* `reply_to_other`. The device replies on a descriptor number, which may have
  been closed and given to another client since. It needs a client that does
  not wait for its reply; if clients wait and a request is read in one piece,
  replies go where they should (`RepliesReachSenders`).
* `stale_bytes`. `carbon_op_queue_primary.cc:61` announces a check that the
  client is legitimate. `separateSig` takes the length of what was read with
  `strlen`, and `recvfrom` writes no terminating zero: in memory that held a
  longer request, text and signature are cut apart in the wrong place and a
  legitimate client is turned away. `TerminatedAccepted` shows that this is the
  only way for a whole request with its sender's address to be rejected: with a
  zero behind it that was there before `separateSig` cut the string, it is
  accepted.

Two remarks that are not findings. A request carries the address `accept` stored
last, so one that is read after another client was accepted is checked with that
client's key, and rejected unless they share it; `TerminatedAccepted` excludes
it. And when two handlers of the primary overlap and draw one file name, one of
them verifies the other's signature: `TerminatedAccepted` fails with two
`Handlers`. `AnswerWasVerified` is proved for any number of them: a text is never
accepted with another's signature.

## Proofs

`tlapm` checks all proofs; they hold for every number of queue servers,
requests and keys, every capacity of the logs and, where not said otherwise, any
number of workers. The assumptions are those the modules state about
their constants, and these, named where they are used:

* `Serial`: one worker per operator, so that the handlers of an operator do not
  overlap. `concurrent_quorum` shows that it is needed.
* `IdsFit`: `MAX_QUEUE_SIZE < 65536`, for `getMessageID`, through which a copy for a
  replica gets its id and the echo server reads it, returns 16 bits. The
  source has 5.
* `KeysAgree`: the primary and each replica have the same key for each other.
  With another key a replica logs nothing and the logs differ.
* `RequestCountAssumption`: an array in the map is not the null pointer.

| theorem | statement | if |
|---|---|---|
| `TypeCorrect` (`CarbonProofs`) | `Spec => []TypeOK` | |
| `ProvenanceKept` | `Spec => []Provenance` | |
| `LogsAuthentic` | `Spec => []AuthenticLogs` | |
| `CountsLogged` | `Spec => []CountedWasLogged` | |
| `LogsAreBounded` | `Spec => []LogBounded` | |
| `IdsNumberTheLog` | `Spec => []IdsNumberPrimaryLog` | `Serial` |
| `TextsInOrder` (`OrderProofs`) | `Spec => []OrderInv` | `Serial` |
| `LocksAreReleased` (`WaitProofs`) | `Spec => []WaitOutstanding` | `Serial` |
| `ResetsLoseNothing` | `Spec => []ResetLosesNoCopy` | `Serial` |
| `RepliesStandForAll` (`ReplyProofs`) | `Spec => []QuorumIntegrity` | `Serial`, `IdsFit` |
| `RepliesAreSingle` | `Spec => []AtMostOneReply` | `Serial`, `IdsFit` |
| `LogsEmptiedWhenAnswered` | `Spec => ClearedOnlyWhenAnswered` | `Serial`, `IdsFit` |
| `Implementation` | `Spec => ImplementsReplicatedEcho` | `Serial`, `IdsFit` |
| `LogsAgree` (`CalmProofs`) | `CalmSpec => []LogsAgreeWhenQuiet` | `Serial`, `IdsFit`, `KeysAgree` |
| `DeviceTypeCorrect`, `ConnectionsAreWatched` (`DeviceProofs`) | `Spec => []TypeOK`, `[]OpenIsWatched` | |
| `BitsFollowConnections` | `Spec => OrphansNeverAdded` | |
| `RepliesReachSenders` | `Spec => []ReplyReachesSender` | clients wait, requests in one piece |
| `IntakeIsDevice` (`IntakeProofs`) | `IntakeSpec => Spec` of `NetDevice` | |
| `AnswersWereVerified` | `IntakeSpec => []AnswerWasVerified` | |
| `WholeRequestsAreAccepted` | `IntakeSpec => []TerminatedAccepted` | one of the `Handlers` at a time |
| `PiecesReachSenders` | `IntakeSpec => []ReplyReachesSender` | clients wait, no text is empty |

### Types, logs and ids

`TypeOK` is inductive because `Activations(op)` ties the step a worker is at to
the kind of object it holds: a worker at `push` holds a stamped request, one at
`insertWait` a wait message. Every action then needs only two facts, what
`Send` and `Dispatch` do to an inbox (`SendTyped` and its relatives) and that
the new activation is of its operator (`BecomeTyped`).

`AuthenticLogs` and `CountedWasLogged` speak of what has been logged and
counted, and say nothing of requests under way; they are not inductive.
`Provenance` adds what must be true of a request for being where it is: a
copy in a replica's inbox was verified and carries the digest under the
primary's key; a request between check and push is accepted; whatever is on the
way to, or with, the echo server is recorded in `logged`. It is preserved by
every step because objects only move forward along the connectors, and `logged` only
grows. `Push` is the only step that logs and `InsertRequest` the only one
that counts for a message, so the two invariants follow from `Provenance` at
these steps.

`IdsNumberPrimaryLog` is a statement about the log alone; what makes it inductive
is `LogReadsCurrent`: a worker about to push still finds room, and the id it
holds is still the length of the log. That is where `Serial` is used: `Push`
and `PopAll` change the log, and no other handler of the same queue server is
between its read and its push.

With several workers a log can grow beyond its capacity, because each reads the
size before any of them pushes. `LogBounded` says by how much: each worker but one
adds at most one entry. `RoomForPushers` is what makes this inductive: the
entries of a log and the workers that have found room and not yet pushed are together
never as many as the capacity and all workers. When a worker finds room, the log is
below its capacity and the worker itself is not yet among those about to push, so
there is place for one more; `Push` leaves the sum as it is.

### Rounds

That a reply stands for all queue servers is a statement about one moment; why
it holds is the history of a round, which begins at each queue server at another
time. The state has no round numbers, so the invariant of `Rounds` says which round
something belongs to by where it is: a queue server is *released* from the
moment the echo server, having emptied its count, begins to send signals until
that queue server has emptied its log. The invariant has four layers, each
inductive with the help of those below it:

1. `OrderInv`: texts wait, are handled and are logged in the order in which they
   arrived, because inboxes are first in first out.
2. `WaitInv`: a queue server's lock is set exactly while its wait message or its
   signal is under way, and never both; a queue server that waits has a full log
   and nothing left to send; what it sent is ahead of its wait message. So when
   the wait messages of all have been counted, nothing is under way:
   `WaitOutstanding` and `ResetLosesNoCopy`.
3. `CountInv`: every copy on its way to the echo server is of an entry of its
   sender's log in this round; every entry of a log that is not released is counted
   or on its way; what is counted is logged; and an id below the capacity names one
   request for the primary and all replicas, while the id equal to the capacity
   names requests that the primary discards. This is what lets a count by *id*
   stand for a *request*, although ids start again from 0 in every round. The
   replicas may have logged a discarded request under that last id; its count can
   never be complete, which is the wedge `waits_received` shows.
4. `ReplyInv`: a complete count has been answered or its answer is in hand;
   of an answered request no copy is under way, so it cannot be answered twice; a
   released log has been answered. From it `QuorumIntegrity`, `AtMostOneReply`,
   `ClearedOnlyWhenAnswered` and, step by step, the refinement.

Before they were proved, the layers were evaluated by TLC with 2 queue servers,
logs of 1 and 2 entries and up to 7 requests; `StampedRequests` is infinite, and
for that purpose was cut down to the requests that occur, so the layers are not
among the runs.

### The logs

`LogsAgreeWhenQuiet` compares the logs of two operators that never exchange a
message about them, and it is false for `Spec`: a request that arrives while the
signals of a round are going out is logged by some queue servers only. It holds
if clients hold back, and `CalmInv` says why, on top of the round invariants:

* no more than one request beyond the capacity is given to the primary in a
  round (`LoadBounded`), and it is the last one: when any queue server has
  discarded it, nothing more is under way to the primary, and the primary
  stamps nothing but that request (`LastDiscarded`, `FullIsIdle`);
* the requests of a round that a replica has logged, has in hand and has in its
  inbox are numbered without a gap (`NumberedAt`);
* a replica has been given as many requests of the round as the primary has
  logged or forwarded, unless one of the two has discarded the last request and
  the other will, or one has emptied its log and the other will (`InStep`).

The four cases of `InStep` are who of the two is *full*, that is, has discarded
a request and not yet reset its lock; within a case, whether the signal has been
sent tells which round the other one is in. When nothing is going on there is no
signal, so both are full or neither, the two logs are of one length, and entry
by entry they are the same request because the ids are current (`CountInv`).
Without `NumberedAt` equal lengths would not name the same entries; without
`LoadBounded` a second request would be discarded by one queue server and
logged, after its signal, by another. The steps that make the argument work are
`CheckSize` (the discarded request is the last of the round for everybody),
`ResetHash` (all are full, so all signals are sent together as far as the logs are
concerned) and `ResetLock` (the others are still full, or have begun anew
already).

### The device

`DeviceInv` adds to `TypeOK` and `OpenIsWatched` that no two connections share a
descriptor, that a client in the backlog has none yet and waits once,
that nobody has connected before `process` listens (it resets `maxFD` there),
and that the scan is at a descriptor that exists. From it follows, step by step,
`OrphansNeverAdded`: the descriptor that `Recv` closes has no other owner, and its
bit goes with it. So `select` meets no closed descriptor but one whose bit was in
`openSet`, which nobody clears, from the start, however often descriptors are closed and
used again, with signals or without.
`RepliesReachSenders` adds that a client whose request is pending is connected,
unanswered, and on the descriptor the request names. A request read in two
pieces becomes two requests, of which the second could be answered after the
client has had its reply to the first and left; the theorem therefore assumes
one piece. In `Intake` the primary checks every piece as a request of its
own, and `PiecesReachSenders` shows that this is enough.

### The bytes

`IntakeIsDevice` shows that the bytes and the check take nothing from the device,
so the device's invariant holds in `Intake` too. `IntakeInv` adds:

* every buffer holds a string, and of a client's bytes only such as have been read
  from its socket (`MemoryHolds`);
* every request handed over has an object, and two requests that have not been
  answered do not share a buffer, nor is theirs free (`BuffersOwned`);
* the requests of a client are consecutive segments of what it sends
  (`ReadInOrder`);
* the primary sees only what was handed over (`PrimarySees`);
* as long as a request is not answered, its buffer and its object are what
  `separateSig` made of the received bytes over *some* older contents, in which
  there was no byte of that client from that piece on (`MadeFromRead`);
* the text of an accepted request is one that the owner of the key signed
  (`AcceptedVerified`).

`MadeFromRead` is the heart: it forgets what the memory held before, which can be
anything, and keeps just what the check needs. If the string in the buffer is a
text `t` of some client, then the bytes received begin with that text (so the
piece is the first of its request), and `numBytes`, which the device sends, is
the length of the string, although neither `strlen` nor `numBytes` was computed
on the bytes of that request alone. `AnswersWereVerified` follows, for both objects
the application may answer with. Of the device's object, what is verified is read from the
buffer at the check, what is sent is read from it at the reply, and in between the
buffer belongs to the request. A replica's copy keeps the text that was verified
(`CopiesVerified`), but the length it is sent with is whatever its memory held,
so the theorem says of it that the text is right and no more; `reply_length`
shows that such copies are sent. The theorem needs no assumption on how
many handlers are at work or what the signature files hold, because the text is
compared with the signature that is found, and none on memory but the zero at the
end of a buffer.

`WholeRequestsAreAccepted` is the converse, and there the files matter. It adds
`FileFresh`: the file a handler is about to verify holds the signature of its
request. That is inductive with one handler, which writes the file and verifies it
before it takes another request; with two it is false. From a zero behind a whole
request follows where `strlen` stops, so text and signature are cut where the
client joined them, and the hexadecimal decoder, given only digits, drops none.
What `strlen` returns is defined by `CHOOSE` and what the decoder returns by
recursion; that the one is the first zero and the other the identity on digits
is proved from the least-number principle (`StrlenIs`, `HexDecoderKeepsDigits`).

`PiecesReachSenders` takes from `AcceptedVerified` that an accepted piece is the first
of its request, for only the first can begin with a text. `AwaitsReply` says what
that gives: a client whose first piece is pending is connected, unanswered, and on
the descriptor the piece names, and has no other first piece.

### Only model-checked

Every safety and action property a run shows to hold is also proved. Liveness is beyond the
prover and stays with TLC: `FullyLoggedAnswered`, `EveryLoggedAnswered`,
`WaitEndsInEmptyLog`, `EventuallyListens`, `EverythingIsRead`,
`DescriptorsAreReleased`. So do the properties that runs refute.

## Not modelled

* Crypto++ and the mathematics of signatures and digests. The tree vendors the
  whole library, over 60,000 of the repository's 66,605 lines of implementation,
  of which the application calls SHA-HMAC, RSA verification and the hexadecimal
  decoder. Its algorithms are arithmetic on large numbers that TLC cannot
  enumerate, its result is a relation the model states, and it has no state the
  application shares. The models therefore cover most of `src/carbon` and
  `src/client` and a small part of the tree.
* The verdict `RSASignVer` reads from a filter that has been deleted
  (`RSASignVer.hh:58`) is taken to be what the filter left.
* Torn accesses to `requestQueue`, `messageHash` and the key tables (see above),
  `FD_SETSIZE`.
* The copies of requests nobody deletes: the memory they leak is not bounded in
  the model.
* `Thread`, which nothing uses; build files; the `gen*Request` methods, and
  `my_install`, `my_get` and `my_purge`, which are empty. Key files are data.

## Plan

Done: the service, its abstract specification and the refinement; the device; the
bytes of a request from the socket to the reply; the agreement of the logs. All
their safety properties are model-checked and proved.

What is left:

1. Delivery per port without an order between ports, as a second version of
   `Lagniappe`'s inboxes: `OrderInv` and `EchoOrder` say where the proofs use
   that an operator's continuations start in the order they were enqueued.
2. Which of the theorems that assume `Serial` hold with several workers at the echo
   server only, whose count has a mutex per call.
