----------------------------- MODULE Lagniappe ------------------------------
(***************************************************************************)
(* The Lagniappe runtime, as the carbon operators use it.  Lagniappe is    *)
(* not part of the repository; what is modelled here is what carbon.xml    *)
(* declares (operators, ports, connectors, one handler per IN port) and    *)
(* what the generated port methods do for the handlers that call them.     *)
(*                                                                         *)
(* Calling an OUT port enqueues a continuation (lagniappe::RCon) for the   *)
(* operator at the other end of the connector.  An operator's             *)
(* continuations are started in the order in which they were enqueued, by  *)
(* the workers that serve that operator; a worker runs one handler to      *)
(* completion before it starts the next.  With one worker the handlers of  *)
(* an operator are serialised; with several they overlap, which is the     *)
(* case the mutexes in RequestCount.hh and RequestLog.hh are written for.  *)
(*                                                                         *)
(* A handler is a sequence of steps, one per access to state that another  *)
(* thread can see: a critical section, an access to the queue, a send.     *)
(***************************************************************************)
EXTENDS Common, FiniteSets

CONSTANT Workers   \* the workers that serve each operator

ASSUME WorkersAssumption == Workers # {} /\ IsFiniteSet(Workers)

\* The handlers of an operator do not overlap.
Serial == \A v, w \in Workers : v = w

\* What is enqueued for an operator: the IN port and the value sent to it.
Request(data) == [port |-> "in", data |-> data]
Wait(server)  == [port |-> "ewait", server |-> server]
Signal        == [port |-> "qsignal"]
NoItem        == [port |-> "none"]

VARIABLES inbox,   \* inbox[op]: continuations enqueued for op, oldest first
          frame    \* frame[op][w]: the handler worker w of op is running

runtimeVars == <<inbox, frame>>

(***************************************************************************)
(* An activation: the next step, a loop counter, and the handler argument. *)
(***************************************************************************)
Activation(pc, item) == [pc |-> pc, k |-> 0, item |-> item]
Idle == Activation("idle", NoItem)

RuntimeInit == /\ inbox = [op \in Operators |-> << >>]
               /\ frame = [op \in Operators |-> [w \in Workers |-> Idle]]

Enqueued(op)  == {inbox[op][i] : i \in DOMAIN inbox[op]}
At(op, w, pc) == frame[op][w].pc = pc
Arg(op, w)    == frame[op][w].item

Become(op, w, activation) == frame' = [frame EXCEPT ![op][w] = activation]
Goto(op, w, pc) == Become(op, w, [frame[op][w] EXCEPT !.pc = pc])
Return(op, w)   == Become(op, w, Idle)

\* Calling an OUT port whose connector ends at dest.
Send(dest, item) == inbox' = [inbox EXCEPT ![dest] = Append(@, item)]

\* The step a handler starts with, by the port its argument arrived on.
EntryPoint(item) ==
  [in |-> "start", ewait |-> "wait", qsignal |-> "pop"][item.port]

\* A free worker of op starts the handler of the oldest continuation.
Dispatch(op, w) ==
  /\ At(op, w, "idle")
  /\ inbox[op] # << >>
  /\ inbox' = [inbox EXCEPT ![op] = Tail(@)]
  /\ Become(op, w, Activation(EntryPoint(Head(inbox[op])), Head(inbox[op])))

Quiet == \A op \in Operators : /\ inbox[op] = << >>
                               /\ \A w \in Workers : At(op, w, "idle")
=============================================================================
