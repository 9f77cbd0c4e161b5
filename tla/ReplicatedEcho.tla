--------------------------- MODULE ReplicatedEcho ---------------------------
(***************************************************************************)
(* What the carbon application promises its clients, without queues,       *)
(* counts, message ids or rounds: a request is logged by the queue servers *)
(* one after the other, the primary's signature check having admitted it,  *)
(* and is answered once, after all of them have logged it.                 *)
(***************************************************************************)
EXTENDS Naturals

CONSTANTS Servers,    \* the queue servers
          Requests,   \* the requests clients may send
          Admitted    \* the requests that pass the signature check

VARIABLES holders,   \* holders[t]: the servers that have logged t
          answers    \* answers[t]: how often t has been answered

abstractVars == <<holders, answers>>

Init == /\ holders = [t \in Requests |-> {}]
        /\ answers = [t \in Requests |-> 0]

Log(s, t) == /\ t \in Admitted
             /\ s \notin holders[t]
             /\ holders' = [holders EXCEPT ![t] = @ \cup {s}]
             /\ UNCHANGED answers

Answer(t) == /\ holders[t] = Servers
             /\ answers[t] = 0
             /\ answers' = [answers EXCEPT ![t] = 1]
             /\ UNCHANGED holders

Next == \E t \in Requests : Answer(t) \/ \E s \in Servers : Log(s, t)

Spec == Init /\ [][Next]_abstractVars
=============================================================================
