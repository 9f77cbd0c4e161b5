------------------------------ MODULE MCIntake ------------------------------
(***************************************************************************)
(* Values of the constants of Intake for model checking.  Every client     *)
(* signs with a key of its own; the texts have different lengths.          *)
(***************************************************************************)
EXTENDS Intake, TLC

MCAnyBits == {listener + 1}

CONSTANTS a, b, c
MCTextLength == (a :> 1) @@ (b :> 7) @@ (c :> 1)
MCCuts       == (a :> <<2, 4>>) @@ (b :> <<10>>) @@ (c :> <<4>>)
MCWhole      == [x \in Clients |-> <<RequestLength(x)>>]

\* Memory that was never used is zero, or every other buffer in it holds a zero
\* only at the end.
MCZeros == {[i \in Buffers |-> [k \in 1 .. BUFSIZE |-> NUL]]}
MCFresh == MCZeros \cup
  {[i \in Buffers |-> [k \in 1 .. BUFSIZE |->
                        IF i % 2 = 0 \/ k = BUFSIZE THEN NUL ELSE Other]]}

\* Every client on a host of its own; the file has no line for the host of c
\* and two for that of a.
MCOwnHost    == [x \in Clients |-> x]
MCLines      == <<[address |-> a, key |-> b], [address |-> b, key |-> b],
                  [address |-> a, key |-> a]>>

\* All clients on one host, with one key.
CONSTANTS here
MCOneHost    == [x \in Clients |-> here]
MCOneLine    == <<[address |-> here, key |-> here]>>
=============================================================================
