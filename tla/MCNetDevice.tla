---------------------------- MODULE MCNetDevice -----------------------------
(***************************************************************************)
(* Values of the constants of NetDevice for model checking.                *)
(***************************************************************************)
EXTENDS NetDevice

MCHost    == [c \in Clients |-> c]
MCNoBits  == {}
MCAnyBits == {listener + 1}
=============================================================================
