---------------------------- MODULE MCTlsTunnel ----------------------------
(***************************************************************************)
(* Instances of TlsTunnel for TLC.                                         *)
(***************************************************************************)
EXTENDS TlsTunnel

TwoTwo == [d \in Dir |-> 2]

\* Three orders, so that one can be missing between two others.
ThreeOne == [d \in Dir |-> IF d = "req" THEN 3 ELSE 1]
=============================================================================
