---------------------------- MODULE MCPqcTunnel ----------------------------
(***************************************************************************)
(* Instances of PqcTunnelPipe for TLC.                                     *)
(***************************************************************************)
EXTENDS PqcTunnelPipe

\* Three units one way: with sockets and a buffer of two, a write() of two units
\* finds room for one and waits.
ThreeTwo == [d \in Dir |-> IF d = "req" THEN 3 ELSE 2]

\* With one unit per buffer and socket: enough replies to fill the way back to a
\* client that does not read, and then enough orders to block their thread too.
ThreeFour == [d \in Dir |-> IF d = "req" THEN 3 ELSE 4]
=============================================================================
