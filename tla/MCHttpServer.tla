---------------------------- MODULE MCHttpServer ----------------------------
(***************************************************************************)
(* The instance of HttpServer for TLC.                                     *)
(***************************************************************************)
EXTENDS HttpServer

\* The first connection carries as many requests as it may.
Requests == [c \in 1..Connections |-> IF c = 1 THEN KeepAliveMax ELSE 1]
=============================================================================
