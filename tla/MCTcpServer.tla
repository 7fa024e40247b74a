---------------------------- MODULE MCTcpServer ----------------------------
(***************************************************************************)
(* The instance of TcpServer for TLC: the exchange, the PQC proxy and the  *)
(* TLS proxy, some short of descriptors and some short of threads.         *)
(***************************************************************************)
EXTENDS TcpServer

CONSTANTS c1, c2, c3

SmallPrograms == {
    [servers |-> 1, proxy |-> FALSE, clients |-> {c1, c2, c3}, fds |-> 3, threads |-> 4],
    [servers |-> 1, proxy |-> FALSE, clients |-> {c1, c2, c3}, fds |-> 5, threads |-> 2],
    [servers |-> 1, proxy |-> TRUE, clients |-> {c1, c2, c3}, fds |-> 5, threads |-> 9],
    [servers |-> 1, proxy |-> TRUE, clients |-> {c1, c2, c3}, fds |-> 8, threads |-> 5],
    [servers |-> 2, proxy |-> TRUE, clients |-> {c1, c2, c3}, fds |-> 4, threads |-> 18],
    [servers |-> 2, proxy |-> TRUE, clients |-> {c1, c2}, fds |-> 7, threads |-> 12],
    [servers |-> 2, proxy |-> TRUE, clients |-> {c1, c2}, fds |-> 11, threads |-> 7]}
=============================================================================
