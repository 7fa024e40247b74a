---------------------------- MODULE MCBenchFiles ----------------------------
(***************************************************************************)
(* The instance of BenchFiles for TLC: a body of two blocks of orders, and *)
(* one of one block with a line that is no order.                          *)
(***************************************************************************)
EXTENDS BenchFiles

CONSTANTS long, odd

TwoOne == [u \in {long, odd} |-> IF u = long THEN 2 ELSE 1]
=============================================================================
