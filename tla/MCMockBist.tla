----------------------------- MODULE MCMockBist -----------------------------
(***************************************************************************)
(* Instances of MockBist for TLC: c1 sends without waiting, c2 waits for   *)
(* its answers.  c1 alone with three messages, c2 alone with two orders,   *)
(* and both beside each other with one message each.                       *)
(***************************************************************************)
EXTENDS MockBist

CONSTANTS c1, c2

OnlyOrders == {TRUE}
OrdersAndOthers == {TRUE, FALSE}

LoadOf(a, b) == (c1 :> a) @@ (c2 :> b)
AllLoads == {LoadOf(3, 0), LoadOf(0, 2), LoadOf(1, 1)}
OneEach == {LoadOf(1, 1)}
=============================================================================
