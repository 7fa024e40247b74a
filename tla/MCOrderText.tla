---------------------------- MODULE MCOrderText ----------------------------
(***************************************************************************)
(* The instance of OrderText for TLC: symbols that hold "10=", "54=7" or a *)
(* '|' or are the name of a key; a quantity that is empty, left out or     *)
(* begins with a blank; a price that is left out.                          *)
(***************************************************************************)
EXTENDS OrderText

X == 88

Texts ==
    [symbol |-> {<<X>>, <<49>> \o Prefix(10), <<X>> \o Prefix(54) \o <<55>>, <<BAR>> \o Prefix(38), <<113>>},
     side   |-> {<<49>>, Prefix(44)},
     qty    |-> {<<53>>, <<>>, <<112>>, <<SPACE, 53>>, NoKey},
     price  |-> {<<57>>, Prefix(10), NoKey}]

ClOrdID == <<79, 49>>
OtherOrder ==
    LET fields == OrderFields([symbol |-> <<X, X>>, side |-> <<50>>, qty |-> <<54>>, price |-> <<55>>])
    IN  BuildMessage([fields EXCEPT ![2].value = <<79, 50>>])
OnTheWay == {SOH, BAR, EQ, 48, 49, 57, X}
TwoLatencies == {1, 2}
=============================================================================
