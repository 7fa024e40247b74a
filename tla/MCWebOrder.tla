----------------------------- MODULE MCWebOrder -----------------------------
(***************************************************************************)
(* The instance of WebOrder for TLC: the requests are in the .cfg file.    *)
(***************************************************************************)
EXTENDS WebOrder
=============================================================================
