---------------------------- MODULE MCResultPage ----------------------------
(***************************************************************************)
(* Instances of ResultPage for TLC: one task and the page that shows it.   *)
(***************************************************************************)
EXTENDS ResultPage
=============================================================================
