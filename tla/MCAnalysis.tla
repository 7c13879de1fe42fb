----------------------------- MODULE MCAnalysis -----------------------------
(***************************************************************************)
(* Instances of Analysis for TLC: two tasks, of which the younger may have *)
(* a perf.data that can never be analysed.                                 *)
(***************************************************************************)
EXTENDS Analysis
=============================================================================
