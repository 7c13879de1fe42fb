------------------------------ MODULE Handover ------------------------------
(***************************************************************************)
(* Where MiniDrop ends and Analysis begins.  Analysis has its own short    *)
(* account of a collection: the row is RUNNING, may become UPLOADING, and  *)
(* ends in one step.  Handlers, watchers, drop_server and agents do what   *)
(* it says.                                                                *)
(***************************************************************************)
EXTENDS MiniDrop

(* The row as Analysis sees it: one that is not dispatched yet, or never     *)
(* will be, counts as RUNNING.                                               *)
RowStatus(t) == IF status[t] \in {"ABSENT", "PENDING"} THEN "RUNNING" ELSE status[t]

(* What apiserver is doing about t: the handler and the watcher together are *)
(* the collection; triggerAnalysis takes over when the file is there.        *)
Trigger(t) ==
    CASE "killed" \in {handler[t], watcher[t]} -> "killed"
      [] watcher[t] = "handed" -> "marking"
      [] handler[t] = "failed" \/ watcher[t] = "stopped" -> "over"
      [] OTHER -> "none"

Analysed == INSTANCE Analysis WITH
    status <- [t \in Tasks |-> RowStatus(t)],
    analysis_status <- [t \in Tasks |-> "PENDING"],
    trigger <- [t \in Tasks |-> Trigger(t)],
    worker <- "polling",
    batch <- {},
    analyzer <- [o \in {"apiserver", "worker"} |-> [t \in Tasks |-> "none"]],
    flamegraphs <- {},
    advised <- {},
    BatchLimit <- 1,
    Poison <- {},
    Python <- FALSE

(* Until the analysis of a task begins, everything apiserver does to its row *)
(* is a step of Analysis: a collection ends once, its goroutine does nothing *)
(* after that but call triggerAnalysis or return, and only a crash leaves an *)
(* end out, whichever updates are lost.                                      *)
HandoverSpec == Analysed!AnalysisSpec
=============================================================================
