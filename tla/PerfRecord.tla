----------------------------- MODULE PerfRecord -----------------------------
(***************************************************************************)
(* Perf::Record: one perf command in a process group of its own.  Three    *)
(* processes step on their own here: the agent (its worker thread), the    *)
(* forked child, which becomes perf, and the sleep that perf starts.  The  *)
(* hard time-out is the wall clock, which may pass it at any moment: the   *)
(* child can be that slow, or that late to run at all.                     *)
(***************************************************************************)

VARIABLES
    rec,       \* where Perf::Record is; "idle": it is not called
    perf,      \* the child
    sleeper,   \* the workload "sleep {dur}" of this perf
    ownGroup,  \* the child leads a process group of its own
    ended,     \* how the child ended: its exit code, or a signal
    late,      \* steady_clock::now() >= deadline
    outcome    \* the PerfResult

perfVars == <<rec, perf, sleeper, ownGroup, ended, late, outcome>>

RecStates ==
    {"idle", "forked", "polling", "checking", "killing", "reaping", "returned"}
PerfStates == {"none", "forked", "grouped", "recording", "zombie"}

PerfTypeOK ==
    /\ rec \in RecStates
    /\ perf \in PerfStates
    /\ sleeper \in {"none", "running", "gone"}
    /\ ownGroup \in BOOLEAN
    /\ ended \in {"none", "ok", "error", "signal"}
    /\ late \in BOOLEAN
    /\ outcome \in {"none", "ok", "error", "timeout"}

PerfInit ==
    /\ rec = "idle"
    /\ perf = "none"
    /\ sleeper = "none"
    /\ ownGroup = FALSE
    /\ ended = "none"
    /\ late = FALSE
    /\ outcome = "none"

Returns(result) == rec' = "returned" /\ outcome' = result

------------------------------------------------------------------------------
(* The parent.                                                               *)

(* The entry of Perf::Record up to fork, which may fail.                     *)
CallRecord ==
    /\ rec = "idle"
    /\ sleeper' = "none"
    /\ ownGroup' = FALSE
    /\ ended' = "none"
    /\ late' = FALSE
    /\ \/ /\ rec' = "forked"
          /\ perf' = "forked"
          /\ outcome' = "none"
       \/ /\ Returns("error")
          /\ UNCHANGED perf

(* setpgid(child, child).  Once the child has called exec it fails (EACCES). *)
ParentSetpgid ==
    /\ rec = "forked"
    /\ rec' = "polling"
    /\ ownGroup' = (ownGroup \/ perf \in {"forked", "grouped"})
    /\ UNCHANGED <<perf, sleeper, ended, late, outcome>>

(* Mutant: the exit code is taken from a status that a signal left 0.        *)
PollChild_IgnoreSignal ==
    /\ rec = "polling"
    /\ \/ /\ perf = "zombie"
          /\ perf' = "none"
          /\ Returns(IF ended = "error" THEN "error" ELSE "ok")
       \/ /\ perf # "zombie"
          /\ rec' = "checking"
          /\ UNCHANGED <<perf, outcome>>
    /\ UNCHANGED <<sleeper, ownGroup, ended, late>>

(* waitpid(child, WNOHANG): a child that has ended is reaped.                *)
PollChild ==
    /\ rec = "polling"
    /\ \/ /\ perf = "zombie"
          /\ perf' = "none"
          /\ Returns(IF ended = "ok" THEN "ok" ELSE "error")
       \/ /\ perf # "zombie"
          /\ rec' = "checking"
          /\ UNCHANGED <<perf, outcome>>
    /\ UNCHANGED <<sleeper, ownGroup, ended, late>>

(* ret == 0: kill when the deadline has passed, else poll again in 200 ms.   *)
CheckDeadline ==
    /\ rec = "checking"
    /\ rec' = IF late THEN "killing" ELSE "polling"
    /\ UNCHANGED <<perf, sleeper, ownGroup, ended, late, outcome>>

(* SIGKILL to the child alone.                                               *)
ChildDies ==
    /\ perf' = "zombie"
    /\ ended' = IF perf = "zombie" THEN ended ELSE "signal"

(* Mutant: kill instead of killpg.                                           *)
KillGroup_ChildOnly ==
    /\ rec = "killing"
    /\ rec' = "reaping"
    /\ ChildDies
    /\ UNCHANGED <<sleeper, ownGroup, late, outcome>>

(* killpg(child, SIGKILL) reaches the members of the group, if there is one. *)
KillGroup ==
    /\ rec = "killing"
    /\ rec' = "reaping"
    /\ IF ownGroup
       THEN /\ ChildDies
            /\ sleeper' = IF sleeper = "running" THEN "gone" ELSE sleeper
       ELSE UNCHANGED <<perf, ended, sleeper>>
    /\ UNCHANGED <<ownGroup, late, outcome>>

(* waitpid(child) without WNOHANG: it returns when the child has ended.      *)
Reap ==
    /\ rec = "reaping"
    /\ perf = "zombie"
    /\ perf' = "none"
    /\ Returns("timeout")
    /\ UNCHANGED <<sleeper, ownGroup, ended, late>>

------------------------------------------------------------------------------
(* The child and what it becomes.                                            *)

(* Mutant: the child leaves setpgid to its parent.                           *)
ChildSetpgid_LeftToParent ==
    /\ perf = "forked"
    /\ perf' = "grouped"
    /\ UNCHANGED <<rec, sleeper, ownGroup, ended, late, outcome>>

ChildSetpgid ==
    /\ perf = "forked"
    /\ perf' = "grouped"
    /\ ownGroup' = TRUE
    /\ UNCHANGED <<rec, sleeper, ended, late, outcome>>

(* execvp("perf"): perf runs and has started its sleep, or _exit(127).       *)
ChildExec ==
    /\ perf = "grouped"
    /\ \/ /\ perf' = "recording"
          /\ sleeper' = "running"
          /\ UNCHANGED ended
       \/ /\ perf' = "zombie"
          /\ ended' = "error"
          /\ UNCHANGED sleeper
    /\ UNCHANGED <<rec, ownGroup, late, outcome>>

SleepEnds ==
    /\ sleeper = "running"
    /\ sleeper' = "gone"
    /\ UNCHANGED <<rec, perf, ownGroup, ended, late, outcome>>

(* perf ends: with its data complete once the sleep is over; with an error   *)
(* code, of its own or of an early failure that stops the sleep as well; or  *)
(* by a signal from elsewhere (the OOM killer), which the sleep survives.    *)
PerfEnds ==
    /\ perf = "recording"
    /\ perf' = "zombie"
    /\ \/ sleeper = "gone" /\ ended' = "ok" /\ UNCHANGED sleeper
       \/ ended' = "error" /\ sleeper' = "gone"
       \/ ended' = "signal" /\ UNCHANGED sleeper
    /\ UNCHANGED <<rec, ownGroup, late, outcome>>

DeadlinePasses ==
    /\ rec \notin {"idle", "returned"}
    /\ ~late
    /\ late' = TRUE
    /\ UNCHANGED <<rec, perf, sleeper, ownGroup, ended, outcome>>

------------------------------------------------------------------------------
ParentStep == ParentSetpgid \/ PollChild \/ CheckDeadline \/ KillGroup \/ Reap
ChildStep == ChildSetpgid \/ ChildExec \/ SleepEnds \/ PerfEnds
PerfStep == ParentStep \/ ChildStep \/ DeadlinePasses
=============================================================================
