------------------------------ MODULE Analysis ------------------------------
(***************************************************************************)
(* From the end of a collection to flame graph and suggestions: apiserver  *)
(* starts the analyzer itself (triggerAnalysis), the poll worker takes up  *)
(* the rows that nobody has analysed, and every analyzer writes the status *)
(* of its row.  They agree on nothing but the two columns of that row.     *)
(***************************************************************************)
EXTENDS Naturals, FiniteSets

CONSTANTS
    Tasks,       \* tids, as numbers in the order of create_time
    BatchLimit,  \* LIMIT of the worker's query (5)
    Poison,      \* tasks with a perf.data that perf script rejects
    Python,      \* apiserver finds a python3 with the script
    Faults       \* the faults that may happen (see AnalysisFaults)

AnalysisFaults ==
    {"apiserver crash", "worker crash", "analyzer crash", "launch", "db write",
     "request lost"}

ASSUME AnalysisAssumption ==
    /\ Tasks \subseteq Nat
    /\ IsFiniteSet(Tasks)
    /\ BatchLimit \in Nat \ {0}
    /\ Poison \subseteq Tasks
    /\ Python \in BOOLEAN
    /\ Faults \subseteq AnalysisFaults

VARIABLES
    status,           \* column status, from RUNNING on
    analysis_status,  \* column analysis_status
    deleted,          \* deleted_at is set
    trigger,          \* trigger[t]: watcher ("none"), then triggerAnalysis
    worker,           \* where the poll worker is
    batch,            \* rows of its query that it has not finished
    analyzer,         \* analyzer[o][t]: the analyzer that o started for t
    flamegraphs,      \* tids t with an object t/flamegraph.svg
    advised           \* tids whose suggestions were inserted

rowVars == <<status, analysis_status, deleted>>
outputVars == <<flamegraphs, advised>>
analysisVars == <<rowVars, trigger, worker, batch, analyzer, outputVars>>

Owners == {"apiserver", "worker"}
Working == {"started", "working", "advising", "closing", "failing"}
Idle == {"none", "ok", "error", "killed", "unlaunched"}

AnalysisTypeOK ==
    /\ status \in [Tasks -> {"RUNNING", "UPLOADING", "DONE", "FAILED"}]
    /\ analysis_status \in [Tasks -> {"PENDING", "RUNNING", "DONE", "FAILED"}]
    /\ deleted \in [Tasks -> BOOLEAN]
    /\ trigger \in [Tasks -> {"none", "marking", "launching", "waiting", "over", "killed"}]
    /\ worker \in {"polling", "claiming", "launching", "waiting"}
    /\ batch \subseteq Tasks
    /\ worker = "polling" => batch = {}
    /\ analyzer \in [Owners -> [Tasks -> Working \cup Idle]]
    /\ flamegraphs \subseteq Tasks
    /\ advised \subseteq Tasks

AnalysisInit ==
    /\ status = [t \in Tasks |-> "RUNNING"]
    /\ analysis_status = [t \in Tasks |-> "PENDING"]
    /\ deleted = [t \in Tasks |-> FALSE]
    /\ trigger = [t \in Tasks |-> "none"]
    /\ worker = "polling"
    /\ batch = {}
    /\ analyzer = [o \in Owners |-> [t \in Tasks |-> "none"]]
    /\ flamegraphs = {}
    /\ advised = {}

(* apiserver updates through gorm, which skips deleted rows; the analyzers   *)
(* with plain SQL, which does not.  Neither looks at a failure.              *)
UpdateAnalysis(t, s) ==
    \/ analysis_status' = IF deleted[t] THEN analysis_status
                          ELSE [analysis_status EXCEPT ![t] = s]
    \/ "db write" \in Faults /\ UNCHANGED analysis_status

SetAnalysis(t, s) ==
    \/ analysis_status' = [analysis_status EXCEPT ![t] = s]
    \/ "db write" \in Faults /\ UNCHANGED analysis_status

------------------------------------------------------------------------------
(* apiserver.                                                                *)

(* The watcher's estimate that the recording is over.                        *)
Uploading(t) ==
    /\ trigger[t] = "none"
    /\ status[t] = "RUNNING" /\ ~deleted[t]
    /\ status' = [status EXCEPT ![t] = "UPLOADING"]
    /\ UNCHANGED <<analysis_status, deleted, trigger, worker, batch, analyzer, outputVars>>

(* FetchData has returned a cos_key: one update of both columns.             *)
CollectionDone(t) ==
    /\ trigger[t] = "none"
    /\ \/ /\ ~deleted[t]
          /\ status' = [status EXCEPT ![t] = "DONE"]
          /\ analysis_status' = [analysis_status EXCEPT ![t] = "PENDING"]
       \/ /\ deleted[t] \/ "db write" \in Faults
          /\ UNCHANGED <<status, analysis_status>>
    /\ trigger' = [trigger EXCEPT ![t] = "marking"]
    /\ UNCHANGED <<deleted, worker, batch, analyzer, outputVars>>

(* Mutant: the return is missing, and the watcher goes on after it has set   *)
(* the row FAILED.                                                           *)
CollectionFails_NoReturn(t) ==
    /\ trigger[t] = "none" /\ ~deleted[t]
    /\ status' = [status EXCEPT ![t] = "FAILED"]
    /\ UNCHANGED <<analysis_status, deleted, trigger, worker, batch, analyzer, outputVars>>

(* The agent's failure or the watcher's time-out.                            *)
CollectionFails(t) ==
    /\ trigger[t] = "none"
    /\ \/ ~deleted[t] /\ status' = [status EXCEPT ![t] = "FAILED"]
       \/ deleted[t] /\ UNCHANGED status
       \/ "db write" \in Faults /\ UNCHANGED status
    /\ trigger' = [trigger EXCEPT ![t] = "over"]
    /\ UNCHANGED <<analysis_status, deleted, worker, batch, analyzer, outputVars>>

(* triggerAnalysis marks the row before it starts its goroutine.             *)
MarkRunning(t) ==
    /\ trigger[t] = "marking"
    /\ UpdateAnalysis(t, "RUNNING")
    /\ trigger' = [trigger EXCEPT ![t] = "launching"]
    /\ UNCHANGED <<status, deleted, worker, batch, analyzer, outputVars>>

ScriptStarts(t) ==
    /\ trigger[t] = "launching"
    /\ Python
    /\ trigger' = [trigger EXCEPT ![t] = "waiting"]
    /\ analyzer' = [analyzer EXCEPT !["apiserver"][t] = "started"]
    /\ UNCHANGED <<rowVars, worker, batch, outputVars>>

(* err # nil: there is no such program, it cannot be started, or has failed. *)
ScriptFails(t) ==
    /\ \/ trigger[t] = "launching" /\ (~Python \/ "launch" \in Faults)
       \/ trigger[t] = "waiting" /\ analyzer["apiserver"][t] = "error"
    /\ UpdateAnalysis(t, "FAILED")
    /\ trigger' = [trigger EXCEPT ![t] = "over"]
    /\ UNCHANGED <<status, deleted, worker, batch, analyzer, outputVars>>

ScriptFinishes(t) ==
    /\ trigger[t] = "waiting"
    /\ analyzer["apiserver"][t] = "ok"
    /\ trigger' = [trigger EXCEPT ![t] = "over"]
    /\ UNCHANGED <<rowVars, worker, batch, analyzer, outputVars>>

DeleteTask(t) ==
    /\ ~deleted[t]
    /\ deleted' = [deleted EXCEPT ![t] = TRUE]
    /\ UNCHANGED <<status, analysis_status, trigger, worker, batch, analyzer, outputVars>>

(* Watchers and goroutines are gone; an analyzer it has started is a process *)
(* of its own and goes on.  A row that stands for one not dispatched yet has *)
(* no watcher to lose, and may get it from the next process.                 *)
ApiserverCrash ==
    /\ "apiserver crash" \in Faults
    /\ \E Undispatched \in SUBSET {t \in Tasks : trigger[t] = "none" /\ status[t] = "RUNNING"} :
          trigger' = [t \in Tasks |-> IF trigger[t] = "over" \/ t \in Undispatched
                                     THEN trigger[t] ELSE "killed"]
    /\ UNCHANGED <<rowVars, worker, batch, analyzer, outputVars>>

------------------------------------------------------------------------------
(* The poll worker.                                                          *)

(* Mutant: the query asks for pending rows only.                             *)
Selected_PendingOnly ==
    {t \in Tasks : status[t] = "DONE" /\ analysis_status[t] = "PENDING" /\ ~deleted[t]}

(* Mutant: the query forgets the status of the collection.                   *)
Selected_AnyStatus ==
    {t \in Tasks : analysis_status[t] \in {"PENDING", "FAILED"} /\ ~deleted[t]}

(* WHERE status = 3 AND analysis_status IN (0, 3) AND deleted_at IS NULL.    *)
Selected ==
    {t \in Tasks : /\ status[t] = "DONE"
                   /\ analysis_status[t] \in {"PENDING", "FAILED"}
                   /\ ~deleted[t]}

(* ORDER BY create_time ASC LIMIT 5.                                         *)
Oldest(S) == {t \in S : Cardinality({u \in S : u < t}) < BatchLimit}

Poll ==
    /\ worker = "polling"
    /\ Selected # {}
    /\ worker' = "claiming"
    /\ batch' = Oldest(Selected)
    /\ UNCHANGED <<rowVars, trigger, analyzer, outputVars>>

(* The loop over the rows: t is the one it is at, and after it the next.     *)
Current(t) == t \in batch /\ \A u \in batch : t <= u

(* Mutant: the loop is left after its first row.                             *)
NextRow_Break(t) == batch' = batch \ {t} /\ worker' = "polling"

NextRow(t) ==
    /\ batch' = batch \ {t}
    /\ worker' = IF batch' = {} THEN "polling" ELSE "claiming"

(* _set_status(RUNNING); an exception skips the row, also one that hides a   *)
(* commit.  The row is not looked at again, although it was selected before  *)
(* the rows ahead of it were analysed.                                       *)
Claim(t) ==
    /\ worker = "claiming"
    /\ Current(t)
    /\ \/ /\ analysis_status' = [analysis_status EXCEPT ![t] = "RUNNING"]
          /\ worker' = "launching"
          /\ UNCHANGED batch
       \/ /\ "db write" \in Faults
          /\ NextRow(t)
          /\ SetAnalysis(t, "RUNNING")
    /\ UNCHANGED <<status, deleted, trigger, analyzer, outputVars>>

(* Mutant: subprocess.Popen in place of run, which waits.                    *)
Launch_Popen(t) ==
    /\ worker = "launching"
    /\ Current(t)
    /\ NextRow(t)
    /\ analyzer' = [analyzer EXCEPT !["worker"][t] = "started"]
    /\ UNCHANGED <<rowVars, trigger, outputVars>>

Launch(t) ==
    /\ worker = "launching"
    /\ Current(t)
    /\ worker' = "waiting"
    /\ analyzer' = [analyzer EXCEPT !["worker"][t] = "started"]
    /\ UNCHANGED <<rowVars, trigger, batch, outputVars>>

(* subprocess.run raises: the exception is logged like any other, and the    *)
(* row is not touched again.                                                 *)
LaunchFails(t) ==
    /\ "launch" \in Faults
    /\ worker = "launching"
    /\ Current(t)
    /\ NextRow(t)
    /\ analyzer' = [analyzer EXCEPT !["worker"][t] = "unlaunched"]
    /\ UNCHANGED <<rowVars, trigger, outputVars>>

(* Mutant: the exit code is only logged.                                     *)
Reap_IgnoreExit(t) ==
    /\ worker = "waiting"
    /\ Current(t)
    /\ analyzer["worker"][t] \in {"ok", "error"}
    /\ NextRow(t)
    /\ analyzer' = [analyzer EXCEPT !["worker"][t] = "none"]
    /\ UNCHANGED <<rowVars, trigger, outputVars>>

(* subprocess.run returns: with another code than 0 the row is set FAILED.   *)
Reap(t) ==
    /\ worker = "waiting"
    /\ Current(t)
    /\ \/ analyzer["worker"][t] = "ok" /\ UNCHANGED analysis_status
       \/ analyzer["worker"][t] = "error" /\ SetAnalysis(t, "FAILED")
    /\ NextRow(t)
    /\ analyzer' = [analyzer EXCEPT !["worker"][t] = "none"]
    /\ UNCHANGED <<status, deleted, trigger, outputVars>>

(* The worker is the first process of its container: the analyzer it runs    *)
(* dies with it, or is never started.                                        *)
WorkerCrash ==
    /\ "worker crash" \in Faults
    /\ worker' = "polling"
    /\ batch' = {}
    /\ analyzer' = [analyzer EXCEPT !["worker"] =
                      [t \in Tasks |-> IF worker \in {"launching", "waiting"} /\ Current(t)
                                       THEN "killed" ELSE @[t]]]
    /\ UNCHANGED <<rowVars, trigger, outputVars>>

------------------------------------------------------------------------------
(* The analyzer: hotmethod_analyzer.py, main.                                *)

Goto(o, t, next) == analyzer' = [analyzer EXCEPT ![o][t] = next]

Start(o, t) ==
    /\ analyzer[o][t] = "started"
    /\ SetAnalysis(t, "RUNNING")
    /\ Goto(o, t, "working")
    /\ UNCHANGED <<status, deleted, trigger, worker, batch, outputVars>>

(* Download, perf script, stackcollapse, flamegraph.pl, upload of the SVG.   *)
PipelineWorks(o, t) ==
    /\ analyzer[o][t] = "working"
    /\ t \notin Poison
    /\ flamegraphs' = flamegraphs \cup {t}
    /\ Goto(o, t, "advising")
    /\ UNCHANGED <<rowVars, trigger, worker, batch, advised>>

PipelineFails(o, t) ==
    /\ analyzer[o][t] = "working"
    /\ Goto(o, t, "failing")
    /\ UNCHANGED <<rowVars, trigger, worker, batch, outputVars>>

(* run_analysis: all suggestions are inserted in one transaction.            *)
AdviseWorks(o, t) ==
    /\ analyzer[o][t] = "advising"
    /\ advised' = advised \cup {t}
    /\ Goto(o, t, "closing")
    /\ UNCHANGED <<rowVars, trigger, worker, batch, flamegraphs>>

(* Mutant: run_analysis swallows the database error.                         *)
AdviseFails_Ignored(o, t) ==
    /\ analyzer[o][t] = "advising"
    /\ Goto(o, t, "closing")
    /\ UNCHANGED <<rowVars, trigger, worker, batch, outputVars>>

AdviseFails(o, t) ==
    /\ analyzer[o][t] = "advising"
    /\ Goto(o, t, "failing")
    /\ UNCHANGED <<rowVars, trigger, worker, batch, outputVars>>

(* The last update, and exit code 0 or 1.                                    *)
Close(o, t) ==
    /\ \/ analyzer[o][t] = "closing" /\ SetAnalysis(t, "DONE") /\ Goto(o, t, "ok")
       \/ analyzer[o][t] = "failing" /\ SetAnalysis(t, "FAILED") /\ Goto(o, t, "error")
    /\ UNCHANGED <<status, deleted, trigger, worker, batch, outputVars>>

AnalyzerCrash(o, t) ==
    /\ "analyzer crash" \in Faults
    /\ analyzer[o][t] \in Working
    /\ Goto(o, t, "error")
    /\ UNCHANGED <<rowVars, trigger, worker, batch, outputVars>>

------------------------------------------------------------------------------
AnalysisNext ==
    \/ \E t \in Tasks :
        \/ Uploading(t) \/ CollectionDone(t) \/ CollectionFails(t) \/ MarkRunning(t)
        \/ ScriptStarts(t) \/ ScriptFails(t) \/ ScriptFinishes(t)
        \/ DeleteTask(t)
        \/ Claim(t) \/ Launch(t) \/ LaunchFails(t) \/ Reap(t)
        \/ \E o \in Owners :
            \/ Start(o, t) \/ PipelineWorks(o, t) \/ PipelineFails(o, t)
            \/ AdviseWorks(o, t) \/ AdviseFails(o, t) \/ Close(o, t)
            \/ AnalyzerCrash(o, t)
    \/ Poll
    \/ ApiserverCrash
    \/ WorkerCrash

AnalysisSpec == AnalysisInit /\ [][AnalysisNext]_analysisVars

(* Fairness: the goroutine, the worker's loop and the analyzers go on, and a *)
(* step of the analysis that can work does not fail every time it is tried.  *)
AnalysisFairness ==
    /\ WF_analysisVars(Poll)
    /\ \A t \in Tasks :
        /\ WF_analysisVars(MarkRunning(t) \/ ScriptStarts(t))
        /\ WF_analysisVars(ScriptFails(t) \/ ScriptFinishes(t))
        /\ WF_analysisVars(Claim(t) \/ Launch(t) \/ LaunchFails(t) \/ Reap(t))
        /\ \A o \in Owners :
            /\ WF_analysisVars(Start(o, t) \/ Close(o, t))
            /\ WF_analysisVars(PipelineWorks(o, t) \/ PipelineFails(o, t))
            /\ WF_analysisVars(AdviseWorks(o, t) \/ AdviseFails(o, t))
            /\ SF_analysisVars(PipelineWorks(o, t))
            /\ SF_analysisVars(AdviseWorks(o, t))

AnalysisFairSpec == AnalysisSpec /\ AnalysisFairness

------------------------------------------------------------------------------
(* Safety *)

(* const_enum.go: a row whose analysis is DONE has its flame graph stored,   *)
(* and the suggestions of some attempt are in the database, whoever crashes, *)
(* whichever updates are lost and however many analyzers ran.                *)
DoneMeansAnalysed ==
    \A t \in Tasks :
        analysis_status[t] = "DONE" => t \in flamegraphs \cap advised

(* A live row is RUNNING only while somebody is on it who will write how it  *)
(* ended: the worker selects no RUNNING row, so such a row is lost without   *)
(* him.  Three things leave one: the crash of apiserver, the crash of the    *)
(* worker, and a launch that failed in the worker, whose loop sets the row   *)
(* FAILED for a bad exit code but not for an exception.  The crash or the    *)
(* failure of an analyzer does not, nor a failed launch in apiserver.        *)
RunningIsWorkedOn ==
    \A t \in Tasks :
        analysis_status[t] = "RUNNING" /\ ~deleted[t] =>
            \/ trigger[t] \in {"launching", "waiting", "killed"}
            \/ worker \in {"launching", "waiting"} /\ Current(t)
            \/ analyzer["worker"][t] \in {"killed", "unlaunched"}

(* A live row has no trace of an analysis before its collection is done, and *)
(* none of a collection that failed: both parents start from DONE, and what  *)
(* they have started ends without anybody having moved the row from there.   *)
AnalysedIsCollected ==
    \A t \in Tasks :
        analysis_status[t] # "PENDING" /\ ~deleted[t] => status[t] = "DONE"

(* Every analyzer of a task works in /tmp/drop_{tid}_analysis of its machine *)
(* and leaves its files there.  The poll worker starts one only when all it  *)
(* started before are over, apiserver never a second one for a task: two at  *)
(* once in one directory are one of each parent, on a shared machine.        *)
NoSecondAnalyzer ==
    [][\A t \in Tasks :
        /\ analyzer["worker"][t] # "started" /\ analyzer'["worker"][t] = "started" =>
              \A u \in Tasks : analyzer["worker"][u] \notin Working
        /\ analyzer["apiserver"][t] # "started" /\ analyzer'["apiserver"][t] = "started" =>
              analyzer["apiserver"][t] = "none"]_analysisVars

(* Liveness *)

(* Every collected task that can be analysed is analysed in the end, as long *)
(* as fewer of the older ones than the worker takes at once can never be: it *)
(* takes up what apiserver's own attempt, or its own last one, left FAILED.  *)
(* It needs the absence of crashes and failing launches, which leave a row   *)
(* RUNNING for good (RunningIsWorkedOn).                                     *)
CollectedIsAnalysed ==
    \A t \in Tasks \ Poison :
        status[t] = "DONE" ~> (analysis_status[t] = "DONE" \/ deleted[t])

------------------------------------------------------------------------------
(* 2.2 of the design document has no transition out of DONE, and 3.6 of the  *)
(* guide asks for a lock that keeps a task from being analysed twice.        *)
AnalysedStaysAnalysed ==
    [][\A t \in Tasks : analysis_status[t] = "DONE" => analysis_status'[t] = "DONE"]_analysisVars
=============================================================================
