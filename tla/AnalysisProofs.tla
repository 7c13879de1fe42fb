--------------------------- MODULE AnalysisProofs ---------------------------
(***************************************************************************)
(* Proofs about Analysis: what an analysed row says, who looks after a     *)
(* RUNNING one, which rows are analysed at all and how many analyzers a    *)
(* parent runs, for any number of tasks and any batch limit.               *)
(***************************************************************************)
EXTENDS Analysis, TLAPS

(* What an analyzer has put into the storage and the database by the place   *)
(* it has reached.                                                           *)
StepsDone ==
    \A o \in Owners, t \in Tasks :
        /\ analyzer[o][t] \in {"advising", "closing"} => t \in flamegraphs
        /\ analyzer[o][t] = "closing" => t \in advised

AInv == AnalysisTypeOK /\ StepsDone /\ DoneMeansAnalysed

(* An analyzer that has not exited has its parent waiting, or the parent was *)
(* killed and only apiserver's analyzer survives that.                       *)
Parents ==
    \A t \in Tasks :
        /\ analyzer["apiserver"][t] \in Working => trigger[t] \in {"waiting", "killed"}
        /\ analyzer["worker"][t] \in Working => worker = "waiting" /\ Current(t)

(* Who will write how the analysis of t ended.  One whose analyzer has       *)
(* exited with 0 will not: the analyzer has done it.                         *)
LookedAfter(t) ==
    \/ trigger[t] \in {"launching", "killed"}
    \/ trigger[t] = "waiting" /\ analyzer["apiserver"][t] # "ok"
    \/ worker = "launching" /\ Current(t)
    \/ worker = "waiting" /\ Current(t) /\ analyzer["worker"][t] # "ok"
    \/ analyzer["worker"][t] \in {"killed", "unlaunched"}

RunningLookedAfter ==
    \A t \in Tasks : analysis_status[t] = "RUNNING" /\ ~deleted[t] => LookedAfter(t)

WInv == AnalysisTypeOK /\ Parents /\ RunningLookedAfter
------------------------------------------------------------------------------
(* Every action keeps the types.                                             *)
LEMMA TypeStep ==
    AnalysisTypeOK /\ [AnalysisNext]_analysisVars => AnalysisTypeOK'
<1> SUFFICES ASSUME AnalysisTypeOK, [AnalysisNext]_analysisVars
             PROVE  AnalysisTypeOK'
    OBVIOUS
<1> USE DEF AnalysisTypeOK, rowVars, outputVars, Owners, Working, Idle
<1>1. ASSUME NEW t \in Tasks, Uploading(t) PROVE AnalysisTypeOK'
    BY <1>1 DEF Uploading
<1>2. ASSUME NEW t \in Tasks, CollectionDone(t) PROVE AnalysisTypeOK'
    BY <1>2 DEF CollectionDone
<1>3. ASSUME NEW t \in Tasks, CollectionFails(t) PROVE AnalysisTypeOK'
    BY <1>3 DEF CollectionFails
<1>4. ASSUME NEW t \in Tasks, MarkRunning(t) PROVE AnalysisTypeOK'
    BY <1>4 DEF MarkRunning, UpdateAnalysis
<1>5. ASSUME NEW t \in Tasks, ScriptStarts(t) PROVE AnalysisTypeOK'
    BY <1>5 DEF ScriptStarts
<1>6. ASSUME NEW t \in Tasks, ScriptFails(t) PROVE AnalysisTypeOK'
    BY <1>6 DEF ScriptFails, UpdateAnalysis
<1>7. ASSUME NEW t \in Tasks, ScriptFinishes(t) PROVE AnalysisTypeOK'
    BY <1>7 DEF ScriptFinishes
<1>8. ASSUME NEW t \in Tasks, DeleteTask(t) PROVE AnalysisTypeOK'
    BY <1>8 DEF DeleteTask
<1>9. ASSUME NEW t \in Tasks, Claim(t) PROVE AnalysisTypeOK'
    BY <1>9 DEF Claim, NextRow, SetAnalysis
<1>10. ASSUME NEW t \in Tasks, Launch(t) PROVE AnalysisTypeOK'
    BY <1>10 DEF Launch
<1>23. ASSUME NEW t \in Tasks, LaunchFails(t) PROVE AnalysisTypeOK'
    BY <1>23 DEF LaunchFails, NextRow
<1>11. ASSUME NEW t \in Tasks, Reap(t) PROVE AnalysisTypeOK'
    BY <1>11 DEF Reap, NextRow, SetAnalysis
<1>12. ASSUME NEW t \in Tasks, NEW o \in Owners, Start(o, t) PROVE AnalysisTypeOK'
    BY <1>12 DEF Start, Goto, SetAnalysis
<1>13. ASSUME NEW t \in Tasks, NEW o \in Owners, PipelineWorks(o, t) PROVE AnalysisTypeOK'
    BY <1>13 DEF PipelineWorks, Goto
<1>14. ASSUME NEW t \in Tasks, NEW o \in Owners, PipelineFails(o, t) PROVE AnalysisTypeOK'
    BY <1>14 DEF PipelineFails, Goto
<1>15. ASSUME NEW t \in Tasks, NEW o \in Owners, AdviseWorks(o, t) PROVE AnalysisTypeOK'
    BY <1>15 DEF AdviseWorks, Goto
<1>16. ASSUME NEW t \in Tasks, NEW o \in Owners, AdviseFails(o, t) PROVE AnalysisTypeOK'
    BY <1>16 DEF AdviseFails, Goto
<1>17. ASSUME NEW t \in Tasks, NEW o \in Owners, Close(o, t) PROVE AnalysisTypeOK'
    <2>1. PICK s \in {"DONE", "FAILED"}, code \in {"ok", "error"} :
              SetAnalysis(t, s) /\ Goto(o, t, code)
        BY <1>17 DEF Close
    <2>2. analysis_status' \in [Tasks -> {"PENDING", "RUNNING", "DONE", "FAILED"}]
        BY <2>1 DEF SetAnalysis
    <2>3. analyzer' \in [Owners -> [Tasks -> Working \cup Idle]]
        BY <2>1 DEF Goto
    <2> QED
        BY <1>17, <2>2, <2>3 DEF Close
<1>18. ASSUME NEW t \in Tasks, NEW o \in Owners, AnalyzerCrash(o, t) PROVE AnalysisTypeOK'
    BY <1>18 DEF AnalyzerCrash, Goto
<1>19. CASE Poll
    BY <1>19 DEF Poll, Oldest, Selected
<1>20. CASE ApiserverCrash
    BY <1>20 DEF ApiserverCrash
<1>21. CASE WorkerCrash
    BY <1>21 DEF WorkerCrash
<1>22. CASE UNCHANGED analysisVars
    BY <1>22 DEF analysisVars
<1> HIDE DEF AnalysisTypeOK, rowVars, outputVars, Owners, Working, Idle
<1> QED
    BY <1>1, <1>2, <1>3, <1>4, <1>5, <1>6, <1>7, <1>8, <1>9, <1>10, <1>11, <1>12, <1>13,
       <1>14, <1>15, <1>16, <1>17, <1>18, <1>19, <1>20, <1>21, <1>22, <1>23 DEF AnalysisNext

(* A step that brings no analyzer to advising or closing, makes no analysis  *)
(* DONE and removes nothing from the storage or the database.                *)
Quiet ==
    /\ flamegraphs \subseteq flamegraphs'
    /\ advised \subseteq advised'
    /\ \A o \in Owners, t \in Tasks :
          analyzer'[o][t] \in {"advising", "closing"} => analyzer'[o][t] = analyzer[o][t]
    /\ \A t \in Tasks : analysis_status'[t] = "DONE" => analysis_status[t] = "DONE"

(* What an analyzer and a DONE row stand for survives such a step.           *)
LEMMA QuietKeeps ==
    StepsDone /\ DoneMeansAnalysed /\ Quiet => StepsDone' /\ DoneMeansAnalysed'
BY DEF StepsDone, DoneMeansAnalysed, Quiet

(* Only three actions of an analyzer are not of that kind.                   *)
LEMMA OutputStep ==
    AInv /\ [AnalysisNext]_analysisVars => StepsDone' /\ DoneMeansAnalysed'
<1> SUFFICES ASSUME AInv, [AnalysisNext]_analysisVars
             PROVE  StepsDone' /\ DoneMeansAnalysed'
    OBVIOUS
<1>0. AnalysisTypeOK /\ StepsDone /\ DoneMeansAnalysed
    BY DEF AInv
<1> USE <1>0 DEF rowVars, outputVars
<1>1. ASSUME NEW t \in Tasks, Uploading(t) PROVE Quiet
    BY <1>1 DEF Quiet, AnalysisTypeOK, Owners, Uploading
<1>2. ASSUME NEW t \in Tasks, CollectionDone(t) PROVE Quiet
    BY <1>2 DEF Quiet, AnalysisTypeOK, Owners, CollectionDone
<1>3. ASSUME NEW t \in Tasks, CollectionFails(t) PROVE Quiet
    BY <1>3 DEF Quiet, AnalysisTypeOK, Owners, CollectionFails
<1>4. ASSUME NEW t \in Tasks, MarkRunning(t) PROVE Quiet
    BY <1>4 DEF Quiet, AnalysisTypeOK, Owners, MarkRunning, UpdateAnalysis
<1>5. ASSUME NEW t \in Tasks, ScriptStarts(t) PROVE Quiet
    BY <1>5 DEF Quiet, AnalysisTypeOK, Owners, ScriptStarts
<1>6. ASSUME NEW t \in Tasks, ScriptFails(t) PROVE Quiet
    BY <1>6 DEF Quiet, AnalysisTypeOK, Owners, ScriptFails, UpdateAnalysis
<1>7. ASSUME NEW t \in Tasks, ScriptFinishes(t) PROVE Quiet
    BY <1>7 DEF Quiet, AnalysisTypeOK, Owners, ScriptFinishes
<1>8. ASSUME NEW t \in Tasks, DeleteTask(t) PROVE Quiet
    BY <1>8 DEF Quiet, AnalysisTypeOK, Owners, DeleteTask
<1>9. ASSUME NEW t \in Tasks, Claim(t) PROVE Quiet
    BY <1>9 DEF Quiet, AnalysisTypeOK, Owners, Claim, NextRow, SetAnalysis
<1>10. ASSUME NEW t \in Tasks, Launch(t) \/ LaunchFails(t) PROVE Quiet
    BY <1>10 DEF Quiet, AnalysisTypeOK, Owners, Launch, LaunchFails
<1>11. ASSUME NEW t \in Tasks, Reap(t) PROVE Quiet
    BY <1>11 DEF Quiet, AnalysisTypeOK, Owners, Reap, NextRow, SetAnalysis
<1>12. ASSUME NEW t \in Tasks, NEW o \in Owners, Start(o, t) PROVE Quiet
    BY <1>12 DEF Quiet, AnalysisTypeOK, Start, Goto, SetAnalysis
<1>13. ASSUME NEW t \in Tasks, NEW o \in Owners, PipelineFails(o, t) PROVE Quiet
    BY <1>13 DEF Quiet, AnalysisTypeOK, PipelineFails, Goto
<1>14. ASSUME NEW t \in Tasks, NEW o \in Owners, AdviseFails(o, t) PROVE Quiet
    BY <1>14 DEF Quiet, AnalysisTypeOK, AdviseFails, Goto
<1>15. ASSUME NEW t \in Tasks, NEW o \in Owners, AnalyzerCrash(o, t) PROVE Quiet
    BY <1>15 DEF Quiet, AnalysisTypeOK, AnalyzerCrash, Goto
<1>16. ASSUME Poll PROVE Quiet
    BY <1>16 DEF Quiet, AnalysisTypeOK, Poll
<1>17. ASSUME ApiserverCrash PROVE Quiet
    BY <1>17 DEF Quiet, AnalysisTypeOK, ApiserverCrash
<1>18. ASSUME WorkerCrash PROVE Quiet
    BY <1>18 DEF Quiet, AnalysisTypeOK, WorkerCrash, Owners
<1>19. ASSUME UNCHANGED analysisVars PROVE Quiet
    BY <1>19 DEF Quiet, AnalysisTypeOK, analysisVars
<1>20. ASSUME NEW t \in Tasks, NEW o \in Owners, PipelineWorks(o, t)
       PROVE  StepsDone' /\ DoneMeansAnalysed'
    BY <1>20 DEF StepsDone, DoneMeansAnalysed, AnalysisTypeOK, PipelineWorks, Goto
<1>21. ASSUME NEW t \in Tasks, NEW o \in Owners, AdviseWorks(o, t)
       PROVE  StepsDone' /\ DoneMeansAnalysed'
    BY <1>21 DEF StepsDone, DoneMeansAnalysed, AnalysisTypeOK, AdviseWorks, Goto
<1>22. ASSUME NEW t \in Tasks, NEW o \in Owners, Close(o, t)
       PROVE  StepsDone' /\ DoneMeansAnalysed'
    <2>1. CASE analyzer[o][t] = "closing" /\ SetAnalysis(t, "DONE") /\ Goto(o, t, "ok")
        <3>1. t \in flamegraphs \cap advised
            BY <2>1 DEF StepsDone
        <3> QED
            BY <1>22, <2>1, <3>1 DEF StepsDone, DoneMeansAnalysed, AnalysisTypeOK, Close, SetAnalysis, Goto
    <2>2. CASE analyzer[o][t] = "failing" /\ SetAnalysis(t, "FAILED") /\ Goto(o, t, "error")
        BY <1>22, <2>2 DEF StepsDone, DoneMeansAnalysed, AnalysisTypeOK, Close, SetAnalysis, Goto
    <2> QED
        BY <1>22, <2>1, <2>2 DEF Close
<1>23. CASE Quiet
    BY <1>23, QuietKeeps
<1> QED
    BY <1>1, <1>2, <1>3, <1>4, <1>5, <1>6, <1>7, <1>8, <1>9, <1>10, <1>11, <1>12, <1>13,
       <1>14, <1>15, <1>16, <1>17, <1>18, <1>19, <1>20, <1>21, <1>22, <1>23 DEF
       AnalysisNext

------------------------------------------------------------------------------
(* The inductive invariant.                                                  *)
THEOREM AnalysisInductive == AnalysisSpec => []AInv
<1>1. AnalysisInit => AInv
    BY DEF AnalysisInit, AInv, AnalysisTypeOK, StepsDone, DoneMeansAnalysed, Owners, Idle
<1>2. AInv /\ [AnalysisNext]_analysisVars => AInv'
    BY TypeStep, OutputStep DEF AInv
<1> QED
    BY <1>1, <1>2, PTL DEF AnalysisSpec

(* The rows, both parents and their analyzers keep their types.              *)
THEOREM AnalysisTypesHold == AnalysisSpec => []AnalysisTypeOK
<1>1. AInv => AnalysisTypeOK
    BY DEF AInv
<1> QED
    BY <1>1, AnalysisInductive, PTL

(* poll_worker.py and hotmethod_analyzer.py: DONE is written after the flame *)
(* graph and the suggestions, by whatever analyzer and whatever else fails.  *)
THEOREM DoneIsAnalysed == AnalysisSpec => []DoneMeansAnalysed
<1>1. AInv => DoneMeansAnalysed
    BY DEF AInv
<1> QED
    BY <1>1, AnalysisInductive, PTL

------------------------------------------------------------------------------
(* RUNNING rows.  No update of analysis_status gets lost.                    *)
UpdatesArrive == "db write" \notin Faults

(* The worker is at one row at a time.                                       *)
LEMMA OneCurrent ==
    ASSUME batch \subseteq Tasks, NEW t \in Tasks, NEW u \in Tasks, Current(t), Current(u)
    PROVE  t = u
BY AnalysisAssumption DEF Current

(* A step of an analyzer takes nobody from his row, as long as it does not   *)
(* exit with 0 from a row that stays RUNNING.                                *)
LEMMA AnalyzerMoves ==
    ASSUME WInv, NEW t \in Tasks, NEW o \in Owners, NEW next \in Working \cup {"ok", "error"},
           analyzer[o][t] \in Working, Goto(o, t, next),
           UNCHANGED <<deleted, trigger, worker, batch>>,
           \A u \in Tasks : analysis_status'[u] = "RUNNING" =>
               IF u = t THEN next # "ok" ELSE analysis_status[u] = "RUNNING"
    PROVE  Parents' /\ RunningLookedAfter'
<1>1. \A p \in Owners, u \in Tasks :
          analyzer'[p][u] = IF p = o /\ u = t THEN next ELSE analyzer[p][u]
    BY DEF Goto, WInv, AnalysisTypeOK
<1>2. \A u \in Tasks : Current(u)' <=> Current(u)
    BY DEF Current
<1>3. Parents'
    BY <1>1, <1>2 DEF WInv, Parents, Owners
<1>4. LookedAfter(t)' \/ next = "ok"
    BY <1>1, <1>2 DEF WInv, Parents, LookedAfter, Owners, Working
<1>5. \A u \in Tasks \ {t} : LookedAfter(u) => LookedAfter(u)'
    BY <1>1, <1>2 DEF LookedAfter, Owners
<1> QED
    BY <1>3, <1>4, <1>5 DEF WInv, RunningLookedAfter

(* A step of the trigger takes nobody from a row but its own.                *)
LEMMA TriggerMoves ==
    ASSUME WInv, NEW t \in Tasks, NEW next,
           analyzer["apiserver"][t] \notin Working,
           trigger' = [trigger EXCEPT ![t] = next],
           UNCHANGED <<deleted, worker, batch, analyzer>>,
           \A u \in Tasks \ {t} : analysis_status'[u] = analysis_status[u],
           analysis_status'[t] = "RUNNING" /\ ~deleted[t] => LookedAfter(t)'
    PROVE  Parents' /\ RunningLookedAfter'
<1>1. \A u \in Tasks : trigger'[u] = IF u = t THEN next ELSE trigger[u]
    BY DEF WInv, AnalysisTypeOK
<1>2. \A u \in Tasks : Current(u)' <=> Current(u)
    BY DEF Current
<1>3. Parents'
    BY <1>1, <1>2 DEF WInv, Parents
<1>4. \A u \in Tasks \ {t} : LookedAfter(u) => LookedAfter(u)'
    BY <1>1, <1>2 DEF LookedAfter
<1> QED
    BY <1>3, <1>4 DEF WInv, RunningLookedAfter

LEMMA RunningStep ==
    UpdatesArrive /\ WInv /\ [AnalysisNext]_analysisVars => Parents' /\ RunningLookedAfter'
<1> SUFFICES ASSUME UpdatesArrive, WInv, [AnalysisNext]_analysisVars
             PROVE  Parents' /\ RunningLookedAfter'
    OBVIOUS
<1>0. AnalysisTypeOK /\ Parents /\ RunningLookedAfter
    BY DEF WInv
<1>1. ASSUME NEW t \in Tasks, Uploading(t) PROVE Parents' /\ RunningLookedAfter'
    BY <1>0, <1>1 DEF Current, Uploading,
       AnalysisTypeOK, UpdatesArrive, Parents, RunningLookedAfter, LookedAfter, Working, Owners,
       rowVars, outputVars
<1>2. ASSUME NEW t \in Tasks, CollectionDone(t) PROVE Parents' /\ RunningLookedAfter'
    <2>1. /\ trigger[t] = "none" /\ trigger' = [trigger EXCEPT ![t] = "marking"]
          /\ UNCHANGED <<deleted, worker, batch, analyzer>>
        BY <1>2 DEF CollectionDone
    <2>2. \/ analysis_status' = [analysis_status EXCEPT ![t] = "PENDING"]
          \/ UNCHANGED analysis_status
        BY <1>2 DEF CollectionDone
    <2>3. analyzer["apiserver"][t] \notin Working
        BY <1>0, <2>1 DEF Parents
    <2>4. \A u \in Tasks \ {t} : analysis_status'[u] = analysis_status[u]
        BY <1>0, <2>2 DEF AnalysisTypeOK
    <2>5. analysis_status'[t] # "RUNNING" \/ UNCHANGED analysis_status
        BY <1>0, <2>2 DEF AnalysisTypeOK
    <2>6. LookedAfter(t) => LookedAfter(t)'
        BY <2>1 DEF LookedAfter, Current
    <2>7. analysis_status'[t] = "RUNNING" /\ ~deleted[t] => LookedAfter(t)'
        BY <1>0, <2>5, <2>6 DEF RunningLookedAfter
    <2> QED
        BY <2>1, <2>3, <2>4, <2>7, TriggerMoves
<1>3. ASSUME NEW t \in Tasks, CollectionFails(t) PROVE Parents' /\ RunningLookedAfter'
    BY <1>0, <1>3 DEF Current, CollectionFails,
       AnalysisTypeOK, UpdatesArrive, Parents, RunningLookedAfter, LookedAfter, Working, Owners,
       rowVars, outputVars
<1>4. ASSUME NEW t \in Tasks, MarkRunning(t) PROVE Parents' /\ RunningLookedAfter'
    <2>1. /\ trigger[t] = "marking" /\ trigger' = [trigger EXCEPT ![t] = "launching"]
          /\ UNCHANGED <<deleted, worker, batch, analyzer>>
        BY <1>4 DEF MarkRunning
    <2>2. analyzer["apiserver"][t] \notin Working
        BY <1>0, <2>1 DEF Parents
    <2>3. \A u \in Tasks \ {t} : analysis_status'[u] = analysis_status[u]
        BY <1>0, <1>4 DEF MarkRunning, UpdateAnalysis, AnalysisTypeOK
    <2>4. LookedAfter(t)'
        BY <1>0, <2>1 DEF LookedAfter, AnalysisTypeOK
    <2> QED
        BY <2>1, <2>2, <2>3, <2>4, TriggerMoves
<1>5. ASSUME NEW t \in Tasks, ScriptStarts(t) PROVE Parents' /\ RunningLookedAfter'
    BY <1>0, <1>5 DEF Current, ScriptStarts,
       AnalysisTypeOK, UpdatesArrive, Parents, RunningLookedAfter, LookedAfter, Working, Owners,
       rowVars, outputVars
<1>6. ASSUME NEW t \in Tasks, ScriptFails(t) PROVE Parents' /\ RunningLookedAfter'
    <2>1. /\ trigger' = [trigger EXCEPT ![t] = "over"]
          /\ UNCHANGED <<deleted, worker, batch, analyzer>>
        BY <1>6 DEF ScriptFails
    <2>2. analyzer["apiserver"][t] \notin Working
        BY <1>0, <1>6 DEF ScriptFails, Parents, Working
    <2>3. analysis_status' = IF deleted[t] THEN analysis_status
                             ELSE [analysis_status EXCEPT ![t] = "FAILED"]
        BY <1>6 DEF ScriptFails, UpdateAnalysis, UpdatesArrive
    <2>4. \A u \in Tasks \ {t} : analysis_status'[u] = analysis_status[u]
        BY <1>0, <2>3 DEF AnalysisTypeOK
    <2>5. deleted[t] \/ analysis_status'[t] = "FAILED"
        BY <1>0, <2>3 DEF AnalysisTypeOK
    <2> QED
        BY <2>1, <2>2, <2>4, <2>5, TriggerMoves
<1>7. ASSUME NEW t \in Tasks, ScriptFinishes(t) PROVE Parents' /\ RunningLookedAfter'
    BY <1>0, <1>7 DEF Current, ScriptFinishes,
       AnalysisTypeOK, UpdatesArrive, Parents, RunningLookedAfter, LookedAfter, Working, Owners,
       rowVars, outputVars
<1>8. ASSUME NEW t \in Tasks, DeleteTask(t) PROVE Parents' /\ RunningLookedAfter'
    BY <1>0, <1>8 DEF Current, DeleteTask,
       AnalysisTypeOK, UpdatesArrive, Parents, RunningLookedAfter, LookedAfter, Working, Owners,
       rowVars, outputVars
<1>9. ASSUME NEW t \in Tasks, Claim(t) PROVE Parents' /\ RunningLookedAfter'
    <2>1. /\ worker = "claiming" /\ worker' = "launching"
          /\ Current(t) /\ UNCHANGED <<deleted, trigger, batch, analyzer>>
          /\ analysis_status' = [analysis_status EXCEPT ![t] = "RUNNING"]
        BY <1>9 DEF Claim, UpdatesArrive
    <2>2. \A u \in Tasks : Current(u)' <=> Current(u)
        BY <2>1 DEF Current
    <2>3. Parents'
        BY <1>0, <2>1, <2>2 DEF Parents
    <2>4. LookedAfter(t)'
        BY <2>1, <2>2 DEF LookedAfter
    <2>5. \A u \in Tasks \ {t} : LookedAfter(u) => LookedAfter(u)'
        BY <2>1, <2>2 DEF LookedAfter
    <2> QED
        BY <1>0, <2>1, <2>3, <2>4, <2>5 DEF RunningLookedAfter, AnalysisTypeOK
<1>10. ASSUME NEW t \in Tasks, Launch(t) PROVE Parents' /\ RunningLookedAfter'
    <2>1. /\ worker = "launching" /\ worker' = "waiting"
          /\ Current(t) /\ UNCHANGED <<deleted, analysis_status, trigger, batch>>
        BY <1>10 DEF Launch, rowVars
    <2>2. \A p \in Owners, u \in Tasks :
              analyzer'[p][u] = IF p = "worker" /\ u = t THEN "started" ELSE analyzer[p][u]
        BY <1>0, <1>10 DEF Launch, AnalysisTypeOK, Owners
    <2>3. \A u \in Tasks : Current(u)' <=> Current(u)
        BY <2>1 DEF Current
    <2>4. Parents'
        BY <1>0, <2>1, <2>2, <2>3 DEF Parents, Owners
    <2>5. LookedAfter(t)'
        BY <2>1, <2>2, <2>3 DEF LookedAfter, Owners
    <2>6. \A u \in Tasks \ {t} : LookedAfter(u) => LookedAfter(u)'
        <3>1. \A u \in Tasks \ {t} : ~Current(u)
            BY <1>0, <2>1, OneCurrent DEF AnalysisTypeOK
        <3> QED
            BY <2>1, <2>2, <2>3, <3>1 DEF LookedAfter, Owners
    <2> QED
        BY <1>0, <2>1, <2>4, <2>5, <2>6 DEF RunningLookedAfter
<1>11. ASSUME NEW t \in Tasks, Reap(t) PROVE Parents' /\ RunningLookedAfter'
    <2>1. /\ worker = "waiting" /\ Current(t) /\ UNCHANGED <<deleted, trigger>>
          /\ \/ analyzer["worker"][t] = "ok" /\ UNCHANGED analysis_status
             \/ /\ analyzer["worker"][t] = "error"
                /\ analysis_status' = [analysis_status EXCEPT ![t] = "FAILED"]
        BY <1>11 DEF Reap, SetAnalysis, UpdatesArrive
    <2>2. \A p \in Owners, u \in Tasks :
              analyzer'[p][u] = IF p = "worker" /\ u = t THEN "none" ELSE analyzer[p][u]
        BY <1>0, <1>11 DEF Reap, AnalysisTypeOK, Owners
    <2>3. \A u \in Tasks \ {t} : ~Current(u)
        BY <1>0, <2>1, OneCurrent DEF AnalysisTypeOK
    <2>4. Parents'
        <3>1. \A u \in Tasks : analyzer["worker"][u] \notin Working
            BY <1>0, <2>1, <2>3 DEF Parents, Working
        <3> QED
            BY <1>0, <2>1, <2>2, <3>1 DEF Parents, Owners, Working
    <2>5. \A u \in Tasks \ {t} : LookedAfter(u) => LookedAfter(u)'
        BY <2>1, <2>2, <2>3 DEF LookedAfter, Owners
    <2>6. analysis_status'[t] = "RUNNING" /\ LookedAfter(t) => LookedAfter(t)'
        BY <1>0, <2>1, <2>2 DEF LookedAfter, Owners, AnalysisTypeOK
    <2>7. \A u \in Tasks : analysis_status'[u] = "RUNNING" => analysis_status[u] = "RUNNING"
        BY <1>0, <2>1 DEF AnalysisTypeOK
    <2> QED
        BY <1>0, <2>1, <2>4, <2>5, <2>6, <2>7 DEF RunningLookedAfter
<1>23. ASSUME NEW t \in Tasks, LaunchFails(t) PROVE Parents' /\ RunningLookedAfter'
    <2>1. worker = "launching" /\ Current(t) /\ UNCHANGED <<deleted, analysis_status, trigger>>
        BY <1>23 DEF LaunchFails, rowVars
    <2>2. \A p \in Owners, u \in Tasks :
              analyzer'[p][u] = IF p = "worker" /\ u = t THEN "unlaunched" ELSE analyzer[p][u]
        BY <1>0, <1>23 DEF LaunchFails, AnalysisTypeOK, Owners
    <2>3. \A u \in Tasks \ {t} : ~Current(u)
        BY <1>0, <2>1, OneCurrent DEF AnalysisTypeOK
    <2>4. Parents'
        BY <1>0, <2>1, <2>2 DEF Parents, Owners, Working
    <2>5. LookedAfter(t)'
        BY <2>2 DEF LookedAfter, Owners
    <2>6. \A u \in Tasks \ {t} : LookedAfter(u) => LookedAfter(u)'
        BY <2>1, <2>2, <2>3 DEF LookedAfter, Owners
    <2> QED
        BY <1>0, <2>1, <2>4, <2>5, <2>6 DEF RunningLookedAfter
<1>12. ASSUME NEW t \in Tasks, NEW o \in Owners, Start(o, t) PROVE Parents' /\ RunningLookedAfter'
    <2>1. /\ analyzer[o][t] \in Working
          /\ Goto(o, t, "working")
          /\ UNCHANGED <<deleted, trigger, worker, batch>>
        BY <1>12 DEF Start, Working
    <2>2. \A u \in Tasks \ {t} : analysis_status'[u] = analysis_status[u]
        BY <1>0, <1>12 DEF Start, SetAnalysis, AnalysisTypeOK
    <2> QED
        BY <2>1, <2>2, AnalyzerMoves DEF Working
<1>13. ASSUME NEW t \in Tasks, NEW o \in Owners, PipelineWorks(o, t) PROVE Parents' /\ RunningLookedAfter'
    <2>1. /\ analyzer[o][t] \in Working
          /\ Goto(o, t, "advising")
          /\ UNCHANGED <<deleted, trigger, worker, batch>>
          /\ UNCHANGED analysis_status
        BY <1>13 DEF PipelineWorks, Working, rowVars
    <2> QED
        BY <2>1, AnalyzerMoves DEF Working
<1>14. ASSUME NEW t \in Tasks, NEW o \in Owners, PipelineFails(o, t) PROVE Parents' /\ RunningLookedAfter'
    <2>1. /\ analyzer[o][t] \in Working
          /\ Goto(o, t, "failing")
          /\ UNCHANGED <<deleted, trigger, worker, batch>>
          /\ UNCHANGED analysis_status
        BY <1>14 DEF PipelineFails, Working, rowVars
    <2> QED
        BY <2>1, AnalyzerMoves DEF Working
<1>15. ASSUME NEW t \in Tasks, NEW o \in Owners, AdviseWorks(o, t) PROVE Parents' /\ RunningLookedAfter'
    <2>1. /\ analyzer[o][t] \in Working
          /\ Goto(o, t, "closing")
          /\ UNCHANGED <<deleted, trigger, worker, batch>>
          /\ UNCHANGED analysis_status
        BY <1>15 DEF AdviseWorks, Working, rowVars
    <2> QED
        BY <2>1, AnalyzerMoves DEF Working
<1>16. ASSUME NEW t \in Tasks, NEW o \in Owners, AdviseFails(o, t) PROVE Parents' /\ RunningLookedAfter'
    <2>1. /\ analyzer[o][t] \in Working
          /\ Goto(o, t, "failing")
          /\ UNCHANGED <<deleted, trigger, worker, batch>>
          /\ UNCHANGED analysis_status
        BY <1>16 DEF AdviseFails, Working, rowVars
    <2> QED
        BY <2>1, AnalyzerMoves DEF Working
<1>17. ASSUME NEW t \in Tasks, NEW o \in Owners, Close(o, t) PROVE Parents' /\ RunningLookedAfter'
    <2>1. analyzer[o][t] \in Working /\ UNCHANGED <<deleted, trigger, worker, batch>>
        BY <1>17 DEF Close, Working
    <2>2. /\ \A u \in Tasks \ {t} : analysis_status'[u] = analysis_status[u]
          /\ analysis_status'[t] # "RUNNING"
        BY <1>0, <1>17 DEF Close, SetAnalysis, UpdatesArrive, AnalysisTypeOK
    <2>3. PICK next \in {"ok", "error"} : Goto(o, t, next)
        BY <1>17 DEF Close
    <2> QED
        BY <2>1, <2>2, <2>3, AnalyzerMoves
<1>18. ASSUME NEW t \in Tasks, NEW o \in Owners, AnalyzerCrash(o, t) PROVE Parents' /\ RunningLookedAfter'
    <2>1. /\ analyzer[o][t] \in Working
          /\ Goto(o, t, "error")
          /\ UNCHANGED <<deleted, trigger, worker, batch>>
          /\ UNCHANGED analysis_status
        BY <1>18 DEF AnalyzerCrash, Working, rowVars
    <2> QED
        BY <2>1, AnalyzerMoves DEF Working
<1>19. CASE Poll
    BY <1>0, <1>19 DEF Current, Poll,
       AnalysisTypeOK, UpdatesArrive, Parents, RunningLookedAfter, LookedAfter, Working, Owners,
       rowVars, outputVars
<1>20. CASE ApiserverCrash
    BY <1>0, <1>20 DEF Current, ApiserverCrash,
       AnalysisTypeOK, UpdatesArrive, Parents, RunningLookedAfter, LookedAfter, Working, Owners,
       rowVars, outputVars
<1>21. CASE WorkerCrash
    BY <1>0, <1>21 DEF Current, WorkerCrash,
       AnalysisTypeOK, UpdatesArrive, Parents, RunningLookedAfter, LookedAfter, Working, Owners,
       rowVars, outputVars
<1>22. CASE UNCHANGED analysisVars
    BY <1>0, <1>22 DEF Current, analysisVars,
       AnalysisTypeOK, UpdatesArrive, Parents, RunningLookedAfter, LookedAfter, Working, Owners,
       rowVars, outputVars
<1> QED
    BY <1>1, <1>2, <1>3, <1>4, <1>5, <1>6, <1>7, <1>8, <1>9, <1>10, <1>11, <1>12, <1>13,
       <1>14, <1>15, <1>16, <1>17, <1>18, <1>19, <1>20, <1>21, <1>22, <1>23 DEF AnalysisNext

(* While updates arrive, each RUNNING row has somebody who will write how    *)
(* its analysis ended, or a crash of apiserver or the worker took him away,  *)
(* or the worker could not launch him.                                       *)
THEOREM RunningStaysWorkedOn == UpdatesArrive => (AnalysisSpec => []RunningIsWorkedOn)
<1> SUFFICES ASSUME UpdatesArrive
             PROVE  AnalysisSpec => []RunningIsWorkedOn
    OBVIOUS
<1>1. AnalysisInit => WInv
    BY DEF AnalysisInit, WInv, AnalysisTypeOK, Parents, RunningLookedAfter, Owners, Working, Idle
<1>2. WInv /\ [AnalysisNext]_analysisVars => WInv'
    BY TypeStep, RunningStep DEF WInv
<1>3. WInv => RunningIsWorkedOn
    BY DEF WInv, RunningLookedAfter, LookedAfter, RunningIsWorkedOn
<1> QED
    BY <1>1, <1>2, <1>3, PTL DEF AnalysisSpec
------------------------------------------------------------------------------
(* Analyzers and their parents, whatever updates are lost.  apiserver starts *)
(* its analyzer of a task once.                                              *)
StartsOnce ==
    \A t \in Tasks :
        trigger[t] \in {"none", "marking", "launching"} => analyzer["apiserver"][t] = "none"

PInv == AnalysisTypeOK /\ Parents /\ StartsOnce

(* Steps that leave the analyzers and the worker's loop alone, and move a    *)
(* trigger only forwards and not away from a running analyzer.               *)
LEMMA ParentsSame ==
    ASSUME PInv, UNCHANGED <<analyzer, worker, batch>>,
           \A t \in Tasks :
               /\ trigger'[t] \in {"none", "marking", "launching"} =>
                      trigger[t] \in {"none", "marking", "launching"}
               /\ trigger[t] \in {"waiting", "killed"} =>
                      \/ trigger'[t] \in {"waiting", "killed"}
                      \/ analyzer["apiserver"][t] \notin Working
    PROVE  Parents' /\ StartsOnce'
<1>1. \A t \in Tasks : Current(t)' <=> Current(t)
    BY DEF Current
<1> QED
    BY <1>1 DEF PInv, Parents, StartsOnce

(* Steps of an analyzer, which only go on or end.                            *)
LEMMA ParentsOfMoved ==
    ASSUME PInv, NEW t \in Tasks, NEW o \in Owners, NEW next \in Working \cup {"ok", "error"},
           analyzer[o][t] \in Working, Goto(o, t, next), UNCHANGED <<trigger, worker, batch>>
    PROVE  Parents' /\ StartsOnce'
<1>1. \A p \in Owners, u \in Tasks :
          analyzer'[p][u] = IF p = o /\ u = t THEN next ELSE analyzer[p][u]
    BY DEF Goto, PInv, AnalysisTypeOK
<1>2. \A u \in Tasks : Current(u)' <=> Current(u)
    BY DEF Current
<1>3. Parents'
    BY <1>1, <1>2 DEF PInv, Parents, Owners
<1>4. StartsOnce'
    BY <1>1 DEF PInv, StartsOnce, Owners, Working
<1> QED
    BY <1>3, <1>4

LEMMA ParentsStep ==
    PInv /\ [AnalysisNext]_analysisVars => Parents' /\ StartsOnce'
<1> SUFFICES ASSUME PInv, [AnalysisNext]_analysisVars PROVE Parents' /\ StartsOnce'
    OBVIOUS
<1>0. AnalysisTypeOK /\ Parents /\ StartsOnce
    BY DEF PInv
<1>1. ASSUME NEW t \in Tasks,
             \/ Uploading(t) \/ CollectionDone(t) \/ CollectionFails(t) \/ MarkRunning(t)
             \/ ScriptFails(t) \/ ScriptFinishes(t) \/ DeleteTask(t)
      PROVE  Parents' /\ StartsOnce'
    <2>1. UNCHANGED <<analyzer, worker, batch>>
        BY <1>1 DEF Uploading, CollectionDone, CollectionFails, MarkRunning, ScriptFails,
            ScriptFinishes, DeleteTask
    <2>2. \A u \in Tasks :
             /\ trigger'[u] \in {"none", "marking", "launching"} =>
                    trigger[u] \in {"none", "marking", "launching"}
             /\ trigger[u] \in {"waiting", "killed"} =>
                    \/ trigger'[u] \in {"waiting", "killed"}
                    \/ analyzer["apiserver"][u] \notin Working
        BY <1>0, <1>1 DEF AnalysisTypeOK, Working, Uploading, CollectionDone, CollectionFails,
            MarkRunning, ScriptFails, ScriptFinishes, DeleteTask
    <2> QED
        BY <2>1, <2>2, ParentsSame
<1>2. ASSUME NEW t \in Tasks, ScriptStarts(t) PROVE Parents' /\ StartsOnce'
    <2>1. /\ trigger' = [trigger EXCEPT ![t] = "waiting"]
          /\ UNCHANGED <<worker, batch>>
        BY <1>2 DEF ScriptStarts
    <2>2. \A p \in Owners, u \in Tasks :
              analyzer'[p][u] = IF p = "apiserver" /\ u = t THEN "started" ELSE analyzer[p][u]
        BY <1>0, <1>2 DEF ScriptStarts, AnalysisTypeOK, Owners
    <2>3. \A u \in Tasks : Current(u)' <=> Current(u)
        BY <2>1 DEF Current
    <2> QED
        BY <1>0, <2>1, <2>2, <2>3 DEF Parents, StartsOnce, AnalysisTypeOK, Owners
<1>3. ASSUME NEW t \in Tasks, Claim(t) PROVE Parents' /\ StartsOnce'
    <2>1. UNCHANGED <<analyzer, trigger>> /\ worker = "claiming"
        BY <1>3 DEF Claim
    <2>2. \A u \in Tasks : analyzer["worker"][u] \notin Working
        BY <1>0, <2>1 DEF Parents
    <2> QED
        BY <1>0, <2>1, <2>2 DEF Parents, StartsOnce
<1>4. ASSUME NEW t \in Tasks, Launch(t) PROVE Parents' /\ StartsOnce'
    <2>1. /\ worker = "launching" /\ worker' = "waiting"
          /\ Current(t) /\ UNCHANGED <<trigger, batch>>
        BY <1>4 DEF Launch
    <2>2. \A p \in Owners, u \in Tasks :
              analyzer'[p][u] = IF p = "worker" /\ u = t THEN "started" ELSE analyzer[p][u]
        BY <1>0, <1>4 DEF Launch, AnalysisTypeOK, Owners
    <2>3. \A u \in Tasks : Current(u)' <=> Current(u)
        BY <2>1 DEF Current
    <2>4. \A u \in Tasks : analyzer["worker"][u] \notin Working
        BY <1>0, <2>1 DEF Parents
    <2> QED
        BY <1>0, <2>1, <2>2, <2>3, <2>4 DEF Parents, StartsOnce, Owners
<1>11. ASSUME NEW t \in Tasks, LaunchFails(t) PROVE Parents' /\ StartsOnce'
    <2>1. worker = "launching" /\ UNCHANGED trigger
        BY <1>11 DEF LaunchFails
    <2>2. \A p \in Owners, u \in Tasks :
              analyzer'[p][u] = IF p = "worker" /\ u = t THEN "unlaunched" ELSE analyzer[p][u]
        BY <1>0, <1>11 DEF LaunchFails, AnalysisTypeOK, Owners
    <2>3. \A u \in Tasks : analyzer["worker"][u] \notin Working
        BY <1>0, <2>1 DEF Parents
    <2> QED
        BY <1>0, <2>1, <2>2, <2>3 DEF Parents, StartsOnce, Owners, Working
<1>5. ASSUME NEW t \in Tasks, Reap(t) PROVE Parents' /\ StartsOnce'
    <2>1. /\ worker = "waiting" /\ Current(t) /\ UNCHANGED trigger
          /\ analyzer["worker"][t] \in {"ok", "error"}
        BY <1>5 DEF Reap
    <2>2. \A p \in Owners, u \in Tasks :
              analyzer'[p][u] = IF p = "worker" /\ u = t THEN "none" ELSE analyzer[p][u]
        BY <1>0, <1>5 DEF Reap, AnalysisTypeOK, Owners
    <2>3. \A u \in Tasks \ {t} : ~Current(u)
        BY <1>0, <2>1, OneCurrent DEF AnalysisTypeOK
    <2>4. \A u \in Tasks : analyzer["worker"][u] \notin Working
        BY <1>0, <2>1, <2>3 DEF Parents, Working
    <2> QED
        BY <1>0, <2>1, <2>2, <2>4 DEF Parents, StartsOnce, Owners, Working
<1>6. ASSUME NEW t \in Tasks, NEW o \in Owners,
             \/ Start(o, t) \/ PipelineWorks(o, t) \/ PipelineFails(o, t)
             \/ AdviseWorks(o, t) \/ AdviseFails(o, t) \/ Close(o, t) \/ AnalyzerCrash(o, t)
      PROVE  Parents' /\ StartsOnce'
    <2>1. analyzer[o][t] \in Working /\ UNCHANGED <<trigger, worker, batch>>
        BY <1>6 DEF Start, PipelineWorks, PipelineFails, AdviseWorks, AdviseFails, Close,
            AnalyzerCrash, Working
    <2>2. PICK next \in Working \cup {"ok", "error"} : Goto(o, t, next)
        BY <1>6 DEF Start, PipelineWorks, PipelineFails, AdviseWorks, AdviseFails, Close,
            AnalyzerCrash, Working
    <2> QED
        BY <2>1, <2>2, ParentsOfMoved
<1>7. CASE Poll
    <2>1. UNCHANGED <<analyzer, trigger>> /\ worker = "polling"
        BY <1>7 DEF Poll
    <2>2. \A u \in Tasks : analyzer["worker"][u] \notin Working
        BY <1>0, <2>1 DEF Parents
    <2> QED
        BY <1>0, <2>1, <2>2 DEF Parents, StartsOnce
<1>8. CASE ApiserverCrash
    <2>1. UNCHANGED <<analyzer, worker, batch>>
        BY <1>8 DEF ApiserverCrash
    <2>2. \A u \in Tasks :
             /\ trigger'[u] \in {"none", "marking", "launching"} =>
                    trigger[u] \in {"none", "marking", "launching"}
             /\ trigger[u] \in {"waiting", "killed"} => trigger'[u] \in {"waiting", "killed"}
        BY <1>0, <1>8 DEF ApiserverCrash
    <2> QED
        BY <2>1, <2>2, ParentsSame
<1>9. CASE WorkerCrash
    <2>1. \A u \in Tasks :
             /\ analyzer'["apiserver"][u] = analyzer["apiserver"][u]
             /\ analyzer'["worker"][u] = IF worker \in {"launching", "waiting"} /\ Current(u)
                                         THEN "killed" ELSE analyzer["worker"][u]
        BY <1>0, <1>9 DEF WorkerCrash, AnalysisTypeOK, Owners
    <2>2. UNCHANGED trigger
        BY <1>9 DEF WorkerCrash
    <2>3. \A u \in Tasks : analyzer'["worker"][u] \notin Working
        BY <1>0, <2>1 DEF Parents, Working
    <2> QED
        BY <1>0, <2>1, <2>2, <2>3 DEF Parents, StartsOnce
<1>10. CASE UNCHANGED analysisVars
    BY <1>10, ParentsSame DEF analysisVars
<1> QED
    BY <1>1, <1>2, <1>3, <1>4, <1>5, <1>6, <1>7, <1>8, <1>9, <1>10, <1>11 DEF AnalysisNext

(* The inductive invariant of analyzers and their parents.                   *)
THEOREM ParentsInductive == AnalysisSpec => []PInv
<1>1. AnalysisInit => PInv
    BY DEF AnalysisInit, PInv, AnalysisTypeOK, Parents, StartsOnce, Owners, Working, Idle
<1>2. PInv /\ [AnalysisNext]_analysisVars => PInv'
    BY TypeStep, ParentsStep DEF PInv
<1> QED
    BY <1>1, <1>2, PTL DEF AnalysisSpec

(* Only two actions start an analyzer.                                       *)
LEMMA StartedBy ==
    ASSUME PInv, [AnalysisNext]_analysisVars, NEW o \in Owners, NEW t \in Tasks,
           analyzer[o][t] # "started", analyzer'[o][t] = "started"
    PROVE  \/ o = "apiserver" /\ ScriptStarts(t)
           \/ o = "worker" /\ Launch(t)
<1> USE DEF PInv, AnalysisTypeOK
<1>1. ASSUME NEW u \in Tasks, ScriptStarts(u) PROVE o = "apiserver" /\ ScriptStarts(t)
    BY <1>1 DEF ScriptStarts, Owners
<1>2. ASSUME NEW u \in Tasks, Launch(u) PROVE o = "worker" /\ Launch(t)
    BY <1>2 DEF Launch, Owners
<1>3. ASSUME NEW u \in Tasks, LaunchFails(u) \/ Reap(u) PROVE FALSE
    BY <1>3 DEF LaunchFails, Reap, Owners
<1>4. ASSUME NEW u \in Tasks, NEW p \in Owners,
             \/ Start(p, u) \/ PipelineWorks(p, u) \/ PipelineFails(p, u)
             \/ AdviseWorks(p, u) \/ AdviseFails(p, u) \/ Close(p, u) \/ AnalyzerCrash(p, u)
      PROVE  FALSE
    <2>1. PICK next \in {"working", "advising", "failing", "closing", "ok", "error"} :
              Goto(p, u, next)
        BY <1>4 DEF Start, PipelineWorks, PipelineFails, AdviseWorks, AdviseFails, Close,
            AnalyzerCrash
    <2> QED
        BY <2>1 DEF Goto
<1>5. CASE WorkerCrash
    BY <1>5 DEF WorkerCrash, Owners
<1>6. analyzer' # analyzer
    OBVIOUS
<1> HIDE DEF PInv, AnalysisTypeOK
<1> QED
    BY <1>1, <1>2, <1>3, <1>4, <1>5, <1>6
    DEF AnalysisNext, Uploading, CollectionDone, CollectionFails, MarkRunning, ScriptFails,
        ScriptFinishes, DeleteTask, Claim, Poll, ApiserverCrash, analysisVars

(* The worker runs one analyzer at a time, apiserver one per task in its     *)
(* life: never two of one parent in the directory of a task.                 *)
THEOREM OneAnalyzerEach == AnalysisSpec => NoSecondAnalyzer
<1>1. ASSUME PInv, [AnalysisNext]_analysisVars
      PROVE  [\A t \in Tasks :
                /\ analyzer["worker"][t] # "started" /\ analyzer'["worker"][t] = "started" =>
                      \A u \in Tasks : analyzer["worker"][u] \notin Working
                /\ analyzer["apiserver"][t] # "started" /\ analyzer'["apiserver"][t] = "started" =>
                      analyzer["apiserver"][t] = "none"]_analysisVars
    <2>1. ASSUME NEW t \in Tasks, NEW u \in Tasks, analyzer["worker"][t] # "started",
                 analyzer'["worker"][t] = "started"
          PROVE  analyzer["worker"][u] \notin Working
        BY <1>1, <2>1, StartedBy DEF Launch, PInv, Parents, Owners
    <2>2. ASSUME NEW t \in Tasks, analyzer["apiserver"][t] # "started",
                 analyzer'["apiserver"][t] = "started"
          PROVE  analyzer["apiserver"][t] = "none"
        BY <1>1, <2>2, StartedBy DEF ScriptStarts, PInv, StartsOnce, Owners
    <2> QED
        BY <2>1, <2>2
<1> QED
    BY <1>1, ParentsInductive, PTL DEF AnalysisSpec, NoSecondAnalyzer

------------------------------------------------------------------------------
(* Only collected rows are analysed.  Whoever is on a row is so because its  *)
(* collection is done, or the row is deleted.                                *)
Collected(t) == deleted[t] \/ status[t] = "DONE"

CollectedFirst ==
    \A t \in Tasks :
        /\ trigger[t] = "none" => status[t] # "DONE"
        /\ analysis_status[t] # "PENDING" => Collected(t)
        /\ trigger[t] \in {"marking", "launching", "waiting"} => Collected(t)
        /\ t \in batch => Collected(t)
        /\ \A o \in Owners : analyzer[o][t] \in Working => Collected(t)

(* A step that only moves those who are on a collected row.                  *)
LEMMA OnCollected ==
    ASSUME CollectedFirst, NEW t \in Tasks, Collected(t),
           UNCHANGED <<status, deleted>>,
           batch' \subseteq batch,
           \A u \in Tasks : trigger'[u] = trigger[u] \/ (u = t /\ trigger'[u] # "none"),
           \A u \in Tasks : u # t => analysis_status'[u] = analysis_status[u],
           \A p \in Owners, u \in Tasks :
               analyzer'[p][u] \in Working => u = t \/ analyzer[p][u] \in Working
    PROVE  CollectedFirst'
<1>1. \A u \in Tasks : analysis_status'[u] # "PENDING" => Collected(u)
    BY DEF CollectedFirst
<1>2. \A p \in Owners, u \in Tasks : analyzer'[p][u] \in Working => Collected(u)
    BY DEF CollectedFirst
<1>3. \A u \in Tasks : /\ trigger'[u] = "none" => status[u] # "DONE"
                       /\ trigger'[u] \in {"marking", "launching", "waiting"} => Collected(u)
                       /\ u \in batch' => Collected(u)
    BY DEF CollectedFirst
<1>4. \A u \in Tasks : Collected(u)' <=> Collected(u)
    BY DEF Collected
<1> QED
    BY <1>1, <1>2, <1>3, <1>4 DEF CollectedFirst

LEMMA CollectedStep ==
    ASSUME UpdatesArrive, AnalysisTypeOK, CollectedFirst, [AnalysisNext]_analysisVars
    PROVE  CollectedFirst'
<1> USE DEF AnalysisTypeOK, CollectedFirst, Collected, rowVars, outputVars, UpdatesArrive
<1>1. ASSUME NEW t \in Tasks, Uploading(t) PROVE CollectedFirst'
    BY <1>1 DEF Uploading
<1>2. ASSUME NEW t \in Tasks, CollectionDone(t) PROVE CollectedFirst'
    <2>1. /\ trigger' = [trigger EXCEPT ![t] = "marking"]
          /\ UNCHANGED <<deleted, batch, analyzer>>
        BY <1>2 DEF CollectionDone
    <2>2. CASE ~deleted[t] /\ status' = [status EXCEPT ![t] = "DONE"]
               /\ analysis_status' = [analysis_status EXCEPT ![t] = "PENDING"]
        BY <2>1, <2>2
    <2>3. CASE deleted[t] /\ UNCHANGED <<status, analysis_status>>
        BY <2>1, <2>3
    <2> QED
        BY <1>2, <2>2, <2>3 DEF CollectionDone
<1>3. ASSUME NEW t \in Tasks, CollectionFails(t) PROVE CollectedFirst'
    BY <1>3 DEF CollectionFails
<1>4. ASSUME NEW t \in Tasks, MarkRunning(t) PROVE CollectedFirst'
    <2>1. /\ trigger[t] = "marking" /\ trigger' = [trigger EXCEPT ![t] = "launching"]
          /\ UNCHANGED <<status, deleted, batch, analyzer>>
        BY <1>4 DEF MarkRunning
    <2>2. Collected(t)
        BY <2>1
    <2>3. \A u \in Tasks : trigger'[u] = trigger[u] \/ (u = t /\ trigger'[u] # "none")
        BY <2>1
    <2>4. \A u \in Tasks : u # t => analysis_status'[u] = analysis_status[u]
        BY <1>4 DEF MarkRunning, UpdateAnalysis
    <2> HIDE DEF AnalysisTypeOK, CollectedFirst, Collected
    <2> QED
        BY <2>1, <2>2, <2>3, <2>4, OnCollected
<1>5. ASSUME NEW t \in Tasks, ScriptStarts(t) PROVE CollectedFirst'
    <2>1. /\ analyzer' = [analyzer EXCEPT !["apiserver"][t] = "started"]
          /\ trigger[t] = "launching" /\ trigger' = [trigger EXCEPT ![t] = "waiting"]
          /\ UNCHANGED <<status, deleted, analysis_status, batch>>
        BY <1>5 DEF ScriptStarts
    <2>2. analyzer \in [Owners -> [Tasks -> Working \cup Idle]]
        OBVIOUS
    <2>3. \A o \in Owners, u \in Tasks :
              u # t => analyzer'[o][u] = analyzer[o][u]
        <3> HIDE DEF AnalysisTypeOK, CollectedFirst
        <3> QED
            BY <2>1, <2>2
    <2>4. \A u \in Tasks : trigger'[u] = trigger[u] \/ (u = t /\ trigger'[u] # "none")
        BY <2>1
    <2>5. Collected(t)
        BY <2>1
    <2> HIDE DEF AnalysisTypeOK, CollectedFirst, Collected
    <2> QED
        BY <2>1, <2>3, <2>4, <2>5, OnCollected
<1>6. ASSUME NEW t \in Tasks, ScriptFails(t) PROVE CollectedFirst'
    <2>1. /\ trigger' = [trigger EXCEPT ![t] = "over"]
          /\ trigger[t] \in {"launching", "waiting"}
          /\ UNCHANGED <<status, deleted, batch, analyzer>>
        BY <1>6 DEF ScriptFails
    <2>2. Collected(t)
        BY <2>1
    <2>3. \A u \in Tasks : trigger'[u] = trigger[u] \/ (u = t /\ trigger'[u] # "none")
        BY <2>1
    <2>4. \A u \in Tasks : u # t => analysis_status'[u] = analysis_status[u]
        BY <1>6 DEF ScriptFails, UpdateAnalysis
    <2> HIDE DEF AnalysisTypeOK, CollectedFirst, Collected
    <2> QED
        BY <2>1, <2>2, <2>3, <2>4, OnCollected
<1>7. ASSUME NEW t \in Tasks, ScriptFinishes(t) PROVE CollectedFirst'
    BY <1>7 DEF ScriptFinishes
<1>8. ASSUME NEW t \in Tasks, DeleteTask(t) PROVE CollectedFirst'
    BY <1>8 DEF DeleteTask
<1>9. ASSUME NEW t \in Tasks, Claim(t) PROVE CollectedFirst'
    BY <1>9 DEF Claim, NextRow, Current
<1>10. ASSUME NEW t \in Tasks, Launch(t) PROVE CollectedFirst'
    BY <1>10 DEF Launch, Current, Working, Owners
<1>22. ASSUME NEW t \in Tasks, LaunchFails(t) PROVE CollectedFirst'
    <2>1. /\ analyzer' = [analyzer EXCEPT !["worker"][t] = "unlaunched"]
          /\ UNCHANGED <<status, deleted, analysis_status, trigger>>
          /\ t \in batch /\ batch' \subseteq batch
        BY <1>22 DEF LaunchFails, NextRow, Current
    <2>2. \A p \in Owners, u \in Tasks :
              analyzer'[p][u] \in Working => analyzer[p][u] \in Working
        <3>1. analyzer \in [Owners -> [Tasks -> Working \cup Idle]]
            OBVIOUS
        <3> HIDE DEF AnalysisTypeOK, CollectedFirst
        <3>2. \A p \in Owners, u \in Tasks :
                  analyzer'[p][u] = "unlaunched" \/ analyzer'[p][u] = analyzer[p][u]
            BY <2>1, <3>1
        <3>3. "unlaunched" \notin Working
            BY DEF Working
        <3> QED
            BY <3>2, <3>3
    <2>3. Collected(t)
        BY <2>1
    <2> HIDE DEF AnalysisTypeOK, CollectedFirst, Collected
    <2> QED
        BY <2>1, <2>2, <2>3, OnCollected
<1>11. ASSUME NEW t \in Tasks, Reap(t) PROVE CollectedFirst'
    <2>1. /\ analyzer' = [analyzer EXCEPT !["worker"][t] = "none"]
          /\ SetAnalysis(t, "FAILED") \/ UNCHANGED analysis_status
          /\ UNCHANGED <<status, deleted, trigger>>
          /\ t \in batch /\ batch' \subseteq batch
        BY <1>11 DEF Reap, NextRow, Current
    <2>2. \A u \in Tasks : u # t => analysis_status'[u] = analysis_status[u]
        BY <2>1 DEF SetAnalysis
    <2>3. \A p \in Owners, u \in Tasks :
              analyzer'[p][u] \in Working => analyzer[p][u] \in Working
        <3>1. analyzer \in [Owners -> [Tasks -> Working \cup Idle]]
            OBVIOUS
        <3> HIDE DEF AnalysisTypeOK, CollectedFirst
        <3>2. \A p \in Owners, u \in Tasks :
                  analyzer'[p][u] = "none" \/ analyzer'[p][u] = analyzer[p][u]
            BY <2>1, <3>1
        <3>3. "none" \notin Working
            BY DEF Working
        <3> QED
            BY <3>2, <3>3
    <2>4. Collected(t)
        BY <1>11 DEF Reap, Current
    <2> HIDE DEF AnalysisTypeOK, CollectedFirst, Collected
    <2> QED
        BY <2>1, <2>2, <2>3, <2>4, OnCollected
<1>12. ASSUME NEW t \in Tasks, NEW o \in Owners, NEW next,
              analyzer[o][t] \in Working, Goto(o, t, next),
              UNCHANGED <<status, deleted, trigger, batch>>,
              \A u \in Tasks : u # t => analysis_status'[u] = analysis_status[u]
       PROVE  CollectedFirst'
    <2>1. \A p \in Owners, u \in Tasks :
              analyzer'[p][u] \in Working => analyzer[p][u] \in Working
        BY <1>12 DEF Goto
    <2>2. Collected(t)
        BY <1>12
    <2> HIDE DEF AnalysisTypeOK, CollectedFirst, Collected
    <2> QED
        BY <1>12, <2>1, <2>2, OnCollected
<1> HIDE DEF AnalysisTypeOK, CollectedFirst
<1>13. ASSUME NEW t \in Tasks, NEW o \in Owners, Start(o, t) PROVE CollectedFirst'
    BY <1>12, <1>13 DEF AnalysisTypeOK, Start, SetAnalysis, Working
<1>14. ASSUME NEW t \in Tasks, NEW o \in Owners,
              PipelineWorks(o, t) \/ PipelineFails(o, t)
       PROVE  CollectedFirst'
    BY <1>12, <1>14 DEF PipelineWorks, PipelineFails, Working
<1>15. ASSUME NEW t \in Tasks, NEW o \in Owners, AdviseWorks(o, t) \/ AdviseFails(o, t)
       PROVE  CollectedFirst'
    BY <1>12, <1>15 DEF AdviseWorks, AdviseFails, Working
<1>16. ASSUME NEW t \in Tasks, NEW o \in Owners, Close(o, t) PROVE CollectedFirst'
    <2>1. PICK s, next : SetAnalysis(t, s) /\ Goto(o, t, next)
        BY <1>16 DEF Close
    <2>2. analyzer[o][t] \in Working /\ UNCHANGED <<status, deleted, trigger, batch>>
        BY <1>16 DEF Close, Working
    <2>3. \A u \in Tasks : u # t => analysis_status'[u] = analysis_status[u]
        BY <2>1 DEF AnalysisTypeOK, SetAnalysis
    <2> QED
        BY <1>12, <2>1, <2>2, <2>3
<1>17. ASSUME NEW t \in Tasks, NEW o \in Owners, AnalyzerCrash(o, t) PROVE CollectedFirst'
    BY <1>12, <1>17 DEF AnalyzerCrash
<1> USE DEF AnalysisTypeOK, CollectedFirst
<1>18. CASE Poll
    BY <1>18 DEF Poll, Oldest, Selected
<1>19. CASE ApiserverCrash
    BY <1>19 DEF ApiserverCrash
<1>20. CASE WorkerCrash
    BY <1>20 DEF WorkerCrash, Working, Owners
<1>21. CASE UNCHANGED analysisVars
    BY <1>21 DEF analysisVars
<1> HIDE DEF AnalysisTypeOK, CollectedFirst, Collected, rowVars, outputVars, UpdatesArrive
<1> QED
    BY <1>1, <1>2, <1>3, <1>4, <1>5, <1>6, <1>7, <1>8, <1>9, <1>10, <1>11, <1>12, <1>13,
       <1>14, <1>15, <1>16, <1>17, <1>18, <1>19, <1>20, <1>21, <1>22 DEF AnalysisNext

(* While updates arrive, a live row whose analysis has begun, failed or      *)
(* ended is a DONE one, and stays so.                                        *)
THEOREM CollectedBeforeAnalysed == UpdatesArrive => (AnalysisSpec => []AnalysedIsCollected)
<1> SUFFICES ASSUME UpdatesArrive
             PROVE  AnalysisSpec => []AnalysedIsCollected
    OBVIOUS
<1>1. AnalysisInit => CollectedFirst
    BY DEF AnalysisInit, CollectedFirst, Owners, Working
<1>2. AnalysisTypeOK /\ CollectedFirst /\ [AnalysisNext]_analysisVars => CollectedFirst'
    BY CollectedStep
<1>3. CollectedFirst => AnalysedIsCollected
    BY DEF CollectedFirst, Collected, AnalysedIsCollected
<1> QED
    BY <1>1, <1>2, <1>3, AnalysisTypesHold, PTL DEF AnalysisSpec
=============================================================================
