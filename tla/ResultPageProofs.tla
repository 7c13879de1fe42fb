--------------------------- MODULE ResultPageProofs ---------------------------
(***************************************************************************)
(* Proofs about the result page: it only reads, it only ever holds answers *)
(* that apiserver gives, and what these say is over or there is so for     *)
(* good, whatever is lost, late or deleted.                                *)
(***************************************************************************)
EXTENDS ResultPage, AnalysisProofs

(* A step of the page keeps its type: a reply for the row holds a row of the *)
(* database, never the zero row of a deleted task.                           *)
LEMMA PageTypeStep ==
    ASSUME AnalysisTypeOK, PageTypeOK, PageStep PROVE PageTypeOK'
<1> USE DEF PageTypeOK
<1>1. RowNow \in Rows
    <2> DEFINE open == analysis_status[Shown] \in {"PENDING", "RUNNING"}
    <2>1. open \in BOOLEAN
        OBVIOUS
    <2>2. status[Shown] \in {"RUNNING", "UPLOADING", "DONE", "FAILED"}
        BY PageAssumption DEF AnalysisTypeOK
    <2>3. RowNow = <<status[Shown], open>>
        BY DEF RowNow
    <2> HIDE DEF open
    <2> QED
        BY <2>1, <2>2, <2>3 DEF Rows
<1>2. TaskReplies \subseteq Replies
    BY <1>1 DEF TaskReplies, RowReply, Replies
<1>3. CASE Interval
    BY <1>3 DEF Interval, Requests
<1>4. ASSUME NEW request \in Requests, Answer(request) PROVE PageTypeOK'
    <2>1. replies' \subseteq Replies
        <3>1. CASE request = "task"
            BY <1>2, <1>4, <3>1 DEF Answer
        <3>2. CASE request = "suggestions"
            <4> DEFINE found == Shown \in advised
            <4>1. found \in BOOLEAN
                OBVIOUS
            <4>2. replies' = replies \cup {[to |-> "suggestions", found |-> found]}
                BY <1>4, <3>2 DEF Answer
            <4> HIDE DEF found
            <4>3. [to |-> "suggestions", found |-> found] \in Replies
                BY <4>1 DEF Replies
            <4> QED
                BY <4>2, <4>3
        <3>3. CASE request = "files"
            <4>1. [to |-> "files"] \in Replies
                BY DEF Replies
            <4> QED
                BY <1>4, <3>3, <4>1 DEF Answer
        <3> QED
            BY <3>1, <3>2, <3>3 DEF Requests
    <2> QED
        BY <1>4, <2>1 DEF Answer
<1>5. ASSUME NEW reply \in replies, Got(reply) PROVE PageTypeOK'
    <2>1. reply \in Replies
        BY <1>5
    <2>2. CASE GotTask(reply)
        <3>1. reply.row \in Rows
            BY <2>1, <2>2 DEF GotTask, Replies
        <3> QED
            BY <1>5, <2>2, <3>1 DEF Got, GotTask, Requests
    <2>3. CASE GotSuggestions(reply)
        <3>1. reply.found \in BOOLEAN
            BY <2>1, <2>3 DEF GotSuggestions, Replies
        <3> QED
            BY <1>5, <2>3, <3>1 DEF Got, GotSuggestions
    <2>4. CASE GotFiles(reply)
        BY <1>5, <2>4 DEF Got, GotFiles
    <2> QED
        BY <1>5, <2>2, <2>3, <2>4 DEF Got
<1>6. CASE RequestLost
    BY <1>6 DEF RequestLost
<1> QED
    BY <1>3, <1>4, <1>5, <1>6 DEF PageStep

(* The page keeps its type, for any number of tasks and replies under way.   *)
THEOREM PageTypesHold == ResultSpec => []PageTypeOK
<1> DEFINE Inv == AnalysisTypeOK /\ PageTypeOK
<1>1. ResultInit => Inv
    <2>1. AnalysisInit => AnalysisTypeOK
        BY DEF AnalysisInit, AnalysisTypeOK, Owners, Working, Idle
    <2>2. PageInit => PageTypeOK
        BY DEF PageInit, PageTypeOK, Requests
    <2> QED
        BY <2>1, <2>2 DEF ResultInit
<1>2. Inv /\ [ResultNext]_resultVars => Inv'
    <2> SUFFICES ASSUME AnalysisTypeOK, PageTypeOK, [ResultNext]_resultVars
                 PROVE  AnalysisTypeOK' /\ PageTypeOK'
        OBVIOUS
    <2>1. ASSUME UNCHANGED pageVars PROVE PageTypeOK'
        BY <2>1 DEF PageTypeOK, pageVars
    <2>2. AnalysisTypeOK'
        BY TypeStep DEF ResultNext, resultVars
    <2> QED
        BY <2>1, <2>2, PageTypeStep DEF ResultNext, resultVars
<1>3. Inv => PageTypeOK
    OBVIOUS
<1> QED
    BY <1>1, <1>2, <1>3, PTL DEF ResultSpec
------------------------------------------------------------------------------
(* Pages leave the system as it is: what is proved of Analysis holds under   *)
(* them.                                                                     *)
THEOREM PageOnlyReads == ResultSpec => AnalysisSpec
<1>1. ResultInit => AnalysisInit
    BY DEF ResultInit
<1>2. [ResultNext]_resultVars => [AnalysisNext]_analysisVars
    BY DEF ResultNext, resultVars
<1> QED
    BY <1>1, <1>2, PTL DEF ResultSpec, AnalysisSpec

(* The watcher has returned when the collection is over.                     *)
Final == {"DONE", "FAILED"}
WatcherReturned == \A t \in Tasks : status[t] \in Final => trigger[t] # "none"

(* What lasts: the end of a collection and what an analyzer has stored.      *)
Lasts ==
    /\ \A t \in Tasks : status[t] \in Final => status'[t] = status[t]
    /\ flamegraphs \subseteq flamegraphs'
    /\ advised \subseteq advised'

LEMMA FinalLasts ==
    ASSUME AnalysisTypeOK, WatcherReturned, [AnalysisNext]_analysisVars
    PROVE  WatcherReturned' /\ Lasts
<1> USE DEF AnalysisTypeOK, WatcherReturned, Final, Lasts, rowVars, outputVars
<1>1. ASSUME NEW t \in Tasks, Uploading(t) PROVE WatcherReturned' /\ Lasts
    BY <1>1 DEF Uploading
<1>2. ASSUME NEW t \in Tasks, CollectionDone(t) PROVE WatcherReturned' /\ Lasts
    BY <1>2 DEF CollectionDone
<1>3. ASSUME NEW t \in Tasks, CollectionFails(t) PROVE WatcherReturned' /\ Lasts
    BY <1>3 DEF CollectionFails
<1>4. ASSUME NEW t \in Tasks,
             MarkRunning(t) \/ ScriptStarts(t) \/ ScriptFails(t) \/ ScriptFinishes(t)
      PROVE  WatcherReturned' /\ Lasts
    BY <1>4 DEF MarkRunning, ScriptStarts, ScriptFails, ScriptFinishes
<1>5. ASSUME NEW t \in Tasks, DeleteTask(t) \/ Claim(t) \/ Launch(t) \/ LaunchFails(t) \/ Reap(t)
      PROVE  WatcherReturned' /\ Lasts
    BY <1>5 DEF DeleteTask, Claim, Launch, LaunchFails, Reap
<1>6. ASSUME NEW t \in Tasks, NEW o \in Owners,
             \/ Start(o, t) \/ PipelineWorks(o, t) \/ PipelineFails(o, t)
             \/ AdviseWorks(o, t) \/ AdviseFails(o, t) \/ Close(o, t) \/ AnalyzerCrash(o, t)
      PROVE  WatcherReturned' /\ Lasts
    BY <1>6 DEF Start, PipelineWorks, PipelineFails, AdviseWorks, AdviseFails, Close,
        AnalyzerCrash
<1>7. CASE Poll \/ WorkerCrash \/ ApiserverCrash
    BY <1>7 DEF Poll, WorkerCrash, ApiserverCrash
<1>8. CASE UNCHANGED analysisVars
    BY <1>8 DEF analysisVars
<1> HIDE DEF AnalysisTypeOK, WatcherReturned, Final, Lasts, rowVars, outputVars
<1> QED
    BY <1>1, <1>2, <1>3, <1>4, <1>5, <1>6, <1>7, <1>8 DEF AnalysisNext

(* What a row, as a reply or the page holds it, says of the end of the       *)
(* collection.                                                               *)
RowHolds(row) == row[1] \in Final => status[Shown] = row[1]
Drawn == Shown \in flamegraphs /\ status[Shown] = "DONE"

(* Every answer on its way is as good as on the day it was given, and the    *)
(* files are asked for when the collection is known to be done.              *)
AnswerHolds(reply) ==
    /\ reply.to = "task" => RowHolds(reply.row)
    /\ reply.to = "suggestions" /\ reply.found => Shown \in advised
    /\ reply.to = "files" => Drawn

PageHolds ==
    /\ "files" \in asked => status[Shown] = "DONE"
    /\ \A reply \in replies : AnswerHolds(reply)
    /\ seenTask # <<>> => RowHolds(seenTask)
    /\ seenSuggestions => Shown \in advised
    /\ seenFlamegraph => Drawn

(* A step of the system takes nothing of it back.                            *)
LEMMA SystemKeepsAnswers ==
    ASSUME PageHolds, Lasts, UNCHANGED pageVars PROVE PageHolds'
<1>1. \A row : RowHolds(row) => RowHolds(row)'
    BY PageAssumption DEF RowHolds, Lasts
<1>2. Drawn => Drawn'
    BY PageAssumption DEF Drawn, Lasts, Final
<1>3. \A reply \in replies : AnswerHolds(reply) => AnswerHolds(reply)'
    BY <1>1, <1>2 DEF AnswerHolds, Lasts
<1> QED
    BY <1>1, <1>2, <1>3, PageAssumption DEF PageHolds, pageVars, Lasts, Final

(* A step of the page reads the database as it is or goes by an answer.      *)
LEMMA PageTakesAnswers ==
    ASSUME PageTypeOK, PageHolds, PageStep, UNCHANGED analysisVars PROVE PageHolds'
<1>0. UNCHANGED <<status, analysis_status, deleted, flamegraphs, advised>>
    BY DEF analysisVars, rowVars, outputVars
<1>1. \A row : RowHolds(row)' <=> RowHolds(row)
    BY <1>0 DEF RowHolds
<1>2. Drawn' <=> Drawn
    BY <1>0 DEF Drawn
<1>3. \A reply : AnswerHolds(reply)' <=> AnswerHolds(reply)
    BY <1>0, <1>1, <1>2 DEF AnswerHolds
<1>4. CASE Interval
    BY <1>0, <1>1, <1>2, <1>3, <1>4 DEF PageHolds, Interval
<1>5. ASSUME NEW request \in Requests, Answer(request) PROVE PageHolds'
    <2>1. \A reply \in replies' \ replies : AnswerHolds(reply)
        <3>1. CASE request = "task"
            <4>1. \A reply \in TaskReplies : reply = RowReply(RowNow)
                BY DEF TaskReplies
            <4>2. AnswerHolds(RowReply(RowNow))
                BY DEF AnswerHolds, RowReply, RowNow, RowHolds
            <4>3. replies' \ replies \subseteq TaskReplies
                BY <1>5, <3>1 DEF Answer
            <4> QED
                BY <4>1, <4>2, <4>3
        <3>2. CASE request = "suggestions"
            <4> DEFINE found == Shown \in advised
            <4>1. replies' = replies \cup {[to |-> "suggestions", found |-> found]}
                BY <1>5, <3>2 DEF Answer
            <4>2. found => Shown \in advised
                OBVIOUS
            <4> HIDE DEF found
            <4>3. AnswerHolds([to |-> "suggestions", found |-> found])
                BY <4>2 DEF AnswerHolds
            <4> QED
                BY <4>1, <4>3
        <3>3. CASE request = "files"
            <4>1. replies' = replies \cup
                      IF Shown \in flamegraphs THEN {[to |-> "files"]} ELSE {}
                BY <1>5, <3>3 DEF Answer
            <4>2. status[Shown] = "DONE"
                BY <1>5, <3>3 DEF Answer, PageHolds
            <4> QED
                BY <4>1, <4>2 DEF AnswerHolds, Drawn
        <3> QED
            BY <3>1, <3>2, <3>3 DEF Requests
    <2>2. asked' \subseteq asked /\ UNCHANGED <<seenTask, seenSuggestions, seenFlamegraph>>
        BY <1>5 DEF Answer
    <2> QED
        BY <1>0, <1>1, <1>2, <1>3, <2>1, <2>2 DEF PageHolds
<1>6. ASSUME NEW reply \in replies, Got(reply) PROVE PageHolds'
    <2>1. AnswerHolds(reply) /\ reply \in Replies /\ replies' \subseteq replies
        BY <1>6 DEF PageHolds, PageTypeOK, Got
    <2>2. CASE GotTask(reply)
        <3>1. RowHolds(reply.row) /\ seenTask' = reply.row
            BY <2>1, <2>2 DEF GotTask, AnswerHolds
        <3>2. "files" \in asked' => status[Shown] = "DONE"
            BY <2>2, <3>1 DEF GotTask, PageHolds, RowHolds, Final
        <3> QED
            BY <1>0, <1>1, <1>2, <1>3, <2>1, <2>2, <3>1, <3>2 DEF PageHolds, GotTask
    <2>3. CASE GotSuggestions(reply)
        BY <1>0, <1>1, <1>2, <1>3, <2>1, <2>3 DEF PageHolds, GotSuggestions, AnswerHolds
    <2>4. CASE GotFiles(reply)
        BY <1>0, <1>1, <1>2, <1>3, <2>1, <2>4 DEF PageHolds, GotFiles, AnswerHolds
    <2> QED
        BY <1>6, <2>2, <2>3, <2>4 DEF Got
<1>7. CASE RequestLost
    BY <1>0, <1>1, <1>2, <1>3, <1>7 DEF PageHolds, RequestLost
<1> QED
    BY <1>4, <1>5, <1>6, <1>7 DEF PageStep

(* The page shows a collection as over only in the way it is over, and only  *)
(* suggestions and flame graphs that are there, in whatever order its        *)
(* answers come and whoever crashes.                                         *)
THEOREM PageIsTrue == ResultSpec => []PageShowsWhatIs
<1> DEFINE Inv == WatcherReturned /\ PageHolds
<1>1. ResultInit => Inv
    BY DEF ResultInit, AnalysisInit, PageInit, WatcherReturned, PageHolds, Final
<1>2. AnalysisTypeOK /\ PageTypeOK /\ Inv /\ [ResultNext]_resultVars => Inv'
    <2> SUFFICES ASSUME AnalysisTypeOK, PageTypeOK, WatcherReturned, PageHolds,
                        [ResultNext]_resultVars
                 PROVE  WatcherReturned' /\ PageHolds'
        OBVIOUS
    <2>1. WatcherReturned' /\ Lasts
        BY FinalLasts DEF ResultNext, resultVars
    <2>2. CASE UNCHANGED pageVars
        BY <2>1, <2>2, SystemKeepsAnswers
    <2>3. CASE PageStep /\ UNCHANGED analysisVars
        BY <2>1, <2>3, PageTakesAnswers
    <2> QED
        BY <2>1, <2>2, <2>3 DEF ResultNext, resultVars
<1>3. Inv => PageShowsWhatIs
    BY DEF PageHolds, PageShowsWhatIs, Seen, RowHolds, Drawn, Final
<1>4. ResultSpec => []AnalysisTypeOK
    BY PageOnlyReads, AnalysisTypesHold, PTL
<1> QED
    BY <1>1, <1>2, <1>3, <1>4, PageTypesHold, PTL DEF ResultSpec
=============================================================================
