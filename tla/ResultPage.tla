----------------------------- MODULE ResultPage -----------------------------
(***************************************************************************)
(* The page that shows the result of one task, as a reader of the rows     *)
(* that Analysis writes.  Its requests overlap: the interval starts new    *)
(* ones without waiting, and the replies come back in any order.           *)
(***************************************************************************)
EXTENDS Analysis

CONSTANTS
    Shown,       \* the task the page was opened for
    MaxReplies   \* bound on the copies of the row on their way at once

ASSUME PageAssumption == Shown \in Tasks /\ MaxReplies \in Nat \ {0}

VARIABLES
    seenTask,         \* state task: <<status, analysis open>>, <<>> at first
    seenSuggestions,  \* the table of suggestions is not empty
    seenFlamegraph,   \* flamegraphUrl is set
    asked,            \* requests apiserver has not answered
    replies           \* answers on their way back

pageVars == <<seenTask, seenSuggestions, seenFlamegraph, asked, replies>>
resultVars == <<analysisVars, pageVars>>

Requests == {"task", "suggestions", "files"}
Rows == {"RUNNING", "UPLOADING", "DONE", "FAILED"} \X BOOLEAN
Replies ==
    [to : {"task"}, row : Rows] \cup [to : {"suggestions"}, found : BOOLEAN] \cup [to : {"files"}]

PageTypeOK ==
    /\ seenTask \in Rows \cup {<<>>}
    /\ seenSuggestions \in BOOLEAN
    /\ seenFlamegraph \in BOOLEAN
    /\ asked \subseteq Requests
    /\ replies \subseteq Replies

(* The first effect asks for the row and for the suggestions.                *)
PageInit ==
    /\ seenTask = <<>>
    /\ seenSuggestions = FALSE
    /\ seenFlamegraph = FALSE
    /\ asked = {"task", "suggestions"}
    /\ replies = {}

Seen(statuses) == seenTask # <<>> /\ seenTask[1] \in statuses

(* Mutant: the states from UPLOADING on are taken for final.                 *)
Polling_UntilUploading == Seen({"RUNNING"})

(* The interval exists while the page knows of a row with status < 3.        *)
Polling == Seen({"RUNNING", "UPLOADING"})

Interval ==
    /\ Polling
    /\ asked' = asked \cup {"task"}
                      \cup IF seenTask[2] THEN {"suggestions"} ELSE {}
    /\ UNCHANGED <<seenTask, seenSuggestions, seenFlamegraph, replies>>

RowReply(row) == [to |-> "task", row |-> row]

RowNow == <<status[Shown], analysis_status[Shown] \in {"PENDING", "RUNNING"}>>

(* Mutant: GetTask uses Find, which leaves the zero row where there is none. *)
TaskReplies_ZeroRow == {RowReply(IF deleted[Shown] THEN <<"PENDING", TRUE>> ELSE RowNow)}

(* GetTask: 404 for a deleted row, which the page ignores.                   *)
TaskReplies == IF deleted[Shown] THEN {} ELSE {RowReply(RowNow)}

(* Of the objects that ListCosFiles lists only flamegraph.svg matters here.  *)
Answer(request) ==
    /\ request \in asked
    /\ request = "task" => Cardinality({r \in replies : r.to = "task"}) < MaxReplies
    /\ asked' = asked \ {request}
    /\ replies' = replies \cup
        CASE request = "task" -> TaskReplies
          [] request = "suggestions" -> {[to |-> "suggestions", found |-> Shown \in advised]}
          [] request = "files" -> IF Shown \in flamegraphs THEN {[to |-> "files"]} ELSE {}
    /\ UNCHANGED <<seenTask, seenSuggestions, seenFlamegraph>>

(* setTask; the effect that depends on task.status runs when it changes.     *)
GotTask(reply) ==
    /\ reply.to = "task"
    /\ seenTask' = reply.row
    /\ asked' = asked \cup
        IF reply.row[1] = "DONE" /\ ~Seen({"DONE"})
        THEN {"files"} ELSE {}
    /\ UNCHANGED <<seenSuggestions, seenFlamegraph>>

GotSuggestions(reply) ==
    /\ reply.to = "suggestions"
    /\ seenSuggestions' = reply.found
    /\ UNCHANGED <<seenTask, seenFlamegraph, asked>>

GotFiles(reply) ==
    /\ reply.to = "files"
    /\ seenFlamegraph' = TRUE
    /\ UNCHANGED <<seenTask, seenSuggestions, asked>>

Got(reply) ==
    /\ reply \in replies
    /\ replies' = replies \ {reply}
    /\ GotTask(reply) \/ GotSuggestions(reply) \/ GotFiles(reply)

RequestLost ==
    /\ "request lost" \in Faults
    /\ \/ \E request \in asked : asked' = asked \ {request} /\ UNCHANGED replies
       \/ \E reply \in replies : replies' = replies \ {reply} /\ UNCHANGED asked
    /\ UNCHANGED <<seenTask, seenSuggestions, seenFlamegraph>>

------------------------------------------------------------------------------
PageStep ==
    \/ Interval
    \/ \E request \in Requests : Answer(request)
    \/ \E reply \in replies : Got(reply)
    \/ RequestLost

ResultInit == AnalysisInit /\ PageInit

ResultNext ==
    \/ AnalysisNext /\ UNCHANGED pageVars
    \/ PageStep /\ UNCHANGED analysisVars

ResultSpec == ResultInit /\ [][ResultNext]_resultVars

(* The interval fires and answers come, one for the row now and then even    *)
(* where requests are lost.                                                  *)
ResultFairness ==
    /\ WF_resultVars(Interval /\ UNCHANGED analysisVars)
    /\ SF_resultVars(Answer("task") /\ UNCHANGED analysisVars)
    /\ SF_resultVars((\E reply \in replies : reply.to = "task" /\ Got(reply)) /\ UNCHANGED analysisVars)
    /\ \A request \in {"suggestions", "files"} :
        WF_resultVars(Answer(request) /\ UNCHANGED analysisVars)
    /\ WF_resultVars((\E reply \in replies : reply.to # "task" /\ Got(reply)) /\ UNCHANGED analysisVars)

ResultFairSpec == ResultSpec /\ ResultFairness

------------------------------------------------------------------------------
(* Safety: what the page shows is so, although all its answers may be old,   *)
(* out of order or about a deleted task.  A collection it shows as over is   *)
(* over in the same way, suggestions and flame graph it shows are there, and *)
(* it shows a flame graph only of a collection that is done.                 *)
PageShowsWhatIs ==
    /\ \A s \in {"DONE", "FAILED"} : Seen({s}) => status[Shown] = s
    /\ seenSuggestions => Shown \in advised
    /\ seenFlamegraph => Shown \in flamegraphs /\ status[Shown] = "DONE"

(* Liveness: once it has shown the row, the page comes to show that the task *)
(* is over, and stays there, although late replies may take it back in       *)
(* between and requests may be lost.                                         *)
PageSettles ==
    seenTask # <<>> /\ status[Shown] \in {"DONE", "FAILED"} /\ ~deleted[Shown]
        ~> (deleted[Shown] \/ []Seen({status[Shown]}))

------------------------------------------------------------------------------
(* index.jsx tells the user that the suggestions will appear by themselves   *)
(* once the analysis is complete.                                            *)
PageShowsSuggestions ==
    seenTask # <<>> /\ Shown \in advised ~> (seenSuggestions \/ deleted[Shown])
=============================================================================
