------------------------------ MODULE MiniDrop ------------------------------
(***************************************************************************)
(* The path of a task through Mini-Drop: apiserver (TaskApi), drop_server  *)
(* (DropServer), the drop_agents (DropAgent) and the calls between them    *)
(* (Wire), with the crashes, lost and late calls that the code meets.      *)
(***************************************************************************)
EXTENDS TaskApi, DropServer, DropAgent

vars == <<wireVars, apiVars, dropVars, agentVars>>

Init == WireInit /\ ApiInit /\ DropInit /\ AgentInit

(* The FetchData call of a watcher returns: an rpc error, or what            *)
(* drop_server answered.  The reply needs no message of its own: between the *)
(* answer and the update no other step depends on it.                        *)
WatcherFetch(t) ==
    \E r \in {"unavailable", FetchData(t)} : WatcherFetched(t, r)

(* What a step of one process leaves alone of the others.                    *)
ApiOnly == UNCHANGED <<dropVars, agentVars>>
DropOnly == UNCHANGED <<apiVars, agentVars>>
AgentOnly == UNCHANGED <<apiVars, dropVars>>

Next ==
    \/ \E t \in Tasks :
        \/ CreateTask(t) /\ ApiOnly
        \/ SkipDispatch(t) /\ ApiOnly
        \/ CallDrop(t) /\ ApiOnly
        \/ DispatchFailed(t) /\ ApiOnly
        \/ Dispatched(t) /\ ApiOnly
        \/ DeleteTask(t) /\ ApiOnly
        \/ \E old \in Tasks : RetryTask(old, t) /\ ApiOnly
        \/ TimePasses(t) /\ ApiOnly
        \/ WatcherTimeout(t) /\ ApiOnly
        \/ WatcherTick(t) /\ ApiOnly
        \/ WatcherFetch(t) /\ ApiOnly
        \/ DropCreateTask(t) /\ DropOnly
        \/ \E o \in Outcomes : DropNotifyResult(t, o) /\ DropOnly
    \/ \E a \in Agents :
        \/ Do(a) /\ DropOnly
        \/ DoAbandoned(a) /\ DropOnly
        \/ StartAgent(a) /\ AgentOnly
        \/ SendHeartbeat(a) /\ AgentOnly
        \/ HeartbeatFailed(a) /\ AgentOnly
        \/ HeartbeatReply(a) /\ AgentOnly
        \/ PopTask(a) /\ AgentOnly
        \/ Record(a) /\ AgentOnly
        \/ PutFile(a) /\ AgentOnly
        \/ NotifyResult(a) /\ AgentOnly
        \/ NotifyReturn(a) /\ AgentOnly
        \/ AgentCrash(a) /\ AgentOnly
    \/ ApiserverCrash /\ ApiOnly
    \/ DropServerCrash /\ DropOnly

Spec == Init /\ [][Next]_vars

TypeOK == WireTypeOK /\ ApiTypeOK /\ DropTypeOK /\ AgentTypeOK

------------------------------------------------------------------------------
(* Fairness.  A watcher is a goroutine driven by a ticker and the wall clock: *)
(* it goes on as long as apiserver runs.  A running agent sends heartbeats    *)
(* for ever, and of infinitely many of them drop_server serves infinitely     *)
(* many.  Nothing is assumed of the handlers, of uploads or of restarts.      *)

WatcherStep(t) == WatcherTimeout(t) \/ WatcherTick(t) \/ WatcherFetch(t)

WatcherFairness ==
    \A t \in Tasks :
        /\ WF_vars(TimePasses(t) /\ ApiOnly)
        /\ WF_vars(WatcherStep(t) /\ ApiOnly)

HeartbeatFairness ==
    \A a \in Agents :
        /\ WF_vars(SendHeartbeat(a) /\ AgentOnly)
        /\ WF_vars(HeartbeatReply(a) /\ AgentOnly)
        /\ SF_vars(Do(a) /\ DropOnly)

FairSpec == Spec /\ WatcherFairness /\ HeartbeatFairness

------------------------------------------------------------------------------
(* Where a task is on its way from drop_server's queue to a worker.          *)

ElementsOf(q) == {q[i] : i \in 1..Len(q)}

Carried(a) == {carried[a]} \ {NoTask}

InTransit(a) == ElementsOf(tasks[a]) \cup Carried(a) \cup ElementsOf(task_queue[a])

(* Safety *)

(* No task is profiled twice, whatever calls are lost, late or abandoned and *)
(* whatever crashes: CreateTask, the heartbeat reply and NotifyResult are    *)
(* never repeated, and the task is removed from each queue it leaves.        *)
AtMostOnce == \A t \in Tasks : runs[t] <= 1

(* An agent takes its tasks up in the order in which drop_server queued them *)
(* (two FIFO queues joined by the heartbeat reply): while a task is on its   *)
(* way, nothing queued after it has been taken up.                           *)
NoOvertaking ==
    \A a \in Agents : \A t \in InTransit(a) : \A u \in Tasks :
        Target[u] = a /\ arrival[u] >= arrival[t] => runs[u] = 0

(* A task meets only the agent of its target_ip: the queues are per ip, and  *)
(* nothing hands a task to another agent.                                    *)
StaysAtTarget ==
    \A a \in Agents : \A t \in Tasks :
        t \in InTransit(a) \/ job[a] = t => Target[t] = a

(* A DONE row can be analysed: its perf.data is in storage, it was recorded  *)
(* exactly once, and no queue or worker still has work to do for it.         *)
DoneMeansCollected ==
    \A t \in Tasks : status[t] = "DONE" =>
        /\ t \in objects
        /\ runs[t] = 1
        /\ \A a \in Agents :
            t \notin InTransit(a) /\ (job[a] = t => worker[a] = "notifying")

(* A task that drop_server or an agent knows, or that was profiled, has a    *)
(* row in the database, also when apiserver crashes in the middle: the row   *)
(* is written first, so a result always has a row to land in.                *)
WorkHasRow ==
    \A t \in Tasks :
        t \in createReq \/ arrival[t] > 0 \/ runs[t] > 0 => status[t] # "ABSENT"

(* A live row that is not finished has a watcher that will finish it, unless *)
(* the watcher died with apiserver: no way out of the handler or the watcher *)
(* leaves such a row behind (as long as its updates reach the database).     *)
RunningIsWatched ==
    \A t \in Tasks :
        status[t] \in {"RUNNING", "UPLOADING"} /\ ~deleted[t]
            => Watching(t) \/ watcher[t] = "killed"

(* The rows and the storage behave like the life cycle of TaskLifecycle.     *)
Lifecycle == INSTANCE TaskLifecycle
LifecycleSpec == Lifecycle!Spec

(* A result that drop_server has is never turned around: NotifyResult        *)
(* overwrites the entry of the task, but nobody has a second result to send. *)
(* Only a crash of drop_server takes it away.  A watcher that asks late, or  *)
(* twice, reads what one that asks early reads.                              *)
ResultIsFinal ==
    [][\A t \in Tasks : results[t] # "none" => results'[t] \in {results[t], "none"}]_vars

(* From drop_server's CreateTask to the worker, the tasks of an agent behave *)
(* like one queue that can lose some of them: the agent's own queue, then    *)
(* the reply under way, then drop_server's queue.                            *)
InReply(a) == IF carried[a] = NoTask THEN <<>> ELSE <<carried[a]>>
OnTheWay(a) == task_queue[a] \o InReply(a) \o tasks[a]

Lossy == INSTANCE LossyQueue WITH
    queue <- [a \in Agents |-> OnTheWay(a)],
    known <- {t \in Tasks : arrival[t] > 0},
    taken <- runs

LossyQueueSpec == Lossy!Spec

(* Liveness *)

(* The watcher bounds a task: whatever drop_server and the agents do, a      *)
(* RUNNING or UPLOADING row is finished sooner or later.                     *)
RunningEventuallyEnds ==
    \A t \in Tasks :
        status[t] \in {"RUNNING", "UPLOADING"}
            ~> (status[t] \in {"DONE", "FAILED"} \/ deleted[t])

(* A queued task leaves drop_server when its agent goes on running: the      *)
(* heartbeats come for ever, and each of them takes the head of the queue.   *)
QueuedTaskLeaves ==
    \A t \in Tasks :
        t \in ElementsOf(tasks[Target[t]])
            ~> (t \notin ElementsOf(tasks[Target[t]]) \/ ~up[Target[t]])

------------------------------------------------------------------------------
(* What the documents say and the code does not keep.                        *)

(* The guide says of the failed CreateTask call: "drop has not received it". *)
FailedDispatchNotReceived ==
    \A t \in Tasks : handler[t] = "failed" /\ status[t] = "FAILED" => arrival[t] = 0
=============================================================================
