--------------------------- MODULE AgentRefinement ---------------------------
(***************************************************************************)
(* AgentThreads implements DropAgent, for one agent and one life of its    *)
(* process: the locks, the condition variable, the shutdown and the perf   *)
(* processes add no behaviour that the coarse agent of MiniDrop lacks.     *)
(***************************************************************************)
EXTENDS AgentThreads

CONSTANT Self  \* the ip_addr of this agent

(* Both threads exist, or are about to.                                      *)
Serves == main \in ({"starting hmc", "aliasing", "signals", "serving"} \cup Stopping)

(* What DropAgent calls waiting is the whole of PopTask, and the time before *)
(* and after the thread.                                                     *)
CoarseWorker ==
    IF worker \in {"none", "check", "done"} \cup InPopTask THEN "waiting"
    ELSE IF worker \in InCommand THEN "uploading"
    ELSE worker

(* The queue is gone when main returns.                                      *)
CoarseQueue == IF Serves THEN task_queue ELSE <<>>

Coarse == INSTANCE DropAgent WITH
    Agents <- {Self},
    Target <- [t \in Tasks |-> Self],
    MaxOrphans <- 0,
    Faults <- {"agent crash"},
    createReq <- {},
    createResp <- {},
    beat <- [a \in {Self} |-> call],
    carried <- [a \in {Self} |-> carried],
    orphans <- [a \in {Self} |-> 0],
    up <- [a \in {Self} |-> Serves],
    task_queue <- [a \in {Self} |-> CoarseQueue],
    worker <- [a \in {Self} |-> CoarseWorker],
    job <- [a \in {Self} |-> job]

coarseVars == <<Coarse!wireVars, Coarse!agentVars>>

(* drop_server's part in the call: an answer, with a task or without.        *)
Answered ==
    /\ call = "sent" /\ call' = "replied"
    /\ carried' \in MaybeTask
    /\ UNCHANGED <<notifyReq, Coarse!agentVars>>

CoarseNext ==
    \/ Coarse!StartAgent(Self)
    \/ Coarse!SendHeartbeat(Self) \/ Coarse!HeartbeatFailed(Self)
    \/ Coarse!HeartbeatReply(Self) \/ Answered
    \/ Coarse!PopTask(Self) \/ Coarse!Record(Self) \/ Coarse!PutFile(Self)
    \/ Coarse!NotifyResult(Self) \/ Coarse!NotifyReturn(Self)
    \/ Coarse!AgentCrash(Self)

(* Every step of the threads is one step of DropAgent or none: a task moves  *)
(* from the reply to the queue to the worker at once, also while the agent   *)
(* shuts down, and to the server a shutdown is a crash.                      *)
ImplementsDropAgent ==
    /\ Coarse!AgentInit /\ Coarse!WireInit
    /\ [][CoarseNext]_coarseVars
=============================================================================
