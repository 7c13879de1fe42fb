------------------------ MODULE AgentRefinementProofs ------------------------
(***************************************************************************)
(* The proof that the threads of AgentThreads implement the agent of       *)
(* DropAgent, for any set of tasks.                                        *)
(***************************************************************************)
EXTENDS AgentRefinement, AgentProofs

(* Nothing is queued before the heartbeat thread is there.                   *)
FreshQueue ==
    main \in {"loading", "registering", "starting hc"} => task_queue = <<>>

LEMMA FreshQueueStep ==
    AInv /\ FreshQueue /\ [AgentNext]_agentVars => FreshQueue'
<1> SUFFICES ASSUME AInv, FreshQueue, [AgentNext]_agentVars
             PROVE  FreshQueue'
    OBVIOUS
<1> USE DEF FreshQueue
<1>1. CASE PushTask
    BY <1>1 DEF PushTask, HeartbeatStep, AInv, ThreadsFollow, mainVars
<1>2. CASE TakeTask
    BY <1>2 DEF TakeTask, WorkerStep, AInv, ThreadsFollow, mainVars
<1>3. CASE Killed
    BY <1>3 DEF Killed
<1>4. CASE MainNext
    BY <1>4 DEF MainNext, MainStep, LoadConfig, RegisterToServer, StartHeartbeat,
        StartHotmethod, InstallHandlers, SeeShutdown, StopHeartbeat, NotifyAll,
        JoinHeartbeat, StopWorker, JoinWorker
<1>5. CASE StartWorker
    BY <1>5 DEF StartWorker, MainStep
<1>6. ASSUME UNCHANGED <<main, task_queue>> PROVE FreshQueue'
    BY <1>6
<1> QED
    BY <1>1, <1>2, <1>3, <1>4, <1>5, <1>6
    DEF AgentNext, HeartbeatNext, WorkerNext, CommandNext, HandleSignal, HeartbeatStep,
        WorkerStep, mainVars, agentVars, CheckRunning, ServerReplies, CallReturnsNothing,
        CallReturnsTask, LockQueue, NotifyOne, SleepOneSecond, CheckRun, LockForTest,
        TestQueue, Wait, SpuriousWakeup, NoMoreTasks, RecordCalled, RecordRuns, RecordDone,
        CosInit, PutFile, NotifyResult, NotifyReturn

------------------------------------------------------------------------------
(* A step that leaves what DropAgent knows of the agent alone is no step.    *)
LEMMA Stutters ==
    ASSUME UNCHANGED <<call, carried, notifyReq, Serves, CoarseQueue, CoarseWorker,
                       job, objects, runs>>
    PROVE  UNCHANGED coarseVars
BY DEF coarseVars, Coarse!wireVars, Coarse!agentVars

(* A thread works only while the agent serves.                               *)
LEMMA ThreadsServe ==
    ASSUME AInv, heartbeat \notin {"none", "done"} \/ worker \notin {"none", "done"}
    PROVE  Serves
BY DEF AInv, AgentTypeOK, MainStates, Starting, Stopping, ThreadsFollow, Serves
LEMMA ServesIsBoolean == Serves \in BOOLEAN /\ Serves' \in BOOLEAN
BY DEF Serves

(* A step of main alone that does not start or end the agent.                *)
LEMMA MainStutters ==
    ASSUME Serves' <=> Serves,
           worker' = worker \/ (worker \in InPopTask \cup {"none", "check"} /\
                                worker' \in InPopTask \cup {"none", "check"}),
           UNCHANGED <<task_queue, call, carried, job, runs, objects, notifyReq>>
    PROVE  UNCHANGED coarseVars
<1>1. CoarseQueue' = CoarseQueue
    BY DEF CoarseQueue
<1>2. CoarseWorker' = CoarseWorker
    BY DEF CoarseWorker
<1>3. Serves' = Serves
    BY ServesIsBoolean
<1> QED
    BY <1>1, <1>2, <1>3, Stutters

(* The end of an agent that does not serve changes nothing DropAgent knows.  *)
LEMMA KilledEarly ==
    ASSUME ~Serves, ~Serves', {worker, worker'} \subseteq {"none", "done"},
           UNCHANGED <<call, carried, job, runs, objects, notifyReq>>
    PROVE  UNCHANGED coarseVars
<1>1. CoarseQueue' = CoarseQueue
    BY DEF CoarseQueue
<1>2. CoarseWorker' = CoarseWorker
    BY DEF CoarseWorker
<1>3. Serves' = Serves
    BY ServesIsBoolean
<1> QED
    BY <1>1, <1>2, <1>3, Stutters

(* main, until it starts the heartbeat thread and until it returns.          *)
LEMMA MainRefines ==
    ASSUME AInv, FreshQueue, MainNext \/ StartWorker \/ HandleSignal \/ Killed
    PROVE  CoarseNext \/ UNCHANGED coarseVars
<1> USE DEF MainStep, callVars, workVars
<1>1. ASSUME LoadConfig \/ RegisterToServer \/ StartHotmethod \/ StartWorker
             \/ InstallHandlers \/ HandleSignal \/ SeeShutdown \/ StopHeartbeat
             \/ NotifyAll \/ JoinHeartbeat \/ StopWorker
      PROVE  UNCHANGED coarseVars
    <2>1. Serves' <=> Serves
        BY <1>1 DEF Serves, Stopping, LoadConfig, RegisterToServer, StartHotmethod,
            StartWorker, InstallHandlers, HandleSignal, SeeShutdown, StopHeartbeat,
            NotifyAll, JoinHeartbeat, StopWorker
    <2>2. worker' = worker \/ (worker \in InPopTask \cup {"none", "check"} /\
                               worker' \in InPopTask \cup {"none", "check"})
        BY <1>1 DEF InPopTask, LoadConfig, RegisterToServer, StartHotmethod, StartWorker,
            InstallHandlers, HandleSignal, SeeShutdown, StopHeartbeat, NotifyAll,
            JoinHeartbeat, StopWorker, AInv, AgentTypeOK, ThreadsFollow
    <2>3. UNCHANGED <<task_queue, call, carried, job, runs, objects, notifyReq>>
        BY <1>1 DEF LoadConfig, RegisterToServer, StartHotmethod, StartWorker,
            InstallHandlers, HandleSignal, SeeShutdown, StopHeartbeat, NotifyAll,
            JoinHeartbeat, StopWorker
    <2> QED
        BY <2>1, <2>2, <2>3, MainStutters
<1> USE DEF Serves, Stopping, CoarseQueue, CoarseWorker, InPopTask
<1>12. CASE StartHeartbeat
    <2>1. Coarse!StartAgent(Self)
        BY <1>12 DEF StartHeartbeat, FreshQueue, Coarse!StartAgent, Coarse!wireVars
    <2> QED
        BY <2>1 DEF CoarseNext
<1>13. ASSUME Serves, ~Serves', call' = "idle", carried' = NoTask, job' = NoTask,
             worker' \in {"none", "done"}, UNCHANGED <<notifyReq, objects, runs>>
      PROVE  CoarseNext
    <2>1. Serves = TRUE /\ Serves' = FALSE
        BY <1>13, ServesIsBoolean
    <2>2. CoarseQueue' = <<>> /\ CoarseWorker' = "waiting"
        BY <1>13
    <2>3. Coarse!Abandon(Self)
        BY <1>13 DEF Coarse!Abandon
    <2>4. Coarse!AgentCrash(Self)
        <3> USE DEF Coarse!AgentCrash
        <3> HIDE DEF Serves, CoarseQueue, CoarseWorker
        <3> QED
            BY <1>13, <2>1, <2>2, <2>3
    <2> QED
        BY <2>4 DEF CoarseNext
<1>14. CASE JoinWorker
    <2>1. heartbeat \in {"none", "done"} /\ call = "idle" /\ carried = NoTask /\ job = NoTask
        BY <1>14 DEF JoinWorker, AInv, AgentTypeOK, ThreadsFollow, CallFollows, JobFollows,
            MaybeTask, InTask, InCommand
    <2> QED
        BY <1>14, <1>13, <2>1 DEF JoinWorker
<1>15. CASE Killed
    <2>1. CASE Serves
        BY <1>15, <1>13, <2>1 DEF Killed
    <2>2. CASE ~Serves
        <3>1. heartbeat \in {"none", "done"} /\ worker \in {"none", "done"}
            BY <2>2, ThreadsServe
        <3>2. call = "idle" /\ carried = NoTask /\ job = NoTask
            BY <3>1 DEF AInv, AgentTypeOK, CallFollows, JobFollows, MaybeTask, InTask, InCommand
        <3> QED
            BY <1>15, <2>2, <3>1, <3>2, KilledEarly DEF Killed
    <2> QED
        BY <2>1, <2>2
<1> QED
    BY <1>1, <1>12, <1>14, <1>15 DEF MainNext

(* The heartbeat thread and drop_server's answer.                            *)
LEMMA HeartbeatRefines ==
    ASSUME AInv, HeartbeatNext \/ ServerReplies
    PROVE  CoarseNext \/ UNCHANGED coarseVars
<1> USE DEF HeartbeatStep, mainVars, workVars, Serves, CoarseQueue, CoarseWorker, InPopTask
<1>1. ASSUME heartbeat \notin {"none", "done"} PROVE Serves
    BY <1>1, ThreadsServe
<1>2. CASE CheckRunning
    <2>1. CASE call' = call
        BY <1>2, <2>1, Stutters DEF CheckRunning
    <2>2. CASE call' # call
        <3>1. call = "idle" /\ call' = "sent"
            BY <1>2, <2>2 DEF CheckRunning, AInv, AgentTypeOK, CallFollows
        <3>2. Coarse!SendHeartbeat(Self)
            BY <1>1, <1>2, <3>1 DEF CheckRunning, Coarse!SendHeartbeat, Coarse!agentVars
        <3> QED
            BY <3>2 DEF CoarseNext
    <2> QED
        BY <2>1, <2>2
<1>3. CASE ServerReplies
    <2>1. Answered
        BY <1>3 DEF ServerReplies, Answered, AInv, AgentTypeOK, MaybeTask, Coarse!agentVars
    <2> QED
        BY <2>1 DEF CoarseNext
<1>4. CASE CallReturnsNothing
    <2>1. Coarse!HeartbeatFailed(Self)
        BY <1>1, <1>4 DEF CallReturnsNothing, AInv, CallFollows, Coarse!HeartbeatFailed,
            Coarse!Abandon, Coarse!agentVars
    <2> QED
        BY <2>1 DEF CoarseNext
<1>5. CASE PushTask
    <2>1. call = "replied" /\ carried # NoTask
        BY <1>5, AgentAssumption DEF PushTask, AInv, CallFollows
    <2>2. Coarse!HeartbeatReply(Self)
        BY <1>1, <1>5, <2>1 DEF PushTask, Coarse!HeartbeatReply
    <2> QED
        BY <2>2 DEF CoarseNext
<1>6. CASE CallReturnsTask
    BY <1>6, Stutters DEF CallReturnsTask
<1>7. CASE LockQueue
    BY <1>7, Stutters DEF LockQueue
<1>8. CASE NotifyOne
    BY <1>8, Stutters DEF NotifyOne
<1>9. CASE SleepOneSecond
    BY <1>9, Stutters DEF SleepOneSecond
<1> QED
    BY <1>2, <1>3, <1>4, <1>5, <1>6, <1>7, <1>8, <1>9 DEF HeartbeatNext

(* The worker.                                                               *)
LEMMA WorkerRefines ==
    ASSUME AInv, WorkerNext \/ CosInit \/ PutFile \/ SpuriousWakeup
    PROVE  CoarseNext \/ UNCHANGED coarseVars
<1> USE DEF WorkerStep, mainVars, callVars, workVars, Serves, CoarseQueue, CoarseWorker,
    InPopTask, InCommand
<1>1. ASSUME worker \notin {"none", "done"} PROVE Serves
    BY <1>1, ThreadsServe
<1>2. CASE CheckRun
    BY <1>2, Stutters DEF CheckRun
<1>3. CASE LockForTest
    BY <1>3, Stutters DEF LockForTest
<1>4. CASE TestQueue
    BY <1>4, Stutters DEF TestQueue
<1>5. CASE Wait
    BY <1>5, Stutters DEF Wait
<1>6. CASE SpuriousWakeup
    BY <1>6, Stutters DEF SpuriousWakeup
<1>7. CASE NoMoreTasks
    BY <1>7, Stutters DEF NoMoreTasks
<1>8. CASE RecordCalled
    BY <1>8, Stutters DEF RecordCalled
<1>9. CASE TakeTask
    <2>1. Coarse!PopTask(Self)
        BY <1>1, <1>9 DEF TakeTask, Coarse!PopTask, Coarse!wireVars
    <2> QED
        BY <2>1 DEF CoarseNext
<1>10. CASE RecordDone
    <2>1. Coarse!Record(Self)
        BY <1>1, <1>10 DEF RecordDone, Coarse!Record, Coarse!wireVars
    <2> QED
        BY <2>1 DEF CoarseNext
<1>11. CASE PutFile
    <2>1. Coarse!PutFile(Self)
        BY <1>1, <1>11 DEF PutFile, Coarse!PutFile, Coarse!wireVars
    <2> QED
        BY <2>1 DEF CoarseNext
<1>12. CASE NotifyResult
    <2>1. Coarse!NotifyResult(Self)
        BY <1>1, <1>12 DEF NotifyResult, Coarse!NotifyResult, Coarse!wireVars
    <2> QED
        BY <2>1 DEF CoarseNext
<1>13. CASE NotifyReturn
    <2>1. Coarse!NotifyReturn(Self)
        BY <1>1, <1>13 DEF NotifyReturn, Coarse!NotifyReturn, Coarse!wireVars
    <2> QED
        BY <2>1 DEF CoarseNext
<1>14. CASE CosInit
    <2>1. CASE worker' = "copying"
        BY <1>14, <2>1, Stutters DEF CosInit
    <2>2. CASE worker' = "reportErr"
        <3>1. Coarse!PutFile(Self)
            BY <1>1, <1>14, <2>2 DEF CosInit, Coarse!PutFile, Coarse!wireVars
        <3> QED
            BY <3>1 DEF CoarseNext
    <2> QED
        BY <1>14, <2>1, <2>2 DEF CosInit
<1> QED
    BY <1>2, <1>3, <1>4, <1>5, <1>6, <1>7, <1>8, <1>9, <1>10, <1>11, <1>12, <1>13, <1>14
    DEF WorkerNext

------------------------------------------------------------------------------
(* AgentThreads implements DropAgent: what MiniDrop assumes of an agent is   *)
(* what its threads do, and a shutdown is to the others a crash.             *)
THEOREM ThreadsImplementAgent == AgentSpec => ImplementsDropAgent
<1>1. AgentInit => Coarse!AgentInit /\ Coarse!WireInit
    <2> SUFFICES ASSUME AgentInit PROVE Coarse!AgentInit /\ Coarse!WireInit
        OBVIOUS
    <2>1. Serves = FALSE
        BY DEF AgentInit, Serves, Stopping
    <2>2. CoarseQueue = <<>> /\ CoarseWorker = "waiting"
        BY <2>1 DEF AgentInit, CoarseQueue, CoarseWorker
    <2>3. Coarse!AgentInit
        BY <2>1, <2>2 DEF AgentInit, Coarse!AgentInit
    <2>4. Coarse!WireInit
        BY DEF AgentInit, Coarse!WireInit
    <2> QED
        BY <2>3, <2>4
<1>2. AgentInit => FreshQueue
    BY DEF AgentInit, FreshQueue
<1>3. AInv /\ FreshQueue /\ [AgentNext]_agentVars => [CoarseNext]_coarseVars
    <2> SUFFICES ASSUME AInv, FreshQueue, [AgentNext]_agentVars
                 PROVE  CoarseNext \/ UNCHANGED coarseVars
        OBVIOUS
    <2>1. CASE RecordRuns
        BY <2>1, Stutters DEF RecordRuns, mainVars, callVars, Serves, CoarseQueue, CoarseWorker
    <2>2. CASE UNCHANGED agentVars
        BY <2>2, Stutters DEF agentVars, mainVars, callVars, workVars, Serves, CoarseQueue,
            CoarseWorker
    <2> QED
        BY <2>1, <2>2, MainRefines, HeartbeatRefines, WorkerRefines DEF AgentNext, CommandNext
<1> QED
    BY <1>1, <1>2, <1>3, FreshQueueStep, AgentInductive, PTL DEF AgentSpec, ImplementsDropAgent
=============================================================================
