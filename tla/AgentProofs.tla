----------------------------- MODULE AgentProofs -----------------------------
(***************************************************************************)
(* Proofs about the threads of a drop_agent and the perf it starts, for    *)
(* any set of tasks.                                                       *)
(***************************************************************************)
EXTENDS AgentThreads, TLAPS

(* Perf::Record: where the child and its sleep can be while the parent is    *)
(* where it is.  The group exists as soon as either process has called       *)
(* setpgid, and the parent calls it before it polls.                         *)
ChildFollows ==
    /\ rec \in {"idle", "returned"} <=> perf = "none"
    /\ perf \in {"grouped", "recording", "zombie"} => ownGroup
    /\ rec \in {"polling", "checking", "killing", "reaping"} => ownGroup
    /\ rec = "reaping" => perf = "zombie" /\ sleeper # "running"
    /\ perf \in {"forked", "grouped"} => sleeper = "none"
    /\ perf \in {"forked", "grouped", "recording"} => ended = "none"
    /\ perf = "zombie" /\ sleeper = "running" => ended = "signal"
    /\ rec = "returned" =>
        /\ sleeper = "running" => ended = "signal" /\ outcome = "error"
        /\ outcome = "ok" => ended = "ok"

(* Which thread exists, and whether it still works, by where main is.        *)
ThreadsFollow ==
    /\ main \in {"loading", "registering", "starting hc", "killed"} => heartbeat = "none"
    /\ main \in {"loading", "registering", "starting hc", "starting hmc", "aliasing", "killed"}
        => worker = "none"
    /\ main \in {"stopping hmc", "joining hmc", "exited"} => heartbeat \in {"none", "done"}
    /\ main = "exited" => worker \in {"none", "done"}
    /\ main \in {"notifying", "joining hc", "stopping hmc", "joining hmc"} => hcRunning = FALSE

(* The holder of the mutex is the thread that is between taking and          *)
(* releasing it.                                                             *)
HolderOnly ==
    /\ queue_mutex = "heartbeat" <=> heartbeat = "push"
    /\ queue_mutex = "worker" <=> worker \in {"testing", "blocking", "taking"}

(* What the worker saw when it decided to sleep is still so.                 *)
SleepsForReason ==
    /\ worker = "blocking" => task_queue = <<>>
    /\ NoTaskMissed
    /\ worker \in {"blocking", "waiting"}
        /\ main \in {"joining hc", "stopping hmc", "joining hmc"} => unheard

(* The call in progress, and the task in its reply.                          *)
CallFollows ==
    /\ call # "idle" <=> heartbeat \in {"calling", "lock", "push"}
    /\ heartbeat \in {"lock", "push"} => call = "replied" /\ carried \in Tasks
    /\ carried # NoTask => call = "replied"

(* The task of the worker, what perf has written for it and what is stored.  *)
JobFollows ==
    /\ worker \in InTask <=> job \in Tasks
    /\ rec # "idle" => worker = "recording"
    /\ rec # "idle" /\ ended = "ok" => job \in recorded
    /\ worker \in InCommand => job \in recorded
    /\ worker = "reportOk" => job \in objects
    /\ StoredIsComplete

(* AgentTypeOK in parts.                                                    *)
MainTypes ==
    /\ main \in MainStates
    /\ g_shutdown \in BOOLEAN /\ hcRunning \in BOOLEAN /\ hmcRunning \in BOOLEAN
    /\ unheard \in BOOLEAN

HeartbeatTypes ==
    /\ heartbeat \in HeartbeatStates
    /\ queue_mutex \in {"free", "heartbeat", "worker"}
    /\ call \in {"idle", "sent", "replied"}

WorkerTypes == worker \in WorkerStates

QueueTypes ==
    /\ task_queue \in Seq(Tasks)
    /\ carried \in MaybeTask
    /\ given \subseteq Tasks
    /\ job \in MaybeTask
    /\ runs \in [Tasks -> Nat]

StoreTypes ==
    /\ recorded \subseteq Tasks
    /\ objects \subseteq Tasks
    /\ notifyReq \subseteq Tasks \X {"ok", "err"}

AInv ==
    /\ AgentTypeOK /\ ChildFollows /\ ThreadsFollow /\ HolderOnly
    /\ SleepsForReason /\ CallFollows /\ JobFollows
------------------------------------------------------------------------------
LEMMA HeadOf ==
    ASSUME NEW S, NEW q \in Seq(S), q # <<>> PROVE Head(q) \in S
OBVIOUS

(* Who can change what: every action that is not named leaves it alone.      *)

(* The processes of Perf::Record.                                            *)
LEMMA PerfFootprint ==
    ASSUME [AgentNext]_agentVars
    PROVE  \/ RecordCalled \/ RecordRuns \/ RecordDone \/ Killed
           \/ UNCHANGED perfVars
BY DEF AgentNext, MainNext, HeartbeatNext, WorkerNext, CommandNext, agentVars,
   mainVars, flagVars, callVars, workVars, perfVars, MainStep, HeartbeatStep,
   WorkerStep, LoadConfig, RegisterToServer, StartHeartbeat, StartHotmethod,
   StartWorker, InstallHandlers, HandleSignal, SeeShutdown, StopHeartbeat,
   NotifyAll, JoinHeartbeat, StopWorker, JoinWorker, CheckRunning, ServerReplies,
   CallReturnsNothing, CallReturnsTask, LockQueue, PushTask, NotifyOne,
   SleepOneSecond, CheckRun, LockForTest, TestQueue, Wait, SpuriousWakeup,
   NoMoreTasks, TakeTask, CosInit, PutFile, NotifyResult, NotifyReturn

(* The heartbeat call.                                                       *)
LEMMA CallFootprint ==
    ASSUME [AgentNext]_agentVars
    PROVE  \/ StartHeartbeat \/ Killed \/ CheckRunning \/ ServerReplies
           \/ CallReturnsNothing \/ CallReturnsTask \/ LockQueue \/ PushTask
           \/ NotifyOne \/ SleepOneSecond
           \/ UNCHANGED <<call, carried, heartbeat>>
BY DEF AgentNext, MainNext, HeartbeatNext, WorkerNext, CommandNext, agentVars,
   mainVars, flagVars, callVars, workVars, perfVars, MainStep, HeartbeatStep,
   WorkerStep, LoadConfig, RegisterToServer, StartHotmethod, StartWorker,
   InstallHandlers, HandleSignal, SeeShutdown, StopHeartbeat, NotifyAll,
   JoinHeartbeat, StopWorker, JoinWorker, CheckRun, LockForTest, TestQueue, Wait,
   SpuriousWakeup, NoMoreTasks, TakeTask, RecordCalled, RecordDone, CosInit,
   PutFile, NotifyResult, NotifyReturn, RecordRuns

(* The mutex.                                                                *)
LEMMA MutexFootprint ==
    ASSUME [AgentNext]_agentVars
    PROVE  \/ StartHeartbeat \/ StartWorker \/ NotifyAll \/ Killed
           \/ CheckRunning \/ CallReturnsNothing \/ CallReturnsTask
           \/ LockQueue \/ PushTask \/ NotifyOne \/ SleepOneSecond \/ CheckRun
           \/ LockForTest \/ TestQueue \/ Wait \/ SpuriousWakeup
           \/ NoMoreTasks \/ TakeTask \/ RecordDone \/ CosInit \/ PutFile
           \/ NotifyResult \/ NotifyReturn
           \/ UNCHANGED <<queue_mutex, heartbeat, worker>>
BY DEF AgentNext, MainNext, HeartbeatNext, WorkerNext, CommandNext, agentVars,
   mainVars, flagVars, callVars, workVars, perfVars, MainStep, HeartbeatStep,
   WorkerStep, LoadConfig, RegisterToServer, StartHotmethod, InstallHandlers,
   HandleSignal, SeeShutdown, StopHeartbeat, JoinHeartbeat, StopWorker, JoinWorker,
   ServerReplies, RecordCalled, RecordRuns

(* The task of the worker.                                                   *)
LEMMA JobFootprint ==
    ASSUME [AgentNext]_agentVars
    PROVE  \/ StartWorker \/ NotifyAll \/ Killed \/ NotifyOne \/ CheckRun
           \/ LockForTest \/ TestQueue \/ Wait \/ SpuriousWakeup
           \/ NoMoreTasks \/ TakeTask \/ RecordCalled \/ RecordDone \/ CosInit
           \/ PutFile \/ NotifyResult \/ NotifyReturn \/ RecordRuns
           \/ UNCHANGED <<worker, job, recorded, objects, notifyReq, rec, ended, outcome>>
BY DEF AgentNext, MainNext, HeartbeatNext, WorkerNext, CommandNext, agentVars,
   mainVars, flagVars, callVars, workVars, perfVars, MainStep, HeartbeatStep,
   WorkerStep, LoadConfig, RegisterToServer, StartHeartbeat, StartHotmethod,
   InstallHandlers, HandleSignal, SeeShutdown, StopHeartbeat, JoinHeartbeat,
   StopWorker, JoinWorker, CheckRunning, ServerReplies, CallReturnsNothing,
   CallReturnsTask, LockQueue, PushTask, SleepOneSecond

(* Where tasks are.                                                          *)
LEMMA QueueFootprint ==
    ASSUME [AgentNext]_agentVars
    PROVE  \/ Killed \/ ServerReplies \/ CallReturnsNothing \/ PushTask
           \/ TakeTask \/ NotifyReturn
           \/ UNCHANGED <<task_queue, carried, given, job, runs>>
BY DEF AgentNext, MainNext, HeartbeatNext, WorkerNext, CommandNext, agentVars,
   mainVars, flagVars, callVars, workVars, perfVars, MainStep, HeartbeatStep,
   WorkerStep, LoadConfig, RegisterToServer, StartHeartbeat, StartHotmethod,
   StartWorker, InstallHandlers, HandleSignal, SeeShutdown, StopHeartbeat,
   NotifyAll, JoinHeartbeat, StopWorker, JoinWorker, CheckRunning, CallReturnsTask,
   LockQueue, NotifyOne, SleepOneSecond, CheckRun, LockForTest, TestQueue, Wait,
   SpuriousWakeup, NoMoreTasks, RecordCalled, RecordDone, CosInit, PutFile,
   NotifyResult, RecordRuns

(* What is left of a task.                                                   *)
LEMMA StoreFootprint ==
    ASSUME [AgentNext]_agentVars
    PROVE  \/ RecordRuns \/ PutFile \/ NotifyResult
           \/ UNCHANGED <<recorded, objects, notifyReq>>
BY DEF AgentNext, MainNext, HeartbeatNext, WorkerNext, CommandNext, agentVars,
   mainVars, flagVars, callVars, workVars, perfVars, MainStep, HeartbeatStep,
   WorkerStep, LoadConfig, RegisterToServer, StartHeartbeat, StartHotmethod,
   StartWorker, InstallHandlers, HandleSignal, SeeShutdown, StopHeartbeat,
   NotifyAll, JoinHeartbeat, StopWorker, JoinWorker, Killed, CheckRunning,
   ServerReplies, CallReturnsNothing, CallReturnsTask, LockQueue, PushTask,
   NotifyOne, SleepOneSecond, CheckRun, LockForTest, TestQueue, Wait,
   SpuriousWakeup, NoMoreTasks, TakeTask, RecordCalled, RecordDone, CosInit,
   NotifyReturn

(* main and the flags.                                                       *)
LEMMA MainFootprint ==
    ASSUME [AgentNext]_agentVars
    PROVE  \/ LoadConfig \/ RegisterToServer \/ StartHeartbeat
           \/ StartHotmethod \/ StartWorker \/ InstallHandlers \/ HandleSignal
           \/ SeeShutdown \/ StopHeartbeat \/ NotifyAll \/ JoinHeartbeat
           \/ StopWorker \/ JoinWorker \/ Killed \/ UNCHANGED mainVars
BY DEF AgentNext, MainNext, HeartbeatNext, WorkerNext, CommandNext, agentVars,
   mainVars, flagVars, callVars, workVars, perfVars, MainStep, HeartbeatStep,
   WorkerStep, CheckRunning, ServerReplies, CallReturnsNothing, CallReturnsTask,
   LockQueue, PushTask, NotifyOne, SleepOneSecond, CheckRun, LockForTest, TestQueue,
   Wait, SpuriousWakeup, NoMoreTasks, TakeTask, RecordCalled, RecordDone, CosInit,
   PutFile, NotifyResult, NotifyReturn, RecordRuns

(* The heartbeat thread.                                                     *)
LEMMA HeartbeatFootprint ==
    ASSUME [AgentNext]_agentVars
    PROVE  \/ StartHeartbeat \/ Killed \/ CheckRunning \/ ServerReplies
           \/ CallReturnsNothing \/ CallReturnsTask \/ LockQueue \/ PushTask
           \/ NotifyOne \/ SleepOneSecond \/ LockForTest \/ Wait
           \/ NoMoreTasks \/ TakeTask
           \/ UNCHANGED <<heartbeat, queue_mutex, call>>
BY DEF AgentNext, MainNext, HeartbeatNext, WorkerNext, CommandNext, agentVars,
   mainVars, flagVars, callVars, workVars, perfVars, MainStep, HeartbeatStep,
   WorkerStep, LoadConfig, RegisterToServer, StartHotmethod, StartWorker,
   InstallHandlers, HandleSignal, SeeShutdown, StopHeartbeat, NotifyAll,
   JoinHeartbeat, StopWorker, JoinWorker, CheckRun, TestQueue, SpuriousWakeup,
   RecordCalled, RecordDone, CosInit, PutFile, NotifyResult, NotifyReturn,
   RecordRuns

(* The worker thread.                                                        *)
LEMMA WorkerFootprint ==
    ASSUME [AgentNext]_agentVars
    PROVE  \/ StartWorker \/ NotifyAll \/ Killed \/ NotifyOne \/ CheckRun
           \/ LockForTest \/ TestQueue \/ Wait \/ SpuriousWakeup
           \/ NoMoreTasks \/ TakeTask \/ RecordDone \/ CosInit \/ PutFile
           \/ NotifyResult \/ NotifyReturn \/ UNCHANGED worker
BY DEF AgentNext, MainNext, HeartbeatNext, WorkerNext, CommandNext, agentVars,
   mainVars, flagVars, callVars, workVars, perfVars, MainStep, HeartbeatStep,
   WorkerStep, LoadConfig, RegisterToServer, StartHeartbeat, StartHotmethod,
   InstallHandlers, HandleSignal, SeeShutdown, StopHeartbeat, JoinHeartbeat,
   StopWorker, JoinWorker, CheckRunning, ServerReplies, CallReturnsNothing,
   CallReturnsTask, LockQueue, PushTask, SleepOneSecond, RecordCalled, RecordRuns

(* A thread that does not exist, or is over, makes no step; the heartbeat    *)
(* thread can only wake the worker up.                                       *)
LEMMA HeartbeatSteps ==
    ASSUME HeartbeatNext
    PROVE  /\ heartbeat \notin {"none", "done"} /\ heartbeat' # "none"
           /\ UNCHANGED <<main, hcRunning>>
           /\ worker' = worker \/ (worker = "waiting" /\ worker' = "woken")
BY DEF HeartbeatNext, HeartbeatStep, mainVars, flagVars, CheckRunning, CallReturnsNothing,
    CallReturnsTask, LockQueue, PushTask, NotifyOne, SleepOneSecond

LEMMA WorkerSteps ==
    ASSUME WorkerNext \/ CosInit \/ PutFile \/ SpuriousWakeup
    PROVE  /\ worker \notin {"none", "done"} /\ worker' # "none"
           /\ UNCHANGED <<main, hcRunning, heartbeat>>
BY DEF WorkerNext, WorkerStep, mainVars, flagVars, CheckRun, LockForTest, TestQueue, Wait,
    NoMoreTasks, TakeTask, RecordCalled, RecordDone, NotifyResult, NotifyReturn, CosInit,
    PutFile, SpuriousWakeup

------------------------------------------------------------------------------
(* Perf::Record, process by process.                                         *)
LEMMA ChildFollowsStep ==
    AInv /\ [AgentNext]_agentVars => ChildFollows'
<1> SUFFICES ASSUME AInv, [AgentNext]_agentVars
             PROVE  ChildFollows'
    OBVIOUS
<1> USE DEF AInv, AgentTypeOK, PerfTypeOK, JobFollows, ChildFollows, perfVars,
   RecStates, PerfStates
<1>1. CASE RecordCalled
    BY <1>1 DEF RecordCalled, CallRecord, Returns
<1>2. CASE RecordRuns
    <2>1. CASE ParentSetpgid
        BY <1>2, <2>1 DEF RecordRuns, ParentSetpgid
    <2>2. CASE PollChild
        BY <1>2, <2>2 DEF RecordRuns, PollChild, Returns
    <2>3. CASE CheckDeadline
        BY <1>2, <2>3 DEF RecordRuns, CheckDeadline
    <2>4. CASE KillGroup
        BY <1>2, <2>4 DEF RecordRuns, KillGroup, ChildDies
    <2>5. CASE Reap
        BY <1>2, <2>5 DEF RecordRuns, Reap, Returns
    <2>6. CASE ChildSetpgid
        BY <1>2, <2>6 DEF RecordRuns, ChildSetpgid
    <2>7. CASE ChildExec
        BY <1>2, <2>7 DEF RecordRuns, ChildExec
    <2>8. CASE SleepEnds
        BY <1>2, <2>8 DEF RecordRuns, SleepEnds
    <2>9. CASE PerfEnds
        BY <1>2, <2>9 DEF RecordRuns, PerfEnds
    <2>10. CASE DeadlinePasses
        BY <1>2, <2>10 DEF RecordRuns, DeadlinePasses
    <2> QED
        BY <1>2, <2>1, <2>2, <2>3, <2>4, <2>5, <2>6, <2>7, <2>8, <2>9, <2>10
        DEF RecordRuns, PerfStep, ParentStep, ChildStep
<1>3. CASE RecordDone
    BY <1>3 DEF RecordDone, WorkerStep
<1>4. CASE Killed
    BY <1>4 DEF Killed
<1>5. CASE UNCHANGED perfVars
    BY <1>5
<1> QED
    BY <1>1, <1>2, <1>3, <1>4, <1>5, PerfFootprint

(* A task in a reply is on its way to the queue.                             *)
LEMMA CallFollowsStep ==
    AInv /\ [AgentNext]_agentVars => CallFollows'
<1> SUFFICES ASSUME AInv, [AgentNext]_agentVars
             PROVE  CallFollows'
    OBVIOUS
<1> USE AgentAssumption DEF AInv, AgentTypeOK, CallFollows, ThreadsFollow,
   MaybeTask, callVars
<1>1. CASE StartHeartbeat
    BY <1>1 DEF StartHeartbeat, MainStep
<1>2. CASE Killed
    BY <1>2 DEF Killed
<1>3. CASE CheckRunning
    BY <1>3 DEF CheckRunning, HeartbeatStep
<1>4. CASE ServerReplies
    BY <1>4 DEF ServerReplies
<1>5. CASE CallReturnsNothing
    BY <1>5 DEF CallReturnsNothing, HeartbeatStep
<1>6. CASE CallReturnsTask
    BY <1>6 DEF CallReturnsTask, HeartbeatStep
<1>7. CASE LockQueue
    BY <1>7 DEF LockQueue, HeartbeatStep
<1>8. CASE PushTask
    BY <1>8 DEF PushTask, HeartbeatStep
<1>9. CASE NotifyOne
    BY <1>9 DEF NotifyOne, HeartbeatStep
<1>10. CASE SleepOneSecond
    BY <1>10 DEF SleepOneSecond, HeartbeatStep
<1>11. CASE UNCHANGED <<call, carried, heartbeat>>
    BY <1>11
<1> QED
    BY <1>1, <1>2, <1>3, <1>4, <1>5, <1>6, <1>7, <1>8, <1>9, <1>10, <1>11,
       CallFootprint

(* Mutual exclusion.                                                         *)
LEMMA HolderOnlyStep ==
    AInv /\ [AgentNext]_agentVars => HolderOnly'
<1> SUFFICES ASSUME AInv, [AgentNext]_agentVars
             PROVE  HolderOnly'
    OBVIOUS
<1> USE DEF AInv, AgentTypeOK, HolderOnly, ThreadsFollow
<1>1. CASE StartHeartbeat
    BY <1>1 DEF StartHeartbeat, MainStep
<1>2. CASE StartWorker
    BY <1>2 DEF StartWorker, MainStep
<1>3. CASE NotifyAll
    BY <1>3 DEF NotifyAll, MainStep
<1>4. CASE Killed
    BY <1>4 DEF Killed
<1>5. CASE CheckRunning
    BY <1>5 DEF CheckRunning, HeartbeatStep
<1>6. CASE CallReturnsNothing
    BY <1>6 DEF CallReturnsNothing, HeartbeatStep
<1>7. CASE CallReturnsTask
    BY <1>7 DEF CallReturnsTask, HeartbeatStep
<1>8. CASE LockQueue
    BY <1>8 DEF LockQueue, HeartbeatStep
<1>9. CASE PushTask
    BY <1>9 DEF PushTask, HeartbeatStep
<1>10. CASE NotifyOne
    BY <1>10 DEF NotifyOne, HeartbeatStep
<1>11. CASE SleepOneSecond
    BY <1>11 DEF SleepOneSecond, HeartbeatStep
<1>12. CASE CheckRun
    BY <1>12 DEF CheckRun, WorkerStep
<1>13. CASE LockForTest
    BY <1>13 DEF LockForTest, WorkerStep
<1>14. CASE TestQueue
    BY <1>14 DEF TestQueue, WorkerStep
<1>15. CASE Wait
    BY <1>15 DEF Wait, WorkerStep
<1>16. CASE SpuriousWakeup
    BY <1>16 DEF SpuriousWakeup, WorkerStep
<1>17. CASE NoMoreTasks
    BY <1>17 DEF NoMoreTasks, WorkerStep
<1>18. CASE TakeTask
    BY <1>18 DEF TakeTask, WorkerStep
<1>19. CASE RecordDone
    BY <1>19 DEF RecordDone, WorkerStep
<1>20. CASE CosInit
    BY <1>20 DEF CosInit, WorkerStep
<1>21. CASE PutFile
    BY <1>21 DEF PutFile, WorkerStep
<1>22. CASE NotifyResult
    BY <1>22 DEF NotifyResult, WorkerStep
<1>23. CASE NotifyReturn
    BY <1>23 DEF NotifyReturn, WorkerStep
<1>24. CASE UNCHANGED <<queue_mutex, heartbeat, worker>>
    BY <1>24
<1> QED
    BY <1>1, <1>2, <1>3, <1>4, <1>5, <1>6, <1>7, <1>8, <1>9, <1>10, <1>11, <1>12,
       <1>13, <1>14, <1>15, <1>16, <1>17, <1>18, <1>19, <1>20, <1>21, <1>22, <1>23,
       <1>24, MutexFootprint

(* The task of the worker and its traces.                                    *)
LEMMA JobFollowsStep ==
    AInv /\ [AgentNext]_agentVars => JobFollows'
<1> SUFFICES ASSUME AInv, [AgentNext]_agentVars
             PROVE  JobFollows'
    OBVIOUS
<1> USE AgentAssumption DEF AInv, AgentTypeOK, PerfTypeOK, JobFollows, ChildFollows,
   ThreadsFollow, StoredIsComplete, InTask, InCommand, MaybeTask, workVars, perfVars
<1>1. CASE StartWorker
    BY <1>1 DEF StartWorker, MainStep
<1>2. CASE NotifyAll
    BY <1>2 DEF NotifyAll, MainStep
<1>3. CASE Killed
    BY <1>3 DEF Killed
<1>4. CASE NotifyOne
    BY <1>4 DEF NotifyOne, HeartbeatStep
<1>5. CASE CheckRun
    BY <1>5 DEF CheckRun, WorkerStep
<1>6. CASE LockForTest
    BY <1>6 DEF LockForTest, WorkerStep
<1>7. CASE TestQueue
    BY <1>7 DEF TestQueue, WorkerStep
<1>8. CASE Wait
    BY <1>8 DEF Wait, WorkerStep
<1>9. CASE SpuriousWakeup
    BY <1>9 DEF SpuriousWakeup, WorkerStep
<1>10. CASE NoMoreTasks
    BY <1>10 DEF NoMoreTasks, WorkerStep
<1>11. CASE TakeTask
    <2>1. Head(task_queue) \in Tasks
        BY <1>11, HeadOf DEF TakeTask
    <2> QED
        BY <1>11, <2>1 DEF TakeTask, WorkerStep
<1>12. CASE RecordCalled
    BY <1>12 DEF RecordCalled, CallRecord, Returns
<1>13. CASE RecordDone
    BY <1>13 DEF RecordDone, WorkerStep
<1>14. CASE CosInit
    BY <1>14 DEF CosInit, WorkerStep
<1>15. CASE PutFile
    BY <1>15 DEF PutFile, WorkerStep
<1>16. CASE NotifyResult
    BY <1>16 DEF NotifyResult, WorkerStep
<1>17. CASE NotifyReturn
    BY <1>17 DEF NotifyReturn, WorkerStep
<1>18. CASE RecordRuns
    <2>1. CASE ParentSetpgid
        BY <1>18, <2>1 DEF RecordRuns, ParentSetpgid
    <2>2. CASE PollChild
        BY <1>18, <2>2 DEF RecordRuns, PollChild, Returns
    <2>3. CASE CheckDeadline
        BY <1>18, <2>3 DEF RecordRuns, CheckDeadline
    <2>4. CASE KillGroup
        BY <1>18, <2>4 DEF RecordRuns, KillGroup, ChildDies
    <2>5. CASE Reap
        BY <1>18, <2>5 DEF RecordRuns, Reap, Returns
    <2>6. CASE ChildSetpgid
        BY <1>18, <2>6 DEF RecordRuns, ChildSetpgid
    <2>7. CASE ChildExec
        BY <1>18, <2>7 DEF RecordRuns, ChildExec
    <2>8. CASE SleepEnds
        BY <1>18, <2>8 DEF RecordRuns, SleepEnds
    <2>9. CASE PerfEnds
        BY <1>18, <2>9 DEF RecordRuns, PerfEnds
    <2>10. CASE DeadlinePasses
        BY <1>18, <2>10 DEF RecordRuns, DeadlinePasses
    <2> QED
        BY <1>18, <2>1, <2>2, <2>3, <2>4, <2>5, <2>6, <2>7, <2>8, <2>9, <2>10
        DEF RecordRuns, PerfStep, ParentStep, ChildStep
<1>19. CASE UNCHANGED <<worker, job, recorded, objects, notifyReq, rec, ended, outcome>>
    BY <1>19
<1> QED
    BY <1>1, <1>2, <1>3, <1>4, <1>5, <1>6, <1>7, <1>8, <1>9, <1>10, <1>11, <1>12,
       <1>13, <1>14, <1>15, <1>16, <1>17, <1>18, <1>19, JobFootprint

(* Start and ordered shutdown.                                               *)
LEMMA ThreadsFollowStep ==
    AInv /\ [AgentNext]_agentVars => ThreadsFollow'
<1> SUFFICES ASSUME AInv, [AgentNext]_agentVars
             PROVE  ThreadsFollow'
    OBVIOUS
<1> USE DEF AInv, ThreadsFollow, mainVars, flagVars
<1>1. CASE LoadConfig
    BY <1>1 DEF LoadConfig, MainStep
<1>2. CASE RegisterToServer
    BY <1>2 DEF RegisterToServer, MainStep
<1>3. CASE StartHeartbeat
    BY <1>3 DEF StartHeartbeat, MainStep
<1>4. CASE StartHotmethod
    BY <1>4 DEF StartHotmethod, MainStep
<1>5. CASE StartWorker
    BY <1>5 DEF StartWorker, MainStep
<1>6. CASE InstallHandlers
    BY <1>6 DEF InstallHandlers, MainStep
<1>7. CASE HandleSignal
    BY <1>7 DEF HandleSignal
<1>8. CASE SeeShutdown
    BY <1>8 DEF SeeShutdown, MainStep
<1>9. CASE StopHeartbeat
    BY <1>9 DEF StopHeartbeat, MainStep
<1>10. CASE NotifyAll
    BY <1>10 DEF NotifyAll, MainStep
<1>11. CASE JoinHeartbeat
    BY <1>11 DEF JoinHeartbeat, MainStep
<1>12. CASE StopWorker
    BY <1>12 DEF StopWorker, MainStep
<1>13. CASE JoinWorker
    BY <1>13 DEF JoinWorker, MainStep
<1>14. CASE Killed
    BY <1>14 DEF Killed
<1>15. CASE HeartbeatNext
    BY <1>15, HeartbeatSteps
<1>16. CASE WorkerNext \/ CosInit \/ PutFile \/ SpuriousWakeup
    BY <1>16, WorkerSteps
<1>17. CASE ServerReplies
    BY <1>17 DEF ServerReplies
<1>18. CASE RecordRuns
    BY <1>18 DEF RecordRuns
<1>19. CASE UNCHANGED agentVars
    BY <1>19 DEF agentVars
<1> QED
    BY <1>1, <1>2, <1>3, <1>4, <1>5, <1>6, <1>7, <1>8, <1>9, <1>10, <1>11, <1>12,
        <1>13, <1>14, <1>15, <1>16, <1>17, <1>18, <1>19
    DEF AgentNext, MainNext, CommandNext

(* The condition variable.                                                   *)
LEMMA SleepsForReasonStep ==
    AInv /\ [AgentNext]_agentVars => SleepsForReason'
<1> SUFFICES ASSUME AInv, [AgentNext]_agentVars
             PROVE  SleepsForReason'
    OBVIOUS
<1> USE DEF AInv, AgentTypeOK, HolderOnly, ThreadsFollow, SleepsForReason,
   NoTaskMissed, mainVars, flagVars
<1>1. CASE LoadConfig
    BY <1>1 DEF LoadConfig, MainStep
<1>2. CASE RegisterToServer
    BY <1>2 DEF RegisterToServer, MainStep
<1>3. CASE StartHeartbeat
    BY <1>3 DEF StartHeartbeat, MainStep
<1>4. CASE StartHotmethod
    BY <1>4 DEF StartHotmethod, MainStep
<1>5. CASE StartWorker
    BY <1>5 DEF StartWorker, MainStep
<1>6. CASE InstallHandlers
    BY <1>6 DEF InstallHandlers, MainStep
<1>7. CASE HandleSignal
    BY <1>7 DEF HandleSignal
<1>8. CASE SeeShutdown
    BY <1>8 DEF SeeShutdown, MainStep
<1>9. CASE StopHeartbeat
    BY <1>9 DEF StopHeartbeat, MainStep
<1>10. CASE NotifyAll
    BY <1>10 DEF NotifyAll, MainStep
<1>11. CASE JoinHeartbeat
    BY <1>11 DEF JoinHeartbeat, MainStep
<1>12. CASE StopWorker
    BY <1>12 DEF StopWorker, MainStep
<1>13. CASE JoinWorker
    BY <1>13 DEF JoinWorker, MainStep
<1>14. CASE Killed
    BY <1>14 DEF Killed
<1>15. CASE CheckRunning
    BY <1>15 DEF CheckRunning, HeartbeatStep
<1>16. CASE ServerReplies
    BY <1>16 DEF ServerReplies
<1>17. CASE CallReturnsNothing
    BY <1>17 DEF CallReturnsNothing, HeartbeatStep
<1>18. CASE CallReturnsTask
    BY <1>18 DEF CallReturnsTask, HeartbeatStep
<1>19. CASE LockQueue
    BY <1>19 DEF LockQueue, HeartbeatStep
<1>20. CASE PushTask
    BY <1>20 DEF PushTask, HeartbeatStep
<1>21. CASE NotifyOne
    BY <1>21 DEF NotifyOne, HeartbeatStep
<1>22. CASE SleepOneSecond
    BY <1>22 DEF SleepOneSecond, HeartbeatStep
<1>23. CASE CheckRun
    BY <1>23 DEF CheckRun, WorkerStep
<1>24. CASE LockForTest
    BY <1>24 DEF LockForTest, WorkerStep
<1>25. CASE TestQueue
    BY <1>25 DEF TestQueue, WorkerStep
<1>26. CASE Wait
    BY <1>26 DEF Wait, WorkerStep
<1>27. CASE SpuriousWakeup
    BY <1>27 DEF SpuriousWakeup, WorkerStep
<1>28. CASE NoMoreTasks
    BY <1>28 DEF NoMoreTasks, WorkerStep
<1>29. CASE TakeTask
    BY <1>29 DEF TakeTask, WorkerStep
<1>30. CASE RecordCalled
    BY <1>30 DEF RecordCalled, CallRecord, Returns
<1>31. CASE RecordDone
    BY <1>31 DEF RecordDone, WorkerStep
<1>32. CASE CosInit
    BY <1>32 DEF CosInit, WorkerStep
<1>33. CASE PutFile
    BY <1>33 DEF PutFile, WorkerStep
<1>34. CASE NotifyResult
    BY <1>34 DEF NotifyResult, WorkerStep
<1>35. CASE NotifyReturn
    BY <1>35 DEF NotifyReturn, WorkerStep
<1>36. CASE RecordRuns
    BY <1>36 DEF RecordRuns
<1>37. CASE UNCHANGED agentVars
    BY <1>37 DEF agentVars
<1> QED
    BY <1>1, <1>2, <1>3, <1>4, <1>5, <1>6, <1>7, <1>8, <1>9, <1>10, <1>11, <1>12,
       <1>13, <1>14, <1>15, <1>16, <1>17, <1>18, <1>19, <1>20, <1>21, <1>22, <1>23,
       <1>24, <1>25, <1>26, <1>27, <1>28, <1>29, <1>30, <1>31, <1>32, <1>33, <1>34,
       <1>35, <1>36, <1>37
    DEF AgentNext, MainNext, HeartbeatNext, WorkerNext, CommandNext

(* The states of main.                                                       *)
LEMMA MainTypesStep ==
    AInv /\ [AgentNext]_agentVars => MainTypes'
<1> SUFFICES ASSUME AInv, [AgentNext]_agentVars
             PROVE  MainTypes'
    OBVIOUS
<1> USE DEF AInv, AgentTypeOK, MainTypes, mainVars, flagVars, MainStates, Starting,
   Stopping
<1>1. CASE LoadConfig
    BY <1>1 DEF LoadConfig, MainStep
<1>2. CASE RegisterToServer
    BY <1>2 DEF RegisterToServer, MainStep
<1>3. CASE StartHeartbeat
    BY <1>3 DEF StartHeartbeat, MainStep
<1>4. CASE StartHotmethod
    BY <1>4 DEF StartHotmethod, MainStep
<1>5. CASE StartWorker
    BY <1>5 DEF StartWorker, MainStep
<1>6. CASE InstallHandlers
    BY <1>6 DEF InstallHandlers, MainStep
<1>7. CASE HandleSignal
    BY <1>7 DEF HandleSignal
<1>8. CASE SeeShutdown
    BY <1>8 DEF SeeShutdown, MainStep
<1>9. CASE StopHeartbeat
    BY <1>9 DEF StopHeartbeat, MainStep
<1>10. CASE NotifyAll
    BY <1>10 DEF NotifyAll, MainStep
<1>11. CASE JoinHeartbeat
    BY <1>11 DEF JoinHeartbeat, MainStep
<1>12. CASE StopWorker
    BY <1>12 DEF StopWorker, MainStep
<1>13. CASE JoinWorker
    BY <1>13 DEF JoinWorker, MainStep
<1>14. CASE Killed
    BY <1>14 DEF Killed
<1>15. CASE UNCHANGED mainVars
    BY <1>15
<1> QED
    BY <1>1, <1>2, <1>3, <1>4, <1>5, <1>6, <1>7, <1>8, <1>9, <1>10, <1>11, <1>12,
       <1>13, <1>14, <1>15, MainFootprint

(* The states of the heartbeat thread.                                       *)
LEMMA HeartbeatTypesStep ==
    AInv /\ [AgentNext]_agentVars => HeartbeatTypes'
<1> SUFFICES ASSUME AInv, [AgentNext]_agentVars
             PROVE  HeartbeatTypes'
    OBVIOUS
<1> USE DEF AInv, AgentTypeOK, HeartbeatTypes, HeartbeatStates, callVars
<1>1. CASE StartHeartbeat
    BY <1>1 DEF StartHeartbeat, MainStep
<1>2. CASE Killed
    BY <1>2 DEF Killed
<1>3. CASE CheckRunning
    BY <1>3 DEF CheckRunning, HeartbeatStep
<1>4. CASE ServerReplies
    BY <1>4 DEF ServerReplies
<1>5. CASE CallReturnsNothing
    BY <1>5 DEF CallReturnsNothing, HeartbeatStep
<1>6. CASE CallReturnsTask
    BY <1>6 DEF CallReturnsTask, HeartbeatStep
<1>7. CASE LockQueue
    BY <1>7 DEF LockQueue, HeartbeatStep
<1>8. CASE PushTask
    BY <1>8 DEF PushTask, HeartbeatStep
<1>9. CASE NotifyOne
    BY <1>9 DEF NotifyOne, HeartbeatStep
<1>10. CASE SleepOneSecond
    BY <1>10 DEF SleepOneSecond, HeartbeatStep
<1>11. CASE LockForTest
    BY <1>11 DEF LockForTest, WorkerStep
<1>12. CASE Wait
    BY <1>12 DEF Wait, WorkerStep
<1>13. CASE NoMoreTasks
    BY <1>13 DEF NoMoreTasks, WorkerStep
<1>14. CASE TakeTask
    BY <1>14 DEF TakeTask, WorkerStep
<1>15. CASE UNCHANGED <<heartbeat, queue_mutex, call>>
    BY <1>15
<1> QED
    BY <1>1, <1>2, <1>3, <1>4, <1>5, <1>6, <1>7, <1>8, <1>9, <1>10, <1>11, <1>12,
       <1>13, <1>14, <1>15, HeartbeatFootprint

(* The states of the worker.                                                 *)
LEMMA WorkerTypesStep ==
    AInv /\ [AgentNext]_agentVars => WorkerTypes'
<1> SUFFICES ASSUME AInv, [AgentNext]_agentVars
             PROVE  WorkerTypes'
    OBVIOUS
<1> USE DEF AInv, AgentTypeOK, WorkerTypes, WorkerStates, InPopTask, InTask,
   InCommand
<1>1. CASE StartWorker
    BY <1>1 DEF StartWorker, MainStep
<1>2. CASE NotifyAll
    BY <1>2 DEF NotifyAll, MainStep
<1>3. CASE Killed
    BY <1>3 DEF Killed
<1>4. CASE NotifyOne
    BY <1>4 DEF NotifyOne, HeartbeatStep
<1>5. CASE CheckRun
    BY <1>5 DEF CheckRun, WorkerStep
<1>6. CASE LockForTest
    BY <1>6 DEF LockForTest, WorkerStep
<1>7. CASE TestQueue
    BY <1>7 DEF TestQueue, WorkerStep
<1>8. CASE Wait
    BY <1>8 DEF Wait, WorkerStep
<1>9. CASE SpuriousWakeup
    BY <1>9 DEF SpuriousWakeup, WorkerStep
<1>10. CASE NoMoreTasks
    BY <1>10 DEF NoMoreTasks, WorkerStep
<1>11. CASE TakeTask
    <2>1. Head(task_queue) \in Tasks
        BY <1>11, HeadOf DEF TakeTask
    <2> QED
        BY <1>11, <2>1 DEF TakeTask, WorkerStep
<1>12. CASE RecordDone
    BY <1>12 DEF RecordDone, WorkerStep
<1>13. CASE CosInit
    BY <1>13 DEF CosInit, WorkerStep
<1>14. CASE PutFile
    BY <1>14 DEF PutFile, WorkerStep
<1>15. CASE NotifyResult
    BY <1>15 DEF NotifyResult, WorkerStep
<1>16. CASE NotifyReturn
    BY <1>16 DEF NotifyReturn, WorkerStep
<1>17. CASE UNCHANGED worker
    BY <1>17
<1> QED
    BY <1>1, <1>2, <1>3, <1>4, <1>5, <1>6, <1>7, <1>8, <1>9, <1>10, <1>11, <1>12,
       <1>13, <1>14, <1>15, <1>16, <1>17, WorkerFootprint

(* The queues hold tasks: none is pushed but what a reply carries.           *)
LEMMA QueueTypesStep ==
    AInv /\ [AgentNext]_agentVars => QueueTypes'
<1> SUFFICES ASSUME AInv, [AgentNext]_agentVars
             PROVE  QueueTypes'
    OBVIOUS
<1> USE DEF AInv, AgentTypeOK, QueueTypes, CallFollows, MaybeTask, callVars,
   workVars
<1>1. CASE Killed
    BY <1>1 DEF Killed
<1>2. CASE ServerReplies
    BY <1>2 DEF ServerReplies
<1>3. CASE CallReturnsNothing
    BY <1>3 DEF CallReturnsNothing, HeartbeatStep
<1>4. CASE PushTask
    BY <1>4 DEF PushTask, HeartbeatStep
<1>5. CASE TakeTask
    BY <1>5 DEF TakeTask, WorkerStep
<1>6. CASE NotifyReturn
    BY <1>6 DEF NotifyReturn, WorkerStep
<1>7. CASE UNCHANGED <<task_queue, carried, given, job, runs>>
    BY <1>7
<1> QED
    BY <1>1, <1>2, <1>3, <1>4, <1>5, <1>6, <1>7, QueueFootprint

(* What is stored and reported is about tasks.                               *)
LEMMA StoreTypesStep ==
    AInv /\ [AgentNext]_agentVars => StoreTypes'
<1> SUFFICES ASSUME AInv, [AgentNext]_agentVars
             PROVE  StoreTypes'
    OBVIOUS
<1> USE DEF AInv, AgentTypeOK, StoreTypes, JobFollows, ChildFollows, InTask,
   InCommand, perfVars
<1>1. CASE RecordRuns
    <2>1. CASE ParentSetpgid
        BY <1>1, <2>1 DEF RecordRuns, ParentSetpgid
    <2>2. CASE PollChild
        BY <1>1, <2>2 DEF RecordRuns, PollChild, Returns
    <2>3. CASE CheckDeadline
        BY <1>1, <2>3 DEF RecordRuns, CheckDeadline
    <2>4. CASE KillGroup
        BY <1>1, <2>4 DEF RecordRuns, KillGroup, ChildDies
    <2>5. CASE Reap
        BY <1>1, <2>5 DEF RecordRuns, Reap, Returns
    <2>6. CASE ChildSetpgid
        BY <1>1, <2>6 DEF RecordRuns, ChildSetpgid
    <2>7. CASE ChildExec
        BY <1>1, <2>7 DEF RecordRuns, ChildExec
    <2>8. CASE SleepEnds
        BY <1>1, <2>8 DEF RecordRuns, SleepEnds
    <2>9. CASE PerfEnds
        BY <1>1, <2>9 DEF RecordRuns, PerfEnds
    <2>10. CASE DeadlinePasses
        BY <1>1, <2>10 DEF RecordRuns, DeadlinePasses
    <2> QED
        BY <1>1, <2>1, <2>2, <2>3, <2>4, <2>5, <2>6, <2>7, <2>8, <2>9, <2>10
        DEF RecordRuns, PerfStep, ParentStep, ChildStep
<1>2. CASE PutFile
    BY <1>2 DEF PutFile, WorkerStep
<1>3. CASE NotifyResult
    BY <1>3 DEF NotifyResult, WorkerStep
<1>4. CASE UNCHANGED <<recorded, objects, notifyReq>>
    BY <1>4
<1> QED
    BY <1>1, <1>2, <1>3, <1>4, StoreFootprint

(* The states of Perf::Record.                                               *)
LEMMA PerfTypeOKStep ==
    AInv /\ [AgentNext]_agentVars => PerfTypeOK'
<1> SUFFICES ASSUME AInv, [AgentNext]_agentVars
             PROVE  PerfTypeOK'
    OBVIOUS
<1> USE DEF AInv, AgentTypeOK, PerfTypeOK, RecStates, PerfStates, perfVars
<1>1. CASE RecordCalled
    BY <1>1 DEF RecordCalled, CallRecord, Returns
<1>2. CASE RecordRuns
    <2>1. CASE ParentSetpgid
        BY <1>2, <2>1 DEF RecordRuns, ParentSetpgid
    <2>2. CASE PollChild
        BY <1>2, <2>2 DEF RecordRuns, PollChild, Returns
    <2>3. CASE CheckDeadline
        BY <1>2, <2>3 DEF RecordRuns, CheckDeadline
    <2>4. CASE KillGroup
        BY <1>2, <2>4 DEF RecordRuns, KillGroup, ChildDies
    <2>5. CASE Reap
        BY <1>2, <2>5 DEF RecordRuns, Reap, Returns
    <2>6. CASE ChildSetpgid
        BY <1>2, <2>6 DEF RecordRuns, ChildSetpgid
    <2>7. CASE ChildExec
        BY <1>2, <2>7 DEF RecordRuns, ChildExec
    <2>8. CASE SleepEnds
        BY <1>2, <2>8 DEF RecordRuns, SleepEnds
    <2>9. CASE PerfEnds
        BY <1>2, <2>9 DEF RecordRuns, PerfEnds
    <2>10. CASE DeadlinePasses
        BY <1>2, <2>10 DEF RecordRuns, DeadlinePasses
    <2> QED
        BY <1>2, <2>1, <2>2, <2>3, <2>4, <2>5, <2>6, <2>7, <2>8, <2>9, <2>10
        DEF RecordRuns, PerfStep, ParentStep, ChildStep
<1>3. CASE RecordDone
    BY <1>3 DEF RecordDone, WorkerStep
<1>4. CASE Killed
    BY <1>4 DEF Killed
<1>5. CASE UNCHANGED perfVars
    BY <1>5
<1> QED
    BY <1>1, <1>2, <1>3, <1>4, <1>5, PerfFootprint

LEMMA AgentTypeOKStep ==
    AInv /\ [AgentNext]_agentVars => AgentTypeOK'
BY MainTypesStep, HeartbeatTypesStep, WorkerTypesStep, QueueTypesStep, StoreTypesStep,
   PerfTypeOKStep
DEF AgentTypeOK, MainTypes, HeartbeatTypes, WorkerTypes, QueueTypes, StoreTypes

------------------------------------------------------------------------------
(* AInv is inductive.                                                        *)
THEOREM AgentInductive == AgentSpec => []AInv
<1>1. AgentInit => AInv
    <2> SUFFICES ASSUME AgentInit PROVE AInv
        OBVIOUS
    <2> USE AgentAssumption DEF AgentInit, PerfInit
    <2>1. AgentTypeOK
        <3>1. MainTypes /\ HeartbeatTypes /\ WorkerTypes
            BY DEF MainTypes, HeartbeatTypes, WorkerTypes, MainStates, Starting,
                HeartbeatStates, WorkerStates
        <3>2. QueueTypes /\ StoreTypes
            BY DEF QueueTypes, StoreTypes, MaybeTask
        <3>3. PerfTypeOK
            BY DEF PerfTypeOK, RecStates, PerfStates
        <3> QED
            BY <3>1, <3>2, <3>3
            DEF AgentTypeOK, MainTypes, HeartbeatTypes, WorkerTypes, QueueTypes, StoreTypes
    <2>2. ChildFollows /\ ThreadsFollow /\ HolderOnly
        BY DEF ChildFollows, ThreadsFollow, HolderOnly
    <2>3. SleepsForReason /\ CallFollows
        BY DEF SleepsForReason, NoTaskMissed, CallFollows
    <2>4. JobFollows
        BY DEF JobFollows, StoredIsComplete, InTask, InCommand
    <2> QED
        BY <2>1, <2>2, <2>3, <2>4 DEF AInv
<1>2. AInv /\ [AgentNext]_agentVars => AInv'
    BY AgentTypeOKStep, ChildFollowsStep, ThreadsFollowStep, HolderOnlyStep, SleepsForReasonStep,
        CallFollowsStep, JobFollowsStep DEF AInv
<1> QED
    BY <1>1, <1>2, PTL DEF AgentSpec

(* Every state of the agent has the declared types, for any tasks.           *)
THEOREM AgentTypesHold == AgentSpec => []AgentTypeOK
<1>1. AInv => AgentTypeOK
    BY DEF AInv
<1> QED
    BY <1>1, AgentInductive, PTL

(* Mutual exclusion of the heartbeat thread and the worker on task_queue_.   *)
THEOREM QueueGuarded == AgentSpec => []QueueIsGuarded
<1>1. AInv => QueueIsGuarded
    BY DEF AInv, HolderOnly, QueueIsGuarded
<1> QED
    BY <1>1, AgentInductive, PTL

(* The wake-up for a task is never lost.                                     *)
THEOREM TaskWakesWorker == AgentSpec => []NoTaskMissed
<1>1. AInv => NoTaskMissed
    BY DEF AInv, SleepsForReason
<1> QED
    BY <1>1, AgentInductive, PTL

(* The wake-up for the shutdown is lost in one interleaving only.            *)
THEOREM StopWakesWorker == AgentSpec => []StopIsHeard
<1>1. AInv => StopIsHeard
    BY DEF AInv, SleepsForReason, StopIsHeard
<1> QED
    BY <1>1, AgentInductive, PTL

(* When main returns, both threads are over and no call, task or child is    *)
(* left: the worker exists only while main waits for it, and a task or a     *)
(* perf exists only while the worker works on it.                            *)
THEOREM ExitIsQuiet == AgentSpec => []QuietExit
<1>1. AInv => QuietExit
    <2> SUFFICES ASSUME AInv, main = "exited" PROVE QuietExit
        BY DEF QuietExit
    <2>1. heartbeat \in {"none", "done"} /\ worker \in {"none", "done"}
        BY DEF AInv, ThreadsFollow
    <2>2. call = "idle"
        BY <2>1 DEF AInv, CallFollows
    <2>3. job = NoTask
        BY <2>1 DEF AInv, AgentTypeOK, MaybeTask, JobFollows, InTask, InCommand
    <2>4. rec = "idle"
        BY <2>1 DEF AInv, JobFollows
    <2>5. perf = "none"
        BY <2>4 DEF AInv, ChildFollows
    <2> QED
        BY <2>1, <2>2, <2>3, <2>5 DEF QuietExit
<1> QED
    BY <1>1, AgentInductive, PTL

(* Perf::Record reaps its child, and leaves no sleep behind when it kills.   *)
THEOREM RecordCleansUp == AgentSpec => []RecordLeavesNothing
<1>1. AInv => RecordLeavesNothing
    BY DEF AInv, ChildFollows, RecordLeavesNothing
<1> QED
    BY <1>1, AgentInductive, PTL

(* The last waitpid of Perf::Record never blocks: by the time kill(-pgid) is *)
(* called one of the two processes has made the group, whichever of them ran *)
(* first.                                                                    *)
THEOREM ReapNeverBlocks == AgentSpec => []ReapDoesNotBlock
<1>1. AInv => ReapDoesNotBlock
    BY DEF AInv, ChildFollows, ReapDoesNotBlock
<1> QED
    BY <1>1, AgentInductive, PTL

(* Only files that perf has finished are stored, and only stored ones are    *)
(* reported as ok.                                                           *)
THEOREM OnlyCompleteStored == AgentSpec => []StoredIsComplete
<1>1. AInv => StoredIsComplete
    BY DEF AInv, JobFollows
<1> QED
    BY <1>1, AgentInductive, PTL
=============================================================================
