---------------------------- MODULE AgentThreads ----------------------------
(***************************************************************************)
(* One drop_agent process, thread by thread: main (start, signals, ordered *)
(* shutdown), the heartbeat thread (HealthCheckChannel::Run), the worker   *)
(* (HotmethodChannel::Run, PopTask, ExecTask), the mutex and the condition *)
(* variable between them, and the perf command the worker waits for        *)
(* (PerfRecord).  DropAgent has the same process in coarser steps;         *)
(* AgentRefinement relates the two.                                        *)
(***************************************************************************)
EXTENDS PerfRecord, Naturals, Sequences

CONSTANTS
    Tasks,   \* the tasks drop_server has for this agent
    NoTask   \* "no TaskDesc"

ASSUME AgentAssumption == NoTask \notin Tasks

VARIABLES
    main,         \* where main() is
    g_shutdown,   \* set by HandleSignal
    hcRunning,    \* HealthCheckChannel::running_
    hmcRunning,   \* HotmethodChannel::running_
    unheard,      \* history: notify_all came between the test and the wait
    heartbeat,    \* where the heartbeat thread is
    worker,       \* where the worker thread is
    queue_mutex,  \* its holder, or "free"
    task_queue,   \* HealthCheckChannel::task_queue_
    call,         \* the heartbeat call in progress
    carried,      \* the task_desc in the reply to it
    given,        \* tasks drop_server has put into a reply
    job,          \* the task ExecTask runs
    runs,         \* history: how often a task was taken up
    recorded,     \* history: tasks whose perf.data was finished by perf
    objects,      \* MinIO: tids with an object tid/perf.data
    notifyReq     \* NotifyResult requests sent

flagVars == <<g_shutdown, hcRunning, hmcRunning, unheard>>
mainVars == <<main, flagVars>>
callVars == <<call, carried, given>>
workVars == <<job, runs, recorded, objects, notifyReq>>
agentVars == <<mainVars, heartbeat, worker, queue_mutex, task_queue, callVars,
               workVars, perfVars>>

MaybeTask == Tasks \cup {NoTask}

Starting ==
    {"loading", "registering", "starting hc", "starting hmc", "aliasing", "signals"}
Stopping == {"stopping hc", "notifying", "joining hc", "stopping hmc", "joining hmc"}
MainStates == Starting \cup Stopping \cup {"serving", "exited", "killed"}
HeartbeatStates ==
    {"none", "check", "calling", "lock", "push", "notify", "sleep", "done"}
InPopTask == {"lock", "testing", "blocking", "waiting", "woken", "taking"}
InCommand == {"aliasing", "copying"}
InTask == {"recording", "reportOk", "reportErr", "notifying"} \cup InCommand
WorkerStates == {"none", "check", "done"} \cup InPopTask \cup InTask

AgentTypeOK ==
    /\ main \in MainStates
    /\ g_shutdown \in BOOLEAN /\ hcRunning \in BOOLEAN /\ hmcRunning \in BOOLEAN
    /\ unheard \in BOOLEAN
    /\ heartbeat \in HeartbeatStates
    /\ worker \in WorkerStates
    /\ queue_mutex \in {"free", "heartbeat", "worker"}
    /\ task_queue \in Seq(Tasks)
    /\ call \in {"idle", "sent", "replied"}
    /\ carried \in MaybeTask
    /\ given \subseteq Tasks
    /\ job \in MaybeTask
    /\ runs \in [Tasks -> Nat]
    /\ recorded \subseteq Tasks
    /\ objects \subseteq Tasks
    /\ notifyReq \subseteq Tasks \X {"ok", "err"}
    /\ PerfTypeOK

AgentInit ==
    /\ main = "loading"
    /\ g_shutdown = FALSE /\ hcRunning = FALSE /\ hmcRunning = FALSE
    /\ unheard = FALSE
    /\ heartbeat = "none" /\ worker = "none"
    /\ queue_mutex = "free"
    /\ task_queue = <<>>
    /\ call = "idle" /\ carried = NoTask /\ given = {}
    /\ job = NoTask
    /\ runs = [t \in Tasks |-> 0]
    /\ recorded = {} /\ objects = {} /\ notifyReq = {}
    /\ PerfInit

------------------------------------------------------------------------------
(* main.  Each of its steps leaves the queue and the tasks alone.            *)

MainStep(from, to) ==
    /\ main = from
    /\ main' = to
    /\ UNCHANGED <<queue_mutex, task_queue, callVars, workVars, perfVars>>

(* LoadConfig returns, or throws and main returns 1: no file, no JSON, a     *)
(* required field that is missing, no server_ips.                            *)
LoadConfig ==
    /\ \E next \in {"registering", "exited"} : MainStep("loading", next)
    /\ UNCHANGED <<flagVars, heartbeat, worker>>

(* One call with a deadline of 5 s, whose outcome is only logged.            *)
RegisterToServer ==
    /\ MainStep("registering", "starting hc")
    /\ UNCHANGED <<flagVars, heartbeat, worker>>

StartHeartbeat ==
    /\ MainStep("starting hc", "starting hmc")
    /\ hcRunning' = TRUE
    /\ heartbeat' = "check"
    /\ UNCHANGED <<g_shutdown, hmcRunning, unheard, worker>>

(* HotmethodChannel::Start: "mc alias set" and then, whatever it returned,   *)
(* the thread.  The heartbeat thread may fill the queue meanwhile.           *)
StartHotmethod ==
    /\ MainStep("starting hmc", "aliasing")
    /\ hmcRunning' = TRUE
    /\ UNCHANGED <<g_shutdown, hcRunning, unheard, heartbeat, worker>>

StartWorker ==
    /\ MainStep("aliasing", "signals")
    /\ worker' = "check"
    /\ UNCHANGED <<flagVars, heartbeat>>

InstallHandlers ==
    /\ MainStep("signals", "serving")
    /\ UNCHANGED <<flagVars, heartbeat, worker>>

(* SIGINT or SIGTERM once the handlers are there.                            *)
HandleSignal ==
    /\ main = "serving"
    /\ g_shutdown' = TRUE
    /\ UNCHANGED <<main, hcRunning, hmcRunning, unheard, heartbeat, worker>>
    /\ UNCHANGED <<queue_mutex, task_queue, callVars, workVars, perfVars>>

SeeShutdown ==
    /\ g_shutdown
    /\ MainStep("serving", "stopping hc")
    /\ UNCHANGED <<flagVars, heartbeat, worker>>

(* HealthCheckChannel::Stop: running_.exchange(false), queue_cv_.notify_all, *)
(* worker_.join.  None of them takes queue_mutex_.                           *)
StopHeartbeat ==
    /\ MainStep("stopping hc", "notifying")
    /\ hcRunning' = FALSE
    /\ UNCHANGED <<g_shutdown, hmcRunning, unheard, heartbeat, worker>>

NotifyAll ==
    /\ MainStep("notifying", "joining hc")
    /\ worker' = IF worker = "waiting" THEN "woken" ELSE worker
    /\ unheard' = (worker = "blocking")
    /\ UNCHANGED <<g_shutdown, hcRunning, hmcRunning, heartbeat>>

JoinHeartbeat ==
    /\ heartbeat = "done"
    /\ MainStep("joining hc", "stopping hmc")
    /\ UNCHANGED <<flagVars, heartbeat, worker>>

StopWorker ==
    /\ MainStep("stopping hmc", "joining hmc")
    /\ hmcRunning' = FALSE
    /\ UNCHANGED <<g_shutdown, hcRunning, unheard, heartbeat, worker>>

(* Mutant: main does not wait for the worker.                                *)
JoinWorker_Detach ==
    /\ MainStep("joining hmc", "exited")
    /\ UNCHANGED <<flagVars, heartbeat, worker>>

(* main returns: the channels, and what is left in the queue, are gone.      *)
JoinWorker ==
    /\ worker = "done"
    /\ MainStep("joining hmc", "exited")
    /\ UNCHANGED <<flagVars, heartbeat, worker>>

(* SIGKILL at any moment, SIGTERM before there is a handler: all threads end *)
(* where they are.  The perf of a killed agent is nobody's child.            *)
Killed ==
    /\ main \notin {"exited", "killed"}
    /\ main' = "killed"
    /\ heartbeat' = "none" /\ worker' = "none" /\ queue_mutex' = "free"
    /\ task_queue' = <<>>
    /\ call' = "idle" /\ carried' = NoTask
    /\ job' = NoTask
    /\ rec' = "idle" /\ perf' = "none" /\ sleeper' = "none" /\ ownGroup' = FALSE
    /\ ended' = "none" /\ late' = FALSE /\ outcome' = "none"
    /\ UNCHANGED <<flagVars, given, runs, recorded, objects, notifyReq>>

------------------------------------------------------------------------------
(* The heartbeat thread.                                                     *)

HeartbeatStep(from, to) ==
    /\ heartbeat = from
    /\ heartbeat' = to
    /\ UNCHANGED <<mainVars, given, workVars, perfVars>>

CheckRunning ==
    /\ \/ /\ hcRunning
          /\ HeartbeatStep("check", "calling")
          /\ call' = "sent"
       \/ /\ ~hcRunning
          /\ HeartbeatStep("check", "done")
          /\ UNCHANGED call
    /\ UNCHANGED <<worker, queue_mutex, task_queue, carried>>

(* drop_server answers (HealthCheckServiceImpl::Do), with a task or without. *)
ServerReplies ==
    /\ call = "sent"
    /\ call' = "replied"
    /\ \/ UNCHANGED <<carried, given>>
       \/ \E t \in Tasks \ given : carried' = t /\ given' = given \cup {t}
    /\ UNCHANGED <<mainVars, heartbeat, worker, queue_mutex, task_queue, workVars, perfVars>>

(* The call is over: past its 3 s deadline, or answered without a task.      *)
CallReturnsNothing ==
    /\ HeartbeatStep("calling", "sleep")
    /\ call' = "idle"
    /\ carried' = NoTask
    /\ UNCHANGED <<worker, queue_mutex, task_queue>>

(* Mutant: pending is not looked at.                                         *)
CallReturnsTask_IgnorePending ==
    /\ call = "replied"
    /\ HeartbeatStep("calling", "lock")
    /\ UNCHANGED <<worker, queue_mutex, task_queue, call, carried>>

CallReturnsTask ==
    /\ call = "replied"
    /\ carried # NoTask
    /\ HeartbeatStep("calling", "lock")
    /\ UNCHANGED <<worker, queue_mutex, task_queue, call, carried>>

(* Mutant: the lock_guard is left out.                                       *)
LockQueue_Skipped ==
    /\ HeartbeatStep("lock", "push")
    /\ UNCHANGED <<worker, queue_mutex, task_queue, call, carried>>

LockQueue ==
    /\ queue_mutex = "free"
    /\ queue_mutex' = "heartbeat"
    /\ HeartbeatStep("lock", "push")
    /\ UNCHANGED <<worker, task_queue, call, carried>>

(* push, and the end of the scope of the lock_guard.                         *)
PushTask ==
    /\ HeartbeatStep("push", "notify")
    /\ task_queue' = Append(task_queue, carried)
    /\ call' = "idle"
    /\ carried' = NoTask
    /\ queue_mutex' = "free"
    /\ UNCHANGED worker

(* Mutant: notify_one is forgotten.                                          *)
NotifyOne_Forgotten ==
    /\ HeartbeatStep("notify", "sleep")
    /\ UNCHANGED <<worker, queue_mutex, task_queue, call, carried>>

NotifyOne ==
    /\ HeartbeatStep("notify", "sleep")
    /\ worker' = IF worker = "waiting" THEN "woken" ELSE worker
    /\ UNCHANGED <<queue_mutex, task_queue, call, carried>>

SleepOneSecond ==
    /\ HeartbeatStep("sleep", "check")
    /\ UNCHANGED <<worker, queue_mutex, task_queue, call, carried>>

------------------------------------------------------------------------------
(* The worker: HotmethodChannel::Run and HealthCheckChannel::PopTask.        *)

WorkerStep(from, to) ==
    /\ worker = from
    /\ worker' = to
    /\ UNCHANGED <<mainVars, heartbeat, callVars>>

CheckRun ==
    /\ WorkerStep("check", IF hmcRunning THEN "lock" ELSE "done")
    /\ UNCHANGED <<queue_mutex, task_queue, workVars, perfVars>>

(* The unique_lock at the entry, and the one wait() takes before it returns. *)
LockForTest ==
    /\ queue_mutex = "free"
    /\ queue_mutex' = "worker"
    /\ \E from \in {"lock", "woken"} : WorkerStep(from, "testing")
    /\ UNCHANGED <<task_queue, workVars, perfVars>>

(* Mutant: the predicate is only !task_queue_.empty().                       *)
TestQueue_QueueOnly ==
    /\ WorkerStep("testing", IF task_queue # <<>> THEN "taking" ELSE "blocking")
    /\ UNCHANGED <<queue_mutex, task_queue, workVars, perfVars>>

(* The predicate: !task_queue_.empty() || !running_.                         *)
TestQueue ==
    /\ WorkerStep("testing",
                  IF task_queue # <<>> \/ ~hcRunning THEN "taking" ELSE "blocking")
    /\ UNCHANGED <<queue_mutex, task_queue, workVars, perfVars>>

(* wait() releases the mutex and becomes a waiter in one step.               *)
Wait ==
    /\ WorkerStep("blocking", "waiting")
    /\ queue_mutex' = "free"
    /\ UNCHANGED <<task_queue, workVars, perfVars>>

(* A condition variable may wake up a waiter by itself.                      *)
SpuriousWakeup ==
    /\ WorkerStep("waiting", "woken")
    /\ UNCHANGED <<queue_mutex, task_queue, workVars, perfVars>>

(* PopTask returns false, and Run breaks.                                    *)
NoMoreTasks ==
    /\ task_queue = <<>>
    /\ WorkerStep("taking", "done")
    /\ queue_mutex' = "free"
    /\ UNCHANGED <<task_queue, workVars, perfVars>>

(* Mutant: the lock is held until the task is over.                          *)
TakeTask_KeepLock ==
    /\ task_queue # <<>>
    /\ WorkerStep("taking", "recording")
    /\ job' = Head(task_queue)
    /\ task_queue' = Tail(task_queue)
    /\ runs' = [runs EXCEPT ![Head(task_queue)] = @ + 1]
    /\ UNCHANGED <<queue_mutex, recorded, objects, notifyReq, perfVars>>

(* Mutant: front without pop.                                                *)
TakeTask_Front ==
    /\ task_queue # <<>>
    /\ WorkerStep("taking", "recording")
    /\ job' = Head(task_queue)
    /\ runs' = [runs EXCEPT ![Head(task_queue)] = @ + 1]
    /\ queue_mutex' = "free"
    /\ UNCHANGED <<task_queue, recorded, objects, notifyReq, perfVars>>

TakeTask ==
    /\ task_queue # <<>>
    /\ WorkerStep("taking", "recording")
    /\ job' = Head(task_queue)
    /\ task_queue' = Tail(task_queue)
    /\ runs' = [runs EXCEPT ![Head(task_queue)] = @ + 1]
    /\ queue_mutex' = "free"
    /\ UNCHANGED <<recorded, objects, notifyReq, perfVars>>

------------------------------------------------------------------------------
(* The worker: ExecTask.                                                     *)

RecordCalled ==
    /\ worker = "recording"
    /\ CallRecord
    /\ UNCHANGED <<mainVars, heartbeat, worker, queue_mutex, task_queue, callVars, workVars>>

(* The processes of Perf::Record step; perf finishes the file when it ends   *)
(* by itself.                                                                *)
RecordRuns ==
    /\ PerfStep
    /\ recorded' = IF ended = "none" /\ ended' = "ok" THEN recorded \cup {job} ELSE recorded
    /\ UNCHANGED <<mainVars, heartbeat, worker, queue_mutex, task_queue, callVars>>
    /\ UNCHANGED <<job, runs, objects, notifyReq>>

RecordDone ==
    /\ rec = "returned"
    /\ rec' = "idle"
    /\ WorkerStep("recording", IF outcome = "ok" THEN "aliasing" ELSE "reportErr")
    /\ UNCHANGED <<queue_mutex, task_queue, workVars>>
    /\ UNCHANGED <<perf, sleeper, ownGroup, ended, late, outcome>>

(* COSClient::Init, "mc alias set".  RunCommand waits for mc without a limit *)
(* and returns its exit code, or -1.                                         *)
CosInit ==
    /\ \E next \in {"copying", "reportErr"} : WorkerStep("aliasing", next)
    /\ UNCHANGED <<queue_mutex, task_queue, workVars, perfVars>>

(* COSClient::PutFile, "mc cp".  An mc that breaks off may have stored all.  *)
PutFile ==
    /\ \/ /\ WorkerStep("copying", "reportOk")
          /\ objects' = objects \cup {job}
       \/ /\ WorkerStep("copying", "reportErr")
          /\ objects' \in {objects, objects \cup {job}}
    /\ UNCHANGED <<queue_mutex, task_queue, job, runs, recorded, notifyReq, perfVars>>

NotifyResult ==
    /\ \/ /\ WorkerStep("reportOk", "notifying")
          /\ notifyReq' = notifyReq \cup {<<job, "ok">>}
       \/ /\ WorkerStep("reportErr", "notifying")
          /\ notifyReq' = notifyReq \cup {<<job, "err">>}
    /\ UNCHANGED <<queue_mutex, task_queue, job, runs, recorded, objects, perfVars>>

(* Answered, or past its deadline of 10 s.                                   *)
NotifyReturn ==
    /\ WorkerStep("notifying", "check")
    /\ job' = NoTask
    /\ UNCHANGED <<queue_mutex, task_queue, runs, recorded, objects, notifyReq, perfVars>>

------------------------------------------------------------------------------
MainNext ==
    \/ LoadConfig \/ RegisterToServer \/ StartHeartbeat \/ StartHotmethod \/ InstallHandlers
    \/ SeeShutdown \/ StopHeartbeat \/ NotifyAll \/ JoinHeartbeat \/ StopWorker \/ JoinWorker
HeartbeatNext ==
    \/ CheckRunning \/ CallReturnsNothing \/ CallReturnsTask
    \/ LockQueue \/ PushTask \/ NotifyOne \/ SleepOneSecond
WorkerNext ==
    \/ CheckRun \/ LockForTest \/ TestQueue \/ Wait \/ NoMoreTasks \/ TakeTask
    \/ RecordCalled \/ RecordDone \/ NotifyResult \/ NotifyReturn
CommandNext == StartWorker \/ CosInit \/ PutFile

AgentNext ==
    \/ MainNext \/ HandleSignal \/ Killed
    \/ HeartbeatNext \/ ServerReplies
    \/ WorkerNext \/ CommandNext \/ SpuriousWakeup
    \/ RecordRuns

AgentSpec == AgentInit /\ [][AgentNext]_agentVars

(* Fairness: threads run, time passes, and a thread that waits for the       *)
(* mutex gets it some time when it is released again and again (a waiter     *)
(* that wakes up spuriously for ever may not keep it from the other).        *)
(* Nothing is assumed of drop_server, perf and mc, nor of the signals that   *)
(* would end the agent.                                                      *)
AgentFairness ==
    /\ WF_agentVars(MainNext)
    /\ WF_agentVars(HeartbeatNext)
    /\ WF_agentVars(WorkerNext)
    /\ SF_agentVars(LockQueue)
    /\ SF_agentVars(LockForTest)
    /\ WF_agentVars(ParentStep /\ RecordRuns)
    /\ WF_agentVars(DeadlinePasses /\ RecordRuns)

AgentFairSpec == AgentSpec /\ AgentFairness

------------------------------------------------------------------------------
(* Safety                                                                    *)

(* HealthCheckChannel.h: queue_mutex_ guards task_queue_.  The threads are   *)
(* never both between taking and releasing it.                               *)
QueueIsGuarded ==
    ~(heartbeat = "push" /\ worker \in {"testing", "blocking", "taking"})

(* The worker sleeps on a task only while the notification for it is due:    *)
(* none can fall between its test and its wait, because the push needs the   *)
(* mutex.                                                                    *)
NoTaskMissed ==
    worker = "waiting" /\ task_queue # <<>> => heartbeat = "notify"

(* main.cpp:141: after hc.Stop() the worker does not sleep in PopTask, with  *)
(* one exception, which the code does not exclude: notify_all came just      *)
(* between its test and its wait.                                            *)
StopIsHeard ==
    worker = "waiting" /\ main \in {"joining hc", "stopping hmc", "joining hmc"} => unheard

(* main returns only when both threads are over: the channels they work on,  *)
(* and hc_ that the worker borrows, are destroyed after that, and no child   *)
(* process is left.                                                          *)
QuietExit ==
    main = "exited" =>
        /\ {heartbeat, worker} \subseteq {"none", "done"}
        /\ call = "idle" /\ job = NoTask /\ perf = "none"

(* Perf.h:16: when Record has returned, its child is reaped.  The sleep     *)
(* that perf started is over as well, except when somebody else has killed   *)
(* perf; a time-out never leaves it behind.                                  *)
RecordLeavesNothing ==
    rec = "returned" =>
        /\ perf = "none"
        /\ sleeper = "running" => ended = "signal" /\ outcome = "error"

(* Perf.cpp:68: the group exists by the time it is killed, whichever of the  *)
(* two processes ran first; so the waitpid after it does not block.          *)
ReapDoesNotBlock == rec = "reaping" => perf = "zombie"

(* An object in the storage, and an ok to drop_server, are about a file that *)
(* perf has finished, however late perf was and whoever killed it.           *)
StoredIsComplete ==
    /\ objects \subseteq recorded
    /\ \A t \in Tasks : <<t, "ok">> \in notifyReq => t \in objects

(* Liveness                                                                  *)

(* HealthCheckChannel.h:18: the heartbeat goes on whatever the worker does,  *)
(* a perf or mc that never ends included.                                    *)
HeartbeatGoesOn == main = "serving" ~> (call = "sent" \/ main # "serving")

(* COSClient.cpp:97: RunCommand waits without a limit.                       *)
McHangs == [](main = "aliasing") \/ [](worker \in InCommand)

(* A queued task is taken up, unless the agent ends or mc hangs: nothing     *)
(* else can hold the worker up for ever.                                     *)
QueuedIsTakenUp ==
    \A t \in Tasks :
        runs[t] = 0 /\ (\E i \in DOMAIN task_queue : task_queue[i] = t)
            ~> (runs[t] > 0 \/ g_shutdown \/ main = "killed" \/ McHangs)

(* A shutdown ends, unless mc hangs or notify_all was not heard.             *)
ShutdownEnds ==
    main = "stopping hc" ~>
        (main \in {"exited", "killed"} \/ McHangs \/ unheard)

------------------------------------------------------------------------------
(* main.cpp:143: at hmc.Stop() PopTask has been woken up, Run will return.   *)
WorkerIsAwakeAtStop ==
    main \in {"stopping hmc", "joining hmc"} => worker # "waiting"
=============================================================================
