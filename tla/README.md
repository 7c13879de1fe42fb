# Mini-Drop in TLA+

Mini-Drop profiles processes on remote machines: a user creates a task in the
web page, `apiserver` stores it and hands it to `drop_server`, the `drop_agent`
of the target machine picks it up in its heartbeat, runs `perf record`, uploads
`perf.data` to MinIO and reports back, and the analysis service turns the file
into flame graphs and suggestions. These modules model that system from its
source (`src/`), check it with TLC on small instances and prove the main safety
results with TLAPS.

## 1. The system

| part | state it keeps | operations that change it | talks to |
|---|---|---|---|
| apiserver, task handlers (`server/task.go`) | table `hotmethod_task` | CreateTask, RetryTask, DeleteTask | gRPC CreateTask to drop_server |
| apiserver, collection watcher (`task.go:257`) | a goroutine per accepted task: two deadlines, `uploadingMarked` | one loop: tick, deadline, UPLOADING mark, FetchData | gRPC FetchData to drop_server, the same rows |
| apiserver, analysis trigger (`task.go:333`) | `analysis_status` | triggerAnalysis | starts the analyzer |
| apiserver, agent registry and watchdog (`agent.go`, `heartbeat_watchdog.go`) | tables `agent_info`, `agent_audit_log` | register, offline, stale scan | called by drop_server over HTTP |
| drop_server, ControlService | `tasks_`: a deque per ip | CreateTask, PopTaskForAgent; FetchData reads | called by apiserver and HealthCheckService |
| drop_server, HotmethodService | `results_`: map of tid | NotifyResult; GetResult reads | called by agents |
| drop_server, HealthCheckService | `agents_` | Do (heartbeat), OfflineScanLoop | HTTP notices to apiserver |
| drop_agent, HealthCheckChannel | `task_queue_`, a heartbeat thread, a condition variable | Run, PopTask, Stop | gRPC Do |
| drop_agent, HotmethodChannel | a worker thread, its task | Run, ExecTask, Stop | perf, MinIO, gRPC NotifyResult |
| common: Perf, COSClient, Process | a child process, none, none | Record, PutFile, GetStats | perf, mc, /proc |
| analysis: poll worker, analyzer, advisor | `analysis_status`, suggestions, result files | poll, analyze, advise | database, MinIO, an LLM |
| web_frontend | polling of the result page | | REST |

**What is hard here.** Four processes change one task and share no transaction.
Each call between them can fail at the caller after it has worked at the callee
(CreateTask 5 s, heartbeat 3 s, NotifyResult 10 s), and none is repeated. Only the
rows and the objects are durable: queues and results live in drop_server's
memory, watchers in apiserver's. The watcher infers the progress of a task from
its own clock. The user may delete a row at any moment.

**What makes each part correct.**

- Rows: a status moves only along the life cycle, a deleted row is not touched,
  DONE tells the truth about the storage, no unfinished row is forgotten.
- Queues: a task goes to its own agent, once, in order; an agent that lives
  takes its tasks out of the queue.
- Worker: one task at a time; what it reports is what it did.
- Threads of the agent: no task and no stop is missed in a sleep, the heartbeat never
  waits for a task, a child is always reaped and killed with all that it started.
- Registry: an agent that sends heartbeats is not shown as offline for good, a dead
  one is not shown as online for good, and the audit log says what the rows say.
- Analysis: DONE means that the results exist, no row stays RUNNING with nobody on
  it, what can be analysed is analysed in the end.
- Result page: it comes to show that the task is over, and what was found.

The full list of hazards, each at its line, is in `PROJECT.json`.

## 2. The modules

```
Wire  <-  TaskApi, DropServer, DropAgent  <-  MiniDrop  <-  MCMiniDrop (TLC)
TaskLifecycle, LossyQueue (abstract)  <-INSTANCE-  MiniDrop
MiniDrop <- Handover -INSTANCE WITH-> Analysis
PerfRecord <- AgentThreads <- AgentRefinement (TLC) -INSTANCE WITH-> DropAgent
AgentThreads <- AgentProofs, AgentRefinement <- AgentRefinementProofs (TLAPS)
AgentRegistry (TLC) <- AgentRegistryProofs (TLAPS)
MiniDrop <- MiniDropTypes <- MiniDropProofs, Handover <- MiniDropRefinement (TLAPS)
Analysis <- MCAnalysis (TLC);  Analysis <- AnalysisProofs (TLAPS)
Analysis <- ResultPage <- MCResultPage (TLC);  ResultPage <- ResultPageProofs (TLAPS)
```

**Wire**: tasks, agents, `Target` (column `target_ip`) and every gRPC call in
flight. A call is a message of its own because the two ends do not see each
other: its caller may give up at any moment, its request may be served later.
Nothing forces a request to be served: one that stays for ever is lost.
`beat[a]` is the one heartbeat call the agent waits for; `orphans[a]` counts
handlers of calls it no longer waits for.

**TaskApi** (`apiserver/server/task.go`): `status` and `deleted` are the columns;
`handler[t]` says where the request that made row t is, or how it ended;
`watcher`, `clock` and `uploadingMarked` are the goroutine of
`startCollectionWatcher` and its local variables. The clock is reduced to which of
`collectDeadline` and `deadline` has passed. CreateTask is cut where other
processes can step in: insert (`CreateTask`), the call (`SkipDispatch`,
`CallDrop`), its return (`DispatchFailed`, `Dispatched`, each with its update and
the start of the watcher). The watcher is cut at its FetchData call: a tick up to the
call (`WatcherTick`, `WatcherTimeout`), and its return (`WatcherFetched`).
`UpdateStatus` is gorm's `Updates`: it does not match deleted rows, and when
"db write" is among the `Faults` it may be lost, since no caller looks at its
error. `ApiserverCrash` kills all requests and watchers; `main` restarts none.

**DropServer** (`drop/server`): `tasks` and `results` as in the code, each RPC one
action (each holds the mutex of its table for its whole effect). `Do` and
`DoAbandoned` are the same handler, once with and once without somebody who
waits for its reply. `arrival` and `accepted` are history variables that number
the tasks of an agent in the order of their CreateTask.

**DropAgent** (`drop/agent`): the heartbeat thread and the worker thread of each
agent. The worker is cut at every external effect of `ExecTask`: PopTask, perf,
upload, NotifyResult sent, NotifyResult returned. `objects` is the bucket, `runs` a
history variable. A failed `mc cp` may have stored the object.

**MiniDrop** puts the three together and states the properties. Its `Next` has one
disjunct per action; `ApiOnly`, `DropOnly` and `AgentOnly` say what a process
cannot touch.

**TaskLifecycle** is the abstract specification: the statuses, the storage and
deletion alone. PENDING goes to RUNNING, RUNNING to UPLOADING, both of these to
DONE if the file is stored; anything unfinished goes to FAILED; a deleted row
stays as it is. MiniDrop implements it with the identity on these variables.

**LossyQueue** is the abstract specification of the way from drop_server's CreateTask to
the worker: one first-in first-out queue per agent. A task is put into it once at most, only
the head is taken up, runs of neighbours may be lost, and nothing lost comes back. MiniDrop
implements it with three places put together, `OnTheWay`: the agent's own queue, the
heartbeat reply under way, drop_server's queue. An abandoned heartbeat loses one task in the
middle, a crash loses one end.

**Analysis** takes over where MiniDrop leaves a task: its initial rows are RUNNING, and
`CollectionDone` and `CollectionFails` stand for the ends of the watcher that
MiniDrop models in detail; **Handover** states that they are what MiniDrop does: its rows
are read as rows of Analysis (one not dispatched yet counts as RUNNING), its handler and
watcher together as `trigger`, from "none" to "marking" (`watcher = "handed"`), "over" or
"killed". `trigger[t]` is where apiserver is with t: the watcher
("none"), between the update to PENDING and that to RUNNING ("marking"), the
goroutine before and after it has started the script. `worker` and `batch` are the
place and the rows of the loop in `poll_worker.py`: the rows are read once per round
and not again. `analyzer[o][t]` is the process `hotmethod_analyzer.py` for t that
apiserver (o = "apiserver") or the worker has started, cut at every update, upload
and transaction; its exit code is what its parent waits for. The two parents can
have an analyzer each for the same task. An update from apiserver does not match a
deleted row, the analyzers' SQL does. "killed" remembers that a crash took the
parent: apiserver's analyzer outlives apiserver, the worker's dies with its
container. An exception outside the `try` of the analyzer, a signal and an
out-of-memory kill are `AnalyzerCrash`. With "launch" among the faults an analyzer may
not come to life at all: apiserver then sets FAILED, while the worker only logs the
exception and goes to its next row ("unlaunched"). `Python` tells the two deployments apart: in
the container apiserver finds no interpreter and sets FAILED.

**ResultPage** is Analysis with a browser that shows task `Shown`
(`pages/taskResult/index.jsx`). `seenTask`, `seenSuggestions` and `seenFlamegraph` are its
React states; `asked` and `replies` the requests before and after apiserver read the
database, so replies can come late and in any order. Of the row it keeps the status
and whether analysis_status is below 2, all that the page decides on. A PENDING row
behaves as a RUNNING one here.

**PerfRecord** (`common/Perf.cpp`): one call of `Perf::Record` as three processes. `rec` is
where the worker is in it, `perf` the forked child (its `setpgid`, its `exec`, perf
itself, a zombie), `sleeper` the workload that perf starts. Both sides call `setpgid` in
either order (that of the parent fails after the exec); `late` is the wall clock past
the hard time-out, which can happen at any moment. perf ends with its data complete
after the sleep, with an error, or by a signal from elsewhere.

**AgentThreads** (`agent/main.cpp`, `HealthCheckChannel`, `HotmethodChannel`,
`COSClient`): one life of one agent, thread by thread. `main` walks through start,
registration, the two `Start`s, the signal handlers, and the shutdown in its order.
The heartbeat thread and the worker are cut at each operation on `queue_mutex_`,
`queue_cv_`, `running_` and at each call that can take long. `PopTask` is lock, test of the
predicate, wait (which frees the mutex and starts to sleep in one step), wake-up
(spurious ones too), lock again. `Stop` is its three statements, without the mutex, as in
the code. mc ends when it likes, or never. `unheard` is a history variable: the
notify_all of `Stop` came between the test and the wait. `Killed` is a SIGKILL, or a signal
before there is a handler. A queue that is filled while main is still in
`hmc.Start()`, a task taken up while the agent already stops: both happen here.

**AgentRefinement** reads the state of AgentThreads as a state of DropAgent for one
agent (`CoarseWorker`, `CoarseQueue`, `Serves`) and states that every step of the threads
is a step of DropAgent or none. So what MiniDrop shows of the whole holds with the
threads, locks and child processes in place of its one-step agent. A shutdown is a
crash to the others: the queue is lost.

**AgentRegistry** (`HealthCheckService.cpp`, `InitAgentInfoService.cpp`, `agent.go`,
`heartbeat_watchdog.go`): who is online. `online` is `agents_` of drop_server, `row` the
column of `agent_info`, `audit` the last entry of the log. Each call is a handler of its
own (`Calls` bounds how many are served at once): the heartbeat takes `agents_mutex_`, then
posts to apiserver with curl; the registration posts only. The scan holds `agents_mutex_`
over its whole pass, the curls included. apiserver serves a register request as
read, write, audit entry, a notice as update, audit entry, and its watchdog as query, then
update and entry per agent: nothing holds these together. Time is reduced to `silent`
(30 s in drop_server) and `stale` (30 s in the database), which may pass at any moment. A
curl can fail or hang; drop_server forgets everything in a crash, and the curl it left
behind goes on. With
`DbFails` any statement of apiserver may fail. The code looks at the error of three:
the read of a registration (an error counts as "no such row"), its Create and the update of
a notice, which both end the request, and may have worked all the same. It drops the errors
of the Updates of a registration, of the watchdog's update and of every audit entry, and
goes on. `history` marks the agents whose requests were disturbed: they
overlapped, were cut off, or were wrong about the outcome of a statement.

**MCMiniDrop** holds the instances. `LoadedInit` starts with requests already sent
and their rows deleted: a state `Spec` reaches when apiserver crashes, used where a
run is about queues and agents, so that the states of watchers do not multiply
those of the queues.

## 3. The runs

| run | instance | faults | shows |
|---|---|---|---|
| `lifecycle` | 2 tasks, 1 agent | apiserver and drop_server crash | TypeOK, DoneMeansCollected, WorkHasRow, RunningIsWatched, LifecycleSpec |
| `queues` | 3 tasks, 2 agents | drop_server and agent crash | AtMostOnce, NoOvertaking, StaysAtTarget, ResultIsFinal, LossyQueueSpec |
| `progress` | 2 tasks, 1 agent | drop_server and agent crash | RunningEventuallyEnds, QueuedTaskLeaves |
| `doc_dispatch` | 2 tasks, 1 agent | none | a failed CreateTask call may have been received |
| `analysis` | 2 tasks, one never analysable | all crashes, failing launches | AnalysisTypeOK, DoneMeansAnalysed, RunningIsWorkedOn, AnalysedIsCollected, NoSecondAnalyzer |
| `analysis_progress` | 2 tasks, the younger never analysable, one row per round | none | CollectedIsAnalysed |
| `page` | 1 task | lost updates, lost requests | PageTypeOK, PageShowsWhatIs, PageSettles |
| `doc_page` | 1 task | none | suggestions do not appear on an open page |
| `doc_final` | 2 tasks | none | an analysed task is analysed again |
| `agent` | 1 agent, 2 tasks | kill, signal, perf and mc fail or hang | mutex, wake-ups, reaping, shutdown (8 invariants), ImplementsDropAgent, HeartbeatGoesOn, QueuedIsTakenUp, ShutdownEnds |
| `registry` | 1 agent, 2 calls served at once | both servers crash, curl fails or hangs, statements fail | RegistryTypeOK, AuditMatches, OfflineMeansSilent, HeldUpByCurlOnly, DeadAgentGoesOffline, LiveAgentStaysOnline |
| `doc_shutdown` | 1 agent | as `agent` | the worker sleeps when main waits for it |

**Bounds.** Two tasks of one agent are enough for what tasks can do to each other
on the way: wait behind one another, be in different places of the same path, be
retried from one another, overtake. `queues` takes three tasks so that two of
them share an agent while the third has its own. `MaxOrphans` bounds how many
abandoned heartbeats of one agent are still being served: one is enough for a
pop in parallel to the live call (it is 0 in `lifecycle`, which is not
about the queues). Crashes and restarts are not counted, they may happen at any
time. The proofs below need none of these bounds, `MaxOrphans` included: it is a
parameter.

`analysis` and `analysis_progress` take two tasks: the worker's loop needs a row ahead
of another to make a selection stale. `BatchLimit` is 2 in the first, so that a round
has both, and 1 in the second, so that the limit cuts. `page` shows one task;
`MaxReplies` allows two copies of the row to be under way, which is what it takes for
an old one to come after a new one. The worker's analyses of a task are repeated
without bound in all of them.

`agent` has two tasks: one in work while the other is queued. One life of the process
suffices, since nothing of it survives. `registry` has one agent, because the records of
different agents share only the scan's mutex and the watchdog's loop; two calls are
what it takes for two requests of one agent to overlap, or for a late one to follow
the next. apiserver crashes at most once (`MaxCrashes`): a crash that can always
come again would make every claim about the end void. drop_server may crash at any
time. The state after a crash of drop_server keeps only one notice under way: a new scan
waits for the curl the old one left. The proofs need none of these bounds.

**Deadlock** is not checked: the system may stop when every task is used up and
every process is idle.

**Fairness** (`FairSpec`). A watcher is a goroutine driven by a ticker and the
wall clock, so its steps and the passing of its deadlines are weakly fair; the
clock runs only while there is a watcher. The heartbeat loop of a running agent
sends for ever and takes the reply (weak fairness); drop_server serves infinitely
many of infinitely many heartbeats (strong fairness of `Do`), since calls may be
abandoned between. Nothing is assumed of request handlers, perf, uploads,
NotifyResult, restarts or crashes. `RunningEventuallyEnds` needs no more than the
watcher, and a crash of apiserver would break it: `main` restarts no watcher. `QueuedTaskLeaves`
is about the agent's liveness: it does not say that the task arrives, since the
reply that carries it may be lost.

`AnalysisFairness`: the goroutine, the worker's loop (its errors are caught and it
goes round again) and the processes they start go on (weak fairness), and a pipeline or a transaction
that can work is not unlucky every time (strong fairness of `PipelineWorks` and
`AdviseWorks`; not for a task in `Poison`, whose pipeline never works). That an
analyzer ends at all is an assumption the code does not enforce: no parent has a
time-out. `CollectedIsAnalysed` fails with any crash of a parent, or a failing launch, among
the faults, since nothing selects a RUNNING row; `RunningIsWorkedOn` says exactly which
rows are left so. It also
needs fewer older tasks that always fail than a round takes: five of them hold
the worker for ever. `ResultFairness`: the interval fires while it exists, and of infinitely many
requests for the row, and of infinitely many replies, some get through.

`AgentFairness`: threads run (weak fairness of each thread as a whole), a thread that waits
for a mutex that is released again and again gets it (strong fairness of the two lock
steps: without it spurious wake-ups could keep the heartbeat out for ever), and the
parent's poll loop and the clock of `Perf::Record` go on. Nothing is assumed of
drop_server, perf, mc or signals. Therefore the liveness properties name what the code
leaves open: `McHangs` (`RunCommand` has no time-out), and `unheard` for the shutdown.

`RegistryFairness`: a live agent calls, the threads of both servers run, a waiter gets
`agents_mutex_` when it is released again and again (strong fairness), and a row nobody
refreshes goes stale. Nothing is assumed of curl, so `HeldUpByCurlOnly` allows a
heartbeat to wait for ever if the notice does; `LiveAgentStaysOnline` has as its premise
(`CurlWorks`) that curls end, and fail only finitely often. It and `DeadAgentGoesOffline` have
`StatementsWork` as another: reads and updates of rows fail for some time only. The
statements on the audit log may fail for ever.

## 4. What is proved

TLAPS checks, for every set of tasks and agents, every `Target`, every bound on
orphans and every subset of the faults (`WireAssumption` is the only assumption):

- `TypeInvariant`: `Spec => []TypeOK`. TypeOK alone is not inductive: what a worker
  uploads or reports is `job[a]`, which is a task only because a worker that is not
  waiting has one (`BusyHasJob`).
- `Inductive`: `Spec => []IInv`, with `IInv` the conjunction of
  - `RowInv`: a tid is sent once, after its row was inserted; while the handler is
    before its return the row is PENDING; nothing is profiled before it was queued.
    It makes "queued for the first time" true in `DropCreateTask`.
  - `QueueInv`: the numbers `arrival` rise strictly along the agent's queue, then the
    reply under way, then drop_server's queue; everything there is of this agent.
    `NoOvertaking` and `AtMostOnce` are conjuncts, and are inductive together with
    it: the head of the agent's queue has a smaller number than all that is behind
    it, and has not been run since nothing with a number at least that of a task on
    the way has.
  - `CollectInv`: every trace of "ok" (the message, the entry in `results_`, the DONE
    row) has a finished recording behind it (`Collected`), which stays so, since a task
    that was run once is not in any queue.
  - `ResultInv`: while a result is on its way to drop_server, drop_server has none, no
    second one is on its way, and the worker that sent it is through with the task.
  - `ReplyInv`: a task that is under way in a reply is in the one the agent waits for.
- from it `ProfiledAtMostOnce`, `RunsInQueueOrder`, `RunsAtItsTarget`,
  `DoneIsCollected`, `WorkAlwaysHasRow`, and the action property `ResultNeverTurns`
  (ResultIsFinal): NotifyResult overwrites what is there, yet never with something else.
- `ImplementsLossyQueue` (`Spec => LossyQueueSpec`). Every action is mapped to Put, Take,
  Lose or a stutter, by lemmas on sequences: what is appended at the end, taken at the
  head or cut out of the middle of three queues put together. `RowInv` gives that a task
  is put in only once, `ReplyInv` that a reply never lands on another.
- `ImplementsCollection` (`Spec => HandoverSpec`), with lost updates and all crashes. It needs,
  besides `RowInv`, that a watcher exists exactly when the handler has dispatched, and that a
  row which was never sent stays PENDING (`HandoverInv`): a crash may spare such a row only.
  No run checks HandoverSpec: evaluating the actions of Analysis at every step of two tasks
  takes TLC several times as long as the whole `lifecycle` run.
- under `UpdatesArrive` ("db write" is not among the faults): `RunningStaysWatched`
  and `ImplementsLifecycle` (`Spec => LifecycleSpec`). The assumption is necessary: a
  lost update of Dispatched followed by a successful FetchData moves a row from
  PENDING to DONE, and a lost last update leaves it RUNNING with no watcher.

For Analysis, for every set of tasks, every batch limit and every subset of the
faults, from `AnalysisAssumption` alone:

- `AnalysisInductive` and `DoneIsAnalysed`: DoneMeansAnalysed is inductive with the types
  and `StepsDone`, which says what an analyzer has stored by the place it has reached.
  All actions but three are `Quiet`: they bring no analyzer further towards DONE.
- `RunningStaysWorkedOn`, under `UpdatesArrive`. RunningIsWorkedOn is not inductive: a
  parent may be waiting for an analyzer that has exited with 0, and then leaves
  without an update. `RunningLookedAfter` excludes it: a row RUNNING at that moment
  has been set so by the other parent, who is still there. It needs `Parents` (an
  analyzer under way has its parent) and that the worker is at one row at a time.
  The assumption is necessary: a lost last update leaves RUNNING behind. A crash of a
  parent and a failed launch in the worker are the exceptions the invariant names.
- `ParentsInductive` and `OneAnalyzerEach` (NoSecondAnalyzer): an analyzer under way has its
  parent, and apiserver has none before it launches one (`StartsOnce`). It says exactly how far
  the shared directory of two analyzers is safe: never two of one parent. One of each is
  possible, as run `doc_final` shows.
- `CollectedBeforeAnalysed` (AnalysedIsCollected), under `UpdatesArrive`: its invariant `CollectedFirst`
  follows "the collection is done" from the row into the worker's stale batch and into every
  analyzer under way.

For AgentThreads, for every set of tasks, from `NoTask \notin Tasks` alone:

- `AgentInductive`: the invariant `AInv` is the types with what follows from where each
  thread is: which threads exist (`ThreadsFollow`), who holds the mutex (`HolderOnly`), why the
  worker sleeps (`SleepsForReason`), what the heartbeat call and the task in work are
  (`CallFollows`, `JobFollows`), what the child and its group are (`ChildFollows`). None of the
  invariants of the run is inductive alone: that no notification falls between test and
  wait, for one, rests on the mutex, and the mutex on who may be where.
- from it all invariants of the run: `AgentTypesHold`, `QueueGuarded`, `TaskWakesWorker`,
  `StopWakesWorker`, `ExitIsQuiet`, `RecordCleansUp`, `ReapNeverBlocks`, `OnlyCompleteStored`.
- `ThreadsImplementAgent`: AgentThreads implements DropAgent under the mapping of
  AgentRefinement. One lemma per thread shows its steps to be steps of DropAgent or
  none; besides AInv it needs that nothing is queued before the heartbeat thread is there
  (`FreshQueue`).

For AgentRegistry, for every set of agents and calls, any number of crashes, and with
statements that fail or do not:

- `RegistryTypesHold`, `RegistryInductive`, and from it `AuditAgrees` (AuditMatches), inductive with
  `LoneRequest` (undisturbed, an agent has one request under way) and `RequestKnows`
  (that request knows the row: what it read is still there, unless the read failed, and what
  it wrote stands). Both hold whichever statements fail: a failure leaves row and log
  as they were, or disturbs.
- `OnlySilentGoOffline` (OfflineMeansSilent), from `ScanInv`: what the scan still has to mark is
  silent, because `agents_mutex_` is held from its look to its last curl. The watchdog, which
  has no such lock, has no such theorem: it can set a live agent offline.

For ResultPage, for every number of tasks and of replies under way:

- `PageTypesHold`, over the type invariant of Analysis (`AnalysisTypesHold`), and `PageOnlyReads`:
  ResultPage implements Analysis, so DoneMeansAnalysed and the rest hold under any page.
- `PageIsTrue` (PageShowsWhatIs): replies may be old, so the proof rests on what lasts (`Lasts`):
  the end of a collection, a stored flame graph, inserted suggestions. That the end of a
  collection lasts needs that the watcher of a finished row has returned
  (`WatcherReturned`). `PageHolds` says of every reply under way what it said when it was made.

Only model-checked: the liveness properties, which are out of TLAPS's reach
(ENABLED, fairness), and everything in the `doc_*` runs.

## 5. Findings

Four runs end in a counterexample to what a document or a comment says; the
sentences are quoted in `PROJECT.json`.

- `doc_dispatch`: a CreateTask call that fails at its deadline may have been served, and
  the FAILED task is then profiled.
- `doc_page`: the page stops asking at DONE, before the analysis has even begun, and
  promises that the suggestions will appear.
- `doc_final`: the worker claims rows by a selection that may be stale, so a finished
  analysis starts again and inserts its suggestions twice.
- `doc_shutdown`: `Stop` clears `running_` and notifies without the mutex. When both fall between
  the worker's test and its wait, the notification is lost and main waits in `join` for a
  worker that sleeps. Taking `queue_mutex_` around the change of `running_` excludes it.

Known from reading, without a run of their own: RetryTask never dispatches the row it
makes (`task.go:246`); when `subprocess.run` raises in the poll worker (`poll_worker.py:106`),
line 114 logs it and the row stays RUNNING, selected by nobody (`RunningIsWorkedOn` names
this exception); the registry writes its audit entries whether or not the update before them
worked (`agent.go:99`, `heartbeat_watchdog.go:44`); and a restart of apiserver leaves RUNNING rows without their
watcher (`RunningIsWatched` names exactly this exception, and `RunningEventuallyEnds` fails
as soon as apiserver may crash). perf is started with `-p -1` for a whole-system
profile, which `Perf.h:23` promises and perf refuses; `Process.cpp:44` reads the state
letter of `/proc/pid/stat` as a number, so that the CPU share is always 0.

## 6. Not modelled, and why

- What is in a TaskDesc, what perf records, what the suggestions say, the LLM: data
  that no step of the system decides on.
- The branch of CreateTask for `success = false` (`task.go:132`), since drop_server answers
  success always; a failed INSERT, which returns before any change; equal prefixes of
  two uuids (the unique index makes it a failed INSERT).
- The arithmetic of the deadlines (`task.go:89`): the model lets a deadline pass at any
  moment, a wrapped one included.
- Users, login, suggestions' lists, middleware: requests over single rows.
- `Process` (text of /proc, its result is only passed on), `Log`, `Daemon`, an empty
  `ScriptRunner`: no path of a task depends on them.
- The parsers of the analysis: pure functions over text; only their success counts here.
- The content of the working directory that two analyzers of one task on one machine
  share (NoSecondAnalyzer says which two can meet there); all web
  pages but the result page; third-party scripts and deployment files.
- A crash of apiserver between the RUNNING update and the start of the watcher
  (`task.go:146` and `:156`): `Dispatched` is one step, and a crash just after it kills the
  watcher, which leaves the row RUNNING in the same way.
- A perf or mc child that survives the kill of its agent. Such an mc may still store its
  object; no process is told of it, and no row becomes DONE for it.

What could come next: `Process` and the parsers as operators against a reference
definition, and in the proofs what remains of the registry: that every request of an agent
whose history is clean ends in one audit entry.
