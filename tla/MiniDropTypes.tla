---------------------------- MODULE MiniDropTypes ----------------------------
(***************************************************************************)
(* Type correctness of MiniDrop, for every set of tasks and agents, every  *)
(* assignment of tasks to agents and every combination of faults.          *)
(***************************************************************************)
EXTENDS MiniDrop, SequenceTheorems, TLAPS

(* A worker that is not waiting has a task: what PutFile stores and         *)
(* NotifyResult reports has a name.  TypeOK is inductive only with it.      *)
BusyHasJob == \A a \in Agents : worker[a] # "waiting" => job[a] \in Tasks

(* What the Seq operators used by the queues return.                        *)
LEMMA EmptyType == ASSUME NEW S PROVE <<>> \in Seq(S)
  BY EmptySeq

LEMMA AppendType ==
    ASSUME NEW S, NEW q \in Seq(S), NEW x \in S
    PROVE  /\ Append(q, x) \in Seq(S)
           /\ Len(Append(q, x)) = Len(q) + 1
           /\ \A i \in 1..Len(q) : Append(q, x)[i] = q[i]
           /\ Append(q, x)[Len(q) + 1] = x
  OBVIOUS

LEMMA TailType ==
    ASSUME NEW S, NEW q \in Seq(S), q # <<>>
    PROVE  /\ Head(q) \in S
           /\ Head(q) = q[1]
           /\ Len(q) \in Nat \ {0}
           /\ Tail(q) \in Seq(S)
           /\ Len(Tail(q)) = Len(q) - 1
           /\ \A i \in 1..Len(Tail(q)) : Tail(q)[i] = q[i + 1]
  OBVIOUS

(* PopTaskForAgent returns a task or nothing, and leaves a queue of tasks.  *)
LEMMA PopType ==
    ASSUME DropTypeOK, NEW a \in Agents
    PROVE  Popped(a) \in MaybeTask /\ AfterPop(a) \in Seq(Tasks)
<1>1. tasks[a] \in Seq(Tasks)
  BY DEF DropTypeOK
<1>2. QED
  BY <1>1, TailType DEF Popped, AfterPop, MaybeTask

(* An update of a row writes a status.                                      *)
LEMMA UpdateType ==
    ASSUME ApiTypeOK, NEW t \in Tasks, NEW s \in Statuses, UpdateStatus(t, s)
    PROVE  status' \in [Tasks -> Statuses \cup {"ABSENT"}]
  BY DEF ApiTypeOK, UpdateStatus

LEMMA TypeInit == Init => TypeOK
  BY WireAssumption
     DEF Init, TypeOK, WireInit, ApiInit, DropInit, AgentInit,
         WireTypeOK, ApiTypeOK, DropTypeOK, AgentTypeOK,
         MaybeTask, Outcomes, Statuses, HandlerStates, WatcherStates, WorkerStates

(* A step of apiserver.                                                     *)
LEMMA ApiStepType ==
    ASSUME TypeOK, ApiOnly, NEW t \in Tasks,
           \/ CreateTask(t) \/ SkipDispatch(t) \/ CallDrop(t)
           \/ DispatchFailed(t) \/ Dispatched(t) \/ DeleteTask(t)
           \/ \E old \in Tasks : RetryTask(old, t)
           \/ TimePasses(t) \/ WatcherTimeout(t) \/ WatcherTick(t)
           \/ WatcherFetch(t)
    PROVE  TypeOK'
<1> USE DEF TypeOK, ApiOnly, wireVars, dropVars, agentVars, WireTypeOK, DropTypeOK,
            AgentTypeOK, MaybeTask
<1>1. CASE CreateTask(t)
  BY <1>1 DEF CreateTask, ApiTypeOK, Statuses, HandlerStates
<1>2. CASE SkipDispatch(t)
  BY <1>2 DEF SkipDispatch, ApiTypeOK, HandlerStates
<1>3. CASE CallDrop(t)
  BY <1>3 DEF CallDrop, ApiTypeOK, HandlerStates
<1>4. CASE DispatchFailed(t)
  BY <1>4, UpdateType DEF DispatchFailed, ApiTypeOK, Statuses, HandlerStates
<1>5. CASE Dispatched(t)
  BY <1>5, UpdateType DEF Dispatched, ApiTypeOK, WatcherStates, Statuses, HandlerStates
<1>6. CASE DeleteTask(t)
  BY <1>6 DEF DeleteTask, ApiTypeOK
<1>7. CASE \E old \in Tasks : RetryTask(old, t)
  BY <1>7 DEF RetryTask, ApiTypeOK, Statuses, HandlerStates
<1>8. CASE TimePasses(t)
  BY <1>8 DEF TimePasses, ApiTypeOK
<1>9. CASE WatcherTimeout(t)
  BY <1>9, UpdateType DEF WatcherTimeout, StopWatcher, LeaveLoop, ApiTypeOK, WatcherStates, Statuses
<1>10. CASE WatcherTick(t)
  BY <1>10, UpdateType DEF WatcherTick, ApiTypeOK, WatcherStates, Statuses
<1>11. CASE WatcherFetch(t)
  <2>1. PICK r : WatcherFetched(t, r)
    BY <1>11 DEF WatcherFetch
  <2>2. status' \in [Tasks -> Statuses \cup {"ABSENT"}]
    BY <2>1, UpdateType DEF WatcherFetched, ApiTypeOK, Statuses
  <2>3. \/ watcher' = [watcher EXCEPT ![t] = "polling"] /\ UNCHANGED <<clock, uploadingMarked>>
        \/ \E s \in WatcherStates : LeaveLoop(t, s)
    BY <2>1 DEF WatcherFetched, StopWatcher, WatcherStates
  <2>4. UNCHANGED <<wireVars, deleted, dropClient, handler>>
    BY <2>1 DEF WatcherFetched
  <2>5. watcher' \in [Tasks -> WatcherStates]
    <3>1. PICK s \in WatcherStates : watcher' = [watcher EXCEPT ![t] = s]
      BY <2>3 DEF LeaveLoop, WatcherStates
    <3> HIDE DEF TypeOK, ApiOnly, WireTypeOK, DropTypeOK, AgentTypeOK
    <3> QED
      BY <3>1 DEF TypeOK, ApiTypeOK
  <2>6. clock' \in [Tasks -> {"collecting", "overdue", "expired"}]
        /\ uploadingMarked' \in [Tasks -> BOOLEAN]
    <3> HIDE DEF ApiOnly, WireTypeOK, DropTypeOK, AgentTypeOK
    <3> QED
      BY <2>3 DEF LeaveLoop, ApiTypeOK
  <2>7. ApiTypeOK'
    BY <2>2, <2>4, <2>5, <2>6 DEF ApiTypeOK
  <2> QED
    BY <2>4, <2>7
<1>12. QED
  BY <1>1, <1>2, <1>3, <1>4, <1>5, <1>6, <1>7, <1>8, <1>9, <1>10, <1>11

(* What a process leaves alone keeps its type.                              *)
LEMMA ApiSame == ApiTypeOK /\ UNCHANGED apiVars => ApiTypeOK'
  BY DEF ApiTypeOK, apiVars

LEMMA DropSame == DropTypeOK /\ UNCHANGED dropVars => DropTypeOK'
  BY DEF DropTypeOK, dropVars

LEMMA AgentSame == AgentTypeOK /\ UNCHANGED agentVars => AgentTypeOK'
  BY DEF AgentTypeOK, agentVars

LEMMA WireSame == WireTypeOK /\ UNCHANGED wireVars => WireTypeOK'
  BY DEF WireTypeOK, wireVars

(* A step of drop_server.                                                   *)
LEMMA DropStepType ==
    ASSUME TypeOK, DropOnly,
           \/ \E t \in Tasks : \/ DropCreateTask(t)
                               \/ \E o \in Outcomes : DropNotifyResult(t, o)
           \/ \E a \in Agents : Do(a) \/ DoAbandoned(a)
           \/ DropServerCrash
    PROVE  TypeOK'
<1>1. ApiTypeOK' /\ AgentTypeOK'
  BY ApiSame, AgentSame DEF TypeOK, DropOnly
<1>2. WireTypeOK /\ DropTypeOK
  BY DEF TypeOK
<1>3. ASSUME NEW t \in Tasks, DropCreateTask(t) PROVE WireTypeOK' /\ DropTypeOK'
  <2>1. Target[t] \in Agents /\ tasks[Target[t]] \in Seq(Tasks)
    BY <1>2, WireAssumption DEF DropTypeOK
  <2>2. Append(tasks[Target[t]], t) \in Seq(Tasks)
    BY <2>1, AppendType
  <2>3. WireTypeOK'
    BY <1>2, <1>3 DEF DropCreateTask, WireTypeOK
  <2>4. tasks' \in [Agents -> Seq(Tasks)]
    BY <1>2, <1>3, <2>2 DEF DropCreateTask, DropTypeOK
  <2>5. arrival' \in [Tasks -> Nat] /\ accepted' \in [Agents -> Nat] /\ results' = results
    BY <1>2, <1>3, <2>1 DEF DropCreateTask, DropTypeOK
  <2>6. QED
    BY <1>2, <2>3, <2>4, <2>5 DEF DropTypeOK
<1>4. ASSUME NEW t \in Tasks, NEW o \in Outcomes, DropNotifyResult(t, o)
      PROVE  WireTypeOK' /\ DropTypeOK'
  BY <1>2, <1>4 DEF DropNotifyResult, WireTypeOK, DropTypeOK
<1>5. ASSUME NEW a \in Agents, Do(a) PROVE WireTypeOK' /\ DropTypeOK'
  <2>1. Popped(a) \in MaybeTask /\ AfterPop(a) \in Seq(Tasks)
    BY <1>2, PopType
  <2>2. QED
    BY <1>2, <1>5, <2>1 DEF Do, WireTypeOK, DropTypeOK
<1>6. ASSUME NEW a \in Agents, DoAbandoned(a) PROVE WireTypeOK' /\ DropTypeOK'
  <2>1. AfterPop(a) \in Seq(Tasks)
    BY <1>2, PopType
  <2>2. tasks' \in [Agents -> Seq(Tasks)]
    BY <1>2, <1>6, <2>1 DEF DoAbandoned, DropTypeOK
  <2>3. orphans' \in [Agents -> 0..MaxOrphans]
    BY <1>2, <1>6, WireAssumption DEF DoAbandoned, WireTypeOK
  <2>4. QED
    BY <1>2, <1>6, <2>2, <2>3 DEF DoAbandoned, WireTypeOK, DropTypeOK
<1>7. ASSUME DropServerCrash PROVE WireTypeOK' /\ DropTypeOK'
  <2>1. tasks' \in [Agents -> Seq(Tasks)]
    BY <1>7, EmptyType DEF DropServerCrash
  <2>2. orphans' \in [Agents -> 0..MaxOrphans]
    <3>1. 0 \in 0..MaxOrphans
      BY WireAssumption
    <3>2. QED
      BY <1>7, <3>1 DEF DropServerCrash
  <2>3. results' \in [Tasks -> Outcomes \cup {"none"}]
    BY <1>7 DEF DropServerCrash
  <2>4. QED
    BY <1>2, <1>7, <2>1, <2>2, <2>3 DEF DropServerCrash, WireTypeOK, DropTypeOK
<1>8. WireTypeOK' /\ DropTypeOK'
  BY <1>3, <1>4, <1>5, <1>6, <1>7
<1>9. QED
  BY <1>1, <1>8 DEF TypeOK

(* An abandoned heartbeat call.                                             *)
LEMMA AbandonType ==
    ASSUME WireTypeOK, NEW a \in Agents, Abandon(a)
    PROVE  WireTypeOK'
  BY WireAssumption DEF WireTypeOK, Abandon, MaybeTask

(* A step of an agent.                                                      *)
LEMMA AgentStepType ==
    ASSUME TypeOK, BusyHasJob, AgentOnly, NEW a \in Agents,
           \/ StartAgent(a) \/ SendHeartbeat(a) \/ HeartbeatFailed(a)
           \/ HeartbeatReply(a) \/ PopTask(a) \/ Record(a) \/ PutFile(a)
           \/ NotifyResult(a) \/ NotifyReturn(a) \/ AgentCrash(a)
    PROVE  TypeOK'
<1>1. ApiTypeOK' /\ DropTypeOK'
  BY ApiSame, DropSame DEF TypeOK, AgentOnly
<1>2. WireTypeOK /\ AgentTypeOK
  BY DEF TypeOK
<1>. SUFFICES WireTypeOK' /\ AgentTypeOK'
  BY <1>1 DEF TypeOK
<1>3. CASE StartAgent(a)
  BY <1>2, <1>3 DEF StartAgent, wireVars, WireTypeOK, AgentTypeOK
<1>4. CASE SendHeartbeat(a)
  BY <1>2, <1>4 DEF SendHeartbeat, agentVars, WireTypeOK, AgentTypeOK
<1>5. CASE HeartbeatFailed(a)
  BY <1>2, <1>5, AbandonType, AgentSame DEF HeartbeatFailed
<1>6. CASE HeartbeatReply(a)
  <2>1. carried[a] \in MaybeTask /\ task_queue[a] \in Seq(Tasks)
    BY <1>2 DEF AgentTypeOK, WireTypeOK
  <2>2. carried[a] # NoTask => Append(task_queue[a], carried[a]) \in Seq(Tasks)
    BY <2>1, AppendType DEF MaybeTask
  <2>3. task_queue' \in [Agents -> Seq(Tasks)]
    BY <1>2, <1>6, <2>2 DEF HeartbeatReply, AgentTypeOK
  <2>4. WireTypeOK'
    BY <1>2, <1>6 DEF HeartbeatReply, WireTypeOK, MaybeTask
  <2>5. QED
    BY <1>2, <1>6, <2>3, <2>4 DEF HeartbeatReply, AgentTypeOK
<1>7. CASE PopTask(a)
  <2>1. Head(task_queue[a]) \in Tasks /\ Tail(task_queue[a]) \in Seq(Tasks)
    BY <1>2, <1>7, TailType DEF PopTask, AgentTypeOK
  <2>2. task_queue' \in [Agents -> Seq(Tasks)]
    BY <1>2, <1>7, <2>1 DEF PopTask, AgentTypeOK
  <2>3. job' \in [Agents -> MaybeTask] /\ worker' \in [Agents -> WorkerStates]
    BY <1>2, <1>7, <2>1 DEF PopTask, AgentTypeOK, MaybeTask, WorkerStates
  <2>4. runs' \in [Tasks -> Nat]
    BY <1>2, <1>7, <2>1 DEF PopTask, AgentTypeOK
  <2>5. WireTypeOK'
    BY <1>2, <1>7, WireSame DEF PopTask
  <2>6. QED
    BY <1>2, <1>7, <2>2, <2>3, <2>4, <2>5 DEF PopTask, AgentTypeOK
<1>8. CASE Record(a)
  BY <1>2, <1>8, WireSame DEF Record, AgentTypeOK, WorkerStates
<1>9. CASE PutFile(a)
  <2>1. job[a] \in Tasks
    BY <1>9 DEF BusyHasJob, PutFile
  <2>2. worker' \in [Agents -> WorkerStates] /\ WireTypeOK'
    BY <1>2, <1>9, WireSame DEF PutFile, AgentTypeOK, WorkerStates
  <2>3. QED
    BY <1>2, <1>9, <2>1, <2>2 DEF PutFile, AgentTypeOK
<1>10. CASE NotifyResult(a)
  <2>1. job[a] \in Tasks
    BY <1>10 DEF BusyHasJob, NotifyResult
  <2>2. notifyReq' \subseteq Tasks \X Outcomes
    BY <1>2, <1>10, <2>1 DEF NotifyResult, WireTypeOK, Outcomes
  <2>3. worker' \in [Agents -> WorkerStates]
    BY <1>2, <1>10 DEF NotifyResult, AgentTypeOK, WorkerStates
  <2>4. QED
    BY <1>2, <1>10, <2>2, <2>3 DEF NotifyResult, WireTypeOK, AgentTypeOK
<1>11. CASE NotifyReturn(a)
  BY <1>2, <1>11, WireSame DEF NotifyReturn, AgentTypeOK, WorkerStates, MaybeTask
<1>12. CASE AgentCrash(a)
  BY <1>2, <1>12, AbandonType, EmptyType DEF AgentCrash, AgentTypeOK, WorkerStates, MaybeTask
<1>13. QED
  BY <1>3, <1>4, <1>5, <1>6, <1>7, <1>8, <1>9, <1>10, <1>11, <1>12

(* A busy worker keeps its task until it waits again.                       *)
LEMMA BusyHasJobStep ==
    ASSUME TypeOK, BusyHasJob, [Next]_vars
    PROVE  BusyHasJob'
<1>1. AgentTypeOK
  BY DEF TypeOK
<1>2. CASE UNCHANGED <<worker, job>>
  BY <1>2 DEF BusyHasJob
<1>3. ASSUME NEW a \in Agents, PopTask(a) PROVE BusyHasJob'
  <2>1. Head(task_queue[a]) \in Tasks
    BY <1>1, <1>3, TailType DEF PopTask, AgentTypeOK
  <2>2. QED
    BY <1>1, <1>3, <2>1 DEF PopTask, BusyHasJob, AgentTypeOK
<1>4. ASSUME NEW a \in Agents,
             Record(a) \/ PutFile(a) \/ NotifyResult(a) \/ NotifyReturn(a) \/ AgentCrash(a)
      PROVE  BusyHasJob'
  BY <1>1, <1>4 DEF Record, PutFile, NotifyResult, NotifyReturn, AgentCrash, BusyHasJob,
                    AgentTypeOK
<1>5. UNCHANGED <<worker, job>>
      \/ (\E a \in Agents : PopTask(a) \/ Record(a) \/ PutFile(a) \/ NotifyResult(a)
                           \/ NotifyReturn(a) \/ AgentCrash(a))
  BY DEF Next, vars, agentVars, ApiOnly, DropOnly, StartAgent, SendHeartbeat,
         HeartbeatFailed, HeartbeatReply
<1>6. QED
  BY <1>2, <1>3, <1>4, <1>5

THEOREM TypeStep ==
    ASSUME TypeOK, BusyHasJob, [Next]_vars
    PROVE  TypeOK'
<1>1. CASE UNCHANGED vars
  BY <1>1, WireSame, ApiSame, DropSame, AgentSame DEF vars, TypeOK, wireVars, apiVars,
     dropVars, agentVars
<1>2. CASE Next
  <2>1. CASE ApiserverCrash /\ ApiOnly
    <3>1. WireTypeOK' /\ DropTypeOK' /\ AgentTypeOK'
      BY <2>1, WireSame, DropSame, AgentSame DEF TypeOK, ApiserverCrash, ApiOnly
    <3>2. ApiTypeOK'
      BY <2>1 DEF TypeOK, ApiserverCrash, ApiTypeOK, WatcherStates, HandlerStates
    <3>3. QED
      BY <3>1, <3>2 DEF TypeOK
  <2>2. QED
    BY <1>2, <2>1, ApiStepType, DropStepType, AgentStepType DEF Next
<1>3. QED
  BY <1>1, <1>2

(* Every variable of the four parts keeps its type in every behaviour.      *)
THEOREM TypeCorrect == Spec => [](TypeOK /\ BusyHasJob)
<1>1. Init => TypeOK /\ BusyHasJob
  BY TypeInit DEF Init, AgentInit, BusyHasJob
<1>2. TypeOK /\ BusyHasJob /\ [Next]_vars => (TypeOK /\ BusyHasJob)'
  BY TypeStep, BusyHasJobStep
<1>3. QED
  BY <1>1, <1>2, PTL DEF Spec

THEOREM TypeInvariant == Spec => []TypeOK
  BY TypeCorrect, PTL
=============================================================================
