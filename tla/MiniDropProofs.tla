--------------------------- MODULE MiniDropProofs ---------------------------
(***************************************************************************)
(* The safety properties of MiniDrop, proved for every set of tasks and    *)
(* agents and for every combination of faults from one inductive           *)
(* invariant.                                                              *)
(***************************************************************************)
EXTENDS MiniDropTypes

(* A row and the request that made it: a task is sent once at most, and only *)
(* after its row is there; only the handler moves a row that is being sent.  *)
RowInv ==
    \A t \in Tasks :
        /\ status[t] = "ABSENT" <=> handler[t] = "none"
        /\ handler[t] \in {"inserted", "calling"} => status[t] = "PENDING"
        /\ handler[t] \in {"none", "inserted"} => t \notin createReq /\ arrival[t] = 0
        /\ t \in createReq => arrival[t] = 0
        /\ arrival[t] = 0 => runs[t] = 0
        /\ Watching(t) => handler[t] = "dispatched"

(* The numbers that drop_server gave rise along a queue, and from the        *)
(* agent's queue over the reply under way to drop_server's queue.            *)
Rising(q, num) ==
    \A i, j \in 1..Len(q) : i < j => num[q[i]] < num[q[j]]

Ordered(a) ==
    /\ Rising(tasks[a], arrival)
    /\ Rising(task_queue[a], arrival)
    /\ \A x \in ElementsOf(task_queue[a]), y \in Carried(a) : arrival[x] < arrival[y]
    /\ \A x \in ElementsOf(task_queue[a]), y \in ElementsOf(tasks[a]) :
          arrival[x] < arrival[y]
    /\ \A x \in Carried(a), y \in ElementsOf(tasks[a]) : arrival[x] < arrival[y]

QueueInv ==
    /\ \A t \in Tasks : arrival[t] <= accepted[Target[t]]
    /\ \A a \in Agents :
          /\ Ordered(a)
          /\ \A x \in InTransit(a) : Target[x] = a /\ arrival[x] > 0
    /\ NoOvertaking
    /\ AtMostOnce

(* The recording of t is over, and nobody will report on it any more.        *)
Over(t) ==
    /\ runs[t] = 1
    /\ \A a \in Agents : job[a] = t => worker[a] = "notifying"

(* The recording of t is over and its file is in the storage.                *)
Collected(t) == t \in objects /\ Over(t)

(* What a worker has at hand was taken up once, and for this agent.          *)
WorkerInv ==
    \A a \in Agents :
        /\ worker[a] = "reportOk" => job[a] \in objects
        /\ job[a] \in Tasks => runs[job[a]] = 1 /\ Target[job[a]] = a

(* "ok" on its way from the worker over the message and drop_server's table  *)
(* to the row.                                                               *)
Evidence(t) == <<t, "ok">> \in notifyReq \/ results[t] = "ok" \/ status[t] = "DONE"

CollectInv ==
    /\ WorkerInv
    /\ \A t \in Tasks : Evidence(t) => Collected(t)

(* A task has one result: it is on its way to drop_server or in its table,   *)
(* and while there is one no worker has another to send.                     *)
Reported(t) == results[t] # "none" \/ \E o \in Outcomes : <<t, o>> \in notifyReq

ResultInv ==
    \A t \in Tasks :
        /\ Reported(t) => Over(t)
        /\ \A o \in Outcomes : <<t, o>> \in notifyReq =>
              /\ results[t] = "none"
              /\ \A p \in Outcomes : <<t, p>> \in notifyReq => p = o

(* A reply carries a task only while the agent waits for it.                 *)
ReplyInv == \A a \in Agents : carried[a] # NoTask => beat[a] = "replied"

IInv ==
    TypeOK /\ BusyHasJob /\ RowInv /\ QueueInv /\ CollectInv /\ ResultInv /\ ReplyInv

------------------------------------------------------------------------------
(* Lemmas about queues.                                                      *)

LEMMA TailOrder ==
    ASSUME NEW num, NEW q \in Seq(Tasks), q # <<>>, Rising(q, num)
    PROVE  /\ Head(q) \in ElementsOf(q)
           /\ ElementsOf(Tail(q)) \subseteq ElementsOf(q)
           /\ \A x \in ElementsOf(Tail(q)) : num[Head(q)] < num[x]
           /\ Rising(Tail(q), num)
<1>1. /\ Head(q) = q[1]
      /\ Len(q) \in Nat \ {0}
      /\ Len(Tail(q)) = Len(q) - 1
      /\ \A i \in 1..Len(Tail(q)) : Tail(q)[i] = q[i + 1]
  BY TailType
<1>2. Head(q) \in ElementsOf(q)
  BY <1>1 DEF ElementsOf
<1>3. ElementsOf(Tail(q)) \subseteq ElementsOf(q)
  BY <1>1 DEF ElementsOf
<1>4. \A x \in ElementsOf(Tail(q)) : num[Head(q)] < num[x]
  BY <1>1 DEF ElementsOf, Rising
<1>5. Rising(Tail(q), num)
  BY <1>1 DEF Rising
<1>6. QED
  BY <1>2, <1>3, <1>4, <1>5

LEMMA AppendElements ==
    ASSUME NEW q \in Seq(Tasks), NEW t \in Tasks
    PROVE  ElementsOf(Append(q, t)) = ElementsOf(q) \cup {t}
<1>1. /\ Len(q) \in Nat
      /\ Len(Append(q, t)) = Len(q) + 1
      /\ \A i \in 1..Len(q) : Append(q, t)[i] = q[i]
      /\ Append(q, t)[Len(q) + 1] = t
  BY AppendType
<1>2. 1..Len(Append(q, t)) = (1..Len(q)) \cup {Len(q) + 1}
  BY <1>1
<1>3. QED
  BY <1>1, <1>2 DEF ElementsOf

LEMMA AppendOrder ==
    ASSUME NEW num, NEW q \in Seq(Tasks), NEW t \in Tasks, Rising(q, num),
           \A x \in ElementsOf(q) : num[x] < num[t]
    PROVE  Rising(Append(q, t), num)
<1>1. /\ Len(q) \in Nat
      /\ Len(Append(q, t)) = Len(q) + 1
      /\ \A i \in 1..Len(q) : Append(q, t)[i] = q[i]
      /\ Append(q, t)[Len(q) + 1] = t
  BY AppendType
<1>2. ASSUME NEW i \in 1..Len(Append(q, t)), NEW j \in 1..Len(Append(q, t)), i < j
      PROVE  num[Append(q, t)[i]] < num[Append(q, t)[j]]
  <2>1. i \in 1..Len(q)
    BY <1>1, <1>2
  <2>2. CASE j = Len(q) + 1
    BY <1>1, <2>1, <2>2 DEF ElementsOf
  <2>3. CASE j # Len(q) + 1
    <3>1. j \in 1..Len(q)
      BY <1>1, <1>2, <2>3
    <3>2. QED
      BY <1>1, <1>2, <2>1, <3>1 DEF Rising
  <2>4. QED
    BY <2>2, <2>3
<1>3. QED
  BY <1>2 DEF Rising

(* What is on its way is a task.                                             *)
LEMMA InTransitTasks ==
    ASSUME TypeOK, NEW a \in Agents
    PROVE  /\ InTransit(a) \subseteq Tasks
           /\ ElementsOf(tasks[a]) \subseteq Tasks
           /\ ElementsOf(task_queue[a]) \subseteq Tasks
           /\ Carried(a) \subseteq Tasks
           /\ tasks[a] \in Seq(Tasks)
           /\ task_queue[a] \in Seq(Tasks)
<1>1. tasks[a] \in Seq(Tasks) /\ task_queue[a] \in Seq(Tasks) /\ carried[a] \in MaybeTask
  BY DEF TypeOK, DropTypeOK, AgentTypeOK, WireTypeOK
<1>2. ASSUME NEW q \in Seq(Tasks) PROVE ElementsOf(q) \subseteq Tasks
  BY DEF ElementsOf
<1>3. QED
  BY <1>1, <1>2 DEF InTransit, Carried, MaybeTask

(* A task on its way has not been taken up.                                  *)
LEMMA InTransitNotRun ==
    ASSUME TypeOK, QueueInv, NEW a \in Agents, NEW t \in InTransit(a)
    PROVE  runs[t] = 0
<1>1. t \in Tasks /\ arrival[t] \in Nat
  BY InTransitTasks DEF TypeOK, DropTypeOK
<1>2. QED
  BY <1>1 DEF QueueInv, NoOvertaking

------------------------------------------------------------------------------
(* RowInv                                                                    *)

LEMMA RowInit == Init => RowInv
  BY DEF Init, WireInit, ApiInit, DropInit, AgentInit, RowInv, Watching

(* An update of a row never removes it, and touches no other row.            *)
LEMMA UpdateRow ==
    ASSUME TypeOK, NEW t \in Tasks, NEW s \in Statuses, UpdateStatus(t, s)
    PROVE  /\ \A u \in Tasks \ {t} : status'[u] = status[u]
           /\ status'[t] \in {status[t], s}
           /\ "ABSENT" \notin Statuses
  BY DEF TypeOK, ApiTypeOK, UpdateStatus, Statuses

LEMMA RowApi ==
    ASSUME TypeOK, RowInv, ApiOnly, NEW t \in Tasks,
           \/ CreateTask(t) \/ SkipDispatch(t) \/ CallDrop(t)
           \/ DispatchFailed(t) \/ Dispatched(t) \/ DeleteTask(t)
           \/ \E old \in Tasks : RetryTask(old, t)
    PROVE  RowInv'
<1> USE DEF RowInv, Watching, TypeOK, ApiTypeOK, ApiOnly, dropVars, agentVars, wireVars
<1>1. CASE CreateTask(t)
  BY <1>1 DEF CreateTask
<1>2. CASE SkipDispatch(t)
  BY <1>2 DEF SkipDispatch
<1>3. CASE CallDrop(t)
  BY <1>3 DEF CallDrop, Statuses
<1>4. CASE DispatchFailed(t)
  BY <1>4, UpdateRow DEF DispatchFailed, Statuses
<1>5. CASE Dispatched(t)
  BY <1>5, UpdateRow DEF Dispatched, Statuses
<1>6. CASE DeleteTask(t)
  BY <1>6 DEF DeleteTask
<1>7. CASE \E old \in Tasks : RetryTask(old, t)
  BY <1>7 DEF RetryTask
<1>8. QED
  BY <1>1, <1>2, <1>3, <1>4, <1>5, <1>6, <1>7

LEMMA RowWatcher ==
    ASSUME TypeOK, RowInv, ApiOnly, NEW t \in Tasks,
           TimePasses(t) \/ WatcherTimeout(t) \/ WatcherTick(t) \/ WatcherFetch(t)
    PROVE  RowInv'
<1>1. UNCHANGED <<createReq, handler, arrival, runs>>
  BY DEF ApiOnly, dropVars, agentVars, TimePasses, WatcherTimeout, WatcherTick,
         WatcherFetch, WatcherFetched, wireVars
<1>2. Watching(t)
  BY DEF TimePasses, WatcherTimeout, WatcherTick, WatcherFetch, WatcherFetched, Watching
<1>3. /\ \A u \in Tasks \ {t} : status'[u] = status[u]
      /\ status[t] # "ABSENT" => status'[t] # "ABSENT"
  BY UpdateRow DEF TimePasses, WatcherTimeout, WatcherTick, WatcherFetch, WatcherFetched,
     Statuses
<1>4. \A u \in Tasks : Watching(u)' => Watching(u)
  BY <1>2 DEF TimePasses, WatcherTimeout, WatcherTick, WatcherFetch, WatcherFetched,
     StopWatcher, LeaveLoop, Watching, TypeOK, ApiTypeOK
<1>5. QED
  BY <1>1, <1>2, <1>3, <1>4 DEF RowInv

LEMMA RowStep ==
    ASSUME TypeOK, RowInv, QueueInv, [Next]_vars
    PROVE  RowInv'
<1>1. CASE UNCHANGED vars
  BY <1>1 DEF vars, wireVars, apiVars, dropVars, agentVars, RowInv, Watching
<1>2. CASE ApiserverCrash /\ ApiOnly
  BY <1>2 DEF ApiserverCrash, ApiOnly, dropVars, agentVars, wireVars, RowInv, Watching,
     TypeOK, ApiTypeOK
<1>3. ASSUME NEW t \in Tasks, DropCreateTask(t), DropOnly PROVE RowInv'
  <2>1. accepted[Target[t]] + 1 > 0
    BY WireAssumption DEF TypeOK, DropTypeOK
  <2>2. QED
    BY <1>3, <2>1 DEF DropCreateTask, DropOnly, apiVars, agentVars, RowInv, Watching,
       TypeOK, DropTypeOK, WireTypeOK
<1>4. ASSUME NEW a \in Agents, PopTask(a), AgentOnly PROVE RowInv'
  <2>1. Head(task_queue[a]) \in InTransit(a) /\ Head(task_queue[a]) \in Tasks
    BY <1>4, TailOrder, InTransitTasks DEF PopTask, QueueInv, Ordered, InTransit
  <2>2. arrival[Head(task_queue[a])] > 0
    BY <2>1 DEF QueueInv
  <2>3. QED
    BY <1>4, <2>1, <2>2 DEF PopTask, AgentOnly, apiVars, dropVars, wireVars, RowInv,
       Watching, TypeOK, AgentTypeOK
<1>5. CASE UNCHANGED <<apiVars, createReq, arrival, runs>>
  BY <1>5 DEF apiVars, RowInv, Watching
<1>6. CASE Next
  <2>1. ASSUME NEW a \in Agents, Do(a) \/ DoAbandoned(a), DropOnly
        PROVE  UNCHANGED <<apiVars, createReq, arrival, runs>>
    BY <2>1 DEF Do, DoAbandoned, DropOnly, agentVars
  <2>2. ASSUME NEW a \in Agents, AgentOnly,
               \/ StartAgent(a) \/ SendHeartbeat(a) \/ HeartbeatFailed(a)
               \/ HeartbeatReply(a) \/ Record(a) \/ PutFile(a)
               \/ NotifyResult(a) \/ NotifyReturn(a) \/ AgentCrash(a)
        PROVE  UNCHANGED <<apiVars, createReq, arrival, runs>>
    BY <2>2 DEF AgentOnly, dropVars, StartAgent, SendHeartbeat, HeartbeatFailed,
       HeartbeatReply, Record, PutFile, NotifyResult, NotifyReturn, AgentCrash, Abandon,
       wireVars, agentVars
  <2>3. ASSUME NEW t \in Tasks, NEW o \in Outcomes, DropNotifyResult(t, o), DropOnly
        PROVE  UNCHANGED <<apiVars, createReq, arrival, runs>>
    BY <2>3 DEF DropNotifyResult, DropOnly, agentVars
  <2>4. ASSUME DropServerCrash, DropOnly
        PROVE  UNCHANGED <<apiVars, createReq, arrival, runs>>
    BY <2>4 DEF DropServerCrash, DropOnly, agentVars
  <2>5. QED
    BY <1>2, <1>3, <1>4, <1>5, <1>6, <2>1, <2>2, <2>3, <2>4, RowApi, RowWatcher DEF Next
<1>7. QED
  BY <1>1, <1>6

------------------------------------------------------------------------------
(* QueueInv                                                                  *)

LEMMA QueueInit == Init => QueueInv
<1> SUFFICES ASSUME Init PROVE QueueInv
  OBVIOUS
<1>1. ASSUME NEW a \in Agents
      PROVE  /\ tasks[a] = <<>> /\ task_queue[a] = <<>> /\ carried[a] = NoTask
             /\ ElementsOf(tasks[a]) = {} /\ ElementsOf(task_queue[a]) = {}
             /\ Carried(a) = {} /\ InTransit(a) = {}
  BY <1>1 DEF Init, WireInit, DropInit, AgentInit, ElementsOf, Carried, InTransit
<1>2. \A a \in Agents : Ordered(a)
  BY <1>1 DEF Ordered, Rising
<1>3. NoOvertaking
  BY <1>1 DEF NoOvertaking
<1>4. AtMostOnce /\ \A t \in Tasks : arrival[t] <= accepted[Target[t]]
  BY WireAssumption DEF Init, DropInit, AgentInit, AtMostOnce
<1>5. QED
  BY <1>1, <1>2, <1>3, <1>4 DEF QueueInv

(* A step that only takes tasks off the way keeps the invariant.             *)
LEMMA QueueShrink ==
    ASSUME QueueInv, UNCHANGED <<arrival, accepted, runs>>,
           \A a \in Agents : Ordered(a)' /\ InTransit(a)' \subseteq InTransit(a)
    PROVE  QueueInv'
  BY DEF QueueInv, NoOvertaking, AtMostOnce

(* What happens to the queues of one agent leaves those of the others alone. *)
LEMMA QueueSame ==
    ASSUME NEW a \in Agents, tasks'[a] = tasks[a], carried'[a] = carried[a],
           task_queue'[a] = task_queue[a]
    PROVE  /\ InTransit(a)' = InTransit(a)
           /\ ElementsOf(tasks[a])' = ElementsOf(tasks[a])
           /\ ElementsOf(task_queue[a])' = ElementsOf(task_queue[a])
           /\ Carried(a)' = Carried(a)
  BY DEF InTransit, ElementsOf, Carried

LEMMA OrderedSame ==
    ASSUME NEW a \in Agents, tasks'[a] = tasks[a], carried'[a] = carried[a],
           task_queue'[a] = task_queue[a], UNCHANGED arrival, Ordered(a)
    PROVE  Ordered(a)'
<1>1. /\ ElementsOf(tasks[a])' = ElementsOf(tasks[a])
      /\ ElementsOf(task_queue[a])' = ElementsOf(task_queue[a])
      /\ Carried(a)' = Carried(a)
  BY QueueSame
<1>2. QED
  BY <1>1 DEF Ordered, Rising

LEMMA QueueOne ==
    ASSUME QueueInv, UNCHANGED <<arrival, accepted, runs>>, NEW a \in Agents,
           \A b \in Agents \ {a} : /\ tasks'[b] = tasks[b]
                                   /\ carried'[b] = carried[b]
                                   /\ task_queue'[b] = task_queue[b],
           Ordered(a)', InTransit(a)' \subseteq InTransit(a)
    PROVE  QueueInv'
<1>1. ASSUME NEW b \in Agents \ {a}
      PROVE  Ordered(b)' /\ InTransit(b)' = InTransit(b)
  BY OrderedSame, QueueSame DEF QueueInv
<1>2. QED
  BY <1>1, QueueShrink

(* The queue of an agent loses its head or, when it is empty, nothing.       *)
LEMMA PopOrder ==
    ASSUME TypeOK, NEW a \in Agents, Ordered(a)
    PROVE  /\ ElementsOf(AfterPop(a)) \subseteq ElementsOf(tasks[a])
           /\ Rising(AfterPop(a), arrival)
           /\ {Popped(a)} \ {NoTask} \subseteq ElementsOf(tasks[a])
           /\ \A x \in {Popped(a)} \ {NoTask}, y \in ElementsOf(AfterPop(a)) :
                 arrival[x] < arrival[y]
<1>1. tasks[a] \in Seq(Tasks) /\ Rising(tasks[a], arrival)
  BY InTransitTasks DEF Ordered
<1>2. CASE tasks[a] = <<>>
  BY <1>2 DEF AfterPop, Popped, ElementsOf, Rising
<1>3. CASE tasks[a] # <<>>
  <2>1. AfterPop(a) = Tail(tasks[a]) /\ Popped(a) = Head(tasks[a])
    BY <1>3 DEF AfterPop, Popped
  <2>2. QED
    BY <1>1, <1>3, <2>1, TailOrder
<1>4. QED
  BY <1>2, <1>3

LEMMA QueueDo ==
    ASSUME TypeOK, QueueInv, DropOnly, NEW a \in Agents, Do(a) \/ DoAbandoned(a)
    PROVE  QueueInv'
<1>1. /\ UNCHANGED <<arrival, accepted, runs, task_queue>>
      /\ tasks' = [tasks EXCEPT ![a] = AfterPop(a)]
      /\ carried' = carried \/ carried' = [carried EXCEPT ![a] = Popped(a)]
  BY DEF Do, DoAbandoned, DropOnly, agentVars
<1>2. tasks \in [Agents -> Seq(Tasks)] /\ carried \in [Agents -> MaybeTask]
  BY DEF TypeOK, DropTypeOK, WireTypeOK
<1>3. \A b \in Agents \ {a} : tasks'[b] = tasks[b] /\ carried'[b] = carried[b]
                              /\ task_queue'[b] = task_queue[b]
  BY <1>1, <1>2
<1>4. /\ tasks'[a] = AfterPop(a)
      /\ task_queue'[a] = task_queue[a]
      /\ carried'[a] = carried[a] \/ carried'[a] = Popped(a)
  BY <1>1, <1>2
<1>5. Ordered(a)
  BY DEF QueueInv
<1>6. /\ ElementsOf(tasks[a])' \subseteq ElementsOf(tasks[a])
      /\ ElementsOf(task_queue[a])' = ElementsOf(task_queue[a])
      /\ Carried(a)' = Carried(a) \/ Carried(a)' = {Popped(a)} \ {NoTask}
  BY <1>4, <1>5, PopOrder DEF ElementsOf, Carried
<1>7. Rising(tasks[a], arrival)' /\ Rising(task_queue[a], arrival)'
  BY <1>1, <1>4, <1>5, PopOrder DEF Rising, Ordered
<1>8. \A x \in Carried(a)', y \in ElementsOf(tasks[a])' : arrival[x] < arrival[y]
  <2>1. ElementsOf(tasks[a])' = ElementsOf(AfterPop(a))
    BY <1>4 DEF ElementsOf
  <2>2. QED
    BY <1>5, <1>6, <2>1, PopOrder DEF Ordered
<1>9. Ordered(a)'
  BY <1>1, <1>5, <1>6, <1>7, <1>8, PopOrder DEF Ordered
<1>10. InTransit(a)' \subseteq InTransit(a)
  BY <1>5, <1>6, PopOrder DEF InTransit
<1>11. QED
  BY <1>1, <1>3, <1>9, <1>10, QueueOne

LEMMA QueueAbandon ==
    ASSUME TypeOK, QueueInv, AgentOnly, NEW a \in Agents,
           HeartbeatFailed(a) \/ AgentCrash(a)
    PROVE  QueueInv'
<1>1. /\ UNCHANGED <<arrival, accepted, runs, tasks>>
      /\ task_queue' = task_queue \/ task_queue' = [task_queue EXCEPT ![a] = <<>>]
      /\ carried' = [carried EXCEPT ![a] = NoTask]
  BY DEF HeartbeatFailed, AgentCrash, AgentOnly, dropVars, agentVars, Abandon
<1>2. task_queue \in [Agents -> Seq(Tasks)] /\ carried \in [Agents -> MaybeTask]
  BY DEF TypeOK, AgentTypeOK, WireTypeOK
<1>3. \A b \in Agents \ {a} : tasks'[b] = tasks[b] /\ carried'[b] = carried[b]
                              /\ task_queue'[b] = task_queue[b]
  BY <1>1, <1>2
<1>4. /\ tasks'[a] = tasks[a]
      /\ task_queue'[a] = task_queue[a] \/ task_queue'[a] = <<>>
      /\ carried'[a] = NoTask
  BY <1>1, <1>2
<1>5. /\ ElementsOf(tasks[a])' = ElementsOf(tasks[a])
      /\ ElementsOf(task_queue[a])' \subseteq ElementsOf(task_queue[a])
      /\ Carried(a)' = {}
  BY <1>4 DEF ElementsOf, Carried
<1>6. Rising(tasks[a], arrival)' /\ Rising(task_queue[a], arrival)'
  BY <1>1, <1>4 DEF Rising, QueueInv, Ordered
<1>7. Ordered(a)'
  BY <1>1, <1>5, <1>6 DEF Ordered, QueueInv
<1>8. InTransit(a)' \subseteq InTransit(a)
  BY <1>5 DEF InTransit
<1>9. QED
  BY <1>1, <1>3, <1>7, <1>8, QueueOne

LEMMA QueueReply ==
    ASSUME TypeOK, QueueInv, AgentOnly, NEW a \in Agents, HeartbeatReply(a)
    PROVE  QueueInv'
<1>1. /\ UNCHANGED <<arrival, accepted, runs, tasks>>
      /\ task_queue' = IF carried[a] = NoTask THEN task_queue
                       ELSE [task_queue EXCEPT ![a] = Append(@, carried[a])]
      /\ carried' = [carried EXCEPT ![a] = NoTask]
  BY DEF HeartbeatReply, AgentOnly, dropVars
<1>2. task_queue \in [Agents -> Seq(Tasks)] /\ carried \in [Agents -> MaybeTask]
  BY DEF TypeOK, AgentTypeOK, WireTypeOK
<1>3. \A b \in Agents \ {a} : tasks'[b] = tasks[b] /\ carried'[b] = carried[b]
                              /\ task_queue'[b] = task_queue[b]
  BY <1>1, <1>2
<1>4. /\ tasks'[a] = tasks[a]
      /\ carried'[a] = NoTask
      /\ Carried(a)' = {}
      /\ ElementsOf(tasks[a])' = ElementsOf(tasks[a])
  BY <1>1, <1>2 DEF Carried, ElementsOf
<1>5. Rising(tasks[a], arrival)'
  BY <1>1 DEF Rising, QueueInv, Ordered
<1>6. CASE carried[a] = NoTask
  <2>1. task_queue'[a] = task_queue[a] /\ ElementsOf(task_queue[a])' = ElementsOf(task_queue[a])
    BY <1>1, <1>6 DEF ElementsOf
  <2>2. Rising(task_queue[a], arrival)'
    BY <1>1, <2>1 DEF Rising, QueueInv, Ordered
  <2>3. Ordered(a)'
    BY <1>1, <1>4, <1>5, <2>1, <2>2 DEF Ordered, QueueInv
  <2>4. InTransit(a)' \subseteq InTransit(a)
    BY <1>4, <2>1 DEF InTransit
  <2>5. QED
    BY <1>1, <1>3, <2>3, <2>4, QueueOne
<1>7. CASE carried[a] # NoTask
  <2>1. carried[a] \in Tasks /\ Carried(a) = {carried[a]} /\ task_queue[a] \in Seq(Tasks)
    BY <1>2, <1>7 DEF MaybeTask, Carried
  <2>2. task_queue'[a] = Append(task_queue[a], carried[a])
    BY <1>1, <1>2, <1>7
  <2>3. ElementsOf(task_queue[a])' = ElementsOf(task_queue[a]) \cup Carried(a)
    BY <2>1, <2>2, AppendElements DEF ElementsOf
  <2>4. Ordered(a)
    BY DEF QueueInv
  <2>5. Rising(Append(task_queue[a], carried[a]), arrival)
    BY <2>1, <2>4, AppendOrder DEF Ordered
  <2>6. Rising(task_queue[a], arrival)'
    BY <1>1, <2>2, <2>5 DEF Rising
  <2>7. Ordered(a)'
    BY <1>1, <1>4, <1>5, <2>3, <2>4, <2>6 DEF Ordered
  <2>8. InTransit(a)' \subseteq InTransit(a)
    BY <1>4, <2>3 DEF InTransit
  <2>9. QED
    BY <1>1, <1>3, <2>7, <2>8, QueueOne
<1>8. QED
  BY <1>6, <1>7

LEMMA QueueCrash ==
    ASSUME TypeOK, QueueInv, DropOnly, DropServerCrash
    PROVE  QueueInv'
<1>1. /\ UNCHANGED <<arrival, accepted, runs, task_queue, carried>>
      /\ tasks' = [a \in Agents |-> <<>>]
  BY DEF DropServerCrash, DropOnly, agentVars
<1>2. ASSUME NEW a \in Agents
      PROVE  Ordered(a)' /\ InTransit(a)' \subseteq InTransit(a)
  <2>1. /\ tasks'[a] = <<>>
        /\ ElementsOf(tasks[a])' = {}
        /\ ElementsOf(task_queue[a])' = ElementsOf(task_queue[a])
        /\ Carried(a)' = Carried(a)
    BY <1>1 DEF ElementsOf, Carried
  <2>2. Rising(tasks[a], arrival)' /\ Rising(task_queue[a], arrival)'
    BY <1>1, <2>1 DEF Rising, QueueInv, Ordered
  <2>3. QED
    BY <1>1, <2>1, <2>2 DEF Ordered, QueueInv, InTransit
<1>3. QED
  BY <1>1, <1>2, QueueShrink

(* Taking up the head of its queue is what the numbers are for: everything   *)
(* else that is on its way to this agent was queued later.                   *)
LEMMA QueuePop ==
    ASSUME TypeOK, QueueInv, AgentOnly, NEW a \in Agents, PopTask(a)
    PROVE  QueueInv'
<1> DEFINE h == Head(task_queue[a])
<1>1. /\ UNCHANGED <<arrival, accepted, tasks, carried>>
      /\ task_queue[a] # <<>>
      /\ task_queue' = [task_queue EXCEPT ![a] = Tail(@)]
      /\ runs' = [runs EXCEPT ![h] = @ + 1]
  BY DEF PopTask, AgentOnly, dropVars, wireVars
<1>2. /\ task_queue \in [Agents -> Seq(Tasks)]
      /\ runs \in [Tasks -> Nat]
      /\ arrival \in [Tasks -> Nat]
  BY DEF TypeOK, AgentTypeOK, DropTypeOK
<1>3. Ordered(a) /\ Rising(task_queue[a], arrival)
  BY DEF QueueInv, Ordered
<1>4. /\ h \in ElementsOf(task_queue[a])
      /\ ElementsOf(Tail(task_queue[a])) \subseteq ElementsOf(task_queue[a])
      /\ \A x \in ElementsOf(Tail(task_queue[a])) : arrival[h] < arrival[x]
      /\ Rising(Tail(task_queue[a]), arrival)
  BY <1>1, <1>2, <1>3, TailOrder
<1>5. h \in Tasks /\ h \in InTransit(a) /\ Target[h] = a /\ runs[h] = 0
  BY <1>4, InTransitTasks, InTransitNotRun DEF InTransit, QueueInv
<1>6. /\ task_queue'[a] = Tail(task_queue[a])
      /\ ElementsOf(task_queue[a])' = ElementsOf(Tail(task_queue[a]))
      /\ ElementsOf(tasks[a])' = ElementsOf(tasks[a])
      /\ Carried(a)' = Carried(a)
  BY <1>1, <1>2 DEF ElementsOf, Carried
<1>7. \A b \in Agents \ {a} : tasks'[b] = tasks[b] /\ carried'[b] = carried[b]
                              /\ task_queue'[b] = task_queue[b]
  BY <1>1, <1>2
<1>8. ASSUME NEW b \in Agents \ {a}
      PROVE  Ordered(b)' /\ InTransit(b)' = InTransit(b)
  BY <1>1, <1>7, OrderedSame, QueueSame DEF QueueInv
<1>9. Rising(tasks[a], arrival)' /\ Rising(task_queue[a], arrival)'
  BY <1>1, <1>3, <1>4, <1>6 DEF Rising, Ordered
<1>10. Ordered(a)'
  BY <1>1, <1>3, <1>4, <1>6, <1>9 DEF Ordered
<1>11. InTransit(a)' \subseteq InTransit(a)
  BY <1>4, <1>6 DEF InTransit
<1>12. \A x \in InTransit(a)' : arrival[h] < arrival[x]
  BY <1>3, <1>4, <1>6 DEF InTransit, Ordered
<1>13. NoOvertaking'
  <2>1. SUFFICES ASSUME NEW b \in Agents, NEW x \in InTransit(b)', NEW u \in Tasks,
                        Target[u] = b, arrival[u] >= arrival[x]
                 PROVE  runs'[u] = 0
    BY <1>1 DEF NoOvertaking
  <2>2. x \in InTransit(b) /\ x \in Tasks
    BY <1>8, <1>11, InTransitTasks
  <2>3. runs[u] = 0
    BY <2>1, <2>2 DEF QueueInv, NoOvertaking
  <2>4. u # h
    <3>1. CASE b = a
      <4>1. arrival[h] < arrival[x]
        BY <1>12, <3>1
      <4>2. QED
        BY <1>2, <1>5, <2>1, <2>2, <4>1
    <3>2. CASE b # a
      BY <1>5, <2>1, <3>2
    <3>3. QED
      BY <3>1, <3>2
  <2>5. QED
    BY <1>1, <1>2, <2>3, <2>4
<1>14. AtMostOnce'
  BY <1>1, <1>2, <1>5 DEF AtMostOnce, QueueInv
<1>15. \A b \in Agents : Ordered(b)' /\ InTransit(b)' \subseteq InTransit(b)
  BY <1>8, <1>10, <1>11
<1>16. QED
  BY <1>1, <1>13, <1>14, <1>15 DEF QueueInv

(* A task is queued for the first and only time, behind all the others.      *)
LEMMA QueueCreate ==
    ASSUME TypeOK, RowInv, QueueInv, DropOnly, NEW t \in Tasks, DropCreateTask(t)
    PROVE  QueueInv'
<1> DEFINE a == Target[t]
           n == accepted[a] + 1
<1>1. /\ UNCHANGED <<runs, task_queue, carried>>
      /\ tasks' = [tasks EXCEPT ![a] = Append(@, t)]
      /\ accepted' = [accepted EXCEPT ![a] = n]
      /\ arrival' = [arrival EXCEPT ![t] = n]
      /\ t \in createReq
  BY DEF DropCreateTask, DropOnly, agentVars
<1>2. /\ tasks \in [Agents -> Seq(Tasks)]
      /\ arrival \in [Tasks -> Nat]
      /\ accepted \in [Agents -> Nat]
      /\ runs \in [Tasks -> Nat]
      /\ Target \in [Tasks -> Agents]
  BY WireAssumption DEF TypeOK, DropTypeOK, AgentTypeOK
<1>3. arrival[t] = 0 /\ runs[t] = 0
  BY <1>1 DEF RowInv
<1>4. /\ a \in Agents /\ n \in Nat /\ n > 0 /\ accepted[a] < n
      /\ arrival'[t] = n
      /\ \A x \in Tasks \ {t} : arrival'[x] = arrival[x]
  BY <1>1, <1>2
<1>5. ASSUME NEW b \in Agents, NEW x \in InTransit(b)
      PROVE  x \in Tasks /\ x # t /\ arrival'[x] = arrival[x] /\ Target[x] = b
             /\ arrival[x] > 0 /\ arrival[x] <= accepted[b]
  <2>1. x \in Tasks /\ Target[x] = b /\ arrival[x] > 0
    BY InTransitTasks DEF QueueInv
  <2>2. arrival[x] <= accepted[Target[x]]
    BY <2>1 DEF QueueInv
  <2>3. x # t
    BY <1>3, <2>1
  <2>4. QED
    BY <1>4, <2>1, <2>2, <2>3
<1>6. ASSUME NEW b \in Agents \ {a}
      PROVE  /\ tasks'[b] = tasks[b]
             /\ ElementsOf(tasks[b])' = ElementsOf(tasks[b])
             /\ ElementsOf(task_queue[b])' = ElementsOf(task_queue[b])
             /\ Carried(b)' = Carried(b)
             /\ InTransit(b)' = InTransit(b)
  BY <1>1, <1>2 DEF ElementsOf, Carried, InTransit
<1>7. /\ tasks'[a] = Append(tasks[a], t)
      /\ ElementsOf(tasks[a])' = ElementsOf(tasks[a]) \cup {t}
      /\ ElementsOf(task_queue[a])' = ElementsOf(task_queue[a])
      /\ Carried(a)' = Carried(a)
  BY <1>1, <1>2, <1>4, AppendElements DEF ElementsOf, Carried
<1>8. InTransit(a)' = InTransit(a) \cup {t}
  BY <1>7 DEF InTransit
<1>9. ASSUME NEW b \in Agents, NEW q \in Seq(Tasks), ElementsOf(q) \subseteq InTransit(b),
             Rising(q, arrival)
      PROVE  Rising(q, arrival')
  <2>1. \A i \in 1..Len(q) : arrival'[q[i]] = arrival[q[i]]
    BY <1>5, <1>9 DEF ElementsOf
  <2>2. QED
    BY <1>9, <2>1 DEF Rising
<1>10. ASSUME NEW b \in Agents
       PROVE  Rising(task_queue[b], arrival')
  BY <1>9, InTransitTasks DEF QueueInv, Ordered, InTransit
<1>11. ASSUME NEW b \in Agents
       PROVE  Rising(tasks[b], arrival')
  BY <1>9, InTransitTasks DEF QueueInv, Ordered, InTransit
<1>12. \A x \in InTransit(a) : arrival'[x] < arrival'[t]
  BY <1>2, <1>4, <1>5
<1>13. Rising(Append(tasks[a], t), arrival')
  <2>1. ElementsOf(tasks[a]) \subseteq InTransit(a) /\ tasks[a] \in Seq(Tasks)
    BY <1>2, <1>4 DEF InTransit
  <2>2. QED
    BY <1>4, <1>11, <1>12, <2>1, AppendOrder
<1>14. ASSUME NEW b \in Agents
       PROVE  Ordered(b)'
  <2>1. Rising(tasks[b], arrival)' /\ Rising(task_queue[b], arrival)'
    <3>1. Rising(task_queue'[b], arrival')
      BY <1>1, <1>10
    <3>2. Rising(tasks'[b], arrival')
      BY <1>6, <1>7, <1>11, <1>13
    <3>3. QED
      BY <3>1, <3>2 DEF Rising
  <2>2. \A x, y \in InTransit(b) : arrival[x] < arrival[y] => arrival'[x] < arrival'[y]
    BY <1>5
  <2>3. Ordered(b)
    BY DEF QueueInv
  <2>4. CASE b # a
    BY <1>6, <2>1, <2>2, <2>3, <2>4 DEF Ordered, InTransit
  <2>5. CASE b = a
    BY <1>7, <1>12, <2>1, <2>2, <2>3, <2>5 DEF Ordered, InTransit
  <2>6. QED
    BY <2>4, <2>5
<1>15. \A b \in Agents : \A x \in InTransit(b)' : Target[x] = b /\ arrival'[x] > 0
  BY <1>4, <1>5, <1>6, <1>8
<1>16. \A u \in Tasks : arrival'[u] <= accepted'[Target[u]]
  <2>1. SUFFICES ASSUME NEW u \in Tasks PROVE arrival'[u] <= accepted'[Target[u]]
    OBVIOUS
  <2>2. arrival[u] <= accepted[Target[u]]
    BY DEF QueueInv
  <2>3. accepted[Target[u]] <= accepted'[Target[u]] /\ accepted'[a] = n
    BY <1>1, <1>2, <1>4
  <2>4. /\ accepted[Target[u]] \in Nat /\ accepted'[Target[u]] \in Nat
        /\ arrival[u] \in Nat
    BY <1>1, <1>2, <1>4
  <2>5. CASE u = t
    BY <1>4, <2>3, <2>5
  <2>6. CASE u # t
    <3>1. arrival'[u] = arrival[u]
      BY <1>4, <2>6
    <3>2. QED
      BY <2>2, <2>3, <2>4, <3>1
  <2>7. QED
    BY <2>5, <2>6
<1>17. NoOvertaking'
  <2>1. SUFFICES ASSUME NEW b \in Agents, NEW x \in InTransit(b)', NEW u \in Tasks,
                        Target[u] = b, arrival'[u] >= arrival'[x]
                 PROVE  runs[u] = 0
    BY <1>1 DEF NoOvertaking
  <2>2. CASE u = t
    BY <1>3, <2>2
  <2>3. CASE u # t /\ x = t
    <3>1. b = a
      BY <1>15, <2>1, <2>3
    <3>2. arrival[u] <= accepted[a]
      BY <2>1, <3>1 DEF QueueInv
    <3>3. QED
      BY <1>2, <1>4, <2>1, <2>3, <3>1, <3>2
  <2>4. CASE u # t /\ x # t
    <3>1. x \in InTransit(b)
      BY <1>6, <1>8, <2>1, <2>4
    <3>2. arrival[u] >= arrival[x]
      BY <1>4, <1>5, <2>1, <2>4, <3>1
    <3>3. QED
      BY <2>1, <3>1, <3>2 DEF QueueInv, NoOvertaking
  <2>5. QED
    BY <2>2, <2>3, <2>4
<1>18. AtMostOnce'
  BY <1>1 DEF AtMostOnce, QueueInv
<1>19. QED
  BY <1>14, <1>15, <1>16, <1>17, <1>18 DEF QueueInv

THEOREM QueueStep ==
    ASSUME TypeOK, RowInv, QueueInv, [Next]_vars
    PROVE  QueueInv'
<1>1. ASSUME UNCHANGED <<arrival, accepted, runs, tasks, carried, task_queue>>
      PROVE  QueueInv'
  <2>1. ASSUME NEW a \in Agents
        PROVE  Ordered(a)' /\ InTransit(a)' = InTransit(a)
    BY <1>1, OrderedSame, QueueSame DEF QueueInv
  <2>2. QED
    BY <1>1, <2>1, QueueShrink
<1>2. CASE UNCHANGED vars
  BY <1>1, <1>2 DEF vars, wireVars, dropVars, agentVars
<1>3. ASSUME ApiOnly,
             \/ ApiserverCrash
             \/ \E t \in Tasks :
                  \/ CreateTask(t) \/ SkipDispatch(t) \/ CallDrop(t)
                  \/ DispatchFailed(t) \/ Dispatched(t) \/ DeleteTask(t)
                  \/ \E old \in Tasks : RetryTask(old, t)
                  \/ TimePasses(t) \/ WatcherTimeout(t) \/ WatcherTick(t)
                  \/ WatcherFetch(t)
      PROVE  UNCHANGED <<arrival, accepted, runs, tasks, carried, task_queue>>
  BY <1>3 DEF ApiOnly, dropVars, agentVars, wireVars, ApiserverCrash, CreateTask,
     SkipDispatch, CallDrop, DispatchFailed, Dispatched, DeleteTask, RetryTask,
     TimePasses, WatcherTimeout, WatcherTick, WatcherFetch, WatcherFetched
<1>4. ASSUME NEW t \in Tasks, NEW o \in Outcomes, DropNotifyResult(t, o), DropOnly
      PROVE  UNCHANGED <<arrival, accepted, runs, tasks, carried, task_queue>>
  BY <1>4 DEF DropNotifyResult, DropOnly, agentVars
<1>5. ASSUME NEW a \in Agents, AgentOnly,
             \/ StartAgent(a) \/ SendHeartbeat(a) \/ Record(a) \/ PutFile(a)
             \/ NotifyResult(a) \/ NotifyReturn(a)
      PROVE  UNCHANGED <<arrival, accepted, runs, tasks, carried, task_queue>>
  BY <1>5 DEF AgentOnly, dropVars, StartAgent, SendHeartbeat, Record, PutFile,
     NotifyResult, NotifyReturn, wireVars, agentVars
<1>6. CASE Next
  BY <1>1, <1>3, <1>4, <1>5, <1>6, QueueCreate, QueueDo, QueueAbandon, QueueReply,
     QueuePop, QueueCrash DEF Next
<1>7. QED
  BY <1>2, <1>6

------------------------------------------------------------------------------
(* CollectInv                                                                *)

LEMMA CollectInit == Init => CollectInv
  BY WireAssumption
     DEF Init, WireInit, ApiInit, DropInit, AgentInit, CollectInv, WorkerInv, Evidence

(* Of the steps of apiserver only an answered FetchData makes a row DONE.    *)
LEMMA ApiEvidence ==
    ASSUME TypeOK, ApiOnly,
           \/ ApiserverCrash
           \/ \E t \in Tasks :
                \/ CreateTask(t) \/ SkipDispatch(t) \/ CallDrop(t)
                \/ DispatchFailed(t) \/ Dispatched(t) \/ DeleteTask(t)
                \/ \E old \in Tasks : RetryTask(old, t)
                \/ TimePasses(t) \/ WatcherTimeout(t) \/ WatcherTick(t)
                \/ WatcherFetch(t),
           NEW u \in Tasks, Evidence(u)'
    PROVE  Evidence(u)
<1>1. UNCHANGED <<notifyReq, results>>
  BY DEF ApiOnly, dropVars, agentVars, wireVars, ApiserverCrash, CreateTask,
     SkipDispatch, CallDrop, DispatchFailed, Dispatched, DeleteTask, RetryTask,
     TimePasses, WatcherTimeout, WatcherTick, WatcherFetch, WatcherFetched
<1>2. status \in [Tasks -> Statuses \cup {"ABSENT"}]
  BY DEF TypeOK, ApiTypeOK
<1>3. CASE status'[u] # "DONE"
  BY <1>1, <1>3 DEF Evidence
<1>4. CASE status'[u] = "DONE" /\ status[u] # "DONE"
  <2>1. ASSUME NEW t \in Tasks, NEW s \in Statuses, UpdateStatus(t, s)
        PROVE  s = "DONE" /\ t = u
    BY <1>2, <1>4, <2>1 DEF UpdateStatus
  <2>2. PICK t \in Tasks : WatcherFetch(t)
    <3>1. status' # status
      BY <1>4
    <3>2. ASSUME NEW t \in Tasks,
                 \/ CreateTask(t) \/ SkipDispatch(t) \/ CallDrop(t)
                 \/ DispatchFailed(t) \/ Dispatched(t) \/ DeleteTask(t)
                 \/ \E old \in Tasks : RetryTask(old, t)
                 \/ TimePasses(t) \/ WatcherTimeout(t) \/ WatcherTick(t)
          PROVE  FALSE
      <4>1. CASE CreateTask(t) \/ \E old \in Tasks : RetryTask(old, t)
        BY <1>2, <1>4, <4>1 DEF CreateTask, RetryTask
      <4>2. CASE SkipDispatch(t) \/ CallDrop(t) \/ DeleteTask(t) \/ TimePasses(t)
        BY <3>1, <4>2 DEF SkipDispatch, CallDrop, DeleteTask, TimePasses
      <4>3. CASE DispatchFailed(t) \/ Dispatched(t) \/ WatcherTimeout(t)
        BY <2>1, <4>3 DEF DispatchFailed, Dispatched, WatcherTimeout, Statuses
      <4>4. CASE WatcherTick(t)
        BY <2>1, <3>1, <4>4 DEF WatcherTick, Statuses
      <4>5. QED
        BY <3>2, <4>1, <4>2, <4>3, <4>4
    <3>3. ~ApiserverCrash
      BY <3>1 DEF ApiserverCrash
    <3>4. QED
      BY <3>2, <3>3
  <2>3. PICK r \in {"unavailable", results[t]} : WatcherFetched(t, r)
    BY <2>2 DEF WatcherFetch, FetchData
  <2>4. r = "ok" /\ t = u
    BY <1>4, <2>1, <2>3 DEF WatcherFetched, Statuses
  <2>5. QED
    BY <2>3, <2>4 DEF Evidence
<1>5. QED
  BY <1>3, <1>4 DEF Evidence

LEMMA DropEvidence ==
    ASSUME TypeOK, DropOnly,
           \/ DropServerCrash
           \/ \E t \in Tasks : \/ DropCreateTask(t)
                               \/ \E o \in Outcomes : DropNotifyResult(t, o)
           \/ \E a \in Agents : Do(a) \/ DoAbandoned(a),
           NEW u \in Tasks, Evidence(u)'
    PROVE  Evidence(u)
<1> USE DEF DropOnly, apiVars, Evidence
<1>1. CASE DropServerCrash
  BY <1>1 DEF DropServerCrash
<1>2. ASSUME NEW t \in Tasks, NEW o \in Outcomes, DropNotifyResult(t, o)
      PROVE  Evidence(u)
  BY <1>2 DEF DropNotifyResult, TypeOK, DropTypeOK
<1>3. CASE \/ \E t \in Tasks : DropCreateTask(t)
           \/ \E a \in Agents : Do(a) \/ DoAbandoned(a)
  BY <1>3 DEF DropCreateTask, Do, DoAbandoned
<1>4. QED
  BY <1>1, <1>2, <1>3

(* A recording that is over stays over: its task is never taken up again.    *)
LEMMA OverStays ==
    ASSUME TypeOK, QueueInv, [Next]_vars, NEW t \in Tasks, Over(t)
    PROVE  Over(t)'
<1>1. /\ runs \in [Tasks -> Nat] /\ job \in [Agents -> MaybeTask]
      /\ worker \in [Agents -> WorkerStates] /\ t # NoTask
  BY WireAssumption DEF TypeOK, AgentTypeOK
<1>2. CASE UNCHANGED <<runs, job, worker>>
  BY <1>2 DEF Over
<1>3. ASSUME NEW a \in Agents, PopTask(a)
      PROVE  Over(t)'
  <2>1. Head(task_queue[a]) \in InTransit(a)
    BY <1>3, TailOrder, InTransitTasks DEF PopTask, QueueInv, Ordered, InTransit
  <2>2. Head(task_queue[a]) # t
    BY <2>1, InTransitNotRun DEF Over
  <2>3. QED
    BY <1>1, <1>3, <2>2 DEF PopTask, Over
<1>4. ASSUME NEW a \in Agents, Record(a) \/ PutFile(a) \/ NotifyResult(a)
      PROVE  Over(t)'
  BY <1>1, <1>4 DEF Record, PutFile, NotifyResult, Over
<1>5. ASSUME NEW a \in Agents, NotifyReturn(a) \/ AgentCrash(a)
      PROVE  Over(t)'
  BY <1>1, <1>5 DEF NotifyReturn, AgentCrash, Over
<1>6. ASSUME NEW a \in Agents,
             \/ StartAgent(a) \/ SendHeartbeat(a) \/ HeartbeatFailed(a) \/ HeartbeatReply(a)
      PROVE  UNCHANGED <<runs, job, worker>>
  BY <1>6 DEF StartAgent, SendHeartbeat, HeartbeatFailed, HeartbeatReply, agentVars
<1>7. CASE Next
  BY <1>2, <1>3, <1>4, <1>5, <1>6, <1>7 DEF Next, ApiOnly, DropOnly, agentVars
<1>8. QED
  BY <1>2, <1>7 DEF vars, agentVars

LEMMA CollectedStays ==
    ASSUME TypeOK, QueueInv, [Next]_vars, NEW t \in Tasks, Collected(t)
    PROVE  Collected(t)'
<1>1. objects \subseteq objects'
  <2>1. CASE UNCHANGED objects
    BY <2>1
  <2>2. ASSUME NEW a \in Agents, PutFile(a) PROVE objects \subseteq objects'
    BY <2>2 DEF PutFile
  <2>3. CASE Next
    BY <2>1, <2>2, <2>3 DEF Next, ApiOnly, DropOnly, agentVars, StartAgent, SendHeartbeat,
       HeartbeatFailed, HeartbeatReply, PopTask, Record, NotifyResult, NotifyReturn, AgentCrash
  <2>4. QED
    BY <2>1, <2>3 DEF vars, agentVars
<1>2. QED
  BY <1>1, OverStays DEF Collected

LEMMA WorkerStep ==
    ASSUME TypeOK, BusyHasJob, QueueInv, WorkerInv, [Next]_vars
    PROVE  WorkerInv'
<1>1. /\ runs \in [Tasks -> Nat] /\ job \in [Agents -> MaybeTask]
      /\ worker \in [Agents -> WorkerStates] /\ NoTask \notin Tasks
  BY WireAssumption DEF TypeOK, AgentTypeOK
<1>2. CASE UNCHANGED <<objects, runs, job, worker>>
  BY <1>2 DEF WorkerInv
<1>3. ASSUME NEW a \in Agents, PopTask(a)
      PROVE  WorkerInv'
  <2> DEFINE h == Head(task_queue[a])
  <2>1. h \in InTransit(a) /\ h \in Tasks
    BY <1>3, TailOrder, InTransitTasks DEF PopTask, QueueInv, Ordered, InTransit
  <2>2. Target[h] = a /\ runs[h] = 0
    BY <2>1, InTransitNotRun DEF QueueInv
  <2>3. /\ job' = [job EXCEPT ![a] = h]
        /\ worker' = [worker EXCEPT ![a] = "recording"]
        /\ runs' = [runs EXCEPT ![h] = @ + 1]
        /\ objects' = objects
    BY <1>3 DEF PopTask
  <2>4. \A b \in Agents \ {a} : job[b] \in Tasks => runs'[job[b]] = 1
    BY <1>1, <2>2, <2>3 DEF WorkerInv
  <2>5. job'[a] = h /\ worker'[a] = "recording" /\ runs'[h] = 1
    BY <1>1, <2>1, <2>2, <2>3
  <2>6. \A b \in Agents \ {a} : job'[b] = job[b] /\ worker'[b] = worker[b]
    BY <1>1, <2>3
  <2>7. QED
    BY <2>2, <2>3, <2>4, <2>5, <2>6 DEF WorkerInv
<1>4. ASSUME NEW a \in Agents, Record(a) \/ PutFile(a) \/ NotifyResult(a)
      PROVE  WorkerInv'
  BY <1>1, <1>4 DEF Record, PutFile, NotifyResult, WorkerInv
<1>5. ASSUME NEW a \in Agents, NotifyReturn(a) \/ AgentCrash(a)
      PROVE  WorkerInv'
  BY <1>1, <1>5 DEF NotifyReturn, AgentCrash, WorkerInv
<1>6. ASSUME NEW a \in Agents,
             \/ StartAgent(a) \/ SendHeartbeat(a) \/ HeartbeatFailed(a) \/ HeartbeatReply(a)
      PROVE  UNCHANGED <<objects, runs, job, worker>>
  BY <1>6 DEF StartAgent, SendHeartbeat, HeartbeatFailed, HeartbeatReply, agentVars
<1>7. CASE Next
  BY <1>2, <1>3, <1>4, <1>5, <1>6, <1>7 DEF Next, ApiOnly, DropOnly, agentVars
<1>8. QED
  BY <1>2, <1>7 DEF vars, agentVars

(* A worker that reports "ok" has the recording behind it.                   *)
LEMMA NotifyEvidence ==
    ASSUME TypeOK, BusyHasJob, WorkerInv, AgentOnly, NEW a \in Agents, NotifyResult(a),
           NEW u \in Tasks, Evidence(u)', ~Evidence(u)
    PROVE  Collected(u)'
<1>1. /\ job \in [Agents -> MaybeTask] /\ worker \in [Agents -> WorkerStates]
  BY DEF TypeOK, AgentTypeOK
<1>2. worker[a] = "reportOk" /\ job[a] = u
  BY DEF NotifyResult, AgentOnly, dropVars, apiVars, Evidence
<1>3. u \in objects /\ runs[u] = 1 /\ Target[u] = a
  BY <1>2 DEF WorkerInv
<1>4. /\ UNCHANGED <<objects, runs, job>>
      /\ worker' = [worker EXCEPT ![a] = "notifying"]
  BY DEF NotifyResult
<1>5. \A b \in Agents : job[b] = u => b = a
  BY <1>3 DEF WorkerInv
<1>6. QED
  BY <1>1, <1>3, <1>4, <1>5 DEF Collected, Over

LEMMA CollectStep ==
    ASSUME TypeOK, BusyHasJob, QueueInv, CollectInv, [Next]_vars
    PROVE  CollectInv'
<1>1. WorkerInv'
  BY WorkerStep DEF CollectInv
<1>2. ASSUME NEW u \in Tasks, Evidence(u)
      PROVE  Collected(u)'
  BY <1>2, CollectedStays DEF CollectInv
<1>3. ASSUME NEW a \in Agents, AgentOnly,
             \/ StartAgent(a) \/ SendHeartbeat(a) \/ HeartbeatFailed(a)
             \/ HeartbeatReply(a) \/ PopTask(a) \/ Record(a) \/ PutFile(a)
             \/ NotifyReturn(a) \/ AgentCrash(a)
      PROVE  UNCHANGED <<notifyReq, results, status>>
  BY <1>3 DEF AgentOnly, dropVars, apiVars, wireVars, StartAgent, SendHeartbeat, HeartbeatFailed,
     HeartbeatReply, PopTask, Record, PutFile, NotifyReturn, AgentCrash, Abandon
<1>4. CASE UNCHANGED <<notifyReq, results, status>>
  BY <1>1, <1>2, <1>4 DEF Evidence, CollectInv
<1>5. ASSUME NEW u \in Tasks, Evidence(u)', ~Evidence(u), Next
      PROVE  Collected(u)'
  <2>1. PICK a \in Agents : NotifyResult(a) /\ AgentOnly
    BY <1>3, <1>5, ApiEvidence, DropEvidence DEF Next, Evidence
  <2>2. QED
    BY <1>5, <2>1, NotifyEvidence DEF CollectInv
<1>6. CASE UNCHANGED vars
  BY <1>4, <1>6 DEF vars, wireVars, dropVars, apiVars
<1>7. CASE Next
  BY <1>1, <1>2, <1>5, <1>7 DEF CollectInv
<1>8. QED
  BY <1>6, <1>7

------------------------------------------------------------------------------
(* ResultInv and ReplyInv                                                    *)

LEMMA ResultInit == Init => ResultInv /\ ReplyInv
  BY DEF Init, WireInit, DropInit, ResultInv, Reported, ReplyInv

(* The worker has nothing else to say of its task: it reports once.          *)
LEMMA ResultNotify ==
    ASSUME TypeOK, BusyHasJob, QueueInv, WorkerInv, ResultInv, AgentOnly, [Next]_vars,
           NEW a \in Agents, NotifyResult(a)
    PROVE  ResultInv'
<1>1. PICK t \in Tasks :
          t = job[a] /\ worker[a] # "notifying" /\ runs[t] = 1 /\ Target[t] = a
  BY DEF NotifyResult, BusyHasJob, WorkerInv
<1>2. ~Reported(t)
  BY <1>1 DEF ResultInv, Over
<1>3. PICK o \in Outcomes : notifyReq' = notifyReq \cup {<<t, o>>}
  BY <1>1 DEF NotifyResult, Outcomes
<1>4. results' = results
  BY DEF AgentOnly, dropVars
<1>5. Over(t)'
  <2>1. /\ UNCHANGED <<runs, job>>
        /\ worker' = [worker EXCEPT ![a] = "notifying"]
    BY DEF NotifyResult
  <2>2. \A b \in Agents : job[b] = t => b = a
    BY <1>1 DEF WorkerInv
  <2>3. worker'[a] = "notifying"
    BY <2>1 DEF TypeOK, AgentTypeOK
  <2>4. QED
    BY <1>1, <2>1, <2>2, <2>3 DEF Over
<1>6. ASSUME NEW u \in Tasks, u # t
      PROVE  /\ Reported(u)' => Over(u)'
             /\ \A p \in Outcomes : <<u, p>> \in notifyReq' => <<u, p>> \in notifyReq
  BY <1>3, <1>4, <1>6, OverStays DEF ResultInv, Reported
<1>7. ASSUME NEW u \in Tasks, NEW p \in Outcomes, <<u, p>> \in notifyReq'
      PROVE  /\ results'[u] = "none"
             /\ \A q \in Outcomes : <<u, q>> \in notifyReq' => q = p
  <2>1. CASE u = t
    BY <1>2, <1>3, <1>4, <1>7, <2>1 DEF Reported
  <2>2. CASE u # t
    BY <1>4, <1>6, <1>7, <2>2 DEF ResultInv
  <2>3. QED
    BY <2>1, <2>2
<1>8. ASSUME NEW u \in Tasks PROVE Reported(u)' => Over(u)'
  <2>1. CASE u = t
    BY <1>5, <2>1 DEF Over
  <2>2. CASE u # t
    BY <1>6, <2>2
  <2>3. QED
    BY <2>1, <2>2
<1>9. QED
  BY <1>7, <1>8 DEF ResultInv

(* drop_server stores a result only where it has none.                       *)
LEMMA ResultStored ==
    ASSUME TypeOK, QueueInv, ResultInv, [Next]_vars,
           NEW t \in Tasks, NEW o \in Outcomes, DropNotifyResult(t, o)
    PROVE  ResultInv' /\ results[t] = "none" /\ results' = [results EXCEPT ![t] = o]
<1>1. /\ notifyReq' = notifyReq \ {<<t, o>>}
      /\ results' = [results EXCEPT ![t] = o]
      /\ <<t, o>> \in notifyReq
      /\ results \in [Tasks -> Outcomes \cup {"none"}]
  BY DEF DropNotifyResult, TypeOK, DropTypeOK
<1>2. results[t] = "none" /\ \A p \in Outcomes : <<t, p>> \notin notifyReq'
  BY <1>1 DEF ResultInv
<1>3. \A u \in Tasks : Reported(u)' => Reported(u)
  BY <1>1 DEF Reported
<1>4. QED
  BY <1>1, <1>2, <1>3, OverStays DEF ResultInv

LEMMA ResultStep ==
    ASSUME TypeOK, BusyHasJob, QueueInv, WorkerInv, ResultInv, [Next]_vars
    PROVE  /\ ResultInv'
           /\ \A t \in Tasks : results[t] # "none" => results'[t] \in {results[t], "none"}
<1>1. CASE UNCHANGED <<notifyReq, results>>
  BY <1>1, OverStays DEF ResultInv, Reported
<1>2. CASE DropServerCrash
  <2>1. notifyReq' = notifyReq /\ results' = [t \in Tasks |-> "none"]
    BY <1>2 DEF DropServerCrash
  <2>2. \A t \in Tasks : Reported(t)' => Reported(t)
    BY <2>1 DEF Reported
  <2>3. QED
    BY <2>1, <2>2, OverStays DEF ResultInv
<1>3. ASSUME NEW t \in Tasks, NEW o \in Outcomes, DropNotifyResult(t, o)
      PROVE  /\ ResultInv'
             /\ \A u \in Tasks : results[u] # "none" => results'[u] \in {results[u], "none"}
  BY <1>3, ResultStored DEF TypeOK, DropTypeOK
<1>4. ASSUME NEW a \in Agents, NotifyResult(a), AgentOnly
      PROVE  ResultInv' /\ results' = results
  BY <1>4, ResultNotify DEF AgentOnly, dropVars
<1>5. ASSUME \/ DropOnly /\ \/ \E t \in Tasks : DropCreateTask(t)
                            \/ \E a \in Agents : Do(a) \/ DoAbandoned(a)
             \/ ApiOnly /\ \/ ApiserverCrash
                           \/ \E t \in Tasks :
                                \/ CreateTask(t) \/ SkipDispatch(t) \/ CallDrop(t)
                                \/ DispatchFailed(t) \/ Dispatched(t) \/ DeleteTask(t)
                                \/ \E old \in Tasks : RetryTask(old, t)
                                \/ TimePasses(t) \/ WatcherTimeout(t) \/ WatcherTick(t)
                                \/ WatcherFetch(t)
      PROVE  UNCHANGED <<notifyReq, results>>
  BY <1>5 DEF ApiOnly, dropVars, agentVars, wireVars, ApiserverCrash, CreateTask,
     SkipDispatch, CallDrop, DispatchFailed, Dispatched, DeleteTask, RetryTask,
     TimePasses, WatcherTimeout, WatcherTick, WatcherFetch, WatcherFetched,
     DropCreateTask, Do, DoAbandoned
<1>6. ASSUME NEW a \in Agents, AgentOnly,
             \/ StartAgent(a) \/ SendHeartbeat(a) \/ HeartbeatFailed(a)
             \/ HeartbeatReply(a) \/ PopTask(a) \/ Record(a) \/ PutFile(a)
             \/ NotifyReturn(a) \/ AgentCrash(a)
      PROVE  UNCHANGED <<notifyReq, results>>
  BY <1>6 DEF AgentOnly, dropVars, wireVars, StartAgent, SendHeartbeat, HeartbeatFailed,
     HeartbeatReply, PopTask, Record, PutFile, NotifyReturn, AgentCrash, Abandon
<1>7. CASE Next
  BY <1>1, <1>2, <1>3, <1>4, <1>5, <1>6, <1>7 DEF Next
<1>8. QED
  BY <1>1, <1>7 DEF vars, wireVars, dropVars

LEMMA ReplyStep ==
    ASSUME TypeOK, ReplyInv, [Next]_vars
    PROVE  ReplyInv'
<1>1. carried \in [Agents -> MaybeTask] /\ beat \in [Agents -> {"idle", "sent", "replied"}]
  BY DEF TypeOK, WireTypeOK
<1>2. CASE UNCHANGED <<carried, beat>>
  BY <1>2 DEF ReplyInv
<1>3. ASSUME NEW a \in Agents, Do(a) \/ SendHeartbeat(a)
      PROVE  ReplyInv'
  BY <1>1, <1>3 DEF Do, SendHeartbeat, ReplyInv
<1>4. ASSUME NEW a \in Agents, HeartbeatFailed(a) \/ HeartbeatReply(a) \/ AgentCrash(a)
      PROVE  ReplyInv'
  BY <1>1, <1>4 DEF HeartbeatFailed, HeartbeatReply, AgentCrash, Abandon, ReplyInv
<1>5. ASSUME \/ ApiserverCrash
             \/ DropServerCrash
             \/ \E t \in Tasks :
                  \/ CreateTask(t) \/ SkipDispatch(t) \/ CallDrop(t)
                  \/ DispatchFailed(t) \/ Dispatched(t) \/ DeleteTask(t)
                  \/ \E old \in Tasks : RetryTask(old, t)
                  \/ TimePasses(t) \/ WatcherTimeout(t) \/ WatcherTick(t)
                  \/ WatcherFetch(t) \/ DropCreateTask(t)
                  \/ \E o \in Outcomes : DropNotifyResult(t, o)
             \/ \E a \in Agents :
                  \/ DoAbandoned(a) \/ StartAgent(a) \/ PopTask(a) \/ Record(a)
                  \/ PutFile(a) \/ NotifyResult(a) \/ NotifyReturn(a)
      PROVE  UNCHANGED <<carried, beat>>
  BY <1>5 DEF wireVars, ApiserverCrash, CreateTask,
     SkipDispatch, CallDrop, DispatchFailed, Dispatched, DeleteTask, RetryTask,
     TimePasses, WatcherTimeout, WatcherTick, WatcherFetch, WatcherFetched,
     DropCreateTask, DoAbandoned, DropNotifyResult, DropServerCrash, StartAgent, PopTask,
     Record, PutFile, NotifyResult, NotifyReturn
<1>6. CASE Next
  BY <1>2, <1>3, <1>4, <1>5, <1>6 DEF Next
<1>7. QED
  BY <1>2, <1>6 DEF vars, wireVars

------------------------------------------------------------------------------
(* The theorems.                                                             *)

LEMMA IInvInit == Init => IInv
  BY TypeInit, RowInit, QueueInit, CollectInit, ResultInit
     DEF Init, AgentInit, BusyHasJob, IInv

LEMMA IInvStep == IInv /\ [Next]_vars => IInv'
  BY TypeStep, BusyHasJobStep, RowStep, QueueStep, CollectStep, ResultStep, ReplyStep
     DEF IInv, CollectInv

(* IInv is inductive: it says of every reachable state what the properties   *)
(* below need, and a step from any state with it leads to one with it.       *)
THEOREM Inductive == Spec => []IInv
  BY IInvInit, IInvStep, PTL DEF Spec

(* However many heartbeats fail and whatever crashes, a task that            *)
(* drop_server has handed out is never profiled a second time.               *)
THEOREM ProfiledAtMostOnce == Spec => []AtMostOnce
<1>1. IInv => AtMostOnce
  BY DEF IInv, QueueInv
<1>2. QED
  BY <1>1, Inductive, PTL

(* The order of CreateTask is the order of the recordings of one agent,      *)
(* whichever tasks are lost between them.                                    *)
THEOREM RunsInQueueOrder == Spec => []NoOvertaking
<1>1. IInv => NoOvertaking
  BY DEF IInv, QueueInv
<1>2. QED
  BY <1>1, Inductive, PTL

(* A task reaches only the agent its target_ip names.                        *)
THEOREM RunsAtItsTarget == Spec => []StaysAtTarget
<1>1. IInv => StaysAtTarget
  BY DEF IInv, TypeOK, AgentTypeOK, QueueInv, CollectInv, WorkerInv, StaysAtTarget
<1>2. QED
  BY <1>1, Inductive, PTL

(* A row is DONE only when its file is in the storage and nobody has any     *)
(* work left to do for it, even when updates of rows get lost.               *)
THEOREM DoneIsCollected == Spec => []DoneMeansCollected
<1>1. ASSUME IInv, NEW t \in Tasks, status[t] = "DONE"
      PROVE  /\ t \in objects /\ runs[t] = 1
             /\ \A a \in Agents :
                   t \notin InTransit(a) /\ (job[a] = t => worker[a] = "notifying")
  <2>1. Collected(t)
    BY <1>1 DEF IInv, CollectInv, Evidence
  <2>2. \A a \in Agents : t \notin InTransit(a)
    BY <1>1, <2>1, InTransitNotRun DEF IInv, Collected, Over
  <2>3. QED
    BY <2>1, <2>2 DEF Collected, Over
<1>2. IInv => DoneMeansCollected
  BY <1>1 DEF DoneMeansCollected
<1>3. QED
  BY <1>2, Inductive, PTL

(* Whatever is lost or late, drop_server never changes its mind about a      *)
(* task: a worker reports once, and a task has one worker.                   *)
THEOREM ResultNeverTurns == Spec => ResultIsFinal
<1>1. IInv /\ [Next]_vars
        => [\A t \in Tasks : results[t] # "none" => results'[t] \in {results[t], "none"}]_vars
  BY ResultStep DEF IInv, CollectInv
<1>2. QED
  BY <1>1, Inductive, PTL DEF Spec, ResultIsFinal

(* Work never exists without a row, wherever apiserver crashes.              *)
THEOREM WorkAlwaysHasRow == Spec => []WorkHasRow
<1>1. IInv => WorkHasRow
  BY DEF IInv, TypeOK, DropTypeOK, AgentTypeOK, RowInv, WorkHasRow
<1>2. QED
  BY <1>1, Inductive, PTL
=============================================================================
