----------------------------- MODULE DropServer -----------------------------
(***************************************************************************)
(* drop_server: the per-agent task queues of ControlService, the results   *)
(* table of HotmethodService, and the part of HealthCheckService::Do that  *)
(* hands a queued task to the agent in the heartbeat reply.  Both tables   *)
(* live in memory only.                                                    *)
(***************************************************************************)
EXTENDS Wire

VARIABLES
    tasks,    \* tasks[a]: ControlServiceImpl::tasks_, a deque per ip
    results,  \* results[t]: HotmethodServiceImpl::results_, "none" = no entry
    arrival,  \* history: the number t got in the queue of its agent, 0 = none
    accepted  \* history: how many tasks were ever queued for agent a

dropVars == <<tasks, results, arrival, accepted>>

DropTypeOK ==
    /\ tasks \in [Agents -> Seq(Tasks)]
    /\ results \in [Tasks -> Outcomes \cup {"none"}]
    /\ arrival \in [Tasks -> Nat]
    /\ accepted \in [Agents -> Nat]

DropInit ==
    /\ tasks = [a \in Agents |-> <<>>]
    /\ results = [t \in Tasks |-> "none"]
    /\ arrival = [t \in Tasks |-> 0]
    /\ accepted = [a \in Agents |-> 0]

(* Mutant: push_front instead of push_back.                                 *)
DropCreateTask_PushFront(t) ==
    /\ t \in createReq
    /\ createReq' = createReq \ {t}
    /\ createResp' = createResp \cup {t}
    /\ tasks' = [tasks EXCEPT ![Target[t]] = <<t>> \o @]
    /\ accepted' = [accepted EXCEPT ![Target[t]] = @ + 1]
    /\ arrival' = [arrival EXCEPT ![t] = accepted[Target[t]] + 1]
    /\ UNCHANGED <<beat, carried, orphans, notifyReq, results>>

(* Mutant: the task goes to every queue, not to that of target_ip.          *)
DropCreateTask_AnyQueue(t) ==
    /\ t \in createReq
    /\ createReq' = createReq \ {t}
    /\ createResp' = createResp \cup {t}
    /\ tasks' = [a \in Agents |-> Append(tasks[a], t)]
    /\ accepted' = [accepted EXCEPT ![Target[t]] = @ + 1]
    /\ arrival' = [arrival EXCEPT ![t] = accepted[Target[t]] + 1]
    /\ UNCHANGED <<beat, carried, orphans, notifyReq, results>>

(* ControlServiceImpl::CreateTask: queue the task and answer success; there *)
(* is no check that the agent exists, and no other answer.                  *)
DropCreateTask(t) ==
    /\ t \in createReq
    /\ createReq' = createReq \ {t}
    /\ createResp' = createResp \cup {t}
    /\ tasks' = [tasks EXCEPT ![Target[t]] = Append(@, t)]
    /\ accepted' = [accepted EXCEPT ![Target[t]] = @ + 1]
    /\ arrival' = [arrival EXCEPT ![t] = accepted[Target[t]] + 1]
    /\ UNCHANGED <<beat, carried, orphans, notifyReq, results>>

(* ControlServiceImpl::PopTaskForAgent: what it returns, and what it leaves. *)
Popped(a) == IF tasks[a] = <<>> THEN NoTask ELSE Head(tasks[a])
AfterPop_Peek(a) == tasks[a]  \* mutant: front() without pop_front()
AfterPop(a) == IF tasks[a] = <<>> THEN <<>> ELSE Tail(tasks[a])

(* The end of HealthCheckServiceImpl::Do for a call the agent waits for.    *)
Do(a) ==
    /\ beat[a] = "sent"
    /\ beat' = [beat EXCEPT ![a] = "replied"]
    /\ carried' = [carried EXCEPT ![a] = Popped(a)]
    /\ tasks' = [tasks EXCEPT ![a] = AfterPop(a)]
    /\ UNCHANGED <<createReq, createResp, orphans, notifyReq>>
    /\ UNCHANGED <<results, arrival, accepted>>

(* Mutant: the task of an abandoned call is queued again, behind the others. *)
DoAbandoned_Requeue(a) ==
    /\ orphans[a] > 0
    /\ orphans' = [orphans EXCEPT ![a] = @ - 1]
    /\ tasks' = [tasks EXCEPT ![a] = IF @ = <<>> THEN @ ELSE Append(Tail(@), Head(@))]
    /\ UNCHANGED <<createReq, createResp, beat, carried, notifyReq>>
    /\ UNCHANGED <<results, arrival, accepted>>

(* The same end of Do, for a call whose deadline has passed: Do never looks *)
(* at the context, so it pops a task and the reply goes nowhere.            *)
DoAbandoned(a) ==
    /\ orphans[a] > 0
    /\ orphans' = [orphans EXCEPT ![a] = @ - 1]
    /\ tasks' = [tasks EXCEPT ![a] = AfterPop(a)]
    /\ UNCHANGED <<createReq, createResp, beat, carried, notifyReq>>
    /\ UNCHANGED <<results, arrival, accepted>>

(* HotmethodServiceImpl::NotifyResult: overwrite the entry of the task.     *)
DropNotifyResult(t, o) ==
    /\ <<t, o>> \in notifyReq
    /\ notifyReq' = notifyReq \ {<<t, o>>}
    /\ results' = [results EXCEPT ![t] = o]
    /\ UNCHANGED <<createReq, createResp, beat, carried, orphans>>
    /\ UNCHANGED <<tasks, arrival, accepted>>

(* Mutant: found is not looked at, an empty error counts as success.        *)
FetchData_IgnoreFound(t) == IF results[t] = "none" THEN "ok" ELSE results[t]

(* ControlServiceImpl::FetchData over HotmethodServiceImpl::GetResult:      *)
(* "none" is the answer "task not done yet or not found".                   *)
FetchData(t) == results[t]

(* The process dies and is started again: both tables and the handlers that *)
(* were running are gone.                                                   *)
DropServerCrash ==
    /\ "drop_server crash" \in Faults
    /\ tasks' = [a \in Agents |-> <<>>]
    /\ results' = [t \in Tasks |-> "none"]
    /\ orphans' = [a \in Agents |-> 0]
    /\ UNCHANGED <<createReq, createResp, beat, carried, notifyReq>>
    /\ UNCHANGED <<arrival, accepted>>
=============================================================================
