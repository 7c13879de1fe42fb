------------------------------ MODULE DropAgent ------------------------------
(***************************************************************************)
(* drop_agent: the heartbeat thread (HealthCheckChannel::Run), the local   *)
(* task queue, and the worker thread (HotmethodChannel::Run and ExecTask)  *)
(* that records, uploads and reports one task at a time.                   *)
(***************************************************************************)
EXTENDS Wire

VARIABLES
    up,          \* up[a]: the agent process runs
    task_queue,  \* task_queue[a]: HealthCheckChannel::task_queue_
    worker,      \* worker[a]: where the worker thread is
    job,         \* job[a]: the task ExecTask runs
    objects,     \* MinIO: the tids t with an object t/perf.data
    runs         \* history: how often a worker took t up

agentVars == <<up, task_queue, worker, job, objects, runs>>

WorkerStates ==
    {"waiting", "recording", "uploading", "reportOk", "reportErr", "notifying"}

AgentTypeOK ==
    /\ up \in [Agents -> BOOLEAN]
    /\ task_queue \in [Agents -> Seq(Tasks)]
    /\ worker \in [Agents -> WorkerStates]
    /\ job \in [Agents -> MaybeTask]
    /\ objects \subseteq Tasks
    /\ runs \in [Tasks -> Nat]

AgentInit ==
    /\ up = [a \in Agents |-> FALSE]
    /\ task_queue = [a \in Agents |-> <<>>]
    /\ worker = [a \in Agents |-> "waiting"]
    /\ job = [a \in Agents |-> NoTask]
    /\ objects = {}
    /\ runs = [t \in Tasks |-> 0]

(* main: both threads are started; a failed registration does not matter.   *)
StartAgent(a) ==
    /\ ~up[a]
    /\ up' = [up EXCEPT ![a] = TRUE]
    /\ UNCHANGED <<wireVars, task_queue, worker, job, objects, runs>>

------------------------------------------------------------------------------
(* The heartbeat thread.                                                     *)

(* Mutant: the heartbeat thread runs the task itself, and waits for it.      *)
SendHeartbeat_Blocking(a) ==
    /\ up[a]
    /\ beat[a] = "idle"
    /\ worker[a] = "waiting"
    /\ beat' = [beat EXCEPT ![a] = "sent"]
    /\ UNCHANGED <<createReq, createResp, carried, orphans, notifyReq, agentVars>>

SendHeartbeat(a) ==
    /\ up[a]
    /\ beat[a] = "idle"
    /\ beat' = [beat EXCEPT ![a] = "sent"]
    /\ UNCHANGED <<createReq, createResp, carried, orphans, notifyReq, agentVars>>

(* The agent stops waiting for its call.  A reply, and the task in it, is    *)
(* dropped; a request that has reached drop_server is still served there.    *)
Abandon(a) ==
    /\ beat' = [beat EXCEPT ![a] = "idle"]
    /\ carried' = [carried EXCEPT ![a] = NoTask]
    /\ \/ UNCHANGED orphans
       \/ /\ beat[a] = "sent"
          /\ orphans[a] < MaxOrphans
          /\ orphans' = [orphans EXCEPT ![a] = @ + 1]
    /\ UNCHANGED <<createReq, createResp, notifyReq>>

(* status is not ok: the 3 s deadline has passed or the connection broke.    *)
HeartbeatFailed(a) ==
    /\ up[a]
    /\ beat[a] # "idle"
    /\ Abandon(a)
    /\ UNCHANGED agentVars

(* Mutant: pending is not looked at.                                         *)
HeartbeatReply_IgnorePending(a) ==
    /\ up[a]
    /\ beat[a] = "replied"
    /\ beat' = [beat EXCEPT ![a] = "idle"]
    /\ carried' = [carried EXCEPT ![a] = NoTask]
    /\ task_queue' = [task_queue EXCEPT ![a] = Append(@, carried[a])]
    /\ UNCHANGED <<createReq, createResp, orphans, notifyReq>>
    /\ UNCHANGED <<up, worker, job, objects, runs>>

(* status is ok: a pending task is pushed to task_queue_.                    *)
HeartbeatReply(a) ==
    /\ up[a]
    /\ beat[a] = "replied"
    /\ beat' = [beat EXCEPT ![a] = "idle"]
    /\ carried' = [carried EXCEPT ![a] = NoTask]
    /\ task_queue' = IF carried[a] = NoTask THEN task_queue
                     ELSE [task_queue EXCEPT ![a] = Append(@, carried[a])]
    /\ UNCHANGED <<createReq, createResp, orphans, notifyReq>>
    /\ UNCHANGED <<up, worker, job, objects, runs>>

------------------------------------------------------------------------------
(* The worker thread.                                                        *)

PopTask(a) ==
    /\ up[a]
    /\ worker[a] = "waiting"
    /\ task_queue[a] # <<>>
    /\ job' = [job EXCEPT ![a] = Head(task_queue[a])]
    /\ task_queue' = [task_queue EXCEPT ![a] = Tail(@)]
    /\ worker' = [worker EXCEPT ![a] = "recording"]
    /\ runs' = [runs EXCEPT ![Head(task_queue[a])] = @ + 1]
    /\ UNCHANGED <<wireVars, up, objects>>

(* Perf::Record succeeds or fails (spawn failure, perf error, hard timeout). *)
Record(a) ==
    /\ up[a]
    /\ worker[a] = "recording"
    /\ \E s \in {"uploading", "reportErr"} : worker' = [worker EXCEPT ![a] = s]
    /\ UNCHANGED <<wireVars, up, task_queue, job, objects, runs>>

(* COSClient::Init and PutFile.  When mc fails, the object may be there all  *)
(* the same: mc can break off after the storage has taken it.                *)
PutFile(a) ==
    /\ up[a]
    /\ worker[a] = "uploading"
    /\ \/ /\ worker' = [worker EXCEPT ![a] = "reportOk"]
          /\ objects' = objects \cup {job[a]}
       \/ /\ worker' = [worker EXCEPT ![a] = "reportErr"]
          /\ objects' \in {objects, objects \cup {job[a]}}
    /\ UNCHANGED <<wireVars, up, task_queue, job, runs>>

(* ExecTask calls NotifyResult, with a cos_key or an error_message.          *)
NotifyResult(a) ==
    /\ up[a]
    /\ worker[a] \in {"reportOk", "reportErr"}
    /\ LET outcome == IF worker[a] = "reportOk" THEN "ok" ELSE "err"
       IN  notifyReq' = notifyReq \cup {<<job[a], outcome>>}
    /\ worker' = [worker EXCEPT ![a] = "notifying"]
    /\ UNCHANGED <<createReq, createResp, beat, carried, orphans>>
    /\ UNCHANGED <<up, task_queue, job, objects, runs>>

(* Mutant: a call that fails is tried again, as the report of a failure.     *)
NotifyReturn_Retry(a) ==
    /\ up[a]
    /\ worker[a] = "notifying"
    /\ \/ /\ worker' = [worker EXCEPT ![a] = "waiting"]
          /\ job' = [job EXCEPT ![a] = NoTask]
       \/ /\ worker' = [worker EXCEPT ![a] = "reportErr"]
          /\ UNCHANGED job
    /\ UNCHANGED <<wireVars, up, task_queue, objects, runs>>

(* The call returns: answered, refused or past its 10 s deadline.  A failure *)
(* is only logged; the worker goes on to the next task.                      *)
NotifyReturn(a) ==
    /\ up[a]
    /\ worker[a] = "notifying"
    /\ worker' = [worker EXCEPT ![a] = "waiting"]
    /\ job' = [job EXCEPT ![a] = NoTask]
    /\ UNCHANGED <<wireVars, up, task_queue, objects, runs>>

------------------------------------------------------------------------------
(* The process dies with its queue, its task and its heartbeat call.         *)
AgentCrash(a) ==
    /\ "agent crash" \in Faults
    /\ up[a]
    /\ up' = [up EXCEPT ![a] = FALSE]
    /\ task_queue' = [task_queue EXCEPT ![a] = <<>>]
    /\ worker' = [worker EXCEPT ![a] = "waiting"]
    /\ job' = [job EXCEPT ![a] = NoTask]
    /\ Abandon(a)
    /\ UNCHANGED <<objects, runs>>
=============================================================================
