-------------------------------- MODULE Wire --------------------------------
(***************************************************************************)
(* What the processes of Mini-Drop share: the identities of tasks and      *)
(* agents, and the gRPC calls that are in flight between apiserver,        *)
(* drop_server and the drop_agents.  No process can see whether the other  *)
(* end has already handled a call, so every call is a message of its own.  *)
(* A request that stays in flight for ever is a lost one.                  *)
(***************************************************************************)
EXTENDS Naturals, Sequences

CONSTANTS
    Tasks,       \* tids (hotmethod_task.tid), fresh uuids
    Agents,      \* agents, identified by their ip_addr
    Target,      \* Target[t]: the agent of column target_ip
    NoTask,      \* "no TaskDesc": pending = false, an idle worker
    MaxOrphans,  \* bound: Do handlers whose caller gave up, per agent
    Faults       \* the faults that may happen (see FaultKinds)

FaultKinds == {"apiserver crash", "drop_server crash", "agent crash", "db write"}

ASSUME WireAssumption ==
    /\ Target \in [Tasks -> Agents]
    /\ NoTask \notin Tasks
    /\ MaxOrphans \in Nat
    /\ Faults \subseteq FaultKinds

VARIABLES
    createReq,   \* tids whose CreateTask request travels to drop_server
    createResp,  \* tids whose CreateTask reply (success) travels back
    beat,        \* beat[a]: the heartbeat call of agent a
    carried,     \* carried[a]: the task_desc in the reply to that call
    orphans,     \* orphans[a]: Do handlers still running for abandoned calls
    notifyReq    \* NotifyResult requests that travel to drop_server

wireVars == <<createReq, createResp, beat, carried, orphans, notifyReq>>

Outcomes == {"ok", "err"}
MaybeTask == Tasks \cup {NoTask}

WireTypeOK ==
    /\ createReq \subseteq Tasks
    /\ createResp \subseteq Tasks
    /\ beat \in [Agents -> {"idle", "sent", "replied"}]
    /\ carried \in [Agents -> MaybeTask]
    /\ orphans \in [Agents -> 0..MaxOrphans]
    /\ notifyReq \subseteq Tasks \X Outcomes

WireInit ==
    /\ createReq = {}
    /\ createResp = {}
    /\ beat = [a \in Agents |-> "idle"]
    /\ carried = [a \in Agents |-> NoTask]
    /\ orphans = [a \in Agents |-> 0]
    /\ notifyReq = {}
=============================================================================
