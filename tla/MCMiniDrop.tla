----------------------------- MODULE MCMiniDrop -----------------------------
(***************************************************************************)
(* Small instances of MiniDrop for TLC.                                    *)
(***************************************************************************)
EXTENDS MiniDrop, TLC

CONSTANTS t1, t2, t3, a1, a2

(* Every task for the same agent: they meet in its two queues.              *)
OneAgent == [t \in Tasks |-> a1]

(* One task for the first agent, the others for the second.                 *)
TwoAgents == [t \in Tasks |-> IF t = t1 THEN a1 ELSE a2]

(* TLC may swap tasks that start alike and have the same agent.             *)
TaskSymmetry == Permutations(Tasks)
OtherTasks == Permutations(Tasks \ {t1})

CONSTANT Loaded  \* the tasks that are under way in the first state

ASSUME Loaded \subseteq Tasks

(* A state that Spec reaches when Faults allows apiserver to crash: it sent  *)
(* the CreateTask requests of the loaded tasks, crashed before any answer,   *)
(* and the user deleted the rows.  From here the handlers and watchers of    *)
(* these tasks are out of the way, and TLC can follow more tasks from        *)
(* drop_server to the storage.  With Loaded = {} it is Init.                 *)
LoadedInit ==
    /\ createReq = Loaded
    /\ createResp = {}
    /\ beat = [a \in Agents |-> "idle"]
    /\ carried = [a \in Agents |-> NoTask]
    /\ orphans = [a \in Agents |-> 0]
    /\ notifyReq = {}
    /\ status = [t \in Tasks |-> IF t \in Loaded THEN "PENDING" ELSE "ABSENT"]
    /\ handler = [t \in Tasks |-> IF t \in Loaded THEN "killed" ELSE "none"]
    /\ deleted = [t \in Tasks |-> t \in Loaded]
    /\ dropClient \in BOOLEAN
    /\ watcher = [t \in Tasks |-> "none"]
    /\ clock = [t \in Tasks |-> "collecting"]
    /\ uploadingMarked = [t \in Tasks |-> FALSE]
    /\ DropInit /\ AgentInit

LoadedSpec == LoadedInit /\ [][Next]_vars
LoadedFairSpec == LoadedSpec /\ WatcherFairness /\ HeartbeatFairness
=============================================================================
