------------------------------- MODULE TaskApi -------------------------------
(***************************************************************************)
(* apiserver: the task handlers (CreateTask, RetryTask, DeleteTask) and    *)
(* the collection watcher, over the rows of hotmethod_task in PostgreSQL.  *)
(* Rows survive a crash of the process; its goroutines do not.             *)
(***************************************************************************)
EXTENDS Wire

VARIABLES
    status,      \* status[t]: column status, "ABSENT" = no such row
    deleted,     \* deleted[t]: deleted_at is set (gorm soft delete)
    dropClient,  \* the process has a client for drop_server
    handler,     \* handler[t]: the request that made row t
    watcher,     \* watcher[t]: the goroutine of startCollectionWatcher
    clock,       \* clock[t]: which deadlines of that watcher have passed
    uploadingMarked

apiVars ==
    <<status, deleted, dropClient, handler, watcher, clock, uploadingMarked>>

Statuses == {"PENDING", "RUNNING", "UPLOADING", "DONE", "FAILED"}

HandlerStates ==
    {"none",                                \* no request has this tid
     "inserted", "calling",                 \* CreateTask, before its return
     "dispatched", "failed", "undispatched", \* the three returns of CreateTask
     "retried",                             \* the row comes from RetryTask
     "killed"}                              \* the process died in CreateTask

WatcherStates ==
    {"none",
     "polling", "fetching",  \* its loop, between and in the calls of FetchData
     "handed",               \* the file is there: it calls triggerAnalysis
     "stopped",              \* it has returned after a failure
     "killed"}               \* the process died under it

ApiTypeOK ==
    /\ status \in [Tasks -> Statuses \cup {"ABSENT"}]
    /\ deleted \in [Tasks -> BOOLEAN]
    /\ dropClient \in BOOLEAN
    /\ handler \in [Tasks -> HandlerStates]
    /\ watcher \in [Tasks -> WatcherStates]
    /\ clock \in [Tasks -> {"collecting", "overdue", "expired"}]
    /\ uploadingMarked \in [Tasks -> BOOLEAN]

ApiInit ==
    /\ status = [t \in Tasks |-> "ABSENT"]
    /\ deleted = [t \in Tasks |-> FALSE]
    /\ dropClient \in BOOLEAN
    /\ handler = [t \in Tasks |-> "none"]
    /\ watcher = [t \in Tasks |-> "none"]
    /\ clock = [t \in Tasks |-> "collecting"]
    /\ uploadingMarked = [t \in Tasks |-> FALSE]

(* Mutant: an update that also reaches deleted rows (Unscoped, raw SQL).    *)
UpdateStatus_Unscoped(t, s) == status' = [status EXCEPT ![t] = s]

(* DB.Model(&HotmethodTask{}).Where("tid = ?").Updates(status): gorm adds   *)
(* "deleted_at IS NULL", and no caller looks at the error of the update.    *)
UpdateStatus(t, s) ==
    \/ status' = IF deleted[t] THEN status ELSE [status EXCEPT ![t] = s]
    \/ "db write" \in Faults /\ UNCHANGED status

------------------------------------------------------------------------------
(* POST /api/v1/tasks: insert the row, call drop_server, record the outcome. *)

CreateTask(t) ==
    /\ status[t] = "ABSENT"
    /\ status' = [status EXCEPT ![t] = "PENDING"]
    /\ handler' = [handler EXCEPT ![t] = "inserted"]
    /\ UNCHANGED <<wireVars, deleted, dropClient, watcher, clock, uploadingMarked>>

(* DropClient == nil: the handler answers ok and the row stays PENDING.      *)
SkipDispatch(t) ==
    /\ handler[t] = "inserted"
    /\ ~dropClient
    /\ handler' = [handler EXCEPT ![t] = "undispatched"]
    /\ UNCHANGED <<wireVars, status, deleted, dropClient>>
    /\ UNCHANGED <<watcher, clock, uploadingMarked>>

(* Mutant: drop_server is called before the row is inserted.                 *)
CallDrop_BeforeInsert(t) ==
    /\ handler[t] = "none"
    /\ dropClient
    /\ handler' = [handler EXCEPT ![t] = "calling"]
    /\ createReq' = createReq \cup {t}
    /\ UNCHANGED <<createResp, beat, carried, orphans, notifyReq>>
    /\ UNCHANGED <<status, deleted, dropClient, watcher, clock, uploadingMarked>>

CallDrop(t) ==
    /\ handler[t] = "inserted"
    /\ dropClient
    /\ handler' = [handler EXCEPT ![t] = "calling"]
    /\ createReq' = createReq \cup {t}
    /\ UNCHANGED <<createResp, beat, carried, orphans, notifyReq>>
    /\ UNCHANGED <<status, deleted, dropClient, watcher, clock, uploadingMarked>>

(* err # nil: 5 s are over or the connection failed.  The request may have   *)
(* been handled, be in flight, or be lost.                                   *)
DispatchFailed(t) ==
    /\ handler[t] = "calling"
    /\ handler' = [handler EXCEPT ![t] = "failed"]
    /\ createResp' = createResp \ {t}
    /\ UpdateStatus(t, "FAILED")
    /\ UNCHANGED <<createReq, beat, carried, orphans, notifyReq>>
    /\ UNCHANGED <<deleted, dropClient, watcher, clock, uploadingMarked>>

(* Success: the row becomes RUNNING and its watcher starts.                  *)
Dispatched(t) ==
    /\ handler[t] = "calling"
    /\ t \in createResp
    /\ handler' = [handler EXCEPT ![t] = "dispatched"]
    /\ createResp' = createResp \ {t}
    /\ UpdateStatus(t, "RUNNING")
    /\ watcher' = [watcher EXCEPT ![t] = "polling"]
    /\ UNCHANGED <<createReq, beat, carried, orphans, notifyReq>>
    /\ UNCHANGED <<deleted, dropClient, clock, uploadingMarked>>

(* POST /api/v1/tasks/:tid/retry: a new PENDING row with the parameters of   *)
(* the old one, and nothing else.                                            *)
RetryTask(old, t) ==
    /\ status[old] # "ABSENT" /\ ~deleted[old]
    /\ status[t] = "ABSENT" /\ Target[t] = Target[old]
    /\ status' = [status EXCEPT ![t] = "PENDING"]
    /\ handler' = [handler EXCEPT ![t] = "retried"]
    /\ UNCHANGED <<wireVars, deleted, dropClient, watcher, clock, uploadingMarked>>

DeleteTask(t) ==
    /\ status[t] # "ABSENT" /\ ~deleted[t]
    /\ deleted' = [deleted EXCEPT ![t] = TRUE]
    /\ UNCHANGED <<wireVars, status, dropClient, handler>>
    /\ UNCHANGED <<watcher, clock, uploadingMarked>>

------------------------------------------------------------------------------
(* The collection watcher.                                                   *)

Watching(t) == watcher[t] \in {"polling", "fetching"}

(* The goroutine leaves its loop, and its local variables are gone.          *)
LeaveLoop(t, s) ==
    /\ watcher' = [watcher EXCEPT ![t] = s]
    /\ clock' = [clock EXCEPT ![t] = "collecting"]
    /\ uploadingMarked' = [uploadingMarked EXCEPT ![t] = FALSE]

StopWatcher(t) == LeaveLoop(t, "stopped")

(* Time passes: first collectDeadline (duration), then deadline (+ 120 s).   *)
TimePasses(t) ==
    /\ Watching(t)
    /\ \/ clock[t] = "collecting" /\ clock' = [clock EXCEPT ![t] = "overdue"]
       \/ clock[t] = "overdue" /\ clock' = [clock EXCEPT ![t] = "expired"]
    /\ UNCHANGED <<wireVars, status, deleted, dropClient, handler>>
    /\ UNCHANGED <<watcher, uploadingMarked>>

(* Mutant: the deadline is logged, and the row left as it is.                *)
WatcherTimeout_NoUpdate(t) ==
    /\ watcher[t] = "polling"
    /\ clock[t] = "expired"
    /\ StopWatcher(t)
    /\ UNCHANGED <<wireVars, status, deleted, dropClient, handler>>

(* A tick after the deadline: FAILED, and the goroutine returns.             *)
WatcherTimeout(t) ==
    /\ watcher[t] = "polling"
    /\ clock[t] = "expired"
    /\ UpdateStatus(t, "FAILED")
    /\ StopWatcher(t)
    /\ UNCHANGED <<wireVars, deleted, dropClient, handler>>

(* A tick before it: once after collectDeadline mark a row that is still     *)
(* RUNNING as UPLOADING, then send FetchData.                                *)
WatcherTick(t) ==
    /\ watcher[t] = "polling"
    /\ clock[t] # "expired"
    /\ watcher' = [watcher EXCEPT ![t] = "fetching"]
    /\ IF ~uploadingMarked[t] /\ clock[t] = "overdue"
       THEN /\ uploadingMarked' = [uploadingMarked EXCEPT ![t] = TRUE]
            /\ IF status[t] = "RUNNING" THEN UpdateStatus(t, "UPLOADING")
               ELSE UNCHANGED status
       ELSE UNCHANGED <<status, uploadingMarked>>
    /\ UNCHANGED <<wireVars, deleted, dropClient, handler, clock>>

(* Mutant: return instead of continue when the call fails.                   *)
WatcherFetched_ReturnOnError(t, r) ==
    /\ watcher[t] = "fetching"
    /\ r = "unavailable"
    /\ StopWatcher(t)
    /\ UNCHANGED <<wireVars, status, deleted, dropClient, handler>>

(* FetchData returns r: an rpc error, "not done yet", the error of the agent *)
(* or a cos_key.  The last two are final; DONE also sets cos_key, and        *)
(* triggerAnalysis takes over (see Handover).                                *)
WatcherFetched(t, r) ==
    /\ watcher[t] = "fetching"
    /\ \/ /\ r \in {"unavailable", "none"}
          /\ watcher' = [watcher EXCEPT ![t] = "polling"]
          /\ UNCHANGED <<status, clock, uploadingMarked>>
       \/ /\ r = "ok"
          /\ UpdateStatus(t, "DONE")
          /\ LeaveLoop(t, "handed")
       \/ /\ r = "err"
          /\ UpdateStatus(t, "FAILED")
          /\ StopWatcher(t)
    /\ UNCHANGED <<wireVars, deleted, dropClient, handler>>

------------------------------------------------------------------------------
(* The process dies and is started again, perhaps with another configuration *)
(* of drop_server_addr.  main does not look for unfinished rows.             *)
ApiserverCrash ==
    /\ "apiserver crash" \in Faults
    /\ handler' = [t \in Tasks |-> IF handler[t] \in {"inserted", "calling"}
                                   THEN "killed" ELSE handler[t]]
    /\ watcher' = [t \in Tasks |-> IF Watching(t) \/ watcher[t] = "handed"
                                   THEN "killed" ELSE watcher[t]]
    /\ clock' = [t \in Tasks |-> "collecting"]
    /\ uploadingMarked' = [t \in Tasks |-> FALSE]
    /\ dropClient' \in BOOLEAN
    /\ UNCHANGED <<wireVars, status, deleted>>
=============================================================================
