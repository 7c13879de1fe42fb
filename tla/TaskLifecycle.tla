---------------------------- MODULE TaskLifecycle ----------------------------
(***************************************************************************)
(* What Mini-Drop promises about a task, without saying how: the statuses  *)
(* a hotmethod_task row goes through, that a DONE row has its perf.data in *)
(* storage, and that a deleted row is never touched again.                 *)
(***************************************************************************)
CONSTANT Tasks

VARIABLES
    status,   \* the row's status, "ABSENT" before it exists
    deleted,  \* the row is soft-deleted
    objects   \* tasks with perf.data in object storage

Init ==
    /\ status = [t \in Tasks |-> "ABSENT"]
    /\ deleted = [t \in Tasks |-> FALSE]
    /\ objects = {}

Move(t, from, to) ==
    /\ status[t] \in from
    /\ status' = [status EXCEPT ![t] = to]

Create(t) ==
    Move(t, {"ABSENT"}, "PENDING") /\ UNCHANGED <<deleted, objects>>

Start(t) ==
    ~deleted[t] /\ Move(t, {"PENDING"}, "RUNNING") /\ UNCHANGED <<deleted, objects>>

CollectionOver(t) ==
    ~deleted[t] /\ Move(t, {"RUNNING"}, "UPLOADING") /\ UNCHANGED <<deleted, objects>>

Fail(t) ==
    /\ ~deleted[t]
    /\ Move(t, {"PENDING", "RUNNING", "UPLOADING"}, "FAILED")
    /\ UNCHANGED <<deleted, objects>>

Store(t) ==
    /\ status[t] # "ABSENT"
    /\ objects' = objects \cup {t}
    /\ UNCHANGED <<status, deleted>>

Complete(t) ==
    /\ ~deleted[t]
    /\ t \in objects
    /\ Move(t, {"RUNNING", "UPLOADING"}, "DONE")
    /\ UNCHANGED <<deleted, objects>>

Delete(t) ==
    /\ status[t] # "ABSENT"
    /\ deleted' = [deleted EXCEPT ![t] = TRUE]
    /\ UNCHANGED <<status, objects>>

Next ==
    \E t \in Tasks :
        \/ Create(t) \/ Start(t) \/ CollectionOver(t) \/ Fail(t)
        \/ Store(t) \/ Complete(t) \/ Delete(t)

Spec == Init /\ [][Next]_<<status, deleted, objects>>
=============================================================================
