SPECIFICATION AgentFairSpec
CONSTANTS
    Tasks = {t1, t2}
    NoTask = NoTask
    Self = Self
INVARIANTS
    AgentTypeOK
    QueueIsGuarded
    NoTaskMissed
    StopIsHeard
    QuietExit
    RecordLeavesNothing
    ReapDoesNotBlock
    StoredIsComplete
PROPERTIES
    ImplementsDropAgent
    HeartbeatGoesOn
    QueuedIsTakenUp
    ShutdownEnds
CHECK_DEADLOCK FALSE
