SPECIFICATION AgentSpec
CONSTANTS
    Tasks = {t1}
    NoTask = NoTask
INVARIANT WorkerIsAwakeAtStop
CHECK_DEADLOCK FALSE
