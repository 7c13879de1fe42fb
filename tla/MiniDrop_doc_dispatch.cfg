SPECIFICATION Spec
CONSTANTS
    t1 = t1
    t2 = t2
    t3 = t3
    a1 = a1
    a2 = a2
    NoTask = NoTask
    Tasks = {t1, t2}
    Loaded = {}
    Agents = {a1}
    Target <- OneAgent
    MaxOrphans = 1
    Faults = {}
INVARIANTS
    FailedDispatchNotReceived
CHECK_DEADLOCK FALSE
