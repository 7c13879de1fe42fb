SPECIFICATION LoadedSpec
CONSTANTS
    t1 = t1
    t2 = t2
    t3 = t3
    a1 = a1
    a2 = a2
    NoTask = NoTask
    Tasks = {t1, t2, t3}
    Loaded = {t1, t2, t3}
    Agents = {a1, a2}
    Target <- TwoAgents
    MaxOrphans = 1
    Faults = {"drop_server crash", "agent crash"}
SYMMETRY OtherTasks
INVARIANTS
    AtMostOnce
    NoOvertaking
    StaysAtTarget
PROPERTIES
    ResultIsFinal
    LossyQueueSpec
CHECK_DEADLOCK FALSE
