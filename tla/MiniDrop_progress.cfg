SPECIFICATION LoadedFairSpec
CONSTANTS
    t1 = t1
    t2 = t2
    t3 = t3
    a1 = a1
    a2 = a2
    NoTask = NoTask
    Tasks = {t1, t2}
    Loaded = {t2}
    Agents = {a1}
    Target <- OneAgent
    MaxOrphans = 1
    Faults = {"drop_server crash", "agent crash"}
PROPERTIES
    RunningEventuallyEnds
    QueuedTaskLeaves
CHECK_DEADLOCK FALSE
