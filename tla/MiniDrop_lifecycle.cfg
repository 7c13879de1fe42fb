SPECIFICATION Spec
CONSTANTS
    t1 = t1
    t2 = t2
    t3 = t3
    a1 = a1
    a2 = a2
    NoTask = NoTask
    Tasks = {t1, t2}
    Loaded = {}
    Agents = {a1}
    Target <- OneAgent
    MaxOrphans = 0
    Faults = {"apiserver crash", "drop_server crash"}
SYMMETRY TaskSymmetry
INVARIANTS
    TypeOK
    DoneMeansCollected
    WorkHasRow
    RunningIsWatched
PROPERTIES
    LifecycleSpec
CHECK_DEADLOCK FALSE
