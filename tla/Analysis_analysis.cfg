CONSTANTS
    Tasks = {1, 2}
    BatchLimit = 2
    Poison = {2}
    Python = TRUE
    Faults = {"apiserver crash", "worker crash", "analyzer crash", "launch"}
SPECIFICATION AnalysisSpec
INVARIANT AnalysisTypeOK DoneMeansAnalysed RunningIsWorkedOn AnalysedIsCollected
PROPERTY NoSecondAnalyzer
CHECK_DEADLOCK FALSE
