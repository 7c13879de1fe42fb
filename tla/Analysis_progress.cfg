CONSTANTS
    Tasks = {1, 2}
    BatchLimit = 1
    Poison = {2}
    Python = TRUE
    Faults = {}
SPECIFICATION AnalysisFairSpec
PROPERTY CollectedIsAnalysed
CHECK_DEADLOCK FALSE
