CONSTANTS
    Tasks = {1, 2}
    BatchLimit = 2
    Poison = {}
    Python = TRUE
    Faults = {}
SPECIFICATION AnalysisSpec
PROPERTY AnalysedStaysAnalysed
CHECK_DEADLOCK FALSE
