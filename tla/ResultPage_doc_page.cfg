CONSTANTS
    Tasks = {1}
    BatchLimit = 1
    Poison = {}
    Python = FALSE
    Faults = {}
    Shown = 1
    MaxReplies = 1
SPECIFICATION ResultFairSpec
PROPERTY PageShowsSuggestions
CHECK_DEADLOCK FALSE
