CONSTANTS
    Tasks = {1}
    BatchLimit = 1
    Poison = {}
    Python = FALSE
    Faults = {"db write", "request lost"}
    Shown = 1
    MaxReplies = 2
SPECIFICATION ResultFairSpec
INVARIANT PageTypeOK PageShowsWhatIs
PROPERTY PageSettles
CHECK_DEADLOCK FALSE
