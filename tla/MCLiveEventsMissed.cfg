\* One row with one event, nothing fails, and the page stays open.
SPECIFICATION FairSpec
CONSTANTS
    Items = {i1}
    MaxId = 1
    ReplayLimit = 1
    Faults = FALSE
PROPERTY PageCatchesUp
CHECK_DEADLOCK FALSE
