SPECIFICATION Spec
CONSTANTS
    Lanes = {l1}
    Requests = {r1}
    None = None
    MaxTries = 2
    MaxActions = 3
    MaxFaults = 2
INVARIANTS TypeOK MarkIsLifted
PROPERTIES StopSparesReported Awakened
CHECK_DEADLOCK FALSE
