SPECIFICATION Spec
CONSTANTS
    Lanes = {l1, l2}
    Requests = {r1}
    None = None
    MaxTries = 2
    MaxActions = 1
    MaxFaults = 0
PROPERTY RefusalReroutes
CHECK_DEADLOCK FALSE
