CONSTANTS
    BrakeAfter = 2
    DisarmAfter = 6
    Throttle = 3
    CallTime = 4
    Uptime = 1
    MaxTime = 20
    None = None
SPECIFICATION Spec
INVARIANTS TypeOK BrakeInTime DisarmInTime
CHECK_DEADLOCK FALSE
