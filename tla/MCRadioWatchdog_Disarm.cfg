CONSTANTS
    BrakeAfter = 2
    DisarmAfter = 10
    Throttle = 5
    CallTime = 7
    Uptime = 10
    MaxTime = 30
    None = None
SPECIFICATION Spec
INVARIANTS DisarmAtLimit
CHECK_DEADLOCK FALSE
