CONSTANTS
    Drones = {d1, d2}
    Targets = {d1, all}
    Broadcast = all
    Throttles <- MCThrottles
    Durations = {2}
    SenderCeiling = 20
    Ceiling = 15
    SeqMod = 2
    MaxTests = 2
    Asks <- MCAsks
    None = None
SPECIFICATION Spec
INVARIANTS TypeOK  OkIsHonest
PROPERTIES ResponderListens
CHECK_DEADLOCK FALSE
