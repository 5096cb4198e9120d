CONSTANTS
    Drones = {d1, d2}
    Handlers = {h1}
    MaxTries = 2
    MaxOps = 2
    MaxLeft = 1
    None = None
SPECIFICATION Spec
INVARIANTS TypeOK LandedIsTrue
PROPERTIES OperationsReturn LandedSettles
CHECK_DEADLOCK FALSE
