CONSTANTS
    Callers = {c1, c2}
    Followers = {d1, d2}
    SeqMod = 3
    MaxCommands = 2
    MaxRestarts = 0
    None = None
SPECIFICATION Spec
PROPERTIES ImplementsMavros
CHECK_DEADLOCK FALSE
