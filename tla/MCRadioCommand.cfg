CONSTANTS
    Callers = {c1, c2}
    Followers = {d1}
    SeqMod = 2
    MaxCommands = 2
    MaxRestarts = 1
    None = None
SPECIFICATION Spec
INVARIANTS TypeOK SuccessIsHonest PendingHasCaller
PROPERTIES ImplementsService EveryCallReturns
CHECK_DEADLOCK FALSE
