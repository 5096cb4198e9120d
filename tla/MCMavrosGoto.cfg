CONSTANTS
    Threads = {t1, t2, t3}
    Points = {a, b}
    Slot = Slot
    None = None
    MaxGotos = 2
SPECIFICATION Spec
INVARIANTS TypeOK FlagHasOwner
PROPERTIES FormationWins GotoReturns
