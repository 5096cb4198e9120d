\* Two threads are enough for a tick to overlap a handler or another tick.
CONSTANTS
    N = 2
    Threads = {t1, t2}
    Formations = {f1}
    None = None
    MaxPose = 2
    MaxCalls = 3
SPECIFICATION Spec
PROPERTY StaticReferenceIsStatic
CHECK_DEADLOCK FALSE
