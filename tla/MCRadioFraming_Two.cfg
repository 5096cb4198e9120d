CONSTANTS
    Pollers = {p1, p2}
    Values = 3
    Kinds = {"cmd", "ack"}
    Id <- MCId
    Size <- MCSize
    Messages <- MCMessages
    SeqMod = 2
    MaxFrames = 2
    MaxFaults = 0
SPECIFICATION Spec
INVARIANTS PollSurvives
CHECK_DEADLOCK FALSE
