CONSTANTS
    Pollers = {p1}
    Values = 3
    Kinds = {"cmd", "ack"}
    Id <- MCId
    Size <- MCSize
    Messages <- MCMessages
    SeqMod = 2
    MaxFrames = 2
    MaxFaults = 1
SPECIFICATION Spec
INVARIANTS TypeOK NothingDropped BufferBounded PollSurvives
PROPERTIES ImplementsChannel EveryFrameArrives
CHECK_DEADLOCK FALSE
