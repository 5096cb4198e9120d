CONSTANTS
    N = 2
    Spacing = 1
    Names = {"vee"}
    Turns = {1}
    LockHeading = FALSE
    Home <- MCHome
    Deployments <- MCDeployments
    Flights <- MCFlights
    Nowhere <- MCNowhere
    MaxCalls = 2
    None = None
SPECIFICATION Spec
INVARIANTS TypeOK TrueFramesKeepApart
PROPERTIES FormationIsFlown ErrorVanishes
CHECK_DEADLOCK FALSE
