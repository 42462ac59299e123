SPECIFICATION DriverSpec
CONSTANTS
    NoId = 0
    Inputs = {i1}
    Calls = {1, 2}
    Goals = {}
    Models = {m1}
    Scopes = {}
    MaxTurns = 1
    MaxCycles = 2
    MaxIrc = 0
    MaxParallel = 1
    InputKinds = {"steer", "interrupt", "control", "yield"}
    MaxRetries = 0
    MaxEdges = 2
    MaxCrashes = 0
    MaxFaults = 0
    Graphs <- TwoCalls
INVARIANTS DriverTypeOK EventsAreAccepted CommandsAreOwned
PROPERTIES LateSteeringKeepsTurn CancelledTurnDoesNoMore InterruptEndsTurn
