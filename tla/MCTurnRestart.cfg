SPECIFICATION DriverSpec
CONSTANTS
    NoId = 0
    Inputs = {i1}
    Calls = {1}
    Goals = {g1}
    Models = {m1}
    Scopes = {}
    MaxTurns = 1
    MaxCycles = 1
    MaxIrc = 0
    MaxParallel = 1
    InputKinds = {"steer", "goal", "control"}
    MaxRetries = 0
    MaxEdges = 2
    MaxCrashes = 1
    MaxFaults = 1
    Graphs <- OneCall
INVARIANTS EventsAreAccepted CommandsAreOwned
