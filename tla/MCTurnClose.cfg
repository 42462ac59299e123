SPECIFICATION DriverSpec
CONSTANTS
    NoId = 0
    Inputs = {i1}
    Calls = {1}
    Goals = {}
    Models = {m1}
    Scopes = {}
    MaxTurns = 1
    MaxCycles = 1
    MaxIrc = 0
    MaxParallel = 1
    InputKinds = {"steer"}
    MaxRetries = 0
    MaxEdges = 1
    MaxCrashes = 0
    MaxFaults = 0
    Graphs <- OneCall
INVARIANTS ClosesAreAccepted
