SPECIFICATION DriverSpec
CONSTANTS
    NoId = 0
    Inputs = {i1}
    Calls = {}
    Goals = {}
    Models = {m1}
    Scopes = {}
    MaxTurns = 1
    MaxCycles = 2
    MaxIrc = 0
    MaxParallel = 1
    InputKinds = {"interrupt"}
    MaxRetries = 0
    MaxEdges = 1
    MaxCrashes = 0
    MaxFaults = 1
    Graphs <- NoGraphs
PROPERTIES HeldWorkDoesNotSpin
