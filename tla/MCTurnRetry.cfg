SPECIFICATION DriverSpec
CONSTANTS
    NoId = 0
    Inputs = {i1}
    Calls = {}
    Goals = {g1}
    Models = {m1, m2}
    Scopes = {}
    MaxTurns = 1
    MaxCycles = 2
    MaxIrc = 0
    MaxParallel = 1
    InputKinds = {"steer", "interrupt", "model", "control", "exit"}
    MaxRetries = 1
    MaxEdges = 1
    MaxCrashes = 1
    MaxFaults = 0
    Graphs <- NoGraphs
PROPERTIES UnattendedRetriesAreBounded CancelSurvivesRestart TurnComesToRest
