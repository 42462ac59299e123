SPECIFICATION Spec
SYMMETRY Symmetry
CONSTANTS
    NoId = NoId
    Inputs = {}
    Calls = {}
    Goals = {g1, g2}
    Models = {m1}
    Scopes = {s1, s2}
    MaxTurns = 1
    MaxCycles = 1
    MaxIrc = 1
    MaxParallel = 1
CHECK_DEADLOCK FALSE
INVARIANTS ConsumedWasReceived
PROPERTIES FinishedGoalStaysFinished
