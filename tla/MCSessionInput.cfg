SPECIFICATION Spec
SYMMETRY Symmetry
CONSTANTS
    NoId = NoId
    Inputs = {i1, i2}
    Calls = {}
    Goals = {}
    Models = {m1, m2}
    Scopes = {}
    MaxTurns = 2
    MaxCycles = 1
    MaxIrc = 0
    MaxParallel = 1
CHECK_DEADLOCK FALSE
INVARIANTS OpenResponseKeepsModel
PROPERTIES SteeringIsHonoured AcceptedPromptIsHonoured
