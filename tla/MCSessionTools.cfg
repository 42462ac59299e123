SPECIFICATION Spec
SYMMETRY Symmetry
CONSTANTS
    NoId = NoId
    Inputs = {i1}
    Calls = {c1, c2}
    Goals = {}
    Models = {m1}
    Scopes = {}
    MaxTurns = 1
    MaxCycles = 2
    MaxIrc = 0
    MaxParallel = 2
CHECK_DEADLOCK FALSE
INVARIANTS TypeOK IdleIsSettled CallsCanSettle OneCallPerHandle SteeredHasSteering ReadOnlyTurnIsInert
PROPERTIES NoResultDropped
